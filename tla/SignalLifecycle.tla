-------------------------- MODULE SignalLifecycle ---------------------------
(***************************************************************************)
(* What a strategy engine promises for every signal, whatever happens to    *)
(* the process: RECEIVED -> SENT -> ACKED/FINAL, one decision per signal,   *)
(* one order at most and only for a row that says SENT, an exchange status  *)
(* only for an order that was placed (which may be another's for a signal   *)
(* that names one), and a final status for ever.                            *)
(***************************************************************************)
EXTENDS Naturals

CONSTANTS Signals,   \* signal ids
          Placing,   \* the signals that ask for an order
          Borrowed   \* those whose ids identify an order of another signal

VARIABLES status,    \* where each signal is
          placed     \* orders placed for each signal

Ended == {"FILLED", "CANCELED", "REJECTED_BY_EXCHANGE", "EXPIRED"}
Undecided == {"SENT", "ACKED", "FAILED"}

Init ==
  /\ status = [s \in Signals |-> "NONE"]
  /\ placed = [s \in Signals |-> 0]

Receive(s) ==
  /\ status[s] = "NONE"
  /\ status' = [status EXCEPT ![s] = "RECEIVED"]
  /\ UNCHANGED placed

Decide(s) ==
  /\ status[s] = "RECEIVED"
  /\ \E d \in {"REJECTED", "SENT"} : status' = [status EXCEPT ![s] = d]
  /\ UNCHANGED placed

Order(s) ==
  /\ s \in Placing
  /\ status[s] = "SENT" /\ placed[s] = 0
  /\ placed' = [placed EXCEPT ![s] = 1]
  /\ UNCHANGED status

\* The outcome of a sent signal becomes known, or is known to be unknown.
Learn(s) ==
  /\ status[s] \in Undecided
  /\ \/ \E d \in Ended :
          /\ s \in Placing \ Borrowed => placed[s] = 1
          /\ status' = [status EXCEPT ![s] = d]
     \/ status' = [status EXCEPT ![s] = "ACKED"]
     \/ status[s] = "SENT" /\ status' = [status EXCEPT ![s] = "FAILED"]
  /\ UNCHANGED placed

Next == \E s \in Signals : Receive(s) \/ Decide(s) \/ Order(s) \/ Learn(s)

Spec == Init /\ [][Next]_<<status, placed>>

=============================================================================
