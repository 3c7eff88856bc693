---------------------------- MODULE TradeRequest ----------------------------
(***************************************************************************)
(* What a call of a trade client promises its caller: the exchange acts on  *)
(* the request at most once and only while the call lasts, a result means   *)
(* that it did, a refusal that it never does; only "unknown" leaves it open.*)
(***************************************************************************)
CONSTANT Requests

VARIABLES phase,     \* of each call: "idle", "open", or how it returned
          executed   \* the exchange has acted on the request

Init ==
  /\ phase = [r \in Requests |-> "idle"]
  /\ executed = [r \in Requests |-> FALSE]

Open(r) ==
  /\ phase[r] = "idle"
  /\ phase' = [phase EXCEPT ![r] = "open"]
  /\ UNCHANGED executed

Execute(r) ==
  /\ phase[r] = "open" /\ ~executed[r]
  /\ executed' = [executed EXCEPT ![r] = TRUE]
  /\ UNCHANGED phase

Return(r) ==
  /\ phase[r] \in {"idle", "open"}
  /\ \E o \in {"result", "refused", "unknown"} :
       /\ o = "result" => executed[r]
       /\ o = "refused" => ~executed[r]
       /\ phase' = [phase EXCEPT ![r] = o]
  /\ UNCHANGED executed

Next == \E r \in Requests : Open(r) \/ Execute(r) \/ Return(r)

Spec == Init /\ [][Next]_<<phase, executed>>

=============================================================================
