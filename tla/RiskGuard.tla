----------------------------- MODULE RiskGuard ------------------------------
(***************************************************************************)
(* The admission check of engine/risk.py in the engine commands: a signal   *)
(* that has not expired and whose fields are sound is admitted while its    *)
(* symbol has had fewer than limit actions in the last Window.  The         *)
(* timestamps live in memory only.  The loop of the engine, in which the    *)
(* check is one step, is module StrategyEngine.                             *)
(*                                                                          *)
(* The checks of expiry, side, order type, quantity, notional and ids keep  *)
(* no state: a signal passes all of them or not.  time.time() is taken not  *)
(* to go back.                                                              *)
(***************************************************************************)
EXTENDS Integers, Sequences

CONSTANTS SignalSymbols, \* symbols of the signals
          Limits,        \* values of max_actions_per_minute_per_symbol, 0 for none
          Window,        \* 60 000 ms
          MaxTime,       \* bound on the time of the checks
          MaxAdmitted,   \* bound on admissions without a limit
          NoSymbol       \* "no symbol is at its limit"

ASSUME RiskAssumption ==
  /\ Limits \subseteq Nat
  /\ Window \in Nat \ {0}
  /\ MaxTime \in Nat
  /\ MaxAdmitted \in Nat
  /\ NoSymbol \notin SignalSymbols

NoGuard == -1   \* no engine has been started

VARIABLES nowMs,      \* time.time()
          limit,      \* max_actions_per_minute_per_symbol of this process, or NoGuard
          times,      \* _symbol_action_ts
          refused,    \* the symbol the last check found at its limit
          admitted    \* history: when this process admitted each symbol

riskVars == <<nowMs, limit, times, refused, admitted>>

RiskTypeOK ==
  /\ nowMs \in Nat
  /\ limit \in Limits \cup {NoGuard}
  /\ times \in [SignalSymbols -> Seq(Nat)]
  /\ \A s \in SignalSymbols : times[s] # << >> => Len(times[s]) <= limit
  /\ refused \in SignalSymbols \cup {NoSymbol}
  /\ admitted \in [SignalSymbols -> Seq(Nat)]

NoTimes == [s \in SignalSymbols |-> << >>]

RiskInit ==
  /\ nowMs = 0
  /\ limit = NoGuard
  /\ times = NoTimes
  /\ refused = NoSymbol
  /\ admitted = NoTimes

\* RiskGuard(RiskConfig(...)) with empty windows.
Construct ==
  /\ limit' \in Limits
  /\ times' = NoTimes
  /\ refused' = NoSymbol
  /\ admitted' = NoTimes
  /\ UNCHANGED nowMs

\* The engine is started.
RiskBegin == limit = NoGuard /\ Construct

-----------------------------------------------------------------------------

\* Mutants: a timestamp on the edge of the window counts as old; none does.
OldInclusive(q, k) ==
  /\ \A i \in 1..k : q[i] <= nowMs - Window
  /\ k < Len(q) => q[k + 1] > nowMs - Window
OldNever(q, k) == k = 0

\* while q and q[0] < window_start: q.popleft() removes the first k.
Old(q, k) ==
  /\ \A i \in 1..k : q[i] < nowMs - Window
  /\ k < Len(q) => q[k + 1] >= nowMs - Window

Kept(s, k) == SubSeq(times[s], k + 1, Len(times[s]))

Admit(s) ==
  /\ admitted' = [admitted EXCEPT ![s] = Append(@, nowMs)]
  /\ refused' = NoSymbol

\* Expired or unsound: refused before the rate limit is looked at.
RejectEarly ==
  /\ limit # NoGuard
  /\ refused' = NoSymbol
  /\ UNCHANGED <<nowMs, limit, times, admitted>>

Unlimited(s) ==
  /\ limit = 0
  /\ Len(admitted[s]) < MaxAdmitted
  /\ Admit(s)
  /\ UNCHANGED <<nowMs, limit, times>>

WithinLimit(s, k) ==
  /\ limit > 0 /\ Old(times[s], k)
  /\ Len(times[s]) - k < limit
  /\ times' = [times EXCEPT ![s] = Append(Kept(s, k), nowMs)]
  /\ Admit(s)
  /\ UNCHANGED <<nowMs, limit>>

OverLimit(s, k) ==
  /\ limit > 0 /\ Old(times[s], k)
  /\ Len(times[s]) - k >= limit
  /\ times' = [times EXCEPT ![s] = Kept(s, k)]
  /\ refused' = s
  /\ UNCHANGED <<nowMs, limit, admitted>>

\* The engine is started again: the windows are gone, the limit may be new.
Restart == limit # NoGuard /\ Construct

RiskTick ==
  /\ limit # NoGuard
  /\ nowMs < MaxTime
  /\ nowMs' = nowMs + 1
  /\ refused' = NoSymbol
  /\ UNCHANGED <<limit, times, admitted>>

RiskNext ==
  \/ \E s \in SignalSymbols :
       \/ Unlimited(s)
       \/ \E k \in 0..Len(times[s]) : WithinLimit(s, k) \/ OverLimit(s, k)
  \/ RejectEarly \/ Restart \/ RiskTick

-----------------------------------------------------------------------------
(***************************************************************************)
(* Properties                                                               *)
(***************************************************************************)

\* No stretch of Window, wherever it starts, holds more than limit admissions
\* of one symbol by one process: the pruned queue forgets nothing that counts.
RateLimited ==
  limit > 0 =>
    \A s \in SignalSymbols : \A i \in 1..Len(admitted[s]) - limit :
      admitted[s][i + limit] - admitted[s][i] > Window

\* Nothing is held against a symbol but its own admissions in the Window that
\* ends now: neither refused signals, nor old ones, nor other symbols.
RefusedOnlyWhenFull ==
  \A s \in SignalSymbols : refused = s =>
    /\ Len(admitted[s]) >= limit
    /\ nowMs - admitted[s][Len(admitted[s]) - limit + 1] <= Window

=============================================================================
