--------------------------- MODULE MCEngineHistory --------------------------
(***************************************************************************)
(* MCStrategyEngine with a history variable, for what a signal must not do  *)
(* once it has been final.                                                  *)
(***************************************************************************)
EXTENDS MCStrategyEngine
\* History: the signals whose row has ever held a final status.
VARIABLE settled

HistoryInit == Init /\ settled = {}
HistoryNext == Next /\ settled' = settled \cup {s \in Signals : IsFinal(s)}
HistorySpec == HistoryInit /\ [][HistoryNext]_<<vars, settled>>

\* README.md:2296: a signal that has reached a final status is not executed
\* again.
SettledNotExecuted ==
  [][\A s \in settled : placed'[s] = placed[s]]_<<vars, settled>>
=============================================================================
