----------------------------- MODULE CommandLine -----------------------------
(***************************************************************************)
(* main() of cli.py and the commands it starts that are not modelled as     *)
(* services of their own: the user data stream, the profit calculators, the *)
(* position snapshots, the history downloads and, of the engine, the risk   *)
(* guard.  A process runs one command until it ends; the components share   *)
(* no state, and what several processes share is in the component           *)
(* (PositionSync).                                                          *)
(***************************************************************************)
EXTENDS UserDataStream, PnlCalculator, PositionSync, KlineHistory, RiskGuard

VARIABLE command   \* args.command, "none" before main() has parsed it

vars == <<command, userStreamVars, pnlVars, positionVars, historyVars, riskVars>>

TypeOK ==
  /\ command \in {"none", "user-data-stream", "spot-pnl", "futures-pnl", "futures-positions",
                  "futures-positions-sync-redis", "fetch-klines", "fetch-oi",
                  "engine-futures", "engine-spot"}
  /\ UserStreamTypeOK /\ PnlTypeOK /\ PositionTypeOK /\ HistoryTypeOK /\ RiskTypeOK

Init ==
  /\ command = "none"
  /\ UserStreamInit /\ PnlInit /\ PositionInit /\ HistoryInit /\ RiskInit

-----------------------------------------------------------------------------
(***************************************************************************)
(* The handlers of the commands: each builds its component and runs it      *)
(***************************************************************************)

CmdUserDataStream ==
  /\ command' = "user-data-stream"
  /\ UserStreamBegin
  /\ UNCHANGED <<pnlVars, positionVars, historyVars, riskVars>>

CmdSpotPnl ==
  /\ command' = "spot-pnl"
  /\ PnlBegin("spot")
  /\ UNCHANGED <<userStreamVars, positionVars, historyVars, riskVars>>

CmdFuturesPnl ==
  /\ command' = "futures-pnl"
  /\ PnlBegin("futures")
  /\ UNCHANGED <<userStreamVars, positionVars, historyVars, riskVars>>

\* --write-kafka or --write-clickhouse
CmdFuturesPositions ==
  /\ command' = "futures-positions"
  /\ PositionBegin("kafka") \/ PositionBegin("clickhouse")
  /\ UNCHANGED <<userStreamVars, pnlVars, historyVars, riskVars>>

CmdFuturesPositionsSyncRedis ==
  /\ command' = "futures-positions-sync-redis"
  /\ PositionBegin("redis")
  /\ UNCHANGED <<userStreamVars, pnlVars, historyVars, riskVars>>

CmdFetchKlines ==
  /\ command' = "fetch-klines"
  /\ HistoryBegin("klines")
  /\ UNCHANGED <<userStreamVars, pnlVars, positionVars, riskVars>>

CmdFetchOi ==
  /\ command' = "fetch-oi"
  /\ HistoryBegin("oi")
  /\ UNCHANGED <<userStreamVars, pnlVars, positionVars, riskVars>>

\* The handlers of the futures and of the spot engine differ in its class.
CmdEngine ==
  /\ command' \in {"engine-futures", "engine-spot"}
  /\ RiskBegin
  /\ UNCHANGED <<userStreamVars, pnlVars, positionVars, historyVars>>

\* _COMMAND_MAP
Handler ==
  \/ CmdUserDataStream
  \/ CmdSpotPnl \/ CmdFuturesPnl
  \/ CmdFuturesPositions \/ CmdFuturesPositionsSyncRedis
  \/ CmdFetchKlines \/ CmdFetchOi
  \/ CmdEngine

\* A command that is unknown or missing prints the help and is not modelled.
Main == command = "none" /\ Handler

Next ==
  \/ Main
  \/ /\ UserStreamNext
     /\ UNCHANGED <<command, pnlVars, positionVars, historyVars, riskVars>>
  \/ /\ PnlNext
     /\ UNCHANGED <<command, userStreamVars, positionVars, historyVars, riskVars>>
  \/ /\ PositionNext
     /\ UNCHANGED <<command, userStreamVars, pnlVars, historyVars, riskVars>>
  \/ /\ HistoryNext
     /\ UNCHANGED <<command, userStreamVars, pnlVars, positionVars, riskVars>>
  \/ /\ RiskNext
     /\ UNCHANGED <<command, userStreamVars, pnlVars, positionVars, historyVars>>

FairSpec == Init /\ [][Next]_vars /\ UserStreamFairness /\ PnlFairness

-----------------------------------------------------------------------------
\* SIGINT or SIGTERM ends a command that runs for ever, whatever its threads
\* are doing: also when stop() comes between the check of a loop and
\* run_forever, its close() has no effect and the connection goes on, when a
\* second handler interrupts the first, and when a callback is under way.
SignalEnds ==
  (signals > 0 \/ interrupts > 0) ~> (streamMain = "ended" \/ pnlMain = "ended")

=============================================================================
