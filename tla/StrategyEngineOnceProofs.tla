---------------------- MODULE StrategyEngineOnceProofs ----------------------
(***************************************************************************)
(* Proofs about a StrategyEngine whose audit events do not raise: however   *)
(* often the process crashes and whatever the exchange answers, a signal is *)
(* executed at most once, a final status stays, and the engine implements   *)
(* SignalLifecycle.                                                         *)
(***************************************************************************)
EXTENDS StrategyEngineProofs

Polling == {"cursor", "dedup", "risk", "execute", "record", "failing"}
Processing == Polling \ {"cursor"}

\* The cursor in memory is the one in the store.
CursorStored ==
  /\ pc # "down" => dbCursor \in Nat
  /\ pc \in {"loop", "reconcile", "query", "error"} => cursor = dbCursor
  /\ pc \in Polling => pos = dbCursor

\* The rows still to come have no row in the store, the one in hand is where
\* the step says it is and has not been ordered before it is executed.
FreshBatch ==
  /\ pc \in Polling => \A s \in batch : status[s] = "NONE"
  /\ pc \in Processing => item \notin batch /\ Ts[item] <= dbCursor
  /\ pc = "dedup" => status[item] = "NONE"
  /\ pc = "risk" => status[item] = "RECEIVED"
  /\ pc = "execute" => placed[item] = 0

NotSentNotPlaced ==
  \A s \in Signals : status[s] \in {"NONE", "RECEIVED", "REJECTED"} => placed[s] = 0

OnceParts ==
  CursorStored /\ FreshBatch /\ NotSentNotPlaced /\ AtMostOnce /\ RecordedBehindCursor

OnceInv == ProtocolInv /\ OnceParts

LEMMA InitOnce == Init => OnceInv
<1> SUFFICES ASSUME Init
             PROVE  OnceParts
  BY InitProtocol DEF OnceInv
<1>1. CursorStored /\ FreshBatch
  BY DEF Init, NoProcess, CursorStored, FreshBatch, Polling, Processing
<1>2. NotSentNotPlaced /\ AtMostOnce /\ RecordedBehindCursor
  BY DEF Init, InitStore, InitExchange, NotSentNotPlaced, AtMostOnce,
         RecordedBehindCursor, Recorded
<1>3. QED
  BY <1>1, <1>2 DEF OnceParts

\* A step outside the store and the exchange.
LEMMA OnceKept ==
  ASSUME OnceParts, UNCHANGED <<status, placed, dbCursor>>
  PROVE  NotSentNotPlaced' /\ AtMostOnce' /\ RecordedBehindCursor'
BY DEF OnceParts, NotSentNotPlaced, AtMostOnce, RecordedBehindCursor, Recorded

\* A write to the row of a signal that has one, or whose timestamp is behind
\* the cursor.
LEMMA OnceWrite ==
  ASSUME TypeOK, OnceParts, UNCHANGED <<placed, dbCursor>>,
         NEW s \in Signals, s \in Recorded \/ Ts[s] <= dbCursor,
         \A t \in Signals \ {s} : status'[t] = status[t],
         status'[s] \in {"NONE", "RECEIVED", "REJECTED"} => placed[s] = 0
  PROVE  NotSentNotPlaced' /\ AtMostOnce' /\ RecordedBehindCursor'
BY DEF OnceParts, NotSentNotPlaced, AtMostOnce, RecordedBehindCursor, Recorded

LEMMA UpdateStatusFrame ==
  ASSUME TypeOK, NEW s \in Signals, NEW st, NEW order, NEW client,
         UpdateStatus(s, st, order, client)
  PROVE  /\ UNCHANGED dbCursor
         /\ status'[s] = st
         /\ \A t \in Signals \ {s} : status'[t] = status[t]
BY DEF UpdateStatus, TypeOK, StoreTypeOK

LEMMA NextOnce ==
  ASSUME ~KafkaConfigured, OnceInv, [Next]_vars
  PROVE  OnceInv'
<1> SUFFICES OnceParts'
  BY NextProtocol DEF OnceInv
<1> USE DEF KeepPoll, KeepWorld, Polling, Processing, exchangeVars, storeVars
<1>0. /\ TypeOK /\ RowOfItem /\ RowsAndOrders
      /\ CursorStored /\ FreshBatch /\ NotSentNotPlaced /\ AtMostOnce /\ RecordedBehindCursor
      /\ OnceParts
  BY DEF OnceInv, OnceParts, ProtocolInv
<1>i. /\ pc \in Processing => item \in Signals
      /\ batch \subseteq Signals /\ cands \subseteq Signals /\ table \subseteq Signals
      /\ cursor \in Nat /\ pos \in Nat /\ dbCursor \in Nat \cup {NoCursor}
      /\ Ts \in [Signals -> Nat] /\ NoCursor = -1
      /\ placed \in [Signals -> Nat]
  BY <1>0, SignalAssumption DEF TypeOK, StoreTypeOK, ExchangeTypeOK, NoCursor
<1>1. CASE Start
  <2>1. /\ UNCHANGED <<status, placed>> /\ dbCursor' \in Nat
        /\ dbCursor # NoCursor => dbCursor' = dbCursor
        /\ pc' = "loop" /\ cursor' = dbCursor'
    BY <1>1, <1>i, EngineAssumption DEF Start, SetCursor
  <2>2. RecordedBehindCursor'
    BY <1>0, <1>i, <2>1 DEF RecordedBehindCursor, Recorded
  <2>3. QED
    BY <1>0, <2>1, <2>2 DEF OnceParts, CursorStored, FreshBatch, NotSentNotPlaced, AtMostOnce
<1>2. CASE PollFails \/ PollNothing \/ ReconcileSkips \/ LoopError \/ Shutdown \/ Crash
           \/ PollReturns
  <2>1. /\ UNCHANGED <<status, placed, dbCursor>>
        /\ \/ pc' = "down"
           \/ pc' \in {"error", "reconcile", "loop"} /\ cursor' = dbCursor /\ pc # "down"
    BY <1>0, <1>2 DEF PollFails, PollNothing, ReconcileSkips, LoopError, Shutdown, Crash,
                      PollReturns, Die, CursorStored
  <2>2. CursorStored' /\ FreshBatch'
    BY <1>0, <2>1 DEF CursorStored, FreshBatch
  <2>3. QED
    BY <1>0, <2>1, <2>2, OnceKept DEF OnceParts
<1>3. CASE PollRows
  <2>1. /\ UNCHANGED <<status, placed, dbCursor>> /\ pc' = "cursor"
        /\ pos' = dbCursor /\ dbCursor \in Nat
    BY <1>0, <1>3 DEF PollRows, CursorStored
  <2>2. \A s \in batch' : status[s] = "NONE"
    <3>1. batch' \subseteq {s \in Signals : Ts[s] > dbCursor}
      BY <1>0, <1>3, <1>i, FetchType DEF PollRows, CursorStored
    <3>2. QED
      BY <1>0, <1>i, <2>1, <3>1 DEF RecordedBehindCursor, Recorded
  <2>3. CursorStored' /\ FreshBatch'
    BY <2>1, <2>2 DEF CursorStored, FreshBatch
  <2>4. QED
    BY <1>0, <2>1, <2>3, OnceKept DEF OnceParts
<1>4. CASE HandleSignal \/ InsertRow \/ UNCHANGED vars
  <2>1. UNCHANGED <<status, placed, dbCursor, pc, cursor, pos, batch, item>>
    BY <1>4 DEF HandleSignal, InsertRow, threadVars, vars
  <2>2. CursorStored' /\ FreshBatch'
    BY <1>0, <2>1 DEF CursorStored, FreshBatch
  <2>3. QED
    BY <1>0, <2>1, <2>2, OnceKept DEF OnceParts
<1>5. CASE AdvanceCursor
  <2>1. PICK s \in batch : item' = s /\ batch' = batch \ {s} /\ pos' = Max2(pos, Ts[s])
    BY <1>5 DEF AdvanceCursor
  <2>2. /\ UNCHANGED <<status, placed>> /\ dbCursor' = pos' /\ pc' = "dedup"
        /\ pos' \in Nat /\ pos' >= dbCursor /\ Ts[s] <= pos' /\ s \in Signals
        /\ status[s] = "NONE" /\ \A t \in batch : status[t] = "NONE"
    BY <1>0, <1>5, <1>i, <2>1
       DEF AdvanceCursor, SetCursor, Max2, CursorStored, FreshBatch
  <2>3. CursorStored' /\ FreshBatch'
    BY <2>1, <2>2 DEF CursorStored, FreshBatch
  <2>4. RecordedBehindCursor'
    BY <1>0, <1>i, <2>2 DEF RecordedBehindCursor, Recorded
  <2>5. QED
    BY <1>0, <2>2, <2>3, <2>4 DEF OnceParts, NotSentNotPlaced, AtMostOnce
<1>6. CASE Deduplicate
  BY <1>0, <1>6 DEF Deduplicate, FreshBatch, IsFinal, FinalStatuses
<1>7. CASE Receive
  <2>1. /\ pc = "dedup" /\ pc' = "risk" /\ UNCHANGED <<placed, dbCursor, pos, batch, item>>
        /\ SaveReceived(item) /\ item \in Signals
        /\ status[item] = "NONE" /\ Ts[item] <= dbCursor /\ item \notin batch
    BY <1>0, <1>7, <1>i DEF Receive, Emit, SaveReceived, FreshBatch
  <2>2. status'[item] = "RECEIVED" /\ \A t \in Signals \ {item} : status'[t] = status[t]
    BY <1>0, <1>7, <2>1, SaveReceivedRows DEF Receive
  <2>3. CursorStored' /\ FreshBatch'
    BY <1>0, <1>i, <2>1, <2>2 DEF CursorStored, FreshBatch
  <2>4. placed[item] = 0
    BY <1>0, <2>1 DEF NotSentNotPlaced
  <2>5. QED
    BY <1>0, <2>1, <2>2, <2>3, <2>4, OnceWrite DEF OnceParts
<1>8. CASE RiskRejects \/ Dispatch
  <2>1. /\ pc = "risk" /\ pc' \in {"cursor", "execute"}
        /\ UNCHANGED <<placed, pos, batch, item>> /\ item \in Signals
        /\ status[item] = "RECEIVED" /\ item \notin batch
        /\ \E d \in {"REJECTED", "SENT"} : UpdateStatus(item, d, NoOrder, NoOrder)
    BY <1>0, <1>8, <1>i DEF RiskRejects, Dispatch, Emit, FreshBatch
  <2>2. /\ UNCHANGED dbCursor /\ status'[item] \in {"REJECTED", "SENT"}
        /\ \A t \in Signals \ {item} : status'[t] = status[t]
    BY <1>0, <2>1, UpdateStatusFrame
  <2>3. placed[item] = 0 /\ item \in Recorded
    BY <1>0, <2>1 DEF NotSentNotPlaced, Recorded
  <2>4. CursorStored' /\ FreshBatch'
    BY <1>0, <1>i, <2>1, <2>2, <2>3 DEF CursorStored, FreshBatch
  <2>5. QED
    BY <1>0, <2>1, <2>2, <2>3, <2>4, OnceWrite DEF OnceParts
<1>9. CASE ExecuteAnswered \/ ExecuteLost
  <2>1. /\ pc = "execute" /\ pc' \in {"record", "failing"} /\ item \in Signals
        /\ UNCHANGED <<status, orderId, clientId, dbCursor, pos, batch, item>>
        /\ status[item] = "SENT" /\ placed[item] = 0
    BY <1>0, <1>9, <1>i DEF ExecuteAnswered, ExecuteLost, RowOfItem, FreshBatch
  <2>2. PICK r \in Answers(item) : Answered(item, r)
    BY <1>0, <1>9, <2>1, RequestAnswered DEF ExecuteAnswered, ExecuteLost, TypeOK
  <2>3. \A t \in Signals : placed'[t] = placed[t] \/ (t = item /\ placed'[t] = placed[t] + 1)
    BY <1>0, <2>1, <2>2, RequestRows
  <2>4. CursorStored' /\ FreshBatch'
    BY <1>0, <2>1 DEF CursorStored, FreshBatch
  <2>5. QED
    BY <1>0, <1>i, <2>1, <2>3, <2>4
       DEF OnceParts, NotSentNotPlaced, AtMostOnce, RecordedBehindCursor, Recorded
<1>10. CASE ExecuteRefused \/ ExecuteDry
  <2>1. /\ pc = "execute" /\ pc' \in {"record", "failing"}
        /\ UNCHANGED <<status, placed, dbCursor, pos, batch, item>>
    BY <1>10 DEF ExecuteRefused, ExecuteDry
  <2>2. CursorStored' /\ FreshBatch'
    BY <1>0, <2>1 DEF CursorStored, FreshBatch
  <2>3. QED
    BY <1>0, <2>1, <2>2, OnceKept DEF OnceParts
<1>11. CASE RecordResult \/ RecordFailure
  <2>1. /\ pc \in {"record", "failing"} /\ pc' = "cursor" /\ item \in Signals
        /\ UNCHANGED <<placed, pos, batch, item>>
        /\ \/ UpdateStatus(item, Mapped(resp.status), resp.order, resp.client)
           \/ UpdateStatus(item, "FAILED", NoOrder, NoOrder)
        /\ item \notin batch /\ Ts[item] <= dbCursor
    BY <1>0, <1>11, <1>i DEF RecordResult, RecordFailure, Emit, FreshBatch
  <2>2. Mapped(resp.status) \notin {"NONE", "RECEIVED", "REJECTED"}
    BY DEF Mapped, FinalMap
  <2>3. /\ UNCHANGED dbCursor /\ status'[item] \notin {"NONE", "RECEIVED", "REJECTED"}
        /\ \A t \in Signals \ {item} : status'[t] = status[t]
    BY <1>0, <2>1, <2>2, UpdateStatusFrame
  <2>4. CursorStored' /\ FreshBatch'
    BY <1>0, <1>i, <2>1, <2>3 DEF CursorStored, FreshBatch
  <2>5. QED
    BY <1>0, <2>1, <2>3, <2>4, OnceWrite DEF OnceParts
<1>12. CASE ReconcileStarts
  <2>1. UNCHANGED <<status, placed, dbCursor, cursor>> /\ pc = "reconcile" /\ pc' = "query"
    BY <1>12 DEF ReconcileStarts
  <2>2. CursorStored' /\ FreshBatch'
    BY <1>0, <2>1 DEF CursorStored, FreshBatch
  <2>3. QED
    BY <1>0, <2>1, <2>2, OnceKept DEF OnceParts
<1>13. ASSUME NEW s \in Signals, QueryAnswered(s) \/ QueryFails(s)
       PROVE  OnceParts'
  <2>1. /\ pc = "query" /\ pc' \in {"loop", "query"} /\ UNCHANGED <<placed, cursor>>
        /\ \/ UpdateStatus(s, Mapped(orders[OrderOf(s)]), OrderOf(s), OrderOf(s)[1]) /\ s \in cands
           \/ UNCHANGED <<status, dbCursor>>
    BY <1>13 DEF QueryAnswered, QueryFails, AfterQuery, Emit, Reached
  <2>2. UNCHANGED dbCursor
    BY <2>1 DEF UpdateStatus
  <2>3. CursorStored' /\ FreshBatch'
    BY <1>0, <2>1, <2>2 DEF CursorStored, FreshBatch
  <2>4. CASE UNCHANGED status
    BY <1>0, <2>1, <2>2, <2>3, <2>4, OnceKept DEF OnceParts
  <2>5. CASE UpdateStatus(s, Mapped(orders[OrderOf(s)]), OrderOf(s), OrderOf(s)[1]) /\ s \in cands
    <3>1. Mapped(orders[OrderOf(s)]) \notin {"NONE", "RECEIVED", "REJECTED"}
      BY DEF Mapped, FinalMap
    <3>2. s \in Recorded
      BY <1>0, <2>1, <2>5 DEF RowOfItem, ReconcileStatuses, Recorded
    <3>3. /\ status'[s] \notin {"NONE", "RECEIVED", "REJECTED"}
          /\ \A t \in Signals \ {s} : status'[t] = status[t]
      BY <1>0, <2>5, <3>1, UpdateStatusFrame
    <3>4. QED
      BY <1>0, <2>1, <2>2, <2>3, <3>2, <3>3, OnceWrite DEF OnceParts
  <2>6. QED
    BY <2>1, <2>4, <2>5
<1>14. CASE SettleOrder \/ TimePasses
  <2>1. UNCHANGED <<status, placed, dbCursor, pc, cursor, pos, batch, item>>
    BY <1>14 DEF SettleOrder, Settle, TimePasses, Age, threadVars
  <2>2. CursorStored' /\ FreshBatch'
    BY <1>0, <2>1 DEF CursorStored, FreshBatch
  <2>3. QED
    BY <1>0, <2>1, <2>2, OnceKept DEF OnceParts
<1>15. QED
  BY <1>1, <1>2, <1>3, <1>4, <1>5, <1>6, <1>7, <1>8, <1>9, <1>10, <1>11, <1>12,
     <1>13, <1>14 DEF Next, Engine

LEMMA OnceCorrect == ~KafkaConfigured => (Spec => []OnceInv)
<1> SUFFICES ASSUME ~KafkaConfigured
             PROVE  Spec => []OnceInv
  OBVIOUS
<1>1. OnceInv /\ [Next]_vars => OnceInv'
  BY NextOnce
<1>2. QED
  BY <1>1, InitOnce, PTL DEF Spec

\* However often the process crashes, a signal is executed at most once.
THEOREM AtMostOnceCorrect == ~KafkaConfigured => (Spec => []AtMostOnce)
<1> SUFFICES ASSUME ~KafkaConfigured
             PROVE  Spec => []AtMostOnce
  OBVIOUS
<1>1. OnceInv => AtMostOnce
  BY DEF OnceInv, OnceParts
<1>2. QED
  BY <1>1, OnceCorrect, PTL

\* What the store has recorded lies behind the cursor it has stored.
THEOREM RecordedBehindCursorCorrect == ~KafkaConfigured => (Spec => []RecordedBehindCursor)
<1> SUFFICES ASSUME ~KafkaConfigured
             PROVE  Spec => []RecordedBehindCursor
  OBVIOUS
<1>1. OnceInv => RecordedBehindCursor
  BY DEF OnceInv, OnceParts
<1>2. QED
  BY <1>1, OnceCorrect, PTL

\* A signal that is executed once at most has one order at most.
LEMMA OnlyOrder ==
  ASSUME OnceInv, NEW o \in Orders, orders[o] # "NONE"
  PROVE  /\ Places(o[1]) /\ placed[o[1]] = 1
         /\ o = <<o[1], 1>>
<1>1. o[1] \in Signals /\ o[2] \in Int /\ o[2] >= 1 /\ o = <<o[1], o[2]>>
  BY SignalAssumption DEF Orders, SignalAssumption
<1>2. /\ o[2] <= placed[o[1]] /\ placed[o[1]] <= 1 /\ placed[o[1]] \in Nat
  BY <1>1 DEF OnceInv, OnceParts, AtMostOnce, ProtocolInv, RowsAndOrders, OwnOrders,
              TypeOK, ExchangeTypeOK
<1>3. placed[o[1]] = 1 /\ o[2] = 1
  BY <1>1, <1>2
<1>4. Places(o[1])
  BY <1>1, <1>3 DEF OnceInv, ProtocolInv, RowsAndOrders, OwnOrders
<1> QED BY <1>1, <1>3, <1>4

LEMMA OpenIsOnly ==
  ASSUME OnceInv, NEW o \in Orders, Open(o)
  PROVE  Places(o[1]) /\ placed[o[1]] = 1 /\ o = <<o[1], 1>>
BY OnlyOrder DEF Open

\* An open order belongs to a row that the reconciliation keeps visiting.
THEOREM OpenOrdersWatchedCorrect == ~KafkaConfigured => (Spec => []OpenOrdersWatched)
<1> SUFFICES ASSUME ~KafkaConfigured
             PROVE  Spec => []OpenOrdersWatched
  OBVIOUS
<1>1. OnceInv => OpenOrdersWatched
  <2> SUFFICES ASSUME OnceInv, NEW o \in Orders, Open(o), NamesNoOther(o[1])
               PROVE  status[o[1]] \in ReconcileStatuses
    BY DEF OpenOrdersWatched
  <2> DEFINE s == o[1]
  <2>0. s \in Signals /\ o[2] \in 1..MaxOrders
    BY DEF Orders
  <2> HIDE DEF s
  <2>1. Places(s) /\ placed[s] = 1 /\ o = <<s, 1>>
    BY <2>0, OpenIsOnly DEF s
  <2>2. status[s] \notin {"NONE", "RECEIVED", "REJECTED"}
    BY <2>0, <2>1 DEF OnceInv, OnceParts, NotSentNotPlaced
  <2>3. \A e \in DOMAIN FinalMap : status[s] # FinalMap[e]
    <3> SUFFICES ASSUME NEW e \in DOMAIN FinalMap, status[s] = FinalMap[e]
                 PROVE  FALSE
      OBVIOUS
    <3>1. /\ Exists(orderId[s]) /\ orders[orderId[s]] = e /\ orderId[s][1] = s
      BY <2>0, <2>1 DEF s, OnceInv, ProtocolInv, RowsAndOrders, TerminalAgrees, Places
    <3>2. orderId[s] = <<s, 1>>
      BY <3>1, OnlyOrder DEF Exists
    <3> QED BY <2>1, <3>1, <3>2 DEF Open, FinalMap
  <2>4. status[s] \in RowStatus \cup {"NONE"}
    BY <2>0 DEF OnceInv, ProtocolInv, TypeOK, StoreTypeOK
  <2>5. QED
    BY <2>2, <2>3, <2>4 DEF s, RowStatus, FinalMap, ReconcileStatuses
<1>2. QED
  BY <1>1, OnceCorrect, PTL

\* A final status is for ever.
THEOREM FinalStableCorrect == ~KafkaConfigured => (Spec => FinalStable)
<1> SUFFICES ASSUME ~KafkaConfigured
             PROVE  Spec => FinalStable
  OBVIOUS
<1>1. ProtocolInv /\ [Next]_vars =>
        [\A s \in Signals : IsFinal(s) => status'[s] = status[s]]_vars
  <2> SUFFICES ASSUME ProtocolInv, [Next]_vars, NEW s \in Signals,
                      IsFinal(s), status'[s] # status[s]
               PROVE  FALSE
    OBVIOUS
  <2>1. RecordFailure /\ s = item
    BY RowSteps, FinalRowStep DEF ProtocolInv
  <2>2. QED
    BY <2>1 DEF ProtocolInv, RowOfItem, RecordFailure, IsFinal, FinalStatuses
<1>2. QED
  BY <1>1, ProtocolCorrect, PTL DEF Spec, FinalStable

-----------------------------------------------------------------------------
(***************************************************************************)
(* What a crash strands                                                     *)
(***************************************************************************)

\* A row other than the one in hand is stranded only by a crash; what is in
\* hand is let go with an outcome.
LEMMA StrandedStep ==
  ASSUME ~KafkaConfigured, TypeOK, [Next]_vars
  PROVE  \/ Stranded' \subseteq Stranded /\ UNCHANGED crashes
         \/ Stranded' \subseteq Stranded \cup {item} /\ crashes' = crashes + 1
<1> USE DEF KeepPoll, KeepWorld, exchangeVars, storeVars
<1> DEFINE InHand == {"risk", "execute", "record", "failing"}
<1>i. (pc \in {"dedup"} \cup InHand => item \in Signals) /\ resp \in Responses /\ cands \subseteq Signals
  BY DEF TypeOK
<1>1. CASE \/ Start \/ PollFails \/ PollNothing \/ PollRows \/ PollReturns \/ LoopError \/ Shutdown
           \/ AdvanceCursor \/ Deduplicate \/ ReconcileSkips \/ ReconcileStarts
           \/ \E s \in Signals : QueryFails(s)
  <2>1. UNCHANGED <<status, crashes>> /\ pc \notin InHand
    <3>1. CASE \/ Start \/ PollFails \/ PollNothing \/ PollRows \/ PollReturns \/ LoopError
               \/ Shutdown \/ AdvanceCursor
      BY <3>1 DEF Start, PollFails, PollNothing, PollRows, PollReturns, LoopError, Shutdown,
                  AdvanceCursor, SetCursor
    <3>2. CASE Deduplicate \/ ReconcileSkips \/ ReconcileStarts \/ \E s \in Signals : QueryFails(s)
      BY <3>2 DEF Deduplicate, ReconcileSkips, ReconcileStarts, QueryFails
    <3> QED BY <1>1, <3>1, <3>2
  <2> QED BY <2>1 DEF Stranded
<1>2. CASE \/ HandleSignal \/ InsertRow \/ SettleOrder \/ TimePasses \/ UNCHANGED vars
  <2>1. UNCHANGED <<status, crashes, pc, item>>
    BY <1>2 DEF HandleSignal, InsertRow, SettleOrder, TimePasses, Age, threadVars, vars
  <2> QED BY <2>1 DEF Stranded
<1>3. CASE Crash
  BY <1>3 DEF Crash, Die, Stranded
<1>4. CASE ExecuteAnswered \/ ExecuteLost \/ ExecuteRefused \/ ExecuteDry
  <2>1. UNCHANGED <<status, crashes, item>> /\ pc \in InHand /\ pc' \in InHand
    BY <1>4 DEF ExecuteAnswered, ExecuteLost, ExecuteRefused, ExecuteDry
  <2> QED BY <2>1 DEF Stranded
<1>5. CASE Receive \/ Dispatch
  <2>1. /\ UNCHANGED <<crashes, item>> /\ pc \in {"dedup", "risk"} /\ pc' \in InHand
        /\ item \in Signals /\ \A t \in Signals \ {item} : status'[t] = status[t]
    <3>1. CASE Receive
      BY <1>i, <3>1 DEF Receive, Emit, SaveReceived, TypeOK, StoreTypeOK
    <3>2. CASE Dispatch
      BY <1>i, <3>2, UpdateStatusFrame DEF Dispatch, Emit
    <3> QED BY <1>5, <3>1, <3>2
  <2> QED BY <2>1 DEF Stranded
<1>6. CASE RiskRejects \/ RecordResult \/ RecordFailure
  <2>1. /\ UNCHANGED <<crashes, item>> /\ item \in Signals
        /\ \A t \in Signals \ {item} : status'[t] = status[t]
        /\ status'[item] \notin {"RECEIVED", "SENT"}
    BY <1>6, <1>i, UpdateStatusFrame DEF RiskRejects, RecordResult, RecordFailure, Mapped, FinalMap
  <2> QED BY <2>1 DEF Stranded
<1>7. CASE \E s \in Signals : QueryAnswered(s)
  <2>1. PICK s \in Signals : QueryAnswered(s)
    BY <1>7
  <2>2. /\ UNCHANGED <<crashes, item>> /\ pc = "query"
        /\ \A t \in Signals \ {s} : status'[t] = status[t]
        /\ status'[s] \notin {"RECEIVED", "SENT"}
    BY <2>1, UpdateStatusFrame DEF QueryAnswered, AfterQuery, Mapped, FinalMap
  <2> QED BY <2>2 DEF Stranded
<1> QED
  BY <1>1, <1>2, <1>3, <1>4, <1>5, <1>6, <1>7 DEF Next, Engine

\* However many signals are in the table and whatever the exchange answers,
\* each crash leaves at most one begun row without an outcome.
THEOREM CrashStrandsOneCorrect == ~KafkaConfigured => (Spec => []CrashStrandsOne)
<1> SUFFICES ASSUME ~KafkaConfigured
             PROVE  Spec => []CrashStrandsOne
  OBVIOUS
<1>1. Init => CrashStrandsOne
  <2> SUFFICES ASSUME Init PROVE CrashStrandsOne
    OBVIOUS
  <2>1. Stranded = {} /\ crashes = 0
    BY DEF Init, InitStore, Stranded
  <2> QED BY <2>1, FS_EmptySet DEF CrashStrandsOne
<1>2. CrashStrandsOne /\ TypeOK /\ [Next]_vars => CrashStrandsOne'
  <2> SUFFICES ASSUME CrashStrandsOne, TypeOK, [Next]_vars PROVE CrashStrandsOne'
    OBVIOUS
  <2>1. IsFiniteSet(Stranded) /\ Cardinality(Stranded) \in Nat /\ crashes \in Nat
    <3>1. Stranded \in SUBSET Signals
      BY DEF Stranded
    <3>2. IsFiniteSet(Stranded)
      BY <3>1, SignalAssumption, FS_Subset DEF SignalAssumption
    <3>3. crashes \in Nat
      BY EngineAssumption DEF EngineAssumption, TypeOK
    <3> QED BY <3>2, <3>3, FS_CardinalityType
  <2>2. CASE Stranded' \in SUBSET Stranded /\ UNCHANGED crashes
    <3>1. Cardinality(Stranded') <= Cardinality(Stranded) /\ Cardinality(Stranded') \in Nat
      BY <2>1, <2>2, FS_Subset, FS_CardinalityType
    <3> QED BY <2>1, <2>2, <3>1 DEF CrashStrandsOne
  <2>3. CASE Stranded' \in SUBSET (Stranded \cup {item}) /\ crashes' = crashes + 1
    <3> DEFINE More == Stranded \cup {item}
    <3>1. IsFiniteSet(More) /\ Cardinality(More) \in Nat /\ Cardinality(More) <= Cardinality(Stranded) + 1
      <4>1. IsFiniteSet(More) /\ (Cardinality(More) = Cardinality(Stranded)
                                   \/ Cardinality(More) = Cardinality(Stranded) + 1)
        BY <2>1, FS_AddElement
      <4> HIDE DEF More
      <4> QED BY <2>1, <4>1
    <3> HIDE DEF More
    <3>2. Cardinality(Stranded') <= Cardinality(More) /\ Cardinality(Stranded') \in Nat
      BY <2>3, <3>1, FS_Subset, FS_CardinalityType DEF More
    <3> QED BY <2>1, <2>3, <3>1, <3>2 DEF CrashStrandsOne
  <2> QED BY <2>2, <2>3, StrandedStep
<1> QED BY <1>1, <1>2, TypeCorrect, PTL DEF Spec

-----------------------------------------------------------------------------
(***************************************************************************)
(* Refinement                                                               *)
(***************************************************************************)

LEMMA InitImplements == Init => Lifecycle!Init
BY DEF Init, InitStore, InitExchange, Lifecycle!Init

\* A step writes the row of one signal at most, and a step that writes a row
\* leaves the number of orders alone.
LEMMA OneRow ==
  ASSUME TypeOK, [Next]_vars, NEW s \in Signals, RowStep(s)
  PROVE  UNCHANGED placed /\ status' = [status EXCEPT ![s] = status'[s]]
<1>1. StoreTypeOK
  BY DEF TypeOK
<1>2. CASE Receive /\ s = item
  BY <1>1, <1>2 DEF Receive, SaveReceived, KeepWorld, exchangeVars, StoreTypeOK, Recorded
<1>3. CASE (RiskRejects \/ Dispatch \/ RecordResult \/ RecordFailure) /\ s = item
  BY <1>1, <1>3 DEF RiskRejects, Dispatch, RecordResult, RecordFailure, UpdateStatus,
                    KeepWorld, exchangeVars, StoreTypeOK
<1>4. CASE QueryAnswered(s)
  BY <1>1, <1>4 DEF QueryAnswered, UpdateStatus, KeepWorld, exchangeVars, StoreTypeOK
<1>5. QED
  BY <1>2, <1>3, <1>4 DEF RowStep

LEMMA OrdersOnce == OnceInv => \A o \in Orders : orders[o] # "NONE" => placed[o[1]] = 1
BY OnlyOrder

LEMMA OrdersOnceNext ==
  OnceInv' => \A o \in Orders : orders'[o] # "NONE" => placed'[o[1]] = 1
<1>1. OnceInv' => (\A o \in Orders : orders[o] # "NONE" => placed[o[1]] = 1)'
  BY OrdersOnce, PTL
<1> QED BY <1>1

LEMMA RowStepImplements ==
  ASSUME ~KafkaConfigured, OnceInv, OnceInv', [Next]_vars,
         NEW s \in Signals, RowStep(s)
  PROVE  Lifecycle!Next
<1>0. /\ UNCHANGED placed /\ status' = [status EXCEPT ![s] = status'[s]]
      /\ RowOfItem /\ FreshBatch /\ cands \subseteq Signals
  BY OneRow DEF OnceInv, OnceParts, ProtocolInv, TypeOK
<1>1. CASE Receive /\ s = item /\ status[s] = "NONE" /\ status'[s] = "RECEIVED"
  BY <1>0, <1>1 DEF Lifecycle!Next, Lifecycle!Receive
<1>2. CASE (RiskRejects \/ Dispatch) /\ s = item /\ status'[s] \in {"REJECTED", "SENT"}
  <2>1. status[s] = "RECEIVED"
    BY <1>0, <1>2 DEF RiskRejects, Dispatch, FreshBatch
  <2>2. Lifecycle!Decide(s)
    BY <1>0, <1>2, <2>1 DEF Lifecycle!Decide
  <2>3. QED
    BY <2>2 DEF Lifecycle!Next
<1>3. ASSUME NEW o, status[s] \in Lifecycle!Undecided, status'[s] = Mapped(o)
      PROVE  Lifecycle!Next
  <2>1. CASE o \in DOMAIN FinalMap
    <3>1. status'[s] \in Lifecycle!Ended
      BY <1>3, <2>1 DEF Mapped, FinalMap, Lifecycle!Ended
    <3>2. ASSUME Places(s), NamesNoOther(s)
          PROVE  placed'[s] = 1
      <4>1. o # "NONE" /\ (Exists(orderId[s]) /\ orders[orderId[s]] = o)' /\ orderId'[s][1] = s
        BY <1>3, <2>1, <3>2
           DEF OnceInv, ProtocolInv, RowsAndOrders, TerminalAgrees, Mapped, Places, FinalMap
      <4>2. QED
        BY <4>1, OrdersOnceNext DEF Exists
    <3>3. s \in {t \in Signals : Places(t)} \ {t \in Signals : ~NamesNoOther(t)} => placed[s] = 1
      BY <1>0, <3>2
    <3>4. Lifecycle!Learn(s)
      BY <1>0, <1>3, <3>1, <3>3 DEF Lifecycle!Learn
    <3>5. QED
      BY <3>4 DEF Lifecycle!Next
  <2>2. CASE o \notin DOMAIN FinalMap
    <3>1. Lifecycle!Learn(s)
      BY <1>0, <1>3, <2>2 DEF Lifecycle!Learn, Mapped
    <3>2. QED
      BY <3>1 DEF Lifecycle!Next
  <2>3. QED
    BY <2>1, <2>2
<1>4. CASE RecordResult /\ s = item /\ status'[s] = Mapped(resp.status)
  <2>1. status[s] \in Lifecycle!Undecided
    BY <1>0, <1>4 DEF RecordResult, RowOfItem, Lifecycle!Undecided
  <2>2. QED
    BY <1>3, <1>4, <2>1
<1>5. CASE RecordFailure /\ s = item /\ status'[s] = "FAILED"
  <2>1. status[s] = "SENT"
    BY <1>0, <1>5 DEF RecordFailure, RowOfItem
  <2>2. Lifecycle!Learn(s)
    BY <1>0, <1>5, <2>1 DEF Lifecycle!Learn, Lifecycle!Undecided
  <2>3. QED
    BY <2>2 DEF Lifecycle!Next
<1>6. CASE QueryAnswered(s) /\ status'[s] = Mapped(orders[OrderOf(s)])
  <2>1. status[s] \in Lifecycle!Undecided
    BY <1>0, <1>6 DEF QueryAnswered, Reached, RowOfItem, ReconcileStatuses, Lifecycle!Undecided
  <2>2. QED
    BY <1>3, <1>6, <2>1
<1>7. QED
  BY <1>1, <1>2, <1>4, <1>5, <1>6 DEF RowStep

\* A step that writes no row places an order, or none.
LEMMA OrderStepImplements ==
  ASSUME ~KafkaConfigured, OnceInv, [Next]_vars, UNCHANGED status
  PROVE  Lifecycle!Next \/ UNCHANGED <<status, placed>>
<1>0. TypeOK /\ FreshBatch /\ RowOfItem /\ RowsAndOrders
  BY DEF OnceInv, OnceParts, ProtocolInv
<1>1. CASE ExecuteAnswered \/ ExecuteLost
  <2>1. item \in Signals /\ status[item] = "SENT" /\ placed[item] = 0
    BY <1>0, <1>1 DEF ExecuteAnswered, ExecuteLost, RowOfItem, FreshBatch, TypeOK
  <2>2. PICK r \in Answers(item) : Request(item, r)
    BY <1>1 DEF ExecuteAnswered, ExecuteLost
  <2>3. CASE Places(item)
    <3>1. placed' = [placed EXCEPT ![item] = 1]
      BY <1>0, <2>1, <2>2, <2>3 DEF Request, Places, PlaceOrder, TypeOK, ExchangeTypeOK
    <3>2. Lifecycle!Order(item)
      BY <2>1, <2>3, <3>1 DEF Lifecycle!Order
    <3>3. QED
      BY <2>1, <3>2 DEF Lifecycle!Next
  <2>4. CASE ~Places(item)
    BY <2>2, <2>4 DEF Request, CancelOrder, CancelOpenOrders
  <2>5. QED
    BY <2>3, <2>4
<1>2. CASE ~(ExecuteAnswered \/ ExecuteLost)
  BY <1>2 DEF Next, Engine, Start, PollFails, PollNothing, PollRows, PollReturns, LoopError,
       HandleSignal, Shutdown, Crash, AdvanceCursor, Deduplicate, Receive, RiskRejects,
       Dispatch, RecordResult, RecordFailure, ExecuteRefused, ExecuteDry, ReconcileSkips,
       ReconcileStarts, QueryAnswered, QueryFails, InsertRow, SettleOrder, Settle,
       TimePasses, KeepWorld, exchangeVars, vars
<1>3. QED
  BY <1>1, <1>2

\* The engine implements the lifecycle it promises: each of its steps is one
\* decision about one signal, one order, or invisible.
THEOREM LifecycleImplemented == ~KafkaConfigured => (Spec => ImplementsLifecycle)
<1> SUFFICES ASSUME ~KafkaConfigured
             PROVE  Spec => ImplementsLifecycle
  OBVIOUS
<1>1. OnceInv /\ OnceInv' /\ [Next]_vars => [Lifecycle!Next]_<<status, placed>>
  <2> SUFFICES ASSUME OnceInv, OnceInv', [Next]_vars
               PROVE  Lifecycle!Next \/ UNCHANGED <<status, placed>>
    OBVIOUS
  <2>1. CASE \E s \in Signals : status'[s] # status[s]
    BY <2>1, RowSteps, RowStepImplements DEF OnceInv, ProtocolInv
  <2>2. CASE \A s \in Signals : status'[s] = status[s]
    <3>1. UNCHANGED status
      BY <2>2 DEF OnceInv, ProtocolInv, TypeOK, StoreTypeOK
    <3>2. QED
      BY <3>1, OrderStepImplements
  <2>3. QED
    BY <2>1, <2>2
<1>2. QED
  BY <1>1, InitImplements, OnceCorrect, PTL DEF Spec, ImplementsLifecycle, Lifecycle!Spec

=============================================================================
