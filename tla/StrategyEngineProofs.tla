------------------------ MODULE StrategyEngineProofs ------------------------
(***************************************************************************)
(* Proofs about StrategyEngine, for every set of signals, every batch size, *)
(* every number of crashes and every answer of the exchange.                *)
(***************************************************************************)
EXTENDS StrategyEngine, FiniteSetTheorems, TLAPS

-----------------------------------------------------------------------------
(***************************************************************************)
(* What the store's operations preserve                                     *)
(***************************************************************************)

LEMMA TouchType ==
  ASSUME StoreTypeOK, NEW s \in Signals, Touch(s)
  PROVE  older' \subseteq Signals \X Signals /\ fresh' \subseteq Signals
BY DEF StoreTypeOK, Touch, Recorded

LEMMA UpdateStatusType ==
  ASSUME StoreTypeOK, NEW s \in Signals, NEW st \in RowStatus,
         NEW order \in Orders \cup {NoOrder}, NEW client \in Signals \cup {NoOrder},
         UpdateStatus(s, st, order, client)
  PROVE  StoreTypeOK'
<1>1. older' \subseteq Signals \X Signals /\ fresh' \subseteq Signals
  BY TouchType DEF UpdateStatus
<1>2. QED
  BY <1>1 DEF StoreTypeOK, UpdateStatus

LEMMA SaveReceivedType ==
  ASSUME StoreTypeOK, NEW s \in Signals, SaveReceived(s)
  PROVE  StoreTypeOK'
<1>1. older' \subseteq Signals \X Signals /\ fresh' \subseteq Signals
  BY TouchType DEF SaveReceived
<1>2. /\ "RECEIVED" \in RowStatus
      /\ OrderId[s] \in Orders \cup {NoOrder} /\ OrigClientId[s] \in Signals \cup {NoOrder}
  BY SignalAssumption DEF SignalAssumption, RowStatus
<1>3. QED
  BY <1>1, <1>2 DEF StoreTypeOK, SaveReceived

LEMMA SetCursorType ==
  ASSUME StoreTypeOK, NEW c \in Nat, SetCursor(c)
  PROVE  StoreTypeOK'
BY DEF StoreTypeOK, SetCursor

\* _FINAL_MAP and its default only yield statuses a row may have.
LEMMA MappedType ==
  ASSUME NEW o
  PROVE  Mapped(o) \in RowStatus
BY DEF Mapped, FinalMap, RowStatus

\* The statuses _FINAL_MAP tells apart stay apart, and are final.
LEMMA FinalMapInjective ==
  \A o, p \in DOMAIN FinalMap :
    /\ FinalMap[o] = FinalMap[p] => o = p
    /\ FinalMap[o] \in FinalStatuses
    /\ FinalMap[o] \notin {"NONE", "RECEIVED", "REJECTED", "SENT", "ACKED", "FAILED"}
BY DEF FinalMap, FinalStatuses

LEMMA FetchType ==
  ASSUME table \subseteq Signals, NEW c \in Nat
  PROVE  Fetch(c) \subseteq {s \in Signals : Ts[s] > c}
BY DEF Fetch, Limit

-----------------------------------------------------------------------------
(***************************************************************************)
(* What a poll delivers                                                     *)
(***************************************************************************)

\* ORDER BY is a strict linear order: signal_id decides between equals.
LEMMA PrecedesOrder ==
  ASSUME NEW r \in Signals, NEW s \in Signals, NEW t \in Signals
  PROVE  /\ ~Precedes(s, s)
         /\ Precedes(r, s) /\ Precedes(s, t) => Precedes(r, t)
         /\ s = t \/ Precedes(s, t) \/ Precedes(t, s)
         /\ Precedes(s, t) => Ts[s] <= Ts[t]
BY SignalAssumption DEF SignalAssumption, Precedes

Before(c, t) == {s \in Ahead(c) : Precedes(s, t)}

LEMMA AheadFinite ==
  ASSUME table \subseteq Signals, NEW c, NEW S \in SUBSET Ahead(c)
  PROVE  /\ S \subseteq Signals /\ IsFiniteSet(S) /\ Cardinality(S) \in Nat
         /\ \A T \in SUBSET S : Cardinality(T) <= Cardinality(S)
<1>1. S \subseteq Signals
  BY DEF Ahead
<1>2. IsFiniteSet(S)
  BY <1>1, SignalAssumption, FS_Subset DEF SignalAssumption
<1> QED BY <1>1, <1>2, FS_Subset, FS_CardinalityType

\* A row is delivered when fewer than BatchSize rows come before it.
LEMMA Delivered ==
  ASSUME NEW c, NEW t
  PROVE  t \in Fetch(c) <=>
           t \in Ahead(c) \ Invalid /\ Cardinality(Before(c, t)) < BatchSize
BY DEF Fetch, Limit, Ahead, Before

\* A row before a delivered one is delivered unless it is invalid.
LEMMA DeliveredFromFirst ==
  ASSUME table \subseteq Signals, NEW c, NEW s \in Fetch(c), NEW t \in Before(c, s) \ Invalid
  PROVE  t \in Fetch(c)
<1>1. s \in Ahead(c) /\ t \in Ahead(c) /\ Precedes(t, s) /\ s \in Signals /\ t \in Signals
  BY Delivered, AheadFinite DEF Before
<1>2. Before(c, t) \in SUBSET Before(c, s) /\ Before(c, s) \in SUBSET Ahead(c)
  <2> SUFFICES ASSUME NEW r \in Before(c, t) PROVE Precedes(r, s)
    BY DEF Before
  <2> QED BY <1>1, PrecedesOrder DEF Before, Ahead
<1>3. /\ Cardinality(Before(c, t)) <= Cardinality(Before(c, s))
      /\ Cardinality(Before(c, t)) \in Nat /\ Cardinality(Before(c, s)) \in Nat
  BY <1>2, AheadFinite
<1> QED BY <1>1, <1>3, Delivered, SourceAssumption DEF SourceAssumption

\* Of the rows that LIMIT cuts off, the first one up to t has only rows before
\* it that LIMIT admits.
LEMMA FirstCutOff ==
  ASSUME table \subseteq Signals, NEW c, NEW t \in Ahead(c), Cardinality(Before(c, t)) >= BatchSize
  PROVE  \E v \in Ahead(c) :
           /\ v = t \/ Precedes(v, t)
           /\ Cardinality(Before(c, v)) >= BatchSize
           /\ Before(c, v) \subseteq Fetch(c) \cup Invalid
<1> DEFINE CutOff == {v \in Ahead(c) : (v = t \/ Precedes(v, t))
                                      /\ Cardinality(Before(c, v)) >= BatchSize}
           Counts == {Cardinality(Before(c, v)) : v \in CutOff}
           Less == OpToRel(<, Nat)
<1>1. \A v \in Ahead(c) : Before(c, v) \in SUBSET Ahead(c) /\ Cardinality(Before(c, v)) \in Nat
  BY AheadFinite DEF Before
<1>2. PICK n \in Counts : \A m \in Counts : <<m, n>> \notin Less
  <2>1. Counts \subseteq Nat /\ Counts # {}
    BY <1>1
  <2> HIDE DEF Counts, Less
  <2> QED BY <2>1, NatLessThanWellFounded, WFMin DEF Less
<1>3. \A m \in Counts : ~(m < n)
  BY <1>1, <1>2 DEF OpToRel
<1>4. PICK v \in CutOff : n = Cardinality(Before(c, v))
  BY <1>2
<1>5. ASSUME NEW u \in Before(c, v)
      PROVE  u \in Fetch(c) \cup Invalid
  <2>1. /\ u \in Ahead(c) /\ Precedes(u, v) /\ Precedes(u, t)
        /\ u \in Signals /\ v \in Signals /\ t \in Signals
    BY <1>5, PrecedesOrder DEF Before, Ahead
  <2>2. Before(c, u) \in SUBSET (Before(c, v) \ {u}) /\ Before(c, v) \in SUBSET Ahead(c)
    BY <2>1, PrecedesOrder DEF Before, Ahead
  <2>3. Cardinality(Before(c, u)) <= Cardinality(Before(c, v) \ {u})
    BY <2>2, AheadFinite
  <2>4. Cardinality(Before(c, v) \ {u}) = Cardinality(Before(c, v)) - 1
    BY <2>2, AheadFinite, FS_RemoveElement
  <2>5. Cardinality(Before(c, u)) < n /\ Cardinality(Before(c, u)) \in Nat
    BY <1>1, <1>4, <2>1, <2>3, <2>4
  <2>6. Cardinality(Before(c, u)) < BatchSize
    BY <1>3, <2>1, <2>5, SourceAssumption DEF SourceAssumption
  <2> QED BY <2>1, <2>6, Delivered
<1> QED BY <1>4, <1>5

\* Of more rows with one timestamp than LIMIT admits the rest is lost, and
\* nothing else is, for every table, batch size and cursor.
LEMMA SkipsOnlyTies ==
  ASSUME table \subseteq Signals, NEW c \in Nat, NEW t \in Ahead(c) \ (Invalid \cup Fetch(c))
  PROVE  /\ \A s \in Fetch(c) : Ts[s] <= Ts[t]
         /\ Cardinality({s \in Fetch(c) \cup (Ahead(c) \cap Invalid) : Ts[s] <= Ts[t]}) >= BatchSize
<1> DEFINE Taken == {s \in Fetch(c) \cup (Ahead(c) \cap Invalid) : Ts[s] <= Ts[t]}
<1>1. t \in Signals /\ Ts[t] \in Nat /\ t \in Ahead(c)
  BY SignalAssumption DEF Ahead, SignalAssumption
<1>2. ASSUME NEW s \in Fetch(c)
      PROVE  Ts[s] <= Ts[t]
  <2>1. s \in Ahead(c) /\ s \in Signals
    BY Delivered DEF Ahead
  <2>2. ~Precedes(t, s)
    BY DeliveredFromFirst DEF Before
  <2> QED BY <1>1, <2>1, <2>2, PrecedesOrder
<1>3. Cardinality(Before(c, t)) >= BatchSize
  <2>1. Before(c, t) \in SUBSET Ahead(c)
    BY DEF Before
  <2>2. Cardinality(Before(c, t)) \in Nat
    BY <2>1, AheadFinite
  <2> QED BY <1>1, <2>2, Delivered, SourceAssumption DEF SourceAssumption
<1>4. PICK v \in Ahead(c) : /\ v = t \/ Precedes(v, t)
                           /\ Cardinality(Before(c, v)) >= BatchSize
                           /\ Before(c, v) \subseteq Fetch(c) \cup Invalid
  BY <1>1, <1>3, FirstCutOff
<1>5. Before(c, v) \in SUBSET Taken /\ Taken \in SUBSET Ahead(c)
  <2>1. ASSUME NEW s \in Before(c, v) PROVE s \in Ahead(c) /\ Ts[s] <= Ts[t]
    <3>1. s \in Signals /\ v \in Signals /\ s \in Ahead(c) /\ Precedes(s, v)
      BY <2>1 DEF Before, Ahead
    <3> QED BY <1>1, <1>4, <3>1, PrecedesOrder
  <2>2. Fetch(c) \subseteq Ahead(c)
    BY Delivered
  <2> QED BY <1>4, <2>1, <2>2
<1>6. /\ Cardinality(Before(c, v)) <= Cardinality(Taken)
      /\ Cardinality(Before(c, v)) \in Nat /\ Cardinality(Taken) \in Nat
  <2> HIDE DEF Taken
  <2>1. Before(c, v) \in SUBSET Ahead(c)
    BY <1>5
  <2> QED BY <1>5, <2>1, AheadFinite
<1>7. Cardinality(Taken) >= BatchSize
  <2> HIDE DEF Taken
  <2> QED BY <1>4, <1>6, SourceAssumption DEF SourceAssumption
<1> QED BY <1>2, <1>7

-----------------------------------------------------------------------------
(***************************************************************************)
(* Type correctness                                                         *)
(***************************************************************************)

\* The variables of the thread, whose types no store operation touches.
ThreadTypeOK ==
  /\ pc \in Steps
  /\ stop \in BOOLEAN
  /\ dryRun \in BOOLEAN
  /\ cursor \in Nat
  /\ pos \in Nat
  /\ batch \subseteq Signals
  /\ item \in Signals \cup {NoOrder}
  /\ pc \in {"dedup", "risk", "execute", "record", "failing"} => item \in Signals
  /\ resp \in Responses
  /\ cands \subseteq Signals

LEMMA TypeParts ==
  TypeOK <=> /\ StoreTypeOK /\ ExchangeTypeOK /\ ThreadTypeOK
             /\ table \subseteq Signals /\ crashes \in 0..MaxCrashes
BY DEF TypeOK, ThreadTypeOK

LEMMA NoResponseType == NoResponse \in Responses
BY DEF NoResponse, Responses

LEMMA DieType ==
  ASSUME Die
  PROVE  ThreadTypeOK'
BY NoResponseType DEF Die, ThreadTypeOK, Steps

\* The order numbers of a signal, as far as they go.
LEMMA NextOrder ==
  ASSUME ExchangeTypeOK, NEW s \in Signals, placed[s] < MaxOrders
  PROVE  /\ <<s, placed[s] + 1>> \in Orders
         /\ placed[s] \in Nat /\ placed[s] + 1 \in 1..MaxOrders
<1>1. placed[s] \in Nat /\ MaxOrders \in Nat
  BY SignalAssumption DEF ExchangeTypeOK, SignalAssumption
<1> QED BY <1>1 DEF Orders

\* What a request does, and what its answer says of the order it is about.
Answered(s, r) ==
  \/ /\ Places(s) /\ r.order = <<s, placed[s] + 1>> /\ r.client = s
     /\ r.order \in Orders /\ r.status \in OrderStatus
     /\ \A o \in Orders : orders'[o] = IF o = r.order THEN r.status ELSE orders[o]
     /\ \A t \in Signals : placed'[t] = IF t = s THEN placed[t] + 1 ELSE placed[t]
  \/ /\ ~Places(s) /\ placed' = placed
     /\ \A o \in Orders : orders'[o] = orders[o] \/ (Open(o) /\ orders'[o] = "CANCELED")
     /\ Action[s] # "CANCEL_ALL_ORDERS" => r.order \in Orders /\ orders'[r.order] = r.status

LEMMA RequestAnswered ==
  ASSUME ExchangeTypeOK, NEW s \in Signals, NEW r \in Answers(s), Request(s, r)
  PROVE  r \in Responses /\ ExchangeTypeOK' /\ Answered(s, r)
<1>0. /\ Action[s] \in {"PLACE_ORDER", "CANCEL_ORDER", "CANCEL_ALL_ORDERS"}
      /\ PlaceResults \subseteq OrderStatus
      /\ "CANCELED" \in OrderStatus
  BY SignalAssumption, ExchangeAssumption
     DEF SignalAssumption, ExchangeAssumption, Actions, OrderStatus
<1>1. CASE Places(s)
  <2>1. /\ r \in [status : PlaceResults, order : {<<s, placed[s] + 1>>}, client : {s}]
        /\ PlaceOrder(s, r.status)
    BY <1>1 DEF Request, Answers, Places
  <2>2. /\ <<s, placed[s] + 1>> \in Orders /\ placed[s] \in Nat
        /\ placed[s] + 1 \in Nat
    BY <2>1, NextOrder DEF PlaceOrder
  <2>3. /\ placed' = [placed EXCEPT ![s] = placed[s] + 1]
        /\ placed'[s] = placed[s] + 1
    BY <2>1 DEF PlaceOrder, ExchangeTypeOK
  <2>4. orders' = [orders EXCEPT ![<<s, placed[s] + 1>>] = r.status]
    BY <2>1, <2>3 DEF PlaceOrder
  <2>5. r.status \in OrderStatus /\ r.order = <<s, placed[s] + 1>> /\ r.client = s
    BY <1>0, <2>1
  <2>6. r \in Responses
    BY <1>0, <2>1, <2>2 DEF Responses
  <2>7. ExchangeTypeOK'
    BY <2>2, <2>3, <2>4, <2>5 DEF ExchangeTypeOK
  <2>8. Answered(s, r)
    BY <1>1, <2>2, <2>3, <2>4, <2>5 DEF Answered, ExchangeTypeOK
  <2> QED BY <2>6, <2>7, <2>8
<1>2. CASE Action[s] = "CANCEL_ORDER"
  <2>1. r.status = "CANCELED" /\ r.client \in Signals /\ CancelOrder(r.order) /\ ~Places(s)
    BY <1>2 DEF Request, Answers, Places
  <2>2. r.order \in Orders /\ Open(r.order) /\ orders' = [orders EXCEPT ![r.order] = "CANCELED"]
    BY <2>1 DEF CancelOrder, Open
  <2>3. r = [status |-> r.status, order |-> r.order, client |-> r.client]
    BY <1>2 DEF Answers, Places
  <2>4. r \in Responses
    BY <1>0, <2>1, <2>2, <2>3 DEF Responses
  <2>5. ExchangeTypeOK' /\ Answered(s, r)
    BY <1>0, <2>1, <2>2 DEF CancelOrder, ExchangeTypeOK, Answered
  <2> QED BY <2>4, <2>5
<1>3. CASE Action[s] = "CANCEL_ALL_ORDERS"
  <2>1. r \in [status : {"CANCELED"}, order : {NoOrder}, client : {NoOrder}]
        /\ CancelOpenOrders(Symbol[s]) /\ ~Places(s)
    BY <1>3 DEF Request, Answers, Places
  <2>2. r \in Responses
    BY <1>0, <2>1 DEF Responses
  <2>3. ExchangeTypeOK' /\ Answered(s, r)
    BY <1>0, <1>3, <2>1 DEF CancelOpenOrders, ExchangeTypeOK, Answered
  <2> QED BY <2>2, <2>3
<1> QED BY <1>0, <1>1, <1>2, <1>3 DEF Places

LEMMA InitType == Init => TypeOK
<1> SUFFICES ASSUME Init
             PROVE  TypeOK
  OBVIOUS
<1>1. StoreTypeOK
  BY DEF Init, InitStore, StoreTypeOK
<1>2. ExchangeTypeOK
  BY DEF Init, InitExchange, ExchangeTypeOK
<1>3. ThreadTypeOK
  BY NoResponseType DEF Init, NoProcess, ThreadTypeOK, Steps
<1>4. table \subseteq Signals /\ crashes \in 0..MaxCrashes
  BY EngineAssumption DEF Init
<1>5. QED
  BY <1>1, <1>2, <1>3, <1>4, TypeParts

LEMMA NextType == TypeOK /\ [Next]_vars => TypeOK'
<1> SUFFICES ASSUME TypeOK, [Next]_vars
             PROVE  TypeOK'
  OBVIOUS
<1> USE DEF KeepPoll, KeepWorld, exchangeVars, storeVars, threadVars
<1>0. /\ StoreTypeOK /\ ExchangeTypeOK /\ ThreadTypeOK
      /\ table \subseteq Signals /\ crashes \in 0..MaxCrashes
  BY TypeParts
<1>a. ASSUME UNCHANGED exchangeVars, UNCHANGED <<table, crashes>>,
             StoreTypeOK', ThreadTypeOK'
      PROVE  TypeOK'
  <2>1. ExchangeTypeOK'
    BY <1>0, <1>a DEF ExchangeTypeOK
  <2>2. QED
    BY <1>0, <1>a, <2>1 DEF TypeOK, ThreadTypeOK
<1>b. ASSUME UNCHANGED storeVars
      PROVE  StoreTypeOK'
  BY <1>0, <1>b DEF StoreTypeOK
<1>c. ASSUME UNCHANGED <<threadVars>>
      PROVE  ThreadTypeOK'
  BY <1>0, <1>c DEF ThreadTypeOK
<1>1. CASE Start
  <2>1. PICK c \in Nat : SetCursor(c)
    BY <1>0, <1>1, EngineAssumption DEF Start, StoreTypeOK
  <2>2. StoreTypeOK' /\ dbCursor' \in Nat
    BY <1>0, <2>1, SetCursorType DEF SetCursor
  <2>3. ThreadTypeOK'
    BY <1>0, <1>1, <2>2, DieType, EngineAssumption DEF Start, ThreadTypeOK, Steps
  <2>4. QED
    BY <1>1, <1>a, <2>2, <2>3 DEF Start
<1>2. CASE PollFails \/ PollNothing \/ PollReturns
  BY <1>0, <1>2, <1>a, <1>b DEF PollFails, PollNothing, PollReturns, ThreadTypeOK, Steps
<1>3. CASE PollRows
  <2>1. batch' \subseteq Signals
    BY <1>0, <1>3, FetchType DEF PollRows, ThreadTypeOK
  <2>2. QED
    BY <1>0, <1>3, <2>1, <1>a, <1>b DEF PollRows, ThreadTypeOK, Steps
<1>4. CASE LoopError \/ HandleSignal \/ Shutdown
  <2>1. ThreadTypeOK'
    <3>1. CASE Die
      BY <3>1, DieType
    <3>2. CASE LoopError /\ ~Die
      BY <1>0, <3>2, NoResponseType DEF LoopError, ThreadTypeOK, Steps
    <3>3. CASE HandleSignal
      BY <1>0, <3>3 DEF HandleSignal, ThreadTypeOK, Steps
    <3>4. QED
      BY <1>4, <3>1, <3>2, <3>3 DEF Shutdown
  <2>2. QED
    BY <1>4, <1>a, <1>b, <2>1 DEF LoopError, HandleSignal, Shutdown
<1>5. CASE Crash
  <2>1. ThreadTypeOK' /\ StoreTypeOK'
    BY <1>5, <1>b, DieType DEF Crash
  <2>2. QED
    BY <1>0, <1>5, <2>1, EngineAssumption
       DEF Crash, TypeOK, ThreadTypeOK, ExchangeTypeOK
<1>6. CASE AdvanceCursor
  <2>1. PICK s \in batch : item' = s /\ batch' = batch \ {s} /\ pos' = Max2(pos, Ts[s])
    BY <1>6 DEF AdvanceCursor
  <2>2. s \in Signals /\ pos' \in Nat
    BY <1>0, <2>1, SignalAssumption DEF ThreadTypeOK, Max2
  <2>3. StoreTypeOK'
    BY <1>0, <1>6, <2>2, SetCursorType DEF AdvanceCursor, SetCursor, StoreTypeOK
  <2>4. ThreadTypeOK'
    BY <1>0, <1>6, <2>1, <2>2 DEF AdvanceCursor, ThreadTypeOK, Steps
  <2>5. QED
    BY <1>6, <1>a, <2>3, <2>4 DEF AdvanceCursor
<1>7. CASE Deduplicate
  BY <1>0, <1>7, <1>a, <1>b DEF Deduplicate, Emit, ThreadTypeOK, Steps
<1>8. CASE Receive
  <2>1. item \in Signals
    BY <1>0, <1>8 DEF Receive, ThreadTypeOK
  <2>2. StoreTypeOK'
    BY <1>0, <1>8, <2>1, SaveReceivedType DEF Receive
  <2>3. QED
    BY <1>0, <1>8, <2>1, <2>2, <1>a DEF Receive, Emit, ThreadTypeOK, Steps
<1>9. CASE RiskRejects \/ Dispatch \/ RecordFailure
  <2>1. item \in Signals
    BY <1>0, <1>9 DEF RiskRejects, Dispatch, RecordFailure, ThreadTypeOK
  <2>2. StoreTypeOK'
    BY <1>0, <1>9, <2>1, UpdateStatusType DEF RiskRejects, Dispatch, RecordFailure, RowStatus
  <2>3. QED
    BY <1>0, <1>9, <2>1, <2>2, <1>a
       DEF RiskRejects, Dispatch, RecordFailure, Emit, ThreadTypeOK, Steps
<1>10. CASE ExecuteAnswered \/ ExecuteLost
  <2>1. item \in Signals
    BY <1>0, <1>10 DEF ExecuteAnswered, ExecuteLost, ThreadTypeOK
  <2>2. PICK r \in Answers(item) : Request(item, r) /\ resp' \in {resp, r}
    BY <1>10 DEF ExecuteAnswered, ExecuteLost
  <2>3. ExchangeTypeOK' /\ resp' \in Responses
    BY <1>0, <2>1, <2>2, RequestAnswered DEF ThreadTypeOK
  <2>4. StoreTypeOK' /\ ThreadTypeOK'
    BY <1>0, <1>10, <1>b, <2>1, <2>3
       DEF ExecuteAnswered, ExecuteLost, ThreadTypeOK, Steps
  <2>5. QED
    BY <1>0, <1>10, <2>3, <2>4
       DEF ExecuteAnswered, ExecuteLost, TypeOK, ThreadTypeOK
<1>11. CASE ExecuteRefused \/ ExecuteDry
  <2>1. item \in Signals
    BY <1>0, <1>11 DEF ExecuteRefused, ExecuteDry, ThreadTypeOK
  <2>2. resp' \in Responses
    BY <1>0, <1>11, <2>1 DEF ExecuteRefused, ExecuteDry, ThreadTypeOK, Responses
  <2>3. QED
    BY <1>0, <1>11, <2>1, <2>2, <1>a, <1>b
       DEF ExecuteRefused, ExecuteDry, ThreadTypeOK, Steps
<1>12. CASE RecordResult
  <2>1. /\ item \in Signals
        /\ resp.order \in Orders \cup {NoOrder} /\ resp.client \in Signals \cup {NoOrder}
    BY <1>0, <1>12 DEF RecordResult, ThreadTypeOK, Responses
  <2>2. StoreTypeOK'
    BY <1>0, <1>12, <2>1, MappedType, UpdateStatusType DEF RecordResult
  <2>3. QED
    BY <1>0, <1>12, <2>1, <2>2, <1>a, NoResponseType
       DEF RecordResult, Emit, ThreadTypeOK, Steps
<1>13. CASE ReconcileSkips \/ ReconcileStarts
  BY <1>0, <1>13, <1>a, <1>b
     DEF ReconcileSkips, ReconcileStarts, ListReconcileCandidates, Candidates,
         ThreadTypeOK, Steps
<1>14. ASSUME NEW s \in Signals, QueryAnswered(s) \/ QueryFails(s)
       PROVE  TypeOK'
  <2>1. StoreTypeOK'
    <3>1. CASE QueryAnswered(s)
      <4>1. OrderOf(s) \in Orders /\ OrderOf(s)[1] \in Signals
        BY <3>1 DEF QueryAnswered, Exists, Orders
      <4> QED BY <1>0, <3>1, <4>1, MappedType, UpdateStatusType DEF QueryAnswered
    <3> QED BY <1>14, <1>b, <3>1 DEF QueryFails
  <2>2. QED
    BY <1>0, <1>14, <2>1, <1>a DEF QueryAnswered, QueryFails, AfterQuery, Emit, ThreadTypeOK, Steps
<1>15. CASE InsertRow
  BY <1>0, <1>15, <1>b, <1>c DEF InsertRow, Insert, TypeOK, ThreadTypeOK, ExchangeTypeOK
<1>16. CASE SettleOrder
  <2>1. ExchangeTypeOK'
    BY <1>0, <1>16, ExchangeAssumption
       DEF SettleOrder, Settle, ExchangeTypeOK, ClosedStatus
  <2>2. QED
    BY <1>0, <1>16, <2>1, <1>b, <1>c DEF SettleOrder, TypeOK, ThreadTypeOK
<1>17. CASE TimePasses
  <2>1. StoreTypeOK'
    BY <1>0, <1>17 DEF TimePasses, Age, StoreTypeOK
  <2>2. QED
    BY <1>17, <2>1, <1>a, <1>c DEF TimePasses
<1>18. CASE UNCHANGED vars
  BY <1>18, <1>a, <1>b, <1>c DEF vars
<1>19. QED
  BY <1>1, <1>2, <1>3, <1>4, <1>5, <1>6, <1>7, <1>8, <1>9, <1>10, <1>11, <1>12,
     <1>13, <1>14, <1>15, <1>16, <1>17, <1>18
     DEF Next, Engine

\* Every variable keeps its type.
THEOREM TypeCorrect == Spec => []TypeOK
BY InitType, NextType, PTL DEF Spec

\* However producers insert rows while the engine polls: a poll leaves out only
\* valid rows that are not older than what it delivers, behind a full LIMIT.
THEOREM PollSkipsOnlyTiesCorrect == Spec => []PollSkipsOnlyTies
<1>1. Cursors \subseteq Nat
  BY SignalAssumption DEF Cursors, SignalAssumption
<1>2. TypeOK => PollSkipsOnlyTies
  BY <1>1, SkipsOnlyTies DEF TypeOK, PollSkipsOnlyTies
<1> QED BY <1>2, TypeCorrect, PTL

-----------------------------------------------------------------------------
(***************************************************************************)
(* The protocol between the store and the exchange, whatever Kafka does     *)
(***************************************************************************)

\* What the row of the signal in hand says at each point of _process_signal,
\* and which rows a reconcile round holds.
RowOfItem ==
  /\ pc = "risk" => ~IsFinal(item) /\ status[item] # "NONE"
  /\ pc \in {"execute", "record"} => status[item] = "SENT"
  /\ pc = "failing" => /\ status[item] \notin {"NONE", "RECEIVED", "REJECTED"}
                       /\ status[item] = "SENT" \/ KafkaConfigured
  /\ pc = "query" => \A s \in cands : status[s] \in ReconcileStatuses

\* Only placing signals have orders, which placed counts.
OwnOrders ==
  /\ \A o \in Orders : orders[o] # "NONE" => o[2] <= placed[o[1]]
  /\ \A s \in Signals : placed[s] > 0 => Places(s)

\* The row of a placing signal that names no other order identifies its own
\* orders or none.
OwnIds ==
  \A s \in Signals : Places(s) /\ NamesNoOther(s) =>
    /\ orderId[s] # NoOrder => orderId[s][1] = s
    /\ clientId[s] \in Signals \ {s} => ~Places(clientId[s])

\* The answer in hand is about the signal in hand, and true of the order it
\* names.
OwnAnswer ==
  pc = "record" =>
    /\ Places(item) => resp.client = item /\ (resp.order # NoOrder => resp.order[1] = item)
    /\ resp.status \in DOMAIN FinalMap /\ Action[item] # "CANCEL_ALL_ORDERS" =>
         resp.order \in Orders /\ orders[resp.order] = resp.status

\* What the rows and the orders say of each other.
RowsAndOrders == OwnOrders /\ OwnIds /\ WriteAhead /\ TerminalAgrees

ProtocolInv == TypeOK /\ RowOfItem /\ OwnAnswer /\ RowsAndOrders

LEMMA RowsAndOrdersKept ==
  ASSUME RowsAndOrders, UNCHANGED <<status, orderId, clientId, exchangeVars>>
  PROVE  RowsAndOrders'
BY DEF RowsAndOrders, OwnOrders, OwnIds, WriteAhead, TerminalAgrees, Exists, exchangeVars

\* A status that comes from the exchange is that of the order that is written
\* with it.
LEMMA UpdateStatusRows ==
  ASSUME TypeOK, RowsAndOrders, UNCHANGED exchangeVars,
         NEW s \in Signals, NEW st \in RowStatus \ {"RECEIVED"},
         NEW order \in Orders \cup {NoOrder}, NEW client \in Signals \cup {NoOrder},
         UpdateStatus(s, st, order, client),
         Places(s) /\ NamesNoOther(s) => /\ order # NoOrder => order[1] = s
                                         /\ client \in Signals \ {s} => ~Places(client),
         Action[s] # "CANCEL_ALL_ORDERS" =>
           \A o \in DOMAIN FinalMap : st = FinalMap[o] => order \in Orders /\ orders[order] = o
  PROVE  /\ RowsAndOrders'
         /\ status'[s] = st
         /\ \A t \in Signals \ {s} : status'[t] = status[t]
<1>1. orders' = orders /\ placed' = placed
  BY DEF exchangeVars
<1>2. /\ \A t \in Signals : status'[t] = IF t = s THEN st ELSE status[t]
      /\ \A t \in Signals \ {s} : orderId'[t] = orderId[t] /\ clientId'[t] = clientId[t]
      /\ orderId'[s] = IF order = NoOrder THEN orderId[s] ELSE order
      /\ clientId'[s] = IF client = NoOrder THEN clientId[s] ELSE client
  BY DEF UpdateStatus, TypeOK, StoreTypeOK
<1>3. OwnOrders' /\ OwnIds'
  BY <1>1, <1>2 DEF RowsAndOrders, OwnOrders, OwnIds
<1>4. WriteAhead'
  BY <1>1, <1>2 DEF RowsAndOrders, WriteAhead, RowStatus
<1>5. TerminalAgrees'
  <2> SUFFICES ASSUME NEW t \in Signals, NEW o \in DOMAIN FinalMap,
                      status'[t] = FinalMap[o], Action[t] # "CANCEL_ALL_ORDERS"
               PROVE  /\ Exists(orderId[t])' /\ orders[orderId[t]]' = o
                      /\ Places(t) /\ NamesNoOther(t) => orderId'[t][1] = t
    BY DEF TerminalAgrees
  <2>1. CASE t = s
    <3>1. order \in Orders /\ orders[order] = o /\ order # NoOrder /\ o # "NONE"
      BY <1>2, <2>1, SignalAssumption DEF SignalAssumption, FinalMap
    <3> QED BY <1>1, <1>2, <2>1, <3>1 DEF Exists
  <2>2. CASE t # s
    BY <1>1, <1>2, <2>2 DEF RowsAndOrders, TerminalAgrees, Exists
  <2> QED BY <2>1, <2>2
<1>6. QED
  BY <1>2, <1>3, <1>4, <1>5 DEF RowsAndOrders

LEMMA SaveReceivedRows ==
  ASSUME TypeOK, RowsAndOrders, UNCHANGED exchangeVars, NEW s \in Signals, SaveReceived(s)
  PROVE  /\ RowsAndOrders'
         /\ status'[s] = IF status[s] = "NONE" THEN "RECEIVED" ELSE status[s]
         /\ \A t \in Signals \ {s} : status'[t] = status[t]
<1>1. orders' = orders /\ placed' = placed
  BY DEF exchangeVars
<1>2. \A t \in Signals :
        \/ /\ status'[t] = status[t] /\ orderId'[t] = orderId[t] /\ clientId'[t] = clientId[t]
           /\ t = s => status[t] # "NONE"
        \/ /\ t = s /\ status[t] = "NONE" /\ status'[t] = "RECEIVED"
           /\ orderId'[t] = OrderId[t] /\ clientId'[t] = OrigClientId[t]
  BY DEF SaveReceived, Recorded, TypeOK, StoreTypeOK
<1>3. OwnOrders' /\ OwnIds'
  BY <1>1, <1>2 DEF RowsAndOrders, OwnOrders, OwnIds, NamesNoOther
<1>4. WriteAhead'
  BY <1>1, <1>2 DEF RowsAndOrders, WriteAhead
<1>5. TerminalAgrees'
  BY <1>1, <1>2, FinalMapInjective DEF RowsAndOrders, TerminalAgrees, Exists
<1>6. QED
  BY <1>2, <1>3, <1>4, <1>5 DEF RowsAndOrders

\* New orders, and open orders that are canceled or settle, leave every row
\* true: no row holds the status of an order that is still to end.
LEMMA OrdersMove ==
  ASSUME TypeOK, RowsAndOrders, UNCHANGED <<status, orderId, clientId>>,
         \A o \in Orders : orders[o] \in ClosedStatus => orders'[o] = orders[o]
  PROVE  OwnIds' /\ TerminalAgrees'
<1>1. DOMAIN FinalMap \subseteq ClosedStatus
  BY DEF FinalMap, ClosedStatus, OrderStatus
<1>2. OwnIds'
  BY DEF RowsAndOrders, OwnIds
<1>3. TerminalAgrees'
  BY <1>1 DEF RowsAndOrders, TerminalAgrees, Exists, ClosedStatus, OrderStatus
<1> QED BY <1>2, <1>3

LEMMA ClosingRows ==
  ASSUME TypeOK, RowsAndOrders, UNCHANGED <<status, orderId, clientId, placed>>,
         \A o \in Orders : orders'[o] = orders[o] \/ Open(o)
  PROVE  RowsAndOrders'
<1>1. \A o \in Orders : orders[o] \in ClosedStatus => orders'[o] = orders[o]
  BY DEF Open, ClosedStatus
<1>2. OwnOrders'
  BY DEF RowsAndOrders, OwnOrders, Open
<1>3. QED
  BY <1>1, <1>2, OrdersMove DEF RowsAndOrders, WriteAhead

\* A request keeps rows and orders in step when the row of its signal says
\* SENT.
LEMMA RequestRows ==
  ASSUME TypeOK, RowsAndOrders, UNCHANGED <<status, orderId, clientId>>,
         NEW s \in Signals, status[s] = "SENT", NEW r, Answered(s, r)
  PROVE  /\ RowsAndOrders'
         /\ \A t \in Signals : placed'[t] = placed[t] \/ (t = s /\ placed'[t] = placed[t] + 1)
<1>1. CASE Places(s)
  <2>1. /\ r.order = <<s, placed[s] + 1>> /\ r.order \in Orders
        /\ \A o \in Orders : orders'[o] = IF o = r.order THEN r.status ELSE orders[o]
        /\ \A t \in Signals : placed'[t] = IF t = s THEN placed[t] + 1 ELSE placed[t]
    BY <1>1 DEF Answered
  <2>2. \A t \in Signals : placed[t] \in Nat
    BY DEF TypeOK, ExchangeTypeOK
  <2>3. r.order[1] = s /\ r.order[2] = placed[s] + 1
    BY <2>1
  <2>4. \A o \in Orders : o[1] \in Signals /\ o[2] \in 1..MaxOrders
    BY DEF Orders
  <2>5. orders[r.order] = "NONE"
    BY <2>1, <2>2, <2>3 DEF RowsAndOrders, OwnOrders
  <2>6. OwnOrders'
    <3>1. ASSUME NEW o \in Orders, orders'[o] # "NONE"
          PROVE  o[2] <= placed'[o[1]]
      <4>1. CASE o = r.order
        BY <2>1, <2>2, <2>3, <2>4, <4>1
      <4>2. CASE o # r.order
        <5>1. o[2] <= placed[o[1]]
          BY <2>1, <3>1, <4>2 DEF RowsAndOrders, OwnOrders
        <5>2. o[1] \in Signals /\ o[2] \in Int /\ placed'[o[1]] \in {placed[o[1]], placed[o[1]] + 1}
          BY <2>1, <2>4, SignalAssumption DEF SignalAssumption
        <5> QED BY <2>2, <5>1, <5>2
      <4> QED BY <4>1, <4>2
    <3>2. \A t \in Signals : placed'[t] > 0 => Places(t)
      BY <1>1, <2>1 DEF RowsAndOrders, OwnOrders
    <3> QED BY <3>1, <3>2 DEF OwnOrders
  <2>7. \A o \in Orders : orders[o] \in ClosedStatus => orders'[o] = orders[o]
    BY <2>1, <2>5 DEF ClosedStatus, OrderStatus
  <2>8. WriteAhead'
    BY <2>1 DEF RowsAndOrders, WriteAhead
  <2> QED BY <2>1, <2>6, <2>7, <2>8, OrdersMove DEF RowsAndOrders
<1>2. CASE ~Places(s)
  BY <1>2, ClosingRows DEF Answered
<1> QED BY <1>1, <1>2

\* What the row of a signal identifies is one of its own orders, unless the
\* signal names another.
LEMMA OwnOrderOf ==
  ASSUME TypeOK, RowsAndOrders, NEW s \in Signals, Places(s), NamesNoOther(s),
         Exists(OrderOf(s))
  PROVE  OrderOf(s)[1] = s
<1>1. /\ orderId[s] # NoOrder => orderId[s][1] = s
      /\ clientId[s] \in Signals \ {s} => ~Places(clientId[s])
      /\ clientId[s] \in Signals \cup {NoOrder}
  BY DEF RowsAndOrders, OwnIds, TypeOK, StoreTypeOK
<1>2. CASE orderId[s] # NoOrder \/ clientId[s] = NoOrder
  BY <1>1, <1>2, SignalAssumption DEF OrderOf, Identified, Exists, SignalAssumption
<1>3. CASE ~(orderId[s] # NoOrder \/ clientId[s] = NoOrder)
  <2>1. OrderOf(s) = <<clientId[s], placed[clientId[s]]>> /\ clientId[s] \in Signals
    BY <1>1, <1>3 DEF OrderOf, Identified
  <2>2. placed[clientId[s]] \in 1..MaxOrders
    BY <2>1 DEF Exists, Orders
  <2>3. placed[clientId[s]] > 0
    BY <2>2, SignalAssumption DEF SignalAssumption
  <2>4. Places(clientId[s])
    BY <2>1, <2>3 DEF RowsAndOrders, OwnOrders
  <2> QED BY <1>1, <2>1, <2>4
<1> QED BY <1>2, <1>3

LEMMA InitProtocol == Init => ProtocolInv
<1> SUFFICES ASSUME Init
             PROVE  ProtocolInv
  OBVIOUS
<1>1. RowOfItem /\ OwnAnswer
  BY DEF Init, NoProcess, RowOfItem, OwnAnswer
<1>2. /\ \A s \in Signals : /\ status[s] = "NONE" /\ placed[s] = 0
                            /\ orderId[s] = NoOrder /\ clientId[s] = NoOrder
      /\ \A o \in Orders : orders[o] = "NONE"
  BY DEF Init, InitStore, InitExchange
<1>3. RowsAndOrders
  BY <1>2, FinalMapInjective, SignalAssumption
     DEF RowsAndOrders, OwnOrders, OwnIds, WriteAhead, TerminalAgrees, SignalAssumption
<1>4. QED
  BY <1>1, <1>3, InitType DEF ProtocolInv

LEMMA NextProtocol == ProtocolInv /\ [Next]_vars => ProtocolInv'
<1> SUFFICES ASSUME ProtocolInv, [Next]_vars
             PROVE  RowOfItem' /\ OwnAnswer' /\ RowsAndOrders'
  BY NextType DEF ProtocolInv
<1> USE DEF KeepPoll, KeepWorld
<1>0. TypeOK /\ TypeOK' /\ RowOfItem /\ OwnAnswer /\ RowsAndOrders
  BY NextType DEF ProtocolInv
<1>i. /\ pc \in {"dedup", "risk", "execute", "record", "failing"} => item \in Signals
      /\ resp \in Responses /\ batch \subseteq Signals /\ cands \subseteq Signals
  BY <1>0 DEF TypeOK
<1>k. ASSUME UNCHANGED <<storeVars, exchangeVars>>
      PROVE  RowsAndOrders' /\ UNCHANGED status
  BY <1>0, <1>k, RowsAndOrdersKept DEF storeVars
<1>1. CASE Start
  <2>1. UNCHANGED <<status, orderId, clientId, exchangeVars>> /\ pc' \in {"loop", "down"}
    BY <1>1 DEF Start, SetCursor, Die
  <2>2. QED
    BY <1>0, <2>1, RowsAndOrdersKept DEF RowOfItem, OwnAnswer
<1>2. CASE \/ PollFails \/ PollNothing \/ PollRows \/ PollReturns \/ LoopError
           \/ Shutdown \/ Crash \/ ReconcileSkips
  <2>1. /\ UNCHANGED <<storeVars, exchangeVars>>
        /\ pc' \in {"error", "reconcile", "cursor", "loop", "down"}
    BY <1>2 DEF PollFails, PollNothing, PollRows, PollReturns, LoopError, Shutdown,
                Crash, ReconcileSkips, Die
  <2>2. QED
    BY <1>k, <2>1 DEF RowOfItem, OwnAnswer
<1>3. CASE HandleSignal \/ InsertRow
  <2>1. UNCHANGED <<storeVars, exchangeVars, pc, item, resp, cands>>
    BY <1>3 DEF HandleSignal, InsertRow, threadVars
  <2>2. QED
    BY <1>0, <1>k, <2>1 DEF RowOfItem, OwnAnswer, IsFinal, exchangeVars
<1>4. CASE AdvanceCursor
  <2>1. UNCHANGED <<status, orderId, clientId, exchangeVars>> /\ pc' = "dedup"
    BY <1>4 DEF AdvanceCursor, SetCursor
  <2>2. QED
    BY <1>0, <2>1, RowsAndOrdersKept DEF RowOfItem, OwnAnswer
<1>5. CASE Deduplicate
  <2>1. UNCHANGED <<storeVars, exchangeVars>> /\ pc' \in {"cursor", "error"}
    BY <1>5 DEF Deduplicate, Emit
  <2>2. QED
    BY <1>k, <2>1 DEF RowOfItem, OwnAnswer
<1>6. CASE Receive
  <2>1. /\ item \in Signals /\ item' = item /\ ~IsFinal(item)
        /\ SaveReceived(item) /\ UNCHANGED exchangeVars
        /\ pc' \in {"risk", "error"}
    BY <1>6, <1>i DEF Receive, Emit
  <2>2. RowsAndOrders' /\ status'[item] = IF status[item] = "NONE" THEN "RECEIVED"
                                          ELSE status[item]
    BY <1>0, <2>1, SaveReceivedRows
  <2>3. QED
    BY <2>1, <2>2 DEF RowOfItem, OwnAnswer, IsFinal, FinalStatuses
<1>7. CASE RiskRejects
  <2>1. /\ item \in Signals /\ UpdateStatus(item, "REJECTED", NoOrder, NoOrder)
        /\ UNCHANGED exchangeVars /\ pc' \in {"cursor", "error"}
    BY <1>7, <1>i DEF RiskRejects, Emit
  <2>2. RowsAndOrders'
    BY <1>0, <2>1, UpdateStatusRows, FinalMapInjective, SignalAssumption
       DEF RowStatus, SignalAssumption
  <2>3. QED
    BY <2>1, <2>2 DEF RowOfItem, OwnAnswer
<1>8. CASE Dispatch
  <2>1. /\ item \in Signals /\ item' = item /\ UpdateStatus(item, "SENT", NoOrder, NoOrder)
        /\ UNCHANGED exchangeVars /\ pc' \in {"execute", "error"}
    BY <1>8, <1>i DEF Dispatch, Emit
  <2>2. RowsAndOrders' /\ status'[item] = "SENT"
    BY <1>0, <2>1, UpdateStatusRows, FinalMapInjective, SignalAssumption
       DEF RowStatus, SignalAssumption
  <2>3. QED
    BY <2>1, <2>2 DEF RowOfItem, OwnAnswer
<1>9. CASE ExecuteAnswered \/ ExecuteLost
  <2>1. /\ item \in Signals /\ item' = item /\ status[item] = "SENT"
        /\ UNCHANGED <<status, orderId, clientId>>
        /\ pc' = "failing" \/ pc' = "record"
    BY <1>0, <1>9, <1>i DEF ExecuteAnswered, ExecuteLost, RowOfItem, storeVars
  <2>2. PICK r \in Answers(item) : Request(item, r) /\ (pc' = "record" => resp' = r)
    BY <1>9 DEF ExecuteAnswered, ExecuteLost
  <2>3. Answered(item, r)
    BY <1>0, <2>1, <2>2, RequestAnswered DEF TypeOK
  <2>4. RowsAndOrders'
    BY <1>0, <2>1, <2>3, RequestRows
  <2>5. OwnAnswer'
    BY <2>1, <2>2, <2>3 DEF OwnAnswer, Answered, Places
  <2>6. QED
    BY <2>1, <2>4, <2>5 DEF RowOfItem
<1>10. CASE ExecuteRefused \/ ExecuteDry
  <2>1. /\ item \in Signals /\ item' = item /\ status[item] = "SENT"
        /\ UNCHANGED <<storeVars, exchangeVars>>
        /\ pc' = "failing" \/ pc' = "record"
        /\ pc' = "record" =>
             resp'.status = "ACKED" /\ resp'.order = NoOrder /\ resp'.client = item
    BY <1>0, <1>10, <1>i DEF ExecuteRefused, ExecuteDry, RowOfItem
  <2>2. "ACKED" \notin DOMAIN FinalMap
    BY DEF FinalMap
  <2>3. QED
    BY <1>k, <2>1, <2>2 DEF RowOfItem, OwnAnswer
<1>11. CASE RecordResult
  <2>1. /\ item \in Signals /\ item' = item
        /\ UpdateStatus(item, Mapped(resp.status), resp.order, resp.client)
        /\ resp.order \in Orders \cup {NoOrder} /\ resp.client \in Signals \cup {NoOrder}
        /\ UNCHANGED exchangeVars
        /\ pc' = "cursor" \/ (KafkaConfigured /\ pc' = "failing")
    BY <1>11, <1>i DEF RecordResult, Emit, Responses
  <2>2. Mapped(resp.status) \in RowStatus \ {"RECEIVED", "REJECTED"}
    BY DEF Mapped, FinalMap, RowStatus
  <2>3. \A o \in DOMAIN FinalMap :
          Mapped(resp.status) = FinalMap[o] => resp.status = o /\ resp.status \in DOMAIN FinalMap
    BY FinalMapInjective DEF Mapped
  <2>4. /\ Places(item) => resp.client = item /\ (resp.order # NoOrder => resp.order[1] = item)
        /\ resp.status \in DOMAIN FinalMap /\ Action[item] # "CANCEL_ALL_ORDERS" =>
             resp.order \in Orders /\ orders[resp.order] = resp.status
    BY <1>0, <1>11 DEF RecordResult, OwnAnswer
  <2>5. RowsAndOrders' /\ status'[item] = Mapped(resp.status)
    BY <1>0, <2>1, <2>2, <2>3, <2>4, UpdateStatusRows
  <2>6. QED
    BY <2>1, <2>2, <2>5 DEF RowOfItem, OwnAnswer, RowStatus
<1>12. CASE RecordFailure
  <2>1. /\ item \in Signals /\ UpdateStatus(item, "FAILED", NoOrder, NoOrder)
        /\ UNCHANGED exchangeVars /\ pc' \in {"cursor", "error"}
    BY <1>12, <1>i DEF RecordFailure, Emit
  <2>2. RowsAndOrders'
    BY <1>0, <2>1, UpdateStatusRows, FinalMapInjective, SignalAssumption
       DEF RowStatus, SignalAssumption
  <2>3. QED
    BY <2>1, <2>2 DEF RowOfItem, OwnAnswer
<1>13. CASE ReconcileStarts
  <2>1. /\ UNCHANGED <<storeVars, exchangeVars>> /\ pc' = "query"
        /\ \A s \in cands' : status[s] \in ReconcileStatuses
    BY <1>13 DEF ReconcileStarts, ListReconcileCandidates, Candidates
  <2>2. QED
    BY <1>k, <2>1 DEF RowOfItem, OwnAnswer
<1>14. ASSUME NEW s \in Signals, QueryAnswered(s)
       PROVE  RowOfItem' /\ OwnAnswer' /\ RowsAndOrders'
  <2> DEFINE order == OrderOf(s)
  <2>1. /\ UpdateStatus(s, Mapped(orders[order]), order, order[1])
        /\ Exists(order) /\ cands' = cands \ {s} /\ pc = "query"
        /\ UNCHANGED exchangeVars /\ pc' \in {"loop", "query", "error"}
    BY <1>14 DEF QueryAnswered, AfterQuery, Emit
  <2>2. Mapped(orders[order]) \in RowStatus \ {"RECEIVED"}
    BY DEF Mapped, FinalMap, RowStatus
  <2>3. Places(s) /\ NamesNoOther(s) => order[1] = s
    BY <1>0, <2>1, OwnOrderOf
  <2>4. order \in Orders /\ order[1] \in Signals
    BY <2>1 DEF Exists, Orders
  <2>5. \A o \in DOMAIN FinalMap : Mapped(orders[order]) = FinalMap[o] => orders[order] = o
    BY FinalMapInjective DEF Mapped
  <2> HIDE DEF order
  <2>6. RowsAndOrders' /\ \A t \in Signals \ {s} : status'[t] = status[t]
    BY <1>0, <2>1, <2>2, <2>3, <2>4, <2>5, UpdateStatusRows
  <2>7. QED
    BY <1>0, <1>i, <2>1, <2>6 DEF RowOfItem, OwnAnswer
<1>15. ASSUME NEW s \in Signals, QueryFails(s)
       PROVE  RowOfItem' /\ OwnAnswer' /\ RowsAndOrders'
  <2>1. /\ UNCHANGED <<storeVars, exchangeVars>> /\ pc = "query"
        /\ cands' = cands \ {s} /\ pc' \in {"loop", "query", "error"}
    BY <1>15 DEF QueryFails, AfterQuery, Emit
  <2>2. QED
    BY <1>0, <1>k, <2>1 DEF RowOfItem, OwnAnswer
<1>16. CASE SettleOrder
  <2>1. UNCHANGED <<status, orderId, clientId, placed, pc, item, resp, cands>>
    BY <1>16 DEF SettleOrder, Settle, storeVars, threadVars
  <2>2. \A o \in Orders : orders'[o] = orders[o] \/ Open(o)
    BY <1>0, <1>16 DEF SettleOrder, Settle, TypeOK, ExchangeTypeOK
  <2>3. RowsAndOrders'
    BY <1>0, <2>1, <2>2, ClosingRows
  <2>4. OwnAnswer'
    BY <1>0, <1>i, <2>1, <2>2 DEF OwnAnswer, Open, FinalMap
  <2>5. QED
    BY <1>0, <2>1, <2>3, <2>4 DEF RowOfItem, IsFinal
<1>17. CASE TimePasses \/ UNCHANGED vars
  <2>1. UNCHANGED <<status, orderId, clientId, exchangeVars, pc, item, resp, cands>>
    BY <1>17 DEF TimePasses, Age, vars, storeVars, threadVars
  <2>2. QED
    BY <1>0, <2>1, RowsAndOrdersKept DEF RowOfItem, OwnAnswer, IsFinal, exchangeVars
<1>18. QED
  BY <1>1, <1>2, <1>3, <1>4, <1>5, <1>6, <1>7, <1>8, <1>9, <1>10, <1>11, <1>12,
     <1>13, <1>14, <1>15, <1>16, <1>17 DEF Next, Engine

LEMMA ProtocolCorrect == Spec => []ProtocolInv
BY InitProtocol, NextProtocol, PTL DEF Spec

\* An order on the exchange belongs to a row that says SENT or later: a crash
\* at any step leaves no order the store does not know of.
THEOREM WriteAheadCorrect == Spec => []WriteAhead
<1>1. ProtocolInv => WriteAhead
  BY DEF ProtocolInv, RowsAndOrders
<1>2. QED
  BY <1>1, ProtocolCorrect, PTL

\* However often a signal is executed and whatever answers are lost: a terminal
\* exchange status in a row is that of the order its order_id names, which is
\* an order of the signal's own unless it names another.
THEOREM TerminalAgreement == Spec => []TerminalAgrees
<1>1. ProtocolInv => TerminalAgrees
  BY DEF ProtocolInv, RowsAndOrders
<1>2. QED
  BY <1>1, ProtocolCorrect, PTL

\* The steps that write the row of a signal, and what they write.
RowStep(s) ==
  \/ Receive /\ s = item /\ status[s] = "NONE" /\ status'[s] = "RECEIVED"
  \/ RiskRejects /\ s = item /\ status'[s] = "REJECTED"
  \/ Dispatch /\ s = item /\ status'[s] = "SENT"
  \/ RecordResult /\ s = item /\ status'[s] = Mapped(resp.status)
  \/ RecordFailure /\ s = item /\ status'[s] = "FAILED"
  \/ QueryAnswered(s) /\ status'[s] = Mapped(orders[OrderOf(s)])

LEMMA RowSteps ==
  ASSUME TypeOK, [Next]_vars, NEW s \in Signals, status'[s] # status[s]
  PROVE  RowStep(s)
<1>1. StoreTypeOK /\ (pc \in {"dedup", "risk", "record", "failing"} => item \in Signals)
  BY DEF TypeOK
<1>2. CASE Receive
  BY <1>1, <1>2 DEF Receive, SaveReceived, Recorded, StoreTypeOK, RowStep
<1>3. CASE RiskRejects \/ Dispatch \/ RecordResult \/ RecordFailure
  BY <1>1, <1>3 DEF RiskRejects, Dispatch, RecordResult, RecordFailure,
                    UpdateStatus, StoreTypeOK, RowStep
<1>4. ASSUME NEW t \in Signals, QueryAnswered(t)
      PROVE  RowStep(s)
  BY <1>1, <1>4 DEF QueryAnswered, UpdateStatus, StoreTypeOK, RowStep
<1>5. CASE \/ Start \/ PollFails \/ PollNothing \/ PollRows \/ PollReturns \/ LoopError
           \/ HandleSignal \/ Shutdown \/ Crash \/ AdvanceCursor \/ Deduplicate
           \/ ExecuteAnswered \/ ExecuteLost \/ ExecuteRefused \/ ExecuteDry
           \/ ReconcileSkips \/ ReconcileStarts \/ (\E t \in Signals : QueryFails(t))
           \/ InsertRow \/ SettleOrder \/ TimePasses \/ UNCHANGED vars
  BY <1>5 DEF Start, SetCursor, PollFails, PollNothing, PollRows, PollReturns, LoopError,
       HandleSignal, Shutdown, Crash, AdvanceCursor, Deduplicate, ExecuteAnswered,
       ExecuteLost, ExecuteRefused, ExecuteDry, ReconcileSkips, ReconcileStarts,
       QueryFails, InsertRow, SettleOrder, TimePasses, Age, vars, storeVars
<1>6. QED
  BY <1>2, <1>3, <1>4, <1>5 DEF Next, Engine

\* Where the engine may find a final row in its hands.
LEMMA FinalRowStep ==
  ASSUME ProtocolInv, NEW s \in Signals, IsFinal(s), RowStep(s)
  PROVE  (RecordFailure /\ s = item /\ status'[s] = "FAILED")
<1>1. RowOfItem /\ cands \subseteq Signals
  BY DEF ProtocolInv, TypeOK
<1>2. status[s] \notin {"NONE", "SENT", "ACKED", "FAILED"}
  BY DEF IsFinal, FinalStatuses
<1>3. CASE Receive \/ RiskRejects \/ Dispatch \/ RecordResult
  BY <1>1, <1>2, <1>3 DEF RowStep, Receive, RiskRejects, Dispatch, RecordResult,
                          RowOfItem, QueryAnswered, RecordFailure
<1>4. CASE QueryAnswered(s)
  BY <1>1, <1>2, <1>4 DEF QueryAnswered, Reached, RowOfItem, ReconcileStatuses
<1>5. QED
  BY <1>3, <1>4 DEF RowStep

\* A final status is left only by the except block, after an event that raised.
THEOREM FinalLeftOnlyToFailedCorrect == Spec => FinalLeftOnlyToFailed
<1> DEFINE Left(s) == IsFinal(s) /\ status'[s] # status[s] =>
                        KafkaConfigured /\ pc = "failing" /\ s = item /\ status'[s] = "FAILED"
<1>1. ProtocolInv /\ [Next]_vars => [\A s \in Signals : Left(s)]_vars
  <2> SUFFICES ASSUME ProtocolInv, [Next]_vars, NEW s \in Signals,
                      IsFinal(s), status'[s] # status[s]
               PROVE  KafkaConfigured /\ pc = "failing" /\ s = item /\ status'[s] = "FAILED"
    OBVIOUS
  <2>1. RecordFailure /\ s = item /\ status'[s] = "FAILED"
    BY RowSteps, FinalRowStep DEF ProtocolInv
  <2>2. QED
    BY <2>1 DEF ProtocolInv, RowOfItem, RecordFailure, IsFinal, FinalStatuses
<1>2. QED
  BY <1>1, ProtocolCorrect, PTL DEF Spec, FinalLeftOnlyToFailed

=============================================================================
