--------------------------- MODULE StrategyEngine ---------------------------
(***************************************************************************)
(* The strategy engine of engine/base.py with its execution adapter         *)
(* (engine/executor.py): it pulls signals from ClickHouse, guards each one  *)
(* against a second execution with the SQLite store, sends it to the        *)
(* exchange and reconciles what it has not seen end.                        *)
(*                                                                          *)
(* One thread runs the loop.  An action is one database transaction or one  *)
(* exchange request of that thread together with the audit event that       *)
(* follows it, so that a crash, a stop signal, an order that settles and a  *)
(* row that is inserted may come between any two of them.  When Kafka is    *)
(* configured an audit event may raise; the exception goes where the code's *)
(* try statements send it.                                                  *)
(***************************************************************************)
EXTENDS EngineStateStore, SignalSource, Exchange

CONSTANTS KafkaConfigured,  \* kafka_bootstrap_servers is set: emits may raise
          DryRunModes,      \* the values of --dry-run operators start with
          StartCursor,      \* cursor of the first start, now - lookback
          ReconcileBatch,   \* reconcile_batch_size
          MaxCrashes        \* bound: how often the process crashes

ASSUME EngineAssumption ==
  /\ KafkaConfigured \in BOOLEAN
  /\ DryRunModes \subseteq BOOLEAN
  /\ StartCursor \in Nat
  /\ ReconcileBatch \in Nat \ {0}
  /\ MaxCrashes \in Nat

VARIABLES pc,       \* where the engine thread is, "down" when there is none
          stop,     \* _stop
          dryRun,   \* _dry_run
          cursor,   \* the cursor of run()
          pos,      \* the cursor of _poll_once, until it returns
          batch,    \* rows the for loop of _poll_once has not reached
          item,     \* signal_item of _process_signal
          resp,     \* what execute returned
          cands,    \* rows the for loop of _reconcile_once has not reached
          crashes   \* crashes so far

threadVars == <<pc, stop, dryRun, cursor, pos, batch, item, resp, cands>>
vars == <<storeVars, table, exchangeVars, threadVars, crashes>>

Steps == {"down", "loop", "cursor", "dedup", "risk", "execute", "record",
          "failing", "reconcile", "query", "error"}

\* What execute returns: an order status (or the adapter's own "ACKED"), an
\* order id and a client order id.
Responses == [status : OrderStatus \cup {"ACKED"},
              order  : Orders \cup {NoOrder},
              client : Signals \cup {NoOrder}]
NoResponse == [status |-> "ACKED", order |-> NoOrder, client |-> NoOrder]

\* _FINAL_MAP.get(status), ACKED for a status it does not hold.
FinalMap == [FILLED   |-> "FILLED",
             CANCELED |-> "CANCELED",
             REJECTED |-> "REJECTED_BY_EXCHANGE",
             EXPIRED  |-> "EXPIRED"]

\* Mutants: no default; an accepted order taken for a filled one.
MappedRaw(o) == IF o \in DOMAIN FinalMap THEN FinalMap[o] ELSE o
MappedAccepted(o) ==
  CASE o \in DOMAIN FinalMap -> FinalMap[o] [] o = "NEW" -> "FILLED" [] OTHER -> "ACKED"

Mapped(o) == IF o \in DOMAIN FinalMap THEN FinalMap[o] ELSE "ACKED"

Max2(a, b) == IF a >= b THEN a ELSE b

TypeOK ==
  /\ StoreTypeOK
  /\ ExchangeTypeOK
  /\ table \subseteq Signals
  /\ pc \in Steps
  /\ stop \in BOOLEAN
  /\ dryRun \in BOOLEAN
  /\ cursor \in Nat
  /\ pos \in Nat
  /\ batch \subseteq Signals
  /\ item \in Signals \cup {NoOrder}
  /\ pc \in {"dedup", "risk", "execute", "record", "failing"} => item \in Signals
  /\ resp \in Responses
  /\ cands \subseteq Signals
  /\ crashes \in 0..MaxCrashes

\* No process: nothing but the store and the exchange is remembered.
NoProcess ==
  /\ pc = "down" /\ stop = FALSE /\ dryRun = FALSE
  /\ cursor = 0 /\ pos = 0
  /\ batch = {} /\ item = NoOrder /\ resp = NoResponse /\ cands = {}

Init ==
  /\ InitStore
  /\ InitExchange
  /\ table = {}
  /\ NoProcess
  /\ crashes = 0

-----------------------------------------------------------------------------
(***************************************************************************)
(* Helpers                                                                  *)
(***************************************************************************)

\* The process ends: by a crash, by an exception that leaves run(), by close().
Die ==
  /\ pc' = "down" /\ stop' = FALSE /\ dryRun' = FALSE
  /\ cursor' = 0 /\ pos' = 0
  /\ batch' = {} /\ item' = NoOrder /\ resp' = NoResponse /\ cands' = {}

\* Mutant: the check that there is an audit logger is missing.
EmitUnchecked(next, handler) == pc' \in {next, handler}

\* An audit event: it returns and the thread goes on, or it raises.
Emit(next, handler) ==
  \/ pc' = next
  \/ KafkaConfigured /\ pc' = handler

KeepPoll == UNCHANGED <<stop, dryRun, cursor, pos, batch, item, cands>>
KeepWorld == UNCHANGED <<table, exchangeVars, crashes>>

-----------------------------------------------------------------------------
(***************************************************************************)
(* run(): start, poll, errors, shutdown                                     *)
(***************************************************************************)

\* Mutant: every start looks back, whatever cursor is stored.
StartAtLookback ==
  /\ pc = "down"
  /\ SetCursor(StartCursor)
  /\ pc' = "loop"
  /\ cursor' = StartCursor
  /\ dryRun' \in DryRunModes
  /\ UNCHANGED <<stop, pos, batch, item, resp, cands>>
  /\ KeepWorld

\* _init_cursor, then engine_started; if that event raises, run() ends.
Start ==
  /\ pc = "down"
  /\ SetCursor(IF dbCursor = NoCursor THEN StartCursor ELSE dbCursor)
  /\ \/ /\ pc' = "loop"
        /\ cursor' = dbCursor'
        /\ dryRun' \in DryRunModes
        /\ UNCHANGED <<stop, pos, batch, item, resp, cands>>
     \/ KafkaConfigured /\ Die
  /\ KeepWorld

\* _poll_once up to its for loop.
PollFails ==
  /\ pc = "loop" /\ ~stop
  /\ pc' = "error"
  /\ KeepPoll /\ KeepWorld
  /\ UNCHANGED <<storeVars, resp>>

PollNothing ==
  /\ pc = "loop" /\ ~stop
  /\ Fetch(cursor) = {}
  /\ pc' = "reconcile"
  /\ KeepPoll /\ KeepWorld
  /\ UNCHANGED <<storeVars, resp>>

PollRows ==
  /\ pc = "loop" /\ ~stop
  /\ Fetch(cursor) # {}
  /\ pc' = "cursor"
  /\ batch' = Fetch(cursor)
  /\ pos' = cursor
  /\ UNCHANGED <<stop, dryRun, cursor, item, resp, cands>>
  /\ UNCHANGED storeVars /\ KeepWorld

\* Mutant: the return statement inside the for loop.
PollReturnsEarly ==
  /\ pc = "cursor"
  /\ pc' = "reconcile"
  /\ cursor' = pos
  /\ pos' = 0 /\ item' = NoOrder
  /\ UNCHANGED <<stop, dryRun, batch, resp, cands>>
  /\ UNCHANGED storeVars /\ KeepWorld

\* _poll_once returns and run() keeps the cursor it returns.
PollReturns ==
  /\ pc = "cursor" /\ batch = {}
  /\ pc' = "reconcile"
  /\ cursor' = pos
  /\ pos' = 0 /\ item' = NoOrder
  /\ UNCHANGED <<stop, dryRun, batch, resp, cands>>
  /\ UNCHANGED storeVars /\ KeepWorld

\* An exception reaches run(): the batch, its cursor and the candidates are
\* gone, and the engine_loop_error event may itself raise.
LoopError ==
  /\ pc = "error"
  /\ \/ /\ pc' = "loop"
        /\ pos' = 0 /\ batch' = {} /\ item' = NoOrder
        /\ cands' = {} /\ resp' = NoResponse
        /\ UNCHANGED <<stop, dryRun, cursor>>
     \/ KafkaConfigured /\ Die
  /\ UNCHANGED storeVars /\ KeepWorld

\* SIGINT or SIGTERM.
HandleSignal ==
  /\ pc # "down" /\ ~stop
  /\ stop' = TRUE
  /\ UNCHANGED <<pc, dryRun, cursor, pos, batch, item, resp, cands>>
  /\ UNCHANGED storeVars /\ KeepWorld

\* engine_stopped and close().
Shutdown ==
  /\ pc = "loop" /\ stop
  /\ Die
  /\ UNCHANGED storeVars /\ KeepWorld

Crash ==
  /\ pc # "down"
  /\ crashes < MaxCrashes
  /\ crashes' = crashes + 1
  /\ Die
  /\ UNCHANGED <<storeVars, table, exchangeVars>>

-----------------------------------------------------------------------------
(***************************************************************************)
(* _process_signal                                                          *)
(***************************************************************************)

\* Mutant: set_cursor_ms is missing.
AdvanceUnstored ==
  /\ pc = "cursor"
  /\ \E s \in batch :
       /\ First(s, batch)
       /\ item' = s
       /\ batch' = batch \ {s}
       /\ pos' = Max2(pos, Ts[s])
  /\ pc' = "dedup"
  /\ UNCHANGED <<storeVars, stop, dryRun, cursor, resp, cands>>
  /\ KeepWorld

\* The head of the for loop: the cursor is stored before the signal is.
AdvanceCursor ==
  /\ pc = "cursor"
  /\ \E s \in batch :
       /\ First(s, batch)
       /\ item' = s
       /\ batch' = batch \ {s}
       /\ pos' = Max2(pos, Ts[s])
  /\ SetCursor(pos')
  /\ pc' = "dedup"
  /\ UNCHANGED <<stop, dryRun, cursor, resp, cands>>
  /\ KeepWorld

Deduplicate ==
  /\ pc = "dedup"
  /\ IsFinal(item)
  /\ Emit("cursor", "error")
  /\ KeepPoll /\ KeepWorld
  /\ UNCHANGED <<storeVars, resp>>

Receive ==
  /\ pc = "dedup"
  /\ ~IsFinal(item)
  /\ SaveReceived(item)
  /\ Emit("risk", "error")
  /\ KeepPoll /\ KeepWorld
  /\ UNCHANGED resp

\* RiskGuard.check refuses, for a reason this module does not tell apart.
RiskRejects ==
  /\ pc = "risk"
  /\ UpdateStatus(item, "REJECTED", NoOrder, NoOrder)
  /\ Emit("cursor", "error")
  /\ KeepPoll /\ KeepWorld
  /\ UNCHANGED resp

\* Mutant: the request leaves before the row says SENT.
DispatchUnsaved ==
  /\ pc = "risk"
  /\ Emit("execute", "error")
  /\ KeepPoll /\ KeepWorld
  /\ UNCHANGED <<storeVars, resp>>

\* RiskGuard.check accepts: the row is SENT before the request is.
Dispatch ==
  /\ pc = "risk"
  /\ UpdateStatus(item, "SENT", NoOrder, NoOrder)
  /\ Emit("execute", "error")
  /\ KeepPoll /\ KeepWorld
  /\ UNCHANGED resp

-----------------------------------------------------------------------------
(***************************************************************************)
(* The execution adapter: what a request does on the exchange, and what it  *)
(* returns.  A request that reached the exchange may still end in an        *)
(* exception: the answer is late, or the trade client's own Kafka write     *)
(* raises after it.                                                         *)
(***************************************************************************)

\* What the request of s is answered with, when it is done.  A cancel is
\* answered on futures with the client order id of the order, on spot with one
\* made for the cancel itself, which no order has.
Answers(s) ==
  LET target == Identified(OrderId[s], OrigClientId[s])
  IN  CASE Places(s) ->
             [status : PlaceResults, order : {<<s, placed[s] + 1>>}, client : {s}]
        [] Action[s] = "CANCEL_ORDER" ->
             [status : {"CANCELED"}, order : {target},
              client : {c \in Signals : c = s \/ \E n \in 1..MaxOrders : target = <<c, n>>}]
        [] OTHER ->
             [status : {"CANCELED"}, order : {NoOrder}, client : {NoOrder}]

\* The request of s takes effect and is answered with r.
Request(s, r) ==
  /\ r \in Answers(s)
  /\ \/ Places(s) /\ PlaceOrder(s, r.status)
     \/ Action[s] = "CANCEL_ORDER" /\ CancelOrder(r.order)
     \/ Action[s] = "CANCEL_ALL_ORDERS" /\ CancelOpenOrders(Symbol[s])

ExecuteAnswered ==
  /\ pc = "execute" /\ ~dryRun
  /\ \E r \in Answers(item) : Request(item, r) /\ resp' = r
  /\ pc' = "record"
  /\ KeepPoll
  /\ UNCHANGED <<storeVars, table, crashes>>

ExecuteLost ==
  /\ pc = "execute" /\ ~dryRun
  /\ \E r \in Answers(item) : Request(item, r)
  /\ pc' = "failing"
  /\ KeepPoll
  /\ UNCHANGED <<storeVars, resp, table, crashes>>

\* Not connected, not delivered, or an error answer.
ExecuteRefused ==
  /\ pc = "execute" /\ ~dryRun
  /\ pc' = "failing"
  /\ KeepPoll /\ KeepWorld
  /\ UNCHANGED <<storeVars, resp>>

\* --dry-run: nothing is sent, the deterministic client order id is returned.
ExecuteDry ==
  /\ pc = "execute" /\ dryRun
  /\ resp' = [status |-> "ACKED", order |-> NoOrder, client |-> item]
  /\ pc' = "record"
  /\ KeepPoll /\ KeepWorld
  /\ UNCHANGED storeVars

\* The rest of the try block: an exception in it leads to the except block.
RecordResult ==
  /\ pc = "record"
  /\ UpdateStatus(item, Mapped(resp.status), resp.order, resp.client)
  /\ Emit("cursor", "failing")
  /\ resp' = NoResponse
  /\ KeepPoll /\ KeepWorld

\* The except block; an exception in it leaves _process_signal.
RecordFailure ==
  /\ pc = "failing"
  /\ UpdateStatus(item, "FAILED", NoOrder, NoOrder)
  /\ Emit("cursor", "error")
  /\ KeepPoll /\ KeepWorld
  /\ UNCHANGED resp

-----------------------------------------------------------------------------
(***************************************************************************)
(* _reconcile_once                                                          *)
(***************************************************************************)

\* The interval has not elapsed, this is a dry run, or there is no candidate.
ReconcileSkips ==
  /\ pc = "reconcile"
  /\ pc' = "loop"
  /\ KeepPoll /\ KeepWorld
  /\ UNCHANGED <<storeVars, resp>>

ReconcileStarts ==
  /\ pc = "reconcile" /\ ~dryRun
  /\ ListReconcileCandidates(ReconcileBatch) # {}
  /\ cands' = ListReconcileCandidates(ReconcileBatch)
  /\ pc' = "query"
  /\ UNCHANGED <<stop, dryRun, cursor, pos, batch, item, resp>>
  /\ UNCHANGED storeVars /\ KeepWorld

\* The candidate the for loop has reached: least recently updated first.
Reached(s) == s \in cands /\ \A t \in cands : <<t, s>> \notin older

AfterQuery(s) ==
  /\ cands' = cands \ {s}
  /\ Emit(IF cands' = {} THEN "loop" ELSE "query", "error")
  /\ UNCHANGED <<stop, dryRun, cursor, pos, batch, item, resp>>

\* The order that the ids of the row identify.
OrderOf(s) == Identified(orderId[s], clientId[s])

\* Mutant: the answer is written without updated_at_ms.
QueryAnsweredInPlace(s) ==
  LET order == OrderOf(s)
  IN  /\ pc = "query" /\ Reached(s)
      /\ Exists(order)
      /\ status' = [status EXCEPT ![s] = Mapped(orders[order])]
      /\ orderId' = [orderId EXCEPT ![s] = order]
      /\ clientId' = [clientId EXCEPT ![s] = order[1]]
      /\ UNCHANGED <<older, fresh, dbCursor>>
      /\ AfterQuery(s)
      /\ KeepWorld

\* The exchange knows the order that the ids of the row identify: its status
\* and its ids are written back.  The answer and the write are one step, since
\* an order that settles in between only makes an "ACKED" that the next round
\* corrects.
QueryAnswered(s) ==
  LET order == OrderOf(s)
  IN  /\ pc = "query" /\ Reached(s)
      /\ Exists(order)
      /\ UpdateStatus(s, Mapped(orders[order]), order, order[1])
      /\ AfterQuery(s)
      /\ KeepWorld

\* No answer, or no such order: the row is left as it is, updated_at included.
QueryFails(s) ==
  /\ pc = "query" /\ Reached(s)
  /\ AfterQuery(s)
  /\ UNCHANGED storeVars /\ KeepWorld

-----------------------------------------------------------------------------

InsertRow == Insert /\ UNCHANGED <<storeVars, exchangeVars, threadVars, crashes>>
SettleOrder == Settle /\ UNCHANGED <<storeVars, table, threadVars, crashes>>
TimePasses == Age /\ UNCHANGED <<table, exchangeVars, threadVars, crashes>>

\* What the engine thread does on its own.
Engine ==
  \/ PollFails \/ PollNothing \/ PollRows \/ PollReturns \/ LoopError \/ Shutdown
  \/ AdvanceCursor \/ Deduplicate \/ Receive \/ RiskRejects \/ Dispatch
  \/ ExecuteAnswered \/ ExecuteLost \/ ExecuteRefused \/ ExecuteDry
  \/ RecordResult \/ RecordFailure
  \/ ReconcileSkips \/ ReconcileStarts
  \/ \E s \in Signals : QueryAnswered(s) \/ QueryFails(s)

Next ==
  \/ Engine \/ Start \/ HandleSignal \/ Crash
  \/ InsertRow \/ SettleOrder \/ TimePasses

Spec == Init /\ [][Next]_vars

\* What the environment owes: the engine thread runs and an operator restarts
\* it; ClickHouse answers some poll; the reconcile interval elapses and rows
\* leave the lag; a query that is repeated is answered at last.
Fairness ==
  /\ WF_vars(Engine \/ Start)
  /\ SF_vars(PollNothing \/ PollRows)
  /\ SF_vars(ReconcileStarts)
  /\ WF_vars(TimePasses)
  /\ \A s \in Signals : SF_vars(QueryAnswered(s))

FairSpec == Spec /\ Fairness

-----------------------------------------------------------------------------
(***************************************************************************)
(* Properties that hold whatever Kafka does                                 *)
(***************************************************************************)

\* The SENT row is committed before the request leaves, on every path: an
\* order on the exchange belongs to a signal whose row a restarted engine
\* finds at SENT or later.
WriteAhead ==
  \A s \in Signals : placed[s] > 0 => status[s] \notin {"NONE", "RECEIVED"}

\* A terminal exchange status in a row is the status of the order that the
\* order_id of the row names, after any lost answers, crashes, dry runs and
\* second executions; and that order is one of the signal's own when the
\* signal is to place one and names no other.  It says nothing of further
\* orders of the signal: after a second execution whose answer is lost the row
\* still names the first order.  (Canceling all orders answers no order.)
TerminalAgrees ==
  \A s \in Signals : \A o \in DOMAIN FinalMap :
    status[s] = FinalMap[o] /\ Action[s] # "CANCEL_ALL_ORDERS" =>
      /\ Exists(orderId[s]) /\ orders[orderId[s]] = o
      /\ Places(s) /\ NamesNoOther(s) => orderId[s][1] = s

\* The one way out of a final status is the except block of _process_signal
\* after a raising audit event: no reconcile round and no second delivery of
\* the row overwrites it.
FinalLeftOnlyToFailed ==
  [][\A s \in Signals :
       IsFinal(s) /\ status'[s] # status[s] =>
         KafkaConfigured /\ pc = "failing" /\ s = item /\ status'[s] = "FAILED"]_vars

-----------------------------------------------------------------------------
(***************************************************************************)
(* Properties of an engine whose audit events do not raise.  The process    *)
(* may crash at any step and requests may be lost.                          *)
(***************************************************************************)

\* No signal is executed twice: neither across restarts nor by a batch that
\* is fetched again.
AtMostOnce == \A s \in Signals : placed[s] <= 1

\* What the store has recorded, no restart fetches again.
RecordedBehindCursor == \A s \in Recorded : Ts[s] <= dbCursor

\* No open order is forgotten: the row of its signal is one that the
\* reconciliation selects, unless the signal itself names another order.
OpenOrdersWatched ==
  \A o \in Orders : Open(o) /\ NamesNoOther(o[1]) => status[o[1]] \in ReconcileStatuses

\* Rows _process_signal has begun with and has not decided.
Stranded ==
  {s \in Signals : status[s] \in {"RECEIVED", "SENT"}}
    \ (IF pc \in {"risk", "execute", "record", "failing"} THEN {item} ELSE {})

\* Every path through _process_signal ends with an outcome in the row, so each
\* crash strands at most the one row that is in hand, whatever requests fail
\* or get lost and whatever the engine polls after its restart.
CrashStrandsOne == Cardinality(Stranded) <= crashes

\* A final status is for ever.
FinalStable ==
  [][\A s \in Signals : IsFinal(s) => status'[s] = status[s]]_vars

\* The engine implements the lifecycle it promises.
Lifecycle == INSTANCE SignalLifecycle WITH
               Placing <- {s \in Signals : Places(s)},
               Borrowed <- {s \in Signals : ~NamesNoOther(s)}
ImplementsLifecycle == Lifecycle!Spec

\* A row that was fetched is rejected or sent, unless the process dies first:
\* no path through the loop drops the rest of a batch.
BatchDecided ==
  \A s \in Signals :
    s \in batch ~> status[s] \notin {"NONE", "RECEIVED"} \/ pc = "down"

\* Rows of which no query will ever learn anything: their ids identify no
\* order.  A failed query leaves them the least recently updated ones.
Unresolvable ==
  {s \in Signals : status[s] \in {"SENT", "ACKED", "FAILED"} /\ ~Exists(OrderOf(s))}
    \ (IF pc \in {"execute", "record", "failing"} THEN {item} ELSE {})

Starved == Cardinality(Unresolvable) >= ReconcileBatch

\* Sent signals whose row identifies an order that has ended, unlike the row.
Lagging ==
  {s \in Signals :
     /\ status[s] \in {"SENT", "ACKED", "FAILED"}
     /\ Exists(OrderOf(s)) /\ ~Open(OrderOf(s))}

\* The reconciliation catches up, again and again: however many rows wait and
\* however long other orders stay open, no row lags for ever, unless
\* unresolvable rows alone come to fill the LIMIT of every round.
KnownOrdersConverge == []<>~Starved => []<>(Lagging = {})

-----------------------------------------------------------------------------
(***************************************************************************)
(* Promises of the documentation the code does not keep                     *)
(***************************************************************************)

\* README.md:2491: after a restart the engine goes on from where it stopped,
\* so nothing at or before the stored cursor is missing from the store.
RestartResumes ==
  [][pc = "down" /\ pc' = "loop" =>
       \A s \in table \ Invalid : Ts[s] <= cursor' => s \in Recorded]_vars

\* README.md:2492: whatever went wrong after sending, query_order brings the
\* row of an order that has ended to a final status.
SentConverges ==
  \A s \in Signals :
    Places(s) /\ (\E n \in 1..MaxOrders : orders[<<s, n>>] \in ClosedStatus) ~> IsFinal(s)

=============================================================================
