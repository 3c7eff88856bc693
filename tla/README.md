# binance-data: a TLA+ model of its core

The repository collects market data from Binance, trades on it, and keeps
account state: about ten thousand lines of Python under `binance_toolkit/`.
This directory models the parts of it that keep state across steps, threads,
crashes or lost messages, checks them with TLC and proves the most important
results with TLAPS.

## 1. Inventory

| Part | Source | State | Operations | What makes it correct |
|---|---|---|---|---|
| Strategy engine | `engine/base.py` | cursor, batch, stop flag; one thread | start, poll, process a signal, reconcile, shut down | one execution per signal, a row that agrees with the order, no order forgotten |
| State store | `engine/state_store.py` | SQLite: a row per signal, the cursor | save, update, candidates, cursor | survives a crash; final rows stay final |
| Signal source | `engine/clickhouse_source.py`, `models.py` | none (the table is external) | fetch after a cursor | order, limit, invalid rows skipped |
| Execution adapters | `engine/executor.py` | none | execute, query | a request is what the signal asks for |
| Risk guard | `engine/risk.py` | timestamps per symbol, in memory of one process | check | no more than the limit in any window |
| Audit, health | `engine/audit.py`, `health.py` | none | emit; serve a snapshot | an event may raise in the engine's try blocks |
| Trade clients | `ws/futures_trade_ws.py`, `ws/spot_trade_ws.py` | pending table, connection, receiving thread | request, receive, reconnect, close | a caller learns the fate of its own request |
| Stream writers | `ws/usdt_mark_price_stream.py`, `ws/coin_mark_price_stream.py`, `ws/usdt_kline_stream.py` | queue, buffers, sampling windows | callback, batch, flush with retries, stop | no accepted record is lost or doubled |
| User data stream | `ws/user_data_stream.py`, `api/user_data_stream.py` | listen key, connection, keepalive thread, stop event | create, keep alive, reconnect, stop in a signal handler | the connected key is the one that is renewed; a stop leaves no key active |
| PnL trackers | `pnl/spot_pnl.py`, `pnl/futures_pnl.py` | price per position, time of the last publication | receive a price, compute and publish records, stop | a record holds the profit of the price it names |
| Position snapshots | `storage/redis_position.py` and its collector, `futures-positions` with `storage/kafka.py`, `storage/clickhouse.py` | Redis HASH, SET and meta; topic and view; table | query, replace in Redis, publish, TRUNCATE and INSERT | the storage shows the last query, whatever was there before |
| History downloads | `api/futures_market.py`, `clickhouse_kline_setup.sql` | cursor of the pager, table | page, publish, next page | no candle missed or doubled; a download repairs the table |
| Command line | `cli.py` | the command | parse, build, run | every command ends when it is told to |
| Kafka, InfluxDB, ClickHouse | `storage/` | none | write | what a caller may conclude from a write that did not raise |
| Collectors (balance, order book, ...) | `collector/` | none | fetch and write | - |
| REST client, configuration, SQL | `api/`, `client.py`, `config.py` | none | - | - |

How they interact. The engine is a pipeline with a feedback loop: producers
insert rows in ClickHouse; the engine thread polls the rows after its cursor,
stores the cursor, records each row in SQLite, asks the risk guard, calls the
trade client through an adapter, records the outcome; each interval it queries
the orders of rows that are not final. After most steps it emits an audit event
to Kafka, which may raise inside the engine's `try` statements. A trade client
is called by the engine thread and answered by a receiving thread over one
WebSocket. A stream writer's callback runs on the main thread and shares a
queue with writer threads. The user data stream runs on the main thread, is
interrupted there by its own signal handler and shares the listen key with a
keepalive thread. The futures tracker runs one thread for each of two
WebSockets, whose callbacks read each other's prices. Position commands and
collectors are processes of their own that meet in Redis, in Kafka's topic or
in a ClickHouse table, as a download and the kline stream meet in the kline
table. The other commands fetch, print and end.

What is hard here: crashes between two transactions of the engine; answers that
are lost after the exchange has acted; audit events that raise at the wrong
moment; a reconnect under calls that wait; time-outs racing answers; the
shutdown of several threads; signal handlers that replace each other or
interrupt the thread they stop; two processes that replace one snapshot;
candles that close between the pages of a download.
`PROJECT.json` lists each hazard at its line.

## 2. Modules

```
TradingSignals            the signals: constants, their assumptions
  EngineStateStore        SQLite: rows, ids, update order, cursor
  SignalSource            ClickHouse table, fetch
  Exchange                orders on Binance (external)
    StrategyEngine        the engine thread over the three, crash and restart
      MCStrategyEngine    instances;  MCEngineHistory adds a history variable
      StrategyEngineProofs, StrategyEngineOnceProofs
SignalLifecycle           what the engine promises (refined by StrategyEngine)
TradeWsClient             calls, receiving thread, reconnects, close;  TradeWsClientProofs
TradeRequest              what a call promises (refined by TradeWsClient)
StreamWriter              callback, queue, writer threads, shutdown;  MCStreamWriter,
                          StreamWriterProofs
UserDataStream            listen key, keepalive thread, signal handler, reconnects
PnlCalculator             prices, callbacks, publication, stop
PositionSync              account, query, Redis, Kafka and ClickHouse
KlineHistory              pager, Kafka, kline table, kline stream
RiskGuard                 the sliding window of an engine process
  CommandLine             main() and the commands over the five
    MCCommandLine         instance
    PositionSyncProofs, KlineHistoryProofs, RiskGuardProofs
      CommandLineProofs   the user data stream, the trackers, the types of all five
```

### StrategyEngine

An action is one SQLite transaction or one exchange request of the engine
thread, with the audit event that follows it. Between any two of them the
process may crash (`Crash`), a stop signal may come (`HandleSignal`), an order
may settle, a row may be inserted, time may pass (`TimePasses`).

| Code | Model |
|---|---|
| `_init_cursor`, start of `run` | `Start` |
| `_poll_once` | `PollFails`, `PollNothing`, `PollRows`, `AdvanceCursor` per row, `PollReturns` |
| `_process_signal` | `Deduplicate` / `Receive`, `RiskRejects` / `Dispatch`, `Execute*`, `RecordResult`, `RecordFailure` |
| adapters | what a request does and is answered with (`Request`, `Answers`), and the four ways `execute` ends: answered, lost, refused, dry |
| `_reconcile_once` | `ReconcileSkips`, `ReconcileStarts`, `QueryAnswered`, `QueryFails` |
| `except` of `run`, `close` | `LoopError`, `Shutdown` |
| audit events | `Emit(next, handler)`: the thread goes on, or - with Kafka only - the exception goes to the handler the code has |

Local variables of `run`, `_poll_once` and `_process_signal` are variables of
the model (`cursor`, `pos`, `item`, `resp`, `cands`), because what is stale in
them after an exception is the point.

Abstractions, each with its reason:

- `<<s, n>>` is the order id of the n-th order placed for signal `s`, and `s`
  itself is the client order id of all of them (`deterministic_client_order_id`).
  A row has a column for each, and `COALESCE` keeps what a column holds when the
  answer brings no such id. In a query the order id decides, and a client order
  id alone names its latest order (`Identified`). A signal of any action may bring ids
  (`OrderId`, `OrigClientId`), and `save_received` stores them for every action:
  a row may name the order of another signal from the start (`NamesNoOther`
  says that it does not). `NoOrder` stands for NULL.
- `updated_at_ms` is read only to compare rows and against the reconcile lag:
  it is the relation `older` and the set `fresh`. Two updates have different
  timestamps. `Age` lets the least recently updated row leave the lag first.
- The verdict of the risk guard is a free choice here; the guard itself is
  `RiskGuard`, part of the engine commands in `CommandLine`.
- Order statuses without an entry in `_FINAL_MAP` behave alike and are `"NEW"`.
- One row of the table per signal id (README.md:2384 asks producers for unique
  ids), invalid rows are in `Invalid`.
- SQLite operations do not raise. The dry-run flag is chosen at each start, on
  one database, as an operator may.
- Binance (external): a client order id is unique among open orders only, an
  open order settles at any time, an order that is not open cannot be canceled.
- Metrics, logs and the health thread are left out.

`SignalLifecycle` is the abstract promise: `NONE -> RECEIVED -> SENT or
REJECTED`, an order only from `SENT` and only once, an exchange status only
after the order (its own, or for a signal that names another order, that one), a
final status for ever.

### RiskGuard

`check` as the choices of how many old timestamps the `while` loop removes
(`Old(q, k)`: exactly one `k` satisfies it), whether the queue is full, and the
append. Checks that keep no state are "sound or not" (`RejectEarly`). The clock
does not go back (`RiskTick`). `Restart` is a new process: empty windows, maybe a
new limit, and an empty history `admitted`: what is claimed is claimed of one
process. `engine-futures` and `engine-spot` start it (`CmdEngine`). The loop in which
the check is one step is `StrategyEngine`; the guard shares no variable with it.

### TradeWsClient

One id per call of `_request`, `_request_list` or `_request_position`, which
have one shape. Steps of a call: the connected check, the entry into
`_pending`, `send` on whatever `_ws` is by then, waking up (answer or timeout),
the `finally` with the status check and the Kafka write. Steps of the receiving
thread: `recv`, the look-up, `set_result` (apart, because the caller may remove
its entry in between), noticing a loss, the attempts to connect. `close()` is
three steps. About the network and Binance (external) the model assumes: a lost
connection loses what is under way on it, a `send` that raises has delivered
nothing, an error answer means that the request had no effect; the exchange
refuses what reaches it after the caller's timeout, since `recvWindow` (5 s) is
shorter than the timeout (10 s). The ping loop, signing and the parameters of
the public methods are left out.

`TradeRequest` is the promise to a caller: executed at most once and only while
the call lasts; a result means executed, a refusal means never executed, only
"unknown" leaves it open. The engine's module uses the clients through this
promise: `ExecuteAnswered`, `ExecuteRefused` and `ExecuteLost` are its three
outcomes.

### StreamWriter

One module for the three writers, which differ in the number of threads, the
storages and sampling. The callback samples and queues (`OnMessage`); a writer
checks its loop condition, takes a record or times out, decides whether the
buffer is due, writes it to each storage in turn (`WriteReturns`), and retries from
the first storage when one raises (`WriteRaises`). The writer's signal handlers
are in force only until the stream installs its own (`SignalEarly` against
`StreamEnds`). Writers are daemon threads: they end with `run()`.

`handed` counts how often a storage's client was handed a record, which is all
that a returned write says: `KafkaStorage.batch_write` drops the futures of `send()`,
and `flush()` does not raise when a delivery fails, so a batch may be counted as
written without a record of it in Kafka. InfluxDB's synchronous write returns
when the server has the batch.

Time goes by in `Tick`, for the age of each buffer (`age`, up to `FlushInterval`) and for
the join the main thread is in (`waited`, up to `JoinTimeout`). `Join` returns when the
thread has ended or the timeout is over, whatever is queued or buffered then;
a stream that ends does not set `_stop_event`, so that every join times out. With
storages that keep up (`~slow`) the steps of a thread between two waits take no
time: time goes by only while all threads wait. With `slow` it goes by anywhere,
also in the middle of a batch.

### UserDataStream

`run()`, `stop()` and `_keepalive_listen_key`, each step one access to what they
share: `_listen_key`, `_ws` (its URL holds a key, `urlKey`) and `_stop_event`.
`handler` is the stack of signal handlers on top of `run()`: a handler runs on
the main thread, a second signal interrupts the first, and `run()` goes on where
it was when the last handler has returned - a `sleep(5)` or the creation of a
key is finished after `stop()`. A `close()` before `run_forever` has begun has
no effect (`StopCloses` in `entering`). History variables: `missed` (the last renewal of
the key failed), `abandoned` (replaced while active, or its DELETE failed) and `late`
(granted after `stop()` had begun, and held by the program as any other).

| Code | Model |
|---|---|
| `run` | `UserStreamBegin`, `CreateKey` / `CreateFails`, `StreamLoop`, `StreamConnects`, `StreamDisconnects`, `StreamLeft`, `StreamSlept`, `RecreateKey` / `RecreateFails` |
| `stop` | `StopCloses`, `StopJoins`, `StopDeletes` |
| `_keepalive_listen_key` | `KeeperStops`, `KeeperChecks`, `KeeperRenews` |

External: a key lives for an hour from its last renewal, `POST` returns a new key
or the active one. Time passes in half hours (`HalfHour`), only while the stream
is up: the 5 s of a reconnection and the 2 s of `join` are nothing against it.
The callbacks that pass events to the storages are left out.

### PnlCalculator

Both calculators: spot with one WebSocket on the main thread, which the handler
freezes, futures with a thread for each of two WebSockets, which go on during
`stop()`. A callback stores a price (`Receive`), compares the time (`Time`),
reads each price twice - for the record's price (`BuildPrice`) and for the
computed fields (`BuildValue`) - and publishes (`PublishRecords`,
`PublishFails`). The formulas are over integers: fee rates are multiples of
`1/FeeScale`, and an amount that contains a fee is `FeeScale` times as large.
Rounding of floats, the printed table and the initial read of positions from
the configuration are left out.

### PositionSync

A process asks for the positions (`Query`, then `Answered` sees the account) and
writes; `queried_at` is taken before the query, and after the answer on the
ClickHouse path, as in the code (`stamps` counts the times that were taken): a collector reads the index of Redis and replaces the
snapshot in one MULTI block (`ReadIndex`, `Execute`); `--write-kafka` sends a
record for each returned position (`Publish`, `Flush`, where any subset may be
lost without notice); `--write-clickhouse` empties and fills the table
(`Truncate`, `Insert`). An error ends the collector, and the command may be run
again. `snapshot` and `rows` hold the number of the query that wrote an entry, so
that what is stale can be told from what is new. `overtaken` and `last` are
history variables: who wrote between another's query and its write.

### KlineHistory

`iter_klines` and `iter_open_interest` with the loops that publish each page.
Candles are numbered; the open one has a kline with partial values. `start_time` is
the first candle that opens then or later, as the exchange takes it, `end_time`
the last that opens then or earlier; what follows a full page (`AfterFullPage`) differs
between the pagers, because open interest is stamped when its candle opens. While a
command pages, candles close and the kline stream writes to the same table,
which keeps for each candle the row with the largest `event_time`: that is the
`open_time` in a fetched row and the event's time in a row of the stream
(`Fetched < Progress < Close`). The time a record is under way is not modelled:
the row that stays does not depend on it. Losses are (`WriteBatch`). Of several
symbols one is modelled: the others are loops of the same shape before or after.

### CommandLine

`command` is `args.command`; each `Cmd*` operator is the handler of `_COMMAND_MAP` that
builds and starts a component, nine commands in all. A process runs one command.
The commands not listed are queries that print, or services with a module of
their own.

## 3. Runs

| Run | Instance | What it shows |
|---|---|---|
| `EngineAudit` | 2 signals (an order, and its cancel by client order id), 1 invalid row, 2 orders per signal, batches of 2, raising events, dry and real starts, 1 crash | `WriteAhead`, `TerminalAgrees`, `FinalLeftOnlyToFailed`, `PollSkipsOnlyTies` |
| `EngineReliable` | 3 signals (two orders, one cancel-all with the same timestamp as the second, two of the rows with an id that is not theirs), a reconciliation of 2 rows, no raising events, 1 crash, fairness | `AtMostOnce`, `RecordedBehindCursor`, `OpenOrdersWatched`, `CrashStrandsOne`, `ImplementsLifecycle`, `BatchDecided`, `KnownOrdersConverge` |
| `EngineRestart` | 1 signal, 1 crash | **violated**: `RestartResumes` |
| `EngineReexecution` | 1 signal, raising events | **violated**: `SettledNotExecuted` |
| `EngineReconcile` | 1 signal, lost answer, fairness | **violated**: `SentConverges` |
| `TradeCalls` | 2 calls, 2 connections, Kafka, fairness | `OutcomeTrue`, `NoAnswerDropped`, `ImplementsRequest`, `EveryCallReturns`, `Reconnects` |
| `TradeClose` | 1 call, 2 connections | **violated**: `ClosedMeansClosed` |
| `StreamDelivery` | 2 writers, 2 storages, 4 records (a late window, a repeated one, another symbol), batches of 2, 1 retry, flush interval 1, joins of 2, fairness | `Conserved`, `SampledOnce`, `WrittenIsHanded`, `DrainedAtEnd`, `EveryRecordSettles` |
| `StreamStop` | 1 writer, 1 record | **violated**: `GracefulStop` |
| `Commands` | 2 listen keys, 2 signals; 2 positions, 2 processes (one asks for one symbol), 3 queries, 2 trades; 4 candles, pages of 2, 2 downloads, with and without start and end; a USDT- and a COIN-margined position, 2 prices, 2 messages, 1 interrupt; 2 symbols, limits 0 and 2, a window of 2, a clock to 4; fairness | `ConnectedKeyRenewed`, `StoppedKeyDeleted`, `Recovers`; `IndexIsSnapshot`, `RedisShowsLast`, `ViewShowsReturned`, `TableIsLastQuery`; `FetchedIsRange`, `BackfillRepairs`, `FinalStays`; `OwnRecordsTrue`; `RateLimited`, `RefusedOnlyWhenFull`; `SignalEnds` |
| `FetchOpenCandle` | as `Commands` | **violated**: `ClosedIsFinal` |
| `UserStreamStop` | as `Commands` | **violated**: `StopDeletesKey` |

Each passing run also checks the module's type invariant, except `EngineReliable`,
whose module `EngineAudit` covers. Each property has a
mutant: a definition of the model changed as a plausible bug would change the
code (they stand before the definition they change, with a comment "Mutant").

Bounds, and why they are enough. The engine: two signals make every interaction
of two rows (batch order, reconcile order, cancel against its target), the
third adds equal timestamps split by the batch limit of 2; `MaxOrders = 2`
leaves room for the second placement that `AtMostOnce` denies, and in `EngineAudit` for
the second execution after which the row still names the first order; a second
crash leads to states the first one can lead to, because nothing but the store
and the exchange survives. An invalid row with the timestamp of the second signal
and a higher priority comes before it and takes its place in the LIMIT. In `EngineReliable`
two signals tie at the end of a batch, and the reconciliation reads two rows of
three: two rows without a known order starve the third, which `KnownOrdersConverge`
excepts (`Starved`); without that premise TLC finds the starvation. The guard: two
windows of clock, a limit of 2 and two symbols make full, pruned and emptied
queues; the theorems hold for all values. The client: two calls can mix their answers, two connections are one
loss and one replacement. The writer: two threads compete for the queue; of four
records one comes late, from a window before the last, one repeats a window and
one belongs to another symbol; a flush interval of 1 is shorter than a join of 2, the
other case is an excuse of the properties. The commands:
two keys are the old one and its successor, two signals make one handler
interrupt another; three queries are two that overlap and one that repairs what
they left, two trades open and close a position; four candles are two full pages,
with an end inside the second, and two downloads let the second meet the rows of
the first; two messages are one of each WebSocket. The safety properties of this
run are proved for all values as well.

Deadlock checking is off in `TradeCalls`, `TradeClose`, `StreamDelivery`,
`StreamStop`, `Commands`, `FetchOpenCandle` and `UserStreamStop`: a closed client whose calls have
returned, a writer whose `run()` has returned and a command that is done do stop.

Fairness. Engine: its thread runs and an operator restarts it after a crash
(weak, as one action: the loop has no other way to stop); ClickHouse answers
some poll, the reconcile interval elapses while candidates exist, and a query
that is made again and again is answered (strong: each is retried for ever by
the loop). Client: calls and the receiving thread run; connecting is tried for
ever and once succeeds (strong). Writer: the stream is started, each thread
runs, time goes by, and a join that may return does (weak).
User data stream: the main thread, the handler and the keepalive thread run, and
calls return (weak); a stream that asks for a key and connects again and again
succeeds at last (strong). A connection ends at last, because the exchange drops
it after 24 hours: without that, a stop whose `close()` came before `run_forever`
would wait for ever (the hazard at `ws/user_data_stream.py:306`). PnL: the callback
and `stop()` run (weak), the connection of spot ends (strong, as above).
No fairness on crashes, signals, losses, new rows, or on the exchange.

## 4. Findings

1. **A crash loses a signal** (`EngineRestart`): the cursor is committed before
   the row; against README.md:2491.
2. **A final signal is executed again** (`EngineReexecution`): an audit event that raises
   after the order turns `FILLED` into `FAILED`, and the batch is fetched again
   with the cursor `run()` kept; against README.md:2296 and 2490.
3. **A lost answer never converges** (`EngineReconcile`): the row has no ids, though
   the deterministic client order id would identify its order; against README.md:2492.
4. **close() leaves a connection open** (`TradeClose`) when the receiving thread is
   reconnecting; against `futures_trade_ws.py:367`.
5. **An early signal stops the writers and not the stream** (`StreamStop`): what
   arrives later is never written; against README.md:371.
6. **A download stores the open candle as closed** (`FetchOpenCandle`): a page that
   reaches the present ends with the candle that is still open, and its row says
   `is_closed`; against futures_market.py:68 and README.md:668. `BackfillRepairs`
   shows what remains true: a later download of that candle replaces the row.
7. **A stop leaves a listen key active** (`UserStreamStop`): `stop()` deletes the key of
   that moment, and `run()`, which it interrupted, goes on and creates another one
   (user_data_stream.py:330, or 367 after the sleep of 363) that nobody deletes;
   against README.md:1221. `StoppedKeyDeleted` shows what remains true: such a key is the
   only one the program still knows and leaves active.

## 5. Proofs

All for every value of the constants, by TLAPS (SMT, Zenon, and LS4 for the
temporal steps).

`StrategyEngineProofs` - whatever Kafka does:
`TypeCorrect`, `WriteAheadCorrect`, `TerminalAgreement`, `FinalLeftOnlyToFailedCorrect`.
The inductive invariant `ProtocolInv` adds to the properties:
`RowOfItem` (past `Receive` the row of the signal in hand exists, and is `SENT`
where a request may be made), `OwnAnswer` (a response in hand is that of the
signal in hand, and true of the order it names), `OwnOrders` (only placing signals
have orders, numbered by `placed`) and `OwnIds` (the row of a placing signal that names
no other order identifies its own orders or none). Without `OwnIds` a reconciliation
could copy the status of another signal's order into the row; without `OwnAnswer` a
recorded result could. `TerminalAgreement` is about the order that the row's
`order_id` names, which is the one `_reconcile_once` queries: after a second execution
whose answer is lost that is the first order, and the theorem says nothing of
the second.

The same module proves what a poll may lose: `PollSkipsOnlyTiesCorrect`. The
query's order is strict and linear (`PrecedesOrder`), so a row before a delivered
one is delivered or invalid (`DeliveredFromFirst`), and the first row that LIMIT
cuts off has a full LIMIT of such rows before it (`FirstCutOff`, by the
well-foundedness of `<`).

`StrategyEngineOnceProofs` - each theorem assumes `~KafkaConfigured`:
`AtMostOnceCorrect`, `RecordedBehindCursorCorrect`, `OpenOrdersWatchedCorrect`,
`CrashStrandsOneCorrect`, `FinalStableCorrect`, and `LifecycleImplemented`, the
refinement of `SignalLifecycle`. `OnceInv` adds: the cursor in the thread's hands is
the stored one (`CursorStored`), rows not yet reached have no row in the store
(`FreshBatch`), and a signal that is not yet `SENT` has no order
(`NotSentNotPlaced`). No run checks `FinalStable`: without raising events it
follows from `ImplementsLifecycle`, which `EngineReliable` checks. `CrashStrandsOne` needs no more than the types: no step but
a crash adds to the rows without an outcome, and a crash adds one
(`StrandedStep`). The assumption is needed: finding 2 is the counterexample
without it.

The proofs about the commands are over `CommandLine!FairSpec`: steps of the other
components leave a component's variables alone, so each has an invariant of its own.

`RiskGuardProofs`: `RateLimitedCorrect`, `RefusedOnlyWhenFullCorrect`, for every
limit and window. `RateInv` says that the pruned queue is the end of the
history of admissions (`EndOf`) and that what was pruned is older than the
window; then `limit` admissions further back lies outside it.

`PositionSyncProofs`: `IndexIsSnapshotAlways`, `RedisShowsLastAlways`,
`ViewShowsReturnedAlways`, `TableIsLastQueryAlways`. `PositionInv` adds that a process
which was not overtaken still sees what it has read or left: the index it read
is the index, and the table it has emptied is empty (`NotOvertaken`). Then the
index after the MULTI block is what is held, also when the snapshot it replaces
was left by collectors that disturbed each other.

`CommandLineProofs`, on the user data stream: `ConnectedKeyRenewedAlways`,
`StoppedKeyDeletedAlways`. Only a `stop()` separates the key of the program from
that of the URL (`OneKey`), a key that grows older than the interval without being
due has missed a renewal (`RenewedInTime`), and an active key was lost sight of or is
the program's own, which was granted after `stop()` had begun once a handler has
returned (`NoKeyUnseen`).

`KlineHistoryProofs`: `FetchedIsRangeAlways`, `BackfillRepairsAlways`, `FinalStaysAlways`.
`CursorFollows` ties the cursor to the last candle fetched, `BatchTrue` says that a
page that is read before a candle closes and written after it finds a row with
a larger `event_time` there, `Stored` that what was fetched is in the table.

`CommandLineProofs`, on the trackers: `OwnRecordsTrueAlways` and
`LiquidationLosesMargin`: for every position of either side, every leverage and every
price, the price has reached the estimate exactly when the loss has reached the
margin, both taken times the leverage, so that nothing is divided. The formulas of the
code agree with README's for all prices, quantities and fee rates (`ComputedTrue`); between the two reads of an own price its stream is in its
callback and stores none (`OwnApart`, `ReceiveInv`). `CommandTypeCorrect` joins the
types of the five components; a callback begins a record only for a position
that has a price, which is part of `PnlInv`.

`TradeWsClientProofs`: `ClientTypeCorrect`, `OutcomeTrueAlways`, `NoAnswerDroppedAlways`, and
`RequestImplemented`, the refinement of `TradeRequest` for each call. `ClientInv` says
that who sends or receives has a connection (`ClientExists`), that a call has an
outcome exactly when it has returned (`OutcomeOnReturn`), that a request is under
way on one connection at most and only before the exchange has acted on it
(`UnderWayOnce`), and that whoever holds an answer - the network, the receiving
thread, the entry of a call - holds the one of that request (`AnswersTrue`).

`StreamWriterProofs`: `WriterTypeCorrect`, `ConservedAlways`, `SampledOnceAlways`,
`WrittenIsHandedAlways`, `DrainedAtEndAlways`, for any number of writer threads,
records, storages and retries. `WriterInv` says that a writer takes a record only
with room in its buffer (`RoomInBuffer`), that queue and buffers share no record
(`HeldOnce`) and hold exactly what was accepted and is not settled
(`HeldIsUnsettled`), how often each storage can have been handed a record by the
attempts made (`HandedByAttempts`), and that the window of a symbol is that of its
latest sample (`WindowIsLatest`). For the end of the stream: with storages that keep
up, time goes by in a join only while the queue is empty, and whatever is
buffered then grows older with it (`WaitIsIdle`); hence a join that times out after the
flush interval has left its thread's buffer empty, and nothing comes after it
(`JoinedIsDrained`). `DrainedAtEndAlways` assumes that there is a writer thread: with
`--writer-threads 0` nobody empties the queue.

Assumptions: those named in the modules (`SignalAssumption`,
`SourceAssumption`, `ExchangeAssumption`, `EngineAssumption`, `RiskAssumption`,
`ClientAssumption`, `WriterAssumption`, `UserStreamAssumption`, `PositionAssumption`,
`HistoryAssumption`, `PnlAssumption`), about types and finiteness and, in
`WriterAssumption`, that a batch goes to each storage once. TLC evaluates those of
the modules of each run.

Only model-checked: liveness (`BatchDecided`, `KnownOrdersConverge`,
`EveryCallReturns`, `Reconnects`, `EveryRecordSettles`, `SignalEnds`, `Recovers`), which rests on fairness
and is out of the prover's reach. Every invariant, action property and refinement
of a passing run is a theorem.

## 6. Not modelled

- REST client, endpoint wrappers and configuration: stateless. The commands that
  query once and print.
- What Kafka's broker does with a record it was handed. In `PositionSync` and
  `KlineHistory` any subset is lost without notice; in `StreamWriter` nothing is claimed
  beyond the hand-over. InfluxDB and ClickHouse beyond "a write happens or
  raises"; record formats.
- The other collectors: a loop of fetch and write. SQL scripts but for the merge
  rule of the kline and position tables.
- Health server, statistics, logs, printing.
- Numeric fields of a signal (a quantity of NaN passes the risk check).
- Floats: prices, quantities and fee rates of the trackers are integers or
  fractions, so rounding is not seen.

Limits of the code that the properties leave room for, each a hazard in
`PROJECT.json`:

- Engine: rows whose order no query finds keep the oldest `updated_at_ms`, and
  enough of them fill the LIMIT of every reconciliation (`KnownOrdersConverge` excepts
  that). After a second execution whose answer is lost the row follows the first
  order only (`TerminalAgrees`). The rate limit is that of one process: a restart
  forgets the windows.
- Stream writers: a batch Kafka did not take is counted as written
  (`WrittenIsHanded`). With slow storages, or `--flush-interval` of 10 s or more, the
  joins time out before a buffer is written, and what it holds is lost
  (`DrainedAtEnd` and `EveryRecordSettles` except both).
- User data stream: a key created while `stop()` runs stays active (finding 7).
- Position snapshots: a position that is closed without open orders is in no
  later query and stays in the Kafka view; overlapping collectors may leave a
  mixture until the next one that is not overtaken (`RedisShowsLast`); TRUNCATE
  without its INSERT leaves an empty table (`TableIsLastQuery` speaks of commands that
  succeeded undisturbed).
- Trackers: a record of the other WebSocket's symbol may hold a price and the
  profit of a newer one (`OwnRecordsTrue` speaks of own symbols).

## 7. Plan

Done: the engine, the guard, the trade clients, the stream writers, the user data
stream, the trackers, the position snapshots, the downloads, the command line;
proofs of all their safety properties and refinements. Left:

1. What an engine with raising audit events still guarantees about repeated
   executions: how many there can be for each event that raised.
2. An abstract specification of the stream writers (a queue that delivers at
   least once) and its refinement.
3. The keepalive threads of the trade clients, one per reconnection
   (`futures_trade_ws.py:410`).
