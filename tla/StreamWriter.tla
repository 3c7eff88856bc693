---------------------------- MODULE StreamWriter ----------------------------
(***************************************************************************)
(* The stream writers of ws/usdt_mark_price_stream.py,                      *)
(* ws/coin_mark_price_stream.py and ws/usdt_kline_stream.py: the callback   *)
(* of the WebSocket, on the main thread, samples records and queues them;   *)
(* writer threads move them in batches to the storages, with retries; run() *)
(* joins the threads and closes the storages when the stream ends.  The     *)
(* three differ in constants only: how many writers and storages there are, *)
(* and whether records are sampled (records without a window are not).      *)
(*                                                                          *)
(* The stream's run() replaces the signal handlers of the writer's run() by *)
(* its own, which close the WebSocket and nothing else: a signal that comes *)
(* later ends the stream, as a disconnection does, and _stop_event stays    *)
(* clear.                                                                   *)
(*                                                                          *)
(* Time goes by in units that are longer than what the threads need between *)
(* two waits, the 0.1 s of the shortest wait included.                      *)
(***************************************************************************)
EXTENDS Integers, Sequences, FiniteSets

CONSTANTS Writers,     \* writer threads
          Stores,      \* storages that are configured, in the order they are written
          MaxRecords,  \* bound: records the stream delivers, named in order of arrival
          Symbol,      \* symbol of each record
          SampleOf,    \* its sampling window, NoWindow without sampling or event time
          BatchSize,   \* batch_size
          MaxRetries,  \* max_retries
          FlushInterval, \* flush_interval
          JoinTimeout  \* the timeout of a join: 10 seconds

NoWindow == -1
Records == 1..MaxRecords
Symbols == {Symbol[r] : r \in Records}

ASSUME WriterAssumption ==
  /\ IsFiniteSet(Writers)
  /\ Stores \in Seq({"influxdb", "kafka"}) /\ Stores # << >>
  /\ \A i, j \in DOMAIN Stores : Stores[i] = Stores[j] => i = j
  /\ MaxRecords \in Nat
  /\ DOMAIN Symbol = Records
  /\ SampleOf \in [Records -> Nat \cup {NoWindow}]
  /\ BatchSize \in Nat \ {0}
  /\ MaxRetries \in Nat /\ FlushInterval \in Nat /\ JoinTimeout \in Nat

VARIABLES main,        \* where the main thread is in run()
          joined,      \* writers whose join has returned
          waited,      \* how long the main thread has been in its present join
          slow,        \* writing a batch, with its retries and their delays, may take time
          stop,        \* _stop_event
          arrived,     \* number of records delivered so far
          lastWindow,  \* _last_sample_window, NoWindow for a symbol not in it
          queue,       \* _queue
          pc,          \* where each writer thread is
          buffer,      \* its buffer
          age,         \* time since its last_flush_time, up to the flush interval
          attempt,     \* its attempt to write the buffer, from 0
          store,       \* the storage that attempt has reached
          handed,      \* how often each storage's client was handed each record
          accepted,    \* records that were queued
          written,     \* records counted in _stats["written"]
          failed,      \* records counted in _stats["failed"]
          troubled     \* history: records of a batch with a failed attempt

mainVars == <<main, joined, waited, slow, stop>>
callbackVars == <<arrived, lastWindow, accepted>>
threadVars == <<pc, buffer, age, attempt, store>>
outcomeVars == <<handed, written, failed, troubled>>
vars == <<mainVars, callbackVars, queue, threadVars, outcomeVars>>

StoreNames == {Stores[k] : k \in DOMAIN Stores}
Items(q) == {q[i] : i \in DOMAIN q}
Settled == written \cup failed

TypeOK ==
  /\ main \in {"starting", "streaming", "joining", "ended"}
  /\ joined \subseteq Writers /\ waited \in 0..JoinTimeout
  /\ slow \in BOOLEAN /\ stop \in BOOLEAN
  /\ arrived \in 0..MaxRecords
  /\ lastWindow \in [Symbols -> Nat \cup {NoWindow}]
  /\ queue \in Seq(Records)
  /\ pc \in [Writers -> {"head", "get", "decide", "write", "done"}]
  /\ buffer \in [Writers -> Seq(Records)]
  /\ \A w \in Writers : Len(buffer[w]) <= BatchSize
  /\ age \in [Writers -> 0..FlushInterval]
  /\ attempt \in [Writers -> 0..MaxRetries]
  /\ store \in [Writers -> DOMAIN Stores]
  /\ handed \in [StoreNames -> [Records -> 0..MaxRetries + 1]]
  /\ accepted \cup written \cup failed \cup troubled \subseteq Records

\* Handlers registered, storages made, writer threads started.
Init ==
  /\ main = "starting"
  /\ joined = {} /\ waited = 0
  /\ slow \in BOOLEAN
  /\ stop = FALSE
  /\ arrived = 0
  /\ lastWindow = [s \in Symbols |-> NoWindow]
  /\ queue = << >>
  /\ pc = [w \in Writers |-> "head"]
  /\ buffer = [w \in Writers |-> << >>]
  /\ age = [w \in Writers |-> 0]
  /\ attempt = [w \in Writers |-> 0]
  /\ store = [w \in Writers |-> 1]
  /\ handed = [k \in StoreNames |-> [r \in Records |-> 0]]
  /\ accepted = {} /\ written = {} /\ failed = {} /\ troubled = {}

-----------------------------------------------------------------------------
(***************************************************************************)
(* The main thread: run(), stop(), _on_message, _cleanup                    *)
(***************************************************************************)

\* A signal before the stream has installed its handlers: stop() finds no
\* running WebSocket to close.
SignalEarly ==
  /\ main = "starting" /\ ~stop
  /\ stop' = TRUE
  /\ UNCHANGED <<main, joined, waited, slow, callbackVars, queue, threadVars, outcomeVars>>

StreamRuns ==
  /\ main = "starting"
  /\ main' = "streaming"
  /\ UNCHANGED <<joined, waited, slow, stop, callbackVars, queue, threadVars, outcomeVars>>

\* Mutant: a window may be sampled again.
NewWindowOrSame(r) ==
  SampleOf[r] # NoWindow => SampleOf[r] >= lastWindow[Symbol[r]]

\* _should_sample
NewWindow(r) ==
  SampleOf[r] # NoWindow => SampleOf[r] > lastWindow[Symbol[r]]

Accept(r) ==
  /\ NewWindow(r)
  /\ lastWindow' = IF SampleOf[r] = NoWindow THEN lastWindow
                   ELSE [lastWindow EXCEPT ![Symbol[r]] = SampleOf[r]]
  /\ accepted' = accepted \cup {r}
  /\ queue' = Append(queue, r)

Skip(r) ==
  /\ ~NewWindow(r)
  /\ UNCHANGED <<lastWindow, accepted, queue>>

OnMessage ==
  /\ main = "streaming" /\ arrived < MaxRecords
  /\ arrived' = arrived + 1
  /\ Accept(arrived') \/ Skip(arrived')
  /\ UNCHANGED <<mainVars, threadVars, outcomeVars>>

\* run_forever returns: a signal, or the connection is lost.
StreamEnds ==
  /\ main = "streaming"
  /\ main' = "joining"
  /\ UNCHANGED <<joined, waited, slow, stop, callbackVars, queue, threadVars, outcomeVars>>

\* Mutant: the threads are not waited for.
JoinNothing(w) ==
  /\ main = "joining" /\ w \notin joined
  /\ joined' = joined \cup {w}
  /\ waited' = 0
  /\ UNCHANGED <<main, slow, stop, callbackVars, queue, threadVars, outcomeVars>>

\* A join returns when its thread has ended or its timeout is over, whatever is
\* queued or buffered then.
Join(w) ==
  /\ main = "joining" /\ w \notin joined
  /\ pc[w] = "done" \/ waited = JoinTimeout
  /\ joined' = joined \cup {w}
  /\ waited' = 0
  /\ UNCHANGED <<main, slow, stop, callbackVars, queue, threadVars, outcomeVars>>

CloseStorages ==
  /\ main = "joining" /\ joined = Writers
  /\ main' = "ended"
  /\ UNCHANGED <<joined, waited, slow, stop, callbackVars, queue, threadVars, outcomeVars>>

-----------------------------------------------------------------------------
(***************************************************************************)
(* A writer thread: _writer_loop, _flush_buffer, _write_batch.  The threads *)
(* are daemons: they are gone with the process once run() has returned.     *)
(***************************************************************************)

Goto(w, step) == main # "ended" /\ pc' = [pc EXCEPT ![w] = step]

LoopAgain(w) ==
  /\ pc[w] = "head"
  /\ ~stop \/ queue # << >>
  /\ Goto(w, "get")
  /\ UNCHANGED <<mainVars, callbackVars, queue, buffer, age, attempt, store, outcomeVars>>

LoopEnds(w) ==
  /\ pc[w] = "head"
  /\ stop /\ queue = << >>
  /\ Goto(w, "done")
  /\ UNCHANGED <<mainVars, callbackVars, queue, buffer, age, attempt, store, outcomeVars>>

\* Mutant: the record is read without being taken out of the queue.
GetShared(w) ==
  /\ pc[w] = "get" /\ queue # << >>
  /\ buffer' = [buffer EXCEPT ![w] = Append(@, Head(queue))]
  /\ queue' \in {queue, Tail(queue)}
  /\ Goto(w, "decide")
  /\ UNCHANGED <<mainVars, callbackVars, age, attempt, store, outcomeVars>>

Get(w) ==
  /\ pc[w] = "get" /\ queue # << >>
  /\ buffer' = [buffer EXCEPT ![w] = Append(@, Head(queue))]
  /\ queue' = Tail(queue)
  /\ Goto(w, "decide")
  /\ UNCHANGED <<mainVars, callbackVars, age, attempt, store, outcomeVars>>

\* The flush interval is over, and nothing has come.  A wait that ends with
\* nothing to do is begun again.
GetTimesOut(w) ==
  /\ pc[w] = "get" /\ queue = << >> /\ age[w] = FlushInterval
  /\ stop \/ buffer[w] # << >>
  /\ Goto(w, "decide")
  /\ UNCHANGED <<mainVars, callbackVars, queue, buffer, age, attempt, store, outcomeVars>>

\* Mutant: only a full batch is ever due.
DueFull(w) == Len(buffer[w]) >= BatchSize

\* should_flush
Due(w) ==
  /\ buffer[w] # << >>
  /\ Len(buffer[w]) >= BatchSize \/ age[w] = FlushInterval \/ stop

Decide(w) ==
  /\ pc[w] = "decide"
  /\ Goto(w, IF Due(w) THEN "write" ELSE "head")
  /\ UNCHANGED <<mainVars, callbackVars, queue, buffer, age, attempt, store, outcomeVars>>

Handing(k, records) ==
  [handed EXCEPT ![Stores[k]] = [r \in Records |-> IF r \in records THEN @[r] + 1 ELSE @[r]]]

\* The buffer is given up, as a whole, and the loop goes on.
Emptied(w) ==
  /\ buffer' = [buffer EXCEPT ![w] = << >>]
  /\ age' = [age EXCEPT ![w] = 0]
  /\ attempt' = [attempt EXCEPT ![w] = 0]
  /\ store' = [store EXCEPT ![w] = 1]
  /\ Goto(w, "head")

\* Mutant: a success is no reason to leave the retry loop.
WriteAgain(w) ==
  /\ pc[w] = "write"
  /\ handed' = Handing(store[w], Items(buffer[w]))
  /\ IF store[w] < Len(Stores)
     THEN /\ store' = [store EXCEPT ![w] = @ + 1]
          /\ UNCHANGED <<pc, buffer, age, attempt, written>>
     ELSE IF attempt[w] < MaxRetries
     THEN /\ attempt' = [attempt EXCEPT ![w] = @ + 1]
          /\ store' = [store EXCEPT ![w] = 1]
          /\ UNCHANGED <<pc, buffer, age, written>>
     ELSE Emptied(w) /\ written' = written \cup Items(buffer[w])
  /\ UNCHANGED <<mainVars, callbackVars, queue, failed, troubled>>

\* A storage's write returns: the batch was handed to its client, for InfluxDB
\* in a write that returns when the server has it, for Kafka in calls of send()
\* whose futures nobody looks at.  After the last storage the batch is counted
\* as written.
WriteReturns(w) ==
  /\ pc[w] = "write" /\ main # "ended"
  /\ handed' = Handing(store[w], Items(buffer[w]))
  /\ \/ /\ store[w] < Len(Stores)
        /\ store' = [store EXCEPT ![w] = @ + 1]
        /\ UNCHANGED <<pc, buffer, age, attempt, written>>
     \/ /\ store[w] = Len(Stores)
        /\ written' = written \cup Items(buffer[w])
        /\ Emptied(w)
  /\ UNCHANGED <<mainVars, callbackVars, queue, failed, troubled>>

\* Mutant: one attempt more than max_retries.
WriteRaisesOnceMore(w) ==
  /\ pc[w] = "write" /\ main # "ended"
  /\ troubled' = troubled \cup Items(buffer[w])
  /\ \/ /\ attempt[w] <= MaxRetries
        /\ attempt' = [attempt EXCEPT ![w] = @ + 1]
        /\ store' = [store EXCEPT ![w] = 1]
        /\ UNCHANGED <<pc, buffer, age, failed>>
     \/ /\ attempt[w] > MaxRetries
        /\ failed' = failed \cup Items(buffer[w])
        /\ Emptied(w)
  /\ UNCHANGED <<mainVars, callbackVars, queue, handed, written>>

\* A storage's write raises, with some first part of the batch handed over.
\* The next attempt is made from the first storage on; the last one drops the
\* batch.
WriteRaises(w) ==
  /\ pc[w] = "write" /\ main # "ended"
  /\ \E n \in 0..Len(buffer[w]) :
       handed' = Handing(store[w], Items(SubSeq(buffer[w], 1, n)))
  /\ troubled' = troubled \cup Items(buffer[w])
  /\ \/ /\ attempt[w] < MaxRetries
        /\ attempt' = [attempt EXCEPT ![w] = @ + 1]
        /\ store' = [store EXCEPT ![w] = 1]
        /\ UNCHANGED <<pc, buffer, age, failed>>
     \/ /\ attempt[w] = MaxRetries
        /\ failed' = failed \cup Items(buffer[w])
        /\ Emptied(w)
  /\ UNCHANGED <<mainVars, callbackVars, queue, written>>

-----------------------------------------------------------------------------

\* Nothing is to be done by w before something comes or time goes by.
Waiting(w) ==
  /\ pc[w] = "get" /\ queue = << >>
  /\ buffer[w] # << >> => age[w] < FlushInterval
  /\ stop => age[w] < FlushInterval

\* Time goes by: where the storages keep up, only while all threads wait.
Tick ==
  /\ main # "ended"
  /\ slow \/ \A w \in Writers : pc[w] = "done" \/ Waiting(w)
  /\ age' = [w \in Writers |-> IF age[w] < FlushInterval THEN age[w] + 1 ELSE age[w]]
  /\ \/ main = "joining" /\ waited < JoinTimeout /\ waited' = waited + 1
     \/ main # "joining" /\ UNCHANGED waited
  /\ UNCHANGED <<main, joined, slow, stop, callbackVars, queue, pc, buffer, attempt, store,
                 outcomeVars>>

Loop(w) == LoopAgain(w) \/ LoopEnds(w) \/ Get(w) \/ GetTimesOut(w) \/ Decide(w)
Flush(w) == WriteReturns(w) \/ WriteRaises(w)
Thread(w) == Loop(w) \/ Flush(w)
Finish == CloseStorages \/ \E w \in Writers : Join(w)

Next ==
  \/ SignalEarly \/ StreamRuns \/ OnMessage \/ StreamEnds \/ Finish \/ Tick
  \/ \E w \in Writers : Thread(w)

Spec == Init /\ [][Next]_vars

\* The threads run, time goes by, and a join that may return does.
Fairness ==
  /\ WF_vars(StreamRuns) /\ WF_vars(Finish) /\ WF_vars(Tick)
  /\ \A w \in Writers : WF_vars(Thread(w))

FairSpec == Spec /\ Fairness

-----------------------------------------------------------------------------
(***************************************************************************)
(* Properties                                                               *)
(***************************************************************************)

\* The places of the queue and of the buffers that hold r.
Held(r) ==
  {<<"queue", i>> : i \in {i \in DOMAIN queue : queue[i] = r}}
    \cup UNION {{<<w, i>> : i \in {i \in DOMAIN buffer[w] : buffer[w][i] = r}} : w \in Writers}

\* An accepted record is in exactly one place: queued, in one buffer, written
\* or counted as failed; two threads never hold the same one.
Conserved ==
  \A r \in Records :
    Cardinality(Held(r)) = IF r \in accepted \ Settled THEN 1 ELSE 0

\* A symbol has one record at most for each sampling window, and never one of
\* an earlier window after a later one.
SampledOnce ==
  \A r, t \in accepted :
    r < t /\ Symbol[r] = Symbol[t] /\ NoWindow \notin {SampleOf[r], SampleOf[t]}
      => SampleOf[r] < SampleOf[t]

\* What is counted as written was handed to every configured storage, and a
\* record of which no attempt failed was handed to none of them twice.  InfluxDB
\* holds what it was handed by a write that returned; whether Kafka's broker has
\* got a record is not known to the program, and not claimed.
WrittenIsHanded ==
  \A r \in Records : \A k \in StoreNames :
    /\ r \in written => handed[k][r] > 0
    /\ r \notin troubled => handed[k][r] <= 1

\* When run() returns after a stream that ended, nothing that was accepted is
\* left in the queue or in a buffer, provided that the storages keep up and the
\* flush interval is shorter than the timeout of the joins: the threads are not
\* told to stop, so that a buffer is written when its interval is over, or never.
DrainedAtEnd ==
  main = "ended" /\ ~slow /\ ~stop /\ FlushInterval < JoinTimeout => accepted \subseteq Settled

\* An accepted record is written or counted as failed, however long its batch
\* takes to fill and however often a storage fails; only a run() that returns
\* while the storages are slow, or before a buffer is due, may leave it behind.
EveryRecordSettles ==
  \A r \in Records :
    r \in accepted /\ ~stop ~>
      r \in Settled \/ (main = "ended" /\ (slow \/ FlushInterval >= JoinTimeout))

\* README.md:371: a graceful stop makes sure that buffered data is written.
GracefulStop ==
  main = "ended" /\ ~slow => accepted \subseteq Settled

=============================================================================
