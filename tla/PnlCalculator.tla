---------------------------- MODULE PnlCalculator ---------------------------
(***************************************************************************)
(* SpotPnLCalculator of pnl/spot_pnl.py and FuturesPnLCalculator of          *)
(* pnl/futures_pnl.py: prices arrive over WebSockets, and once per interval  *)
(* the callback computes the unrealized profit of every position and         *)
(* publishes the records to Kafka.                                           *)
(*                                                                           *)
(* Spot has one WebSocket, which runs on the main thread; the signal handler *)
(* freezes it.  Futures has a thread per WebSocket, USDT- and COIN-margined; *)
(* both callbacks read all positions, while the other one updates its own.   *)
(* Prices and quantities are integers, fee rates are multiples of            *)
(* 1/FeeScale, and an amount that contains a fee is FeeScale times as large. *)
(***************************************************************************)
EXTENDS Integers

CONSTANTS Symbols,        \* symbols of the positions
          Book,           \* their side, entry price, quantity and leverage
          StreamOf,       \* the futures WebSocket of each symbol, "usdt" or "coin"
          Prices,         \* prices the exchange may send
          FeeRate, FeeScale,
          MaxMessages,    \* bound: messages
          MaxIntervals,   \* bound: print intervals that pass
          MaxInterrupts   \* bound: signals

ASSUME PnlAssumption ==
  /\ Book \in [Symbols -> [side : {"LONG", "SHORT"}, entry : Nat \ {0},
                           quantity : Nat \ {0}, leverage : Nat \ {0}]]
  /\ StreamOf \in [Symbols -> {"usdt", "coin"}]
  /\ Prices \subseteq Nat \ {0}
  /\ FeeScale \in Nat \ {0} /\ FeeRate \in 0..FeeScale
  /\ {MaxMessages, MaxIntervals, MaxInterrupts} \subseteq Nat

VARIABLES pnlKind,     \* "off", "spot" or "futures"
          pnlMain,     \* where the main thread is in run() or in stop()
          interrupts,  \* signals received
          pnlStop,     \* _stop_event
          kafkaOpen,   \* the producer is open
          thread,      \* where _run_ws of each stream is
          step,        \* where its callback is
          price,       \* mark_price or current_price of each position, 0 before the first
          messages,    \* messages received
          clock,       \* print intervals passed
          nowRead,     \* the time a callback has read
          lastSent,    \* _last_kafka_time, -1 before the first
          draft,       \* the records a callback is building
          sent         \* the records a stream has published after its last message

callbackState == <<step, price, messages, nowRead, lastSent, draft, sent>>
stopState == <<pnlMain, interrupts, pnlStop, kafkaOpen>>
pnlVars == <<pnlKind, stopState, thread, callbackState, clock>>

-----------------------------------------------------------------------------
(***************************************************************************)
(* FuturesPosition and SpotPosition                                         *)
(***************************************************************************)

SideSign(s) == IF Book[s].side = "LONG" THEN 1 ELSE -1

NotionalValue(s) == Book[s].entry * Book[s].quantity

UnrealizedPnl(s, p) ==
  IF p <= 0 THEN 0 ELSE (p - Book[s].entry) * Book[s].quantity * SideSign(s)

\* unrealized_pnl_with_fee: less the fees of opening and of closing.
UnrealizedPnlWithFee(s, p) ==
  IF p <= 0 THEN 0
  ELSE FeeScale * UnrealizedPnl(s, p) - FeeRate * NotionalValue(s)
         - FeeRate * (p * Book[s].quantity)

\* cost and sell_value of the spot position, fees included.
Cost(s) == NotionalValue(s) * (FeeScale + FeeRate)
SellValue(s, p) == p * Book[s].quantity * (FeeScale - FeeRate)
SpotPnl(s, p) == IF p <= 0 THEN 0 ELSE SellValue(s, p) - Cost(s)

\* unrealized_pnl of a record.
Pnl(s, p) == IF pnlKind = "spot" THEN SpotPnl(s, p) ELSE UnrealizedPnl(s, p)

\* roe times the notional value, as margin = notional_value / leverage; in
\* spot unrealized_pnl_pct times the cost.
Roe(s, p) ==
  100 * (IF pnlKind = "spot" THEN SpotPnl(s, p)
         ELSE UnrealizedPnlWithFee(s, p) * Book[s].leverage)

\* liquidation_price_estimate times the leverage.
LiquidationPriceEstimate(s) == Book[s].entry * (Book[s].leverage - SideSign(s))

-----------------------------------------------------------------------------
Streams == IF pnlKind = "futures" THEN {StreamOf[s] : s \in Symbols} ELSE {"spot"}
AllStreams == {"spot", "usdt", "coin"}

\* Mutant: each WebSocket subscribes to all symbols.
OwnAll(t) == Symbols

\* _usdt_symbols, _coin_symbols; spot subscribes to all.
Own(t) == IF t = "spot" THEN Symbols ELSE {s \in Symbols : StreamOf[s] = t}

Steps == {"none", "time", "price", "value", "publish"}
NoRecords == [s \in {} |-> 0]
Known == {s \in Symbols : price[s] > 0}

PnlTypeOK ==
  /\ pnlKind \in {"off", "spot", "futures"}
  /\ pnlMain \in {"off", "run", "closing", "kafka", "joining", "ended"}
  /\ interrupts \in 0..MaxInterrupts
  /\ pnlStop \in BOOLEAN /\ kafkaOpen \in BOOLEAN
  /\ thread \in [AllStreams -> {"loop", "entering", "running", "done"}]
  /\ step \in [AllStreams -> Steps]
  /\ price \in [Symbols -> Prices \cup {0}]
  /\ messages \in 0..MaxMessages
  /\ clock \in 0..MaxIntervals
  /\ nowRead \in [AllStreams -> 0..MaxIntervals]
  /\ lastSent \in -1..MaxIntervals
  /\ \A t \in AllStreams : DOMAIN draft[t] \subseteq Symbols /\ DOMAIN sent[t] \subseteq Symbols

PnlInit ==
  /\ pnlKind = "off" /\ pnlMain = "off" /\ interrupts = 0
  /\ pnlStop = FALSE /\ kafkaOpen = TRUE
  /\ thread = [t \in AllStreams |-> "loop"]
  /\ step = [t \in AllStreams |-> "none"]
  /\ price = [s \in Symbols |-> 0]
  /\ messages = 0 /\ clock = 0
  /\ nowRead = [t \in AllStreams |-> 0]
  /\ lastSent = -1
  /\ draft = [t \in AllStreams |-> NoRecords]
  /\ sent = [t \in AllStreams |-> NoRecords]

\* Handlers registered, threads started.
PnlBegin(k) ==
  /\ pnlKind = "off"
  /\ pnlKind' = k /\ pnlMain' = "run"
  /\ UNCHANGED <<interrupts, pnlStop, kafkaOpen, thread, callbackState, clock>>

-----------------------------------------------------------------------------
(***************************************************************************)
(* _run_ws; in spot the loop of run()                                       *)
(***************************************************************************)

\* The stream is scheduled: spot's not while a handler runs on top of it, and
\* a daemon thread not after the end of the program.
Runs(t) ==
  /\ t \in Streams
  /\ IF pnlKind = "spot" THEN pnlMain = "run" ELSE pnlMain \notin {"off", "ended"}

Moves(t, from, to) ==
  /\ Runs(t) /\ step[t] = "none" /\ thread[t] = from
  /\ thread' = [thread EXCEPT ![t] = to]

\* while not self._stop_event.is_set(), after wait(5) when a connection has
\* ended; the loop of spot ends run().
PnlLoop(t) ==
  /\ Moves(t, "loop", IF pnlStop THEN "done" ELSE "entering")
  /\ pnlMain' = IF pnlStop /\ t = "spot" THEN "ended" ELSE pnlMain
  /\ UNCHANGED <<pnlKind, interrupts, pnlStop, kafkaOpen, callbackState, clock>>

PnlConnects(t) ==
  /\ Moves(t, "entering", "running")
  /\ UNCHANGED <<pnlKind, stopState, callbackState, clock>>

PnlDisconnects(t) ==
  /\ Moves(t, "entering", "loop") \/ Moves(t, "running", "loop")
  /\ UNCHANGED <<pnlKind, stopState, callbackState, clock>>

-----------------------------------------------------------------------------
(***************************************************************************)
(* _on_ws_message and _write_to_kafka                                       *)
(***************************************************************************)

At(t, from) == Runs(t) /\ step[t] = from

\* A price of one of the stream's symbols is stored.
Receive(t) ==
  /\ At(t, "none") /\ thread[t] = "running" /\ messages < MaxMessages
  /\ messages' = messages + 1
  /\ \E s \in Own(t), p \in Prices : price' = [price EXCEPT ![s] = p]
  /\ sent' = [sent EXCEPT ![t] = NoRecords]
  /\ step' = [step EXCEPT ![t] = "time"]
  /\ UNCHANGED <<pnlKind, stopState, thread, clock, nowRead, lastSent, draft>>

\* now is read and compared with _last_kafka_time.
Time(t) ==
  /\ At(t, "time")
  /\ IF clock - lastSent >= 1
     THEN nowRead' = [nowRead EXCEPT ![t] = clock] /\ step' = [step EXCEPT ![t] = "price"]
     ELSE UNCHANGED nowRead /\ step' = [step EXCEPT ![t] = "none"]
  /\ UNCHANGED <<pnlKind, stopState, thread, clock, price, messages, lastSent, draft, sent>>

\* The price field of the next record; positions without a price are left out.
BuildPrice(t) ==
  /\ At(t, "price")
  /\ LET s == CHOOSE s \in Symbols : s \in Known \ DOMAIN draft[t] IN
       draft' = [draft EXCEPT ![t] =
                   [r \in DOMAIN @ \cup {s} |-> IF r = s THEN [price |-> price[s]] ELSE @[r]]]
  /\ step' = [step EXCEPT ![t] = "value"]
  /\ UNCHANGED <<pnlKind, stopState, thread, clock, price, messages, nowRead, lastSent, sent>>

\* The computed fields of the record: the properties read the price again.
BuildValue(t) ==
  /\ At(t, "value")
  /\ draft' = [draft EXCEPT ![t] =
                 [r \in DOMAIN @ |-> IF DOMAIN @[r] = {"price"}
                    THEN [price |-> @[r].price, pnl |-> Pnl(r, price[r]), roe |-> Roe(r, price[r])]
                    ELSE @[r]]]
  /\ step' = [step EXCEPT ![t] = IF Known \subseteq DOMAIN draft[t] THEN "publish" ELSE "price"]
  /\ UNCHANGED <<pnlKind, stopState, thread, clock, price, messages, nowRead, lastSent, sent>>

\* write_spot_pnl, write_futures_pnl, then _last_kafka_time = now.
PublishRecords(t) ==
  /\ At(t, "publish") /\ kafkaOpen
  /\ sent' = [sent EXCEPT ![t] = draft[t]]
  /\ lastSent' = nowRead[t]
  /\ draft' = [draft EXCEPT ![t] = NoRecords]
  /\ nowRead' = [nowRead EXCEPT ![t] = 0]
  /\ step' = [step EXCEPT ![t] = "none"]
  /\ UNCHANGED <<pnlKind, stopState, thread, clock, price, messages>>

\* The producer is closed or fails: the exception is logged, and the next
\* message tries again.
PublishFails(t) ==
  /\ At(t, "publish")
  /\ draft' = [draft EXCEPT ![t] = NoRecords]
  /\ nowRead' = [nowRead EXCEPT ![t] = 0]
  /\ step' = [step EXCEPT ![t] = "none"]
  /\ UNCHANGED <<pnlKind, stopState, thread, clock, price, messages, lastSent, sent>>

Interval ==
  /\ pnlMain \notin {"off", "ended"} /\ clock < MaxIntervals
  /\ clock' = clock + 1
  /\ UNCHANGED <<pnlKind, stopState, thread, callbackState>>

-----------------------------------------------------------------------------
(***************************************************************************)
(* stop(), in the signal handler and at the end of futures run()            *)
(***************************************************************************)

Interrupt ==
  /\ pnlMain = "run" /\ interrupts < MaxInterrupts
  /\ interrupts' = interrupts + 1
  /\ pnlMain' = "closing"
  /\ UNCHANGED <<pnlKind, pnlStop, kafkaOpen, thread, callbackState, clock>>

\* close() ends a run_forever that is running, after its callback.
CloseSockets ==
  /\ pnlStop' = TRUE
  /\ thread' = [t \in AllStreams |-> IF thread[t] = "running" THEN "loop" ELSE thread[t]]

PnlCloses ==
  /\ pnlMain = "closing"
  /\ CloseSockets
  /\ pnlMain' = "kafka"
  /\ UNCHANGED <<pnlKind, interrupts, kafkaOpen, callbackState, clock>>

KafkaCloses ==
  /\ pnlMain = "kafka"
  /\ kafkaOpen' = FALSE
  /\ pnlMain' = "run"
  /\ UNCHANGED <<pnlKind, interrupts, pnlStop, thread, callbackState, clock>>

\* Futures: the loop of run() sees the event and calls stop() once more.
StopsAgain ==
  /\ pnlKind = "futures" /\ pnlMain = "run" /\ pnlStop
  /\ CloseSockets
  /\ kafkaOpen' = FALSE
  /\ pnlMain' = "joining"
  /\ UNCHANGED <<pnlKind, interrupts, callbackState, clock>>

\* join(timeout=2) of each thread, whether it has ended or not.
Joined ==
  /\ pnlMain = "joining"
  /\ pnlMain' = "ended"
  /\ UNCHANGED <<pnlKind, interrupts, pnlStop, kafkaOpen, thread, callbackState, clock>>

-----------------------------------------------------------------------------
PnlStreams == \E t \in AllStreams : PnlLoop(t) \/ PnlConnects(t) \/ PnlDisconnects(t)
Callback ==
  \E t \in AllStreams : Time(t) \/ BuildPrice(t) \/ BuildValue(t) \/ PublishRecords(t) \/ PublishFails(t)
StopPnl == PnlCloses \/ KafkaCloses \/ StopsAgain \/ Joined

PnlNext ==
  \/ PnlStreams
  \/ Callback \/ \E t \in AllStreams : Receive(t)
  \/ Interrupt \/ StopPnl
  \/ Interval

\* What the end of the program waits for: the steps of spot's main thread and
\* of stop(); the exchange drops a connection after 24 hours at the latest.
PnlFairness ==
  /\ WF_pnlVars(PnlLoop("spot"))
  /\ WF_pnlVars(Callback)
  /\ SF_pnlVars(PnlDisconnects("spot"))
  /\ WF_pnlVars(StopPnl)

-----------------------------------------------------------------------------
(***************************************************************************)
(* Properties                                                               *)
(***************************************************************************)

\* A record holds the profit and the return of the price it names.
RecordTrue(s, r) ==
  LET change == IF Book[s].side = "LONG" THEN r.price - Book[s].entry
                ELSE Book[s].entry - r.price
      fees == FeeRate * (Book[s].entry + r.price) * Book[s].quantity
  IN IF pnlKind = "spot"
     THEN /\ r.pnl = r.price * Book[s].quantity * (FeeScale - FeeRate)
                      - Book[s].entry * Book[s].quantity * (FeeScale + FeeRate)
          /\ r.roe = r.pnl * 100
     ELSE /\ r.pnl = change * Book[s].quantity
          /\ r.roe = (FeeScale * r.pnl - fees) * Book[s].leverage * 100

\* README "盈亏计算公式": a record that a stream publishes for one of its own
\* symbols holds the profit of the price it names, although the other stream
\* changes prices meanwhile; the records of spot always do.
OwnRecordsTrue ==
  \A t \in AllStreams : \A s \in DOMAIN sent[t] \cap Own(t) : RecordTrue(s, sent[t][s])

=============================================================================
