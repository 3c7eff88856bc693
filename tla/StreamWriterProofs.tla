------------------------- MODULE StreamWriterProofs -------------------------
(***************************************************************************)
(* The stream writers: no accepted record is lost, held twice or counted    *)
(* twice, what is counted as written was handed to every storage, and a     *)
(* stream that ends leaves nothing behind unless the joins time out before  *)
(* the buffers are due, for any number of threads, storages, records and    *)
(* retries and all times.                                                   *)
(***************************************************************************)
EXTENDS StreamWriter, SequenceTheorems, FiniteSetTheorems, TLAPS

-----------------------------------------------------------------------------
(***************************************************************************)
(* The inductive invariant                                                  *)
(***************************************************************************)

\* A thread that takes a record has room for it, and starts each batch with
\* its first attempt at the first storage.
RoomInBuffer ==
  \A w \in Writers :
    /\ pc[w] \in {"head", "get"} => Len(buffer[w]) < BatchSize
    /\ pc[w] # "write" => attempt[w] = 0 /\ store[w] = 1

Distinct(q) == \A i, j \in DOMAIN q : q[i] = q[j] => i = j

\* The queue and the buffers share no record, and none holds one twice.
HeldOnce ==
  /\ Distinct(queue)
  /\ \A w \in Writers : Distinct(buffer[w]) /\ Items(buffer[w]) \cap Items(queue) = {}
  /\ \A w, v \in Writers : w # v => Items(buffer[w]) \cap Items(buffer[v]) = {}

\* What they hold is what was accepted and is not settled.
HeldIsUnsettled ==
  /\ accepted \subseteq 1..arrived
  /\ Settled \subseteq accepted
  /\ \A r \in Records :
       r \in accepted \ Settled <=>
         r \in Items(queue) \/ \E w \in Writers : r \in Items(buffer[w])

\* How often each storage was handed a record: never before a thread has it;
\* then once for each attempt that has reached the storage, at most.
HandedByAttempts ==
  /\ \A r \in Records : \A k \in StoreNames :
       r \notin accepted \/ r \in Items(queue) => handed[k][r] = 0
  /\ \A w \in Writers : \A r \in Items(buffer[w]) :
       /\ r \notin troubled => attempt[w] = 0
       /\ \A k \in DOMAIN Stores :
            /\ k < store[w] => handed[Stores[k]][r] \in 1..attempt[w] + 1
            /\ k >= store[w] => handed[Stores[k]][r] <= attempt[w]

\* The window of a symbol is that of its latest sample.
WindowIsLatest ==
  \A r \in accepted : SampleOf[r] # NoWindow => SampleOf[r] <= lastWindow[Symbol[r]]

\* With storages that keep up, time goes by in a join only while nothing is
\* queued, and whatever is buffered then gets older with it.
WaitIsIdle ==
  /\ main \in {"starting", "streaming"} => joined = {} /\ waited = 0
  /\ ~slow /\ ~stop /\ waited > 0 =>
       \A w \in Writers : queue = << >> /\ (buffer[w] = << >> \/ age[w] >= waited)

\* A join that times out after the flush interval has nothing in the queue or
\* in its thread's buffer, and nothing comes after it.
JoinedIsDrained ==
  /\ ~stop => \A w \in Writers : pc[w] # "done"
  /\ main = "ended" => joined = Writers
  /\ ~slow /\ ~stop /\ FlushInterval < JoinTimeout =>
       \A w \in joined : queue = << >> /\ buffer[w] = << >>

WriterInv ==
  /\ TypeOK /\ RoomInBuffer /\ HeldOnce /\ HeldIsUnsettled
  /\ HandedByAttempts /\ WrittenIsHanded
  /\ WindowIsLatest /\ SampledOnce
  /\ WaitIsIdle /\ JoinedIsDrained

-----------------------------------------------------------------------------
(***************************************************************************)
(* Sequences of records                                                     *)
(***************************************************************************)

LEMMA EmptyItems == << >> \in Seq(Records) /\ Items(<< >>) = {} /\ Distinct(<< >>)
BY EmptySeq DEF Items, Distinct

LEMMA TailItems ==
  ASSUME NEW q \in Seq(Records), q # << >>, Distinct(q)
  PROVE  /\ Tail(q) \in Seq(Records) /\ Distinct(Tail(q))
         /\ Head(q) \in Records /\ Head(q) \in Items(q)
         /\ Items(Tail(q)) = Items(q) \ {Head(q)}
<1>1. /\ DOMAIN q = 1..Len(q) /\ Len(q) \in Nat \ {0}
      /\ Head(q) = q[1] /\ q[1] \in Records
      /\ Tail(q) \in Seq(Records) /\ Len(Tail(q)) = Len(q) - 1
      /\ DOMAIN Tail(q) = 1..Len(q) - 1
      /\ \A i \in DOMAIN Tail(q) : Tail(q)[i] = q[i + 1]
  BY LenProperties, EmptySeq, HeadTailProperties
<1>2. Distinct(Tail(q))
  BY <1>1 DEF Distinct
<1>3. ASSUME NEW r \in Items(Tail(q)) PROVE r \in Items(q) /\ r # Head(q)
  BY <1>1 DEF Items, Distinct
<1>4. ASSUME NEW r \in Items(q), r # Head(q) PROVE r \in Items(Tail(q))
  <2>1. PICK i \in DOMAIN q : r = q[i]
    BY DEF Items
  <2>2. i - 1 \in DOMAIN Tail(q) /\ Tail(q)[i - 1] = q[i]
    BY <1>1, <1>4, <2>1
  <2> QED BY <2>1, <2>2 DEF Items
<1>5. Head(q) \in Items(q)
  BY <1>1 DEF Items
<1> QED BY <1>1, <1>2, <1>3, <1>4, <1>5

LEMMA AppendItems ==
  ASSUME NEW q \in Seq(Records), NEW r \in Records
  PROVE  /\ Append(q, r) \in Seq(Records) /\ Len(Append(q, r)) = Len(q) + 1
         /\ Items(Append(q, r)) = Items(q) \cup {r}
         /\ Distinct(q) /\ r \notin Items(q) => Distinct(Append(q, r))
<1>1. /\ DOMAIN q = 1..Len(q) /\ Len(q) \in Nat
      /\ Append(q, r) \in Seq(Records) /\ Len(Append(q, r)) = Len(q) + 1
      /\ DOMAIN Append(q, r) = 1..Len(q) + 1
      /\ \A i \in 1..Len(q) : Append(q, r)[i] = q[i]
      /\ Append(q, r)[Len(q) + 1] = r
  BY LenProperties, AppendProperties
<1>2. Items(Append(q, r)) = Items(q) \cup {r}
  <2>1. ASSUME NEW t \in Items(Append(q, r)) PROVE t \in Items(q) \cup {r}
    BY <1>1 DEF Items
  <2>2. ASSUME NEW t \in Items(q) \cup {r} PROVE t \in Items(Append(q, r))
    BY <1>1 DEF Items
  <2> QED BY <2>1, <2>2
<1>3. ASSUME Distinct(q), r \notin Items(q) PROVE Distinct(Append(q, r))
  BY <1>1, <1>3 DEF Distinct, Items
<1> QED BY <1>1, <1>2, <1>3

LEMMA PrefixItems ==
  ASSUME NEW q \in Seq(Records), NEW n \in 0..Len(q)
  PROVE  Items(SubSeq(q, 1, n)) \subseteq Items(q)
<1>1. /\ Len(q) \in Nat /\ DOMAIN q = 1..Len(q)
      /\ \A i \in 1..n : q[i] \in Records
  BY LenProperties
<1>2. /\ SubSeq(q, 1, n) \in Seq(Records)
      /\ Len(SubSeq(q, 1, n)) = n
      /\ \A i \in 1..n : SubSeq(q, 1, n)[i] = q[i]
  BY <1>1, SubSeqProperties
<1>3. DOMAIN SubSeq(q, 1, n) = 1..n
  BY <1>2, LenProperties
<1> QED BY <1>1, <1>2, <1>3 DEF Items

LEMMA ItemsAreRecords ==
  ASSUME NEW q \in Seq(Records)
  PROVE  Items(q) \subseteq Records
BY LenProperties DEF Items

-----------------------------------------------------------------------------
LEMMA WriterInitInv == Init => WriterInv
<1> SUFFICES ASSUME Init PROVE WriterInv
  OBVIOUS
<1>1. TypeOK
  <2>1. 1 \in DOMAIN Stores /\ 0 \in 0..MaxRetries /\ 0 \in 0..MaxRetries + 1 /\ 0 \in 0..MaxRecords
        /\ 0 \in 0..FlushInterval /\ 0 \in 0..JoinTimeout
    BY WriterAssumption, LenProperties, EmptySeq DEF WriterAssumption
  <2>2. \A w \in Writers : buffer[w] \in Seq(Records) /\ Len(buffer[w]) <= BatchSize
    BY EmptySeq, WriterAssumption DEF Init, WriterAssumption
  <2>3. buffer \in [Writers -> Seq(Records)] /\ queue \in Seq(Records)
    BY EmptySeq DEF Init
  <2>4. main \in {"starting", "streaming", "joining", "ended"} /\ slow \in BOOLEAN /\ stop \in BOOLEAN
        /\ lastWindow \in [Symbols -> Nat \cup {NoWindow}]
        /\ pc \in [Writers -> {"head", "get", "decide", "write", "done"}]
    BY DEF Init
  <2> QED BY <2>1, <2>2, <2>3, <2>4 DEF Init, TypeOK
<1>2. RoomInBuffer
  BY EmptySeq, WriterAssumption DEF Init, RoomInBuffer, WriterAssumption
<1>3. HeldOnce /\ HeldIsUnsettled /\ HandedByAttempts /\ WrittenIsHanded
  BY EmptyItems DEF Init, HeldOnce, HeldIsUnsettled, HandedByAttempts, WrittenIsHanded, Settled
<1>4. WindowIsLatest /\ SampledOnce /\ WaitIsIdle /\ JoinedIsDrained
  BY DEF Init, WindowIsLatest, SampledOnce, WaitIsIdle, JoinedIsDrained
<1> QED BY <1>1, <1>2, <1>3, <1>4 DEF WriterInv

-----------------------------------------------------------------------------
(***************************************************************************)
(* Steps that move no record                                                *)
(***************************************************************************)

Control(w) == LoopAgain(w) \/ LoopEnds(w) \/ GetTimesOut(w) \/ Decide(w)

LEMMA RecordsStay ==
  ASSUME WriterInv, UNCHANGED <<callbackVars, queue, buffer, attempt, store, outcomeVars>>
  PROVE  /\ HeldOnce' /\ HeldIsUnsettled' /\ HandedByAttempts' /\ WrittenIsHanded'
         /\ WindowIsLatest' /\ SampledOnce'
BY DEF WriterInv, callbackVars, outcomeVars, HeldOnce, HeldIsUnsettled, HandedByAttempts,
       WrittenIsHanded, WindowIsLatest, SampledOnce, Settled

LEMMA MainInv ==
  ASSUME WriterInv, SignalEarly \/ StreamRuns \/ StreamEnds \/ Finish \/ UNCHANGED vars
  PROVE  WriterInv'
<1> USE DEF SignalEarly, StreamRuns, StreamEnds, Finish, Join, CloseStorages, vars, mainVars,
            threadVars
<1>1. /\ UNCHANGED <<callbackVars, queue, threadVars, outcomeVars, slow>>
      /\ JoinTimeout \in Nat /\ FlushInterval \in Nat
  BY WriterAssumption DEF WriterAssumption
<1>2. TypeOK' /\ RoomInBuffer'
  <2>1. /\ main' \in {"starting", "streaming", "joining", "ended"}
        /\ joined' \subseteq Writers /\ waited' \in 0..JoinTimeout /\ stop' \in BOOLEAN
    <3>1. CASE UNCHANGED <<joined, waited>>
      BY <3>1 DEF WriterInv, TypeOK
    <3>2. ASSUME NEW w \in Writers, Join(w)
          PROVE  /\ joined' = joined \cup {w} /\ waited' = 0
                 /\ UNCHANGED <<main, stop>>
      BY <3>2
    <3>3. CASE \E w \in Writers : Join(w)
      <4>1. /\ joined' \subseteq Writers /\ waited' = 0
            /\ UNCHANGED <<main, stop>>
        BY ONLY <3>2, <3>3, WriterInv DEF WriterInv, TypeOK
      <4> QED BY <1>1, <4>1 DEF WriterInv, TypeOK
    <3> QED BY <3>1, <3>3
  <2>2. RoomInBuffer'
    BY <1>1 DEF WriterInv, RoomInBuffer
  <2>3. UNCHANGED <<arrived, lastWindow, accepted, queue, pc, buffer, age, attempt, store, handed,
                    written, failed, troubled, slow>>
    BY <1>1 DEF callbackVars, outcomeVars
  <2>4. TypeOK'
    BY ONLY WriterInv, <2>1, <2>3 DEF WriterInv, TypeOK
  <2> QED BY <2>2, <2>4
<1>3. WaitIsIdle'
  BY <1>1 DEF WriterInv, TypeOK, WaitIsIdle
<1>4. JoinedIsDrained'
  <2>1. CASE UNCHANGED <<joined, waited>>
    <3>1. /\ ~stop' => ~stop
          /\ main' = "ended" => joined = Writers
      BY DEF WriterInv, JoinedIsDrained
    <3> QED BY <1>1, <2>1, <3>1 DEF WriterInv, JoinedIsDrained
  <2>2. ASSUME NEW w \in Writers, Join(w)
        PROVE  JoinedIsDrained'
    <3>1. joined' = joined \cup {w} /\ main' = "joining" /\ UNCHANGED <<slow, stop>>
      BY <2>2
    <3>2. ASSUME ~slow, ~stop, FlushInterval < JoinTimeout
          PROVE  queue = << >> /\ buffer[w] = << >>
      <4>1. waited = JoinTimeout
        BY <2>2, <3>2 DEF WriterInv, JoinedIsDrained
      <4>2. age[w] <= FlushInterval /\ age[w] \in Nat
        BY <1>1 DEF WriterInv, TypeOK
      <4> QED BY <1>1, <3>2, <4>1, <4>2 DEF WriterInv, WaitIsIdle
    <3> QED BY <1>1, <3>1, <3>2 DEF WriterInv, JoinedIsDrained
  <2> QED BY <2>1, <2>2
<1> QED BY <1>1, <1>2, <1>3, <1>4, RecordsStay DEF WriterInv

\* Time makes the buffers older, and the join longer, by the same unit.
LEMMA TickInv ==
  ASSUME WriterInv, Tick
  PROVE  WriterInv'
<1> USE DEF Tick
<1>1. /\ UNCHANGED <<callbackVars, queue, buffer, attempt, store, outcomeVars>>
      /\ JoinTimeout \in Nat /\ FlushInterval \in Nat
      /\ waited \in Nat /\ age \in [Writers -> 0..FlushInterval]
  BY WriterAssumption DEF WriterAssumption, WriterInv, TypeOK
<1>2. TypeOK'
  <2>1. age' \in [Writers -> 0..FlushInterval]
    BY <1>1
  <2>2. waited' \in 0..JoinTimeout
    BY <1>1 DEF WriterInv, TypeOK
  <2> QED BY <1>1, <2>1, <2>2 DEF WriterInv, TypeOK, callbackVars, outcomeVars
<1>3. RoomInBuffer' /\ JoinedIsDrained'
  BY DEF WriterInv, RoomInBuffer, JoinedIsDrained
<1>4. WaitIsIdle'
  <2>1. main' \in {"starting", "streaming"} => joined' = {} /\ waited' = 0
    BY DEF WriterInv, WaitIsIdle
  <2>2. ASSUME ~slow, ~stop, waited' > 0, Writers # {}
        PROVE  queue = << >>
    <3>1. \A w \in Writers : Waiting(w)
      BY <2>2 DEF WriterInv, JoinedIsDrained
    <3> QED BY <2>2, <3>1 DEF Waiting
  <2>3. ASSUME ~slow, ~stop, waited' > 0, NEW w \in Writers, buffer[w] # << >>
        PROVE  age'[w] >= waited'
    <3>1. Waiting(w)
      BY <2>3 DEF WriterInv, JoinedIsDrained
    <3>2. age[w] < FlushInterval /\ age'[w] = age[w] + 1 /\ age[w] \in Nat
      BY <1>1, <2>3, <3>1 DEF Waiting
    <3>3. waited > 0 => age[w] >= waited
      BY <2>3 DEF WriterInv, WaitIsIdle
    <3> QED BY <1>1, <3>2, <3>3
  <2> QED BY <2>1, <2>2, <2>3 DEF WaitIsIdle
<1> QED BY <1>1, <1>2, <1>3, <1>4, RecordsStay DEF WriterInv

LEMMA ControlInv ==
  ASSUME WriterInv, NEW w \in Writers, Control(w)
  PROVE  WriterInv'
<1> USE DEF Control, LoopAgain, LoopEnds, GetTimesOut, Decide, Due, Goto, mainVars
<1>1. UNCHANGED <<callbackVars, queue, buffer, attempt, store, outcomeVars, mainVars>>
  OBVIOUS
<1>2. TypeOK'
  BY <1>1 DEF WriterInv, TypeOK, callbackVars, outcomeVars
<1>3. RoomInBuffer'
  <2>1. pc[w] # "write" /\ \A v \in Writers : v # w => pc'[v] = pc[v]
    BY <1>1 DEF WriterInv, TypeOK
  <2>2. pc'[w] \in {"head", "get"} => Len(buffer[w]) < BatchSize
    <3>1. Len(<< >>) < BatchSize
      BY EmptySeq, WriterAssumption DEF WriterAssumption
    <3>2. CASE Decide(w) /\ buffer[w] = << >>
      BY <1>1, <3>1, <3>2
    <3>3. CASE Decide(w) /\ buffer[w] # << >>
      <4>1. Len(buffer[w]) \in Nat /\ BatchSize \in Nat
        BY LenProperties, WriterAssumption DEF WriterAssumption, WriterInv, TypeOK
      <4>2. pc'[w] = IF Due(w) THEN "write" ELSE "head"
        BY <3>3 DEF WriterInv, TypeOK
      <4> QED BY <3>3, <4>1, <4>2
    <3>4. CASE ~Decide(w)
      BY <1>1, <3>4 DEF WriterInv, TypeOK, RoomInBuffer
    <3> QED BY <3>2, <3>3, <3>4
  <2> QED BY <1>1, <2>1, <2>2 DEF WriterInv, RoomInBuffer
<1>4. WaitIsIdle' /\ JoinedIsDrained'
  BY <1>1 DEF WriterInv, TypeOK, WaitIsIdle, JoinedIsDrained
<1> QED BY <1>1, <1>2, <1>3, <1>4, RecordsStay DEF WriterInv

-----------------------------------------------------------------------------
(***************************************************************************)
(* The callback                                                             *)
(***************************************************************************)

LEMMA AcceptInv ==
  ASSUME WriterInv, OnMessage, Accept(arrived')
  PROVE  WriterInv'
<1> DEFINE r == arrived + 1
<1> USE DEF OnMessage, mainVars, threadVars, outcomeVars
<1>1. /\ arrived' = r /\ r \in Records /\ arrived \in Nat
      /\ main = "streaming"
  BY WriterAssumption DEF WriterInv, TypeOK, Records, WriterAssumption
<1>2. /\ accepted' = accepted \cup {r} /\ queue' = Append(queue, r)
      /\ SampleOf[r] # NoWindow =>
           /\ SampleOf[r] > lastWindow[Symbol[r]]
           /\ lastWindow' = [lastWindow EXCEPT ![Symbol[r]] = SampleOf[r]]
      /\ SampleOf[r] = NoWindow => lastWindow' = lastWindow
  BY <1>1 DEF Accept, NewWindow
<1>3. r \notin accepted
  BY <1>1 DEF WriterInv, HeldIsUnsettled
<1>4. r \notin Items(queue) /\ \A w \in Writers : r \notin Items(buffer[w])
  BY <1>1, <1>3 DEF WriterInv, HeldIsUnsettled
<1>5. queue' \in Seq(Records) /\ Items(queue') = Items(queue) \cup {r} /\ Distinct(queue')
  BY <1>1, <1>2, <1>4, AppendItems DEF WriterInv, TypeOK, HeldOnce
<1>6. /\ SampleOf[r] \in Nat \cup {NoWindow} /\ Symbol[r] \in Symbols
      /\ lastWindow \in [Symbols -> Nat \cup {NoWindow}]
  BY <1>1, WriterAssumption DEF WriterInv, TypeOK, Symbols, WriterAssumption
<1>7. TypeOK'
  <2>1. lastWindow' \in [Symbols -> Nat \cup {NoWindow}]
    BY <1>2, <1>6
  <2>2. arrived' \in 0..MaxRecords
    BY <1>1 DEF Records
  <2> QED BY <1>1, <1>2, <1>5, <2>1, <2>2 DEF WriterInv, TypeOK
<1>8. RoomInBuffer' /\ WaitIsIdle' /\ JoinedIsDrained'
  BY <1>1 DEF WriterInv, RoomInBuffer, WaitIsIdle, JoinedIsDrained
<1>9. HeldOnce'
  BY <1>4, <1>5 DEF WriterInv, HeldOnce
<1>10. HeldIsUnsettled'
  <2>1. accepted' \subseteq 1..arrived'
    BY <1>1, <1>2 DEF WriterInv, HeldIsUnsettled
  <2> QED BY <1>1, <1>2, <1>3, <1>5, <2>1 DEF WriterInv, HeldIsUnsettled, Settled
<1>11. HandedByAttempts' /\ WrittenIsHanded'
  BY <1>1, <1>2, <1>3, <1>5 DEF WriterInv, HandedByAttempts, WrittenIsHanded
<1>12. WindowIsLatest'
  <2> SUFFICES ASSUME NEW t \in accepted', SampleOf[t] # NoWindow
               PROVE  SampleOf[t] <= lastWindow'[Symbol[t]]
    BY DEF WindowIsLatest
  <2>1. t \in Records /\ SampleOf[t] \in Nat /\ Symbol[t] \in Symbols
    BY <1>7, WriterAssumption DEF TypeOK, Symbols, WriterAssumption
  <2>2. CASE t = r
    BY <1>2, <1>6, <2>1, <2>2
  <2>3. CASE t # r
    <3>1. SampleOf[t] <= lastWindow[Symbol[t]]
      BY <1>2, <2>3 DEF WriterInv, WindowIsLatest
    <3> QED BY <1>2, <1>6, <2>1, <3>1 DEF NoWindow
  <2> QED BY <2>2, <2>3
<1>13. SampledOnce'
  <2> SUFFICES ASSUME NEW t \in accepted', NEW u \in accepted', t < u, Symbol[t] = Symbol[u],
                      SampleOf[t] # NoWindow, SampleOf[u] # NoWindow
               PROVE  SampleOf[t] < SampleOf[u]
    BY DEF SampledOnce
  <2>1. t # r /\ t \in accepted
    BY <1>1, <1>2, <1>3 DEF WriterInv, HeldIsUnsettled
  <2>2. CASE u # r
    BY <1>2, <2>1, <2>2 DEF WriterInv, SampledOnce
  <2>3. CASE u = r
    <3>1. SampleOf[t] <= lastWindow[Symbol[r]] /\ SampleOf[t] \in Nat
      BY <2>1, <2>3, WriterAssumption DEF WriterInv, TypeOK, WindowIsLatest, WriterAssumption
    <3> QED BY <1>2, <1>6, <2>3, <3>1 DEF NoWindow
  <2> QED BY <2>2, <2>3
<1> QED BY <1>7, <1>8, <1>9, <1>10, <1>11, <1>12, <1>13 DEF WriterInv

LEMMA SkipInv ==
  ASSUME WriterInv, OnMessage, Skip(arrived')
  PROVE  WriterInv'
<1> USE DEF OnMessage, Skip, mainVars, threadVars, outcomeVars
<1>1. arrived' = arrived + 1 /\ arrived' \in 0..MaxRecords
  BY WriterAssumption DEF WriterInv, TypeOK, WriterAssumption
<1>2. accepted' \subseteq 1..arrived'
  BY <1>1 DEF WriterInv, TypeOK, HeldIsUnsettled
<1>3. TypeOK' /\ HeldIsUnsettled'
  BY <1>1, <1>2 DEF WriterInv, TypeOK, HeldIsUnsettled, Settled
<1>4. /\ RoomInBuffer' /\ HeldOnce' /\ HandedByAttempts' /\ WrittenIsHanded'
      /\ WindowIsLatest' /\ SampledOnce' /\ WaitIsIdle' /\ JoinedIsDrained'
  BY DEF WriterInv, RoomInBuffer, HeldOnce, HandedByAttempts, WrittenIsHanded, WindowIsLatest,
         SampledOnce, WaitIsIdle, JoinedIsDrained
<1> QED BY <1>3, <1>4 DEF WriterInv

-----------------------------------------------------------------------------
(***************************************************************************)
(* A writer thread                                                          *)
(***************************************************************************)

LEMMA GetInv ==
  ASSUME WriterInv, NEW w \in Writers, Get(w)
  PROVE  WriterInv'
<1> DEFINE r == Head(queue)
<1> USE DEF Get, Goto, mainVars, callbackVars, outcomeVars
<1>1. /\ queue' \in Seq(Records) /\ Distinct(queue')
      /\ r \in Records /\ r \in Items(queue) /\ Items(queue') = Items(queue) \ {r}
  BY TailItems DEF WriterInv, TypeOK, HeldOnce
<1>2. r \notin Items(buffer[w]) /\ buffer[w] \in Seq(Records) /\ Len(buffer[w]) < BatchSize
  BY <1>1 DEF WriterInv, TypeOK, HeldOnce, RoomInBuffer
<1>3. /\ buffer'[w] = Append(buffer[w], r)
      /\ \A v \in Writers : v # w => buffer'[v] = buffer[v]
  BY DEF WriterInv, TypeOK
<1>4. /\ buffer'[w] \in Seq(Records) /\ Distinct(buffer'[w])
      /\ Len(buffer'[w]) <= BatchSize
      /\ Items(buffer'[w]) = Items(buffer[w]) \cup {r}
  BY <1>1, <1>2, <1>3, AppendItems, LenProperties, WriterAssumption
     DEF WriterInv, HeldOnce, WriterAssumption
<1>5. TypeOK'
  <2>1. buffer' \in [Writers -> Seq(Records)]
    BY <1>1, <1>2, AppendItems DEF WriterInv, TypeOK
  <2>2. \A v \in Writers : Len(buffer'[v]) <= BatchSize
    BY <1>3, <1>4 DEF WriterInv, TypeOK
  <2>3. pc' \in [Writers -> {"head", "get", "decide", "write", "done"}]
    BY DEF WriterInv, TypeOK
  <2> QED BY <1>1, <2>1, <2>2, <2>3 DEF WriterInv, TypeOK
<1>6. RoomInBuffer'
  BY <1>3 DEF WriterInv, TypeOK, RoomInBuffer
<1>7. HeldOnce'
  <2>1. \A v \in Writers : v # w => r \notin Items(buffer[v])
    BY <1>1 DEF WriterInv, HeldOnce
  <2>2. \A v \in Writers : Distinct(buffer'[v]) /\ Items(buffer'[v]) \cap Items(queue') = {}
    BY <1>1, <1>3, <1>4 DEF WriterInv, HeldOnce
  <2>3. ASSUME NEW u \in Writers, NEW v \in Writers, u # v
        PROVE  Items(buffer'[u]) \cap Items(buffer'[v]) = {}
    <3>1. Items(buffer[u]) \cap Items(buffer[v]) = {}
      BY <2>3 DEF WriterInv, HeldOnce
    <3> QED BY <1>3, <1>4, <2>1, <2>3, <3>1
  <2> QED BY <1>1, <2>2, <2>3 DEF HeldOnce
<1>8. HeldIsUnsettled'
  <2>1. \A t \in Records :
          (t \in Items(queue') \/ \E v \in Writers : t \in Items(buffer'[v]))
            <=> (t \in Items(queue) \/ \E v \in Writers : t \in Items(buffer[v]))
    BY <1>1, <1>3, <1>4
  <2> QED BY <2>1 DEF WriterInv, HeldIsUnsettled, Settled
<1>9. HandedByAttempts'
  <2>1. \A t \in Records : \A k \in StoreNames :
          t \notin accepted' \/ t \in Items(queue') => handed'[k][t] = 0
    BY <1>1 DEF WriterInv, HandedByAttempts
  <2>2. attempt[w] = 0 /\ store[w] = 1 /\ DOMAIN Stores \subseteq Nat \ {0}
    BY WriterAssumption, LenProperties DEF WriterInv, RoomInBuffer, WriterAssumption
  <2>3. \A k \in DOMAIN Stores : handed[Stores[k]][r] = 0
    BY <1>1 DEF WriterInv, HandedByAttempts, StoreNames
  <2>4. \A t \in Items(buffer'[w]) :
           /\ t \notin troubled => attempt[w] = 0
           /\ \A k \in DOMAIN Stores :
                /\ k < store[w] => handed[Stores[k]][t] \in 1..attempt[w] + 1
                /\ k >= store[w] => handed[Stores[k]][t] <= attempt[w]
    <3> SUFFICES ASSUME NEW t \in Items(buffer'[w])
                 PROVE  /\ t \notin troubled => attempt[w] = 0
                        /\ \A k \in DOMAIN Stores :
                             /\ k < store[w] => handed[Stores[k]][t] \in 1..attempt[w] + 1
                             /\ k >= store[w] => handed[Stores[k]][t] <= attempt[w]
      OBVIOUS
    <3>1. CASE t = r
      BY <2>2, <2>3, <3>1
    <3>2. CASE t \in Items(buffer[w])
      BY <3>2 DEF WriterInv, HandedByAttempts
    <3> QED BY <1>4, <3>1, <3>2
  <2> QED BY <1>3, <2>1, <2>4 DEF WriterInv, HandedByAttempts
<1>10. WrittenIsHanded' /\ WindowIsLatest' /\ SampledOnce'
  BY DEF WriterInv, WrittenIsHanded, WindowIsLatest, SampledOnce
<1>11. WaitIsIdle' /\ JoinedIsDrained'
  <2>1. ASSUME ~slow, ~stop
        PROVE  waited <= 0 /\ (FlushInterval < JoinTimeout => joined = {})
    BY <2>1 DEF WriterInv, TypeOK, WaitIsIdle, JoinedIsDrained
  <2>2. \A v \in Writers : pc'[v] = "done" => pc[v] = "done"
    BY DEF WriterInv, TypeOK
  <2>3. waited \in Nat
    BY WriterAssumption DEF WriterInv, TypeOK, WriterAssumption
  <2> QED BY <2>1, <2>2, <2>3 DEF WriterInv, WaitIsIdle, JoinedIsDrained
<1> QED BY <1>5, <1>6, <1>7, <1>8, <1>9, <1>10, <1>11 DEF WriterInv

-----------------------------------------------------------------------------
(***************************************************************************)
(* A batch and the storages                                                 *)
(***************************************************************************)

\* What a thread writes is in its buffer alone, and neither written nor failed.
LEMMA BufferIsOwn ==
  ASSUME WriterInv, NEW w \in Writers, NEW r \in Items(buffer[w])
  PROVE  /\ r \in Records /\ r \in accepted /\ r \notin written /\ r \notin failed
         /\ r \notin Items(queue)
         /\ \A v \in Writers : v # w => r \notin Items(buffer[v])
<1>1. r \in Records
  BY ItemsAreRecords DEF WriterInv, TypeOK
<1> QED BY <1>1 DEF WriterInv, HeldOnce, HeldIsUnsettled, Settled

LEMMA HandingIs ==
  ASSUME TypeOK, NEW k \in DOMAIN Stores, NEW records,
         NEW n \in StoreNames, NEW r \in Records
  PROVE  Handing(k, records)[n][r] =
           IF n = Stores[k] /\ r \in records THEN handed[n][r] + 1 ELSE handed[n][r]
BY DEF TypeOK, Handing, StoreNames

\* A storage gets a part of the buffer, which was not there more often than
\* attempts were made before.
LEMMA PartIsHanded ==
  ASSUME WriterInv, NEW w \in Writers, NEW part \in SUBSET Items(buffer[w]),
         handed' = Handing(store[w], part),
         UNCHANGED <<accepted, queue>>, troubled \subseteq troubled',
         \A v \in Writers : v # w => UNCHANGED <<buffer[v], attempt[v], store[v]>>
  PROVE  /\ handed' \in [StoreNames -> [Records -> 0..MaxRetries + 1]]
         /\ \A r \in Records : \A k \in StoreNames :
              /\ r \notin accepted \/ r \in Items(queue) => handed'[k][r] = 0
              /\ handed'[k][r] >= handed[k][r]
              /\ r \notin troubled' => handed'[k][r] <= 1
         /\ \A v \in Writers : v # w => \A r \in Items(buffer'[v]) :
              /\ r \notin troubled' => attempt'[v] = 0
              /\ \A k \in DOMAIN Stores :
                   /\ k < store'[v] => handed'[Stores[k]][r] \in 1..attempt'[v] + 1
                   /\ k >= store'[v] => handed'[Stores[k]][r] <= attempt'[v]
<1>1. /\ TypeOK /\ store[w] \in DOMAIN Stores /\ attempt[w] \in 0..MaxRetries
      /\ DOMAIN Stores \subseteq Nat
      /\ \A k \in DOMAIN Stores : Stores[k] \in StoreNames
      /\ MaxRetries \in Nat
  <2>1. DOMAIN Stores \subseteq Nat /\ MaxRetries \in Nat
    BY WriterAssumption, LenProperties DEF WriterAssumption
  <2>2. \A k \in DOMAIN Stores : Stores[k] \in StoreNames
    BY DEF StoreNames
  <2> QED BY <2>1, <2>2 DEF WriterInv, TypeOK
<1>2. \A r \in part : handed[Stores[store[w]]][r] <= attempt[w]
  BY <1>1 DEF WriterInv, HandedByAttempts
<1>3. \A r \in Records : \A n \in StoreNames :
        handed'[n][r] = IF n = Stores[store[w]] /\ r \in part
                        THEN handed[n][r] + 1 ELSE handed[n][r]
  BY <1>1, HandingIs
<1>4. \A r \in part : r \in Records /\ r \in accepted /\ r \notin Items(queue)
                      /\ \A v \in Writers : v # w => r \notin Items(buffer[v])
  BY BufferIsOwn
<1>5. handed' \in [StoreNames -> [Records -> 0..MaxRetries + 1]]
  <2>1. \A n \in StoreNames : \A r \in Records :
          (IF n = Stores[store[w]] /\ r \in part
           THEN handed[n][r] + 1 ELSE handed[n][r]) \in 0..MaxRetries + 1
    BY <1>1, <1>2 DEF TypeOK
  <2>2. handed' = [n \in StoreNames |-> [r \in Records |->
                     IF n = Stores[store[w]] /\ r \in part
                     THEN handed[n][r] + 1 ELSE handed[n][r]]]
    BY <1>1 DEF Handing, TypeOK
  <2> QED BY <2>1, <2>2
<1>6. ASSUME NEW r \in Records, NEW k \in StoreNames
      PROVE  /\ r \notin accepted \/ r \in Items(queue) => handed'[k][r] = 0
             /\ handed'[k][r] >= handed[k][r]
             /\ r \notin troubled' => handed'[k][r] <= 1
  <2>1. handed[k][r] \in Nat
    BY <1>1 DEF TypeOK
  <2>2. r \notin accepted \/ r \in Items(queue) => handed'[k][r] = 0
    BY <1>3, <1>4 DEF WriterInv, HandedByAttempts
  <2>3. ASSUME r \notin troubled' PROVE handed'[k][r] <= 1
    <3>1. CASE r \in part /\ k = Stores[store[w]]
      <4>1. attempt[w] = 0
        BY <2>3, <3>1 DEF WriterInv, HandedByAttempts
      <4> QED BY <1>2, <1>3, <2>1, <3>1, <4>1
    <3>2. CASE ~(r \in part /\ k = Stores[store[w]])
      BY <1>3, <2>3, <3>2 DEF WriterInv, WrittenIsHanded
    <3> QED BY <3>1, <3>2
  <2> QED BY <1>3, <2>1, <2>2, <2>3
<1>7. ASSUME NEW v \in Writers, v # w, NEW r \in Items(buffer'[v])
      PROVE  /\ r \notin troubled' => attempt'[v] = 0
             /\ \A k \in DOMAIN Stores :
                  /\ k < store'[v] => handed'[Stores[k]][r] \in 1..attempt'[v] + 1
                  /\ k >= store'[v] => handed'[Stores[k]][r] <= attempt'[v]
  <2>1. /\ r \in Items(buffer[v]) /\ r \notin part
        /\ attempt'[v] = attempt[v] /\ store'[v] = store[v]
    BY <1>4, <1>7
  <2>2. r \in Records
    BY <2>1, BufferIsOwn
  <2>3. \A k \in DOMAIN Stores : handed'[Stores[k]][r] = handed[Stores[k]][r]
    BY <1>1, <1>3, <2>1, <2>2
  <2> QED BY <2>1, <2>3 DEF WriterInv, HandedByAttempts
<1> QED BY <1>5, <1>6, <1>7

\* A buffer that is given up as a whole leaves every record in one place.
LEMMA EmptiedInv ==
  ASSUME WriterInv, NEW w \in Writers, pc[w] = "write", Emptied(w),
         Settled' = Settled \cup Items(buffer[w]),
         UNCHANGED <<mainVars, callbackVars, queue>>
  PROVE  /\ RoomInBuffer' /\ HeldOnce' /\ HeldIsUnsettled' /\ WaitIsIdle' /\ JoinedIsDrained'
         /\ buffer' \in [Writers -> Seq(Records)]
         /\ \A v \in Writers : Len(buffer'[v]) <= BatchSize
         /\ age' \in [Writers -> 0..FlushInterval]
         /\ attempt' \in [Writers -> 0..MaxRetries] /\ store' \in [Writers -> DOMAIN Stores]
         /\ pc' \in [Writers -> {"head", "get", "decide", "write", "done"}]
         /\ buffer'[w] = << >>
         /\ \A v \in Writers : v # w => UNCHANGED <<buffer[v], attempt[v], store[v]>>
<1> USE DEF Emptied, Goto, mainVars, callbackVars
<1>1. /\ buffer'[w] = << >> /\ Len(buffer'[w]) = 0
      /\ Items(buffer'[w]) = {} /\ Distinct(buffer'[w])
      /\ \A v \in Writers : v # w => UNCHANGED <<buffer[v], attempt[v], store[v], pc[v]>>
  BY EmptyItems, EmptySeq DEF WriterInv, TypeOK
<1>2. /\ 0 \in 0..MaxRetries /\ 0 \in 0..FlushInterval /\ 1 \in DOMAIN Stores /\ 0 < BatchSize /\ BatchSize \in Nat
  BY WriterAssumption, LenProperties, EmptySeq DEF WriterAssumption
<1>3. /\ buffer' \in [Writers -> Seq(Records)]
      /\ age' \in [Writers -> 0..FlushInterval]
      /\ attempt' \in [Writers -> 0..MaxRetries] /\ store' \in [Writers -> DOMAIN Stores]
      /\ pc' \in [Writers -> {"head", "get", "decide", "write", "done"}]
  BY <1>2, EmptyItems DEF WriterInv, TypeOK
<1>4. \A v \in Writers : Len(buffer'[v]) <= BatchSize
  BY <1>1, <1>2 DEF WriterInv, TypeOK
<1>5. RoomInBuffer'
  <2>1. pc'[w] = "head" /\ attempt'[w] = 0 /\ store'[w] = 1
    BY DEF WriterInv, TypeOK
  <2> QED BY <1>1, <1>2, <2>1 DEF WriterInv, RoomInBuffer
<1>6. HeldOnce'
  BY <1>1 DEF WriterInv, HeldOnce
<1>7. HeldIsUnsettled'
  <2>1. Settled' \subseteq accepted'
    BY BufferIsOwn DEF WriterInv, HeldIsUnsettled
  <2>2. ASSUME NEW r \in Records
        PROVE  r \in accepted' \ Settled' <=>
                 r \in Items(queue') \/ \E v \in Writers : r \in Items(buffer'[v])
    <3>1. CASE r \in Items(buffer[w])
      BY <1>1, <3>1, BufferIsOwn
    <3>2. CASE r \notin Items(buffer[w])
      BY <1>1, <3>2 DEF WriterInv, HeldIsUnsettled
    <3> QED BY <3>1, <3>2
  <2> QED BY <2>1, <2>2 DEF WriterInv, HeldIsUnsettled
<1>8. WaitIsIdle' /\ JoinedIsDrained'
  BY <1>1 DEF WriterInv, TypeOK, WaitIsIdle, JoinedIsDrained
<1> QED BY <1>1, <1>3, <1>4, <1>5, <1>6, <1>7, <1>8

LEMMA WriteReturnsInv ==
  ASSUME WriterInv, NEW w \in Writers, WriteReturns(w)
  PROVE  WriterInv'
<1> DEFINE b == Items(buffer[w])
<1>1. /\ pc[w] = "write" /\ handed' = Handing(store[w], b)
      /\ UNCHANGED <<mainVars, callbackVars, accepted, queue, failed, troubled>>
      /\ \A v \in Writers : v # w => UNCHANGED <<buffer[v], attempt[v], store[v]>>
  BY DEF WriteReturns, Emptied, WriterInv, TypeOK, callbackVars
<1>2. /\ handed' \in [StoreNames -> [Records -> 0..MaxRetries + 1]]
      /\ \A r \in Records : \A k \in StoreNames :
           /\ r \notin accepted \/ r \in Items(queue) => handed'[k][r] = 0
           /\ handed'[k][r] >= handed[k][r]
           /\ r \notin troubled' => handed'[k][r] <= 1
      /\ \A v \in Writers : v # w => \A r \in Items(buffer'[v]) :
           /\ r \notin troubled' => attempt'[v] = 0
           /\ \A k \in DOMAIN Stores :
                /\ k < store'[v] => handed'[Stores[k]][r] \in 1..attempt'[v] + 1
                /\ k >= store'[v] => handed'[Stores[k]][r] <= attempt'[v]
  BY <1>1, PartIsHanded
<1>3. /\ store[w] \in 1..Len(Stores) /\ DOMAIN Stores = 1..Len(Stores) /\ Len(Stores) \in Nat
      /\ attempt[w] \in Nat
  BY WriterAssumption, LenProperties DEF WriterInv, TypeOK, WriterAssumption
\* The batch is in every storage up to this one.
<1>4. ASSUME NEW r \in b, NEW k \in DOMAIN Stores
      PROVE  /\ k <= store[w] => handed'[Stores[k]][r] \in 1..attempt[w] + 1
             /\ k > store[w] => handed'[Stores[k]][r] <= attempt[w]
  <2>1. r \in Records /\ Stores[k] \in StoreNames
    BY BufferIsOwn DEF StoreNames
  <2>2. handed'[Stores[k]][r] =
          IF Stores[k] = Stores[store[w]] THEN handed[Stores[k]][r] + 1 ELSE handed[Stores[k]][r]
    BY <1>1, <1>3, <2>1, HandingIs DEF WriterInv
  <2>3. Stores[k] = Stores[store[w]] <=> k = store[w]
    BY <1>3, WriterAssumption DEF WriterAssumption
  <2>4. /\ k < store[w] => handed[Stores[k]][r] \in 1..attempt[w] + 1
        /\ k >= store[w] => handed[Stores[k]][r] <= attempt[w]
        /\ handed[Stores[k]][r] \in Nat
    BY <2>1 DEF WriterInv, TypeOK, HandedByAttempts
  <2> QED BY <1>3, <2>2, <2>3, <2>4
<1>5. WindowIsLatest' /\ SampledOnce'
  BY <1>1 DEF callbackVars, WriterInv, WindowIsLatest, SampledOnce
\* Of what was written before nothing is taken back.
<1>6. ASSUME NEW r \in written, NEW k \in StoreNames PROVE handed'[k][r] > 0
  <2>1. r \in Records /\ handed[k][r] > 0 /\ handed[k][r] \in Nat
    BY DEF WriterInv, TypeOK, WrittenIsHanded
  <2> QED BY <1>2, <2>1
<1>7. CASE store[w] < Len(Stores)
  <2>1. /\ store' = [store EXCEPT ![w] = store[w] + 1]
        /\ UNCHANGED <<pc, buffer, age, attempt, written>>
    BY <1>3, <1>7 DEF WriteReturns
  <2>2. TypeOK'
    BY <1>1, <1>2, <1>3, <1>7, <2>1 DEF WriterInv, TypeOK, mainVars, callbackVars
  <2>3. RoomInBuffer' /\ HeldOnce' /\ HeldIsUnsettled' /\ WaitIsIdle' /\ JoinedIsDrained'
    BY <1>1, <2>1 DEF WriterInv, TypeOK, RoomInBuffer, HeldOnce, HeldIsUnsettled, WaitIsIdle,
                      JoinedIsDrained, Settled, mainVars, callbackVars
  <2>4. HandedByAttempts'
    <3>1. store'[w] = store[w] + 1 /\ attempt'[w] = attempt[w] /\ Items(buffer'[w]) = b
      BY <2>1 DEF WriterInv, TypeOK
    <3>2. \A r \in Items(buffer'[w]) :
            /\ r \notin troubled' => attempt'[w] = 0
            /\ \A k \in DOMAIN Stores :
                 /\ k < store'[w] => handed'[Stores[k]][r] \in 1..attempt'[w] + 1
                 /\ k >= store'[w] => handed'[Stores[k]][r] <= attempt'[w]
      BY <1>1, <1>3, <1>4, <3>1 DEF WriterInv, HandedByAttempts
    <3> QED BY <1>1, <1>2, <3>2 DEF HandedByAttempts
  <2>5. WrittenIsHanded'
    BY <1>2, <1>6, <2>1 DEF WrittenIsHanded
  <2> QED BY <1>5, <2>2, <2>3, <2>4, <2>5 DEF WriterInv
<1>8. CASE store[w] = Len(Stores)
  <2>1. written' = written \cup b /\ Emptied(w)
    BY <1>3, <1>8 DEF WriteReturns
  <2>2. Settled' = Settled \cup b
    BY <1>1, <2>1 DEF Settled
  <2>3. b \subseteq Records
    BY BufferIsOwn
  <2>4. /\ RoomInBuffer' /\ HeldOnce' /\ HeldIsUnsettled' /\ WaitIsIdle' /\ JoinedIsDrained'
        /\ buffer' \in [Writers -> Seq(Records)]
        /\ \A v \in Writers : Len(buffer'[v]) <= BatchSize
        /\ age' \in [Writers -> 0..FlushInterval]
        /\ attempt' \in [Writers -> 0..MaxRetries] /\ store' \in [Writers -> DOMAIN Stores]
        /\ pc' \in [Writers -> {"head", "get", "decide", "write", "done"}]
        /\ Items(buffer'[w]) = {}
    BY <1>1, <2>1, <2>2, EmptiedInv, EmptyItems
  <2>5. TypeOK'
    BY <1>1, <1>2, <2>1, <2>3, <2>4 DEF WriterInv, TypeOK, mainVars, callbackVars
  <2>6. HandedByAttempts'
    BY <1>1, <1>2, <2>4 DEF HandedByAttempts
  <2>7. WrittenIsHanded'
    <3>1. ASSUME NEW r \in b, NEW n \in StoreNames PROVE handed'[n][r] > 0
      <4>1. PICK k \in DOMAIN Stores : n = Stores[k]
        BY DEF StoreNames
      <4>2. handed'[Stores[k]][r] \in 1..attempt[w] + 1
        BY <1>3, <1>4, <1>8
      <4> QED BY <1>3, <4>1, <4>2
    <3> QED BY <1>2, <1>6, <2>1, <3>1 DEF WrittenIsHanded
  <2> QED BY <1>5, <2>4, <2>5, <2>6, <2>7 DEF WriterInv
<1> QED BY <1>3, <1>7, <1>8

LEMMA WriteRaisesInv ==
  ASSUME WriterInv, NEW w \in Writers, WriteRaises(w)
  PROVE  WriterInv'
<1> DEFINE b == Items(buffer[w])
<1>1. PICK n \in 0..Len(buffer[w]) : handed' = Handing(store[w], Items(SubSeq(buffer[w], 1, n)))
  BY DEF WriteRaises
<1> DEFINE part == Items(SubSeq(buffer[w], 1, n))
<1>2. part \subseteq b /\ b \subseteq Records
  BY PrefixItems, ItemsAreRecords DEF WriterInv, TypeOK
<1>3. /\ pc[w] = "write" /\ handed' = Handing(store[w], part)
      /\ troubled' = troubled \cup b
      /\ UNCHANGED <<mainVars, callbackVars, accepted, queue, written>>
      /\ \A v \in Writers : v # w => UNCHANGED <<buffer[v], attempt[v], store[v]>>
  BY <1>1 DEF WriteRaises, Emptied, WriterInv, TypeOK, callbackVars
<1>4. /\ handed' \in [StoreNames -> [Records -> 0..MaxRetries + 1]]
      /\ \A r \in Records : \A k \in StoreNames :
           /\ r \notin accepted \/ r \in Items(queue) => handed'[k][r] = 0
           /\ handed'[k][r] >= handed[k][r]
           /\ r \notin troubled' => handed'[k][r] <= 1
      /\ \A v \in Writers : v # w => \A r \in Items(buffer'[v]) :
           /\ r \notin troubled' => attempt'[v] = 0
           /\ \A k \in DOMAIN Stores :
                /\ k < store'[v] => handed'[Stores[k]][r] \in 1..attempt'[v] + 1
                /\ k >= store'[v] => handed'[Stores[k]][r] <= attempt'[v]
  BY <1>2, <1>3, PartIsHanded
<1>5. WindowIsLatest' /\ SampledOnce'
  BY <1>3 DEF callbackVars, WriterInv, WindowIsLatest, SampledOnce
<1>6. WrittenIsHanded'
  <2>1. ASSUME NEW r \in written, NEW k \in StoreNames PROVE handed'[k][r] > 0
    <3>1. r \in Records /\ handed[k][r] > 0 /\ handed[k][r] \in Nat
      BY DEF WriterInv, TypeOK, WrittenIsHanded
    <3> QED BY <1>4, <3>1
  <2> QED BY <1>3, <1>4, <2>1 DEF WrittenIsHanded
<1>7. /\ store[w] \in DOMAIN Stores /\ 1 \in DOMAIN Stores /\ DOMAIN Stores \subseteq Nat \ {0}
      /\ attempt[w] \in 0..MaxRetries /\ MaxRetries \in Nat
  <2>1. DOMAIN Stores = 1..Len(Stores) /\ Len(Stores) \in Nat \ {0} /\ MaxRetries \in Nat
    BY WriterAssumption, LenProperties, EmptySeq DEF WriterAssumption
  <2> QED BY <2>1 DEF WriterInv, TypeOK
<1>8. CASE attempt[w] < MaxRetries
  <2>1. /\ attempt' = [attempt EXCEPT ![w] = attempt[w] + 1]
        /\ store' = [store EXCEPT ![w] = 1]
        /\ UNCHANGED <<pc, buffer, age, failed>>
    BY <1>7, <1>8 DEF WriteRaises
  <2>2. TypeOK'
    BY <1>2, <1>3, <1>4, <1>7, <1>8, <2>1 DEF WriterInv, TypeOK, mainVars, callbackVars
  <2>3. RoomInBuffer' /\ HeldOnce' /\ HeldIsUnsettled' /\ WaitIsIdle' /\ JoinedIsDrained'
    BY <1>3, <2>1 DEF WriterInv, TypeOK, RoomInBuffer, HeldOnce, HeldIsUnsettled, WaitIsIdle,
                      JoinedIsDrained, Settled, mainVars, callbackVars
  <2>4. HandedByAttempts'
    <3>1. store'[w] = 1 /\ attempt'[w] = attempt[w] + 1 /\ Items(buffer'[w]) = b
      BY <2>1 DEF WriterInv, TypeOK
    <3>2. ASSUME NEW r \in b, NEW k \in DOMAIN Stores
          PROVE  handed'[Stores[k]][r] <= attempt[w] + 1
      <4>1. r \in Records /\ Stores[k] \in StoreNames
        BY <1>2 DEF StoreNames
      <4>2. handed'[Stores[k]][r] =
              IF Stores[k] = Stores[store[w]] /\ r \in part
              THEN handed[Stores[k]][r] + 1 ELSE handed[Stores[k]][r]
        BY <1>3, <1>7, <4>1, HandingIs DEF WriterInv
      <4>3. Stores[k] = Stores[store[w]] <=> k = store[w]
        BY <1>7, WriterAssumption DEF WriterAssumption
      <4>4. /\ k < store[w] => handed[Stores[k]][r] \in 1..attempt[w] + 1
            /\ k >= store[w] => handed[Stores[k]][r] <= attempt[w]
            /\ handed[Stores[k]][r] \in Nat
        BY <4>1 DEF WriterInv, TypeOK, HandedByAttempts
      <4> QED BY <1>7, <4>2, <4>3, <4>4
    <3>3. \A r \in Items(buffer'[w]) :
            /\ r \notin troubled' => attempt'[w] = 0
            /\ \A k \in DOMAIN Stores :
                 /\ k < store'[w] => handed'[Stores[k]][r] \in 1..attempt'[w] + 1
                 /\ k >= store'[w] => handed'[Stores[k]][r] <= attempt'[w]
      BY <1>3, <1>7, <3>1, <3>2
    <3> QED BY <1>3, <1>4, <3>3 DEF HandedByAttempts
  <2> QED BY <1>5, <1>6, <2>2, <2>3, <2>4 DEF WriterInv
<1>9. CASE attempt[w] = MaxRetries
  <2>1. failed' = failed \cup b /\ Emptied(w)
    BY <1>7, <1>9 DEF WriteRaises
  <2>2. Settled' = Settled \cup b
    BY <1>3, <2>1 DEF Settled
  <2>3. /\ RoomInBuffer' /\ HeldOnce' /\ HeldIsUnsettled' /\ WaitIsIdle' /\ JoinedIsDrained'
        /\ buffer' \in [Writers -> Seq(Records)]
        /\ \A v \in Writers : Len(buffer'[v]) <= BatchSize
        /\ age' \in [Writers -> 0..FlushInterval]
        /\ attempt' \in [Writers -> 0..MaxRetries] /\ store' \in [Writers -> DOMAIN Stores]
        /\ pc' \in [Writers -> {"head", "get", "decide", "write", "done"}]
        /\ Items(buffer'[w]) = {}
    BY <1>3, <2>1, <2>2, EmptiedInv, EmptyItems
  <2>4. TypeOK'
    BY <1>2, <1>3, <1>4, <2>1, <2>3 DEF WriterInv, TypeOK, mainVars, callbackVars
  <2>5. HandedByAttempts'
    BY <1>3, <1>4, <2>3 DEF HandedByAttempts
  <2> QED BY <1>5, <1>6, <2>3, <2>4, <2>5 DEF WriterInv
<1> QED BY <1>7, <1>8, <1>9

-----------------------------------------------------------------------------
LEMMA WriterStepInv == WriterInv /\ [Next]_vars => WriterInv'
<1> SUFFICES ASSUME WriterInv, [Next]_vars PROVE WriterInv'
  OBVIOUS
<1>1. CASE SignalEarly \/ StreamRuns \/ StreamEnds \/ Finish \/ UNCHANGED vars
  BY <1>1, MainInv
<1>2. CASE OnMessage
  BY <1>2, AcceptInv, SkipInv DEF OnMessage
<1>3. ASSUME NEW w \in Writers, Thread(w) PROVE WriterInv'
  BY <1>3, ControlInv, GetInv, WriteReturnsInv, WriteRaisesInv DEF Thread, Loop, Flush, Control
<1> QED BY <1>1, <1>2, <1>3, TickInv DEF Next

LEMMA WriterInvAlways == Spec => []WriterInv
BY WriterInitInv, WriterStepInv, PTL DEF Spec

-----------------------------------------------------------------------------
(***************************************************************************)
(* Theorems                                                                 *)
(***************************************************************************)

\* Every variable has its type; a buffer never outgrows batch_size, and no
\* storage gets a record more often than max_retries allows.
THEOREM WriterTypeCorrect == Spec => []TypeOK
<1>1. WriterInv => TypeOK
  BY DEF WriterInv
<1> QED BY <1>1, WriterInvAlways, PTL

\* An accepted record is queued, in one buffer, written or counted as failed,
\* and never in two of these places.
THEOREM ConservedAlways == Spec => []Conserved
<1>1. ASSUME WriterInv PROVE Conserved
  <2> SUFFICES ASSUME NEW r \in Records
               PROVE  Cardinality(Held(r)) = IF r \in accepted \ Settled THEN 1 ELSE 0
    BY DEF Conserved
  <2>1. r \in accepted \ Settled <=>
          r \in Items(queue) \/ \E w \in Writers : r \in Items(buffer[w])
    BY <1>1 DEF WriterInv, HeldIsUnsettled
  <2>2. CASE r \notin accepted \ Settled
    <3>1. Held(r) = {}
      BY <2>1, <2>2 DEF Held, Items
    <3> QED BY <2>2, <3>1, FS_EmptySet
  <2>3. CASE r \in Items(queue)
    <3>1. PICK i \in DOMAIN queue : queue[i] = r
      BY <2>3 DEF Items
    <3>2. \A j \in DOMAIN queue : queue[j] = r => j = i
      BY <1>1, <3>1 DEF WriterInv, HeldOnce, Distinct
    <3>3. \A w \in Writers : \A j \in DOMAIN buffer[w] : buffer[w][j] # r
      BY <1>1, <2>3 DEF WriterInv, HeldOnce, Items
    <3>4. Held(r) = {<<"queue", i>>}
      BY <3>1, <3>2, <3>3 DEF Held
    <3> QED BY <2>1, <2>3, <3>4, FS_Singleton
  <2>4. ASSUME NEW w \in Writers, r \in Items(buffer[w])
        PROVE  Cardinality(Held(r)) = 1
    <3>1. PICK i \in DOMAIN buffer[w] : buffer[w][i] = r
      BY <2>4 DEF Items
    <3>2. \A j \in DOMAIN buffer[w] : buffer[w][j] = r => j = i
      BY <1>1, <3>1 DEF WriterInv, HeldOnce, Distinct
    <3>3. \A j \in DOMAIN queue : queue[j] # r
      BY <1>1, <2>4, BufferIsOwn DEF Items
    <3>4. \A v \in Writers : v # w => \A j \in DOMAIN buffer[v] : buffer[v][j] # r
      BY <1>1, <2>4, BufferIsOwn DEF Items
    <3>5. Held(r) = {<<w, i>>}
      BY <3>1, <3>2, <3>3, <3>4 DEF Held
    <3> QED BY <3>5, FS_Singleton
  <2> QED BY <2>1, <2>2, <2>3, <2>4
<1>2. WriterInv => Conserved
  BY <1>1
<1> QED BY <1>2, WriterInvAlways, PTL

\* A sampling window yields one record of a symbol, in the order of windows.
THEOREM SampledOnceAlways == Spec => []SampledOnce
<1>1. WriterInv => SampledOnce
  BY DEF WriterInv
<1> QED BY <1>1, WriterInvAlways, PTL

\* A batch counted as written was handed to every storage; no record is handed
\* to one twice unless a write with it raised.
THEOREM WrittenIsHandedAlways == Spec => []WrittenIsHanded
<1>1. WriterInv => WrittenIsHanded
  BY DEF WriterInv
<1> QED BY <1>1, WriterInvAlways, PTL

\* A stream that ended before any stop, with storages that keep up, leaves no
\* accepted record behind, whatever its interval and its timeout are, if only the
\* interval is the shorter one - unless it was started with --writer-threads 0.
THEOREM DrainedAtEndAlways == Writers # {} => (Spec => []DrainedAtEnd)
<1> SUFFICES ASSUME Writers # {} PROVE Spec => []DrainedAtEnd
  OBVIOUS
<1>1. ASSUME WriterInv, main = "ended", ~slow, ~stop, FlushInterval < JoinTimeout
      PROVE  accepted \subseteq Settled
  <2>1. queue = << >> /\ \A w \in Writers : buffer[w] = << >>
    BY <1>1 DEF WriterInv, JoinedIsDrained
  <2> QED BY <1>1, <2>1, EmptyItems DEF WriterInv, TypeOK, HeldIsUnsettled
<1>2. WriterInv => DrainedAtEnd
  BY <1>1 DEF DrainedAtEnd
<1> QED BY <1>2, WriterInvAlways, PTL

=============================================================================
