------------------------- MODULE KlineHistoryProofs -------------------------
(***************************************************************************)
(* The history downloads: what a command fetches and what the table keeps,  *)
(* for any page size, range and number of candles and commands.             *)
(***************************************************************************)
EXTENDS CommandLine, SequenceTheorems, TLAPS

-----------------------------------------------------------------------------
(***************************************************************************)
(* The inductive invariant                                                  *)
(***************************************************************************)

Newly(s) == s[Len(s)]   \* the last element

\* A row that is final is the row of a closed candle, a closing event is
\* final, and a closed_only stream, or none, leaves no other event.
TableTrue ==
  \A c \in Candles :
    /\ table[c].value = "final" => c < now
    /\ table[c].rank = Close => table[c].value = "final"
    /\ closedOnly \/ historyKind = "off" => table[c].rank # Progress

\* The page at hand: a row of a candle that was open when it was read finds
\* final values in the table only from the closing event, which is newer.
BatchTrue ==
  \A i \in DOMAIN batch :
    /\ batch[i].rank = Fetched
    /\ batch[i].value = "final" => batch[i].candle < now
    /\ batch[i].candle < goal => batch[i].value = "final"
    /\ batch[i].value = "partial" /\ table[batch[i].candle].value = "final" =>
         table[batch[i].candle].rank = Close
    /\ \A j \in DOMAIN batch :
         batch[j].candle = batch[i].candle => batch[j].value = batch[i].value

\* The candle the command must reach.
Reached == fetched # << >> /\ Newly(fetched) >= Last(goal - 1)

\* Where the command stands in its range.
CursorFollows ==
  /\ goal <= now
  /\ historyKind = "off" => fetchAt = "idle" /\ fetched = << >>
  /\ \A i \in DOMAIN fetched : fetched[i] = fetched[1] + i - 1
  /\ startTime # Omitted /\ fetched # << >> => fetched[1] = startTime
  /\ fetchAt = "page" =>
       cursor = IF fetched = << >> THEN startTime ELSE Newly(fetched) + 1
  /\ IF fetchAt \in {"write", "next"}
     THEN /\ batch # << >> /\ fetched # << >>
          /\ Newly(batch).candle = Newly(fetched)
          /\ Len(batch) < PageSize => Newly(fetched) >= Last(goal - 1)
     ELSE batch = << >>
  /\ fetchAt = "idle" /\ lossless /\ fetches > 0 /\ startTime # Omitted =>
       startTime > Last(goal - 1) \/ Reached

\* What was fetched of closed candles is in the table, but for the page at hand.
Stored ==
  closedOnly /\ lossless =>
    \A i \in DOMAIN fetched : fetched[i] < goal =>
      \/ table[fetched[i]].value = "final"
      \/ fetchAt = "write" /\ \E j \in DOMAIN batch : batch[j].candle = fetched[i]

HistoryInv == HistoryTypeOK /\ TableTrue /\ BatchTrue /\ CursorFollows /\ Stored

-----------------------------------------------------------------------------
LEMMA HistoryInitInv == Init => HistoryInv
<1> SUFFICES ASSUME HistoryInit PROVE HistoryInv
  BY DEF Init
<1> USE DEF HistoryInit
<1>1. HistoryTypeOK
  <2>1. << >> \in Seq(Item) /\ << >> \in Seq(Candles) /\ Len(<< >>) = 0
    BY EmptySeq
  <2>2. table \in [Candles -> Row]
    BY DEF Row, NoRow, Close
  <2>3. now \in Candles /\ goal \in Candles /\ cursor \in 0..LastCandle + 1
        /\ Len(<< >>) <= PageSize /\ fetches \in 0..MaxFetches
    BY <2>1, HistoryAssumption DEF HistoryAssumption, Candles, Omitted
  <2> QED BY <2>1, <2>2, <2>3 DEF HistoryTypeOK
<1>2. TableTrue
  BY DEF TableTrue, NoRow, Close, Progress
<1>3. BatchTrue /\ CursorFollows /\ Stored
  BY DEF BatchTrue, CursorFollows, Stored, Omitted
<1> QED BY <1>1, <1>2, <1>3 DEF HistoryInv

LEMMA HistoryStutters == HistoryInv /\ UNCHANGED historyVars => HistoryInv'
BY DEF HistoryInv, historyVars, fetchVars, marketVars, HistoryTypeOK, TableTrue, BatchTrue,
       CursorFollows, Reached, Newly, Stored, Last

-----------------------------------------------------------------------------
(***************************************************************************)
(* The exchange, the kline stream and the table                             *)
(***************************************************************************)

LEMMA Merged ==
  ASSUME NEW row \in Row, NEW item \in [rank : Fetched..Close, value : {"partial", "final"}]
  PROVE  /\ Merge(row, item) \in Row
         /\ item.rank >= row.rank =>
              Merge(row, item).rank = item.rank /\ Merge(row, item).value = item.value
         /\ ~(item.rank >= row.rank) => Merge(row, item) = row
BY DEF Merge, Row, Fetched, Close, NoRow

LEMMA Elements ==
  ASSUME HistoryTypeOK
  PROVE  /\ Len(batch) \in Nat /\ DOMAIN batch = 1..Len(batch)
         /\ \A i \in DOMAIN batch : batch[i] \in Item /\ batch[i].candle \in Candles
         /\ Len(fetched) \in Nat /\ DOMAIN fetched = 1..Len(fetched)
         /\ \A i \in DOMAIN fetched : fetched[i] \in Candles
<1>1. batch \in Seq(Item) /\ fetched \in Seq(Candles)
  BY DEF HistoryTypeOK
<1>2. /\ Len(batch) \in Nat /\ DOMAIN batch = 1..Len(batch)
      /\ Len(fetched) \in Nat /\ DOMAIN fetched = 1..Len(fetched)
  BY <1>1, LenProperties
<1>3. \A i \in DOMAIN batch : batch[i] \in Item
  BY <1>1, <1>2, ElementOfSeq
<1>4. \A i \in DOMAIN fetched : fetched[i] \in Candles
  BY <1>1, <1>2, ElementOfSeq
<1> QED BY <1>2, <1>3, <1>4 DEF Item

\* The page at hand stays true when a row of the table becomes a closing event
\* or the row of an open candle.
LEMMA BatchKept ==
  ASSUME HistoryTypeOK, BatchTrue, batch' = batch, goal' = goal, now' \in Nat, now' >= now,
         \A c \in Candles : \/ table'[c] = table[c] \/ table'[c].value # "final"
                             \/ table'[c].rank = Close
  PROVE  BatchTrue'
<1> SUFFICES ASSUME NEW i \in DOMAIN batch
    PROVE /\ batch[i].rank = Fetched
          /\ batch[i].value = "final" => batch[i].candle < now'
          /\ batch[i].candle < goal => batch[i].value = "final"
          /\ batch[i].value = "partial" /\ table'[batch[i].candle].value = "final" =>
               table'[batch[i].candle].rank = Close
          /\ \A j \in DOMAIN batch :
               batch[j].candle = batch[i].candle => batch[j].value = batch[i].value
  BY DEF BatchTrue
<1>1. batch[i].candle \in Candles
  BY Elements
<1>2. batch[i].value = "final" => batch[i].candle < now'
  <2>1. now \in Nat /\ batch[i].candle \in Nat
    BY <1>1 DEF HistoryTypeOK, Candles
  <2> QED BY <2>1 DEF BatchTrue
<1>3. ASSUME batch[i].value = "partial", table'[batch[i].candle].value = "final"
      PROVE  table'[batch[i].candle].rank = Close
  <2> DEFINE c == batch[i].candle
  <2>1. CASE table'[c] = table[c]
    <3>1. table[c].value = "final" => table[c].rank = Close
      BY <1>3 DEF BatchTrue
    <3>2. table[c].value = "final"
      BY <1>3, <2>1
    <3> QED BY <2>1, <3>1, <3>2
  <2> HIDE DEF c
  <2> QED BY <1>1, <1>3, <2>1 DEF c
<1>4. /\ batch[i].rank = Fetched
      /\ batch[i].candle < goal => batch[i].value = "final"
      /\ \A j \in DOMAIN batch :
           batch[j].candle = batch[i].candle => batch[j].value = batch[i].value
  BY DEF BatchTrue
<1> QED BY <1>2, <1>3, <1>4

LEMMA CandleClosesInv ==
  ASSUME HistoryInv, CandleCloses
  PROVE  HistoryInv'
<1>0. HistoryTypeOK /\ now' = now + 1 /\ now \in Candles /\ now' \in Candles
      /\ table \in [Candles -> Row] /\ UNCHANGED <<closedOnly, fetchVars>>
  BY HistoryAssumption DEF HistoryInv, CandleCloses, HistoryTypeOK, Candles, HistoryAssumption
<1>1. /\ table' \in [Candles -> Row]
      /\ \A c \in Candles : \/ table'[c] = table[c]
                            \/ c = now /\ table'[c].rank = Close /\ table'[c].value = "final"
  <2>1. CASE UNCHANGED table
    BY <1>0, <2>1
  <2>2. CASE table' = [table EXCEPT ![now] = Merge(@, [rank |-> Close, value |-> "final"])]
    <3>1. Close \in Fetched..Close /\ Close >= table[now].rank
      BY <1>0 DEF Row, Close, Fetched, NoRow
    <3>2. table'[now].rank = Close /\ table'[now].value = "final" /\ table'[now] \in Row
      BY <1>0, <2>2, <3>1, Merged
    <3> QED BY <1>0, <2>2, <3>2
  <2> QED BY <2>1, <2>2 DEF CandleCloses
<1>2. HistoryTypeOK'
  BY <1>0, <1>1 DEF HistoryTypeOK, fetchVars
<1>3. TableTrue'
  <2>1. historyKind # "off" /\ historyKind' = historyKind /\ closedOnly' = closedOnly
    BY <1>0 DEF CandleCloses, fetchVars
  <2>2. \A c \in Candles : c \in Nat
    BY DEF Candles
  <2> QED BY <1>0, <1>1, <2>1, <2>2 DEF HistoryInv, TableTrue, Close, Progress
<1>4. BatchTrue'
  <2>1. \A c \in Candles : table'[c] = table[c] \/ table'[c].rank = Close
    BY <1>1
  <2>2. batch' = batch /\ goal' = goal /\ now' \in Nat /\ now' >= now
    BY <1>0 DEF fetchVars, Candles
  <2> QED BY <1>0, <2>1, <2>2, BatchKept DEF HistoryInv
<1>5. CursorFollows'
  BY <1>0 DEF HistoryInv, CursorFollows, HistoryTypeOK, Reached, Newly, fetchVars, Candles, Last
<1>6. Stored'
  <2>1. \A i \in DOMAIN fetched : fetched[i] \in Candles
    BY <1>0, LenProperties, ElementOfSeq DEF HistoryTypeOK
  <2> QED BY <1>0, <1>1, <2>1 DEF HistoryInv, Stored, fetchVars
<1> QED BY <1>2, <1>3, <1>4, <1>5, <1>6 DEF HistoryInv

\* An update of the open candle: its row was not final.
LEMMA CandleUpdateInv ==
  ASSUME HistoryInv, CandleUpdate
  PROVE  HistoryInv'
<1>0. HistoryTypeOK /\ now \in Candles /\ ~closedOnly /\ table \in [Candles -> Row]
      /\ UNCHANGED <<now, closedOnly, fetchVars>>
  BY DEF HistoryInv, CandleUpdate, HistoryTypeOK
<1>1. /\ table' \in [Candles -> Row]
      /\ \A c \in Candles : \/ table'[c] = table[c]
                            \/ table'[c].rank = Progress /\ table'[c].value = "partial"
  <2>1. Progress \in Fetched..Close
    BY DEF Progress, Fetched, Close
  <2>2. \/ table'[now] = table[now]
        \/ table'[now].rank = Progress /\ table'[now].value = "partial"
    BY <1>0, <2>1, Merged DEF CandleUpdate
  <2>3. table'[now] \in Row
    BY <1>0, <2>1, Merged DEF CandleUpdate
  <2> QED BY <1>0, <2>2, <2>3 DEF CandleUpdate
<1>2. HistoryTypeOK'
  BY <1>0, <1>1 DEF HistoryTypeOK, fetchVars
<1>3. TableTrue'
  <2>1. historyKind # "off" /\ historyKind' = historyKind
    BY <1>0 DEF CandleUpdate, fetchVars
  <2> QED BY <1>0, <1>1, <2>1 DEF HistoryInv, TableTrue, Close, Progress
<1>4. BatchTrue'
  <2>1. \A c \in Candles : table'[c] = table[c] \/ table'[c].value # "final"
    BY <1>1
  <2>2. batch' = batch /\ goal' = goal /\ now' \in Nat /\ now' >= now
    BY <1>0 DEF fetchVars, Candles
  <2> QED BY <1>0, <2>1, <2>2, BatchKept DEF HistoryInv
<1>5. CursorFollows' /\ Stored'
  BY <1>0 DEF HistoryInv, CursorFollows, Reached, Newly, fetchVars, Last, Stored
<1> QED BY <1>2, <1>3, <1>4, <1>5 DEF HistoryInv

LEMMA HistoryBeginInv ==
  ASSUME HistoryInv, NEW k \in {"klines", "oi"}, HistoryBegin(k)
  PROVE  HistoryInv'
<1> USE DEF HistoryBegin
<1>1. HistoryTypeOK' /\ TableTrue'
  BY DEF HistoryInv, HistoryTypeOK, TableTrue
<1>2. BatchTrue' /\ CursorFollows'
  BY DEF HistoryInv, BatchTrue, CursorFollows, Reached, Newly, Last
<1>3. Stored'
  BY DEF HistoryInv, CursorFollows, Stored
<1> QED BY <1>1, <1>2, <1>3 DEF HistoryInv

-----------------------------------------------------------------------------
(***************************************************************************)
(* The pager                                                                *)
(***************************************************************************)

LEMMA FetchStartsInv ==
  ASSUME HistoryInv, FetchStarts
  PROVE  HistoryInv'
<1>0. /\ HistoryTypeOK /\ batch = << >> /\ batch' = << >> /\ fetched' = << >>
      /\ fetchAt' = "page" /\ goal' = now /\ cursor' = startTime' /\ historyKind # "off"
      /\ UNCHANGED <<now, closedOnly, historyKind, table>>
  BY DEF HistoryInv, CursorFollows, FetchStarts
<1>1. HistoryTypeOK'
  <2>1. cursor' \in 0..LastCandle + 1 /\ startTime' \in Starts /\ endTime' \in Ends
    BY HistoryAssumption DEF FetchStarts, HistoryAssumption, Candles, Omitted
  <2>2. fetches' \in 0..MaxFetches
    BY <1>0, HistoryAssumption DEF FetchStarts, HistoryTypeOK, HistoryAssumption
  <2>3. fetched' \in Seq(Candles)
    BY <1>0, EmptySeq
  <2>4. lossless' \in BOOLEAN
    BY DEF FetchStarts
  <2> QED BY <1>0, <2>1, <2>2, <2>3, <2>4 DEF HistoryTypeOK
<1>2. TableTrue'
  BY <1>0 DEF HistoryInv, TableTrue
<1>3. BatchTrue' /\ Stored'
  BY <1>0 DEF BatchTrue, Stored
<1>4. CursorFollows'
  BY <1>0 DEF CursorFollows, HistoryTypeOK, Candles
<1> QED BY <1>1, <1>2, <1>3, <1>4 DEF HistoryInv

\* What Newest is, and that it does not fall behind the goal.
LEMMA NewestReaches ==
  ASSUME HistoryTypeOK, goal <= now
  PROVE  Newest \in 0..now /\ Newest >= Last(goal - 1)
BY HistoryAssumption
   DEF HistoryTypeOK, Newest, Last, Candles, HistoryAssumption, Omitted

\* A page is a row of consecutive candles up to the newest one or the limit.
LEMMA PageShape ==
  ASSUME HistoryTypeOK, NEW b \in Pages
  PROVE  \E c \in Nat \ {0}, n \in 0..PageSize :
           /\ b = [i \in 1..n |-> [candle |-> c + i - 1, rank |-> Fetched,
                                   value |-> Value(c + i - 1)]]
           /\ cursor # Omitted => c = cursor
           /\ n > 0 => c + n - 1 <= Newest
           /\ n < PageSize => c + n - 1 >= Newest
<1>0. Newest \in Nat /\ PageSize \in Nat \ {0} /\ cursor \in Nat
  BY HistoryAssumption
     DEF HistoryTypeOK, Newest, Candles, HistoryAssumption, Omitted
<1>1. PICK c \in Nat \ {0} : b = Page(c) /\ (cursor # Omitted => c = cursor)
  BY <1>0 DEF Pages, Omitted
<1>2. /\ PageLength(c) \in 0..PageSize
      /\ PageLength(c) > 0 => c + PageLength(c) - 1 <= Newest
      /\ PageLength(c) < PageSize => c + PageLength(c) - 1 >= Newest
  BY <1>0, <1>1 DEF PageLength
<1> QED BY <1>1, <1>2 DEF Page

\* The pages join: the candle after the last one fetched is the next cursor.
LEMMA FetchPageInv ==
  ASSUME HistoryInv, FetchPage
  PROVE  HistoryInv'
<1>0. /\ HistoryTypeOK /\ fetchAt = "page" /\ goal <= now /\ batch' \in Pages
      /\ now \in Candles /\ goal \in Candles
      /\ UNCHANGED <<now, closedOnly, historyKind, startTime, endTime, cursor, goal, lossless,
                     fetches, table>>
  BY DEF HistoryInv, CursorFollows, FetchPage, HistoryTypeOK
<1>1. PICK c \in Nat \ {0}, n \in 0..PageSize :
        /\ batch' = [i \in 1..n |-> [candle |-> c + i - 1, rank |-> Fetched,
                                     value |-> Value(c + i - 1)]]
        /\ cursor # Omitted => c = cursor
        /\ n > 0 => c + n - 1 <= Newest
        /\ n < PageSize => c + n - 1 >= Newest
  BY <1>0, PageShape
<1>2. Newest \in 0..now /\ Newest >= Last(goal - 1) /\ n \in Nat /\ PageSize \in Nat \ {0}
  BY <1>0, NewestReaches, HistoryAssumption DEF HistoryAssumption
<1>3. \A i \in 1..n : c + i - 1 \in Candles
  BY <1>0, <1>1, <1>2, HistoryAssumption DEF Candles, HistoryAssumption
<1>4. /\ DOMAIN batch' = 1..n
      /\ \A i \in 1..n : /\ batch'[i].candle = c + i - 1
                         /\ batch'[i].rank = Fetched
                         /\ batch'[i].value = Value(c + i - 1)
                         /\ batch'[i] \in Item
  <2>1. \A d : Value(d) \in {"partial", "final"}
    BY DEF Value
  <2>2. Fetched \in Fetched..Close
    BY DEF Fetched, Close
  <2>3. \A i \in 1..n : [candle |-> c + i - 1, rank |-> Fetched,
                          value |-> Value(c + i - 1)] \in Item
    BY <1>3, <2>1, <2>2 DEF Item
  <2> QED BY <1>1, <2>3
<1>5. batch' \in Seq(Item) /\ Len(batch') = n
  <2>1. batch' \in [1..n -> Item]
    BY <1>1, <1>4
  <2> QED BY <1>2, <1>4, <2>1, SeqDef, LenProperties
<1> DEFINE q == [i \in 1..n |-> c + i - 1]
           L == Len(fetched)
<1>6. q \in Seq(Candles) /\ Len(q) = n
  <2>1. q \in [1..n -> Candles]
    BY <1>3
  <2>2. \A s \in [1..n -> Candles] : s \in Seq(Candles) /\ Len(s) = n
    BY <1>2, SeqDef, LenProperties
  <2> QED BY <2>1, <2>2
<1>7. fetched' = fetched \o q
  BY <1>4 DEF FetchPage
<1>8. /\ fetched' \in Seq(Candles) /\ L \in Nat /\ Len(fetched') = L + n
      /\ DOMAIN fetched' = 1..(L + n)
      /\ \A i \in 1..L : fetched'[i] = fetched[i]
      /\ \A i \in 1..(L + n) : i > L => fetched'[i] = c + (i - L) - 1
  <2>1. fetched \in Seq(Candles) /\ L \in Nat
    BY <1>0, Elements DEF HistoryTypeOK
  <2>2. /\ fetched' \in Seq(Candles) /\ Len(fetched') = L + n
        /\ \A i \in 1..(L + n) : fetched'[i] = IF i <= L THEN fetched[i] ELSE q[i - L]
    BY <1>6, <1>7, <2>1, ConcatProperties
  <2>3. DOMAIN fetched' = 1..(L + n)
    BY <2>2, LenProperties
  <2>4. \A j \in 1..n : q[j] = c + j - 1
    OBVIOUS
  <2> HIDE DEF q, L
  <2>5. \A i \in 1..L : fetched'[i] = fetched[i]
    BY <1>2, <2>1, <2>2
  <2>6. ASSUME NEW i \in 1..(L + n), i > L PROVE fetched'[i] = c + (i - L) - 1
    BY <1>2, <2>1, <2>2, <2>4, <2>6
  <2> QED BY <2>1, <2>2, <2>3, <2>5, <2>6
<1> HIDE DEF q, L
<1>9. fetched = << >> <=> L = 0
  BY <1>0, EmptySeq DEF HistoryTypeOK, L
<1>10. IF L = 0 THEN cursor = startTime
       ELSE c = fetched[L] + 1 /\ \A i \in 1..L : fetched[i] = fetched[1] + i - 1
  <2>1. \A i \in 1..L : fetched[i] \in Candles
    BY <1>0, Elements DEF L
  <2>2. CASE L = 0
    BY <1>0, <1>9, <2>2 DEF HistoryInv, CursorFollows
  <2>3. CASE L # 0
    <3>1. cursor = fetched[L] + 1 /\ \A i \in 1..L : fetched[i] = fetched[1] + i - 1
      BY <1>0, <1>9, <2>3, Elements DEF HistoryInv, CursorFollows, Newly, L
    <3>2. cursor # Omitted
      BY <1>8, <2>1, <2>3, <3>1 DEF Omitted, Candles
    <3> QED BY <1>1, <2>3, <3>1, <3>2
  <2> QED BY <2>2, <2>3
<1>11. HistoryTypeOK'
  BY <1>0, <1>2, <1>5, <1>8 DEF HistoryTypeOK, FetchPage
<1>12. TableTrue'
  BY <1>0 DEF HistoryInv, TableTrue
<1>13. BatchTrue'
  <2> SUFFICES ASSUME NEW i \in 1..n
      PROVE /\ batch'[i].value = "final" => c + i - 1 < now
            /\ c + i - 1 < goal => batch'[i].value = "final"
            /\ batch'[i].value = "partial" => table[c + i - 1].value # "final"
    BY <1>0, <1>4 DEF BatchTrue
  <2> QED BY <1>0, <1>3, <1>4 DEF Value, HistoryInv, TableTrue, Candles
<1>14. L + n = 0 \/ fetched'[L + n] = c + n - 1
  <2>1. CASE n = 0 /\ L # 0
    <3>1. fetched[L] \in Nat
      BY <1>0, <1>8, <2>1, Elements DEF L, Candles
    <3> QED BY <1>8, <1>10, <2>1, <3>1
  <2>2. CASE n # 0
    BY <1>2, <1>8, <2>2
  <2> QED BY <1>2, <1>8, <2>1, <2>2
<1>15. \A i \in 1..(L + n) : fetched'[i] = fetched'[1] + i - 1
  <2> SUFFICES ASSUME NEW i \in 1..(L + n) PROVE fetched'[i] = fetched'[1] + i - 1
    OBVIOUS
  <2>1. CASE L = 0
    BY <1>2, <1>8, <2>1
  <2>2. CASE L # 0
    <3>1. fetched'[1] = fetched[1] /\ fetched[1] \in Nat /\ fetched[L] = fetched[1] + L - 1
      BY <1>0, <1>8, <1>10, <2>2, Elements DEF L, Candles
    <3>2. CASE i <= L
      BY <1>8, <1>10, <2>2, <3>1, <3>2
    <3>3. CASE i > L
      <4>1. fetched'[i] = c + (i - L) - 1
        BY <1>8, <3>3
      <4>2. c = fetched[1] + L
        BY <1>8, <1>10, <2>2, <3>1
      <4> QED BY <1>2, <1>8, <3>1, <4>1, <4>2
    <3> QED BY <1>2, <1>8, <3>2, <3>3
  <2> QED BY <2>1, <2>2
<1>16. n < PageSize /\ L + n # 0 => fetched'[L + n] >= Last(goal - 1)
  <2>1. Last(goal - 1) \in Int
    BY <1>0, HistoryAssumption DEF Last, HistoryTypeOK, Candles, Omitted, HistoryAssumption
  <2> QED BY <1>1, <1>2, <1>14, <2>1
<1>17. CursorFollows'
  <2> HIDE DEF Reached
  <2>1. /\ fetched' = << >> <=> L + n = 0
        /\ batch' = << >> <=> n = 0
        /\ Newly(fetched)' = fetched'[L + n]
    BY <1>2, <1>5, <1>8, EmptySeq DEF Newly
  <2>2. /\ Last(goal - 1)' = Last(goal - 1)
        /\ fetchAt' = IF batch' = << >> THEN "idle" ELSE "write"
    BY <1>0 DEF Last, FetchPage
  <2>3. historyKind' # "off"
    BY <1>0 DEF HistoryInv, CursorFollows
  <2>4. startTime' # Omitted /\ fetched' # << >> => fetched'[1] = startTime'
    <3>1. CASE L = 0
      BY <1>0, <1>1, <1>2, <1>8, <1>10, <2>1, <3>1
    <3>2. CASE L # 0
      BY <1>0, <1>2, <1>8, <1>9, <3>2 DEF HistoryInv, CursorFollows
    <3> QED BY <3>1, <3>2
  <2>5. CASE n = 0
    <3>1. startTime # Omitted => startTime > Last(goal - 1) \/ Reached'
      <4>1. CASE L = 0
        <5>1. startTime \in Int /\ Last(goal - 1) \in Int
          BY <1>0, HistoryAssumption
             DEF Last, HistoryTypeOK, Candles, Omitted, HistoryAssumption
        <5> QED BY <1>1, <1>2, <1>10, <2>5, <4>1, <5>1
      <4>2. CASE L # 0
        BY <1>2, <1>8, <1>16, <2>1, <2>2, <2>5, <4>2 DEF Reached
      <4> QED BY <4>1, <4>2
    <3>2. fetchAt' = "idle" /\ batch' = << >>
      BY <2>1, <2>2, <2>5
    <3> QED BY <1>0, <1>8, <1>15, <2>2, <2>3, <2>4, <3>1, <3>2 DEF CursorFollows
  <2>6. CASE n # 0
    <3>1. fetchAt' = "write" /\ batch' # << >> /\ fetched' # << >> /\ L + n # 0
      BY <1>2, <1>8, <2>1, <2>2, <2>6
    <3>2. Newly(batch)'.candle = fetched'[L + n]
      BY <1>2, <1>4, <1>5, <1>14, <2>6, <3>1 DEF Newly
    <3> QED BY <1>0, <1>5, <1>8, <1>15, <1>16, <2>1, <2>2, <2>3, <2>4, <3>1, <3>2
            DEF CursorFollows
  <2> QED BY <2>5, <2>6
<1>18. Stored'
  <2> SUFFICES ASSUME closedOnly, lossless, NEW i \in 1..(L + n), fetched'[i] < goal
      PROVE \/ table[fetched'[i]].value = "final"
            \/ fetchAt' = "write" /\ \E j \in 1..n : batch'[j].candle = fetched'[i]
    BY <1>0, <1>4, <1>8 DEF Stored
  <2>1. CASE i <= L
    BY <1>0, <1>8, <2>1, Elements DEF HistoryInv, Stored, L
  <2>2. CASE i > L
    <3>1. i - L \in 1..n
      BY <1>2, <1>8, <2>2
    <3>2. batch'[i - L].candle = fetched'[i]
      BY <1>4, <1>8, <2>2, <3>1
    <3>3. batch' # << >>
      BY <1>4, <3>1
    <3> QED BY <3>1, <3>2, <3>3 DEF FetchPage
  <2> QED BY <1>2, <1>8, <2>1, <2>2
<1> QED BY <1>11, <1>12, <1>13, <1>17, <1>18 DEF HistoryInv

\* A row of the page is inserted unless the table has a newer one.
LEMMA InsertedRow ==
  ASSUME HistoryTypeOK, BatchTrue, NEW lost \in SUBSET DOMAIN batch, NEW c \in Candles
  PROVE  /\ Inserted(lost)[c] \in Row
         /\ \/ Inserted(lost)[c] = table[c]
            \/ /\ table[c].rank \in {NoRow, Fetched}
               /\ Inserted(lost)[c].rank = Fetched
               /\ \E i \in DOMAIN batch : /\ batch[i].candle = c
                                          /\ Inserted(lost)[c].value = batch[i].value
         /\ \A i \in DOMAIN batch : i \notin lost /\ batch[i].candle = c =>
              \/ Inserted(lost)[c] = table[c] /\ table[c].rank \in {Progress, Close}
              \/ Inserted(lost)[c].value = batch[i].value
<1>0. table[c] \in Row /\ table[c].rank \in {NoRow, Fetched, Progress, Close}
  BY DEF HistoryTypeOK, Row, NoRow, Fetched, Progress, Close
<1>1. CASE \E i \in DOMAIN batch \ lost : batch[i].candle = c
  <2> DEFINE i == CHOOSE i \in DOMAIN batch \ lost : batch[i].candle = c
  <2>1. i \in DOMAIN batch /\ i \notin lost /\ batch[i].candle = c
    BY <1>1
  <2>2. Inserted(lost)[c] = Merge(table[c], batch[i])
    BY <1>1 DEF Inserted
  <2> HIDE DEF i
  <2>3. batch[i] \in Item /\ batch[i].rank = Fetched
    BY <2>1, Elements DEF BatchTrue
  <2>4. \A j \in DOMAIN batch : batch[j].candle = c => batch[j].value = batch[i].value
    BY <2>1 DEF BatchTrue
  <2>5. CASE table[c].rank \in {NoRow, Fetched}
    <3>1. Fetched >= table[c].rank
      BY <2>5 DEF NoRow, Fetched
    <3>2. Inserted(lost)[c] = [rank |-> Fetched, value |-> batch[i].value]
      BY <2>2, <2>3, <3>1 DEF Merge
    <3>3. Inserted(lost)[c] \in Row
      BY <2>3, <3>2 DEF Row, Item, NoRow, Fetched, Close
    <3> QED BY <2>1, <2>4, <2>5, <3>2, <3>3
  <2>6. CASE table[c].rank \in {Progress, Close}
    <3>1. ~(Fetched >= table[c].rank)
      BY <2>6 DEF Progress, Fetched, Close
    <3>2. Inserted(lost)[c] = table[c]
      BY <2>2, <2>3, <3>1 DEF Merge
    <3> QED BY <1>0, <2>6, <3>2
  <2> QED BY <1>0, <2>5, <2>6
<1>2. CASE ~ \E i \in DOMAIN batch \ lost : batch[i].candle = c
  <2>1. Inserted(lost)[c] = table[c]
    BY <1>2 DEF Inserted
  <2> QED BY <1>0, <1>2, <2>1
<1> QED BY <1>1, <1>2

\* A page does not replace a final row by values of an open candle.
LEMMA InsertedStaysFinal ==
  ASSUME HistoryTypeOK, BatchTrue, NEW lost \in SUBSET DOMAIN batch, NEW c \in Candles,
         table[c].value = "final"
  PROVE  Inserted(lost)[c].value = "final"
<1>1. CASE Inserted(lost)[c] = table[c]
  BY <1>1
<1>2. CASE Inserted(lost)[c] # table[c]
  <2>1. PICK i \in DOMAIN batch : /\ batch[i].candle = c
                                  /\ Inserted(lost)[c].value = batch[i].value
                                  /\ table[c].rank \in {NoRow, Fetched}
    BY <1>2, InsertedRow
  <2>2. table[c].rank # Close
    BY <2>1 DEF NoRow, Fetched, Close
  <2>3. batch[i].value \in {"partial", "final"}
    BY Elements DEF Item
  <2> QED BY <2>1, <2>2, <2>3 DEF BatchTrue
<1> QED BY <1>1, <1>2

LEMMA WriteBatchInv ==
  ASSUME HistoryInv, WriteBatch
  PROVE  HistoryInv'
<1> PICK lost \in SUBSET DOMAIN batch :
      table' = Inserted(lost) /\ lossless' = (lossless /\ lost = {})
  BY DEF WriteBatch
<1>0. /\ HistoryTypeOK /\ BatchTrue /\ fetchAt = "write" /\ fetchAt' = "next"
      /\ UNCHANGED <<now, closedOnly, historyKind, startTime, endTime, cursor, batch, fetched,
                     goal, fetches>>
  BY DEF HistoryInv, WriteBatch
<1>1. HistoryTypeOK'
  <2>1. table' \in [Candles -> Row]
    BY <1>0, InsertedRow DEF Inserted
  <2> QED BY <1>0, <2>1 DEF HistoryTypeOK
<1>2. TableTrue'
  <2> SUFFICES ASSUME NEW c \in Candles
      PROVE /\ table'[c].value = "final" => c < now
            /\ table'[c].rank = Close => table'[c].value = "final"
            /\ closedOnly \/ historyKind = "off" => table'[c].rank # Progress
    BY <1>0 DEF TableTrue
  <2>1. CASE table'[c] = table[c]
    BY <2>1 DEF HistoryInv, TableTrue
  <2>2. CASE table'[c] # table[c]
    <3>1. PICK i \in DOMAIN batch : /\ batch[i].candle = c
                                    /\ table'[c].value = batch[i].value
                                    /\ table'[c].rank = Fetched
      BY <1>0, <2>2, InsertedRow
    <3>2. batch[i].value = "final" => c < now
      BY <1>0, <3>1 DEF BatchTrue
    <3> QED BY <3>1, <3>2 DEF Fetched, Progress, Close
  <2> QED BY <2>1, <2>2
<1>3. BatchTrue'
  <2>1. \A i \in DOMAIN batch :
          batch[i].value = "partial" /\ table'[batch[i].candle].value = "final" =>
            table'[batch[i].candle].rank = Close
    <3> SUFFICES ASSUME NEW i \in DOMAIN batch, batch[i].value = "partial",
                        table'[batch[i].candle].value = "final"
        PROVE  table'[batch[i].candle].rank = Close
      OBVIOUS
    <3> DEFINE c == batch[i].candle
    <3>1. c \in Candles
      BY <1>0, Elements
    <3>2. \A j \in DOMAIN batch : batch[j].candle = c => batch[j].value = "partial"
      BY <1>0 DEF BatchTrue
    <3>3. table[c].value = "final" => table[c].rank = Close
      BY <1>0 DEF BatchTrue
    <3> HIDE DEF c
    <3>4. table'[c] = table[c]
      BY <1>0, <3>1, <3>2, InsertedRow DEF c
    <3> QED BY <3>3, <3>4 DEF c
  <2> QED BY <1>0, <2>1 DEF BatchTrue
<1>4. CursorFollows'
  BY <1>0 DEF HistoryInv, CursorFollows, Newly, Last, Reached
<1>5. Stored'
  <2> SUFFICES ASSUME closedOnly, lossless, lost = {}, NEW i \in DOMAIN fetched,
                      fetched[i] < goal
      PROVE  table'[fetched[i]].value = "final"
    BY <1>0 DEF Stored
  <2> DEFINE c == fetched[i]
  <2>1. c \in Candles
    BY <1>0, Elements
  <2>2. table[c].value = "final" \/ \E j \in DOMAIN batch : batch[j].candle = c
    BY <1>0 DEF HistoryInv, Stored
  <2> HIDE DEF c
  <2>3. CASE table[c].value = "final"
    BY <1>0, <2>1, <2>3, InsertedStaysFinal DEF c
  <2>4. ASSUME NEW j \in DOMAIN batch, batch[j].candle = c
        PROVE  table'[c].value = "final"
    <3>1. batch[j].value = "final"
      BY <1>0, <2>4 DEF BatchTrue, c
    <3>2. \/ table'[c] = table[c] /\ table[c].rank \in {Progress, Close}
          \/ table'[c].value = "final"
      BY <1>0, <2>1, <2>4, <3>1, InsertedRow
    <3>3. table[c].rank # Progress /\ (table[c].rank = Close => table[c].value = "final")
      BY <2>1 DEF HistoryInv, TableTrue
    <3> QED BY <3>2, <3>3
  <2> QED BY <2>2, <2>3, <2>4 DEF c
<1> QED BY <1>1, <1>2, <1>3, <1>4, <1>5 DEF HistoryInv

\* The next page begins behind the last candle; the last page has reached the
\* end of the range.
LEMMA FetchNextInv ==
  ASSUME HistoryInv, FetchNext
  PROVE  HistoryInv'
<1>0. /\ HistoryTypeOK /\ fetchAt = "next" /\ batch # << >> /\ fetched # << >> /\ batch' = << >>
      /\ Newly(batch).candle = Newly(fetched)
      /\ Len(batch) < PageSize => Newly(fetched) >= Last(goal - 1)
      /\ UNCHANGED <<now, closedOnly, historyKind, startTime, endTime, fetched, goal, lossless,
                     fetches, table>>
  BY DEF HistoryInv, CursorFollows, FetchNext
<1>1. After = Newly(fetched) + 1 /\ Newly(fetched) \in Candles
  <2>1. Len(fetched) \in DOMAIN fetched
    BY <1>0, Elements, EmptySeq DEF HistoryTypeOK
  <2> QED BY <1>0, <2>1, Elements DEF After, Newly
<1>2. \/ fetchAt' = "page" /\ cursor' = Newly(fetched) + 1
      \/ fetchAt' = "idle" /\ Newly(fetched) >= Last(goal - 1) /\ cursor' \in {cursor, After}
  <2>1. CASE Len(batch) < PageSize
    BY <1>0, <2>1 DEF FetchNext
  <2>2. CASE ~(Len(batch) < PageSize)
    <3>1. ~(endTime = Omitted \/ After <= endTime) => Newly(fetched) >= Last(goal - 1)
      <4>1. endTime \in Int /\ goal \in Int
        BY <1>0, HistoryAssumption DEF HistoryTypeOK, HistoryAssumption, Candles, Omitted
      <4> QED BY <1>1, <4>1 DEF Last, Candles
    <3> QED BY <1>1, <2>2, <3>1 DEF FetchNext, AfterFullPage
  <2> QED BY <2>1, <2>2
<1>3. HistoryTypeOK'
  <2>1. << >> \in Seq(Item) /\ Len(<< >>) <= PageSize
    BY EmptySeq, HistoryAssumption DEF HistoryAssumption
  <2>2. cursor' \in 0..LastCandle + 1 /\ fetchAt' \in {"idle", "page"}
    BY <1>0, <1>1, <1>2, HistoryAssumption DEF HistoryTypeOK, Candles, HistoryAssumption
  <2> QED BY <1>0, <2>1, <2>2 DEF HistoryTypeOK
<1>4. TableTrue' /\ BatchTrue' /\ Stored'
  BY <1>0 DEF HistoryInv, TableTrue, BatchTrue, Stored
<1>5. CursorFollows'
  <2>1. /\ Newly(fetched)' = Newly(fetched) /\ Last(goal - 1)' = Last(goal - 1)
        /\ fetchAt' \in {"idle", "page"}
    BY <1>0, <1>2 DEF Newly, Last
  <2>2. fetchAt' = "idle" => Reached'
    BY <1>0, <1>2, <2>1 DEF Reached
  <2> QED BY <1>0, <1>2, <2>1, <2>2 DEF HistoryInv, CursorFollows
<1> QED BY <1>3, <1>4, <1>5 DEF HistoryInv

LEMMA FetchFailsInv ==
  ASSUME HistoryInv, FetchFails
  PROVE  HistoryInv'
<1>1. << >> \in Seq(Item) /\ Len(<< >>) <= PageSize
  BY EmptySeq, HistoryAssumption DEF HistoryAssumption
<1>2. HistoryTypeOK'
  BY <1>1 DEF HistoryInv, HistoryTypeOK, FetchFails
<1>3. TableTrue' /\ BatchTrue' /\ Stored'
  BY DEF HistoryInv, TableTrue, BatchTrue, Stored, FetchFails
<1>4. CursorFollows'
  BY DEF HistoryInv, CursorFollows, FetchFails
<1> QED BY <1>2, <1>3, <1>4 DEF HistoryInv

-----------------------------------------------------------------------------
LEMMA HistoryStepInv == HistoryInv /\ [Next]_vars => HistoryInv'
<1> SUFFICES ASSUME HistoryInv, [Next]_vars PROVE HistoryInv'
  OBVIOUS
<1>1. CASE \E k \in {"klines", "oi"} : HistoryBegin(k)
  BY <1>1, HistoryBeginInv
<1>2. CASE HistoryNext
  BY <1>2, CandleClosesInv, CandleUpdateInv, FetchStartsInv, FetchPageInv, WriteBatchInv,
     FetchNextInv, FetchFailsInv DEF HistoryNext
<1>3. CASE UNCHANGED historyVars
  BY <1>3, HistoryStutters
<1> QED
  <2>1. CASE Main
    BY <2>1, <1>1, <1>3
       DEF Main, Handler, CmdUserDataStream, CmdSpotPnl, CmdFuturesPnl, CmdFuturesPositions,
           CmdFuturesPositionsSyncRedis, CmdFetchKlines, CmdFetchOi, CmdEngine
  <2>2. CASE Next /\ ~Main
    BY <2>2, <1>2, <1>3 DEF Next
  <2> QED BY <2>1, <2>2, <1>3 DEF vars

LEMMA HistoryInvAlways == FairSpec => []HistoryInv
BY HistoryInitInv, HistoryStepInv, PTL DEF FairSpec

-----------------------------------------------------------------------------
\* A command that is done and was not disturbed has fetched its range.
LEMMA RangeFetched ==
  ASSUME HistoryInv, fetchAt = "idle", lossless, fetches > 0, startTime # Omitted,
         NEW c \in startTime..Last(goal - 1)
  PROVE  \E i \in DOMAIN fetched : fetched[i] = c
<1>1. startTime \in Int /\ Last(goal - 1) \in Int /\ c \in Int
  BY HistoryAssumption
     DEF HistoryInv, HistoryTypeOK, Last, Candles, Omitted, HistoryAssumption
<1>2. Reached
  BY <1>1 DEF HistoryInv, CursorFollows
<1>3. Len(fetched) \in Nat \ {0} /\ DOMAIN fetched = 1..Len(fetched)
  BY <1>2, Elements, EmptySeq DEF HistoryInv, HistoryTypeOK, Reached
<1>4. /\ fetched[1] = startTime
      /\ \A i \in DOMAIN fetched : fetched[i] = startTime + i - 1
      /\ fetched[Len(fetched)] >= Last(goal - 1)
  BY <1>2, <1>3 DEF HistoryInv, CursorFollows, Reached, Newly
<1>5. c - startTime + 1 \in DOMAIN fetched
  BY <1>1, <1>3, <1>4
<1> QED BY <1>1, <1>4, <1>5

\* The records of a command are consecutive candles, and they cover its range,
\* whatever candles close between its requests, for every page size.
THEOREM FetchedIsRangeAlways == FairSpec => []FetchedIsRange
<1>1. ASSUME HistoryInv PROVE FetchedIsRange
  <2>1. ASSUME NEW i \in DOMAIN fetched, i > 1
        PROVE  fetched[i] = fetched[i - 1] + 1
    <3>1. /\ i \in Nat /\ i - 1 \in DOMAIN fetched /\ fetched[1] \in Nat
      BY <1>1, <2>1, Elements DEF HistoryInv, Candles
    <3>2. fetched[i] = fetched[1] + i - 1 /\ fetched[i - 1] = fetched[1] + (i - 1) - 1
      BY <1>1, <3>1 DEF HistoryInv, CursorFollows
    <3> QED BY <3>1, <3>2
  <2> QED BY <1>1, <2>1, RangeFetched DEF FetchedIsRange
<1> QED BY <1>1, HistoryInvAlways, PTL

\* A command without losses leaves the final values of every closed candle of
\* its range in the table, unless the stream keeps updates of open candles.
THEOREM BackfillRepairsAlways == FairSpec => []BackfillRepairs
<1>1. ASSUME HistoryInv PROVE BackfillRepairs
  <2> SUFFICES ASSUME closedOnly, fetchAt = "idle", lossless, fetches > 0, startTime # Omitted,
                      NEW c \in startTime..Last(goal - 1)
      PROVE  table[c].value = "final"
    BY DEF BackfillRepairs
  <2>1. PICK i \in DOMAIN fetched : fetched[i] = c
    BY <1>1, RangeFetched
  <2>2. c < goal
    BY <1>1, HistoryAssumption
       DEF HistoryInv, HistoryTypeOK, Last, Candles, Omitted, HistoryAssumption
  <2> QED BY <1>1, <2>1, <2>2 DEF HistoryInv, Stored
<1> QED BY <1>1, HistoryInvAlways, PTL

\* No page, however late it is written, replaces a final row by the values of
\* an open candle.
THEOREM FinalStaysAlways == FairSpec => FinalStays
<1>1. HistoryInv /\ [Next]_vars =>
        [closedOnly => \A c \in Candles :
           table[c].value = "final" => table'[c].value = "final"]_historyVars
  <2> SUFFICES ASSUME HistoryInv, [Next]_vars, NEW c \in Candles, table[c].value = "final"
      PROVE  table'[c].value = "final"
    OBVIOUS
  <2>1. CASE CandleCloses
    <3>1. c # now /\ table \in [Candles -> Row]
      BY DEF HistoryInv, TableTrue, HistoryTypeOK, Candles
    <3> QED BY <2>1, <3>1 DEF CandleCloses
  <2>2. CASE CandleUpdate
    <3>1. c # now /\ table \in [Candles -> Row]
      BY DEF HistoryInv, TableTrue, HistoryTypeOK, Candles
    <3> QED BY <2>2, <3>1 DEF CandleUpdate
  <2>3. CASE WriteBatch
    BY <2>3, InsertedStaysFinal DEF HistoryInv, WriteBatch
  <2>4. CASE UNCHANGED table
    BY <2>4
  <2>5. CASE FetchStarts \/ FetchPage \/ FetchNext \/ FetchFails
    BY <2>5, <2>4 DEF FetchStarts, FetchPage, FetchNext, FetchFails
  <2>6. CASE Main
    <3>1. (\E k \in {"klines", "oi"} : HistoryBegin(k)) \/ UNCHANGED historyVars
      BY <2>6 DEF Main, Handler, CmdUserDataStream, CmdSpotPnl, CmdFuturesPnl,
                  CmdFuturesPositions, CmdFuturesPositionsSyncRedis, CmdFetchKlines, CmdFetchOi,
                  CmdEngine
    <3> QED BY <2>4, <3>1 DEF HistoryBegin, historyVars, marketVars
  <2>7. CASE UNCHANGED historyVars
    BY <2>7, <2>4 DEF historyVars, marketVars
  <2> QED BY <2>1, <2>2, <2>3, <2>5, <2>6, <2>7 DEF Next, HistoryNext, vars
<1> QED BY <1>1, HistoryInvAlways, PTL DEF FinalStays, FairSpec

=============================================================================
