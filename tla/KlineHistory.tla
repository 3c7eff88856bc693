---------------------------- MODULE KlineHistory ----------------------------
(***************************************************************************)
(* fetch-klines and fetch-oi: the pagers iter_klines and iter_open_interest *)
(* of api/futures_market.py, the loops fetch_klines_range and fetch_oi_range *)
(* that publish each page to Kafka, and the table                           *)
(* ReplacingMergeTree(event_time) of clickhouse_kline_setup.sql, which the  *)
(* kline stream (module StreamWriter) fills at the same time.               *)
(*                                                                          *)
(* Candles are numbered; candle `now' is open, the later ones do not exist. *)
(* start_time and a cursor are the first candle that opens then or later,   *)
(* as the exchange takes startTime, and end_time is the last one that opens *)
(* then or earlier: the cursor last_close_time + 1 of a page that ends with *)
(* candle c is c + 1.  A value of a candle is "partial" while it is open    *)
(* and "final" afterwards.  One symbol is modelled; a page that fails ends  *)
(* the command, so the symbols after it are not fetched.                    *)
(***************************************************************************)
EXTENDS Naturals, Sequences

CONSTANTS LastCandle,    \* bound: candles
          PageSize,      \* _MAX_LIMIT, _OI_MAX_LIMIT
          Starts, Ends,  \* start_time and end_time, Omitted for None
          MaxFetches     \* bound: commands

Omitted == 0
Candles == 1..LastCandle

ASSUME HistoryAssumption ==
  /\ LastCandle \in Nat \ {0} /\ PageSize \in Nat \ {0}
  /\ Starts \subseteq Candles \cup {Omitted} /\ Ends \subseteq Candles \cup {Omitted}
  /\ MaxFetches \in Nat

VARIABLES now,           \* the open candle
          closedOnly,    \* closed_only of the kline stream that runs meanwhile
          historyKind,   \* "klines" or "oi", "off" before the first command
          fetchAt,       \* where the command is
          startTime, endTime,
          cursor,        \* startTime of the next page, Omitted at first without start_time
          batch,         \* the page just read: candles and their values
          fetched,       \* all_records, by their candles
          goal,          \* history: newest candle when the command began
          lossless,      \* history: every record of the command so far is in the table
          fetches,       \* commands so far
          table          \* per candle the row with the largest event_time

fetchVars == <<historyKind, fetchAt, startTime, endTime, cursor, batch, fetched, goal,
               lossless, fetches>>
marketVars == <<now, closedOnly, table>>
historyVars == <<fetchVars, marketVars>>

(***************************************************************************)
(* event_time orders the rows of one candle: open_time in a fetched row, the *)
(* time of the event in a row of the stream, and the closing event is last. *)
(***************************************************************************)
NoRow == 0
Fetched == 1
Progress == 2
Close == 3

Row == [rank : NoRow..Close, value : {"none", "partial", "final"}]
Item == [candle : Candles, rank : Fetched..Close, value : {"partial", "final"}]

HistoryTypeOK ==
  /\ now \in Candles
  /\ closedOnly \in BOOLEAN
  /\ historyKind \in {"off", "klines", "oi"}
  /\ fetchAt \in {"idle", "page", "write", "next"}
  /\ startTime \in Starts \cup {Omitted} /\ endTime \in Ends \cup {Omitted}
  /\ cursor \in 0..LastCandle + 1
  /\ batch \in Seq(Item) /\ Len(batch) <= PageSize
  /\ fetched \in Seq(Candles)
  /\ goal \in Candles
  /\ lossless \in BOOLEAN
  /\ fetches \in 0..MaxFetches
  /\ table \in [Candles -> Row]

HistoryInit ==
  /\ now = 1 /\ closedOnly = TRUE
  /\ historyKind = "off" /\ fetchAt = "idle"
  /\ startTime = Omitted /\ endTime = Omitted /\ cursor = Omitted
  /\ batch = << >> /\ fetched = << >>
  /\ goal = 1 /\ lossless = TRUE /\ fetches = 0
  /\ table = [c \in Candles |-> [rank |-> NoRow, value |-> "none"]]

-----------------------------------------------------------------------------
(***************************************************************************)
(* The exchange (external), the kline stream and the table                  *)
(***************************************************************************)

Value(c) == IF c < now THEN "final" ELSE "partial"

\* The newer row stays; of equal event_time the one inserted last.
Merge(row, item) ==
  IF item.rank >= row.rank THEN [rank |-> item.rank, value |-> item.value] ELSE row

\* A candle closes and the next one opens; the closing event of the stream
\* reaches the table, or the stream is down and misses it.  How long a record
\* is on its way does not matter: the row with the larger event_time stays.
CandleCloses ==
  /\ historyKind # "off" /\ now < LastCandle
  /\ now' = now + 1
  /\ \/ UNCHANGED table
     \/ /\ historyKind = "klines"
        /\ table' = [table EXCEPT ![now] = Merge(@, [rank |-> Close, value |-> "final"])]
  /\ UNCHANGED <<closedOnly, fetchVars>>

\* An update of the open candle, which a closed_only stream does not keep.
CandleUpdate ==
  /\ historyKind = "klines" /\ ~closedOnly
  /\ table' = [table EXCEPT ![now] = Merge(@, [rank |-> Progress, value |-> "partial"])]
  /\ UNCHANGED <<now, closedOnly, fetchVars>>

-----------------------------------------------------------------------------
(***************************************************************************)
(* The pager                                                                *)
(***************************************************************************)

HistoryBegin(k) ==
  /\ historyKind = "off"
  /\ historyKind' = k
  /\ closedOnly' \in BOOLEAN
  /\ UNCHANGED <<now, fetchAt, startTime, endTime, cursor, batch, fetched, goal, lossless,
                 fetches, table>>

\* The command starts: cursor = start_time, fetched = 0.
FetchStarts ==
  /\ historyKind # "off" /\ fetchAt = "idle" /\ fetches < MaxFetches
  /\ fetches' = fetches + 1
  /\ startTime' \in Starts /\ endTime' \in Ends
  /\ cursor' = startTime'
  /\ fetched' = << >>
  /\ goal' = now /\ lossless' = TRUE
  /\ fetchAt' = "page"
  /\ UNCHANGED <<now, closedOnly, historyKind, batch, table>>

\* The newest candle the exchange answers with: an open candle has a kline and
\* no open-interest record yet.
Newest ==
  LET available == IF historyKind = "oi" THEN now - 1 ELSE now
  IN IF endTime # Omitted /\ endTime < available THEN endTime ELSE available

\* The rows of one request that begins with candle c: at most PageSize.
PageLength(c) ==
  IF Newest < c THEN 0 ELSE IF Newest < c + PageSize THEN Newest - c + 1 ELSE PageSize

Page(c) ==
  [i \in 1..PageLength(c) |->
     [candle |-> c + i - 1, rank |-> Fetched, value |-> Value(c + i - 1)]]

\* The first row is the cursor's, if it exists yet; without startTime the
\* exchange may begin with its first or its latest rows.
Pages ==
  IF cursor # Omitted THEN {Page(cursor)}
  ELSE {Page(1), Page(IF Newest > PageSize THEN Newest - PageSize + 1 ELSE 1)}

\* A request: an empty page ends the loop.
FetchPage ==
  /\ fetchAt = "page"
  /\ batch' \in Pages
  /\ fetched' = fetched \o [i \in DOMAIN batch' |-> batch'[i].candle]
  /\ fetchAt' = IF batch' = << >> THEN "idle" ELSE "write"
  /\ UNCHANGED <<now, closedOnly, historyKind, startTime, endTime, cursor, goal, lossless, fetches, table>>

\* Mutant: fetched rows carry the close_time as event_time.
InsertedAtClose(lost) ==
  [c \in Candles |->
     IF \E i \in DOMAIN batch \ lost : batch[i].candle = c
     THEN LET i == CHOOSE i \in DOMAIN batch \ lost : batch[i].candle = c
          IN Merge(table[c], [batch[i] EXCEPT !.rank = Close])
     ELSE table[c]]

\* The table with the rows of the batch that Kafka has not lost.
Inserted(lost) ==
  [c \in Candles |->
     IF \E i \in DOMAIN batch \ lost : batch[i].candle = c
     THEN Merge(table[c], batch[CHOOSE i \in DOMAIN batch \ lost : batch[i].candle = c])
     ELSE table[c]]

\* write_kline_batch, write_oi_batch: records whose delivery fails are lost
\* and nobody is told.
WriteBatch ==
  /\ fetchAt = "write"
  /\ \E lost \in SUBSET DOMAIN batch :
       /\ table' = Inserted(lost)
       /\ lossless' = (lossless /\ lost = {})
  /\ fetchAt' = "next"
  /\ UNCHANGED <<now, closedOnly, historyKind, startTime, endTime, cursor, batch, fetched, goal, fetches>>

\* Mutant: the interval is added once more than needed.
AfterGap == batch[Len(batch)].candle + 2

\* Mutant: the next page begins with the last row of this one.
AfterSameRow == batch[Len(batch)].candle

\* last_close_time + 1
After == batch[Len(batch)].candle + 1

\* cursor > end_time ends the loop.  Open interest is stamped when its candle
\* opens and last_ts + 1 is just after that: it passes an end_time of the same
\* moment only, and reads one more, empty, page before a later one.
AfterFullPage ==
  IF endTime = Omitted \/ After <= endTime THEN {"page"}
  ELSE {"idle"} \cup {place \in {"page"} : historyKind = "oi"}

\* Mutant: a full page is taken for the last one.
FetchNextShort ==
  /\ fetchAt = "next"
  /\ batch' = << >>
  /\ IF Len(batch) <= PageSize
     THEN fetchAt' = "idle" /\ UNCHANGED cursor
     ELSE /\ cursor' = After
          /\ fetchAt' \in AfterFullPage
  /\ UNCHANGED <<now, closedOnly, historyKind, startTime, endTime, fetched, goal, lossless, fetches, table>>

\* A short page is the last one; so is a page that reaches end_time.
FetchNext ==
  /\ fetchAt = "next"
  /\ batch' = << >>
  /\ IF Len(batch) < PageSize
     THEN fetchAt' = "idle" /\ UNCHANGED cursor
     ELSE /\ cursor' = After
          /\ fetchAt' \in AfterFullPage
  /\ UNCHANGED <<now, closedOnly, historyKind, startTime, endTime, fetched, goal, lossless, fetches, table>>

\* A request or a write raises: the exception ends the command.
FetchFails ==
  /\ fetchAt \in {"page", "write"}
  /\ fetchAt' = "idle"
  /\ batch' = << >>
  /\ lossless' = FALSE
  /\ UNCHANGED <<now, closedOnly, historyKind, startTime, endTime, cursor, fetched, goal, fetches, table>>

-----------------------------------------------------------------------------
HistoryNext ==
  \/ CandleCloses \/ CandleUpdate
  \/ FetchStarts \/ FetchPage \/ WriteBatch \/ FetchNext \/ FetchFails

-----------------------------------------------------------------------------
(***************************************************************************)
(* Properties                                                               *)
(***************************************************************************)

Last(k) == IF endTime # Omitted /\ endTime < k THEN endTime ELSE k

\* The records of a command are consecutive candles, none twice and none left
\* out between two pages, although candles close between the requests; a
\* command that was not disturbed begins at start_time and reaches end_time, or
\* what was closed when it began.
FetchedIsRange ==
  /\ \A i \in DOMAIN fetched : i > 1 => fetched[i] = fetched[i - 1] + 1
  /\ fetchAt = "idle" /\ lossless /\ fetches > 0 /\ startTime # Omitted =>
       \A c \in startTime..Last(goal - 1) : \E i \in DOMAIN fetched : fetched[i] = c

\* fetch_klines_range "每天定时补全前一天的 K线": after a command without losses
\* every candle it covers that was closed when it began has its final values
\* in the table, whatever the stream missed and earlier commands left there,
\* unless the stream keeps updates of open candles: their event_time is later.
BackfillRepairs ==
  closedOnly /\ fetchAt = "idle" /\ lossless /\ fetches > 0 /\ startTime # Omitted =>
    \A c \in startTime..Last(goal - 1) : table[c].value = "final"

\* README "is_closed": a row that says it is closed has final values.
ClosedIsFinal == \A c \in Candles : table[c].rank \in {Fetched, Close} => table[c].value = "final"

\* A final row is never replaced by values of an open candle: not by a page that
\* was read before the candle closed and is written after it.
FinalStays ==
  [][closedOnly => \A c \in Candles : table[c].value = "final" => table'[c].value = "final"]_historyVars

=============================================================================
