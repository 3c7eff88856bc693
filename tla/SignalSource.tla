---------------------------- MODULE SignalSource ----------------------------
(***************************************************************************)
(* The ClickHouse table of trading signals and the pull source that reads   *)
(* it (engine/clickhouse_source.py).  The rows are those of one market.     *)
(***************************************************************************)
EXTENDS TradingSignals

CONSTANT BatchSize     \* LIMIT of the query

ASSUME SourceAssumption == BatchSize \in Nat \ {0}

VARIABLE table         \* the signals inserted so far

\* ORDER BY signal_ts_ms ASC, priority DESC, signal_id ASC
Precedes(s, t) ==
  \/ Ts[s] < Ts[t]
  \/ Ts[s] = Ts[t] /\ Priority[s] > Priority[t]
  \/ Ts[s] = Ts[t] /\ Priority[s] = Priority[t] /\ s < t

First(s, S) == s \in S /\ \A t \in S \ {s} : Precedes(s, t)

\* The first n rows of S.
Limit(n, S) == {s \in S : Cardinality({t \in S : Precedes(t, s)}) < n}

\* Mutant: the try statement around the for loop.
FetchUntilInvalid(cursor) ==
  LET rows == Limit(BatchSize, {s \in table : Ts[s] > cursor})
  IN {s \in rows \ Invalid : \A t \in rows \cap Invalid : Precedes(s, t)}

\* The rows after the cursor, cut by LIMIT; only then are invalid rows skipped.
Fetch(cursor) == Limit(BatchSize, {s \in table : Ts[s] > cursor}) \ Invalid

\* A producer inserts a row, in any order of timestamps.
Insert ==
  \E s \in Signals \ table : table' = table \cup {s}

-----------------------------------------------------------------------------
(***************************************************************************)
(* What a poll may leave out, for every cursor.  The caller moves the       *)
(* cursor to the last timestamp it was given, so a row is lost to it for    *)
(* good when one that is at least as new is delivered without it.           *)
(***************************************************************************)

\* The cursors that tell the rows apart.
Cursors == {0} \cup {Ts[s] : s \in Signals}

Ahead(c) == {s \in table : Ts[s] > c}

\* fetch: a valid row that a poll leaves out is not older than any row it
\* delivers, so only a row with the very timestamp of the last delivered one
\* is lost; and LIMIT was filled by rows that are not newer, each delivered or
\* invalid.
PollSkipsOnlyTies ==
  \A c \in Cursors : \A t \in Ahead(c) \ (Invalid \cup Fetch(c)) :
    /\ \A s \in Fetch(c) : Ts[s] <= Ts[t]
    /\ Cardinality({s \in Fetch(c) \cup (Ahead(c) \cap Invalid) : Ts[s] <= Ts[t]}) >= BatchSize

=============================================================================
