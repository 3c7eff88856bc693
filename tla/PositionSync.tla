---------------------------- MODULE PositionSync ----------------------------
(***************************************************************************)
(* The current futures positions in the storages:                           *)
(*  - futures-positions-sync-redis, a loop that queries the positions and   *)
(*    replaces the snapshot in Redis (FuturesPositionRedisCollector,        *)
(*    RedisPositionStore.write_positions);                                  *)
(*  - futures-positions --write-kafka, a command that publishes every       *)
(*    position the query returned (_request_position,                       *)
(*    KafkaStorage.write_futures_position; README's view                    *)
(*    v_current_futures_position shows the newest queried_at of each);      *)
(*  - futures-positions --write-clickhouse, which replaces the rows of      *)
(*    current_futures_position by TRUNCATE and INSERT                       *)
(*    (ClickHousePositionStorage.write_current_positions).                  *)
(* Several processes may run; a command may run again.  With both flags a   *)
(* command does the one after the other; they share no state.  The query    *)
(* returns the positions that are held or have open orders, of every symbol *)
(* or of the --symbol asked for.  A queried_at is a number: how many were   *)
(* taken before it, and it.                                                 *)
(***************************************************************************)
EXTENDS Naturals, FiniteSets

CONSTANTS Positions,   \* symbol:positionSide
          Syncers,     \* processes
          Asked,       \* positions each process asks for: all, or those of --symbol
          MaxQueries,  \* bound: queries sent
          MaxTrades    \* bound: changes of the account

ASSUME PositionAssumption ==
  /\ IsFiniteSet(Positions) /\ Asked \in [Syncers -> SUBSET Positions]
  /\ MaxQueries \in Nat /\ MaxTrades \in Nat

Holdings == {"none", "order", "held"}
Versions == Nat

VARIABLES syncKind,    \* which command the processes run
          account,     \* at the exchange: what each position is
          trades,      \* changes of the account so far
          queries,     \* queries sent so far
          at,          \* where each process is
          stamps,      \* times taken for queried_at so far
          queriedAt,   \* its queried_at, 0 before it is taken
          answer,      \* its positions, "none" for one that is not returned
          existing,    \* the index it has read from Redis
          snapshot,    \* Redis HASH: query that wrote each field, 0 without a field
          index,       \* Redis SET
          count,       \* position_count of the Redis meta HASH
          view,        \* the newest record of each position in ClickHouse
          rows,        \* current_futures_position: position and query
          overtaken,   \* history: processes that another has written after their query
          last         \* history: the last write that was completed

redisVars == <<snapshot, index, count>>
accountVars == <<account, trades>>
askVars == <<queries, stamps, queriedAt, answer, existing>>
positionVars == <<syncKind, accountVars, at, askVars, redisVars, view, rows,
                  overtaken, last>>

Write == [answer : [Positions -> Holdings], version : Versions, clean : BOOLEAN]

PositionTypeOK ==
  /\ syncKind \in {"off", "redis", "kafka", "clickhouse"}
  /\ account \in [Positions -> Holdings]
  /\ trades \in 0..MaxTrades
  /\ queries \in 0..MaxQueries
  /\ stamps \in Versions
  /\ at \in [Syncers -> {"idle", "sent", "answered", "read", "flushing", "truncated", "ended"}]
  /\ queriedAt \in [Syncers -> Versions]
  /\ answer \in [Syncers -> [Positions -> Holdings]]
  /\ existing \in [Syncers -> SUBSET Positions]
  /\ snapshot \in [Positions -> Versions]
  /\ index \subseteq Positions
  /\ count \in 0..Cardinality(Positions)
  /\ view \in [Positions -> [holding : Holdings, version : Versions]]
  /\ rows \subseteq Positions \X Versions
  /\ overtaken \subseteq Syncers
  /\ last \in Write

Nothing == [p \in Positions |-> "none"]

PositionInit ==
  /\ syncKind = "off"
  /\ account = Nothing /\ trades = 0
  /\ queries = 0 /\ stamps = 0
  /\ at = [s \in Syncers |-> "idle"]
  /\ queriedAt = [s \in Syncers |-> 0]
  /\ answer = [s \in Syncers |-> Nothing]
  /\ existing = [s \in Syncers |-> {}]
  /\ snapshot = [p \in Positions |-> 0] /\ index = {} /\ count = 0
  /\ view = [p \in Positions |-> [holding |-> "none", version |-> 0]]
  /\ rows = {}
  /\ overtaken = {}
  /\ last = [answer |-> Nothing, version |-> 0, clean |-> FALSE]

Held(s) == {p \in Positions : answer[s][p] = "held"}
Returned(s) == {p \in Positions : answer[s][p] # "none"}

Goes(s, from, to) == at[s] = from /\ at' = [at EXCEPT ![s] = to]

\* The variables of the call are gone.
Forgets(s) ==
  /\ answer' = [answer EXCEPT ![s] = Nothing]
  /\ existing' = [existing EXCEPT ![s] = {}]
  /\ queriedAt' = [queriedAt EXCEPT ![s] = 0]
  /\ UNCHANGED <<queries, stamps>>

\* queried_at is taken.
Stamp(s) ==
  /\ stamps' = stamps + 1
  /\ queriedAt' = [queriedAt EXCEPT ![s] = stamps']

\* s writes: the others that are busy have been overtaken.
Overtakes(s) ==
  overtaken' = overtaken \cup {o \in Syncers \ {s} : at[o] \notin {"idle", "ended"}}

\* s has written all it had to, but what was lost.
Completes(s, lost) ==
  last' = [answer |-> answer[s], version |-> queriedAt[s],
           clean |-> s \notin overtaken /\ lost = {}]

\* What was written last is no longer in the table.
Voids == last' = [last EXCEPT !.clean = FALSE]

-----------------------------------------------------------------------------
(***************************************************************************)
(* The account at the exchange (external) and the query                     *)
(***************************************************************************)

PositionBegin(k) ==
  /\ syncKind = "off"
  /\ syncKind' = k
  /\ UNCHANGED <<accountVars, at, askVars, redisVars, view, rows, overtaken, last>>

\* Orders are placed, filled and cancelled, positions opened and closed, as long
\* as a query can see it.
Trade(p) ==
  /\ syncKind # "off"
  /\ trades < MaxTrades /\ (queries < MaxQueries \/ \E s \in Syncers : at[s] = "sent")
  /\ trades' = trades + 1
  /\ \E h \in Holdings \ {account[p]} : account' = [account EXCEPT ![p] = h]
  /\ UNCHANGED <<syncKind, at, askVars, redisVars, view, rows, overtaken, last>>

\* The request is sent.  queried_at of the records for Kafka is taken just
\* before; for Redis the number names the query.
Query(s) ==
  /\ syncKind # "off" /\ queries < MaxQueries
  /\ Goes(s, "idle", "sent")
  /\ queries' = queries + 1
  /\ IF syncKind = "clickhouse" THEN UNCHANGED <<stamps, queriedAt>> ELSE Stamp(s)
  /\ overtaken' = overtaken \ {s}
  /\ UNCHANGED <<syncKind, accountVars, answer, existing, redisVars, view, rows, last>>

\* Only positions with an amount or with open orders are returned; queried_at
\* of the rows in ClickHouse is taken then.
Answered(s) ==
  /\ Goes(s, "sent", "answered")
  /\ answer' = [answer EXCEPT ![s] =
                  [p \in Positions |-> IF p \in Asked[s] THEN account[p] ELSE "none"]]
  /\ IF syncKind = "clickhouse" THEN Stamp(s) ELSE UNCHANGED <<stamps, queriedAt>>
  /\ UNCHANGED <<syncKind, accountVars, queries, existing, redisVars, view, rows, overtaken,
                 last>>

\* What ends the command: an error of the query, of Redis or of ClickHouse
\* leaves run() of the collector for good; the other command may be run again.
AfterFailure == IF syncKind = "redis" THEN "ended" ELSE "idle"

QueryFails(s) ==
  /\ Goes(s, "sent", AfterFailure)
  /\ Forgets(s)
  /\ UNCHANGED <<syncKind, accountVars, redisVars, view, rows, overtaken, last>>

-----------------------------------------------------------------------------
(***************************************************************************)
(* RedisPositionStore.write_positions                                       *)
(***************************************************************************)

\* smembers
ReadIndex(s) ==
  /\ syncKind = "redis"
  /\ Goes(s, "answered", "read")
  /\ existing' = [existing EXCEPT ![s] = index]
  /\ UNCHANGED <<syncKind, accountVars, queries, stamps, queriedAt, answer, redisVars, view, rows,
                 overtaken, last>>

\* Mutant: the stale members stay in the SET.
ReplaceWithoutSrem(s) ==
  LET stale == existing[s] \ Held(s) IN
  /\ snapshot' = [p \in Positions |-> IF p \in Held(s) THEN queriedAt[s]
                                      ELSE IF p \in stale THEN 0 ELSE snapshot[p]]
  /\ index' = index \cup Held(s)
  /\ count' = Cardinality(Held(s))

\* Mutant: only what the query returned without an amount is deleted.
ReplaceReturned(s) ==
  LET stale == existing[s] \cap (Returned(s) \ Held(s)) IN
  /\ snapshot' = [p \in Positions |-> IF p \in Held(s) THEN queriedAt[s]
                                      ELSE IF p \in stale THEN 0 ELSE snapshot[p]]
  /\ index' = (index \ stale) \cup Held(s)
  /\ count' = Cardinality(Held(s))

\* The MULTI block: hset, hdel and srem of the stale ones, sadd, hset of meta.
Replace(s) ==
  LET stale == existing[s] \ Held(s) IN
  /\ snapshot' = [p \in Positions |-> IF p \in Held(s) THEN queriedAt[s]
                                      ELSE IF p \in stale THEN 0 ELSE snapshot[p]]
  /\ index' = (index \ stale) \cup Held(s)
  /\ count' = Cardinality(Held(s))

\* pipe.execute(): done; when only the reply is lost, it raises after all.
Execute(s) ==
  /\ Goes(s, "read", "idle") \/ Goes(s, "read", "ended")
  /\ Replace(s)
  /\ Overtakes(s) /\ Completes(s, {}) /\ Forgets(s)
  /\ UNCHANGED <<syncKind, accountVars, view, rows>>

RedisFails(s) ==
  /\ syncKind = "redis"
  /\ Goes(s, "answered", "ended") \/ Goes(s, "read", "ended")
  /\ Forgets(s)
  /\ UNCHANGED <<syncKind, accountVars, redisVars, view, rows, overtaken, last>>

\* A signal ends the loop before its next query.
CollectorStops(s) ==
  /\ syncKind = "redis"
  /\ Goes(s, "idle", "ended")
  /\ UNCHANGED <<syncKind, accountVars, askVars, redisVars, view, rows, overtaken, last>>

-----------------------------------------------------------------------------
(***************************************************************************)
(* KafkaStorage.write_futures_position, write_current_positions             *)
(***************************************************************************)

\* Mutant: the positions with an amount only.
PublishedHeld(s) == Held(s)

\* One record for every position that was returned.
Published(s) == Returned(s)

\* send() of each record begins.
Publish(s) ==
  /\ syncKind = "kafka"
  /\ Goes(s, "answered", "flushing")
  /\ Overtakes(s)
  /\ UNCHANGED <<syncKind, accountVars, askVars, redisVars, view, rows, last>>

\* flush() returns: each record has reached the topic and with it the table,
\* where the newest version stays (ReplacingMergeTree(queried_at), FINAL), or
\* the producer has given it up, and flush() does not tell; or send() has
\* raised, and the records after it are not sent.
Flush(s) ==
  /\ Goes(s, "flushing", "idle")
  /\ \E lost \in SUBSET Published(s) :
       /\ view' = [p \in Positions |->
                     IF p \in Published(s) \ lost /\ queriedAt[s] >= view[p].version
                     THEN [holding |-> answer[s][p], version |-> queriedAt[s]] ELSE view[p]]
       /\ Completes(s, lost)
  /\ Forgets(s)
  /\ UNCHANGED <<syncKind, accountVars, redisVars, rows, overtaken>>

\* Mutant: TRUNCATE is left out when there is nothing to insert.
TruncateIfHeld(s) ==
  /\ syncKind = "clickhouse"
  /\ Goes(s, "answered", "truncated")
  /\ rows' = IF Held(s) = {} THEN rows ELSE {}
  /\ Overtakes(s) /\ Voids
  /\ UNCHANGED <<syncKind, accountVars, askVars, redisVars, view>>

Truncate(s) ==
  /\ syncKind = "clickhouse"
  /\ Goes(s, "answered", "truncated")
  /\ rows' = {}
  /\ Overtakes(s) /\ Voids
  /\ UNCHANGED <<syncKind, accountVars, askVars, redisVars, view>>

Insert(s) ==
  /\ Goes(s, "truncated", "idle")
  /\ rows' = rows \cup {<<p, queriedAt[s]>> : p \in Held(s)}
  /\ Overtakes(s) /\ Completes(s, {}) /\ Forgets(s)
  /\ UNCHANGED <<syncKind, accountVars, redisVars, view>>

ClickHouseFails(s) ==
  /\ syncKind = "clickhouse"
  /\ Goes(s, "answered", "idle") \/ Goes(s, "truncated", "idle")
  /\ Forgets(s)
  /\ UNCHANGED <<syncKind, accountVars, redisVars, view, rows, overtaken, last>>

-----------------------------------------------------------------------------
PositionNext ==
  \/ \E p \in Positions : Trade(p)
  \/ \E s \in Syncers :
       \/ Query(s) \/ Answered(s) \/ QueryFails(s)
       \/ ReadIndex(s) \/ Execute(s) \/ RedisFails(s) \/ CollectorStops(s)
       \/ Publish(s) \/ Flush(s) \/ Truncate(s) \/ Insert(s) \/ ClickHouseFails(s)

-----------------------------------------------------------------------------
(***************************************************************************)
(* Properties                                                               *)
(***************************************************************************)

Cleanly(k) == syncKind = k /\ last.clean /\ last.version > 0
LastHeld == {p \in Positions : last.answer[p] = "held"}

\* The index and the fields of the snapshot in Redis name the same positions,
\* however the reads and MULTI blocks of several collectors interleave.
IndexIsSnapshot == index = {p \in Positions : snapshot[p] # 0}

\* A collector that no other overtook leaves exactly the held positions of its
\* query, each written by it: it also repairs what overlapping collectors left.
RedisShowsLast ==
  Cleanly("redis") =>
    /\ \A p \in Positions : snapshot[p] = IF p \in LastHeld THEN last.version ELSE 0
    /\ count = Cardinality(index)

\* After a command of which no record was lost and that no other overtook,
\* the view shows every position that its query returned as it was returned,
\* whatever earlier commands have left: a position that was closed and still
\* has open orders is no longer shown as held.
ViewShowsReturned ==
  Cleanly("kafka") =>
    \A p \in Positions : last.answer[p] # "none" =>
      view[p] = [holding |-> last.answer[p], version |-> last.version]
        \/ view[p].version > last.version

\* clickhouse_position_setup.sql: the table holds the held positions of the
\* last query and nothing else, when no other command came in between and
\* none has truncated it since.
TableIsLastQuery ==
  Cleanly("clickhouse") =>
    rows = {<<p, last.version>> : p \in LastHeld}

=============================================================================
