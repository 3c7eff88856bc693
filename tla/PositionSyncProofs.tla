------------------------- MODULE PositionSyncProofs -------------------------
(***************************************************************************)
(* The position commands: what the storages show, for any number of         *)
(* positions, processes and queries, whatever they ask for.                 *)
(***************************************************************************)
EXTENDS CommandLine, FiniteSetTheorems, TLAPS

-----------------------------------------------------------------------------
(***************************************************************************)
(* The inductive invariant                                                  *)
(***************************************************************************)

\* A place of a process belongs to one command, and nothing is written before
\* a command has begun.
OwnPlaces ==
  /\ \A s \in Syncers : /\ at[s] = "read" => syncKind = "redis"
                        /\ at[s] = "flushing" => syncKind = "kafka"
                        /\ at[s] = "truncated" => syncKind = "clickhouse"
  /\ syncKind = "off" => ~last.clean

\* A process that has an answer has taken its queried_at, and one that writes
\* to Redis or Kafka has taken it before.
QueryNumbered ==
  \A s \in Syncers :
    at[s] \notin {"idle", "ended"} /\ ~(at[s] = "sent" /\ syncKind = "clickhouse") =>
      queriedAt[s] # 0

\* What a process has seen or left is still there unless it was overtaken.
NotOvertaken ==
  \A s \in Syncers \ overtaken :
    /\ at[s] = "read" => existing[s] = index
    /\ at[s] = "truncated" => rows = {}

PositionInv ==
  /\ PositionTypeOK /\ OwnPlaces /\ QueryNumbered /\ NotOvertaken
  /\ IndexIsSnapshot /\ RedisShowsLast /\ ViewShowsReturned /\ TableIsLastQuery

\* The storages and the last write are as they were.
Unwritten == UNCHANGED <<syncKind, redisVars, view, rows, last>>

-----------------------------------------------------------------------------
(***************************************************************************)
(* Initial state and steps that write nothing                               *)
(***************************************************************************)

LEMMA PositionInitInv == Init => PositionInv
<1> SUFFICES ASSUME PositionInit PROVE PositionInv
  BY DEF Init
<1> USE DEF PositionInit
<1>1. PositionTypeOK
  <2>1. 0 \in 0..Cardinality(Positions)
    BY FS_CardinalityType, PositionAssumption DEF PositionAssumption
  <2> QED BY <2>1, PositionAssumption
     DEF PositionTypeOK, PositionAssumption, Nothing, Holdings, Versions, Write
<1>2. OwnPlaces /\ QueryNumbered /\ NotOvertaken
  BY DEF OwnPlaces, QueryNumbered, NotOvertaken
<1>3. IndexIsSnapshot
  BY DEF IndexIsSnapshot
<1>4. RedisShowsLast /\ ViewShowsReturned /\ TableIsLastQuery
  BY DEF RedisShowsLast, ViewShowsReturned, TableIsLastQuery, Cleanly
<1> QED BY <1>1, <1>2, <1>3, <1>4 DEF PositionInv

LEMMA PositionStutters == PositionInv /\ UNCHANGED positionVars => PositionInv'
BY DEF PositionInv, positionVars, accountVars, askVars, redisVars, PositionTypeOK, OwnPlaces,
       QueryNumbered, NotOvertaken, IndexIsSnapshot, RedisShowsLast, ViewShowsReturned,
       TableIsLastQuery, Cleanly, LastHeld

\* The four properties speak of the storages and of the last write only.
LEMMA UnwrittenKeepsProperties ==
  ASSUME PositionInv, Unwritten
  PROVE  /\ IndexIsSnapshot' /\ RedisShowsLast' /\ ViewShowsReturned' /\ TableIsLastQuery'
BY DEF PositionInv, Unwritten, redisVars, IndexIsSnapshot, RedisShowsLast, ViewShowsReturned,
       TableIsLastQuery, Cleanly, LastHeld

LEMMA TradeInv ==
  ASSUME PositionInv, NEW p \in Positions, Trade(p)
  PROVE  PositionInv'
<1> USE DEF Trade, Goes,  accountVars, askVars, redisVars
<1>1. PositionTypeOK'
  BY PositionAssumption DEF PositionInv, PositionTypeOK, PositionAssumption, Versions, Holdings
<1>2. OwnPlaces' /\ QueryNumbered' /\ NotOvertaken'
  BY DEF PositionInv, OwnPlaces, QueryNumbered, NotOvertaken, PositionTypeOK, Versions
<1>3. IndexIsSnapshot' /\ RedisShowsLast' /\ ViewShowsReturned' /\ TableIsLastQuery'
  BY UnwrittenKeepsProperties DEF Unwritten
<1> QED BY <1>1, <1>2, <1>3 DEF PositionInv

LEMMA QueryInv ==
  ASSUME PositionInv, NEW s \in Syncers, Query(s)
  PROVE  PositionInv'
<1> USE DEF Query, Goes, Stamp,  accountVars, askVars, redisVars
<1>1. PositionTypeOK'
  BY PositionAssumption DEF PositionInv, PositionTypeOK, PositionAssumption, Versions, Holdings
<1>2. OwnPlaces' /\ QueryNumbered' /\ NotOvertaken'
  BY DEF PositionInv, OwnPlaces, QueryNumbered, NotOvertaken, PositionTypeOK, Versions
<1>3. IndexIsSnapshot' /\ RedisShowsLast' /\ ViewShowsReturned' /\ TableIsLastQuery'
  BY UnwrittenKeepsProperties DEF Unwritten
<1> QED BY <1>1, <1>2, <1>3 DEF PositionInv

LEMMA AnsweredInv ==
  ASSUME PositionInv, NEW s \in Syncers, Answered(s)
  PROVE  PositionInv'
<1> USE DEF Answered, Goes, Stamp,  accountVars, askVars, redisVars
<1>1. PositionTypeOK'
  BY PositionAssumption DEF PositionInv, PositionTypeOK, PositionAssumption, Versions, Holdings
<1>2. OwnPlaces' /\ QueryNumbered' /\ NotOvertaken'
  BY DEF PositionInv, OwnPlaces, QueryNumbered, NotOvertaken, PositionTypeOK, Versions
<1>3. IndexIsSnapshot' /\ RedisShowsLast' /\ ViewShowsReturned' /\ TableIsLastQuery'
  BY UnwrittenKeepsProperties DEF Unwritten
<1> QED BY <1>1, <1>2, <1>3 DEF PositionInv

LEMMA QueryFailsInv ==
  ASSUME PositionInv, NEW s \in Syncers, QueryFails(s)
  PROVE  PositionInv'
<1> USE DEF QueryFails, Goes, Forgets, AfterFailure, Nothing, accountVars, askVars, redisVars
<1>1. PositionTypeOK'
  BY PositionAssumption DEF PositionInv, PositionTypeOK, PositionAssumption, Versions, Holdings
<1>2. OwnPlaces' /\ QueryNumbered' /\ NotOvertaken'
  BY DEF PositionInv, OwnPlaces, QueryNumbered, NotOvertaken, PositionTypeOK, Versions
<1>3. IndexIsSnapshot' /\ RedisShowsLast' /\ ViewShowsReturned' /\ TableIsLastQuery'
  BY UnwrittenKeepsProperties DEF Unwritten
<1> QED BY <1>1, <1>2, <1>3 DEF PositionInv

LEMMA ReadIndexInv ==
  ASSUME PositionInv, NEW s \in Syncers, ReadIndex(s)
  PROVE  PositionInv'
<1> USE DEF ReadIndex, Goes,  accountVars, askVars, redisVars
<1>1. PositionTypeOK'
  BY PositionAssumption DEF PositionInv, PositionTypeOK, PositionAssumption, Versions, Holdings
<1>2. OwnPlaces' /\ QueryNumbered' /\ NotOvertaken'
  BY DEF PositionInv, OwnPlaces, QueryNumbered, NotOvertaken, PositionTypeOK, Versions
<1>3. IndexIsSnapshot' /\ RedisShowsLast' /\ ViewShowsReturned' /\ TableIsLastQuery'
  BY UnwrittenKeepsProperties DEF Unwritten
<1> QED BY <1>1, <1>2, <1>3 DEF PositionInv

LEMMA RedisFailsInv ==
  ASSUME PositionInv, NEW s \in Syncers, RedisFails(s)
  PROVE  PositionInv'
<1> USE DEF RedisFails, Goes, Forgets, Nothing, accountVars, askVars, redisVars
<1>1. PositionTypeOK'
  BY PositionAssumption DEF PositionInv, PositionTypeOK, PositionAssumption, Versions, Holdings
<1>2. OwnPlaces' /\ QueryNumbered' /\ NotOvertaken'
  BY DEF PositionInv, OwnPlaces, QueryNumbered, NotOvertaken, PositionTypeOK, Versions
<1>3. IndexIsSnapshot' /\ RedisShowsLast' /\ ViewShowsReturned' /\ TableIsLastQuery'
  BY UnwrittenKeepsProperties DEF Unwritten
<1> QED BY <1>1, <1>2, <1>3 DEF PositionInv

LEMMA CollectorStopsInv ==
  ASSUME PositionInv, NEW s \in Syncers, CollectorStops(s)
  PROVE  PositionInv'
<1> USE DEF CollectorStops, Goes,  accountVars, askVars, redisVars
<1>1. PositionTypeOK'
  BY PositionAssumption DEF PositionInv, PositionTypeOK, PositionAssumption, Versions, Holdings
<1>2. OwnPlaces' /\ QueryNumbered' /\ NotOvertaken'
  BY DEF PositionInv, OwnPlaces, QueryNumbered, NotOvertaken, PositionTypeOK, Versions
<1>3. IndexIsSnapshot' /\ RedisShowsLast' /\ ViewShowsReturned' /\ TableIsLastQuery'
  BY UnwrittenKeepsProperties DEF Unwritten
<1> QED BY <1>1, <1>2, <1>3 DEF PositionInv

LEMMA ClickHouseFailsInv ==
  ASSUME PositionInv, NEW s \in Syncers, ClickHouseFails(s)
  PROVE  PositionInv'
<1> USE DEF ClickHouseFails, Goes, Forgets, Nothing, accountVars, askVars, redisVars
<1>1. PositionTypeOK'
  BY PositionAssumption DEF PositionInv, PositionTypeOK, PositionAssumption, Versions, Holdings
<1>2. OwnPlaces' /\ QueryNumbered' /\ NotOvertaken'
  BY DEF PositionInv, OwnPlaces, QueryNumbered, NotOvertaken, PositionTypeOK, Versions
<1>3. IndexIsSnapshot' /\ RedisShowsLast' /\ ViewShowsReturned' /\ TableIsLastQuery'
  BY UnwrittenKeepsProperties DEF Unwritten
<1> QED BY <1>1, <1>2, <1>3 DEF PositionInv

LEMMA PublishInv ==
  ASSUME PositionInv, NEW s \in Syncers, Publish(s)
  PROVE  PositionInv'
<1> USE DEF Publish, Goes, Overtakes, accountVars, askVars, redisVars
<1>1. PositionTypeOK'
  BY PositionAssumption DEF PositionInv, PositionTypeOK, PositionAssumption, Versions, Holdings
<1>2. OwnPlaces' /\ QueryNumbered' /\ NotOvertaken'
  BY DEF PositionInv, OwnPlaces, QueryNumbered, NotOvertaken, PositionTypeOK, Versions
<1>3. IndexIsSnapshot' /\ RedisShowsLast' /\ ViewShowsReturned' /\ TableIsLastQuery'
  BY UnwrittenKeepsProperties DEF Unwritten
<1> QED BY <1>1, <1>2, <1>3 DEF PositionInv

LEMMA PositionBeginInv ==
  ASSUME PositionInv, NEW k \in {"redis", "kafka", "clickhouse"}, PositionBegin(k)
  PROVE  PositionInv'
<1> USE DEF PositionBegin, accountVars, askVars, redisVars
<1>1. PositionTypeOK'
  BY DEF PositionInv, PositionTypeOK
<1>2. ~last.clean /\ OwnPlaces'
  BY DEF PositionInv, OwnPlaces
<1>3. QueryNumbered' /\ NotOvertaken' /\ IndexIsSnapshot'
  BY DEF PositionInv, QueryNumbered, NotOvertaken, IndexIsSnapshot
<1>4. RedisShowsLast' /\ ViewShowsReturned' /\ TableIsLastQuery'
  BY <1>2 DEF RedisShowsLast, ViewShowsReturned, TableIsLastQuery, Cleanly
<1> QED BY <1>1, <1>2, <1>3, <1>4 DEF PositionInv

-----------------------------------------------------------------------------
(***************************************************************************)
(* Steps that write                                                         *)
(***************************************************************************)

\* The number of held positions is a count the meta HASH can hold.
LEMMA HeldCount ==
  ASSUME NEW S \in SUBSET Positions
  PROVE  Cardinality(S) \in 0..Cardinality(Positions)
BY FS_Subset, FS_CardinalityType, PositionAssumption DEF PositionAssumption

\* Everybody who is busy has been overtaken after s has written.
LEMMA OthersOvertaken ==
  ASSUME NEW s \in Syncers, Overtakes(s), NEW o \in Syncers \ overtaken', o # s
  PROVE  at[o] \in {"idle", "ended"}
BY DEF Overtakes

\* The process that completes its write has a record of its own query.
LEMMA CompletesTyped ==
  ASSUME PositionTypeOK, NEW s \in Syncers, NEW lost, Completes(s, lost)
  PROVE  last' \in Write
BY DEF PositionTypeOK, Completes, Write

\* A collector that was not overtaken deletes exactly what is in the index and
\* no longer held: its own writes are then the whole snapshot.
LEMMA ExecuteInv ==
  ASSUME PositionInv, NEW s \in Syncers, Execute(s)
  PROVE  PositionInv'
<1> DEFINE stale == existing[s] \ Held(s)
<1>0. /\ at[s] = "read" /\ syncKind = "redis" /\ syncKind' = "redis"
      /\ Held(s) \subseteq Positions /\ existing[s] \subseteq Positions
      /\ index \subseteq Positions /\ queriedAt[s] \in Versions /\ queriedAt[s] # 0
      /\ PositionTypeOK /\ index = {p \in Positions : snapshot[p] # 0}
  BY DEF PositionInv, PositionTypeOK, OwnPlaces, QueryNumbered, IndexIsSnapshot, Execute, Goes,
         Held
<1>1. /\ snapshot' = [p \in Positions |-> IF p \in Held(s) THEN queriedAt[s]
                                          ELSE IF p \in stale THEN 0 ELSE snapshot[p]]
      /\ index' = (index \ stale) \cup Held(s)
      /\ count' = Cardinality(Held(s))
  BY DEF Execute, Replace
<1>2. /\ at' \in [Syncers -> {"idle", "sent", "answered", "read", "flushing", "truncated", "ended"}]
      /\ at'[s] \in {"idle", "ended"}
      /\ \A o \in Syncers \ {s} : at'[o] = at[o]
  BY <1>0 DEF Execute, Goes, PositionTypeOK
<1>3. PositionTypeOK'
  <2>1. last' \in Write
    BY <1>0, CompletesTyped DEF Execute
  <2>2. count' \in 0..Cardinality(Positions)
    BY <1>0, <1>1, HeldCount
  <2>3. snapshot' \in [Positions -> Versions] /\ index' \subseteq Positions
    <3>1. 0 \in Versions
      BY PositionAssumption DEF PositionAssumption, Versions
    <3> QED BY <1>0, <1>1, <3>1 DEF PositionTypeOK
  <2>4. /\ answer' \in [Syncers -> [Positions -> Holdings]]
        /\ existing' \in [Syncers -> SUBSET Positions]
        /\ queriedAt' \in [Syncers -> Versions] /\ queries' \in 0..MaxQueries /\ stamps' \in Versions
    BY <1>0, PositionAssumption
       DEF Execute, Forgets, PositionTypeOK, Nothing, Holdings, PositionAssumption, Versions
  <2>5. overtaken' \subseteq Syncers
    BY <1>0 DEF Execute, Overtakes, PositionTypeOK
  <2> QED BY <1>0, <1>2, <2>1, <2>2, <2>3, <2>4, <2>5
     DEF Execute, PositionTypeOK, accountVars
<1>4. OwnPlaces' /\ QueryNumbered'
  BY <1>0, <1>2 DEF PositionInv, OwnPlaces, QueryNumbered, PositionTypeOK, Execute, Forgets
<1>5. NotOvertaken'
  BY <1>2, OthersOvertaken DEF NotOvertaken, Execute
<1>6. IndexIsSnapshot'
  BY <1>0, <1>1 DEF IndexIsSnapshot
<1>7. RedisShowsLast'
  <2> SUFFICES ASSUME last'.clean PROVE RedisShowsLast'
    BY DEF RedisShowsLast, Cleanly
  <2>1. s \notin overtaken /\ last'.version = queriedAt[s] /\ LastHeld' = Held(s)
    BY DEF Execute, Completes, LastHeld, Held
  <2>2. existing[s] = index
    BY <1>0, <2>1 DEF PositionInv, NotOvertaken
  <2>3. index' = Held(s)
    BY <1>0, <1>1, <2>2
  <2>4. \A p \in Positions : snapshot'[p] = IF p \in Held(s) THEN queriedAt[s] ELSE 0
    BY <1>0, <1>1, <2>2
  <2> QED BY <1>1, <2>1, <2>3, <2>4 DEF RedisShowsLast
<1>8. ViewShowsReturned' /\ TableIsLastQuery'
  BY <1>0 DEF ViewShowsReturned, TableIsLastQuery, Cleanly
<1> QED BY <1>3, <1>4, <1>5, <1>6, <1>7, <1>8 DEF PositionInv

\* Whatever records are lost, a record that arrives replaces an older one.
LEMMA FlushInv ==
  ASSUME PositionInv, NEW s \in Syncers, Flush(s)
  PROVE  PositionInv'
<1> PICK lost \in SUBSET Published(s) :
       /\ view' = [p \in Positions |->
                     IF p \in Published(s) \ lost /\ queriedAt[s] >= view[p].version
                     THEN [holding |-> answer[s][p], version |-> queriedAt[s]] ELSE view[p]]
       /\ Completes(s, lost)
  BY DEF Flush
<1>0. /\ at[s] = "flushing" /\ syncKind = "kafka" /\ syncKind' = "kafka"
      /\ queriedAt[s] \in Versions /\ PositionTypeOK
      /\ at' = [at EXCEPT ![s] = "idle"]
      /\ UNCHANGED <<index, snapshot, count, rows, overtaken>>
  BY DEF PositionInv, PositionTypeOK, OwnPlaces, Flush, Goes, redisVars
<1>1. PositionTypeOK'
  <2>1. last' \in Write
    BY <1>0, CompletesTyped
  <2>2. view' \in [Positions -> [holding : Holdings, version : Versions]]
    BY <1>0 DEF PositionTypeOK
  <2>3. /\ answer' \in [Syncers -> [Positions -> Holdings]]
        /\ existing' \in [Syncers -> SUBSET Positions]
        /\ queriedAt' \in [Syncers -> Versions] /\ queries' \in 0..MaxQueries /\ stamps' \in Versions
    BY <1>0, PositionAssumption
       DEF Flush, Forgets, PositionTypeOK, Nothing, Holdings, PositionAssumption, Versions
  <2> QED BY <1>0, <2>1, <2>2, <2>3 DEF Flush, PositionTypeOK, accountVars
<1>2. OwnPlaces' /\ QueryNumbered' /\ NotOvertaken'
  BY <1>0 DEF PositionInv, OwnPlaces, QueryNumbered, NotOvertaken, PositionTypeOK, Flush, Forgets
<1>3. IndexIsSnapshot' /\ RedisShowsLast' /\ TableIsLastQuery'
  BY <1>0 DEF PositionInv, IndexIsSnapshot, RedisShowsLast, TableIsLastQuery, Cleanly
<1>4. ViewShowsReturned'
  <2> SUFFICES ASSUME last'.clean, NEW p \in Positions, last'.answer[p] # "none"
               PROVE  \/ view'[p] = [holding |-> last'.answer[p], version |-> last'.version]
                      \/ view'[p].version > last'.version
    BY DEF ViewShowsReturned, Cleanly
  <2>1. lost = {} /\ last'.answer = answer[s] /\ last'.version = queriedAt[s]
    BY DEF Completes
  <2>2. p \in Published(s) \ lost
    BY <2>1 DEF Published, Returned
  <2>3. view[p].version \in Nat /\ queriedAt[s] \in Nat
    BY <1>0, PositionAssumption DEF PositionTypeOK, Versions, PositionAssumption
  <2>4. CASE queriedAt[s] >= view[p].version
    BY <2>1, <2>2, <2>4
  <2>5. CASE ~(queriedAt[s] >= view[p].version)
    BY <2>1, <2>3, <2>5
  <2> QED BY <2>4, <2>5
<1> QED BY <1>1, <1>2, <1>3, <1>4 DEF PositionInv

LEMMA TruncateInv ==
  ASSUME PositionInv, NEW s \in Syncers, Truncate(s)
  PROVE  PositionInv'
<1>0. /\ at[s] = "answered" /\ at' = [at EXCEPT ![s] = "truncated"]
      /\ syncKind = "clickhouse" /\ syncKind' = "clickhouse" /\ PositionTypeOK
      /\ rows' = {} /\ last' = [last EXCEPT !.clean = FALSE]
      /\ UNCHANGED <<index, snapshot, count, view, existing, queriedAt>>
  BY DEF PositionInv, Truncate, Goes, Voids, redisVars, askVars
<1>1. PositionTypeOK'
  BY <1>0 DEF Truncate, Overtakes, PositionTypeOK, Write, accountVars, askVars
<1>2. OwnPlaces' /\ QueryNumbered'
  BY <1>0 DEF PositionInv, OwnPlaces, QueryNumbered, PositionTypeOK
<1>3. NotOvertaken'
  <2>1. \A o \in Syncers : at[o] # "read"
    BY <1>0 DEF PositionInv, OwnPlaces
  <2> QED BY <1>0, <2>1 DEF NotOvertaken, PositionTypeOK
<1>4. ~last'.clean
  BY <1>0 DEF PositionTypeOK, Write
<1>5. IndexIsSnapshot' /\ RedisShowsLast' /\ ViewShowsReturned' /\ TableIsLastQuery'
  BY <1>0, <1>4 DEF PositionInv, IndexIsSnapshot, RedisShowsLast, ViewShowsReturned,
                    TableIsLastQuery, Cleanly
<1> QED BY <1>1, <1>2, <1>3, <1>5 DEF PositionInv

\* A command that was not overtaken inserts into the table it has emptied.
LEMMA InsertInv ==
  ASSUME PositionInv, NEW s \in Syncers, Insert(s)
  PROVE  PositionInv'
<1>0. /\ at[s] = "truncated" /\ at' = [at EXCEPT ![s] = "idle"]
      /\ syncKind = "clickhouse" /\ syncKind' = "clickhouse" /\ PositionTypeOK
      /\ rows' = rows \cup {<<p, queriedAt[s]>> : p \in Held(s)}
      /\ UNCHANGED <<index, snapshot, count, view>>
      /\ Held(s) \subseteq Positions /\ queriedAt[s] \in Versions
  BY DEF PositionInv, Insert, Goes, redisVars, OwnPlaces, PositionTypeOK, Held
<1>1. PositionTypeOK'
  <2>1. last' \in Write
    BY <1>0, CompletesTyped DEF Insert
  <2>2. rows' \subseteq Positions \X Versions
    BY <1>0 DEF PositionTypeOK
  <2>3. /\ answer' \in [Syncers -> [Positions -> Holdings]]
        /\ existing' \in [Syncers -> SUBSET Positions]
        /\ queriedAt' \in [Syncers -> Versions] /\ queries' \in 0..MaxQueries /\ stamps' \in Versions
    BY <1>0, PositionAssumption
       DEF Insert, Forgets, PositionTypeOK, Nothing, Holdings, PositionAssumption, Versions
  <2> QED BY <1>0, <2>1, <2>2, <2>3 DEF Insert, Overtakes, PositionTypeOK, accountVars
<1>2. OwnPlaces' /\ QueryNumbered'
  BY <1>0 DEF PositionInv, OwnPlaces, QueryNumbered, PositionTypeOK, Insert, Forgets
<1>3. NotOvertaken'
  BY <1>0, OthersOvertaken DEF NotOvertaken, Insert, PositionTypeOK
<1>4. IndexIsSnapshot' /\ RedisShowsLast' /\ ViewShowsReturned'
  BY <1>0 DEF PositionInv, IndexIsSnapshot, RedisShowsLast, ViewShowsReturned, Cleanly
<1>5. TableIsLastQuery'
  <2> SUFFICES ASSUME last'.clean PROVE TableIsLastQuery'
    BY DEF TableIsLastQuery, Cleanly
  <2>1. s \notin overtaken /\ last'.version = queriedAt[s] /\ LastHeld' = Held(s)
    BY DEF Insert, Completes, LastHeld, Held
  <2>2. rows = {}
    BY <1>0, <2>1 DEF PositionInv, NotOvertaken
  <2> QED BY <1>0, <2>1, <2>2 DEF TableIsLastQuery
<1> QED BY <1>1, <1>2, <1>3, <1>4, <1>5 DEF PositionInv

-----------------------------------------------------------------------------
(***************************************************************************)
(* All steps                                                                *)
(***************************************************************************)

LEMMA PositionStepInv == PositionInv /\ [Next]_vars => PositionInv'
<1> SUFFICES ASSUME PositionInv, [Next]_vars PROVE PositionInv'
  OBVIOUS
<1>1. CASE \E k \in {"redis", "kafka", "clickhouse"} : PositionBegin(k)
  BY <1>1, PositionBeginInv
<1>2. CASE PositionNext
  <2>1. CASE \E p \in Positions : Trade(p)
    BY <2>1, TradeInv
  <2>2. ASSUME NEW s \in Syncers, Query(s) \/ Answered(s) \/ QueryFails(s)
        PROVE  PositionInv'
    BY <2>2, QueryInv, AnsweredInv, QueryFailsInv
  <2>3. ASSUME NEW s \in Syncers,
               ReadIndex(s) \/ Execute(s) \/ RedisFails(s) \/ CollectorStops(s)
        PROVE  PositionInv'
    BY <2>3, ReadIndexInv, ExecuteInv, RedisFailsInv, CollectorStopsInv
  <2>4. ASSUME NEW s \in Syncers,
               Publish(s) \/ Flush(s) \/ Truncate(s) \/ Insert(s) \/ ClickHouseFails(s)
        PROVE  PositionInv'
    BY <2>4, PublishInv, FlushInv, TruncateInv, InsertInv, ClickHouseFailsInv
  <2> QED BY <1>2, <2>1, <2>2, <2>3, <2>4 DEF PositionNext
<1>3. CASE UNCHANGED positionVars
  BY <1>3, PositionStutters
<1> QED
  <2>1. CASE Main
    BY <2>1, <1>1, <1>3
       DEF Main, Handler, CmdUserDataStream, CmdSpotPnl, CmdFuturesPnl, CmdFuturesPositions,
           CmdFuturesPositionsSyncRedis, CmdFetchKlines, CmdFetchOi, CmdEngine
  <2>2. CASE Next /\ ~Main
    BY <2>2, <1>2, <1>3 DEF Next
  <2> QED BY <2>1, <2>2, <1>3 DEF vars

LEMMA PositionInvAlways == FairSpec => []PositionInv
BY PositionInitInv, PositionStepInv, PTL DEF FairSpec

-----------------------------------------------------------------------------
\* The index and the fields of the Redis snapshot name the same positions,
\* however the reads of the index and the MULTI blocks of any number of
\* collectors interleave.
THEOREM IndexIsSnapshotAlways == FairSpec => []IndexIsSnapshot
<1>1. PositionInv => IndexIsSnapshot
  BY DEF PositionInv
<1> QED BY <1>1, PositionInvAlways, PTL

\* write_positions: a collector that no other overtook leaves exactly the held
\* positions of its query, and their number, also after collectors that
\* disturbed each other and left positions they had never read.
THEOREM RedisShowsLastAlways == FairSpec => []RedisShowsLast
<1>1. PositionInv => RedisShowsLast
  BY DEF PositionInv
<1> QED BY <1>1, PositionInvAlways, PTL

\* v_current_futures_position: what a command without losses returned is shown
\* as it was returned, or a later query of it is.
THEOREM ViewShowsReturnedAlways == FairSpec => []ViewShowsReturned
<1>1. PositionInv => ViewShowsReturned
  BY DEF PositionInv
<1> QED BY <1>1, PositionInvAlways, PTL

\* write_current_positions: TRUNCATE and INSERT leave the held positions of
\* the last query, unless another command came in between.
THEOREM TableIsLastQueryAlways == FairSpec => []TableIsLastQuery
<1>1. PositionInv => TableIsLastQuery
  BY DEF PositionInv
<1> QED BY <1>1, PositionInvAlways, PTL

=============================================================================
