-------------------------- MODULE CommandLineProofs -------------------------
(***************************************************************************)
(* The user data stream: the connected key is renewed, and a stop deletes   *)
(* the key, for any number of keys and signals.  The profit calculators:    *)
(* the formulas, and the records that are published while prices change,    *)
(* for any positions, prices and fees.  The types of all commands.          *)
(***************************************************************************)
EXTENDS PositionSyncProofs, KlineHistoryProofs, RiskGuardProofs

-----------------------------------------------------------------------------
(***************************************************************************)
(* The user data stream: the inductive invariant                            *)
(***************************************************************************)

\* A frame of stop() that has closed the connection has set the event first.
StopIsSet == \A i \in DOMAIN handler : handler[i] # "closing" => streamStop

\* Only stop() separates the key of the program from the key of the URL, and
\* there is no key before the first one is created.
OneKey ==
  /\ ~streamStop => listenKey = urlKey
  /\ streamMain \in {"off", "creating"} => listenKey = NoKey
  /\ streamMain = "ended" /\ ~streamStop => listenKey = NoKey
  /\ streamMain \in {"loop", "entering", "running", "left", "sleeping", "recreating"} =>
       urlKey \in Keys

\* Until stop() has begun, a key that grows older than the keepalive interval
\* without being due has missed its renewal.
RenewedInTime ==
  ~streamStop =>
    /\ keeper # "done"
    /\ \A k \in Keys : k = listenKey =>
         \/ k \in missed
         \/ keyAge[k] = 0 /\ keyStatus[k] # "expired"
         \/ keyAge[k] = 1 /\ keyStatus[k] # "expired" /\ keeper \in {"due", "checked"}

\* A key that is alive is the program's or was lost sight of; when a stop()
\* has come to its end, the program's was created after its beginning.
NoKeyUnseen ==
  \A k \in Keys : Active(k) =>
    \/ k \in abandoned
    \/ k = listenKey /\ (streamStop /\ handler = << >> => k \in late)

UserStreamInv ==
  UserStreamTypeOK /\ StopIsSet /\ OneKey /\ RenewedInTime /\ NoKeyUnseen

-----------------------------------------------------------------------------
LEMMA UserStreamInitInv == Init => UserStreamInv
<1> SUFFICES ASSUME UserStreamInit PROVE UserStreamInv
  BY DEF Init
<1> USE DEF UserStreamInit
<1>1. UserStreamTypeOK
  <2>1. << >> \in Seq({"closing", "joining", "deleting"}) /\ Len(<< >>) = 0
    BY EmptySeq
  <2>2. Len(handler) <= signals /\ signals \in 0..MaxSignals
    BY <2>1, UserStreamAssumption DEF UserStreamAssumption
  <2>3. /\ keyStatus \in [Keys -> {"none", "active", "closed", "expired"}]
        /\ keyAge \in [Keys -> 0..2]
    OBVIOUS
  <2> QED BY <2>1, <2>2, <2>3, Zenon DEF UserStreamTypeOK
<1>2. StopIsSet /\ OneKey /\ RenewedInTime /\ NoKeyUnseen
  BY UserStreamAssumption DEF StopIsSet, OneKey, RenewedInTime, NoKeyUnseen, Active,
     UserStreamAssumption
<1> QED BY <1>1, <1>2 DEF UserStreamInv

LEMMA UserStreamStutters == UserStreamInv /\ UNCHANGED userStreamVars => UserStreamInv'
BY DEF UserStreamInv, userStreamVars, runVars, stopVars, keyVars, UserStreamTypeOK, StopIsSet,
       OneKey, RenewedInTime, NoKeyUnseen, Active

-----------------------------------------------------------------------------
(***************************************************************************)
(* run()                                                                    *)
(***************************************************************************)

LEMMA KeyGrantedInv ==
  ASSUME UserStreamInv, NEW k \in Keys, CreateKey(k) \/ RecreateKey(k)
  PROVE  UserStreamInv'
<1> USE DEF CreateKey, RecreateKey, Grant, Granted, AtRun, stopVars
<1>1. UserStreamTypeOK'
  BY DEF UserStreamInv, UserStreamTypeOK
<1>2. StopIsSet'
  BY DEF UserStreamInv, StopIsSet
<1>3. OneKey'
  BY DEF UserStreamInv, OneKey
<1>4. RenewedInTime'
  BY DEF UserStreamInv, RenewedInTime, UserStreamTypeOK
<1>5. NoKeyUnseen'
  BY DEF UserStreamInv, NoKeyUnseen, Active, UserStreamTypeOK
<1> QED BY <1>1, <1>2, <1>3, <1>4, <1>5 DEF UserStreamInv

\* Where run() stands decides about the keys only at its end.
LEMMA RunMovesInv ==
  ASSUME UserStreamInv,
         \/ UserStreamBegin \/ CreateFails \/ StreamLoop \/ StreamConnects
         \/ StreamDisconnects \/ StreamLeft \/ StreamSlept \/ RecreateFails
  PROVE  UserStreamInv'
<1> USE DEF UserStreamBegin, CreateFails, StreamLoop, StreamConnects, StreamDisconnects,
            StreamLeft, StreamSlept, RecreateFails, AtRun, stopVars, keyVars
<1>1. UserStreamTypeOK'
  BY DEF UserStreamInv, UserStreamTypeOK
<1>2. StopIsSet' /\ RenewedInTime' /\ NoKeyUnseen'
  BY DEF UserStreamInv, StopIsSet, RenewedInTime, NoKeyUnseen, Active
<1>3. OneKey'
  BY DEF UserStreamInv, OneKey
<1> QED BY <1>1, <1>2, <1>3 DEF UserStreamInv

-----------------------------------------------------------------------------
(***************************************************************************)
(* stop()                                                                   *)
(***************************************************************************)

Frames == {"closing", "joining", "deleting"}

\* A handler whose first frame is replaced or removed.
LEMMA FrameReplaced ==
  ASSUME NEW h \in Seq(Frames), h # << >>, NEW f \in Frames
  PROVE  LET g == << f >> \o Tail(h) IN
           /\ g \in Seq(Frames) /\ Len(g) = Len(h) /\ g # << >>
           /\ \A i \in DOMAIN g : g[i] = f \/ (i \in DOMAIN h /\ g[i] = h[i])
<1>1. Tail(h) \in Seq(Frames) /\ Len(Tail(h)) = Len(h) - 1
      /\ \A i \in 1..Len(h) - 1 : Tail(h)[i] = h[i + 1]
  BY HeadTailProperties
<1>2. << f >> \in Seq(Frames) /\ Len(<< f >>) = 1 /\ << f >>[1] = f
  OBVIOUS
<1> QED BY <1>1, <1>2, ConcatProperties, LenProperties

LEMMA SignalInv ==
  ASSUME UserStreamInv, Signal
  PROVE  UserStreamInv'
<1>1. /\ handler' \in Seq(Frames)
      /\ Len(handler') = Len(handler) + 1
      /\ handler' # << >>
      /\ \A i \in DOMAIN handler' :
           (i = 1) \/ (i - 1 \in DOMAIN handler /\ handler'[i] = handler[i - 1])
      /\ handler'[1] = "closing"
  BY ConcatProperties, LenProperties DEF Signal, UserStreamInv, UserStreamTypeOK, Frames
<1>2. UserStreamTypeOK'
  BY <1>1, LenProperties, UserStreamAssumption
     DEF UserStreamInv, UserStreamTypeOK, Signal, runVars, keyVars, Frames, UserStreamAssumption
<1>3. StopIsSet'
  BY <1>1 DEF UserStreamInv, StopIsSet, Signal
<1>4. OneKey' /\ RenewedInTime'
  BY DEF UserStreamInv, OneKey, RenewedInTime, Signal, runVars, keyVars
<1>5. NoKeyUnseen'
  BY <1>1 DEF UserStreamInv, NoKeyUnseen, Active, Signal, runVars, keyVars
<1> QED BY <1>2, <1>3, <1>4, <1>5 DEF UserStreamInv

LEMMA StopClosesInv ==
  ASSUME UserStreamInv, StopCloses
  PROVE  UserStreamInv'
<1>1. handler' \in Seq(Frames) /\ Len(handler') = Len(handler) /\ handler' # << >>
  BY FrameReplaced DEF StopCloses, InHandler, UserStreamInv, UserStreamTypeOK, Frames
<1>2. UserStreamTypeOK'
  BY <1>1 DEF UserStreamInv, UserStreamTypeOK, StopCloses, keyVars, Frames
<1>3. StopIsSet' /\ RenewedInTime'
  BY DEF StopIsSet, RenewedInTime, StopCloses
<1>4. OneKey'
  BY DEF UserStreamInv, OneKey, StopCloses
<1>5. NoKeyUnseen'
  BY <1>1 DEF UserStreamInv, NoKeyUnseen, Active, StopCloses, keyVars
<1> QED BY <1>2, <1>3, <1>4, <1>5 DEF UserStreamInv

LEMMA StopJoinsInv ==
  ASSUME UserStreamInv, StopJoins
  PROVE  UserStreamInv'
<1>1. handler' \in Seq(Frames) /\ Len(handler') = Len(handler) /\ handler' # << >>
  BY FrameReplaced DEF StopJoins, InHandler, UserStreamInv, UserStreamTypeOK, Frames
<1>2. streamStop
  BY LenProperties DEF StopJoins, InHandler, UserStreamInv, UserStreamTypeOK, StopIsSet
<1>3. UserStreamTypeOK'
  BY <1>1 DEF UserStreamInv, UserStreamTypeOK, StopJoins, runVars, keyVars, Frames
<1>4. StopIsSet' /\ RenewedInTime' /\ OneKey'
  BY <1>2 DEF UserStreamInv, StopIsSet, RenewedInTime, OneKey, StopJoins, runVars
<1>5. NoKeyUnseen'
  BY <1>1 DEF UserStreamInv, NoKeyUnseen, Active, StopJoins, runVars, keyVars
<1> QED BY <1>3, <1>4, <1>5 DEF UserStreamInv

\* stop() has come to its end: the key is deleted or lost sight of.
LEMMA StopDeletesInv ==
  ASSUME UserStreamInv, StopDeletes
  PROVE  UserStreamInv'
<1>1. handler' \in Seq(Frames) /\ Len(handler') = Len(handler) - 1 /\ Len(handler) \in Nat
  BY HeadTailProperties, LenProperties
     DEF StopDeletes, InHandler, UserStreamInv, UserStreamTypeOK, Frames
<1>2. streamStop
  BY LenProperties DEF StopDeletes, InHandler, UserStreamInv, UserStreamTypeOK, StopIsSet
<1>3. UserStreamTypeOK'
  BY <1>1, UserStreamAssumption
     DEF UserStreamInv, UserStreamTypeOK, StopDeletes, Frames, UserStreamAssumption
<1>4. StopIsSet' /\ RenewedInTime' /\ OneKey'
  BY <1>2 DEF UserStreamInv, StopIsSet, RenewedInTime, OneKey, StopDeletes
<1>5. ASSUME NEW k \in Keys, Active(k)' PROVE k \in abandoned'
  <2>1. Active(k) /\ (k # listenKey \/ k \in abandoned')
    BY <1>5, UserStreamAssumption
       DEF UserStreamInv, UserStreamTypeOK, Active, StopDeletes, UserStreamAssumption
  <2>2. k \in abandoned \/ k = listenKey
    BY <2>1 DEF UserStreamInv, NoKeyUnseen
  <2> QED BY <2>1, <2>2 DEF StopDeletes
<1>6. NoKeyUnseen'
  BY <1>5 DEF NoKeyUnseen
<1> QED BY <1>3, <1>4, <1>6 DEF UserStreamInv

-----------------------------------------------------------------------------
(***************************************************************************)
(* The keepalive thread and the exchange                                    *)
(***************************************************************************)

LEMMA KeeperInv ==
  ASSUME UserStreamInv, KeeperStops \/ KeeperChecks \/ KeeperRenews
  PROVE  UserStreamInv'
<1> USE DEF KeeperStops, KeeperChecks, KeeperRenews, runVars, stopVars, keyVars
<1>1. UserStreamTypeOK'
  BY DEF UserStreamInv, UserStreamTypeOK
<1>2. StopIsSet' /\ OneKey' /\ NoKeyUnseen'
  BY DEF UserStreamInv, StopIsSet, OneKey, NoKeyUnseen, Active
<1>3. RenewedInTime'
  BY UserStreamAssumption
     DEF UserStreamInv, UserStreamTypeOK, RenewedInTime, Active, UserStreamAssumption
<1> QED BY <1>1, <1>2, <1>3 DEF UserStreamInv

LEMMA TimeInv ==
  ASSUME UserStreamInv, HalfHour \/ \E k \in Keys : Expire(k)
  PROVE  UserStreamInv'
<1> USE DEF HalfHour, Expire, AtRun, runVars, stopVars
<1>1. UserStreamTypeOK'
  BY DEF UserStreamInv, UserStreamTypeOK
<1>2. StopIsSet' /\ OneKey'
  BY DEF UserStreamInv, StopIsSet, OneKey
<1>3. RenewedInTime'
  BY DEF UserStreamInv, UserStreamTypeOK, RenewedInTime, Active
<1>4. NoKeyUnseen'
  BY DEF UserStreamInv, UserStreamTypeOK, NoKeyUnseen, Active
<1> QED BY <1>1, <1>2, <1>3, <1>4 DEF UserStreamInv

-----------------------------------------------------------------------------
LEMMA UserStreamStepInv == UserStreamInv /\ [Next]_vars => UserStreamInv'
<1> SUFFICES ASSUME UserStreamInv, [Next]_vars PROVE UserStreamInv'
  OBVIOUS
<1>1. CASE UserStreamBegin
  BY <1>1, RunMovesInv
<1>2. CASE UserStreamNext
  <2>1. CASE UserStreamRun
    BY <2>1, KeyGrantedInv, RunMovesInv DEF UserStreamRun
  <2>2. CASE Signal \/ StopHandler
    BY <2>2, SignalInv, StopClosesInv, StopJoinsInv, StopDeletesInv DEF StopHandler
  <2>3. CASE KeeperThread
    BY <2>3, KeeperInv DEF KeeperThread
  <2>4. CASE HalfHour \/ \E k \in Keys : Expire(k)
    BY <2>4, TimeInv
  <2> QED BY <1>2, <2>1, <2>2, <2>3, <2>4 DEF UserStreamNext
<1>3. CASE UNCHANGED userStreamVars
  BY <1>3, UserStreamStutters
<1> QED
  <2>1. CASE Main
    BY <2>1, <1>1, <1>3
       DEF Main, Handler, CmdUserDataStream, CmdSpotPnl, CmdFuturesPnl, CmdFuturesPositions,
           CmdFuturesPositionsSyncRedis, CmdFetchKlines, CmdFetchOi, CmdEngine
  <2>2. CASE Next /\ ~Main
    BY <2>2, <1>2, <1>3 DEF Next
  <2> QED BY <2>1, <2>2, <1>3 DEF vars

LEMMA UserStreamInvAlways == FairSpec => []UserStreamInv
BY UserStreamInitInv, UserStreamStepInv, PTL DEF FairSpec

-----------------------------------------------------------------------------
\* While the stream is up, it listens with the key that the keepalive thread
\* renews, and the exchange lets this key expire only after a renewal of it
\* failed, however reconnections and an interrupting stop() interleave.
THEOREM ConnectedKeyRenewedAlways == FairSpec => []ConnectedKeyRenewed
<1>1. UserStreamInv => ConnectedKeyRenewed
  BY DEF UserStreamInv, OneKey, RenewedInTime, ConnectedKeyRenewed
<1> QED BY <1>1, UserStreamInvAlways, PTL

\* What is active at the end is a key whose DELETE failed or that was replaced,
\* or the key that run() has created after stop() had begun: that is the only
\* way in which the program ends with a key of its own that is active.
THEOREM StoppedKeyDeletedAlways == FairSpec => []StoppedKeyDeleted
<1>1. UserStreamInv => StoppedKeyDeleted
  BY UserStreamAssumption
     DEF UserStreamInv, OneKey, NoKeyUnseen, StoppedKeyDeleted, UserStreamAssumption
<1> QED BY <1>1, UserStreamInvAlways, PTL

-----------------------------------------------------------------------------
(***************************************************************************)
(* The profit calculators: the formulas                                     *)
(***************************************************************************)

LEMMA Terms ==
  ASSUME NEW s \in Symbols, NEW p \in Prices
  PROVE  /\ p \in Int /\ p > 0 /\ FeeRate \in Int /\ FeeScale \in Int
         /\ Book[s].entry \in Int /\ Book[s].quantity \in Int /\ Book[s].leverage \in Int
         /\ Book[s].side \in {"LONG", "SHORT"}
BY PnlAssumption DEF PnlAssumption

LEMMA Algebra ==
  ASSUME NEW e \in Int, NEW q \in Int, NEW l \in Int, NEW p \in Int, NEW F \in Int, NEW R \in Int,
         NEW u \in Int
  PROVE  /\ (p - e) * q * 1 = (p - e) * q
         /\ (p - e) * q * (-1) = (e - p) * q
         /\ 100 * ((F * u - R * (e * q) - R * (p * q)) * l)
              = (F * u - R * (e + p) * q) * l * 100
         /\ p * q * (F - R) - (e * q) * (F + R) = p * q * (F - R) - e * q * (F + R)
         /\ (p - e) * q \in Int /\ (e - p) * q \in Int
BY SMT

\* The records the code computes of a price are those of README's formulas.
LEMMA ComputedTrue ==
  ASSUME NEW s \in Symbols, NEW p \in Prices
  PROVE  RecordTrue(s, [price |-> p, pnl |-> Pnl(s, p), roe |-> Roe(s, p)])
<1> DEFINE e == Book[s].entry
           q == Book[s].quantity
           l == Book[s].leverage
           u == UnrealizedPnl(s, p)
<1>1. /\ p \in Int /\ p > 0 /\ FeeRate \in Int /\ FeeScale \in Int
      /\ e \in Int /\ q \in Int /\ l \in Int /\ Book[s].side \in {"LONG", "SHORT"}
  BY Terms
<1>2. CASE pnlKind = "spot"
  <2>1. Pnl(s, p) = p * q * (FeeScale - FeeRate) - e * q * (FeeScale + FeeRate)
    BY <1>1, <1>2 DEF Pnl, SpotPnl, SellValue, Cost, NotionalValue
  <2>2. Roe(s, p) = Pnl(s, p) * 100
    <3>1. SpotPnl(s, p) \in Int
      BY <1>1 DEF SpotPnl, SellValue, Cost, NotionalValue
    <3> QED BY <1>2, <3>1 DEF Roe, Pnl
  <2> QED BY <1>2, <2>1, <2>2 DEF RecordTrue
<1>3. CASE pnlKind # "spot"
  <2>1. u = (IF Book[s].side = "LONG" THEN p - e ELSE e - p) * q /\ u \in Int
    BY <1>1, Algebra DEF UnrealizedPnl, SideSign
  <2>2. Pnl(s, p) = u
    BY <1>3 DEF Pnl
  <2>3. Roe(s, p) = (FeeScale * u - FeeRate * (e + p) * q) * l * 100
    <3>1. Roe(s, p) = 100 * ((FeeScale * u - FeeRate * (e * q) - FeeRate * (p * q)) * l)
      BY <1>1, <1>3 DEF Roe, UnrealizedPnlWithFee, NotionalValue
    <3> HIDE DEF e, q, l, u
    <3> QED BY <1>1, <2>1, <3>1, Algebra
  <2> HIDE DEF u
  <2> QED BY <1>3, <2>1, <2>2, <2>3 DEF RecordTrue
<1> QED BY <1>2, <1>3

LEMMA Scaled ==
  ASSUME NEW x \in Int, NEW y \in Int, NEW q \in Nat \ {0}
  PROVE  x <= y <=> x * q <= y * q
<1>1. ASSUME NEW a \in Int, NEW b \in Int, a <= b PROVE a * q <= b * q
  <2>1. PICK d \in Nat : b = a + d
    <3>1. b - a \in Nat /\ b = a + (b - a)
      BY <1>1
    <3> QED BY <3>1
  <2>2. (a + d) * q = a * q + d * q /\ d * q \in Nat
    BY SMT
  <2> QED BY <2>1, <2>2
<1>2. ASSUME y + 1 <= x PROVE y * q + q <= x * q
  <2>1. (y + 1) * q = y * q + q
    BY SMT
  <2> QED BY <1>1, <1>2, <2>1
<1>3. x * q \in Int /\ y * q \in Int
  BY SMT
<1> QED BY <1>1, <1>2, <1>3

\* liquidation_price_estimate: a price has reached it, from above for LONG and
\* from below for SHORT, exactly when the loss has reached the margin, which
\* is the notional value by the leverage.  Both are taken times the leverage.
THEOREM LiquidationLosesMargin ==
  ASSUME NEW s \in Symbols, NEW p \in Nat \ {0}
  PROVE  LET reached == IF Book[s].side = "LONG"
                        THEN Book[s].leverage * p <= LiquidationPriceEstimate(s)
                        ELSE Book[s].leverage * p >= LiquidationPriceEstimate(s)
         IN  reached <=> Book[s].leverage * UnrealizedPnl(s, p) <= -NotionalValue(s)
<1> DEFINE e == Book[s].entry
           q == Book[s].quantity
           l == Book[s].leverage
<1>1. /\ p \in Int /\ p > 0 /\ e \in Int /\ q \in Nat \ {0} /\ l \in Int
      /\ Book[s].side \in {"LONG", "SHORT"}
  BY PnlAssumption DEF PnlAssumption
<1>2. CASE Book[s].side = "LONG"
  <2>1. /\ LiquidationPriceEstimate(s) = e * (l - 1)
        /\ UnrealizedPnl(s, p) = (p - e) * q * 1 /\ NotionalValue(s) = e * q
    BY <1>1, <1>2 DEF LiquidationPriceEstimate, SideSign, UnrealizedPnl, NotionalValue
  <2> HIDE DEF e, q, l
  <2>2. /\ l * ((p - e) * q * 1) = (l * p) * q - l * e * q /\ l * p \in Int
        /\ (e * (l - 1)) * q = l * e * q - e * q /\ e * (l - 1) \in Int
        /\ (l * p) * q \in Int /\ l * e * q \in Int /\ e * q \in Int
    BY <1>1, SMT
  <2>3. l * p <= e * (l - 1) <=> (l * p) * q <= (e * (l - 1)) * q
    BY <1>1, <2>2, Scaled
  <2>4. l * p <= e * (l - 1) <=> l * ((p - e) * q * 1) <= -(e * q)
    BY <2>2, <2>3
  <2> QED BY <1>2, <2>1, <2>4 DEF l
<1>3. CASE Book[s].side = "SHORT"
  <2>1. /\ LiquidationPriceEstimate(s) = e * (l - (-1))
        /\ UnrealizedPnl(s, p) = (p - e) * q * (-1) /\ NotionalValue(s) = e * q
    BY <1>1, <1>3 DEF LiquidationPriceEstimate, SideSign, UnrealizedPnl, NotionalValue
  <2> HIDE DEF e, q, l
  <2>2. /\ l * ((p - e) * q * (-1)) = l * e * q - (l * p) * q /\ l * p \in Int
        /\ (e * (l - (-1))) * q = l * e * q + e * q /\ e * (l - (-1)) \in Int
        /\ (l * p) * q \in Int /\ l * e * q \in Int /\ e * q \in Int
    BY <1>1, SMT
  <2>3. e * (l - (-1)) <= l * p <=> (e * (l - (-1))) * q <= (l * p) * q
    BY <1>1, <2>2, Scaled
  <2>4. l * p >= e * (l - (-1)) <=> l * ((p - e) * q * (-1)) <= -(e * q)
    BY <2>2, <2>3
  <2> QED BY <1>3, <2>1, <2>4 DEF l
<1> QED BY <1>1, <1>2, <1>3

-----------------------------------------------------------------------------
(***************************************************************************)
(* The profit calculators: the inductive invariant                          *)
(***************************************************************************)

\* A record that is done, and one that still needs its computed fields.
Done(s, r) == DOMAIN r = {"price", "pnl", "roe"} /\ RecordTrue(s, r)
Priced(s, r) == price[s] \in Prices /\ r = [price |-> price[s]]
Begun(t, s) == step[t] = "value" /\ Priced(s, draft[t][s])

PricesTyped ==
  /\ price \in [Symbols -> Prices \cup {0}]
  /\ draft = [t \in AllStreams |-> draft[t]] /\ sent = [t \in AllStreams |-> sent[t]]
  /\ step \in [AllStreams -> Steps]
  /\ pnlKind \in {"off", "spot", "futures"} /\ (pnlKind = "off" => pnlMain = "off")

\* A stream that does not run has no records, a callback finds prices, and it
\* looks for the next price as long as one is missing.
CallbackInOrder ==
  \A t \in AllStreams :
    /\ t \notin Streams \/ pnlKind = "off" =>
         step[t] = "none" /\ sent[t] = NoRecords
    /\ step[t] \in {"none", "time"} => draft[t] = NoRecords
    /\ step[t] = "time" => Known # {}
    /\ step[t] = "price" => ~(Known \subseteq DOMAIN draft[t])

RecordsTrue ==
  \A t \in AllStreams :
    /\ \A s \in DOMAIN draft[t] \cap Own(t) : Done(s, draft[t][s]) \/ Begun(t, s)
    /\ \A s \in DOMAIN sent[t] \cap Own(t) : RecordTrue(s, sent[t][s])

PnlInv == PricesTyped /\ CallbackInOrder /\ RecordsTrue

-----------------------------------------------------------------------------
LEMMA NoRecordsEmpty == DOMAIN NoRecords = {}
BY DEF NoRecords

LEMMA PnlInitInv == Init => PnlInv
<1> SUFFICES ASSUME PnlInit PROVE PnlInv
  BY DEF Init
<1>1. PricesTyped
  BY DEF PnlInit, PricesTyped, Steps
<1>2. CallbackInOrder
  BY DEF PnlInit, CallbackInOrder
<1>3. RecordsTrue
  BY NoRecordsEmpty DEF PnlInit, RecordsTrue
<1> QED BY <1>1, <1>2, <1>3 DEF PnlInv

\* Steps that change no price and no record: the threads and the handlers.
LEMMA QuietInv ==
  ASSUME PnlInv, UNCHANGED <<pnlKind, callbackState>>, pnlKind # "off" \/ UNCHANGED pnlMain
  PROVE  PnlInv'
<1> USE DEF callbackState
<1>1. PricesTyped'
  BY DEF PnlInv, PricesTyped
<1>2. CallbackInOrder'
  BY DEF PnlInv, CallbackInOrder, Streams, Known
<1>3. RecordsTrue'
  BY DEF PnlInv, RecordsTrue, Begun, Priced, Done, RecordTrue, Own
<1> QED BY <1>1, <1>2, <1>3 DEF PnlInv

LEMMA PnlBeginInv ==
  ASSUME PnlInv, NEW k \in {"spot", "futures"}, PnlBegin(k)
  PROVE  PnlInv'
<1>1. \A t \in AllStreams : step[t] = "none" /\ sent[t] = NoRecords /\ draft[t] = NoRecords
  BY DEF PnlInv, CallbackInOrder, PnlBegin
<1>2. PricesTyped'
  BY DEF PnlInv, PricesTyped, PnlBegin, callbackState
<1>3. CallbackInOrder'
  BY <1>1 DEF CallbackInOrder, PnlBegin, callbackState
<1>4. RecordsTrue'
  BY <1>1, NoRecordsEmpty DEF RecordsTrue, PnlBegin, callbackState
<1> QED BY <1>2, <1>3, <1>4 DEF PnlInv

-----------------------------------------------------------------------------
(***************************************************************************)
(* The callback                                                             *)
(***************************************************************************)

\* Two streams that run at the same time have no symbol in common.
LEMMA Unchanged ==
  ASSUME PricesTyped, NEW t \in AllStreams
  PROVE  draft = [draft EXCEPT ![t] = draft[t]] /\ sent = [sent EXCEPT ![t] = sent[t]]
BY DEF PricesTyped

LEMMA OwnApart ==
  ASSUME PricesTyped, NEW t \in Streams, NEW o \in Streams, t # o
  PROVE  Own(t) \cap Own(o) = {} /\ t \in AllStreams
BY PnlAssumption DEF Streams, Own, AllStreams, PricesTyped, PnlAssumption

LEMMA StreamsAreStreams ==
  ASSUME NEW t \in Streams
  PROVE  t \in AllStreams
BY PnlAssumption DEF Streams, AllStreams, PnlAssumption

\* A stream stores a price between two of its callbacks, so it disturbs no
\* record that it has begun itself.
LEMMA ReceiveInv ==
  ASSUME PnlInv, NEW t \in AllStreams, Receive(t)
  PROVE  PnlInv'
<1>1. PICK s \in Own(t), p \in Prices : price' = [price EXCEPT ![s] = p]
  BY DEF Receive
<1>2. /\ t \in Streams /\ step[t] = "none" /\ PricesTyped /\ pnlKind # "off"
      /\ sent' = [sent EXCEPT ![t] = NoRecords] /\ step' = [step EXCEPT ![t] = "time"]
      /\ UNCHANGED <<pnlKind, pnlMain, draft>> /\ s \in Symbols /\ p > 0
  BY <1>1, PnlAssumption
     DEF Receive, At, Runs, PnlInv, PricesTyped, stopState, Own, PnlAssumption
<1>3. PricesTyped'
  BY <1>1, <1>2 DEF PricesTyped, Steps
<1>4. Known' = Known \cup {s}
  BY <1>1, <1>2 DEF Known, PricesTyped
<1>5. CallbackInOrder'
  <2> SUFFICES ASSUME NEW o \in AllStreams
      PROVE /\ o \notin Streams \/ pnlKind = "off" => step'[o] = "none" /\ sent'[o] = NoRecords
            /\ step'[o] \in {"none", "time"} => draft[o] = NoRecords
            /\ step'[o] = "time" => Known' # {}
            /\ step'[o] = "price" => ~(Known' \subseteq DOMAIN draft[o])
    BY <1>2 DEF CallbackInOrder, Streams
  <2>1. CASE o = t
    BY <1>2, <1>4, <2>1 DEF PnlInv, CallbackInOrder, PricesTyped
  <2>2. CASE o # t
    BY <1>2, <1>4, <2>2 DEF PnlInv, CallbackInOrder, PricesTyped
  <2> QED BY <2>1, <2>2
<1>6. RecordsTrue'
  <2> SUFFICES ASSUME NEW o \in AllStreams
      PROVE /\ \A r \in DOMAIN draft[o] \cap Own(o) :
                 Done(r, draft[o][r]) \/ Begun(o, r)'
            /\ \A r \in DOMAIN sent'[o] \cap Own(o) : RecordTrue(r, sent'[o][r])
    BY <1>2 DEF RecordsTrue, Done, RecordTrue, Own
  <2>1. CASE o = t
    BY <1>2, <2>1, NoRecordsEmpty DEF PnlInv, CallbackInOrder, PricesTyped
  <2>2. CASE o # t /\ o \notin Streams
    BY <1>2, <2>2, NoRecordsEmpty DEF PnlInv, CallbackInOrder, PricesTyped
  <2>3. CASE o # t /\ o \in Streams
    <3>1. s \notin Own(o)
      BY <1>1, <1>2, <2>3, OwnApart
    <3>2. step'[o] = step[o] /\ sent'[o] = sent[o]
      BY <1>2, <2>3 DEF PricesTyped
    <3>3. \A r \in Own(o) : price'[r] = price[r]
      BY <1>1, <1>2, <3>1 DEF PricesTyped, Own
    <3> QED BY <1>2, <3>2, <3>3 DEF PnlInv, RecordsTrue, Begun, Priced
  <2> QED BY <2>1, <2>2, <2>3
<1> QED BY <1>3, <1>5, <1>6 DEF PnlInv

\* A step of t's callback changes the records of t only.
LEMMA CallbackStep ==
  ASSUME PnlInv, NEW t \in Streams, pnlKind # "off",
         UNCHANGED <<pnlKind, pnlMain, price>>,
         NEW there \in Steps, step' = [step EXCEPT ![t] = there],
         NEW d, draft' = [draft EXCEPT ![t] = d],
         NEW r, sent' = [sent EXCEPT ![t] = r],
         there = "none" => d = NoRecords,
         there # "time",
         there = "price" => ~(Known \subseteq DOMAIN d),
         \A s \in DOMAIN d \cap Own(t) :
           \/ Done(s, d[s])
           \/ there = "value" /\ Priced(s, d[s]),
         \A s \in DOMAIN r \cap Own(t) : RecordTrue(s, r[s])
  PROVE  PnlInv'
<1>0. t \in AllStreams /\ PricesTyped
  BY StreamsAreStreams DEF PnlInv
<1>1. PricesTyped'
  BY <1>0 DEF PricesTyped
<1>2. /\ step'[t] = there /\ draft'[t] = d /\ sent'[t] = r
      /\ \A o \in AllStreams \ {t} : step'[o] = step[o] /\ draft'[o] = draft[o] /\ sent'[o] = sent[o]
  BY <1>0 DEF PricesTyped
<1>3. CallbackInOrder'
  <2> SUFFICES ASSUME NEW o \in AllStreams
      PROVE /\ o \notin Streams \/ pnlKind = "off" => step'[o] = "none" /\ sent'[o] = NoRecords
            /\ step'[o] \in {"none", "time"} => draft'[o] = NoRecords
            /\ step'[o] = "time" => Known # {}
            /\ step'[o] = "price" => ~(Known \subseteq DOMAIN draft'[o])
    BY DEF CallbackInOrder, Streams, Known
  <2>1. CASE o = t
    BY <1>2, <2>1
  <2>2. CASE o # t
    BY <1>2, <2>2 DEF PnlInv, CallbackInOrder
  <2> QED BY <2>1, <2>2
<1>4. RecordsTrue'
  <2> SUFFICES ASSUME NEW o \in AllStreams
      PROVE /\ \A s \in DOMAIN draft'[o] \cap Own(o) :
                 \/ Done(s, draft'[o][s])
                 \/ step'[o] = "value" /\ Priced(s, draft'[o][s])
            /\ \A s \in DOMAIN sent'[o] \cap Own(o) : RecordTrue(s, sent'[o][s])
    BY DEF RecordsTrue, Done, RecordTrue, Begun, Priced, Own
  <2>1. CASE o = t
    BY <1>2, <2>1
  <2>2. CASE o # t
    BY <1>2, <2>2 DEF PnlInv, RecordsTrue, Begun
  <2> QED BY <2>1, <2>2
<1> QED BY <1>1, <1>3, <1>4 DEF PnlInv

LEMMA TimeReadInv ==
  ASSUME PnlInv, NEW t \in AllStreams, Time(t)
  PROVE  PnlInv'
<1>1. /\ t \in Streams /\ pnlKind # "off" /\ step[t] = "time" /\ draft[t] = NoRecords /\ Known # {}
      /\ UNCHANGED <<pnlKind, pnlMain, price>>
  BY DEF Time, At, Runs, PnlInv, PricesTyped, CallbackInOrder, stopState
<1>2. PICK there \in {"price", "none"} : step' = [step EXCEPT ![t] = there]
  BY DEF Time
<1>3. draft' = [draft EXCEPT ![t] = draft[t]] /\ sent' = [sent EXCEPT ![t] = sent[t]]
  BY Unchanged DEF Time, PnlInv
<1>4. \A s \in DOMAIN sent[t] \cap Own(t) : RecordTrue(s, sent[t][s])
  BY DEF PnlInv, RecordsTrue
<1>5. there \in Steps
  BY DEF Steps
<1> QED BY <1>1, <1>2, <1>3, <1>4, <1>5, NoRecordsEmpty, CallbackStep

\* The price field and the price that the computed fields will read are the
\* same: only t stores prices of its own symbols, and t is in its callback.
LEMMA BuildPriceInv ==
  ASSUME PnlInv, NEW t \in AllStreams, BuildPrice(t)
  PROVE  PnlInv'
<1> DEFINE x == CHOOSE s \in Symbols : s \in Known \ DOMAIN draft[t]
           d == [r \in DOMAIN draft[t] \cup {x} |->
                   IF r = x THEN [price |-> price[x]] ELSE draft[t][r]]
<1>1. /\ t \in Streams /\ pnlKind # "off" /\ step[t] = "price"
      /\ ~(Known \subseteq DOMAIN draft[t]) /\ PricesTyped
      /\ UNCHANGED <<pnlKind, pnlMain, price>> /\ step' = [step EXCEPT ![t] = "value"]
  BY DEF BuildPrice, At, Runs, PnlInv, PricesTyped, CallbackInOrder, stopState
<1>2. x \in Known /\ x \notin DOMAIN draft[t]
  BY <1>1 DEF Known
<1>3. draft' = [draft EXCEPT ![t] = d]
  BY DEF BuildPrice
<1> HIDE DEF x
<1>4. ASSUME NEW s \in DOMAIN d \cap Own(t)
      PROVE  Done(s, d[s]) \/ Priced(s, d[s])
  <2>1. CASE s = x
    BY <1>1, <1>2, <2>1 DEF Known, PricesTyped, Priced
  <2>2. CASE s # x
    <3>1. s \in DOMAIN draft[t] \cap Own(t) /\ d[s] = draft[t][s]
      BY <1>4, <2>2
    <3>2. Done(s, draft[t][s])
      BY <1>1, <3>1 DEF PnlInv, RecordsTrue, Begun
    <3> QED BY <3>1, <3>2
  <2> QED BY <2>1, <2>2
<1> HIDE DEF d
<1>5. sent' = [sent EXCEPT ![t] = sent[t]]
  BY Unchanged DEF BuildPrice, PnlInv
<1>6. \A s \in DOMAIN sent[t] \cap Own(t) : RecordTrue(s, sent[t][s])
  BY DEF PnlInv, RecordsTrue
<1>7. /\ "value" \in Steps /\ "value" \notin {"none", "time", "price"}
      /\ \A s \in DOMAIN d \cap Own(t) : Done(s, d[s]) \/ Priced(s, d[s])
  BY <1>4 DEF Steps
<1> QED BY <1>1, <1>3, <1>5, <1>6, <1>7, CallbackStep

LEMMA BuildValueInv ==
  ASSUME PnlInv, NEW t \in AllStreams, BuildValue(t)
  PROVE  PnlInv'
<1> DEFINE d == [r \in DOMAIN draft[t] |->
                   IF DOMAIN draft[t][r] = {"price"}
                   THEN [price |-> draft[t][r].price, pnl |-> Pnl(r, price[r]),
                         roe |-> Roe(r, price[r])]
                   ELSE draft[t][r]]
           there == IF Known \subseteq DOMAIN draft[t] THEN "publish" ELSE "price"
<1>1. /\ t \in Streams /\ pnlKind # "off" /\ step[t] = "value" /\ PricesTyped
      /\ UNCHANGED <<pnlKind, pnlMain, price>> /\ step' = [step EXCEPT ![t] = there]
      /\ draft' = [draft EXCEPT ![t] = d] /\ sent' = [sent EXCEPT ![t] = sent[t]]
  BY Unchanged DEF BuildValue, At, Runs, PnlInv, PricesTyped, stopState
<1>2. ASSUME NEW s \in DOMAIN d \cap Own(t)
      PROVE  Done(s, d[s])
  <2>1. s \in Symbols /\ s \in DOMAIN draft[t] \cap Own(t)
    BY <1>2 DEF Own
  <2>2. CASE Begun(t, s)
    <3>1. DOMAIN draft[t][s] = {"price"} /\ draft[t][s].price = price[s] /\ price[s] \in Prices
      BY <2>2 DEF Begun, Priced
    <3>2. d[s] = [price |-> price[s], pnl |-> Pnl(s, price[s]), roe |-> Roe(s, price[s])]
      BY <2>1, <3>1
    <3>3. RecordTrue(s, d[s])
      BY <2>1, <3>1, <3>2, ComputedTrue
    <3>4. DOMAIN d[s] = {"price", "pnl", "roe"}
      BY <3>2
    <3> QED BY <3>3, <3>4 DEF Done
  <2>3. CASE Done(s, draft[t][s])
    <3>1. d[s] = draft[t][s]
      BY <2>1, <2>3 DEF Done
    <3> QED BY <2>3, <3>1
  <2> QED BY <2>1, <2>2, <2>3 DEF PnlInv, RecordsTrue
<1>3. there \in Steps /\ there # "none" /\ there # "time"
      /\ (there = "price" => ~(Known \subseteq DOMAIN d))
  BY DEF Steps
<1>4. \A s \in DOMAIN sent[t] \cap Own(t) : RecordTrue(s, sent[t][s])
  BY DEF PnlInv, RecordsTrue
<1> HIDE DEF d, there
<1> QED BY <1>1, <1>2, <1>3, <1>4, CallbackStep

LEMMA PublishedInv ==
  ASSUME PnlInv, NEW t \in AllStreams, PublishRecords(t) \/ PublishFails(t)
  PROVE  PnlInv'
<1>1. /\ t \in Streams /\ pnlKind # "off" /\ step[t] = "publish" /\ PricesTyped
      /\ UNCHANGED <<pnlKind, pnlMain, price>> /\ step' = [step EXCEPT ![t] = "none"]
      /\ draft' = [draft EXCEPT ![t] = NoRecords]
  BY DEF PublishRecords, PublishFails, At, Runs, PnlInv, PricesTyped, stopState
<1>2. PICK r \in {draft[t], sent[t]} : sent' = [sent EXCEPT ![t] = r]
  BY <1>1, Unchanged DEF PublishRecords, PublishFails
<1>3. \A s \in DOMAIN r \cap Own(t) : RecordTrue(s, r[s])
  BY <1>1 DEF PnlInv, RecordsTrue, Done, Begun
<1>4. "none" \in Steps
  BY DEF Steps
<1> QED BY <1>1, <1>2, <1>3, <1>4, NoRecordsEmpty, CallbackStep

-----------------------------------------------------------------------------
LEMMA PnlStepInv == PnlInv /\ [Next]_vars => PnlInv'
<1> SUFFICES ASSUME PnlInv, [Next]_vars PROVE PnlInv'
  OBVIOUS
<1>1. CASE \E k \in {"spot", "futures"} : PnlBegin(k)
  BY <1>1, PnlBeginInv
<1>2. CASE PnlNext
  <2>0. pnlKind = "off" => pnlMain = "off"
    BY DEF PnlInv, PricesTyped
  <2>1. CASE PnlStreams
    BY <2>0, <2>1, QuietInv
       DEF PnlStreams, PnlLoop, PnlConnects, PnlDisconnects, Moves, Runs, stopState
  <2>2. CASE Callback \/ \E t \in AllStreams : Receive(t)
    BY <2>2, ReceiveInv, TimeReadInv, BuildPriceInv, BuildValueInv, PublishedInv DEF Callback
  <2>3. CASE Interrupt \/ StopPnl
    BY <2>0, <2>3, QuietInv
       DEF Interrupt, StopPnl, PnlCloses, KafkaCloses, StopsAgain, Joined
  <2>4. CASE Interval
    BY <2>4, QuietInv DEF Interval, stopState
  <2> QED BY <1>2, <2>1, <2>2, <2>3, <2>4 DEF PnlNext
<1>3. CASE UNCHANGED pnlVars
  BY <1>3, QuietInv DEF pnlVars, stopState
<1> QED
  <2>1. CASE Main
    BY <2>1, <1>1, <1>3
       DEF Main, Handler, CmdUserDataStream, CmdSpotPnl, CmdFuturesPnl, CmdFuturesPositions,
           CmdFuturesPositionsSyncRedis, CmdFetchKlines, CmdFetchOi, CmdEngine
  <2>2. CASE Next /\ ~Main
    BY <2>2, <1>2, <1>3 DEF Next
  <2> QED BY <2>1, <2>2, <1>3 DEF vars

\* What a stream publishes of its own symbols is the profit of the price that
\* the record names, however the callbacks of the two streams interleave, for
\* any positions, prices and fee rates.
THEOREM OwnRecordsTrueAlways == FairSpec => []OwnRecordsTrue
<1>1. PnlInv => OwnRecordsTrue
  BY DEF PnlInv, RecordsTrue, OwnRecordsTrue
<1> QED BY <1>1, PnlInitInv, PnlStepInv, PTL DEF FairSpec

-----------------------------------------------------------------------------
(***************************************************************************)
(* The types                                                                *)
(***************************************************************************)

\* Steps of the threads, of the handlers and of the time.
LEMMA PnlRestType ==
  ASSUME PnlTypeOK, PnlStreams \/ Interrupt \/ StopPnl \/ Interval
  PROVE  PnlTypeOK'
<1> USE DEF stopState, callbackState
<1>0. MaxIntervals \in Nat /\ MaxInterrupts \in Nat
  BY PnlAssumption DEF PnlAssumption
<1>1. CASE PnlStreams
  BY <1>1 DEF PnlStreams, PnlTypeOK, PnlLoop, PnlConnects, PnlDisconnects, Moves
<1>2. CASE Interrupt
  BY <1>0, <1>2 DEF PnlTypeOK, Interrupt
<1>3. CASE StopPnl
  BY <1>3 DEF StopPnl, PnlTypeOK, PnlCloses, KafkaCloses, StopsAgain, Joined, CloseSockets
<1>4. CASE Interval
  BY <1>0, <1>4 DEF PnlTypeOK, Interval
<1> QED BY <1>1, <1>2, <1>3, <1>4

\* Steps of the callbacks: a record is begun for a position that has a price.
LEMMA CallbackType ==
  ASSUME PnlTypeOK, PnlInv, NEW t \in AllStreams,
         \/ Receive(t) \/ Time(t) \/ BuildPrice(t) \/ BuildValue(t)
         \/ PublishRecords(t) \/ PublishFails(t)
  PROVE  PnlTypeOK'
<1> USE DEF stopState
<1>0. PricesTyped /\ MaxMessages \in Nat /\ MaxIntervals \in Nat
  BY PnlAssumption DEF PnlInv, PnlAssumption
<1>1. CASE Receive(t)
  <2>1. PICK s \in Own(t), p \in Prices : price' = [price EXCEPT ![s] = p]
    BY <1>1 DEF Receive
  <2>2. price' \in [Symbols -> Prices \cup {0}] /\ messages' \in 0..MaxMessages
    BY <1>0, <1>1, <2>1 DEF Receive, PnlTypeOK, Own
  <2>3. \A o \in AllStreams : DOMAIN draft'[o] \subseteq Symbols /\ DOMAIN sent'[o] \subseteq Symbols
    BY <1>0, <1>1, NoRecordsEmpty DEF Receive, PnlTypeOK, PricesTyped
  <2> QED BY <1>1, <2>2, <2>3 DEF Receive, PnlTypeOK, Steps
<1>2. CASE Time(t)
  BY <1>2 DEF Time, PnlTypeOK, Steps
<1>3. CASE BuildPrice(t)
  <2> DEFINE x == CHOOSE s \in Symbols : s \in Known \ DOMAIN draft[t]
             d == [r \in DOMAIN draft[t] \cup {x} |->
                     IF r = x THEN [price |-> price[x]] ELSE draft[t][r]]
  <2>1. draft' = [draft EXCEPT ![t] = d] /\ DOMAIN d \subseteq Symbols
    <3>1. x \in Symbols
      BY <1>3 DEF BuildPrice, At, PnlInv, CallbackInOrder, Known
    <3>2. draft' = [draft EXCEPT ![t] = d]
      BY <1>3 DEF BuildPrice
    <3> QED BY <3>1, <3>2 DEF PnlTypeOK
  <2> HIDE DEF d
  <2>2. \A o \in AllStreams : DOMAIN draft'[o] \subseteq Symbols
    BY <1>0, <2>1 DEF PnlTypeOK, PricesTyped
  <2> QED BY <1>3, <2>2 DEF BuildPrice, PnlTypeOK, Steps
<1>4. CASE BuildValue(t)
  <2> DEFINE d == [r \in DOMAIN draft[t] |->
                     IF DOMAIN draft[t][r] = {"price"}
                     THEN [price |-> draft[t][r].price, pnl |-> Pnl(r, price[r]),
                           roe |-> Roe(r, price[r])]
                     ELSE draft[t][r]]
  <2>1. draft' = [draft EXCEPT ![t] = d] /\ DOMAIN d = DOMAIN draft[t]
    BY <1>4 DEF BuildValue
  <2> HIDE DEF d
  <2>2. \A o \in AllStreams : DOMAIN draft'[o] \subseteq Symbols
    BY <1>0, <2>1 DEF PnlTypeOK, PricesTyped
  <2> QED BY <1>4, <2>2 DEF BuildValue, PnlTypeOK, Steps
<1>5. CASE PublishRecords(t) \/ PublishFails(t)
  <2>1. \A o \in AllStreams : DOMAIN draft'[o] \subseteq Symbols /\ DOMAIN sent'[o] \subseteq Symbols
    BY <1>0, <1>5, NoRecordsEmpty DEF PublishRecords, PublishFails, PnlTypeOK, PricesTyped
  <2>2. nowRead' \in [AllStreams -> 0..MaxIntervals] /\ lastSent' \in -1..MaxIntervals
    BY <1>0, <1>5 DEF PublishRecords, PublishFails, PnlTypeOK
  <2> QED BY <1>5, <2>1, <2>2 DEF PublishRecords, PublishFails, PnlTypeOK, Steps
<1> QED BY <1>1, <1>2, <1>3, <1>4, <1>5

LEMMA PnlTypeInit == Init => PnlTypeOK
<1> SUFFICES ASSUME PnlInit PROVE PnlTypeOK
  BY DEF Init
<1>1. MaxMessages \in Nat /\ MaxIntervals \in Nat /\ MaxInterrupts \in Nat
  BY PnlAssumption DEF PnlAssumption
<1>2. /\ messages \in 0..MaxMessages /\ clock \in 0..MaxIntervals
      /\ interrupts \in 0..MaxInterrupts /\ lastSent \in -1..MaxIntervals
  BY <1>1 DEF PnlInit
<1>3. nowRead \in [AllStreams -> 0..MaxIntervals] /\ price \in [Symbols -> Prices \cup {0}]
  BY <1>1 DEF PnlInit
<1>4. \A t \in AllStreams : DOMAIN draft[t] \subseteq Symbols /\ DOMAIN sent[t] \subseteq Symbols
  BY NoRecordsEmpty DEF PnlInit
<1> QED BY <1>2, <1>3, <1>4 DEF PnlInit, PnlTypeOK, Steps

LEMMA PnlTypeStep == PnlInv /\ PnlTypeOK /\ [Next]_vars => PnlTypeOK'
<1> SUFFICES ASSUME PnlInv, PnlTypeOK, [Next]_vars PROVE PnlTypeOK'
  OBVIOUS
<1>1. CASE \E k \in {"spot", "futures"} : PnlBegin(k)
  BY <1>1 DEF PnlBegin, PnlTypeOK, callbackState
<1>2. CASE PnlNext
  BY <1>2, PnlRestType, CallbackType DEF PnlNext, Callback
<1>3. CASE UNCHANGED pnlVars
  BY <1>3 DEF pnlVars, stopState, callbackState, PnlTypeOK
<1> QED
  <2>1. CASE Main
    BY <2>1, <1>1, <1>3
       DEF Main, Handler, CmdUserDataStream, CmdSpotPnl, CmdFuturesPnl, CmdFuturesPositions,
           CmdFuturesPositionsSyncRedis, CmdFetchKlines, CmdFetchOi, CmdEngine
  <2>2. CASE Next /\ ~Main
    BY <2>2, <1>2, <1>3 DEF Next
  <2> QED BY <2>1, <2>2, <1>3 DEF vars

\* args.command: no handler parses the arguments a second time.
Parsed ==
  command \in {"none", "user-data-stream", "spot-pnl", "futures-pnl", "futures-positions",
               "futures-positions-sync-redis", "fetch-klines", "fetch-oi",
               "engine-futures", "engine-spot"}

LEMMA ParsedStep == Parsed /\ [Next]_vars => Parsed'
BY DEF Parsed, Next, vars, Main, Handler, CmdUserDataStream, CmdSpotPnl, CmdFuturesPnl,
       CmdFuturesPositions, CmdFuturesPositionsSyncRedis, CmdFetchKlines, CmdFetchOi, CmdEngine

\* The variables of every command keep their types, whichever command runs.
THEOREM CommandTypeCorrect == FairSpec => []TypeOK
<1>1. Init => Parsed
  BY DEF Init, Parsed
<1>2. UserStreamInv /\ PositionInv /\ HistoryInv /\ PnlTypeOK /\ RateInv /\ Parsed => TypeOK
  BY DEF UserStreamInv, PositionInv, HistoryInv, RateInv, Parsed, TypeOK
<1> QED
  BY <1>1, <1>2, ParsedStep, PnlTypeInit, PnlTypeStep, PnlInitInv, PnlStepInv,
     UserStreamInvAlways, PositionInvAlways, HistoryInvAlways, RateInvAlways, PTL DEF FairSpec

=============================================================================
