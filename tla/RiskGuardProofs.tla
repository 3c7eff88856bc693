-------------------------- MODULE RiskGuardProofs ---------------------------
(***************************************************************************)
(* The rate limit of RiskGuard in the engine commands, for every limit and  *)
(* window and any number of symbols and restarts.                           *)
(***************************************************************************)
EXTENDS CommandLine, SequenceTheorems, TLAPS

-----------------------------------------------------------------------------
(***************************************************************************)
(* Histories and the queues that hold their ends                            *)
(***************************************************************************)

\* q is what is left of the history h after its first f entries, which are
\* before start.
EndOf(q, h, f, start) ==
  /\ Len(h) = f + Len(q)
  /\ \A j \in 1..Len(q) : q[j] = h[f + j]
  /\ \A i \in 1..f : h[i] < start

\* Any n + 1 entries of h span more than Window.
Spaced(h, n) == \A i \in 1..Len(h) - n : h[i + n] - h[i] > Window

LEMMA EndOfEmpty ==
  ASSUME NEW start, NEW n \in Nat
  PROVE  EndOf(<< >>, << >>, 0, start) /\ Spaced(<< >>, n)
BY DEF EndOf, Spaced

\* The window slides: its first k entries are forgotten and t is appended to
\* both.
LEMMA EndOfSlides ==
  ASSUME NEW h \in Seq(Nat), NEW q \in Seq(Nat), NEW t \in Nat, NEW f \in Nat,
         NEW k \in 0..Len(q), EndOf(q, h, f, t - Window),
         \A i \in 1..k : q[i] < t - Window
  PROVE  LET kept == SubSeq(q, k + 1, Len(q))
         IN  /\ kept \in Seq(Nat) /\ Len(kept) = Len(q) - k
             /\ EndOf(Append(kept, t), Append(h, t), f + k, t - Window)
             /\ \A i \in 1..f + k : h[i] < t - Window
<1> DEFINE kept == SubSeq(q, k + 1, Len(q))
           slid == Append(kept, t)
           longer == Append(h, t)
<1>1. PICK m \in Nat : m = Len(q) /\ Len(h) = f + m /\ k \in 0..m
  BY LenProperties DEF EndOf
<1>2. PICK r \in Nat : m = k + r
  <2>1. m - k \in Nat /\ m = k + (m - k)
    BY <1>1
  <2>2. QED
    BY <2>1
<1>3. /\ kept \in Seq(Nat) /\ Len(kept) = r
      /\ \A j \in 1..r : kept[j] = q[k + j]
  <2>1. k + 1 \in Int /\ m \in Int /\ \A i \in k + 1..m : q[i] \in Nat
    BY <1>1, ElementOfSeq
  <2>2. /\ SubSeq(q, k + 1, m) \in Seq(Nat)
        /\ Len(SubSeq(q, k + 1, m)) = IF k + 1 <= m THEN m - (k + 1) + 1 ELSE 0
        /\ \A i \in 1..m - (k + 1) + 1 : SubSeq(q, k + 1, m)[i] = q[k + 1 + i - 1]
    BY <1>1, <2>1, SubSeqProperties, SMTT(60)
  <2>3. Len(kept) = r
    BY <1>1, <1>2, <2>2
  <2>4. ASSUME NEW j \in 1..r
        PROVE  kept[j] = q[k + j]
    <3>1. j \in 1..m - (k + 1) + 1 /\ k + 1 + j - 1 = k + j
      BY <1>1, <1>2
    <3>2. QED
      BY <1>1, <2>2, <3>1
  <2>5. QED
    BY <1>1, <2>2, <2>3, <2>4
<1> HIDE DEF kept
<1>4. \A i \in 1..f + k : h[i] < t - Window
  <2> SUFFICES ASSUME NEW i \in 1..f + k, i \notin 1..f
               PROVE  h[i] < t - Window
    BY DEF EndOf
  <2>1. i - f \in 1..k /\ f + (i - f) = i /\ i - f \in 1..m
    BY <1>1
  <2>2. q[i - f] = h[f + (i - f)]
    BY <1>1, <2>1 DEF EndOf
  <2>3. QED
    BY <2>1, <2>2
<1>5. /\ Len(slid) = r + 1 /\ Len(longer) = f + m + 1
      /\ slid[r + 1] = t /\ longer[f + m + 1] = t
      /\ \A j \in 1..r : slid[j] = kept[j]
      /\ \A i \in 1..f + m : longer[i] = h[i]
  <2>1. /\ Len(longer) = Len(h) + 1 /\ longer[Len(h) + 1] = t
        /\ \A i \in 1..Len(h) : longer[i] = h[i]
    BY AppendProperties
  <2>2. /\ Len(slid) = Len(kept) + 1 /\ slid[Len(kept) + 1] = t
        /\ \A i \in 1..Len(kept) : slid[i] = kept[i]
    BY <1>3, AppendProperties
  <2>3. QED
    BY <1>1, <1>3, <2>1, <2>2
<1> HIDE DEF slid, longer
<1>6. ASSUME NEW j \in 1..r + 1
      PROVE  slid[j] = longer[f + k + j]
  <2>1. CASE j = r + 1
    BY <1>1, <1>2, <1>5, <2>1
  <2>2. CASE j # r + 1
    <3>1. j \in 1..r /\ k + j \in 1..m /\ f + k + j \in 1..f + m /\ f + (k + j) = f + k + j
      BY <1>1, <1>2, <2>2
    <3>2. q[k + j] = h[f + (k + j)]
      BY <1>1, <3>1 DEF EndOf
    <3>3. QED
      BY <1>3, <1>5, <3>1, <3>2
  <2>3. QED
    BY <2>1, <2>2
<1>7. ASSUME NEW i \in 1..f + k
      PROVE  longer[i] < t - Window
  <2>1. i \in 1..f + m
    BY <1>1
  <2>2. QED
    BY <1>4, <1>5, <2>1
<1>8. EndOf(slid, longer, f + k, t - Window)
  BY <1>1, <1>2, <1>5, <1>6, <1>7 DEF EndOf
<1>9. QED
  BY <1>1, <1>2, <1>3, <1>4, <1>8 DEF kept, slid, longer

\* An entry that finds fewer than n in the window keeps the history spaced.
LEMMA SpacedAppend ==
  ASSUME NEW h \in Seq(Nat), NEW t \in Nat, NEW n \in Nat \ {0}, NEW f \in Nat,
         Len(h) < f + n, Spaced(h, n), \A i \in 1..f : h[i] < t - Window
  PROVE  Spaced(Append(h, t), n)
<1> DEFINE g == Append(h, t)
<1>1. PICK l \in Nat : l = Len(h)
  BY LenProperties
<1>2. /\ Len(g) = l + 1 /\ g[l + 1] = t
      /\ \A i \in 1..l : g[i] = h[i] /\ h[i] \in Nat
  BY <1>1, ElementOfSeq, AppendProperties
<1> HIDE DEF g
<1>3. ASSUME NEW i \in 1..l + 1 - n
      PROVE  g[i + n] - g[i] > Window
  <2>1. CASE i + n = l + 1
    <3>1. i \in 1..f
      BY <1>1, <2>1
    <3>2. i \in 1..l
      BY <1>1, <2>1
    <3>3. PICK y \in Nat : y = h[i] /\ g[i] = y /\ y < t - Window
      BY <1>2, <3>1, <3>2
    <3>4. g[i + n] = t
      BY <1>2, <2>1
    <3>5. t - y > Window
      BY <3>3, RiskAssumption
    <3>6. QED
      BY <3>3, <3>4, <3>5
  <2>2. CASE i + n # l + 1
    <3>1. i \in 1..l - n /\ i \in 1..l /\ i + n \in 1..l
      BY <1>1, <2>2
    <3>2. PICK x \in Nat, y \in Nat : x = h[i + n] /\ y = h[i]
      BY <1>2, <3>1
    <3>3. x - y > Window
      BY <1>1, <3>1, <3>2 DEF Spaced
    <3>4. g[i + n] = x /\ g[i] = y
      BY <1>2, <3>1, <3>2
    <3>5. QED
      BY <3>3, <3>4
  <2>3. QED
    BY <2>1, <2>2
<1>4. Len(g) - n = l + 1 - n
  BY <1>1, <1>2
<1>5. QED
  BY <1>3, <1>4 DEF Spaced, g

-----------------------------------------------------------------------------
(***************************************************************************)
(* The invariant                                                            *)
(***************************************************************************)

\* The queue of a symbol is the end of its history, and its admissions are
\* spaced: only together do they survive the next admission.
QueueIsRecent(s) ==
  /\ \E f \in Nat : EndOf(times[s], admitted[s], f, nowMs - Window)
  /\ Spaced(admitted[s], limit)

RateInv ==
  /\ RiskTypeOK
  /\ limit > 0 => \A s \in SignalSymbols : QueueIsRecent(s)
  /\ RefusedOnlyWhenFull

LEMMA RateInit == Init => RateInv
<1> SUFFICES ASSUME RiskInit
             PROVE  RateInv
  BY DEF Init
<1>1. \A s \in SignalSymbols : times[s] = << >> /\ admitted[s] = << >>
  BY DEF RiskInit, NoTimes
<1>2. RiskTypeOK
  BY <1>1, EmptySeq DEF RiskInit, NoTimes, RiskTypeOK
<1> QED
  BY <1>2, RiskAssumption DEF RiskInit, RateInv, RefusedOnlyWhenFull, NoGuard

\* What a step that leaves the histories and the clock alone preserves.
LEMMA QueueKept ==
  ASSUME NEW s \in SignalSymbols, QueueIsRecent(s),
         UNCHANGED <<nowMs, limit>>, times'[s] = times[s], admitted'[s] = admitted[s]
  PROVE  QueueIsRecent(s)'
BY DEF QueueIsRecent

LEMMA WithinLimitInv ==
  ASSUME RateInv, NEW s \in SignalSymbols, NEW k \in 0..Len(times[s]), WithinLimit(s, k)
  PROVE  RateInv'
<1>1. /\ nowMs \in Nat /\ limit \in Nat \ {0}
      /\ times \in [SignalSymbols -> Seq(Nat)] /\ admitted \in [SignalSymbols -> Seq(Nat)]
      /\ times[s] \in Seq(Nat) /\ admitted[s] \in Seq(Nat)
  BY RiskAssumption DEF RateInv, RiskTypeOK, WithinLimit, NoGuard
<1>2. PICK f \in Nat : EndOf(times[s], admitted[s], f, nowMs - Window)
  BY DEF RateInv, QueueIsRecent, WithinLimit
<1>3. /\ UNCHANGED <<nowMs, limit>> /\ refused' = NoSymbol
      /\ times' = [times EXCEPT ![s] = Append(Kept(s, k), nowMs)]
      /\ admitted' = [admitted EXCEPT ![s] = Append(@, nowMs)]
      /\ Len(times[s]) - k < limit
      /\ \A i \in 1..k : times[s][i] < nowMs - Window
  BY DEF WithinLimit, Admit, Old
<1>4. /\ Kept(s, k) \in Seq(Nat) /\ Len(Kept(s, k)) = Len(times[s]) - k
      /\ EndOf(Append(Kept(s, k), nowMs), Append(admitted[s], nowMs), f + k, nowMs - Window)
      /\ \A i \in 1..f + k : admitted[s][i] < nowMs - Window
  BY <1>1, <1>2, <1>3, EndOfSlides DEF Kept
<1>5. /\ Append(Kept(s, k), nowMs) \in Seq(Nat)
      /\ Len(Append(Kept(s, k), nowMs)) = Len(times[s]) - k + 1
      /\ Append(admitted[s], nowMs) \in Seq(Nat)
  <2>1. /\ Append(Kept(s, k), nowMs) \in Seq(Nat)
        /\ Len(Append(Kept(s, k), nowMs)) = Len(Kept(s, k)) + 1
    BY <1>1, <1>4, AppendProperties
  <2>2. Append(admitted[s], nowMs) \in Seq(Nat)
    BY <1>1, AppendProperties
  <2> QED BY <1>4, <2>1, <2>2
<1>6. Len(times[s]) \in Nat /\ k \in Nat /\ f + k \in Nat
  BY <1>1, <1>2, LenProperties
<1>7. RiskTypeOK'
  <2>1. times' \in [SignalSymbols -> Seq(Nat)] /\ admitted' \in [SignalSymbols -> Seq(Nat)]
    BY <1>1, <1>3, <1>5
  <2>2. Len(times'[s]) <= limit
    BY <1>1, <1>3, <1>5, <1>6
  <2>3. \A t \in SignalSymbols : Len(times'[t]) <= limit
    BY <1>1, <1>3, <2>2 DEF RateInv, RiskTypeOK
  <2>4. QED
    BY <1>3, <2>1, <2>3 DEF RateInv, RiskTypeOK
<1>8. QueueIsRecent(s)'
  <2>1. Len(admitted[s]) < f + k + limit
    BY <1>1, <1>2, <1>3, <1>6 DEF EndOf
  <2>2. Spaced(admitted[s], limit)
    BY <1>1 DEF RateInv, QueueIsRecent
  <2>3. Spaced(Append(admitted[s], nowMs), limit)
    BY <1>1, <1>4, <1>6, <2>1, <2>2, SpacedAppend
  <2>4. times'[s] = Append(Kept(s, k), nowMs) /\ admitted'[s] = Append(admitted[s], nowMs)
    BY <1>1, <1>3
  <2>5. QED
    BY <1>3, <1>4, <1>6, <2>3, <2>4 DEF QueueIsRecent
<1>9. \A t \in SignalSymbols : QueueIsRecent(t)'
  <2> SUFFICES ASSUME NEW t \in SignalSymbols \ {s}
               PROVE  QueueIsRecent(t)'
    BY <1>8
  <2>1. times'[t] = times[t] /\ admitted'[t] = admitted[t]
    BY <1>1, <1>3
  <2>2. QED
    BY <1>1, <1>3, <2>1, QueueKept DEF RateInv
<1>10. QED
  BY <1>3, <1>7, <1>9, RiskAssumption DEF RateInv, RefusedOnlyWhenFull

LEMMA OverLimitInv ==
  ASSUME RateInv, NEW s \in SignalSymbols, NEW k \in 0..Len(times[s]), OverLimit(s, k)
  PROVE  RateInv'
<1>1. /\ nowMs \in Nat /\ limit \in Nat \ {0}
      /\ times \in [SignalSymbols -> Seq(Nat)] /\ admitted \in [SignalSymbols -> Seq(Nat)]
  BY RiskAssumption DEF RateInv, RiskTypeOK, OverLimit, NoGuard
<1>2. PICK m \in Nat : m = Len(times[s])
  BY <1>1, LenProperties
<1>3. /\ UNCHANGED <<nowMs, limit, admitted>> /\ refused' = s
      /\ times' = [times EXCEPT ![s] = Kept(s, k)]
      /\ m <= limit /\ m - k >= limit
      /\ k < m => times[s][k + 1] >= nowMs - Window
  <2>1. m <= limit
    <3>1. CASE times[s] = << >>
      BY <1>1, <1>2, <3>1, EmptySeq
    <3>2. CASE times[s] # << >>
      BY <1>2, <3>2 DEF RateInv, RiskTypeOK
    <3> QED BY <3>1, <3>2
  <2> QED BY <1>2, <2>1 DEF OverLimit, Old
<1>4. k = 0 /\ m = limit
  BY <1>1, <1>2, <1>3
<1>5. times' = times
  <2>1. Kept(s, k) = times[s]
    <3>1. Kept(s, k) = SubSeq(times[s], 1, Len(times[s]))
      BY <1>4 DEF Kept
    <3>2. QED
      BY <1>1, <3>1, SubSeqFull
  <2>2. QED
    BY <1>1, <1>3, <2>1
<1>6. RiskTypeOK' /\ \A t \in SignalSymbols : QueueIsRecent(t)'
  <2>1. RiskTypeOK'
    BY <1>3, <1>5 DEF RateInv, RiskTypeOK
  <2>2. ASSUME NEW t \in SignalSymbols
        PROVE  QueueIsRecent(t)'
    BY <1>1, <1>3, <1>5, QueueKept DEF RateInv
  <2>3. QED
    BY <2>1, <2>2
<1>7. /\ Len(admitted[s]) >= limit
      /\ nowMs - admitted[s][Len(admitted[s]) - limit + 1] <= Window
  <2>1. PICK f \in Nat : EndOf(times[s], admitted[s], f, nowMs - Window)
    BY <1>1 DEF RateInv, QueueIsRecent
  <2>2. Len(admitted[s]) = f + limit /\ times[s][1] = admitted[s][f + 1]
    <3>1. 1 \in 1..Len(times[s]) /\ Len(times[s]) = limit
      BY <1>1, <1>2, <1>4
    <3>2. QED
      BY <2>1, <3>1 DEF EndOf
  <2>3. PICK y \in Nat : y = times[s][1] /\ y >= nowMs - Window
    <3>1. 1 \in 1..Len(times[s]) /\ times[s] \in Seq(Nat)
      BY <1>1, <1>2, <1>4
    <3>2. times[s][1] \in Nat
      BY <3>1, ElementOfSeq
    <3>3. k < m /\ k + 1 = 1
      BY <1>1, <1>4
    <3>4. times[s][1] >= nowMs - Window
      BY <1>3, <3>3
    <3>5. QED
      BY <3>2, <3>4
  <2>4. Len(admitted[s]) - limit + 1 = f + 1
    BY <1>1, <2>2
  <2>5. nowMs - y <= Window
    BY <1>1, <2>3, RiskAssumption
  <2>6. QED
    BY <1>1, <2>2, <2>3, <2>4, <2>5
<1>8. RefusedOnlyWhenFull'
  BY <1>3, <1>7 DEF RefusedOnlyWhenFull
<1>9. QED
  BY <1>6, <1>8 DEF RateInv

LEMMA RestInv ==
  ASSUME RateInv,
         \/ RejectEarly \/ RiskBegin \/ Restart \/ RiskTick \/ UNCHANGED riskVars
         \/ \E s \in SignalSymbols : Unlimited(s)
  PROVE  RateInv'
<1>0. /\ nowMs \in Nat /\ Window \in Nat
      /\ times \in [SignalSymbols -> Seq(Nat)] /\ admitted \in [SignalSymbols -> Seq(Nat)]
  BY RiskAssumption DEF RateInv, RiskTypeOK
<1>1. CASE RejectEarly \/ UNCHANGED riskVars
  <2>1. UNCHANGED <<nowMs, limit, times, admitted>> /\ refused' \in {NoSymbol, refused}
    BY <1>1 DEF RejectEarly, riskVars
  <2>2. RiskTypeOK' /\ RefusedOnlyWhenFull'
    BY <2>1, RiskAssumption DEF RateInv, RiskTypeOK, RefusedOnlyWhenFull
  <2>3. QED
    BY <2>1, <2>2, QueueKept DEF RateInv
<1>2. CASE RiskBegin \/ Restart
  <2>1. /\ limit' \in Nat /\ nowMs' \in Nat /\ refused' = NoSymbol
        /\ \A s \in SignalSymbols : times'[s] = << >> /\ admitted'[s] = << >>
    BY <1>0, <1>2, RiskAssumption DEF RiskBegin, Restart, Construct, NoTimes
  <2>2. RiskTypeOK'
    BY <1>0, <1>2, <2>1, EmptySeq DEF RiskBegin, Restart, Construct, NoTimes, RiskTypeOK
  <2>3. ASSUME NEW s \in SignalSymbols
        PROVE  QueueIsRecent(s)'
    <3>1. EndOf(<< >>, << >>, 0, nowMs' - Window) /\ Spaced(<< >>, limit')
      BY <2>1, EndOfEmpty
    <3>2. QED
      BY <2>1, <3>1 DEF QueueIsRecent
  <2>4. QED
    BY <2>1, <2>2, <2>3, RiskAssumption DEF RateInv, RefusedOnlyWhenFull
<1>3. CASE RiskTick
  <2>1. nowMs' = nowMs + 1 /\ refused' = NoSymbol /\ UNCHANGED <<limit, times, admitted>>
    BY <1>3 DEF RiskTick
  <2>2. RiskTypeOK'
    BY <1>0, <2>1 DEF RateInv, RiskTypeOK
  <2>3. ASSUME NEW s \in SignalSymbols, limit > 0
        PROVE  QueueIsRecent(s)'
    <3>1. PICK f \in Nat : EndOf(times[s], admitted[s], f, nowMs - Window)
      BY <2>3 DEF RateInv, QueueIsRecent
    <3>2. Len(admitted[s]) = f + Len(times[s]) /\ Len(times[s]) \in Nat
      BY <1>0, <3>1, LenProperties DEF EndOf
    <3>3. ASSUME NEW i \in 1..f
          PROVE  admitted[s][i] < nowMs' - Window
      <4>1. i \in 1..Len(admitted[s])
        BY <3>2
      <4>2. PICK y \in Nat : y = admitted[s][i]
        BY <1>0, <4>1, ElementOfSeq
      <4>3. y < nowMs - Window
        BY <3>1, <4>2 DEF EndOf
      <4>4. y < nowMs + 1 - Window
        BY <1>0, <4>3
      <4>5. nowMs' - Window = nowMs + 1 - Window
        BY <1>0, <2>1
      <4>6. QED
        BY <4>2, <4>4, <4>5
    <3>4. EndOf(times[s], admitted[s], f, nowMs' - Window)
      BY <3>1, <3>3 DEF EndOf
    <3>5. QED
      BY <2>1, <2>3, <3>4 DEF RateInv, QueueIsRecent
  <2>4. QED
    BY <2>1, <2>2, <2>3, RiskAssumption DEF RateInv, RefusedOnlyWhenFull
<1>4. ASSUME NEW s \in SignalSymbols, Unlimited(s)
      PROVE  RateInv'
  <2>1. /\ UNCHANGED <<nowMs, limit, times>> /\ refused' = NoSymbol /\ limit = 0
        /\ admitted' = [admitted EXCEPT ![s] = Append(@, nowMs)]
    BY <1>4 DEF Unlimited, Admit
  <2>2. admitted' \in [SignalSymbols -> Seq(Nat)]
    BY <1>0, <2>1, AppendProperties
  <2>3. RiskTypeOK'
    BY <2>1, <2>2 DEF RateInv, RiskTypeOK
  <2>4. QED
    BY <2>1, <2>3, RiskAssumption DEF RateInv, RefusedOnlyWhenFull
<1>5. QED
  BY <1>1, <1>2, <1>3, <1>4

LEMMA RateStepInv == RateInv /\ [Next]_vars => RateInv'
<1> SUFFICES ASSUME RateInv, [Next]_vars PROVE RateInv'
  OBVIOUS
<1>1. CASE RiskBegin
  BY <1>1, RestInv
<1>2. CASE RiskNext
  BY <1>2, WithinLimitInv, OverLimitInv, RestInv DEF RiskNext
<1>3. CASE UNCHANGED riskVars
  BY <1>3, RestInv
<1> QED
  <2>1. CASE Main
    BY <2>1, <1>1, <1>3
       DEF Main, Handler, CmdUserDataStream, CmdSpotPnl, CmdFuturesPnl, CmdFuturesPositions,
           CmdFuturesPositionsSyncRedis, CmdFetchKlines, CmdFetchOi, CmdEngine
  <2>2. CASE Next /\ ~Main
    BY <2>2, <1>2, <1>3 DEF Next
  <2> QED BY <2>1, <2>2, <1>3 DEF vars

LEMMA RateInvAlways == FairSpec => []RateInv
BY RateInit, RateStepInv, PTL DEF FairSpec

\* The pruned queue enforces the limit over every stretch of the window.
THEOREM RateLimitedCorrect == FairSpec => []RateLimited
<1>1. RateInv => RateLimited
  BY DEF RateInv, QueueIsRecent, Spaced, RateLimited
<1>2. QED
  BY <1>1, RateInvAlways, PTL

\* A symbol is refused only for its own recent admissions.
THEOREM RefusedOnlyWhenFullCorrect == FairSpec => []RefusedOnlyWhenFull
<1>1. RateInv => RefusedOnlyWhenFull
  BY DEF RateInv
<1>2. QED
  BY <1>1, RateInvAlways, PTL

=============================================================================
