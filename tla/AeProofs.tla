------------------------------ MODULE AeProofs ------------------------------
(* Invariants of the event loop.  Of the timers: for any number of them,   *)
(* any clock and any delays.  Of the file events, in the last part: for    *)
(* any number of descriptors, any size of the table and any handlers.      *)
EXTENDS AeTimer, AeFile, WellFoundedInduction, SequenceTheorems, TLAPS

-----------------------------------------------------------------------------
(* Numbers.                                                                *)

\* A set of numbers that is not empty has a least element.
LEMMA LeastNat ==
    ASSUME NEW T, T \subseteq Nat, T # {}
    PROVE  \E x \in T : \A y \in T : x <= y
<1> DEFINE R == OpToRel(<, Nat)
<1>1. IsWellFoundedOn(R, Nat)
  BY NatLessThanWellFounded
<1>2. \A x, y \in Nat : y < x => <<y, x>> \in R
  BY DEF OpToRel
<1> HIDE DEF R
<1>3. PICK x \in T : \A y \in T : ~(<<y, x>> \in R)
  BY <1>1, WFMin
<1>4. \A y \in T : ~(y < x)
  BY <1>2, <1>3
<1> QED
  BY <1>4

\* One that is bounded has a largest.
LEMMA LargestBelow ==
    ASSUME NEW n \in Nat, NEW T, T \subseteq 0..n, T # {}
    PROVE  \E x \in T : \A y \in T : y <= x
<1> DEFINE S == {n - x : x \in T}
<1>1. PICK z \in T : TRUE
  OBVIOUS
<1>2. S \subseteq Nat /\ n - z \in S
  BY <1>1
<1>3. PICK x \in T : \A r \in S : n - x <= r
  BY <1>2, LeastNat
<1>4. ASSUME NEW y \in T PROVE y <= x
  <2>1. n - y \in S
    OBVIOUS
  <2>2. n - x <= n - y
    BY <2>1, <1>3
  <2>3. x \in Int /\ y \in Int
    OBVIOUS
  <2> QED
    BY <2>2, <2>3
<1> QED
  BY <1>4

-----------------------------------------------------------------------------
(* Times.                                                                  *)

LEMMA DivMod ==
    ASSUME NEW m \in Nat \ {0}, NEW t \in Nat
    PROVE  /\ t \div m \in Nat /\ t % m \in 0..(m - 1)
           /\ t = m * (t \div m) + (t % m)
  OBVIOUS

LEMMA StampType == \A t \in Nat : Stamp(t) \in TimeStamp
  BY DivMod, TimeAssumption DEF Stamp, TimeStamp

\* A product that grows by less than a factor.
LEMMA NoMultipleBetween ==
    ASSUME NEW m \in Nat \ {0}, NEW a \in Int, NEW b \in Int, a < b
    PROVE  m * a + m <= m * b
<1>1. PICK d \in Nat : b = a + 1 + d
  <2>1. b - a - 1 \in Nat /\ b = a + 1 + (b - a - 1)
    OBVIOUS
  <2> QED
    BY <2>1
<1>2. m * b = m * a + m + m * d
  BY <1>1
<1>3. m * d \in Nat
  OBVIOUS
<1>4. m * a \in Int /\ m * b \in Int
  OBVIOUS
<1> QED
  BY <1>2, <1>3, <1>4

\* Time stamps keep the order of the clock.
LEMMA StampMonotone ==
    ASSUME NEW t \in Nat, NEW u \in Nat, t <= u
    PROVE  /\ Stamp(t).sec <= Stamp(u).sec
           /\ ~Earlier(Stamp(u), Stamp(t))
<1> DEFINE m == MsPerSec
<1> DEFINE p == t \div m
<1> DEFINE q == u \div m
<1> DEFINE r == t % m
<1> DEFINE s == u % m
<1>1. m \in Nat \ {0}
  BY TimeAssumption
<1>2. p \in Nat /\ r \in 0..(m - 1) /\ t = m * p + r
  BY <1>1, DivMod
<1>3. q \in Nat /\ s \in 0..(m - 1) /\ u = m * q + s
  BY <1>1, DivMod
<1>4. Stamp(t) = [sec |-> p, ms |-> r] /\ Stamp(u) = [sec |-> q, ms |-> s]
  BY DEF Stamp
<1> HIDE DEF m, p, q, r, s
<1>5. ~(q < p)
  <2>1. SUFFICES ASSUME q < p PROVE FALSE
    OBVIOUS
  <2>2. m * q + m <= m * p
    BY <1>1, <1>2, <1>3, <2>1, NoMultipleBetween
  <2>3. m * q \in Int /\ m * p \in Int
    BY <1>1, <1>2, <1>3
  <2> QED
    BY <1>1, <1>2, <1>3, <2>2, <2>3
<1>6. q = p => ~(s < r)
  <2>1. SUFFICES ASSUME q = p PROVE ~(s < r)
    OBVIOUS
  <2>2. m * p \in Int
    BY <1>1, <1>2
  <2>3. u = m * p + s
    BY <1>3, <2>1
  <2> QED
    BY <1>1, <1>2, <1>3, <2>2, <2>3
<1> QED
  BY <1>2, <1>3, <1>4, <1>5, <1>6 DEF Earlier

LEMMA NotEarlierTransitive ==
    ASSUME NEW a \in TimeStamp, NEW b \in TimeStamp, NEW c \in TimeStamp,
           ~Earlier(a, b), ~Earlier(b, c)
    PROVE  ~Earlier(a, c)
<1>1. /\ a.sec \in Nat /\ a.ms \in Int /\ b.sec \in Nat /\ b.ms \in Int
      /\ c.sec \in Nat /\ c.ms \in Int
  BY TimeAssumption DEF TimeStamp
<1> QED
  BY <1>1 DEF Earlier

\* What is earlier than b, which nothing was earlier than, nothing is earlier than.
LEMMA EarlierThanLeast ==
    ASSUME NEW a \in TimeStamp, NEW b \in TimeStamp, NEW c \in TimeStamp,
           Earlier(a, b), ~Earlier(c, b)
    PROVE  ~Earlier(c, a)
<1>1. /\ a.sec \in Nat /\ a.ms \in Int /\ b.sec \in Nat /\ b.ms \in Int
      /\ c.sec \in Nat /\ c.ms \in Int
  BY TimeAssumption DEF TimeStamp
<1> QED
  BY <1>1 DEF Earlier

-----------------------------------------------------------------------------
(* The list and its searches.                                              *)

\* The first timer with an id below i is in the list, and no other such timer is
\* in front of it.
LEMMA BelowIsLargest ==
    ASSUME NEW i \in Nat, timers \subseteq Nat
    PROVE  /\ Below(i) = NoTimer => \A w \in timers : ~(w < i)
           /\ Below(i) # NoTimer => /\ Below(i) \in timers /\ Below(i) < i
                                    /\ \A k \in timers : k < i => k <= Below(i)
<1> DEFINE T == {w \in timers : w < i}
<1>1. CASE T = {}
  <2>1. Below(i) = NoTimer
    BY <1>1 DEF Below
  <2> QED
    BY <1>1, <2>1
<1>2. CASE T # {}
  <2>1. \A w \in T : w \in 0..i
    OBVIOUS
  <2>2. PICK x \in T : \A y \in T : y <= x
    BY <1>2, <2>1, LargestBelow
  <2>3. \E w \in timers : w < i /\ \A k \in timers : k < i => k <= w
    BY <2>2
  <2>4. \E w \in timers : w < i
    BY <1>2
  <2>5. Below(i) = CHOOSE w \in timers : w < i /\ \A k \in timers : k < i => k <= w
    BY <2>4 DEF Below
  <2>6. /\ Below(i) \in timers /\ Below(i) < i
        /\ \A k \in timers : k < i => k <= Below(i)
    BY <2>3, <2>5
  <2>7. Below(i) # NoTimer
    BY <2>6, NullTimerAssumption
  <2> QED
    BY <2>6, <2>7
<1> QED
  BY <1>1, <1>2

\* findLatestTimeEvt finds a timer of the list that no other is earlier than.
LEMMA FindLatestIsNearest ==
    ASSUME NEW list, list \subseteq Id, list # {}, when \in [Id -> TimeStamp]
    PROVE  /\ FindLatest(list) \in list
           /\ \A w \in list : ~Earlier(when[w], when[FindLatest(list)])
<1>1. \A i \in list : when[i].sec \in Nat /\ when[i].ms \in Nat
  BY TimeAssumption DEF TimeStamp, Id
<1> DEFINE S == {when[i].sec : i \in list}
<1>2. PICK s \in S : \A x \in S : s <= x
  <2>1. S \subseteq Nat /\ S # {}
    BY <1>1
  <2> QED
    BY <2>1, LeastNat
<1> DEFINE L == {i \in list : when[i].sec = s}
<1>3. L # {}
  BY <1>2
<1> DEFINE M == {when[i].ms : i \in L}
<1>4. PICK m \in M : \A x \in M : m <= x
  <2>1. M \subseteq Nat /\ M # {}
    BY <1>1, <1>3
  <2> QED
    BY <2>1, LeastNat
<1> DEFINE N == {i \in L : when[i].ms = m}
<1>5. N # {} /\ N \subseteq 0..MaxTimers
  <2>1. N # {}
    BY <1>4
  <2>2. \A i \in Id : i \in 0..MaxTimers
    BY TimeAssumption DEF Id
  <2> QED
    BY <2>1, <2>2
<1>6. PICK n \in N : \A x \in N : x <= n
  <2>1. MaxTimers \in Nat
    BY TimeAssumption
  <2> QED
    BY <1>5, <2>1, LargestBelow
<1>7. ASSUME NEW w \in list
      PROVE  ~Earlier(when[w], when[n]) /\ (Earlier(when[n], when[w]) \/ w <= n)
  <2>1. when[n].sec = s /\ when[n].ms = m
    BY <1>6
  <2>2. s <= when[w].sec /\ s \in Nat /\ m \in Nat
    BY <1>2, <1>1, <1>4
  <2>3. when[w].sec = s => m <= when[w].ms
    BY <1>4
  <2>4. when[w].sec = s /\ when[w].ms = m => w <= n
    BY <1>6
  <2> QED
    BY <1>1, <2>1, <2>2, <2>3, <2>4 DEF Earlier
<1>8. n \in list
  BY <1>6
<1>9. \E i \in list : \A w \in list : /\ ~Earlier(when[w], when[i])
                                      /\ Earlier(when[i], when[w]) \/ w <= i
  BY <1>7, <1>8
<1> QED
  BY <1>9 DEF FindLatest

-----------------------------------------------------------------------------
(* The invariant.                                                          *)

\* Ids grow: what is in the list or was cached has been created.
IdShape ==
    /\ \A i \in timers : i < nextId
    /\ latest # NoTimer => latest < nextId

\* The cache is empty only if the list is, and names nothing that is freed; the
\* cursor is in the list; no finalizer runs while the loop itself does.
CacheShape ==
    /\ latest = NoTimer => timers = {}
    /\ latest # NoTimer =>
            \/ latest \in timers
            \/ \E k \in 1..Len(finalizing) : finalizing[k] = latest
    /\ pc \in {"top", "poll", "scan"} => finalizing = <<>>
    /\ pc = "scan" /\ te # NoTimer => te \in timers

\* Nothing is earlier than the cached timer, also while a finalizer of that very
\* timer runs.
CacheNearest ==
    skews = 0 =>
        /\ lastTime <= Stamp(now).sec
        /\ ~stale /\ latest # NoTimer =>
                \A i \in timers : ~Earlier(when[i], when[latest])

\* What is still to be fired in this pass is ahead of the cursor, or will be when
\* the scan starts again.
PassShape ==
    /\ pc \notin {"scan", "proc", "retire"} => pending = {}
    /\ \A i \in pending : i \in timers /\ i <= maxId /\ Due(i)
    /\ pc = "scan" => \A i \in pending : te # NoTimer /\ i <= te
    /\ pc = "proc" => te \notin pending /\ te \in Id

TimerInv == TypeOK /\ IdShape /\ CacheShape /\ CacheNearest /\ PassShape

LEMMA TimeMissingType ==
    ASSUME NEW s \in TimeStamp, now \in Nat
    PROVE  TimeMissing(s) \in Nat
<1> DEFINE n == Stamp(now)
<1> DEFINE sec == IF s.ms < n.ms THEN s.sec - n.sec - 1 ELSE s.sec - n.sec
<1> DEFINE ms == IF s.ms < n.ms THEN s.ms + MsPerSec - n.ms ELSE s.ms - n.ms
<1> DEFINE full == IF sec < 0 THEN 0 ELSE sec
<1>1. /\ n.sec \in Nat /\ n.ms \in 0..(MsPerSec - 1)
      /\ s.sec \in Nat /\ s.ms \in 0..(MsPerSec - 1)
  BY StampType DEF TimeStamp
<1>2. MsPerSec \in Nat
  BY TimeAssumption
<1>3. full \in Nat
  BY <1>1
<1>4. ms \in Nat
  BY <1>1, <1>2
<1>5. full * MsPerSec \in Nat
  <2> HIDE DEF full
  <2> QED
    BY <1>2, <1>3
<1>6. TimeMissing(s) = full * MsPerSec + ms
  BY DEF TimeMissing
<1> HIDE DEF full, ms
<1> QED
  BY <1>4, <1>5, <1>6

\* The cursor after a step of the scan.
LEMMA BelowType ==
    ASSUME TypeOK, NEW i \in Nat
    PROVE  /\ Below(i) \in Id \cup {NoTimer}
           /\ Below(i) # NoTimer => Below(i) \in timers /\ Below(i) \in Nat
           /\ \A k \in timers : k < i => Below(i) # NoTimer /\ k <= Below(i)
<1>1. timers \subseteq Nat
  BY TimeAssumption DEF TypeOK, Id
<1>2. /\ Below(i) = NoTimer => \A w \in timers : ~(w < i)
      /\ Below(i) # NoTimer => /\ Below(i) \in timers /\ Below(i) < i
                               /\ \A k \in timers : k < i => k <= Below(i)
  BY <1>1, BelowIsLargest
<1> QED
  BY <1>1, <1>2 DEF TypeOK

LEMMA HeadType ==
    ASSUME TypeOK, IdShape
    PROVE  /\ TimeEventHead \in Id \cup {NoTimer}
           /\ TimeEventHead # NoTimer => TimeEventHead \in timers
           /\ \A k \in timers : TimeEventHead # NoTimer /\ k <= TimeEventHead
<1>1. nextId \in Nat
  BY TimeAssumption DEF TypeOK
<1> QED
  BY <1>1, BelowType DEF TimeEventHead, IdShape

LEMMA TimerInvInit == Init => TimerInv
<1> SUFFICES ASSUME Init PROVE TimerInv
  OBVIOUS
<1>1. now = MsPerSec /\ now \in Nat /\ 0 \in Nat
  BY TimeAssumption DEF Init
<1>2. Stamp(now) \in TimeStamp /\ Stamp(0) \in TimeStamp
  BY <1>1, StampType
<1>3. Stamp(now).sec \in Nat
  BY <1>2 DEF TimeStamp
<1>4. TypeOK
  <2>1. when \in [Id -> TimeStamp]
    BY <1>2 DEF Init
  <2>2. 0 \in 0..MaxSkews /\ 0 \in 0..MaxTimers
    BY TimeAssumption
  <2>3. finalizing \in Seq(Id)
    BY DEF Init
  <2>4. now \in Nat /\ MsPerSec <= now
    BY TimeAssumption DEF Init
  <2> QED
    BY <1>1, <1>3, <2>1, <2>2, <2>3, <2>4 DEF Init, TypeOK
<1>5. IdShape /\ CacheShape /\ PassShape
  BY DEF Init, IdShape, CacheShape, PassShape
<1>6. CacheNearest
  BY <1>3 DEF Init, CacheNearest
<1> QED
  BY <1>4, <1>5, <1>6 DEF TimerInv

-----------------------------------------------------------------------------
(* One lemma per step that touches the list, the cache, the clock or the   *)
(* cursor.                                                                 *)

LEMMA CreateKeeps ==
    ASSUME TimerInv, NEW d \in Delay, AeCreateTimeEvent(d)
    PROVE  TimerInv'
<1> USE DEF TimerInv
<1> DEFINE due == Stamp(now + d)
<1>1. /\ due \in TimeStamp /\ nextId \in Id /\ nextId + 1 \in 0..MaxTimers
      /\ nextId \in Nat /\ nextId # NoTimer
  <2>1. now + d \in Nat
    BY TimeAssumption DEF TypeOK
  <2>2. nextId \in 0..MaxTimers /\ nextId < MaxTimers /\ MaxTimers \in Nat
    BY TimeAssumption DEF TypeOK, AeCreateTimeEvent
  <2> QED
    BY <2>1, <2>2, StampType, NullTimerAssumption DEF Id
<1>2. /\ timers' = timers \cup {nextId}
      /\ nextId' = nextId + 1
      /\ when' = [when EXCEPT ![nextId] = due]
      /\ latest' = UpdateLatest(nextId, due)
      /\ UNCHANGED <<pc, now, skews, finalizing, stop, lastTime, wait, te,
                     maxId, pending, stale>>
  BY DEF AeCreateTimeEvent, clock, loop
<1> HIDE DEF due
<1>3. nextId \notin timers /\ latest # nextId
  BY <1>1 DEF IdShape
<1>4. \A i \in timers : when'[i] = when[i]
  BY <1>2, <1>3 DEF TypeOK
<1>5. when'[nextId] = due
  BY <1>1, <1>2 DEF TypeOK
<1>6. latest' = IF latest = NoTimer THEN nextId
                ELSE IF Earlier(due, when[latest]) THEN nextId ELSE latest
  BY <1>2, <1>3 DEF UpdateLatest
<1>7. TypeOK'
  BY <1>1, <1>2, <1>6 DEF TypeOK
<1>8. IdShape'
  <2>1. \A i \in timers' : i < nextId'
    BY <1>1, <1>2, TimeAssumption DEF IdShape, TypeOK, Id
  <2>2. latest # NoTimer => latest \in Nat /\ latest < nextId
    BY TimeAssumption DEF IdShape, TypeOK, Id
  <2>3. latest' = nextId \/ (latest' = latest /\ latest # NoTimer)
    BY <1>6
  <2>4. latest' < nextId'
    BY <1>1, <1>2, <2>2, <2>3
  <2> QED
    BY <2>1, <2>4 DEF IdShape
<1>9. CacheShape'
  <2>1. latest' # NoTimer
    BY <1>1, <1>6
  <2>2. latest' = nextId \/ (latest' = latest /\ latest # NoTimer)
    BY <1>6
  <2> QED
    BY <1>2, <2>1, <2>2 DEF CacheShape
<1>10. CacheNearest'
  <2>1. SUFFICES ASSUME skews = 0
        PROVE  /\ lastTime <= Stamp(now).sec
               /\ ~stale /\ latest' # NoTimer =>
                    \A i \in timers' : ~Earlier(when'[i], when'[latest'])
    BY <1>2 DEF CacheNearest, Stamp
  <2>2. lastTime <= Stamp(now).sec
    BY <2>1 DEF CacheNearest
  <2>3. SUFFICES ASSUME ~stale, NEW i \in timers'
                 PROVE  ~Earlier(when'[i], when'[latest'])
    BY <2>2
  <2>4. ~Earlier(due, due)
    BY <1>1, TimeAssumption DEF Earlier, TimeStamp
  <2>5. CASE latest = NoTimer
    <3>1. timers = {} /\ latest' = nextId
      BY <1>6, <2>5 DEF CacheShape
    <3> QED
      BY <1>2, <1>5, <2>4, <3>1
  <2>6. CASE latest # NoTimer /\ Earlier(due, when[latest])
    <3>1. latest' = nextId
      BY <1>6, <2>6
    <3>2. CASE i = nextId
      BY <1>5, <2>4, <3>1, <3>2
    <3>3. CASE i \in timers
      <4>1. ~Earlier(when[i], when[latest])
        BY <2>1, <2>3, <2>6, <3>3 DEF CacheNearest
      <4>2. when[i] \in TimeStamp /\ when[latest] \in TimeStamp
        BY <2>6, <3>3 DEF TypeOK
      <4>3. ~Earlier(when[i], due)
        BY <1>1, <2>6, <4>1, <4>2, EarlierThanLeast
      <4> QED
        BY <1>4, <1>5, <3>1, <3>3, <4>3
    <3> QED
      BY <1>2, <3>2, <3>3
  <2>7. CASE latest # NoTimer /\ ~Earlier(due, when[latest])
    <3>1. latest' = latest /\ when'[latest] = when[latest]
      BY <1>2, <1>3, <1>6, <2>7 DEF TypeOK
    <3>2. CASE i = nextId
      BY <1>5, <2>7, <3>1, <3>2
    <3>3. CASE i \in timers
      BY <1>4, <2>1, <2>3, <2>7, <3>1, <3>3 DEF CacheNearest
    <3> QED
      BY <1>2, <3>2, <3>3
  <2> QED
    BY <2>5, <2>6, <2>7
<1>11. PassShape'
  BY <1>2, <1>4 DEF PassShape, Due, Reached, Stamp
<1> QED
  BY <1>7, <1>8, <1>9, <1>10, <1>11

\* What unlinking a timer leaves, whoever calls aeDeleteTimeEvent.
LEMMA UnlinkKeeps ==
    ASSUME TimerInv, NEW i \in timers, Unlink(i),
           pc' = pc \/ (pc = "proc" /\ pc' = "retire"),
           pc \notin {"top", "poll", "scan"}
    PROVE  TimerInv'
<1> USE DEF TimerInv
<1>1. /\ timers' = timers \ {i} /\ pending' = pending \ {i}
      /\ finalizing' = Append(finalizing, i)
      /\ UNCHANGED <<now, skews, when, nextId, latest, stale, stop, lastTime,
                     wait, te, maxId>>
  BY DEF Unlink, clock, loop
<1>2. i \in Id /\ finalizing \in Seq(Id)
  BY DEF TypeOK
<1>3. /\ finalizing' \in Seq(Id) /\ Len(finalizing') = Len(finalizing) + 1
      /\ \A k \in 1..Len(finalizing) : finalizing'[k] = finalizing[k]
      /\ finalizing'[Len(finalizing) + 1] = i
      /\ Len(finalizing) \in Nat
  BY <1>1, <1>2
<1>4. TypeOK'
  BY <1>1, <1>3 DEF TypeOK
<1>5. IdShape'
  BY <1>1 DEF IdShape
<1>6. CacheShape'
  <2>1. ASSUME latest # NoTimer
        PROVE  latest \in timers' \/ \E k \in 1..Len(finalizing') : finalizing'[k] = latest
    <3>1. CASE latest = i
      BY <1>3, <3>1
    <3>2. CASE latest # i /\ latest \in timers
      BY <1>1, <3>2
    <3>3. CASE \E k \in 1..Len(finalizing) : finalizing[k] = latest
      <4>1. PICK k \in 1..Len(finalizing) : finalizing[k] = latest
        BY <3>3
      <4>2. k \in 1..Len(finalizing') /\ finalizing'[k] = latest
        BY <1>3, <4>1
      <4> QED
        BY <4>2
    <3> QED
      BY <2>1, <3>1, <3>2, <3>3 DEF CacheShape
  <2>2. latest = NoTimer => timers' = {}
    BY <1>1 DEF CacheShape
  <2>3. pc' \notin {"top", "poll", "scan"}
    OBVIOUS
  <2> QED
    BY <1>1, <2>1, <2>2, <2>3 DEF CacheShape
<1>7. CacheNearest'
  BY <1>1 DEF CacheNearest, Stamp
<1>8. PassShape'
  BY <1>1 DEF PassShape, Due, Reached, Stamp
<1> QED
  BY <1>4, <1>5, <1>6, <1>7, <1>8

LEMMA FinalizerReturnsKeeps ==
    ASSUME TimerInv, FinalizerReturns
    PROVE  TimerInv'
<1> USE DEF TimerInv
<1>1. /\ finalizing # <<>>
      /\ finalizing' = SubSeq(finalizing, 1, Len(finalizing) - 1)
      /\ latest' = FindLatest(timers) /\ stale' = FALSE
      /\ UNCHANGED <<pc, now, skews, timers, when, nextId, pending, stop,
                     lastTime, wait, te, maxId>>
  BY DEF FinalizerReturns, clock, loop
<1>2. finalizing \in Seq(Id) /\ Len(finalizing) \in Nat \ {0}
  BY <1>1, EmptySeq DEF TypeOK
<1>3. finalizing' \in Seq(Id)
  <2>1. \A k \in 1..(Len(finalizing) - 1) : finalizing[k] \in Id
    BY <1>2
  <2> QED
    BY <1>1, <1>2, <2>1, SubSeqProperties
<1>4. /\ timers = {} => latest' = NoTimer
      /\ timers # {} =>
            /\ latest' \in timers
            /\ \A w \in timers : ~Earlier(when[w], when[latest'])
  <2>1. CASE timers = {}
    BY <1>1, <2>1 DEF FindLatest
  <2>2. CASE timers # {}
    BY <1>1, <2>2, FindLatestIsNearest DEF TypeOK
  <2> QED
    BY <2>1, <2>2
<1>5. TypeOK'
  <2>1. latest' \in Id \cup {NoTimer}
    BY <1>4 DEF TypeOK
  <2> QED
    BY <1>1, <1>3, <2>1 DEF TypeOK
<1>6. IdShape' /\ CacheShape'
  <2>1. latest' = NoTimer => timers = {}
    <3>1. NoTimer \notin timers
      <4>1. Id \subseteq Nat
        BY TimeAssumption DEF Id
      <4> QED
        BY <4>1, NullTimerAssumption DEF TypeOK
    <3> QED
      BY <1>4, <3>1
  <2>2. latest' # NoTimer => latest' \in timers
    BY <1>4
  <2>3. pc \notin {"top", "poll", "scan"}
    BY <1>1 DEF CacheShape
  <2>4. IdShape'
    BY <1>1, <2>2 DEF IdShape
  <2>5. CacheShape'
    BY <1>1, <2>1, <2>2, <2>3 DEF CacheShape
  <2> QED
    BY <2>4, <2>5
<1>7. CacheNearest'
  BY <1>1, <1>4 DEF CacheNearest, Stamp
<1>8. PassShape'
  BY <1>1 DEF PassShape, Due, Reached, Stamp
<1> QED
  BY <1>5, <1>6, <1>7, <1>8

LEMMA ProcRearmsKeeps ==
    ASSUME TimerInv, NEW p \in Period, ProcRearms(p)
    PROVE  TimerInv'
<1> USE DEF TimerInv
<1> DEFINE due == Stamp(now + p)
<1>1. due \in TimeStamp
  <2>1. now + p \in Nat
    BY TimeAssumption DEF TypeOK
  <2> QED
    BY <2>1, StampType
<1>2. /\ pc = "proc" /\ finalizing = <<>> /\ te \in timers /\ pc' = "scan"
      /\ when' = [when EXCEPT ![te] = due]
      /\ latest' = UpdateLatest(te, due)
      /\ stale' = (stale \/ latest = te)
      /\ te' = TimeEventHead
      /\ UNCHANGED <<now, skews, timers, nextId, finalizing, stop, lastTime,
                     wait, maxId, pending>>
  BY DEF ProcRearms, clock
<1> HIDE DEF due
<1>3. te \in Id /\ te # NoTimer /\ latest # NoTimer
  BY <1>2, NullTimerAssumption DEF TypeOK, CacheShape, Id
<1>4. when'[te] = due /\ \A i \in timers \ {te} : when'[i] = when[i]
  BY <1>2, <1>3 DEF TypeOK
<1>5. /\ te' \in Id \cup {NoTimer}
      /\ te' # NoTimer => te' \in timers
      /\ \A k \in timers : te' # NoTimer /\ k <= te'
  BY <1>2, HeadType
<1>6. latest' \in {te, latest}
  BY <1>2 DEF UpdateLatest
<1>7. latest \in timers
  BY <1>2, <1>3, EmptySeq DEF CacheShape
<1>8. TypeOK'
  BY <1>1, <1>2, <1>3, <1>5, <1>6 DEF TypeOK
<1>9. IdShape'
  BY <1>2, <1>6, <1>7 DEF IdShape
<1>10. CacheShape'
  BY <1>2, <1>3, <1>5, <1>6, <1>7 DEF CacheShape
<1>11. CacheNearest'
  <2>1. SUFFICES ASSUME skews = 0
        PROVE  /\ lastTime <= Stamp(now).sec
               /\ ~stale' => \A i \in timers : ~Earlier(when'[i], when'[latest'])
    BY <1>2 DEF CacheNearest, Stamp
  <2>2. lastTime <= Stamp(now).sec
    BY <2>1 DEF CacheNearest
  <2>3. SUFFICES ASSUME ~stale, latest # te, NEW i \in timers
                 PROVE  ~Earlier(when'[i], when'[latest'])
    BY <1>2, <2>2
  <2>4. latest' = IF Earlier(due, when[latest]) THEN te ELSE latest
    BY <1>2, <1>3, <2>3 DEF UpdateLatest
  <2>5. ~Earlier(when[i], when[latest])
    BY <1>3, <2>1, <2>3 DEF CacheNearest
  <2>6. ~Earlier(due, due)
    BY <1>1, TimeAssumption DEF Earlier, TimeStamp
  <2>7. when[i] \in TimeStamp /\ when[latest] \in TimeStamp
    BY <1>7 DEF TypeOK
  <2>8. CASE Earlier(due, when[latest])
    <3>1. latest' = te
      BY <2>4, <2>8
    <3>2. CASE i = te
      BY <1>4, <2>6, <3>1, <3>2
    <3>3. CASE i # te
      <4>1. ~Earlier(when[i], due)
        BY <1>1, <2>5, <2>7, <2>8, EarlierThanLeast
      <4> QED
        BY <1>4, <3>1, <3>3, <4>1
    <3> QED
      BY <3>2, <3>3
  <2>9. CASE ~Earlier(due, when[latest])
    <3>1. latest' = latest /\ when'[latest] = when[latest]
      BY <1>4, <1>7, <2>3, <2>4, <2>9
    <3>2. CASE i = te
      BY <1>4, <2>9, <3>1, <3>2
    <3>3. CASE i # te
      BY <1>4, <2>5, <3>1, <3>3
    <3> QED
      BY <3>2, <3>3
  <2> QED
    BY <2>8, <2>9
<1>12. PassShape'
  <2>1. te \notin pending /\ pending \subseteq timers
    BY <1>2 DEF PassShape
  <2>2. \A i \in pending : when'[i] = when[i]
    BY <1>4, <2>1
  <2> QED
    BY <1>2, <1>5, <2>1, <2>2 DEF PassShape, Due, Reached, Stamp
<1> QED
  BY <1>8, <1>9, <1>10, <1>11, <1>12

\* A clock that has passed a second shows one.
LEMMA SecondBegan ==
    ASSUME NEW t \in Nat, MsPerSec <= t
    PROVE  t \div MsPerSec >= 1
<1>1. MsPerSec \in Nat /\ MsPerSec >= 1
  BY TimeAssumption
<1> DEFINE q == t \div MsPerSec
           r == t % MsPerSec
<1>2. /\ q \in Int /\ r \in Int /\ r < MsPerSec
      /\ t = MsPerSec * q + r
  BY <1>1, SMTT(30)
<1> HIDE DEF q, r
<1>3. CASE q <= 0
  <2>1. MsPerSec * q <= 0
    BY <1>1, <1>2, <1>3, SMTT(30)
  <2> DEFINE p == MsPerSec * q
  <2>2. p \in Int
    BY <1>1, <1>2
  <2> HIDE DEF p
  <2> QED
    BY <1>1, <1>2, <2>1, <2>2 DEF p
<1> QED
  BY <1>2, <1>3 DEF q

LEMMA BeginPassKeeps ==
    ASSUME TimerInv, BeginPass
    PROVE  TimerInv'
<1> USE DEF TimerInv
<1>1. /\ pc = "dispatch" /\ finalizing = <<>> /\ pc' = "scan"
      /\ when' = SkewedWhen /\ lastTime' = Stamp(now).sec
      /\ te' = TimeEventHead /\ maxId' = nextId - 1
      /\ pending' = {i \in timers : Skewed \/ Due(i)}
      /\ UNCHANGED <<now, skews, timers, nextId, latest, stale, finalizing,
                     stop, wait>>
  BY DEF BeginPass, clock
<1>2. Stamp(now).sec \in Nat
  BY StampType DEF TypeOK, TimeStamp
<1>3. when' \in [Id -> TimeStamp]
  <2>1. ASSUME NEW i \in Id
        PROVE  [when[i] EXCEPT !.sec = 0] \in TimeStamp /\ when[i] \in TimeStamp
    <3>1. when[i] \in TimeStamp
      BY DEF TypeOK
    <3> QED
      BY <3>1 DEF TimeStamp
  <2> QED
    BY <1>1, <2>1 DEF SkewedWhen
<1>4. /\ te' \in Id \cup {NoTimer}
      /\ te' # NoTimer => te' \in timers
      /\ \A k \in timers : te' # NoTimer /\ k <= te'
  BY <1>1, HeadType
<1>5. maxId' \in Id \cup {-1}
  BY <1>1, TimeAssumption DEF TypeOK, Id
<1>6. TypeOK'
  <2>1. pending' \in SUBSET Id
    BY <1>1 DEF TypeOK
  <2> QED
    BY <1>1, <1>2, <1>3, <1>4, <1>5, <2>1 DEF TypeOK
<1>7. IdShape' /\ CacheShape'
  BY <1>1, <1>4 DEF IdShape, CacheShape
<1>8. CacheNearest'
  <2>1. SUFFICES ASSUME skews = 0
        PROVE  /\ lastTime' <= Stamp(now).sec
               /\ when' = when
    BY <1>1 DEF CacheNearest, Stamp
  <2>2. ~Skewed
    BY <1>2, <2>1 DEF CacheNearest, Skewed, TypeOK
  <2>3. SkewedWhen = when
    BY <2>2 DEF SkewedWhen, TypeOK
  <2> QED
    BY <1>1, <1>2, <2>3
<1>9. PassShape'
  <2>1. \A i \in pending' : i \in timers /\ ~Earlier(Stamp(now), when'[i])
    <3> SUFFICES ASSUME NEW i \in timers, Skewed \/ Due(i)
                 PROVE  ~Earlier(Stamp(now), SkewedWhen[i])
      BY <1>1
    <3>1. i \in Id /\ when[i] \in TimeStamp
      BY DEF TypeOK
    <3>2. CASE Skewed
      <4>1. SkewedWhen[i] = [when[i] EXCEPT !.sec = 0]
        BY <3>1, <3>2 DEF SkewedWhen
      <4>2. SkewedWhen[i].sec = 0
        BY <3>1, <4>1 DEF TimeStamp
      <4>3. Stamp(now).sec >= 1
        BY SecondBegan DEF TypeOK, Stamp
      <4> QED
        BY <1>2, <4>2, <4>3 DEF Earlier
    <3>3. CASE ~Skewed
      BY <3>1, <3>3 DEF SkewedWhen, Due, Reached
    <3> QED
      BY <3>2, <3>3
  <2>2. \A i \in timers : i <= maxId'
    BY <1>1, TimeAssumption DEF IdShape, TypeOK, Id
  <2> QED
    BY <1>1, <1>4, <2>1, <2>2 DEF PassShape, Due, Reached, Stamp
<1> QED
  BY <1>6, <1>7, <1>8, <1>9

LEMMA ScanKeeps ==
    ASSUME TimerInv, ScanNext \/ ScanFire
    PROVE  TimerInv'
<1> USE DEF TimerInv
<1>1. /\ pc = "scan" /\ te # NoTimer
      /\ UNCHANGED <<now, skews, timers, when, nextId, latest, stale,
                     finalizing, stop, lastTime, wait, maxId>>
  BY DEF ScanNext, ScanFire, clock, events, loop
<1>2. te \in timers /\ te \in Id /\ te \in Nat
  BY <1>1, TimeAssumption DEF CacheShape, TypeOK, Id
<1>3. CASE ScanNext
  <2>1. pc' = pc /\ te' = Below(te) /\ pending' = pending /\ Passes(te)
    BY <1>3 DEF ScanNext
  <2>2. /\ te' \in Id \cup {NoTimer}
        /\ te' # NoTimer => te' \in timers
        /\ \A k \in timers : k < te => te' # NoTimer /\ k <= te'
    BY <1>2, <2>1, BelowType
  <2>3. \A i \in pending : i < te
    <3>1. SUFFICES ASSUME NEW i \in pending PROVE i < te
      OBVIOUS
    <3>2. i <= maxId /\ Due(i) /\ i <= te /\ i \in Nat
      BY <1>1, TimeAssumption DEF PassShape, TypeOK, Id
    <3>3. i # te
      BY <3>2, <2>1, <1>2 DEF Passes, TypeOK, Id
    <3> QED
      BY <1>2, <3>2, <3>3
  <2>4. TypeOK'
    BY <1>1, <2>1, <2>2 DEF TypeOK
  <2>5. IdShape' /\ CacheShape'
    BY <1>1, <2>1, <2>2 DEF IdShape, CacheShape
  <2>6. CacheNearest'
    BY <1>1 DEF CacheNearest, Stamp
  <2>7. PassShape'
    BY <1>1, <2>1, <2>2, <2>3 DEF PassShape, Due, Reached, Stamp
  <2> QED
    BY <2>4, <2>5, <2>6, <2>7
<1>4. CASE ScanFire
  <2>1. pc' = "proc" /\ pending' = pending \ {te} /\ te' = te
    BY <1>4 DEF ScanFire, loop
  <2>2. TypeOK'
    BY <1>1, <2>1 DEF TypeOK
  <2>3. IdShape' /\ CacheShape'
    BY <1>1, <2>1 DEF IdShape, CacheShape
  <2>4. CacheNearest'
    BY <1>1 DEF CacheNearest, Stamp
  <2>5. PassShape'
    BY <1>1, <1>2, <2>1 DEF PassShape, Due, Reached, Stamp
  <2> QED
    BY <2>2, <2>3, <2>4, <2>5
<1> QED
  BY <1>3, <1>4

LEMMA RestartKeeps ==
    ASSUME TimerInv, Restart
    PROVE  TimerInv'
<1> USE DEF TimerInv
<1>1. /\ pc = "retire" /\ finalizing = <<>> /\ pc' = "scan" /\ te' = TimeEventHead
      /\ UNCHANGED <<now, skews, timers, when, nextId, latest, stale,
                     finalizing, stop, lastTime, wait, maxId, pending>>
  BY DEF Restart, clock, events
<1>2. /\ te' \in Id \cup {NoTimer}
      /\ te' # NoTimer => te' \in timers
      /\ \A k \in timers : te' # NoTimer /\ k <= te'
  BY <1>1, HeadType
<1>3. TypeOK'
  BY <1>1, <1>2 DEF TypeOK
<1>4. IdShape' /\ CacheShape'
  BY <1>1, <1>2 DEF IdShape, CacheShape
<1>5. CacheNearest'
  BY <1>1 DEF CacheNearest, Stamp
<1>6. PassShape'
  BY <1>1, <1>2 DEF PassShape, Due, Reached, Stamp
<1> QED
  BY <1>3, <1>4, <1>5, <1>6

LEMMA TickKeeps ==
    ASSUME TimerInv, Tick
    PROVE  TimerInv'
<1> USE DEF TimerInv
<1>1. UNCHANGED <<pc, skews, timers, when, nextId, latest, stale, finalizing,
                  stop, lastTime, te, maxId, pending>>
  BY DEF Tick, events
<1>2. now \in Nat /\ now' \in Nat /\ now <= now'
  BY TimeAssumption DEF Tick, TypeOK
<1>3. wait' \in Nat \cup {Forever}
  <2>1. wait \in Nat \cup {Forever}
    BY DEF TypeOK
  <2>2. wait' = wait \/ (wait \notin {0, Forever} /\ wait' = wait - 1)
    BY DEF Tick
  <2> QED
    BY <2>1, <2>2
<1>4. Stamp(now).sec <= Stamp(now').sec /\ ~Earlier(Stamp(now'), Stamp(now))
  BY <1>2, StampMonotone
<1>5. Stamp(now) \in TimeStamp /\ Stamp(now') \in TimeStamp
  BY <1>2, StampType
<1>6. TypeOK'
  <2>1. now' \in Nat /\ MsPerSec <= now'
    BY <1>2, TimeAssumption DEF TypeOK
  <2> QED
    BY <1>1, <1>3, <2>1 DEF TypeOK
<1>7. IdShape' /\ CacheShape'
  BY <1>1 DEF IdShape, CacheShape
<1>8. CacheNearest'
  <2>1. Stamp(now).sec \in Nat /\ Stamp(now').sec \in Nat /\ lastTime \in Nat
    BY <1>5 DEF TimeStamp, TypeOK
  <2>2. lastTime <= Stamp(now).sec => lastTime <= Stamp(now').sec
    BY <1>4, <2>1
  <2> QED
    BY <1>1, <2>2 DEF CacheNearest, Stamp
<1>9. PassShape'
  <2>1. ASSUME NEW i \in pending
        PROVE  ~Earlier(Stamp(now'), when[i])
    <3>1. ~Earlier(Stamp(now), when[i]) /\ when[i] \in TimeStamp
      BY DEF PassShape, Due, Reached, TypeOK
    <3> QED
      BY <1>4, <1>5, <3>1, NotEarlierTransitive
  <2> QED
    BY <1>1, <2>1 DEF PassShape, Due, Reached, Stamp
<1> QED
  BY <1>6, <1>7, <1>8, <1>9

LEMMA SetClockKeeps ==
    ASSUME TimerInv, NEW t \in MsPerSec..MaxTime, SetClock(t)
    PROVE  TimerInv'
<1> USE DEF TimerInv
<1>1. /\ skews < MaxSkews /\ skews' = skews + 1 /\ now' = t
      /\ pending' = {i \in pending : ~Earlier(Stamp(t), when[i])}
      /\ UNCHANGED <<pc, timers, when, nextId, latest, stale, finalizing, stop,
                     lastTime, wait, te, maxId>>
  BY DEF SetClock, events, loop
<1>2. t \in Nat
  BY TimeAssumption
<1>3. skews' \in 0..MaxSkews /\ skews' # 0
  BY <1>1, TimeAssumption DEF TypeOK
<1>4. TypeOK'
  BY <1>1, <1>2, <1>3 DEF TypeOK
<1>5. IdShape' /\ CacheShape'
  BY <1>1 DEF IdShape, CacheShape
<1>6. CacheNearest'
  BY <1>3 DEF CacheNearest
<1>7. PassShape'
  BY <1>1 DEF PassShape, Due, Reached, Stamp
<1> QED
  BY <1>4, <1>5, <1>6, <1>7

\* The steps that move the loop and touch neither list, cache nor clock.
LEMMA QuietKeeps ==
    ASSUME TimerInv,
           AeStop \/ AeMain \/ LoopHead \/ EnterPoll \/ PollTimesOut
           \/ PollFires \/ EndPass
    PROVE  TimerInv'
<1> USE DEF TimerInv
<1>1. /\ UNCHANGED <<now, skews, timers, when, nextId, latest, stale,
                     finalizing, lastTime, te, maxId, pending>>
      /\ \/ pc' = pc
         \/ pc' \in {"idle", "before", "dispatch"} /\ pc \in {"top", "poll"}
         \/ pc' \in {"top", "poll"} /\ pc \in {"idle", "before"} /\ finalizing = <<>>
         \/ pc' = "top" /\ pc = "scan" /\ te = NoTimer
  BY DEF AeStop, AeMain, LoopHead, EnterPoll, PollTimesOut, PollFires, EndPass,
         clock, events, loop
<1>2. stop' \in BOOLEAN
  BY DEF AeStop, AeMain, LoopHead, EnterPoll, PollTimesOut, PollFires, EndPass,
         loop, TypeOK
<1>3. wait' \in Nat \cup {Forever}
  <2>1. latest # NoTimer => TimeMissing(when[latest]) \in Nat
    BY TimeMissingType DEF TypeOK
  <2>2. wait' = wait \/ wait' = 0 \/ wait' = Forever
        \/ (latest # NoTimer /\ wait' = TimeMissing(when[latest]))
    BY DEF AeStop, AeMain, LoopHead, EnterPoll, PollTimesOut, PollFires,
           EndPass, loop
  <2> QED
    BY <2>1, <2>2 DEF TypeOK
<1>4. TypeOK'
  BY <1>1, <1>2, <1>3 DEF TypeOK
<1>5. IdShape' /\ CacheShape'
  BY <1>1 DEF IdShape, CacheShape
<1>6. CacheNearest'
  BY <1>1 DEF CacheNearest, Stamp
<1>7. PassShape'
  BY <1>1 DEF PassShape, Due, Reached, Stamp
<1> QED
  BY <1>4, <1>5, <1>6, <1>7

LEMMA TimerInvStep == TimerInv /\ [Next]_vars => TimerInv'
<1> SUFFICES ASSUME TimerInv, [Next]_vars PROVE TimerInv'
  OBVIOUS
<1>1. CASE \E d \in Delay : AeCreateTimeEvent(d)
  BY <1>1, CreateKeeps
<1>2. CASE \E i \in Id : AeDeleteTimeEvent(i)
  <2>1. PICK i \in Id : AeDeleteTimeEvent(i)
    BY <1>2
  <2>2. i \in timers /\ Unlink(i) /\ pc' = pc /\ InCallback
    BY <2>1 DEF AeDeleteTimeEvent
  <2>3. pc \notin {"top", "poll", "scan"}
    BY <2>2 DEF InCallback, TimerInv, CacheShape
  <2> QED
    BY <2>2, <2>3, UnlinkKeeps
<1>3. CASE ProcRetires
  <2>1. CASE te \in timers
    <3>1. pc = "proc" /\ pc' = "retire" /\ Unlink(te)
      BY <1>3, <2>1 DEF ProcRetires
    <3> QED
      BY <2>1, <3>1, UnlinkKeeps
  <2>2. CASE te \notin timers
    <3>1. /\ pc = "proc" /\ pc' = "retire"
          /\ UNCHANGED <<now, skews, timers, when, nextId, latest, stale,
                         finalizing, stop, lastTime, wait, te, maxId, pending>>
      BY <1>3, <2>2 DEF ProcRetires, clock, events, loop
    <3>2. TypeOK' /\ IdShape' /\ CacheShape'
      BY <3>1 DEF TimerInv, TypeOK, IdShape, CacheShape
    <3>3. CacheNearest' /\ PassShape'
      BY <3>1 DEF TimerInv, CacheNearest, PassShape, Due, Reached, Stamp
    <3> QED
      BY <3>2, <3>3 DEF TimerInv
  <2> QED
    BY <2>1, <2>2
<1>4. CASE FinalizerReturns
  BY <1>4, FinalizerReturnsKeeps
<1>5. CASE BeginPass
  BY <1>5, BeginPassKeeps
<1>6. CASE ScanNext \/ ScanFire
  BY <1>6, ScanKeeps
<1>7. CASE Restart
  BY <1>7, RestartKeeps
<1>8. CASE \E p \in Period : ProcRearms(p)
  BY <1>8, ProcRearmsKeeps
<1>9. CASE Tick
  BY <1>9, TickKeeps
<1>10. CASE \E t \in MsPerSec..MaxTime : SetClock(t)
  BY <1>10, SetClockKeeps
<1>11. CASE AeStop \/ AeMain \/ LoopHead \/ EnterPoll \/ PollTimesOut
            \/ PollFires \/ EndPass
  BY <1>11, QuietKeeps
<1>12. CASE UNCHANGED vars
  <2>1. TypeOK' /\ IdShape' /\ CacheShape'
    BY <1>12 DEF vars, TimerInv, TypeOK, IdShape, CacheShape
  <2>2. CacheNearest' /\ PassShape'
    BY <1>12 DEF vars, TimerInv, CacheNearest, PassShape, Due, Reached, Stamp
  <2> QED
    BY <2>1, <2>2 DEF TimerInv
<1> QED
  BY <1>1, <1>2, <1>3, <1>4, <1>5, <1>6, <1>7, <1>8, <1>9, <1>10, <1>11, <1>12
  DEF Next, ApiStep, LoopStep

-----------------------------------------------------------------------------
(* The theorems.                                                           *)

\* The invariant holds in every reachable state.
THEOREM TimerInvariant == Spec => []TimerInv
<1>1. Init => TimerInv
  BY TimerInvInit
<1>2. TimerInv /\ [Next]_vars => TimerInv'
  BY TimerInvStep
<1> QED
  BY <1>1, <1>2, PTL DEF Spec

\* The variables keep their types, for every number of timers and every clock.
THEOREM TypeCorrect == Spec => []TypeOK
<1>1. TimerInv => TypeOK
  BY DEF TimerInv
<1> QED
  BY <1>1, TimerInvariant, PTL

\* Neither the cache nor the cursor of processTimeEvents ever names a timer that
\* was freed, whatever callbacks and finalizers create and delete.
THEOREM NeverDangling == Spec => []NoDanglingTimer
<1>1. TimerInv => NoDanglingTimer
  <2>1. SUFFICES ASSUME TimerInv, pc = "poll"
                 PROVE  latest = NoTimer <=> timers = {}
    BY DEF TimerInv, CacheShape, NoDanglingTimer
  <2>2. finalizing = <<>>
    BY <2>1 DEF TimerInv, CacheShape
  <2>3. latest # NoTimer => latest \in timers
    BY <2>1, <2>2, EmptySeq DEF TimerInv, CacheShape
  <2> QED
    BY <2>1, <2>3 DEF TimerInv, CacheShape
<1> QED
  BY <1>1, TimerInvariant, PTL

\* What updateLatestTimeEvt and findLatestTimeEvt keep of "the first timer to
\* fire": nothing is nearer than the cached timer while no cached timer was armed
\* again.
THEOREM CacheStaysNearest == Spec => []NearestCached
<1>1. TimerInv => NearestCached
  BY DEF TimerInv, CacheShape, CacheNearest, NearestCached, CacheIsNearest
<1> QED
  BY <1>1, TimerInvariant, PTL

\* A pass of processTimeEvents ends only when everything that was due when it
\* began has been fired or deleted.
THEOREM PassesFireAllDue == Spec => []PassFiresAllDue
<1>1. TimerInv => PassFiresAllDue
  BY DEF TimerInv, PassShape, PassFiresAllDue
<1> QED
  BY <1>1, TimerInvariant, PTL

-----------------------------------------------------------------------------
(* How long the poll sleeps.                                               *)

\* What is left of the timeout ends at the cached timer, or that timer was overdue
\* and less than a second is left.
PollShape ==
    pc = "poll" /\ skews = 0 =>
        IF latest = NoTimer THEN wait = Forever
        ELSE /\ wait \in Nat
             /\ \/ now + wait <= Ticks(when[latest])
                \/ Due(latest) /\ wait <= MsPerSec - 1

LEMMA TicksInOrder ==
    ASSUME NEW a \in TimeStamp, NEW b \in TimeStamp, ~Earlier(a, b)
    PROVE  Ticks(a) \in Nat /\ Ticks(b) \in Nat /\ Ticks(b) <= Ticks(a)
<1> DEFINE p == a.sec
<1> DEFINE q == b.sec
<1> DEFINE r == a.ms
<1> DEFINE s == b.ms
<1> DEFINE m == MsPerSec
<1>1. m \in Nat \ {0} /\ p \in Nat /\ q \in Nat /\ r \in 0..(m - 1) /\ s \in 0..(m - 1)
  BY TimeAssumption DEF TimeStamp
<1>2. q < p \/ (q = p /\ s <= r)
  BY <1>1 DEF Earlier
<1>3. Ticks(a) = p * m + r /\ Ticks(b) = q * m + s
  BY DEF Ticks
<1> HIDE DEF p, q, r, s, m
<1>4. p * m \in Nat /\ q * m \in Nat
  BY <1>1
<1>5. CASE q < p
  <2>1. m * q + m <= m * p
    BY <1>1, <1>5, NoMultipleBetween
  <2>2. m * q = q * m /\ m * p = p * m
    BY <1>1
  <2> QED
    BY <1>1, <1>3, <1>4, <2>1, <2>2
<1>6. CASE q = p /\ s <= r
  BY <1>1, <1>3, <1>4, <1>6
<1> QED
  BY <1>2, <1>5, <1>6

LEMMA TicksOfStamp == \A t \in Nat : Ticks(Stamp(t)) = t
<1> SUFFICES ASSUME NEW t \in Nat PROVE Ticks(Stamp(t)) = t
  OBVIOUS
<1> DEFINE q == t \div MsPerSec
<1> DEFINE r == t % MsPerSec
<1>1. MsPerSec \in Nat \ {0}
  BY TimeAssumption
<1>2. q \in Nat /\ r \in 0..(MsPerSec - 1) /\ t = MsPerSec * q + r
  BY <1>1, DivMod
<1>3. Ticks(Stamp(t)) = q * MsPerSec + r
  BY DEF Ticks, Stamp
<1> HIDE DEF q, r
<1>4. q * MsPerSec = MsPerSec * q
  BY <1>1, <1>2
<1> QED
  BY <1>2, <1>3, <1>4

\* The timeout of aeProcessEvents: exact for a timer to come, and less than a
\* second for one that is overdue.
LEMMA TimeMissingValue ==
    ASSUME NEW s \in TimeStamp, now \in Nat
    PROVE  \/ now + TimeMissing(s) <= Ticks(s)
           \/ Reached(s) /\ TimeMissing(s) <= MsPerSec - 1
<1> DEFINE n == Stamp(now)
<1> DEFINE m == MsPerSec
<1> DEFINE sec == IF s.ms < n.ms THEN s.sec - n.sec - 1 ELSE s.sec - n.sec
<1> DEFINE ms == IF s.ms < n.ms THEN s.ms + m - n.ms ELSE s.ms - n.ms
<1>1. /\ n.sec \in Nat /\ n.ms \in 0..(m - 1)
      /\ s.sec \in Nat /\ s.ms \in 0..(m - 1)
      /\ m \in Nat \ {0}
  BY StampType, TimeAssumption DEF TimeStamp
<1>2. sec \in Int /\ ms \in 0..(m - 1)
  BY <1>1
<1>3. TimeMissing(s) = (IF sec < 0 THEN 0 ELSE sec) * m + ms
  BY DEF TimeMissing
<1>4. CASE sec < 0
  <2>1. TimeMissing(s) = 0 * m + ms
    BY <1>3, <1>4
  <2>2. TimeMissing(s) <= m - 1
    <3> HIDE DEF sec, ms, m
    <3> QED
      BY <1>1, <1>2, <2>1
  <2>3. ~Earlier(n, s)
    BY <1>1, <1>4 DEF Earlier
  <2> QED
    BY <2>2, <2>3 DEF Reached
<1>5. CASE ~(sec < 0)
  <2>1. TimeMissing(s) = sec * m + ms
    BY <1>3, <1>5
  <2>2. Ticks(s) = s.sec * m + s.ms /\ now = n.sec * m + n.ms
    BY TicksOfStamp DEF Ticks
  <2>3. s.sec * m \in Int /\ n.sec * m \in Int /\ sec * m \in Int
    <3> HIDE DEF sec, m, n
    <3> QED
      BY <1>1, <1>2
  <2>4. CASE s.ms < n.ms
    <3>1. sec = s.sec - n.sec - 1 /\ ms = s.ms + m - n.ms
      BY <2>4
    <3> HIDE DEF sec, ms, m, n
    <3>2. sec * m = s.sec * m - n.sec * m - m
      BY <1>1, <3>1
    <3> QED
      BY <1>1, <2>1, <2>2, <2>3, <3>1, <3>2
  <2>5. CASE ~(s.ms < n.ms)
    <3>1. sec = s.sec - n.sec /\ ms = s.ms - n.ms
      BY <2>5
    <3> HIDE DEF sec, ms, m, n
    <3>2. sec * m = s.sec * m - n.sec * m
      BY <1>1, <3>1
    <3> QED
      BY <1>1, <2>1, <2>2, <2>3, <3>1, <3>2
  <2> QED
    BY <2>4, <2>5
<1> QED
  BY <1>4, <1>5

LEMMA PollShapeStep == TimerInv /\ PollShape /\ [Next]_vars => PollShape'
<1> SUFFICES ASSUME TimerInv, PollShape, [Next]_vars, pc' = "poll", skews' = 0
             PROVE  IF latest' = NoTimer THEN wait' = Forever
                    ELSE /\ wait' \in Nat
                         /\ \/ now' + wait' <= Ticks(when'[latest'])
                            \/ Due(latest)' /\ wait' <= MsPerSec - 1
  BY DEF PollShape
<1>1. CASE EnterPoll
  <2>1. /\ wait' = IF latest = NoTimer THEN Forever ELSE TimeMissing(when[latest])
        /\ UNCHANGED <<now, when, latest>>
    BY <1>1 DEF EnterPoll, clock, events
  <2>2. latest # NoTimer => when[latest] \in TimeStamp /\ now \in Nat
    BY DEF TimerInv, TypeOK
  <2> QED
    BY <2>1, <2>2, TimeMissingType, TimeMissingValue DEF Due, Reached, Stamp
<1>2. CASE Tick
  <2>1. pc = "poll" /\ skews = 0 /\ UNCHANGED <<when, latest>>
    BY <1>2 DEF Tick, events
  <2>2. CASE latest = NoTimer
    BY <1>2, <2>1, <2>2 DEF Tick, PollShape
  <2>3. CASE latest # NoTimer
    <3>1. wait \in Nat /\ wait # Forever
      BY <2>1, <2>3, NullTimerAssumption DEF PollShape
    <3>2. wait # 0 /\ wait' = wait - 1 /\ (now' = now \/ now' = now + 1)
      BY <1>2, <2>1, <3>1 DEF Tick
    <3>3. when[latest] \in TimeStamp /\ now \in Nat
      BY <2>3 DEF TimerInv, TypeOK
    <3>4. CASE now + wait <= Ticks(when[latest])
      <4>1. Ticks(when[latest]) \in Nat
        BY <3>3, TicksInOrder, TimeAssumption DEF Earlier, TimeStamp
      <4>2. now' + wait' <= Ticks(when[latest])
        BY <3>1, <3>2, <3>3, <3>4, <4>1
      <4> QED
        BY <2>1, <2>3, <3>1, <3>2, <4>2
    <3>5. CASE Due(latest) /\ wait <= MsPerSec - 1
      <4>1. now' \in Nat /\ now <= now'
        BY <3>2, <3>3
      <4>2. ~Earlier(Stamp(now'), when[latest])
        BY <3>3, <3>5, <4>1, StampMonotone, StampType, NotEarlierTransitive
        DEF Due, Reached
      <4>3. wait' <= MsPerSec - 1 /\ wait' \in Nat
        BY <3>1, <3>2, <3>5, TimeAssumption
      <4> QED
        BY <2>1, <2>3, <4>2, <4>3 DEF Due, Reached, Stamp
    <3> QED
      BY <2>1, <2>3, <3>4, <3>5 DEF PollShape
  <2> QED
    BY <2>2, <2>3
<1>3. CASE UNCHANGED vars
  BY <1>3 DEF vars, PollShape, Due, Reached, Stamp
<1>4. CASE ApiStep \/ FinalizerReturns
  <2>1. pc = "poll"
    BY <1>4 DEF ApiStep, FinalizerReturns, AeCreateTimeEvent, AeDeleteTimeEvent, AeStop
  <2>2. finalizing = <<>>
    BY <2>1 DEF TimerInv, CacheShape
  <2> QED
    BY <1>4, <2>1, <2>2 DEF ApiStep, FinalizerReturns, AeCreateTimeEvent,
       AeDeleteTimeEvent, AeStop, InCallback
<1>5. CASE \E t \in MsPerSec..MaxTime : SetClock(t)
  BY <1>5 DEF SetClock, TimerInv, TypeOK
<1> QED
  BY <1>1, <1>2, <1>3, <1>4, <1>5
  DEF Next, LoopStep, LoopHead, PollTimesOut, BeginPass, ScanNext, ScanFire,
      Restart, EndPass, ProcRetires, ProcRearms, AeMain, PollFires

\* The poll sleeps past a timer only when some timer was overdue, and then for
\* less than a second: what the computation of the timeout gives for every number
\* of timers, every length of a second and every delay.
THEOREM OversleepAlwaysBounded == Spec => []OversleepBounded
<1>1. Init => PollShape
  BY DEF Init, PollShape
<1>2. TimerInv /\ PollShape => OversleepBounded
  <2>1. SUFFICES ASSUME TimerInv, PollShape, pc = "poll", skews = 0, ~stale,
                        NEW i \in timers, Sleeps(Missing(i))
                 PROVE  ~Sleeps(MsPerSec - 1) /\ \E w \in timers : Due(w)
    BY DEF OversleepBounded
  <2>2. latest # NoTimer /\ latest \in timers
    BY <2>1, EmptySeq DEF TimerInv, CacheShape
  <2>3. wait \in Nat /\ wait # Forever
    BY <2>1, <2>2, NullTimerAssumption DEF PollShape
  <2>4. when[i] \in TimeStamp /\ when[latest] \in TimeStamp /\ now \in Nat
    <3>1. timers \subseteq Id /\ when \in [Id -> TimeStamp] /\ now \in Nat
      BY <2>1 DEF TimerInv, TypeOK
    <3>2. i \in Id /\ latest \in Id
      BY <2>2, <3>1
    <3> QED
      BY <3>1, <3>2
  <2>5. /\ Ticks(when[i]) \in Nat /\ Ticks(when[latest]) \in Nat
        /\ Ticks(when[latest]) <= Ticks(when[i])
    BY <2>1, <2>2, <2>4, TicksInOrder DEF TimerInv, CacheNearest
  <2>6. wait > Missing(i)
    BY <2>1, <2>3 DEF Sleeps
  <2>7. ~(now + wait <= Ticks(when[latest]))
    <3>1. SUFFICES ASSUME now + wait <= Ticks(when[latest]) PROVE FALSE
      OBVIOUS
    <3>2. CASE Due(i)
      <4>1. Ticks(when[i]) <= now
        BY <2>4, <3>2, TicksInOrder, TicksOfStamp, StampType DEF Due, Reached
      <4>2. Missing(i) = 0
        BY <3>2 DEF Missing
      <4> QED
        BY <2>3, <2>4, <2>5, <2>6, <3>1, <4>1, <4>2
    <3>3. CASE ~Due(i)
      <4>1. Missing(i) = Ticks(when[i]) - now
        BY <3>3 DEF Missing
      <4> QED
        BY <2>3, <2>4, <2>5, <2>6, <3>1, <4>1
    <3> QED
      BY <3>2, <3>3
  <2>8. Due(latest) /\ wait <= MsPerSec - 1
    BY <2>1, <2>2, <2>7 DEF PollShape
  <2>9. ~Sleeps(MsPerSec - 1)
    BY <2>3, <2>8, TimeAssumption DEF Sleeps
  <2> QED
    BY <2>2, <2>8, <2>9
<1>3. TimerInv /\ PollShape /\ [Next]_vars => PollShape'
  BY PollShapeStep
<1> QED
  BY <1>1, <1>2, <1>3, TimerInvariant, PTL DEF Spec

-----------------------------------------------------------------------------
(* The file events: the invariant.                                         *)

\* A dispatch runs over an entry of fired, and all entries are in the table.
DispatchShape ==
    /\ at = "idle" => fired = <<>> /\ j = 1
    /\ at # "idle" => j \in 1..Len(fired)
    /\ \A k \in 1..Len(fired) : fired[k].fd < setsize

\* The inductive invariant.
TableInv ==
    /\ FileTypeOK /\ KernelAgrees /\ MaxfdExact /\ DispatchShape
    /\ \A fd \in Fd : fd < setsize => mask[fd] # Garbage
    /\ owned \subseteq open

LEMMA Sizes == SetSizes \subseteq Nat /\ MaxFds \in Nat \ {0}
BY FdAssumption, SizeAssumption

\* The search of aeDeleteFileEvent.
LEMMA LargestFound ==
    ASSUME NEW masks \in [Fd -> Mask \cup {Garbage}], NEW below \in Fd
    PROVE  LET l == LargestIn(masks, below)
           IN  /\ l \in Fd \cup {-1} /\ l < below
               /\ l # -1 => masks[l] # AE_NONE
               /\ \A k \in Fd : k < below /\ masks[k] # AE_NONE => k <= l
<1> DEFINE used == {k \in Fd : k < below /\ masks[k] # AE_NONE}
<1>1. CASE used = {}
  <2>1. LargestIn(masks, below) = -1
    BY <1>1 DEF LargestIn
  <2> QED
    BY <2>1, <1>1, FdAssumption DEF Fd
<1>2. CASE used # {}
  <2>1. used \subseteq 0..(MaxFds - 1) /\ MaxFds - 1 \in Nat
    BY FdAssumption DEF Fd
  <2>2. \E k \in used : \A i \in used : i <= k
    BY <1>2, <2>1, LargestBelow
  <2>3. LargestIn(masks, below) = CHOOSE k \in used : \A i \in used : i <= k
    BY <1>2 DEF LargestIn
  <2>4. LargestIn(masks, below) \in used /\ \A i \in used : i <= LargestIn(masks, below)
    BY <2>2, <2>3
  <2> QED
    BY <2>4, FdAssumption DEF Fd
<1> QED
  BY <1>1, <1>2

LEMMA InitTable == FileInit => TableInv
<1> SUFFICES ASSUME FileInit PROVE TableInv
  OBVIOUS
<1> USE DEF FileInit
<1>1. FileTypeOK
  BY Sizes, MarkAssumption DEF FileTypeOK, Fd, Mask, AE_NONE, Fired
<1>2. KernelAgrees /\ MaxfdExact
  BY DEF KernelAgrees, MaxfdExact, Registered, AE_NONE, Fd
<1>3. DispatchShape /\ owned \subseteq open
  BY DEF DispatchShape
<1>4. \A fd \in Fd : fd < setsize => mask[fd] # Garbage
  BY MarkAssumption DEF Mask, AE_NONE
<1> QED
  BY <1>1, <1>2, <1>3, <1>4 DEF TableInv

-----------------------------------------------------------------------------
(* One lemma per operation.                                                *)

LEMMA AcceptKeeps == ASSUME TableInv, NEW fd \in Fd, Accept(fd) PROVE TableInv'
<1> USE DEF TableInv, Accept, table, dispatch
<1>1. FileTypeOK'
  BY DEF FileTypeOK
<1>2. KernelAgrees' /\ MaxfdExact' /\ DispatchShape'
  BY DEF KernelAgrees, MaxfdExact, DispatchShape, Registered
<1> QED
  BY <1>1, <1>2

\* aeDeleteFileEvent on the table.
LEMMA DropKeeps ==
    ASSUME TableInv, NEW fd \in Fd, Registered(fd), NEW m \in Mask, DropMask(fd, m)
    PROVE  /\ mask' \in [Fd -> Mask \cup {Garbage}]
           /\ mask' = [mask EXCEPT ![fd] = @ \ m]
           /\ mask'[fd] \in Mask
           /\ maxfd' \in Fd \cup {-1}
           /\ setsize' = setsize => MaxfdExact'
<1> USE DEF TableInv
<1>1. mask[fd] \in Mask /\ fd < setsize /\ mask[fd] # AE_NONE
  BY DEF FileTypeOK, Registered
<1>2. mask' = [mask EXCEPT ![fd] = @ \ m] /\ mask[fd] \ m \in Mask
  BY <1>1 DEF DropMask, Mask
<1>3. mask' \in [Fd -> Mask \cup {Garbage}] /\ mask'[fd] \in Mask
  BY <1>2 DEF FileTypeOK
<1>4. \A k \in Fd : Registered(k) => k <= maxfd
  BY DEF MaxfdExact
<1>5. CASE fd = maxfd /\ mask'[fd] = AE_NONE
  <2>1. maxfd' = LargestIn(mask', fd)
    BY <1>5 DEF DropMask
  <2>2. /\ maxfd' \in Fd \cup {-1} /\ maxfd' < fd
        /\ maxfd' # -1 => mask'[maxfd'] # AE_NONE
        /\ \A k \in Fd : k < fd /\ mask'[k] # AE_NONE => k <= maxfd'
    BY <1>3, <2>1, LargestFound
  <2>3. ASSUME setsize' = setsize PROVE MaxfdExact'
    <3>1. ASSUME NEW k \in Fd, Registered(k)' PROVE k <= maxfd'
      <4>1. k # fd /\ mask'[k] = mask[k]
        BY <3>1, <1>5, <1>2 DEF Registered, FileTypeOK
      <4>2. Registered(k)
        BY <4>1, <3>1, <2>3 DEF Registered
      <4>3. k < fd
        BY <4>1, <4>2, <1>4, <1>5, FdAssumption DEF Fd
      <4> QED
        BY <2>2, <4>3, <3>1 DEF Registered
    <3>2. maxfd' # -1 => Registered(maxfd)'
      BY <2>2, <2>3, <1>1, Sizes, FdAssumption DEF Registered, Fd, FileTypeOK
    <3> QED
      BY <3>1, <3>2 DEF MaxfdExact
  <2> QED
    BY <1>2, <1>3, <2>2, <2>3
<1>6. CASE ~(fd = maxfd /\ mask'[fd] = AE_NONE)
  <2>1. maxfd' = maxfd
    BY <1>6 DEF DropMask
  <2>2. ASSUME setsize' = setsize PROVE MaxfdExact'
    <3>1. \A k \in Fd : k # fd => mask'[k] = mask[k]
      BY <1>2 DEF FileTypeOK
    <3>2. \A k \in Fd : Registered(k)' => Registered(k)
      BY <1>1, <2>2, <3>1 DEF Registered
    <3>3. maxfd # -1 => Registered(maxfd) /\ maxfd \in Fd
      BY DEF MaxfdExact, FileTypeOK
    <3>4. maxfd # -1 => Registered(maxfd)'
      BY <1>6, <2>1, <2>2, <3>1, <3>3 DEF Registered
    <3> QED
      BY <1>4, <2>1, <3>2, <3>4 DEF MaxfdExact
  <2> QED
    BY <1>2, <1>3, <2>1, <2>2 DEF FileTypeOK
<1> QED
  BY <1>5, <1>6

LEMMA CloseKeeps ==
    ASSUME TableInv, NEW fd \in Fd, CloseConnection(fd) PROVE TableInv'
<1> USE DEF TableInv, CloseConnection, dispatch
<1> DEFINE all == {AE_READABLE, AE_WRITABLE}
<1>1. all \in Mask
  BY DEF Mask
<1>2. /\ mask' \in [Fd -> Mask \cup {Garbage}]
      /\ \A k \in Fd : k # fd => mask'[k] = mask[k]
      /\ Registered(fd) => mask'[fd] = AE_NONE
      /\ ~Registered(fd) => mask'[fd] = mask[fd]
      /\ maxfd' \in Fd \cup {-1} /\ MaxfdExact'
  <2>1. CASE Registered(fd)
    <3>1. DropMask(fd, all)
      BY <2>1
    <3>2. mask[fd] \in Mask
      BY <2>1 DEF Registered, FileTypeOK
    <3>3. mask[fd] \ all = AE_NONE
      BY <3>2 DEF Mask, AE_NONE
    <3>4. /\ mask' \in [Fd -> Mask \cup {Garbage}]
          /\ mask' = [mask EXCEPT ![fd] = @ \ all]
          /\ maxfd' \in Fd \cup {-1} /\ MaxfdExact'
      <4> HIDE DEF all, TableInv, CloseConnection
      <4>1. TableInv /\ setsize' = setsize
        BY DEF CloseConnection
      <4> QED
        BY <1>1, <2>1, <3>1, <4>1, DropKeeps
    <3> QED
      BY <2>1, <3>3, <3>4 DEF FileTypeOK
  <2>2. CASE ~Registered(fd)
    BY <2>2 DEF FileTypeOK, MaxfdExact, Registered
  <2> QED
    BY <2>1, <2>2
<1>3. FileTypeOK'
  BY <1>2 DEF FileTypeOK
<1>4. \A k \in Fd : Registered(k)' <=> Registered(k) /\ k # fd
  BY <1>2 DEF Registered
<1>5. KernelAgrees'
  BY <1>2, <1>4 DEF KernelAgrees, FileTypeOK
<1>6. \A k \in Fd : k < setsize' => mask'[k] # Garbage
  BY <1>2, MarkAssumption DEF Registered, AE_NONE, Mask
<1>7. DispatchShape' /\ (owned \subseteq open)'
  BY DEF DispatchShape
<1> QED
  BY <1>2, <1>3, <1>5, <1>6, <1>7

LEMMA CreateEventKeeps ==
    ASSUME TableInv, NEW fd \in Fd, NEW m \in Mask \ {AE_NONE}, NEW p \in Proc,
           AeCreateFileEvent(fd, m, p)
    PROVE  TableInv'
<1> USE DEF TableInv, AeCreateFileEvent, dispatch
<1>1. mask[fd] \in Mask /\ mask[fd] \cup m \in Mask \ {AE_NONE}
  BY DEF FileTypeOK, Mask, AE_NONE
<1>2. /\ mask'[fd] = mask[fd] \cup m /\ interest'[fd] = mask[fd] \cup m
      /\ \A k \in Fd : k # fd => mask'[k] = mask[k] /\ interest'[k] = interest[k]
  BY DEF FileTypeOK, Merged
<1>3. FileTypeOK'
  <2>1. mask' \in [Fd -> Mask \cup {Garbage}] /\ interest' \in [Fd -> Mask \cup {NotIn}]
    BY <1>1 DEF FileTypeOK, Merged
  <2>2. procs' \in [Fd -> [r : Proc, w : Proc]]
    BY DEF FileTypeOK
  <2> QED
    BY <2>1, <2>2 DEF FileTypeOK
<1>4. \A k \in Fd : Registered(k)' <=> Registered(k) \/ k = fd
  BY <1>1, <1>2 DEF Registered
<1>5. fd \in open
  BY DEF CtlSucceeds
<1>6. KernelAgrees'
  BY <1>2, <1>4, <1>5 DEF KernelAgrees, Registered
<1>7. MaxfdExact'
  BY <1>4, FdAssumption DEF MaxfdExact, FileTypeOK, Fd
<1>8. \A k \in Fd : k < setsize' => mask'[k] # Garbage
  BY <1>1, <1>2, MarkAssumption
<1>9. DispatchShape' /\ (owned \subseteq open)'
  BY <1>5 DEF DispatchShape
<1> QED
  BY <1>3, <1>6, <1>7, <1>8, <1>9

LEMMA DeleteKeeps ==
    ASSUME TableInv, NEW fd \in Fd, NEW m \in Mask \ {AE_NONE}, AeDeleteFileEvent(fd, m)
    PROVE  TableInv'
<1> USE DEF TableInv, AeDeleteFileEvent, dispatch
<1>1. /\ mask' \in [Fd -> Mask \cup {Garbage}]
      /\ mask' = [mask EXCEPT ![fd] = @ \ m]
      /\ mask'[fd] \in Mask
      /\ maxfd' \in Fd \cup {-1} /\ MaxfdExact'
  BY DropKeeps
<1>2. mask[fd] \in Mask /\ interest[fd] = mask[fd] /\ interest[fd] # NotIn
  BY MarkAssumption DEF FileTypeOK, Registered, KernelAgrees
<1>3. /\ \A k \in Fd : k # fd => mask'[k] = mask[k] /\ interest'[k] = interest[k]
      /\ interest'[fd] = IF mask'[fd] = AE_NONE THEN NotIn ELSE mask'[fd]
  BY <1>1, <1>2 DEF FileTypeOK
<1>4. FileTypeOK'
  <2>1. interest' \in [Fd -> Mask \cup {NotIn}]
    BY <1>1 DEF FileTypeOK
  <2> QED
    BY <1>1, <2>1 DEF FileTypeOK
<1>5. \A k \in Fd : Registered(k)' <=> Registered(k) /\ (k = fd => mask'[fd] # AE_NONE)
  BY <1>3 DEF Registered
<1>6. KernelAgrees'
  BY <1>3, <1>5 DEF KernelAgrees
<1>7. \A k \in Fd : k < setsize' => mask'[k] # Garbage
  BY <1>1, <1>3, MarkAssumption
<1>8. DispatchShape' /\ (owned \subseteq open)'
  BY DEF DispatchShape
<1> QED
  BY <1>1, <1>4, <1>6, <1>7, <1>8

LEMMA ResizeKeeps ==
    ASSUME TableInv, NEW size \in SetSizes, AeResizeSetSize(size) PROVE TableInv'
<1> USE DEF TableInv, AeResizeSetSize, dispatch, kernel
<1>1. mask' = [fd \in Fd |-> IF fd <= maxfd THEN mask[fd]
                             ELSE IF fd < size THEN AE_NONE ELSE Garbage]
  BY DEF ResizedMask
<1>2. FileTypeOK'
  <2>1. mask' \in [Fd -> Mask \cup {Garbage}]
    BY <1>1 DEF FileTypeOK, Mask, AE_NONE
  <2> QED
    BY <2>1 DEF FileTypeOK
<1>3. maxfd < size /\ (maxfd = -1 \/ Registered(maxfd))
  BY Sizes, FdAssumption DEF TooSmall, MaxfdExact, FileTypeOK, Fd
<1>4. \A fd \in Fd : fd <= maxfd => fd < setsize /\ fd < size
  BY <1>3, Sizes, FdAssumption DEF Registered, FileTypeOK, Fd
<1>5. \A fd \in Fd : Registered(fd) => fd <= maxfd
  BY DEF MaxfdExact
<1>6. \A fd \in Fd : Registered(fd)' <=> Registered(fd)
  BY <1>1, <1>4, <1>5 DEF Registered
<1>7. KernelAgrees'
  BY <1>1, <1>5, <1>6 DEF KernelAgrees
<1>8. MaxfdExact'
  BY <1>6 DEF MaxfdExact, FileTypeOK
<1>9. \A fd \in Fd : fd < setsize' => mask'[fd] # Garbage
  BY <1>1, <1>4, MarkAssumption DEF Mask, AE_NONE
<1>10. DispatchShape' /\ (owned \subseteq open)'
  BY DEF DispatchShape
<1> QED
  BY <1>2, <1>7, <1>8, <1>9, <1>10

\* The poll reports descriptors that the kernel waits for, which are in the table.
LEMMA PollKeeps == ASSUME TableInv, NEW order \in Orders, AeApiPoll(order) PROVE TableInv'
<1> USE DEF TableInv, kernel, table
<1>1. PICK n \in Nat \ {0} : order \in [1..n -> {fd \in Fd : interest[fd] # NotIn}]
  <2> DEFINE waiting == {fd \in Fd : interest[fd] # NotIn}
  <2> DEFINE most == IF Cardinality(waiting) < setsize THEN Cardinality(waiting) ELSE setsize
  <2>1. PICK n \in 1..most : order \in [1..n -> waiting]
    BY DEF Orders
  <2> QED
    BY <2>1
<1>2. Len(order) = n /\ \A k \in 1..n : order[k] \in Fd /\ order[k] < setsize
  BY <1>1 DEF KernelAgrees, Registered
<1>3. PICK ready \in [1..n -> Mask] :
        fired' = [k \in 1..n |-> [fd |-> order[k], mask |-> ready[k]]]
  BY <1>2 DEF AeApiPoll
<1>4. fired' \in Seq(Fired) /\ Len(fired') = n
  BY <1>2, <1>3 DEF Fired
<1>5. FileTypeOK'
  BY <1>4 DEF AeApiPoll, FileTypeOK, First
<1>6. DispatchShape'
  BY <1>2, <1>3, <1>4 DEF AeApiPoll, DispatchShape, First
<1>7. KernelAgrees' /\ MaxfdExact'
  BY DEF AeApiPoll, KernelAgrees, MaxfdExact, Registered
<1> QED
  BY <1>5, <1>6, <1>7 DEF AeApiPoll

LEMMA DispatchKeeps ==
    ASSUME TableInv,
           CallRead \/ SkipRead \/ ReadReturns \/ CallWrite \/ SkipWrite \/ WriteReturns
    PROVE  TableInv'
<1> USE DEF TableInv, kernel, table
<1>1. UNCHANGED <<kernel, table>>
  BY DEF CallRead, SkipRead, ReadReturns, CallWrite, SkipWrite, WriteReturns
<1>2. KernelAgrees' /\ MaxfdExact'
  BY <1>1 DEF KernelAgrees, MaxfdExact, Registered
<1>3. FileTypeOK' /\ DispatchShape'
  <2>1. ASSUME at # "idle", NextEntry, rfired' = rfired PROVE FileTypeOK' /\ DispatchShape'
    <3>1. CASE j < Len(fired)
      BY <1>1, <2>1, <3>1 DEF NextEntry, FileTypeOK, DispatchShape
    <3>2. CASE ~(j < Len(fired))
      BY <1>1, <2>1, <3>2 DEF NextEntry, FileTypeOK, DispatchShape
    <3> QED
      BY <3>1, <3>2
  <2>2. ASSUME at # "idle", at' \in {"rproc", "between", "wproc"}, fired' = fired, j' = j,
               rfired' \in BOOLEAN
        PROVE FileTypeOK' /\ DispatchShape'
    BY <1>1, <2>2 DEF FileTypeOK, DispatchShape
  <2>3. rfired \in BOOLEAN
    BY DEF FileTypeOK
  <2> QED
    BY <2>1, <2>2, <2>3
       DEF CallRead, SkipRead, ReadReturns, CallWrite, SkipWrite, WriteReturns
<1> QED
  BY <1>1, <1>2, <1>3

LEMMA StepKeeps == ASSUME TableInv, [FileNext]_fileVars PROVE TableInv'
<1>1. CASE UNCHANGED fileVars
  BY <1>1 DEF TableInv, fileVars, FileTypeOK, KernelAgrees, MaxfdExact, DispatchShape, Registered
<1>2. CASE AppStep
  BY <1>2, AcceptKeeps, CloseKeeps, CreateEventKeeps, DeleteKeeps, ResizeKeeps DEF AppStep
<1>3. CASE DispatchStep
  BY <1>3, PollKeeps, DispatchKeeps DEF DispatchStep
<1> QED
  BY <1>1, <1>2, <1>3 DEF FileNext

-----------------------------------------------------------------------------
(* The properties.                                                         *)

\* The table, the kernel and the dispatch fit together in every reachable state.
THEOREM TableInvariant == FileSpec => []TableInv
BY InitTable, StepKeeps, PTL DEF FileSpec

\* Type correctness of the file events.
THEOREM FileTypeCorrect == FileSpec => []FileTypeOK
<1>1. TableInv => FileTypeOK
  BY DEF TableInv
<1> QED
  BY <1>1, TableInvariant, PTL

\* epoll waits for exactly what the table has registered (aeApiAddEvent,
\* aeApiDelEvent), with client data of the connection that is open.
THEOREM KernelAlwaysAgrees == FileSpec => []KernelAgrees
<1>1. TableInv => KernelAgrees
  BY DEF TableInv
<1> QED
  BY <1>1, TableInvariant, PTL

\* maxfd is the largest registered descriptor, over all holes.
THEOREM MaxfdAlwaysExact == FileSpec => []MaxfdExact
<1>1. TableInv => MaxfdExact
  BY DEF TableInv
<1> QED
  BY <1>1, TableInvariant, PTL

\* No slot is used before it is initialised, and no fired entry lies outside the
\* table.
THEOREM SlotsAlwaysInTable == FileSpec => []SlotsInTable
<1>1. TableInv => SlotsInTable
  BY DEF TableInv, DispatchShape, SlotsInTable, Entry
<1> QED
  BY <1>1, TableInvariant, PTL

\* No handler is called for a closed descriptor or with client data of another
\* connection: the mask of a descriptor that was closed is empty.
THEOREM AlwaysCallsOpenConnection == FileSpec => CallsOpenConnection
<1>1. ASSUME TableInv, [FileNext]_fileVars, Entering PROVE Entry.fd \in open /\ Entry.fd \in owned
  <2>1. CallRead \/ CallWrite
    BY <1>1 DEF FileNext, fileVars, Entering, AppStep, DispatchStep, Accept, CloseConnection,
        AeCreateFileEvent, AeDeleteFileEvent, AeResizeSetSize, dispatch, AeApiPoll,
        SkipRead, ReadReturns, SkipWrite, WriteReturns, NextEntry
  <2>2. StillValid(AE_READABLE) \/ StillValid(AE_WRITABLE)
    BY <2>1 DEF CallRead, CallWrite, CallsWrite
  <2>3. Entry \in Fired /\ Entry.fd < setsize
    BY <1>1, <2>1 DEF TableInv, DispatchShape, FileTypeOK, Entry, CallRead, CallWrite
  <2>4. Entry.fd \in Fd /\ mask[Entry.fd] \in Mask
    BY <1>1, <2>3 DEF TableInv, FileTypeOK, Fired
  <2>5. Registered(Entry.fd)
    BY <2>2, <2>3, <2>4 DEF Registered, StillValid, AE_NONE
  <2> QED
    BY <1>1, <2>4, <2>5 DEF TableInv, KernelAgrees
<1>2. TableInv /\ [FileNext]_fileVars =>
        [Entering => Entry.fd \in open /\ Entry.fd \in owned]_fileVars
  BY <1>1
<1> QED
  BY <1>2, TableInvariant, PTL DEF FileSpec, CallsOpenConnection
=============================================================================
