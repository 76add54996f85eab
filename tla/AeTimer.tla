------------------------------ MODULE AeTimer ------------------------------
(***************************************************************************)
(* The timers of the event loop (src/ae.c): aeMain, the sleep that         *)
(* aeProcessEvents computes from the cached nearest timer latestTimeEvt,   *)
(* and the pass of processTimeEvents.  One thread runs the loop; what      *)
(* interleaves with it are its callbacks (beforesleep, file procs, time    *)
(* procs and finalizers), which call the timer API, the clock, which goes  *)
(* on in every state and may be set, and the poll, which a file event ends *)
(* early.  File events themselves are modelled in AeFile.                  *)
(***************************************************************************)
EXTENDS Integers, Sequences

CONSTANTS
    MsPerSec,    \* milliseconds in a second, 1000 in the code
    MaxTime,     \* bound on the wall clock, in ticks of one millisecond
    MaxTimers,   \* bound on the number of timers ever created
    Delay,       \* the delays aeCreateTimeEvent is called with
    Period,      \* the values other than AE_NOMORE a timeProc returns
    MaxSkews,    \* bound on how often the wall clock is set
    NoTimer,     \* a NULL aeTimeEvent pointer
    Forever      \* the NULL timeout of the poll

ASSUME TimeAssumption ==
    /\ MsPerSec \in Nat \ {0} /\ MaxTime \in Nat /\ MsPerSec <= MaxTime
    /\ MaxTimers \in Nat /\ MaxSkews \in Nat
    /\ Delay \subseteq Nat /\ Period \subseteq Nat
ASSUME NullTimerAssumption == NoTimer \notin Nat /\ Forever \notin Nat

VARIABLES
    pc,          \* where the loop is, see TypeOK
    now,         \* the wall clock
    skews,       \* how often the clock was set
    timers,      \* the ids in the list at timeEventHead
    when,        \* when[id] = [sec |-> when_sec, ms |-> when_ms]
    nextId,      \* timeEventNextId
    latest,      \* latestTimeEvt
    finalizing,  \* stack of timers unlinked, in their finalizerProc
    lastTime,    \* lastTime, in seconds
    stop,        \* stop
    wait,        \* what is left of the timeout of the poll
    te, maxId,   \* the locals of processTimeEvents
    pending,     \* history: timers that were due, or to be forced, when the
                 \* pass began, and are not yet fired
    stale        \* history: the cached timer was armed again, see NearestCached

vars == <<pc, now, skews, timers, when, nextId, latest, finalizing, lastTime,
          stop, wait, te, maxId, pending, stale>>
clock == <<now, skews>>
loop == <<stop, lastTime, wait, te, maxId>>
events == <<timers, when, nextId, latest, stale>>

Id == 0..(MaxTimers - 1)
Stamp(t) == [sec |-> t \div MsPerSec, ms |-> t % MsPerSec]
Ticks(s) == s.sec * MsPerSec + s.ms
TimeStamp == [sec : Nat, ms : 0..(MsPerSec - 1)]

TypeOK ==
    /\ pc \in {"idle",      \* outside aeMain
               "top",       \* head of the loop of aeMain
               "before",    \* in beforesleep
               "poll",      \* in aeApiPoll
               "dispatch",  \* calling file procs
               "scan",      \* in the loop of processTimeEvents
               "proc",      \* in te->timeProc
               "retire"}    \* in aeDeleteTimeEvent after AE_NOMORE
    /\ now \in Nat /\ MsPerSec <= now /\ skews \in 0..MaxSkews
    /\ timers \in SUBSET Id
    /\ when \in [Id -> TimeStamp]
    /\ nextId \in 0..MaxTimers
    /\ latest \in Id \cup {NoTimer}
    /\ finalizing \in Seq(Id)
    /\ lastTime \in Nat
    /\ stop \in BOOLEAN
    /\ wait \in Nat \cup {Forever}
    /\ te \in Id \cup {NoTimer}
    /\ maxId \in Id \cup {-1}
    /\ pending \in SUBSET Id
    /\ stale \in BOOLEAN

\* aeCreateEventLoop.
Init ==
    /\ pc = "idle"
    /\ now = MsPerSec
    /\ skews = 0
    /\ timers = {}
    /\ when = [i \in Id |-> Stamp(0)]
    /\ nextId = 0
    /\ latest = NoTimer
    /\ finalizing = <<>>
    /\ lastTime = Stamp(now).sec
    /\ stop = FALSE
    /\ wait = 0
    /\ te = NoTimer
    /\ maxId = -1
    /\ pending = {}
    /\ stale = FALSE

-----------------------------------------------------------------------------
(* The list.  A timer is pushed at the head and ids only grow, so the list *)
(* is the set of its ids, in decreasing order.                             *)

\* The first timer of the list with an id below i.
Below(i) ==
    IF \E j \in timers : j < i
    THEN CHOOSE j \in timers : j < i /\ \A k \in timers : k < i => k <= j
    ELSE NoTimer

TimeEventHead == Below(nextId)

Earlier(a, b) == a.sec < b.sec \/ (a.sec = b.sec /\ a.ms < b.ms)

\* A wrong updateLatestTimeEvt that only fills an empty cache.
UpdateLatestIfEmpty(i, at) == IF latest = NoTimer THEN i ELSE latest

\* updateLatestTimeEvt: the new cache, once timer i has its new time at.
UpdateLatest(i, at) ==
    IF latest = NoTimer THEN i
    ELSE LET cached == IF latest = i THEN at ELSE when[latest]
         IN  IF Earlier(at, cached) THEN i ELSE latest

\* Wrong forms of findLatestTimeEvt: the milliseconds are not compared, and
\* nothing is ever found.
FindLatestBySecond(list) ==
    IF list = {} THEN NoTimer
    ELSE CHOOSE i \in list : \A j \in list :
            /\ when[i].sec <= when[j].sec
            /\ when[i].sec < when[j].sec \/ j <= i
FindLatestNone(list) == NoTimer

\* findLatestTimeEvt over a list: the first of the earliest ones.
FindLatest(list) ==
    IF list = {} THEN NoTimer
    ELSE CHOOSE i \in list : \A j \in list :
            /\ ~Earlier(when[j], when[i])
            /\ Earlier(when[i], when[j]) \/ j <= i

Reached(at) == ~Earlier(Stamp(now), at)
Due(i) == Reached(when[i])

-----------------------------------------------------------------------------
(* The timer API, as the application calls it outside aeMain and from its  *)
(* callbacks.                                                              *)

InCallback == pc \in {"idle", "before", "dispatch", "proc"} \/ finalizing # <<>>

AeCreateTimeEvent(delay) ==
    /\ InCallback
    /\ nextId < MaxTimers
    /\ now + delay <= MaxTime
    /\ nextId' = nextId + 1
    /\ timers' = timers \cup {nextId}
    /\ when' = [when EXCEPT ![nextId] = Stamp(now + delay)]
    /\ latest' = UpdateLatest(nextId, Stamp(now + delay))
    /\ UNCHANGED <<pc, clock, finalizing, loop, pending, stale>>

\* aeDeleteTimeEvent up to the finalizer: te is out of the list, not free.
Unlink(i) ==
    /\ timers' = timers \ {i}
    /\ finalizing' = Append(finalizing, i)
    /\ pending' = pending \ {i}
    /\ UNCHANGED <<clock, when, nextId, latest, stale, loop>>

AeDeleteTimeEvent(i) ==
    /\ InCallback
    /\ i \in timers
    /\ Unlink(i)
    /\ UNCHANGED pc

\* A wrong end of aeDeleteTimeEvent that leaves the cache alone.
FinalizerReturnsOnly ==
    /\ finalizing # <<>>
    /\ finalizing' = SubSeq(finalizing, 1, Len(finalizing) - 1)
    /\ UNCHANGED <<pc, clock, events, loop, pending>>

\* aeDeleteTimeEvent after the finalizer has returned.
FinalizerReturns ==
    /\ finalizing # <<>>
    /\ finalizing' = SubSeq(finalizing, 1, Len(finalizing) - 1)
    /\ latest' = FindLatest(timers)
    /\ stale' = FALSE
    /\ UNCHANGED <<pc, clock, timers, when, nextId, loop, pending>>

AeStop ==
    /\ InCallback
    /\ ~stop
    /\ stop' = TRUE
    /\ UNCHANGED <<pc, clock, events, finalizing, lastTime, wait, te, maxId,
                   pending>>

-----------------------------------------------------------------------------
(* The clock, in milliseconds.  Waiting goes on at the bound of the clock, *)
(* which stands still there.                                               *)

Tick ==
    /\ now < MaxTime \/ (pc = "poll" /\ wait \notin {0, Forever})
    /\ now' = IF now < MaxTime THEN now + 1 ELSE now
    /\ wait' = IF pc = "poll" /\ wait \notin {0, Forever} THEN wait - 1 ELSE wait
    /\ pc # "poll" \/ wait # 0
    /\ UNCHANGED <<pc, skews, events, finalizing, stop, lastTime, te, maxId,
                   pending>>

\* The administrator or a time daemon sets the clock, back or forth.
SetClock(t) ==
    /\ skews < MaxSkews
    /\ t # now
    /\ skews' = skews + 1
    /\ now' = t
    /\ pending' = {i \in pending : ~Earlier(Stamp(t), when[i])}
    /\ UNCHANGED <<pc, events, finalizing, loop>>

-----------------------------------------------------------------------------
(* aeMain and aeProcessEvents(AE_ALL_EVENTS) up to the time events.        *)

AeMain ==
    /\ pc = "idle" /\ finalizing = <<>>
    /\ pc' = "top"
    /\ stop' = FALSE
    /\ UNCHANGED <<clock, events, finalizing, lastTime, wait, te, maxId, pending>>

\* The test of the loop, then the call of beforesleep.
LoopHead ==
    /\ pc = "top"
    /\ pc' = IF stop THEN "idle" ELSE "before"
    /\ UNCHANGED <<clock, events, finalizing, loop, pending>>

\* A wrong timeout, without the test for negative seconds.
TimeMissingSigned(s) == Ticks(s) - Ticks(Stamp(now))

\* The timeout that aeProcessEvents computes for the nearest timer.
TimeMissing(s) ==
    LET n == Stamp(now)
        sec == IF s.ms < n.ms THEN s.sec - n.sec - 1 ELSE s.sec - n.sec
        ms == IF s.ms < n.ms THEN s.ms + MsPerSec - n.ms ELSE s.ms - n.ms
    IN  (IF sec < 0 THEN 0 ELSE sec) * MsPerSec + ms

\* beforesleep returns; aeSearchNearestTimer gives the cached timer.
EnterPoll ==
    /\ pc = "before" /\ finalizing = <<>>
    /\ pc' = "poll"
    /\ wait' = IF latest = NoTimer THEN Forever ELSE TimeMissing(when[latest])
    /\ UNCHANGED <<clock, events, finalizing, stop, lastTime, te, maxId, pending>>

\* The timeout has run out.
PollTimesOut ==
    /\ pc = "poll" /\ wait = 0
    /\ pc' = "dispatch"
    /\ UNCHANGED <<clock, events, finalizing, loop, pending>>

\* A file event ends the poll early.
PollFires ==
    /\ pc = "poll" /\ wait # 0
    /\ pc' = "dispatch"
    /\ wait' = 0
    /\ UNCHANGED <<clock, events, finalizing, stop, lastTime, te, maxId, pending>>

-----------------------------------------------------------------------------
(* processTimeEvents.                                                      *)

Skewed == Stamp(now).sec < lastTime

\* A wrong skew test that changes no time.
UnskewedWhen == when

\* The times after the skew test: all in the past when the clock went back.
SkewedWhen ==
    [i \in Id |-> IF Skewed /\ i \in timers THEN [when[i] EXCEPT !.sec = 0]
                  ELSE when[i]]

BeginPass ==
    /\ pc = "dispatch" /\ finalizing = <<>>
    /\ pc' = "scan"
    /\ when' = SkewedWhen
    /\ lastTime' = Stamp(now).sec
    /\ te' = TimeEventHead
    /\ maxId' = nextId - 1
    /\ pending' = {i \in timers : Skewed \/ Due(i)}
    /\ UNCHANGED <<clock, timers, nextId, latest, stale, finalizing, stop, wait>>

\* A wrong test that takes the last timer for one registered in this pass.
PassesLast(i) == i >= maxId \/ ~Due(i)

\* A timer that was registered in this pass, or is not due yet.
Passes(i) == i > maxId \/ ~Due(i)

ScanNext ==
    /\ pc = "scan" /\ te # NoTimer
    /\ Passes(te)
    /\ te' = Below(te)
    /\ UNCHANGED <<pc, clock, events, finalizing, stop, lastTime, wait, maxId,
                   pending>>

\* A due timer: its timeProc is called.
ScanFire ==
    /\ pc = "scan" /\ te # NoTimer
    /\ ~Passes(te)
    /\ pc' = "proc"
    /\ pending' = pending \ {te}
    /\ UNCHANGED <<clock, events, finalizing, loop>>

\* timeProc returns a period: the timer is armed again.  A timeProc that has
\* deleted its own timer must return AE_NOMORE: te would be freed memory.
ProcRearms(period) ==
    /\ pc = "proc" /\ finalizing = <<>>
    /\ te \in timers
    /\ now + period <= MaxTime
    /\ pc' = "scan"
    /\ when' = [when EXCEPT ![te] = Stamp(now + period)]
    /\ latest' = UpdateLatest(te, Stamp(now + period))
    /\ stale' = (stale \/ latest = te)
    /\ te' = TimeEventHead
    /\ UNCHANGED <<clock, timers, nextId, finalizing, stop, lastTime, wait, maxId,
                   pending>>

\* timeProc returns AE_NOMORE: aeDeleteTimeEvent, which fails if the
\* callback has deleted the timer itself.
ProcRetires ==
    /\ pc = "proc" /\ finalizing = <<>>
    /\ pc' = "retire"
    /\ IF te \in timers THEN Unlink(te)
       ELSE UNCHANGED <<clock, events, finalizing, loop, pending>>

\* The scan starts again from the head of the list.
Restart ==
    /\ pc = "retire" /\ finalizing = <<>>
    /\ pc' = "scan"
    /\ te' = TimeEventHead
    /\ UNCHANGED <<clock, events, finalizing, stop, lastTime, wait, maxId, pending>>

EndPass ==
    /\ pc = "scan" /\ te = NoTimer
    /\ pc' = "top"
    /\ UNCHANGED <<clock, events, finalizing, loop, pending>>

-----------------------------------------------------------------------------
ApiStep ==
    \/ \E d \in Delay : AeCreateTimeEvent(d)
    \/ \E i \in Id : AeDeleteTimeEvent(i)
    \/ AeStop

\* What the loop does by itself once it is called: its own code, and the
\* return of its callbacks.
LoopStep ==
    \/ LoopHead \/ EnterPoll \/ PollTimesOut
    \/ FinalizerReturns
    \/ BeginPass \/ ScanNext \/ ScanFire \/ Restart \/ EndPass
    \/ ProcRetires \/ \E p \in Period : ProcRearms(p)

Next ==
    \/ ApiStep \/ LoopStep
    \/ AeMain \/ PollFires
    \/ Tick \/ \E t \in MsPerSec..MaxTime : SetClock(t)

Spec == Init /\ [][Next]_vars

\* Callbacks return and time goes on; a loop that was stopped runs again.
FairSpec == Spec /\ WF_vars(LoopStep) /\ WF_vars(Tick) /\ WF_vars(AeMain)

-----------------------------------------------------------------------------
(* Properties.                                                             *)

\* Nothing points to a freed timer.  The cached nearest timer is in the list, or
\* still inside its own finalizer; the cursor of the scan is in the list, whatever
\* the callback just called has deleted, which is why the scan restarts.  And the
\* loop never sleeps without a timeout while there are timers.
NoDanglingTimer ==
    /\ latest # NoTimer =>
            \/ latest \in timers
            \/ \E k \in 1..Len(finalizing) : finalizing[k] = latest
    /\ pc = "scan" /\ te # NoTimer => te \in timers
    /\ pc = "poll" => (latest = NoTimer <=> timers = {})

\* "Search the first timer to fire" (aeSearchNearestTimer): when the loop goes to
\* sleep, no timer is earlier than the cached one.
CacheIsNearest == pc = "poll" /\ skews = 0 => \A i \in timers :
    latest # NoTimer /\ ~Earlier(when[i], when[latest])

\* What of it the code keeps: only a timer that is armed again while it is the
\* cached one spoils the cache, until a timer is deleted (and only while nothing
\* has forced the timers into the past for a clock that was set).
NearestCached == ~stale => CacheIsNearest

\* What is left of the sleep when a clock that was never set is at `now',
\* and what is left until timer i.
Missing(i) == IF Due(i) THEN 0 ELSE Ticks(when[i]) - now
Sleeps(n) == wait = Forever \/ wait > n

\* The poll should "sleep until the next time event is ready to fire"
\* (aeProcessEvents).  When it sleeps past a timer with a cache that is not
\* spoilt, it is because some timer was overdue already, and it sleeps less than
\* a second.
OversleepBounded ==
    pc = "poll" /\ skews = 0 /\ ~stale => \A i \in timers :
        Sleeps(Missing(i)) => ~Sleeps(MsPerSec - 1) /\ \E j \in timers : Due(j)

\* Every timer that was due when the pass of processTimeEvents began, and every
\* timer at all when the clock was found to be back behind the last pass ("force
\* all the time events to be processed ASAP"), has been fired or deleted when it
\* ends, whatever the callbacks do to the list (timers that a clock set back during
\* the pass makes early again are out): nothing is lost by restarting the scan.
PassFiresAllDue == pc = "top" => pending = {}

InPass == pc \in {"scan", "proc", "retire"}

\* Every pass of processTimeEvents ends: again and again there is none.  The code
\* does not make sure of it: a timer that is due again by the time its own
\* callback has returned (ProcRearms with period 0) is fired again by every restart
\* of the scan, and those behind it in the list wait for ever.  maxId keeps only
\* new timers out "in order to don't loop forever".
PassesEnd == []<>~InPass

\* If every pass ends, no timer is due for ever: it is fired and armed again or
\* deleted sooner or later, or the clock is set back behind it.
TimerEnds == PassesEnd => \A i \in Id : []<>~(i \in timers /\ Due(i))
=============================================================================
