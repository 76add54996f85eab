------------------------------- MODULE AeFile -------------------------------
(***************************************************************************)
(* The file events of the event loop (src/ae.c) over epoll                 *)
(* (src/ae_epoll.src): registration, resizing, the poll, and the dispatch  *)
(* of what the poll returned.  The handlers run inside the dispatch and    *)
(* call the same API: they accept and close connections, register and      *)
(* delete events, for any descriptor, while fired events wait their turn.  *)
(* The descriptor table and the interest list are the kernel's.            *)
(***************************************************************************)
EXTENDS Integers, Sequences, FiniteSets

CONSTANTS
    MaxFds,    \* bound on open descriptors, 0..MaxFds-1
    SetSizes,  \* the values of setsize
    Proc,      \* the handlers
    Garbage,   \* the mask of a slot nobody has initialised
    NotIn      \* the descriptor is not in the interest list

ASSUME FdAssumption == MaxFds \in Nat \ {0}
ASSUME SizeAssumption == SetSizes \subseteq 1..MaxFds /\ SetSizes # {}

AE_READABLE == "R"
AE_WRITABLE == "W"
Mask == SUBSET {AE_READABLE, AE_WRITABLE}
AE_NONE == {}

ASSUME MarkAssumption == Garbage \notin Mask /\ NotIn \notin Mask

VARIABLES
    at,        \* where the loop is, see FileTypeOK
    open,      \* kernel: the descriptors that are open
    interest,  \* kernel: the interest list of epfd
    mask,      \* events[fd].mask
    procs,     \* events[fd].rfileProc and .wfileProc
    owned,     \* the slots whose clientData was given for the connection
               \* that is open at the descriptor now
    maxfd,     \* maxfd
    setsize,   \* setsize
    fired,     \* fired[0..numevents-1]
    j,         \* index of the dispatch loop, from 1
    rfired     \* local of the dispatch loop

fileVars == <<at, open, interest, mask, procs, owned, maxfd, setsize,
          fired, j, rfired>>
kernel == <<open, interest>>
table == <<mask, procs, owned, maxfd, setsize>>
dispatch == <<at, fired, j, rfired>>

Fd == 0..(MaxFds - 1)
Fired == [fd : Fd, mask : Mask]

FileTypeOK ==
    /\ at \in {"idle",      \* outside aeProcessEvents, or in the poll
               "dispatch",  \* head of the dispatch loop
               "rproc",     \* in fe->rfileProc
               "between",   \* between the two tests of an entry
               "wproc"}     \* in fe->wfileProc
    /\ open \in SUBSET Fd
    /\ interest \in [Fd -> Mask \cup {NotIn}]
    /\ mask \in [Fd -> Mask \cup {Garbage}]
    /\ procs \in [Fd -> [r : Proc, w : Proc]]
    /\ owned \in SUBSET Fd
    /\ maxfd \in Fd \cup {-1}
    /\ setsize \in SetSizes
    /\ fired \in Seq(Fired)
    /\ j \in Nat \ {0}
    /\ rfired \in BOOLEAN

\* aeCreateEventLoop: the slots of the table get the mask AE_NONE.
FileInit ==
    /\ at = "idle"
    /\ open = {}
    /\ interest = [fd \in Fd |-> NotIn]
    /\ setsize \in SetSizes
    /\ mask = [fd \in Fd |-> IF fd < setsize THEN AE_NONE ELSE Garbage]
    /\ procs \in {[fd \in Fd |-> [r |-> p, w |-> p]] : p \in Proc}
    /\ owned = {}
    /\ maxfd = -1
    /\ fired = <<>>
    /\ j = 1
    /\ rfired = FALSE

-----------------------------------------------------------------------------
(* The kernel, and what the application does with its descriptors.         *)

InHandler == at \in {"rproc", "wproc"}
AppRuns == at = "idle" \/ InHandler

\* accept gives the lowest descriptor that is closed, to a new connection.
Accept(fd) ==
    /\ AppRuns
    /\ fd \notin open
    /\ \A g \in Fd : g < fd => g \in open
    /\ open' = open \cup {fd}
    /\ UNCHANGED <<interest, table, dispatch>>

\* A wrong search that takes the next descriptor without looking.
LargestInUnsearched(masks, below) == below - 1

\* Where the search of aeDeleteFileEvent for a new maxfd stops.
LargestIn(masks, below) ==
    LET used == {k \in Fd : k < below /\ masks[k] # AE_NONE}
    IN  IF used = {} THEN -1 ELSE CHOOSE k \in used : \A i \in used : i <= k

\* aeDeleteFileEvent on the table.
DropMask(fd, m) ==
    LET left == [mask EXCEPT ![fd] = @ \ m]
    IN  /\ mask' = left
        /\ maxfd' = IF fd = maxfd /\ left[fd] = AE_NONE
                    THEN LargestIn(left, maxfd) ELSE maxfd

Registered(fd) == fd < setsize /\ mask[fd] # AE_NONE

\* close, then aeDeleteFileEvent of all its events, as a handler does that
\* loses its connection.  The kernel drops a closed descriptor from the
\* interest list, so that the EPOLL_CTL_DEL fails, which the code ignores.
CloseConnection(fd) ==
    /\ AppRuns
    /\ fd \in open
    /\ open' = open \ {fd}
    /\ interest' = [interest EXCEPT ![fd] = NotIn]
    /\ IF Registered(fd) THEN DropMask(fd, {AE_READABLE, AE_WRITABLE})
       ELSE UNCHANGED <<mask, maxfd>>
    /\ owned' = owned \ {fd}
    /\ UNCHANGED <<procs, setsize, dispatch>>

-----------------------------------------------------------------------------
(* The API of the event loop.                                              *)

\* The events aeApiAddEvent asks the kernel for: a wrong form that forgets the
\* old ones, and the code's.
OnlyNew(fd, m) == m
Merged(fd, m) == mask[fd] \cup m

\* epoll_ctl in aeApiAddEvent: ADD or MOD by the mask of the slot.
CtlSucceeds(fd) ==
    /\ fd \in open
    /\ (mask[fd] = AE_NONE) = (interest[fd] = NotIn)

AeCreateFileEvent(fd, m, proc) ==
    /\ AppRuns
    /\ fd < setsize
    /\ CtlSucceeds(fd)
    /\ interest' = [interest EXCEPT ![fd] = Merged(fd, m)]
    /\ mask' = [mask EXCEPT ![fd] = @ \cup m]
    /\ procs' = [procs EXCEPT ![fd] =
            [r |-> IF AE_READABLE \in m THEN proc ELSE @.r,
             w |-> IF AE_WRITABLE \in m THEN proc ELSE @.w]]
    /\ owned' = owned \cup {fd}
    /\ maxfd' = IF fd > maxfd THEN fd ELSE maxfd
    /\ UNCHANGED <<open, setsize, dispatch>>

AeDeleteFileEvent(fd, m) ==
    /\ AppRuns
    /\ Registered(fd)
    /\ DropMask(fd, m)
    /\ interest' = IF interest[fd] = NotIn THEN interest
                   ELSE [interest EXCEPT ![fd] =
                            IF mask'[fd] = AE_NONE THEN NotIn ELSE mask'[fd]]
    /\ UNCHANGED <<open, procs, owned, setsize, dispatch>>

\* The masks after aeResizeSetSize.
ResizedMask(size) ==
    [fd \in Fd |-> IF fd <= maxfd THEN mask[fd]
                   ELSE IF fd < size THEN AE_NONE ELSE Garbage]

\* "A descriptor in use that is too large": a wrong test and the code's.
TooSmallByOne(size) == maxfd > size
TooSmall(size) == maxfd >= size

\* The application resizes the table between two calls of the loop: a handler
\* that did it would leave the dispatch with entries outside the table.
AeResizeSetSize(size) ==
    /\ at = "idle"
    /\ size # setsize
    /\ ~TooSmall(size)
    /\ setsize' = size
    /\ mask' = ResizedMask(size)
    /\ UNCHANGED <<kernel, procs, owned, maxfd, dispatch>>

-----------------------------------------------------------------------------
(* aeApiPoll and the dispatch loop of aeProcessEvents.                     *)

\* What epoll_wait may report of a descriptor: what it waits for, and an
\* error or hang-up, which aeApiPoll turns into AE_WRITABLE.
Reports(fd) ==
    (SUBSET (interest[fd] \cup {AE_WRITABLE})) \ {AE_NONE}

\* The first index of the dispatch loop: a wrong one, and the code's.
FirstWrong == 0
First == 1

AeApiPoll(order) ==
    /\ at = "idle"
    /\ \E ready \in [1..Len(order) -> Mask] :
        /\ \A k \in 1..Len(order) : ready[k] \in Reports(order[k])
        /\ fired' = [k \in 1..Len(order) |->
                [fd |-> order[k], mask |-> ready[k]]]
    /\ at' = "dispatch"
    /\ j' = First
    /\ UNCHANGED <<kernel, table, rfired>>

\* The orders in which epoll_wait may report ready descriptors, at most
\* setsize of them.
Orders ==
    LET waiting == {fd \in Fd : interest[fd] # NotIn}
    IN  UNION {{s \in [1..n -> waiting] :
                    \A a, b \in 1..n : s[a] = s[b] => a = b} :
               n \in 1..(IF Cardinality(waiting) < setsize
                         THEN Cardinality(waiting) ELSE setsize)}

Entry == fired[j]

\* A wrong form that trusts what the poll reported.
StillValidUnchecked(ev) == ev \in Entry.mask

\* fe->mask & mask & ev, with fe->mask read at the time of the test.
StillValid(ev) == ev \in mask[Entry.fd] /\ ev \in Entry.mask

\* After the last entry the loop ends, and with it the use of fired.
NextEntry ==
    IF j < Len(fired)
    THEN j' = j + 1 /\ at' = "dispatch" /\ fired' = fired
    ELSE j' = 1 /\ at' = "idle" /\ fired' = <<>>

CallRead ==
    /\ at = "dispatch"
    /\ StillValid(AE_READABLE)
    /\ at' = "rproc"
    /\ rfired' = TRUE
    /\ UNCHANGED <<kernel, table, fired, j>>

SkipRead ==
    /\ at = "dispatch"
    /\ ~StillValid(AE_READABLE)
    /\ at' = "between"
    /\ rfired' = FALSE
    /\ UNCHANGED <<kernel, table, fired, j>>

ReadReturns ==
    /\ at = "rproc"
    /\ at' = "between"
    /\ UNCHANGED <<kernel, table, fired, j, rfired>>

CallsWrite ==
    /\ StillValid(AE_WRITABLE)
    /\ ~rfired \/ procs[Entry.fd].w # procs[Entry.fd].r

CallWrite ==
    /\ at = "between"
    /\ CallsWrite
    /\ at' = "wproc"
    /\ UNCHANGED <<kernel, table, fired, j, rfired>>

SkipWrite ==
    /\ at = "between"
    /\ ~CallsWrite
    /\ NextEntry
    /\ UNCHANGED <<kernel, table, rfired>>

WriteReturns ==
    /\ at = "wproc"
    /\ NextEntry
    /\ UNCHANGED <<kernel, table, rfired>>

-----------------------------------------------------------------------------
AppStep ==
    \/ \E fd \in Fd : Accept(fd) \/ CloseConnection(fd)
    \/ \E fd \in Fd, m \in Mask \ {AE_NONE} :
            \/ \E p \in Proc : AeCreateFileEvent(fd, m, p)
            \/ AeDeleteFileEvent(fd, m)
    \/ \E size \in SetSizes : AeResizeSetSize(size)

DispatchStep ==
    \/ \E order \in Orders : AeApiPoll(order)
    \/ CallRead \/ SkipRead \/ ReadReturns
    \/ CallWrite \/ SkipWrite \/ WriteReturns

FileNext == AppStep \/ DispatchStep

FileSpec == FileInit /\ [][FileNext]_fileVars

-----------------------------------------------------------------------------
(* Properties.                                                             *)

\* The table and the kernel agree: epoll waits for exactly the registered
\* events, on descriptors that are open, and the client data of a slot belong
\* to the connection that is open there.
KernelAgrees ==
    \A fd \in Fd :
        IF Registered(fd)
        THEN interest[fd] = mask[fd] /\ fd \in open /\ fd \in owned
        ELSE interest[fd] = NotIn

\* maxfd is the largest registered descriptor, and lies inside the table: the
\* test of aeResizeSetSize and the poll's decision to wait rest on it.
MaxfdExact ==
    /\ \A fd \in Fd : Registered(fd) => fd <= maxfd
    /\ maxfd # -1 => Registered(maxfd)

\* Every slot of the table was initialised, whatever it was resized from, and the
\* dispatch reads slots of the table only.
SlotsInTable ==
    /\ \A fd \in Fd : fd < setsize => mask[fd] # Garbage
    /\ at # "idle" => Entry.fd < setsize

Entering == at' \in {"rproc", "wproc"} /\ at' # at

\* No handler is called for a closed descriptor or with the client data of
\* another connection, whatever the handlers before it closed and accepted.
CallsOpenConnection ==
    [][Entering => Entry.fd \in open /\ Entry.fd \in owned]_fileVars
=============================================================================
