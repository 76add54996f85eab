--------------------------------- MODULE Anet ---------------------------------
(***************************************************************************)
(* The socket helpers of src/anet.c that open, use and close descriptors:  *)
(* anetTcpGenericConnect and its callers, anetUnixGenericConnect,          *)
(* _anetTcpServer, anetUnixServer, the accepts, anetRead and anetWrite.    *)
(* One step is one system call with one of its outcomes: any call may fail *)
(* at any time, and the helper then has to undo what it did so far.        *)
(***************************************************************************)
EXTENDS Integers, Sequences

CONSTANTS
    MaxFds,    \* bound on the descriptors of the process, 0..MaxFds-1
    MaxAddrs,  \* bound on the addresses getaddrinfo returns
    MaxCount   \* bound on the count of a read or write

ASSUME BoundAssumption ==
    MaxFds \in Nat \ {0} /\ MaxAddrs \in Nat \ {0} /\ MaxCount \in Nat

ANET_ERR == -1
Fd == 0..(MaxFds - 1)

\* What a connect is asked: a source address to bind, a non-blocking socket,
\* and whether a failure is retried without the source address.
Flags == [source : BOOLEAN, nonblock : BOOLEAN, effort : BOOLEAN]
NoFlags == [source |-> FALSE, nonblock |-> FALSE, effort |-> FALSE]

VARIABLES
    pc,       \* the next system call, or "idle" between two helpers
    helper,   \* the helper that runs, or ran last
    flags,    \* what its caller asks for
    source,   \* its source_addr is not NULL
    af6,      \* _anetTcpServer: af is AF_INET6
    s,        \* its local s
    left,     \* the entries of servinfo from p on
    bleft,    \* the entries of bservinfo from b on
    lists,    \* addrinfo lists that are allocated
    open,     \* kernel: the open descriptors
    state,    \* kernel: what each descriptor was made
    nonblock, \* kernel: the descriptors with O_NONBLOCK
    bound,    \* kernel: the descriptors bound to a local address
    owned,    \* the descriptors the application got and has not closed
    lost,     \* history: descriptors of failed helpers that stay open
    totlen,   \* anetRead and anetWrite: totlen,
    count,    \* count,
    buf,      \* buf, as its offset from what the caller passed,
    result,   \* and the value the last of them returned
    bytes,    \* kernel: the positions that read filled or write took, in order
    ended     \* kernel: what ended the last transfer

vars == <<pc, helper, flags, source, af6, s, left, bleft, lists, open, state, nonblock,
          bound, owned, lost, totlen, count, buf, result, bytes, ended>>
kernel == <<open, state, nonblock, bound>>
call == <<helper, flags, source, af6>>
transfer == <<totlen, count, buf, result, bytes, ended>>

Helper == {"tcpConnect", "unixConnect", "tcpServer", "unixServer", "accept",
           "read", "write"}
Connects == helper \in {"tcpConnect", "unixConnect"}
Unix == helper \in {"unixConnect", "unixServer"}

TypeOK ==
    /\ pc \in {"idle", "resolve", "socket", "v6only", "reuse", "nonblock",
               "source", "bindsource", "connect", "bind", "listen", "error",
               "end", "accept", "transfer"}
    /\ helper \in Helper
    /\ flags \in Flags
    /\ source \in BOOLEAN /\ af6 \in BOOLEAN
    /\ s \in Fd \cup {ANET_ERR}
    /\ left \in 0..MaxAddrs /\ bleft \in 0..MaxAddrs
    /\ lists \in 0..2
    /\ open \in SUBSET Fd
    /\ state \in [Fd -> {"new", "pending", "connected", "listening"}]
    /\ nonblock \in SUBSET Fd /\ bound \in SUBSET Fd
    /\ owned \in SUBSET Fd /\ lost \in SUBSET Fd
    /\ totlen \in 0..MaxCount /\ count \in 0..MaxCount /\ buf \in 0..MaxCount
    /\ result \in (0..MaxCount) \cup {ANET_ERR}
    /\ bytes \in Seq(1..MaxCount)
    /\ ended \in {"no", "full", "zero", "error"}

Init ==
    /\ pc = "idle"
    /\ helper = "tcpConnect" /\ flags = NoFlags
    /\ source = FALSE /\ af6 = FALSE
    /\ s = ANET_ERR
    /\ left = 0 /\ bleft = 0 /\ lists = 0
    /\ open = {} /\ state = [fd \in Fd |-> "new"]
    /\ nonblock = {} /\ bound = {}
    /\ owned = {} /\ lost = {}
    /\ totlen = 0 /\ count = 0 /\ buf = 0 /\ result = 0
    /\ bytes = <<>> /\ ended = "no"

-----------------------------------------------------------------------------
(* Parts of steps.                                                         *)

\* A call that is to transfer n bytes, and has transferred none.
FreshTransfer(n) ==
    /\ totlen' = 0 /\ count' = n /\ buf' = 0 /\ result' = 0
    /\ bytes' = <<>> /\ ended' = "no"

\* The helper returns s, or ANET_ERR.
ReturnS(fd) ==
    /\ pc' = "idle"
    /\ s' = ANET_ERR
    /\ owned' = IF fd = ANET_ERR THEN owned ELSE owned \cup {fd}

Goto(label) == pc' = label /\ UNCHANGED <<s, owned>>

\* close(s).
Close == open' = open \ {s} /\ UNCHANGED <<state, nonblock, bound>>

\* s = ANET_ERR after a close(s), and on to a label.
DropTo(label) == pc' = label /\ s' = ANET_ERR /\ UNCHANGED owned

Becomes(what) ==
    state' = [state EXCEPT ![s] = what] /\ UNCHANGED <<open, nonblock, bound>>

Binds == bound' = bound \cup {s} /\ UNCHANGED <<open, state, nonblock>>

Resources == <<left, bleft, lists>>

\* The label after an address that failed: a wrong one that goes on where the
\* list is at its end, and the code's: the next address, or the end of the loop.
AfterAddressMissed == IF left >= 1 THEN "socket" ELSE "error"
AfterAddress == IF left > 1 THEN "socket" ELSE "error"

-----------------------------------------------------------------------------
(* The application calls a helper.                                         *)

Begin(h, f, six, label) ==
    /\ pc = "idle"
    /\ helper' = h /\ flags' = f /\ source' = f.source /\ af6' = six
    /\ pc' = label
    /\ FreshTransfer(0)
    /\ UNCHANGED <<s, Resources, kernel, owned, lost>>

\* anetTcpConnect, ...NonBlockConnect, ...BindConnect, ...BestEffortBindConnect
TcpConnect ==
    \E f \in Flags :
        /\ f.source => f.nonblock
        /\ f.effort => f.source
        /\ Begin("tcpConnect", f, FALSE, "resolve")
UnixConnect ==
    \E nb \in BOOLEAN :
        Begin("unixConnect", [NoFlags EXCEPT !.nonblock = nb], FALSE, "socket")
TcpServer == \E six \in BOOLEAN : Begin("tcpServer", NoFlags, six, "resolve")
UnixServer == Begin("unixServer", NoFlags, FALSE, "socket")
AnetAccept ==
    /\ \E fd \in owned : state[fd] = "listening"
    /\ Begin("accept", NoFlags, FALSE, "accept")

AppCloses(fd) ==
    /\ pc = "idle"
    /\ fd \in owned
    /\ owned' = owned \ {fd}
    /\ open' = open \ {fd}
    /\ UNCHANGED <<pc, call, s, Resources, state, nonblock, bound, lost,
                   transfer>>

-----------------------------------------------------------------------------
(* getaddrinfo, socket and the options.                                    *)

ResolveFails ==
    /\ pc = "resolve"
    /\ ReturnS(ANET_ERR)
    /\ UNCHANGED <<call, Resources, kernel, lost, transfer>>

Resolves(n) ==
    /\ pc = "resolve"
    /\ left' = n
    /\ lists' = lists + 1
    /\ Goto("socket")
    /\ UNCHANGED <<call, bleft, kernel, lost, transfer>>

SocketFails ==
    /\ pc = "socket"
    /\ IF Unix THEN ReturnS(ANET_ERR) /\ left' = left
       ELSE Goto(AfterAddress) /\ left' = left - 1
    /\ UNCHANGED <<call, bleft, lists, kernel, lost, transfer>>

\* A new descriptor: the lowest that is closed.
Opens(fd, what) ==
    /\ fd \notin open
    /\ \A g \in Fd : g < fd => g \in open
    /\ open' = open \cup {fd}
    /\ state' = [state EXCEPT ![fd] = what]
    /\ nonblock' = nonblock \ {fd} /\ bound' = bound \ {fd}

SocketOpens(fd) ==
    /\ pc = "socket"
    /\ Opens(fd, "new")
    /\ s' = fd
    /\ pc' = IF helper = "tcpServer" /\ af6 THEN "v6only" ELSE "reuse"
    /\ UNCHANGED <<call, Resources, owned, lost, transfer>>

\* anetV6Only closes s itself.
V6Only(works) ==
    /\ pc = "v6only"
    /\ IF works THEN Goto("reuse") /\ UNCHANGED kernel
       ELSE Close /\ DropTo("end")
    /\ UNCHANGED <<call, Resources, lost, transfer>>

\* Where a connect goes on: the source address, or connect.
ToConnect == IF source THEN "source" ELSE "connect"

ReuseAddrSet ==
    /\ pc = "reuse"
    /\ Goto(IF ~Connects THEN "bind"
            ELSE IF flags.nonblock THEN "nonblock" ELSE ToConnect)
    /\ UNCHANGED <<call, Resources, kernel, lost, transfer>>

\* anetSetReuseAddr fails: anetCreateSocket closes s, anetTcpGenericConnect
\* does so at its label error, and _anetTcpServer forgets it.
ReuseAddrFails ==
    /\ pc = "reuse"
    /\ IF Unix THEN Close /\ ReturnS(ANET_ERR) /\ lost' = lost
       ELSE /\ UNCHANGED kernel
            /\ IF Connects THEN Goto("error") /\ lost' = lost
               ELSE DropTo("end") /\ lost' = lost \cup {s}
    /\ UNCHANGED <<call, Resources, transfer>>

NonBlockSet ==
    /\ pc = "nonblock"
    /\ nonblock' = nonblock \cup {s}
    /\ Goto(ToConnect)
    /\ UNCHANGED <<call, Resources, open, state, bound, lost, transfer>>

\* anetNonBlock fails: anetUnixGenericConnect returns and forgets s.
NonBlockFails ==
    /\ pc = "nonblock"
    /\ IF Unix THEN ReturnS(ANET_ERR) /\ lost' = lost \cup {s}
       ELSE Goto("error") /\ lost' = lost
    /\ UNCHANGED <<call, Resources, kernel, transfer>>

-----------------------------------------------------------------------------
(* The source address and connect.                                         *)

SourceResolves(n) ==
    /\ pc = "source"
    /\ bleft' = n
    /\ lists' = lists + 1
    /\ Goto("bindsource")
    /\ UNCHANGED <<call, left, kernel, lost, transfer>>

SourceFails ==
    /\ pc = "source"
    /\ Goto("error")
    /\ UNCHANGED <<call, Resources, kernel, lost, transfer>>

SourceBound ==
    /\ pc = "bindsource"
    /\ Binds
    /\ lists' = lists - 1
    /\ Goto("connect")
    /\ UNCHANGED <<call, left, bleft, lost, transfer>>

\* A wrong SourceNotBound that does not look at bound after the loop.
SourceNotBoundUnchecked ==
    /\ pc = "bindsource"
    /\ bleft' = bleft - 1
    /\ IF bleft > 1 THEN Goto("bindsource") /\ lists' = lists
       ELSE Goto("connect") /\ lists' = lists - 1
    /\ UNCHANGED <<call, left, kernel, lost, transfer>>

SourceNotBound ==
    /\ pc = "bindsource"
    /\ bleft' = bleft - 1
    /\ IF bleft > 1 THEN Goto("bindsource") /\ lists' = lists
       ELSE Goto("error") /\ lists' = lists - 1
    /\ UNCHANGED <<call, left, kernel, lost, transfer>>

\* connect succeeds, or is in progress on a non-blocking socket.
ConnectEnds == IF Unix THEN ReturnS(s) ELSE Goto("end")

Connected ==
    /\ pc = "connect"
    /\ Becomes("connected")
    /\ ConnectEnds
    /\ UNCHANGED <<call, Resources, lost, transfer>>

InProgress ==
    /\ pc = "connect"
    /\ flags.nonblock
    /\ Becomes("pending")
    /\ ConnectEnds
    /\ UNCHANGED <<call, Resources, lost, transfer>>

\* A wrong ConnectFails that goes to the next address without close.
ConnectFailsOpen ==
    /\ pc = "connect"
    /\ IF Unix THEN ReturnS(ANET_ERR) /\ left' = left
       ELSE DropTo(AfterAddress) /\ left' = left - 1
    /\ UNCHANGED <<call, bleft, lists, kernel, lost, transfer>>

ConnectFails ==
    /\ pc = "connect"
    /\ Close
    /\ IF Unix THEN ReturnS(ANET_ERR) /\ left' = left
       ELSE DropTo(AfterAddress) /\ left' = left - 1
    /\ UNCHANGED <<call, bleft, lists, lost, transfer>>

-----------------------------------------------------------------------------
(* bind and listen (anetListen), and the labels error and end.             *)

ListenStep(works) ==
    /\ pc \in {"bind", "listen"}
    /\ IF ~works
       THEN Close /\ IF Unix THEN ReturnS(ANET_ERR) ELSE DropTo("end")
       ELSE IF pc = "bind" THEN Binds /\ Goto("listen")
       ELSE Becomes("listening") /\ IF Unix THEN ReturnS(s) ELSE Goto("end")
    /\ UNCHANGED <<call, Resources, lost, transfer>>

\* The label error.  anetTcpGenericConnect closes s; _anetTcpServer comes here
\* from the end of its loop only, with s = -1 from socket.
LabelError ==
    /\ pc = "error"
    /\ IF s # ANET_ERR THEN Close ELSE UNCHANGED kernel
    /\ DropTo("end")
    /\ UNCHANGED <<call, Resources, lost, transfer>>

Retries == helper = "tcpConnect" /\ s = ANET_ERR /\ source /\ flags.effort

\* A wrong label end that leaves servinfo allocated when it tries again.
LabelEndKeepsList ==
    /\ pc = "end"
    /\ IF Retries
       THEN /\ Goto("resolve")
            /\ source' = FALSE
            /\ lists' = lists
       ELSE ReturnS(s) /\ source' = source /\ lists' = lists - 1
    /\ UNCHANGED <<helper, flags, af6, left, bleft, kernel, lost, transfer>>

\* The label end: free servinfo, then try again without the source address, or
\* return s.
LabelEnd ==
    /\ pc = "end"
    /\ lists' = lists - 1
    /\ IF Retries
       THEN Goto("resolve") /\ source' = FALSE
       ELSE ReturnS(s) /\ source' = source
    /\ UNCHANGED <<helper, flags, af6, left, bleft, kernel, lost, transfer>>

-----------------------------------------------------------------------------
(* anetGenericAccept, whose loop goes on after EINTR.                      *)

Accepts(fd) ==
    /\ pc = "accept"
    /\ Opens(fd, "connected")
    /\ ReturnS(fd)
    /\ UNCHANGED <<call, Resources, lost, transfer>>

AcceptFails ==
    /\ pc = "accept"
    /\ ReturnS(ANET_ERR)
    /\ UNCHANGED <<call, Resources, kernel, lost, transfer>>

-----------------------------------------------------------------------------
(* anetRead and anetWrite: one step per read or write.                     *)

BeginTransfer(h, n) ==
    /\ pc = "idle"
    /\ \E fd \in owned : state[fd] = "connected"
    /\ pc' = "transfer"
    /\ helper' = h /\ flags' = NoFlags /\ source' = FALSE /\ af6' = FALSE
    /\ FreshTransfer(n)
    /\ UNCHANGED <<s, Resources, kernel, owned, lost>>

\* A wrong Transfers that does not advance buf.
TransfersInPlace(n) ==
    /\ pc = "transfer" /\ totlen # count
    /\ n \in 1..(count - totlen)
    /\ bytes' = bytes \o [k \in 1..n |-> buf + k]
    /\ totlen' = totlen + n
    /\ UNCHANGED <<pc, call, s, Resources, kernel, owned, lost, count, buf, result,
                   ended>>

\* read or write is asked for count - totlen bytes and moves n of them.
Transfers(n) ==
    /\ pc = "transfer" /\ totlen # count
    /\ n \in 1..(count - totlen)
    /\ bytes' = bytes \o [k \in 1..n |-> buf + k]
    /\ totlen' = totlen + n
    /\ buf' = buf + n
    /\ UNCHANGED <<pc, call, s, Resources, kernel, owned, lost, count, result, ended>>

\* anetRead and anetWrite return a value; why says what they met.
TransferReturns(value, why) ==
    /\ pc = "transfer"
    /\ pc' = "idle"
    /\ result' = value /\ ended' = why
    /\ UNCHANGED <<call, s, Resources, kernel, owned, lost, totlen, count, buf, bytes>>

\* The loop is over.
TransferComplete == totlen = count /\ TransferReturns(totlen, "full")

\* read or write returns 0: end of file, or nothing taken.
TransferStops == totlen # count /\ TransferReturns(totlen, "zero")

\* A wrong TransferFails that tells how much was moved.
TransferFailsShort == totlen # count /\ TransferReturns(totlen, "error")

\* read or write returns -1, with any errno.
TransferFails == totlen # count /\ TransferReturns(ANET_ERR, "error")

-----------------------------------------------------------------------------
AppStep ==
    \/ TcpConnect \/ UnixConnect \/ TcpServer \/ UnixServer \/ AnetAccept
    \/ \E fd \in Fd : AppCloses(fd)
    \/ \E h \in {"read", "write"}, n \in 0..MaxCount : BeginTransfer(h, n)

HelperStep ==
    \/ ResolveFails \/ \E n \in 1..MaxAddrs : Resolves(n)
    \/ SocketFails \/ \E fd \in Fd : SocketOpens(fd)
    \/ \E works \in BOOLEAN : V6Only(works) \/ ListenStep(works)
    \/ ReuseAddrSet \/ ReuseAddrFails \/ NonBlockSet \/ NonBlockFails
    \/ SourceFails \/ \E n \in 1..MaxAddrs : SourceResolves(n)
    \/ SourceBound \/ SourceNotBound
    \/ Connected \/ InProgress \/ ConnectFails
    \/ LabelError \/ LabelEnd
    \/ AcceptFails \/ \E fd \in Fd : Accepts(fd)
    \/ TransferComplete \/ TransferStops \/ TransferFails
    \/ \E n \in 1..MaxCount : Transfers(n)

Next == AppStep \/ HelperStep

Spec == Init /\ [][Next]_vars

-----------------------------------------------------------------------------
(* Properties.                                                             *)

\* Every open descriptor is the application's, the one the running helper
\* works on, or was lost in one of two failures: SO_REUSEADDR in
\* _anetTcpServer and O_NONBLOCK in anetUnixGenericConnect.  No other path
\* through the helpers leaks a descriptor, and no descriptor the application
\* owns is closed by them.
DescriptorsAccounted ==
    /\ open = owned \cup lost \cup ({s} \ {ANET_ERR})
    /\ owned \cap lost = {}
    /\ s \notin owned \cup lost

\* Whatever fails, and also when a connect is tried again without its source
\* address, every list of addresses is freed, once, when the helper returns.
ListsFreed == pc = "idle" => lists = 0

\* A descriptor that a helper returns is what the caller asked for: listening,
\* connected, or pending if it may be; non-blocking exactly if asked for; and
\* bound to the source address that was given, which only best-effort binding
\* may give up.
Asked ==
    \A fd \in owned' \ owned :
        /\ fd \in nonblock' <=> flags.nonblock
        /\ IF helper \in {"tcpServer", "unixServer"}
           THEN state'[fd] = "listening" /\ fd \in bound'
           ELSE /\ state'[fd] = "connected"
                   \/ (state'[fd] = "pending" /\ flags.nonblock)
                /\ fd \in bound' => flags.source
                /\ flags.source /\ ~flags.effort => fd \in bound'

ReturnsAsAsked == [][Asked]_vars

\* What the caller of anetRead or anetWrite can rely on when it is back, however
\* the kernel cut the transfer: -1 means that a read or write failed, and only
\* that; any other result is the number of bytes moved, which are the first ones
\* of the buffer, each once and in order; and a result short of count means
\* that the kernel moved nothing when it was asked for the rest.
CallerTold ==
    pc = "idle" /\ helper \in {"read", "write"} =>
        /\ result = ANET_ERR <=> ended = "error"
        /\ result # ANET_ERR => bytes = [k \in 1..result |-> k]
        /\ result \notin {ANET_ERR, count} => ended = "zero" /\ result < count
=============================================================================
