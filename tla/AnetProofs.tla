----------------------------- MODULE AnetProofs -----------------------------
(***************************************************************************)
(* Proofs about Anet, for every number of descriptors, addresses and bytes: *)
(* no path through the helpers leaks a descriptor but the two that "lost"   *)
(* records, every list of addresses is freed, and what a helper returns is  *)
(* what it was asked for.                                                   *)
(***************************************************************************)
EXTENDS Anet, SequenceTheorems, TLAPS

\* Where each helper can be, and when it has a socket in s.
CallShape ==
    /\ pc \in {"nonblock", "connect"} => Connects
    /\ pc \in {"source", "bindsource"} => source
    /\ pc \in {"bind", "listen"} => helper \in {"tcpServer", "unixServer"}
    /\ pc = "v6only" => helper = "tcpServer"
    /\ pc \in {"resolve", "error", "end"} => helper \in {"tcpConnect", "tcpServer"}
    /\ pc \in {"socket", "reuse"} =>
          helper \in {"tcpConnect", "unixConnect", "tcpServer", "unixServer"}
    /\ pc \in {"v6only", "reuse", "nonblock", "source", "bindsource", "connect",
               "bind", "listen"} => s # ANET_ERR
    /\ pc \in {"idle", "resolve", "socket", "accept", "transfer"} => s = ANET_ERR
    /\ pc \notin {"idle", "transfer"} /\ source => helper = "tcpConnect"
    /\ pc \notin {"idle", "transfer"} /\ flags.nonblock => Connects
    /\ pc = "accept" => helper = "accept"
    /\ source => flags.source
    /\ flags.source /\ ~flags.effort => source

\* The lists of addresses a helper holds at each of its steps.
ListsHeld ==
    /\ pc \in {"idle", "resolve", "accept", "transfer"} => lists = 0
    /\ pc \in {"error", "end", "source", "v6only"} => lists = 1
    /\ pc = "bindsource" => lists = 2
    /\ pc \in {"socket", "reuse", "nonblock", "connect", "bind", "listen"} =>
          lists = IF Unix THEN 0 ELSE 1
    /\ pc \in {"socket", "v6only", "reuse", "nonblock", "source", "bindsource",
               "connect"} /\ ~Unix => left > 0
    /\ pc = "bindsource" => bleft > 0

\* What the socket in s was made so far.
SocketSoFar ==
    /\ pc \in {"v6only", "reuse", "nonblock"} => s \notin nonblock \cup bound
    /\ pc = "nonblock" => flags.nonblock
    /\ pc \in {"source", "bindsource", "connect", "bind", "listen"} =>
          (s \in nonblock <=> flags.nonblock)
    /\ pc \in {"source", "bindsource"} => s \notin bound
    /\ pc = "connect" => (s \in bound <=> source)
    /\ pc = "listen" => s \in bound
    /\ pc = "end" /\ s # ANET_ERR =>
          /\ s \in nonblock <=> flags.nonblock
          /\ helper = "tcpServer" => state[s] = "listening" /\ s \in bound
          /\ helper = "tcpConnect" =>
                /\ \/ state[s] = "connected"
                   \/ state[s] = "pending" /\ flags.nonblock
                /\ s \in bound <=> source

\* A read or write goes over the buffer once, in order, without a gap.
InOrder ==
    /\ buf = totlen /\ totlen <= count
    /\ bytes = [k \in 1..totlen |-> k]

\* The inductive invariant.
AnetInv ==
    /\ TypeOK /\ CallShape /\ ListsHeld /\ SocketSoFar
    /\ DescriptorsAccounted /\ InOrder /\ CallerTold

\* The run of positions that a transfer of n more bytes adds.
LEMMA LongerRun ==
  ASSUME NEW t \in Nat, NEW n \in Nat
  PROVE  [k \in 1..t |-> k] \o [k \in 1..n |-> t + k] = [k \in 1..(t + n) |-> k]
<1> DEFINE a == [k \in 1..t |-> k]
           b == [k \in 1..n |-> t + k]
<1>1. a \in Seq(Nat) /\ Len(a) = t
  OBVIOUS
<1>2. b \in Seq(Nat) /\ Len(b) = n
  OBVIOUS
<1>3. \A k \in 1..t : a[k] = k
  OBVIOUS
<1>4. \A k \in 1..n : b[k] = t + k
  OBVIOUS
<1> HIDE DEF a, b
<1>5. (a \o b) \in Seq(Nat) /\ Len(a \o b) = t + n
  BY ONLY <1>1, <1>2, ConcatProperties
<1>6. ASSUME NEW k \in 1..(t + n) PROVE (a \o b)[k] = k
  <2>1. CASE k <= t
    BY <2>1, <1>1, <1>2, <1>3, ConcatProperties
  <2>2. CASE k > t
    BY <2>2, <1>1, <1>2, <1>4, ConcatProperties
  <2>3. k <= t \/ k > t
    OBVIOUS
  <2> QED BY <2>1, <2>2, <2>3, Zenon
<1> DEFINE r == [k \in 1..(t + n) |-> k]
<1>7. r \in Seq(Nat) /\ Len(r) = t + n /\ \A k \in 1..(t + n) : r[k] = k
  OBVIOUS
<1> HIDE DEF r
<1>8. a \o b = r
  BY <1>5, <1>6, <1>7, SeqEqual
<1> QED
  BY <1>8 DEF a, b, r

\* A run of positions is a sequence of positions.
LEMMA RunTyped ==
  ASSUME NEW m \in Nat, NEW t \in 0..m
  PROVE  [k \in 1..t |-> k] \in Seq(1..m)
  OBVIOUS

LEMMA InitInv == Init => AnetInv
  BY BoundAssumption DEF Init, AnetInv, TypeOK, CallShape, ListsHeld, SocketSoFar,
     DescriptorsAccounted, InOrder, CallerTold, Fd, ANET_ERR, Helper, Flags, NoFlags, Connects, Unix

\* Each helper stays on its own steps.
LEMMA ShapeStep == AnetInv /\ [Next]_vars => CallShape'
<1> SUFFICES ASSUME AnetInv, [Next]_vars
             PROVE  CallShape'
  OBVIOUS
<1> USE BoundAssumption DEF AnetInv, CallShape, Connects, Unix, TypeOK, Fd,
         ANET_ERR, Helper, Flags, NoFlags, call, kernel, Resources, transfer
<1>1. CASE TcpConnect
  BY <1>1 DEF TcpConnect, Begin
<1>2. CASE UnixConnect
  BY <1>2 DEF UnixConnect, Begin
<1>3. CASE TcpServer
  BY <1>3 DEF TcpServer, Begin
<1>4. CASE UnixServer
  BY <1>4 DEF UnixServer, Begin
<1>5. CASE AnetAccept
  BY <1>5 DEF AnetAccept, Begin
<1>6. CASE \E fd \in Fd : AppCloses(fd)
  BY <1>6 DEF AppCloses
<1>7. CASE \E h \in {"read", "write"}, n \in 0..MaxCount : BeginTransfer(h, n)
  BY <1>7 DEF BeginTransfer, FreshTransfer
<1>8. CASE ResolveFails
  BY <1>8 DEF ResolveFails, ReturnS
<1>9. CASE \E n \in 1..MaxAddrs : Resolves(n)
  BY <1>9 DEF Resolves, Goto
<1>10. CASE SocketFails
  BY <1>10 DEF SocketFails, ReturnS, Goto, AfterAddress
<1>11. CASE \E fd \in Fd : SocketOpens(fd)
  BY <1>11 DEF SocketOpens, Opens
<1>12. CASE \E works \in BOOLEAN : V6Only(works)
  BY <1>12 DEF V6Only, Goto, Close, DropTo
<1>13. CASE \E works \in BOOLEAN : ListenStep(works)
  BY <1>13 DEF ListenStep, Goto, Close, DropTo, ReturnS, Binds, Becomes
<1>14. CASE ReuseAddrSet
  BY <1>14 DEF ReuseAddrSet, Goto, ToConnect
<1>15. CASE ReuseAddrFails
  BY <1>15 DEF ReuseAddrFails, Close, ReturnS, Goto, DropTo
<1>16. CASE NonBlockSet
  BY <1>16 DEF NonBlockSet, Goto, ToConnect
<1>17. CASE NonBlockFails
  BY <1>17 DEF NonBlockFails, ReturnS, Goto
<1>18. CASE SourceFails
  BY <1>18 DEF SourceFails, Goto
<1>19. CASE \E n \in 1..MaxAddrs : SourceResolves(n)
  BY <1>19 DEF SourceResolves, Goto
<1>20. CASE SourceBound
  BY <1>20 DEF SourceBound, Binds, Goto
<1>21. CASE SourceNotBound
  BY <1>21 DEF SourceNotBound, Goto
<1>22. CASE Connected
  BY <1>22 DEF Connected, Becomes, ConnectEnds, ReturnS, Goto
<1>23. CASE InProgress
  BY <1>23 DEF InProgress, Becomes, ConnectEnds, ReturnS, Goto
<1>24. CASE ConnectFails
  BY <1>24 DEF ConnectFails, Close, ReturnS, DropTo, AfterAddress
<1>25. CASE LabelError
  BY <1>25 DEF LabelError, Close, DropTo
<1>26. CASE LabelEnd
  BY <1>26 DEF LabelEnd, Retries, Goto, ReturnS
<1>27. CASE AcceptFails
  BY <1>27 DEF AcceptFails, ReturnS
<1>28. CASE \E fd \in Fd : Accepts(fd)
  BY <1>28 DEF Accepts, Opens, ReturnS
<1>29. CASE TransferComplete \/ TransferStops \/ TransferFails
  BY <1>29 DEF TransferComplete, TransferStops, TransferFails, TransferReturns
<1>30. CASE \E n \in 1..MaxCount : Transfers(n)
  BY <1>30 DEF Transfers
<1>31. CASE UNCHANGED vars
  BY <1>31 DEF vars
<1>32. QED
  BY <1>1, <1>2, <1>3, <1>4, <1>5, <1>6, <1>7, <1>8, <1>9, <1>10,
     <1>11, <1>12, <1>13, <1>14, <1>15, <1>16, <1>17, <1>18, <1>19, <1>20,
     <1>21, <1>22, <1>23, <1>24, <1>25, <1>26, <1>27, <1>28, <1>29, <1>30,
     <1>31
     DEF Next, AppStep, HelperStep

\* The lists are allocated and freed in pairs.
LEMMA ListsStep == AnetInv /\ [Next]_vars => ListsHeld'
<1> SUFFICES ASSUME AnetInv, [Next]_vars
             PROVE  ListsHeld'
  OBVIOUS
<1> USE BoundAssumption DEF AnetInv, CallShape, ListsHeld, Connects, Unix,
         TypeOK, Fd, ANET_ERR, Helper, Flags, NoFlags, call, kernel, Resources,
         transfer
<1>1. CASE TcpConnect
  BY <1>1 DEF TcpConnect, Begin
<1>2. CASE UnixConnect
  BY <1>2 DEF UnixConnect, Begin
<1>3. CASE TcpServer
  BY <1>3 DEF TcpServer, Begin
<1>4. CASE UnixServer
  BY <1>4 DEF UnixServer, Begin
<1>5. CASE AnetAccept
  BY <1>5 DEF AnetAccept, Begin
<1>6. CASE \E fd \in Fd : AppCloses(fd)
  BY <1>6 DEF AppCloses
<1>7. CASE \E h \in {"read", "write"}, n \in 0..MaxCount : BeginTransfer(h, n)
  BY <1>7 DEF BeginTransfer, FreshTransfer
<1>8. CASE ResolveFails
  BY <1>8 DEF ResolveFails, ReturnS
<1>9. CASE \E n \in 1..MaxAddrs : Resolves(n)
  BY <1>9 DEF Resolves, Goto
<1>10. CASE SocketFails
  BY <1>10 DEF SocketFails, ReturnS, Goto, AfterAddress
<1>11. CASE \E fd \in Fd : SocketOpens(fd)
  BY <1>11 DEF SocketOpens, Opens
<1>12. CASE \E works \in BOOLEAN : V6Only(works)
  BY <1>12 DEF V6Only, Goto, Close, DropTo
<1>13. CASE \E works \in BOOLEAN : ListenStep(works)
  BY <1>13 DEF ListenStep, Goto, Close, DropTo, ReturnS, Binds, Becomes
<1>14. CASE ReuseAddrSet
  BY <1>14 DEF ReuseAddrSet, Goto, ToConnect
<1>15. CASE ReuseAddrFails
  BY <1>15 DEF ReuseAddrFails, Close, ReturnS, Goto, DropTo
<1>16. CASE NonBlockSet
  BY <1>16 DEF NonBlockSet, Goto, ToConnect
<1>17. CASE NonBlockFails
  BY <1>17 DEF NonBlockFails, ReturnS, Goto
<1>18. CASE SourceFails
  BY <1>18 DEF SourceFails, Goto
<1>19. CASE \E n \in 1..MaxAddrs : SourceResolves(n)
  BY <1>19 DEF SourceResolves, Goto
<1>20. CASE SourceBound
  BY <1>20 DEF SourceBound, Binds, Goto
<1>21. CASE SourceNotBound
  BY <1>21 DEF SourceNotBound, Goto
<1>22. CASE Connected
  BY <1>22 DEF Connected, Becomes, ConnectEnds, ReturnS, Goto
<1>23. CASE InProgress
  BY <1>23 DEF InProgress, Becomes, ConnectEnds, ReturnS, Goto
<1>24. CASE ConnectFails
  BY <1>24 DEF ConnectFails, Close, ReturnS, DropTo, AfterAddress
<1>25. CASE LabelError
  BY <1>25 DEF LabelError, Close, DropTo
<1>26. CASE LabelEnd
  BY <1>26 DEF LabelEnd, Retries, Goto, ReturnS
<1>27. CASE AcceptFails
  BY <1>27 DEF AcceptFails, ReturnS
<1>28. CASE \E fd \in Fd : Accepts(fd)
  BY <1>28 DEF Accepts, Opens, ReturnS
<1>29. CASE TransferComplete \/ TransferStops \/ TransferFails
  BY <1>29 DEF TransferComplete, TransferStops, TransferFails, TransferReturns
<1>30. CASE \E n \in 1..MaxCount : Transfers(n)
  BY <1>30 DEF Transfers
<1>31. CASE UNCHANGED vars
  BY <1>31 DEF vars
<1>32. QED
  BY <1>1, <1>2, <1>3, <1>4, <1>5, <1>6, <1>7, <1>8, <1>9, <1>10,
     <1>11, <1>12, <1>13, <1>14, <1>15, <1>16, <1>17, <1>18, <1>19, <1>20,
     <1>21, <1>22, <1>23, <1>24, <1>25, <1>26, <1>27, <1>28, <1>29, <1>30,
     <1>31
     DEF Next, AppStep, HelperStep

\* The socket gets what was asked for, in order.
LEMMA SocketStep == AnetInv /\ [Next]_vars => SocketSoFar'
<1> SUFFICES ASSUME AnetInv, [Next]_vars
             PROVE  SocketSoFar'
  OBVIOUS
<1> USE BoundAssumption DEF AnetInv, CallShape, SocketSoFar,
         DescriptorsAccounted, Connects, Unix, TypeOK, Fd, ANET_ERR, Helper,
         Flags, NoFlags, call, kernel, Resources, transfer
<1>1. CASE TcpConnect
  BY <1>1 DEF TcpConnect, Begin
<1>2. CASE UnixConnect
  BY <1>2 DEF UnixConnect, Begin
<1>3. CASE TcpServer
  BY <1>3 DEF TcpServer, Begin
<1>4. CASE UnixServer
  BY <1>4 DEF UnixServer, Begin
<1>5. CASE AnetAccept
  BY <1>5 DEF AnetAccept, Begin
<1>6. CASE \E fd \in Fd : AppCloses(fd)
  BY <1>6 DEF AppCloses
<1>7. CASE \E h \in {"read", "write"}, n \in 0..MaxCount : BeginTransfer(h, n)
  BY <1>7 DEF BeginTransfer, FreshTransfer
<1>8. CASE ResolveFails
  BY <1>8 DEF ResolveFails, ReturnS
<1>9. CASE \E n \in 1..MaxAddrs : Resolves(n)
  BY <1>9 DEF Resolves, Goto
<1>10. CASE SocketFails
  BY <1>10 DEF SocketFails, ReturnS, Goto, AfterAddress
<1>11. CASE \E fd \in Fd : SocketOpens(fd)
  BY <1>11 DEF SocketOpens, Opens
<1>12. CASE \E works \in BOOLEAN : V6Only(works)
  BY <1>12 DEF V6Only, Goto, Close, DropTo
<1>13. CASE \E works \in BOOLEAN : ListenStep(works)
  BY <1>13 DEF ListenStep, Goto, Close, DropTo, ReturnS, Binds, Becomes
<1>14. CASE ReuseAddrSet
  BY <1>14 DEF ReuseAddrSet, Goto, ToConnect
<1>15. CASE ReuseAddrFails
  BY <1>15 DEF ReuseAddrFails, Close, ReturnS, Goto, DropTo
<1>16. CASE NonBlockSet
  BY <1>16 DEF NonBlockSet, Goto, ToConnect
<1>17. CASE NonBlockFails
  BY <1>17 DEF NonBlockFails, ReturnS, Goto
<1>18. CASE SourceFails
  BY <1>18 DEF SourceFails, Goto
<1>19. CASE \E n \in 1..MaxAddrs : SourceResolves(n)
  BY <1>19 DEF SourceResolves, Goto
<1>20. CASE SourceBound
  BY <1>20 DEF SourceBound, Binds, Goto
<1>21. CASE SourceNotBound
  BY <1>21 DEF SourceNotBound, Goto
<1>22. CASE Connected
  BY <1>22 DEF Connected, Becomes, ConnectEnds, ReturnS, Goto
<1>23. CASE InProgress
  BY <1>23 DEF InProgress, Becomes, ConnectEnds, ReturnS, Goto
<1>24. CASE ConnectFails
  BY <1>24 DEF ConnectFails, Close, ReturnS, DropTo, AfterAddress
<1>25. CASE LabelError
  BY <1>25 DEF LabelError, Close, DropTo
<1>26. CASE LabelEnd
  BY <1>26 DEF LabelEnd, Retries, Goto, ReturnS
<1>27. CASE AcceptFails
  BY <1>27 DEF AcceptFails, ReturnS
<1>28. CASE \E fd \in Fd : Accepts(fd)
  BY <1>28 DEF Accepts, Opens, ReturnS
<1>29. CASE TransferComplete \/ TransferStops \/ TransferFails
  BY <1>29 DEF TransferComplete, TransferStops, TransferFails, TransferReturns
<1>30. CASE \E n \in 1..MaxCount : Transfers(n)
  BY <1>30 DEF Transfers
<1>31. CASE UNCHANGED vars
  BY <1>31 DEF vars
<1>32. QED
  BY <1>1, <1>2, <1>3, <1>4, <1>5, <1>6, <1>7, <1>8, <1>9, <1>10,
     <1>11, <1>12, <1>13, <1>14, <1>15, <1>16, <1>17, <1>18, <1>19, <1>20,
     <1>21, <1>22, <1>23, <1>24, <1>25, <1>26, <1>27, <1>28, <1>29, <1>30,
     <1>31
     DEF Next, AppStep, HelperStep

\* No descriptor gets out of sight.
LEMMA AccountedStep == AnetInv /\ [Next]_vars => DescriptorsAccounted'
<1> SUFFICES ASSUME AnetInv, [Next]_vars
             PROVE  DescriptorsAccounted'
  OBVIOUS
<1>a. ANET_ERR \notin open /\ ANET_ERR \notin Fd
  BY BoundAssumption DEF AnetInv, TypeOK, Fd, ANET_ERR
<1> USE <1>a DEF AnetInv, CallShape, DescriptorsAccounted, Connects, Unix,
         call, kernel, Resources, transfer
<1>1. CASE TcpConnect
  BY <1>1 DEF TcpConnect, Begin
<1>2. CASE UnixConnect
  BY <1>2 DEF UnixConnect, Begin
<1>3. CASE TcpServer
  BY <1>3 DEF TcpServer, Begin
<1>4. CASE UnixServer
  BY <1>4 DEF UnixServer, Begin
<1>5. CASE AnetAccept
  BY <1>5 DEF AnetAccept, Begin
<1>6. CASE \E fd \in Fd : AppCloses(fd)
  BY <1>6 DEF AppCloses
<1>7. CASE \E h \in {"read", "write"}, n \in 0..MaxCount : BeginTransfer(h, n)
  BY <1>7 DEF BeginTransfer, FreshTransfer
<1>8. CASE ResolveFails
  BY <1>8 DEF ResolveFails, ReturnS
<1>9. CASE \E n \in 1..MaxAddrs : Resolves(n)
  BY <1>9 DEF Resolves, Goto
<1>10. CASE SocketFails
  BY <1>10 DEF SocketFails, ReturnS, Goto, AfterAddress
<1>11. CASE \E fd \in Fd : SocketOpens(fd)
  BY <1>11 DEF SocketOpens, Opens
<1>12. CASE \E works \in BOOLEAN : V6Only(works)
  BY <1>12 DEF V6Only, Goto, Close, DropTo
<1>13. CASE \E works \in BOOLEAN : ListenStep(works)
  BY <1>13 DEF ListenStep, Goto, Close, DropTo, ReturnS, Binds, Becomes
<1>14. CASE ReuseAddrSet
  BY <1>14 DEF ReuseAddrSet, Goto, ToConnect
<1>15. CASE ReuseAddrFails
  BY <1>15 DEF ReuseAddrFails, Close, ReturnS, Goto, DropTo
<1>16. CASE NonBlockSet
  BY <1>16 DEF NonBlockSet, Goto, ToConnect
<1>17. CASE NonBlockFails
  BY <1>17 DEF NonBlockFails, ReturnS, Goto
<1>18. CASE SourceFails
  BY <1>18 DEF SourceFails, Goto
<1>19. CASE \E n \in 1..MaxAddrs : SourceResolves(n)
  BY <1>19 DEF SourceResolves, Goto
<1>20. CASE SourceBound
  BY <1>20 DEF SourceBound, Binds, Goto
<1>21. CASE SourceNotBound
  BY <1>21 DEF SourceNotBound, Goto
<1>22. CASE Connected
  BY <1>22 DEF Connected, Becomes, ConnectEnds, ReturnS, Goto
<1>23. CASE InProgress
  BY <1>23 DEF InProgress, Becomes, ConnectEnds, ReturnS, Goto
<1>24. CASE ConnectFails
  BY <1>24 DEF ConnectFails, Close, ReturnS, DropTo, AfterAddress
<1>25. CASE LabelError
  BY <1>25 DEF LabelError, Close, DropTo
<1>26. CASE LabelEnd
  BY <1>26 DEF LabelEnd, Retries, Goto, ReturnS
<1>27. CASE AcceptFails
  BY <1>27 DEF AcceptFails, ReturnS
<1>28. CASE \E fd \in Fd : Accepts(fd)
  BY <1>28 DEF Accepts, Opens, ReturnS
<1>29. CASE TransferComplete \/ TransferStops \/ TransferFails
  BY <1>29 DEF TransferComplete, TransferStops, TransferFails, TransferReturns
<1>30. CASE \E n \in 1..MaxCount : Transfers(n)
  BY <1>30 DEF Transfers
<1>31. CASE UNCHANGED vars
  BY <1>31 DEF vars
<1>32. QED
  BY <1>1, <1>2, <1>3, <1>4, <1>5, <1>6, <1>7, <1>8, <1>9, <1>10,
     <1>11, <1>12, <1>13, <1>14, <1>15, <1>16, <1>17, <1>18, <1>19, <1>20,
     <1>21, <1>22, <1>23, <1>24, <1>25, <1>26, <1>27, <1>28, <1>29, <1>30,
     <1>31
     DEF Next, AppStep, HelperStep

\* A descriptor that becomes the application's is what it asked for.
LEMMA ReturnStep == AnetInv /\ [Next]_vars => Asked
<1> SUFFICES ASSUME AnetInv, [Next]_vars
             PROVE  Asked
  OBVIOUS
<1> USE BoundAssumption DEF Asked, AnetInv, CallShape, SocketSoFar,
         DescriptorsAccounted, Connects, Unix, TypeOK, Fd, ANET_ERR, Helper,
         Flags, NoFlags, call, kernel, Resources, transfer
<1>1. CASE TcpConnect
  BY <1>1 DEF TcpConnect, Begin
<1>2. CASE UnixConnect
  BY <1>2 DEF UnixConnect, Begin
<1>3. CASE TcpServer
  BY <1>3 DEF TcpServer, Begin
<1>4. CASE UnixServer
  BY <1>4 DEF UnixServer, Begin
<1>5. CASE AnetAccept
  BY <1>5 DEF AnetAccept, Begin
<1>6. CASE \E fd \in Fd : AppCloses(fd)
  BY <1>6 DEF AppCloses
<1>7. CASE \E h \in {"read", "write"}, n \in 0..MaxCount : BeginTransfer(h, n)
  BY <1>7 DEF BeginTransfer, FreshTransfer
<1>8. CASE ResolveFails
  BY <1>8 DEF ResolveFails, ReturnS
<1>9. CASE \E n \in 1..MaxAddrs : Resolves(n)
  BY <1>9 DEF Resolves, Goto
<1>10. CASE SocketFails
  BY <1>10 DEF SocketFails, ReturnS, Goto, AfterAddress
<1>11. CASE \E fd \in Fd : SocketOpens(fd)
  BY <1>11 DEF SocketOpens, Opens
<1>12. CASE \E works \in BOOLEAN : V6Only(works)
  BY <1>12 DEF V6Only, Goto, Close, DropTo
<1>13. CASE \E works \in BOOLEAN : ListenStep(works)
  BY <1>13 DEF ListenStep, Goto, Close, DropTo, ReturnS, Binds, Becomes
<1>14. CASE ReuseAddrSet
  BY <1>14 DEF ReuseAddrSet, Goto, ToConnect
<1>15. CASE ReuseAddrFails
  BY <1>15 DEF ReuseAddrFails, Close, ReturnS, Goto, DropTo
<1>16. CASE NonBlockSet
  BY <1>16 DEF NonBlockSet, Goto, ToConnect
<1>17. CASE NonBlockFails
  BY <1>17 DEF NonBlockFails, ReturnS, Goto
<1>18. CASE SourceFails
  BY <1>18 DEF SourceFails, Goto
<1>19. CASE \E n \in 1..MaxAddrs : SourceResolves(n)
  BY <1>19 DEF SourceResolves, Goto
<1>20. CASE SourceBound
  BY <1>20 DEF SourceBound, Binds, Goto
<1>21. CASE SourceNotBound
  BY <1>21 DEF SourceNotBound, Goto
<1>22. CASE Connected
  BY <1>22 DEF Connected, Becomes, ConnectEnds, ReturnS, Goto
<1>23. CASE InProgress
  BY <1>23 DEF InProgress, Becomes, ConnectEnds, ReturnS, Goto
<1>24. CASE ConnectFails
  BY <1>24 DEF ConnectFails, Close, ReturnS, DropTo, AfterAddress
<1>25. CASE LabelError
  BY <1>25 DEF LabelError, Close, DropTo
<1>26. CASE LabelEnd
  BY <1>26 DEF LabelEnd, Retries, Goto, ReturnS
<1>27. CASE AcceptFails
  BY <1>27 DEF AcceptFails, ReturnS
<1>28. CASE \E fd \in Fd : Accepts(fd)
  BY <1>28 DEF Accepts, Opens, ReturnS
<1>29. CASE TransferComplete \/ TransferStops \/ TransferFails
  BY <1>29 DEF TransferComplete, TransferStops, TransferFails, TransferReturns
<1>30. CASE \E n \in 1..MaxCount : Transfers(n)
  BY <1>30 DEF Transfers
<1>31. CASE UNCHANGED vars
  BY <1>31 DEF vars
<1>32. QED
  BY <1>1, <1>2, <1>3, <1>4, <1>5, <1>6, <1>7, <1>8, <1>9, <1>10,
     <1>11, <1>12, <1>13, <1>14, <1>15, <1>16, <1>17, <1>18, <1>19, <1>20,
     <1>21, <1>22, <1>23, <1>24, <1>25, <1>26, <1>27, <1>28, <1>29, <1>30,
     <1>31
     DEF Next, AppStep, HelperStep

\* Each transfer goes on where the one before it ended.
LEMMA OrderStep == AnetInv /\ [Next]_vars => InOrder'
<1> SUFFICES ASSUME AnetInv, [Next]_vars
             PROVE  InOrder'
  OBVIOUS
<1> USE BoundAssumption DEF AnetInv, TypeOK, InOrder, call, kernel,
         Resources, transfer
<1>1. CASE TcpConnect
  BY <1>1 DEF TcpConnect, Begin, FreshTransfer
<1>2. CASE UnixConnect
  BY <1>2 DEF UnixConnect, Begin, FreshTransfer
<1>3. CASE TcpServer
  BY <1>3 DEF TcpServer, Begin, FreshTransfer
<1>4. CASE UnixServer
  BY <1>4 DEF UnixServer, Begin, FreshTransfer
<1>5. CASE AnetAccept
  BY <1>5 DEF AnetAccept, Begin, FreshTransfer
<1>6. CASE \E fd \in Fd : AppCloses(fd)
  BY <1>6 DEF AppCloses
<1>7. CASE \E h \in {"read", "write"}, n \in 0..MaxCount : BeginTransfer(h, n)
  BY <1>7 DEF BeginTransfer, FreshTransfer
<1>8. CASE ResolveFails
  BY <1>8 DEF ResolveFails, ReturnS
<1>9. CASE \E n \in 1..MaxAddrs : Resolves(n)
  BY <1>9 DEF Resolves, Goto
<1>10. CASE SocketFails
  BY <1>10 DEF SocketFails, ReturnS, Goto, AfterAddress
<1>11. CASE \E fd \in Fd : SocketOpens(fd)
  BY <1>11 DEF SocketOpens, Opens
<1>12. CASE \E works \in BOOLEAN : V6Only(works)
  BY <1>12 DEF V6Only, Goto, Close, DropTo
<1>13. CASE \E works \in BOOLEAN : ListenStep(works)
  BY <1>13 DEF ListenStep, Goto, Close, DropTo, ReturnS, Binds, Becomes
<1>14. CASE ReuseAddrSet
  BY <1>14 DEF ReuseAddrSet, Goto, ToConnect
<1>15. CASE ReuseAddrFails
  BY <1>15 DEF ReuseAddrFails, Close, ReturnS, Goto, DropTo
<1>16. CASE NonBlockSet
  BY <1>16 DEF NonBlockSet, Goto, ToConnect
<1>17. CASE NonBlockFails
  BY <1>17 DEF NonBlockFails, ReturnS, Goto
<1>18. CASE SourceFails
  BY <1>18 DEF SourceFails, Goto
<1>19. CASE \E n \in 1..MaxAddrs : SourceResolves(n)
  BY <1>19 DEF SourceResolves, Goto
<1>20. CASE SourceBound
  BY <1>20 DEF SourceBound, Binds, Goto
<1>21. CASE SourceNotBound
  BY <1>21 DEF SourceNotBound, Goto
<1>22. CASE Connected
  BY <1>22 DEF Connected, Becomes, ConnectEnds, ReturnS, Goto
<1>23. CASE InProgress
  BY <1>23 DEF InProgress, Becomes, ConnectEnds, ReturnS, Goto
<1>24. CASE ConnectFails
  BY <1>24 DEF ConnectFails, Close, ReturnS, DropTo, AfterAddress
<1>25. CASE LabelError
  BY <1>25 DEF LabelError, Close, DropTo
<1>26. CASE LabelEnd
  BY <1>26 DEF LabelEnd, Retries, Goto, ReturnS
<1>27. CASE AcceptFails
  BY <1>27 DEF AcceptFails, ReturnS
<1>28. CASE \E fd \in Fd : Accepts(fd)
  BY <1>28 DEF Accepts, Opens, ReturnS
<1>29. CASE TransferComplete \/ TransferStops \/ TransferFails
  BY <1>29 DEF TransferComplete, TransferStops, TransferFails, TransferReturns
<1>30. CASE \E n \in 1..MaxCount : Transfers(n)
  <2> PICK n \in 1..MaxCount : Transfers(n)
    BY <1>30
  <2>1. totlen \in Nat /\ n \in Nat
    OBVIOUS
  <2>2. bytes' = [k \in 1..totlen |-> k] \o [k \in 1..n |-> totlen + k]
    BY DEF Transfers, InOrder
  <2>3. bytes' = [k \in 1..(totlen + n) |-> k]
    BY <2>1, <2>2, LongerRun
  <2> QED
    BY <2>3 DEF Transfers
<1>31. CASE UNCHANGED vars
  BY <1>31 DEF vars
<1>32. QED
  BY <1>1, <1>2, <1>3, <1>4, <1>5, <1>6, <1>7, <1>8, <1>9, <1>10,
     <1>11, <1>12, <1>13, <1>14, <1>15, <1>16, <1>17, <1>18, <1>19, <1>20,
     <1>21, <1>22, <1>23, <1>24, <1>25, <1>26, <1>27, <1>28, <1>29, <1>30,
     <1>31
     DEF Next, AppStep, HelperStep

\* The value a read or write returns tells what it met.
LEMMA ToldStep == AnetInv /\ [Next]_vars => CallerTold'
<1> SUFFICES ASSUME AnetInv, [Next]_vars
             PROVE  CallerTold'
  OBVIOUS
<1> USE BoundAssumption DEF AnetInv, TypeOK, CallShape, InOrder,
         CallerTold, Connects, ANET_ERR, call, kernel,
         Resources, transfer
<1>1. CASE TcpConnect
  BY <1>1 DEF TcpConnect, Begin, FreshTransfer
<1>2. CASE UnixConnect
  BY <1>2 DEF UnixConnect, Begin, FreshTransfer
<1>3. CASE TcpServer
  BY <1>3 DEF TcpServer, Begin, FreshTransfer
<1>4. CASE UnixServer
  BY <1>4 DEF UnixServer, Begin, FreshTransfer
<1>5. CASE AnetAccept
  BY <1>5 DEF AnetAccept, Begin, FreshTransfer
<1>6. CASE \E fd \in Fd : AppCloses(fd)
  BY <1>6 DEF AppCloses
<1>7. CASE \E h \in {"read", "write"}, n \in 0..MaxCount : BeginTransfer(h, n)
  BY <1>7 DEF BeginTransfer, FreshTransfer
<1>8. CASE ResolveFails
  BY <1>8 DEF ResolveFails, ReturnS
<1>9. CASE \E n \in 1..MaxAddrs : Resolves(n)
  BY <1>9 DEF Resolves, Goto
<1>10. CASE SocketFails
  BY <1>10 DEF SocketFails, ReturnS, Goto, AfterAddress
<1>11. CASE \E fd \in Fd : SocketOpens(fd)
  BY <1>11 DEF SocketOpens, Opens
<1>12. CASE \E works \in BOOLEAN : V6Only(works)
  BY <1>12 DEF V6Only, Goto, Close, DropTo
<1>13. CASE \E works \in BOOLEAN : ListenStep(works)
  BY <1>13 DEF ListenStep, Goto, Close, DropTo, ReturnS, Binds, Becomes
<1>14. CASE ReuseAddrSet
  BY <1>14 DEF ReuseAddrSet, Goto, ToConnect
<1>15. CASE ReuseAddrFails
  BY <1>15 DEF ReuseAddrFails, Close, ReturnS, Goto, DropTo
<1>16. CASE NonBlockSet
  BY <1>16 DEF NonBlockSet, Goto, ToConnect
<1>17. CASE NonBlockFails
  BY <1>17 DEF NonBlockFails, ReturnS, Goto
<1>18. CASE SourceFails
  BY <1>18 DEF SourceFails, Goto
<1>19. CASE \E n \in 1..MaxAddrs : SourceResolves(n)
  BY <1>19 DEF SourceResolves, Goto
<1>20. CASE SourceBound
  BY <1>20 DEF SourceBound, Binds, Goto
<1>21. CASE SourceNotBound
  BY <1>21 DEF SourceNotBound, Goto
<1>22. CASE Connected
  BY <1>22 DEF Connected, Becomes, ConnectEnds, ReturnS, Goto
<1>23. CASE InProgress
  BY <1>23 DEF InProgress, Becomes, ConnectEnds, ReturnS, Goto
<1>24. CASE ConnectFails
  BY <1>24 DEF ConnectFails, Close, ReturnS, DropTo, AfterAddress
<1>25. CASE LabelError
  BY <1>25 DEF LabelError, Close, DropTo
<1>26. CASE LabelEnd
  BY <1>26 DEF LabelEnd, Retries, Goto, ReturnS
<1>27. CASE AcceptFails
  BY <1>27 DEF AcceptFails, ReturnS
<1>28. CASE \E fd \in Fd : Accepts(fd)
  BY <1>28 DEF Accepts, Opens, ReturnS
<1>29. CASE TransferComplete \/ TransferStops \/ TransferFails
  BY <1>29 DEF TransferComplete, TransferStops, TransferFails, TransferReturns
<1>30. CASE \E n \in 1..MaxCount : Transfers(n)
  BY <1>30 DEF Transfers
<1>31. CASE UNCHANGED vars
  BY <1>31 DEF vars
<1>32. QED
  BY <1>1, <1>2, <1>3, <1>4, <1>5, <1>6, <1>7, <1>8, <1>9, <1>10,
     <1>11, <1>12, <1>13, <1>14, <1>15, <1>16, <1>17, <1>18, <1>19, <1>20,
     <1>21, <1>22, <1>23, <1>24, <1>25, <1>26, <1>27, <1>28, <1>29, <1>30,
     <1>31
     DEF Next, AppStep, HelperStep

\* A helper that begins has its arguments and leaves the rest alone.
LEMMA BeginTypes ==
  ASSUME AnetInv, NEW h \in Helper, NEW f \in Flags, NEW six \in BOOLEAN,
         NEW label \in {"resolve", "socket", "accept"}, Begin(h, f, six, label)
  PROVE  TypeOK'
<1>1. TypeOK
  BY DEF AnetInv
<1>2. f.source \in BOOLEAN
  BY DEF Flags
<1>3. helper' = h /\ flags' = f /\ source' = f.source /\ af6' = six /\ pc' = label
  BY DEF Begin
<1>4. UNCHANGED <<s, Resources, kernel, owned, lost>>
  BY DEF Begin
<1>5. /\ totlen' = 0 /\ count' = 0 /\ buf' = 0 /\ result' = 0
      /\ bytes' = <<>> /\ ended' = "no"
  BY DEF Begin, FreshTransfer
<1>6. 0 \in 0..MaxCount /\ <<>> \in Seq(1..MaxCount)
  BY BoundAssumption
<1> QED
  BY <1>1, <1>2, <1>3, <1>4, <1>5, <1>6, BoundAssumption DEF TypeOK, Resources, kernel

\* The types are kept.
LEMMA TypeStep == AnetInv /\ [Next]_vars => TypeOK'
<1> SUFFICES ASSUME AnetInv, [Next]_vars
             PROVE  TypeOK'
  OBVIOUS
<1>0. NoFlags \in Flags
  BY DEF Flags, NoFlags
<1>1. CASE TcpConnect
  <2>1. PICK f \in Flags : Begin("tcpConnect", f, FALSE, "resolve")
    BY ONLY <1>1 DEF TcpConnect
  <2> QED
    BY <2>1, BeginTypes DEF Helper
<1>2. CASE UnixConnect
  <2>1. PICK nb \in BOOLEAN :
             Begin("unixConnect", [NoFlags EXCEPT !.nonblock = nb], FALSE, "socket")
    BY ONLY <1>2 DEF UnixConnect
  <2>2. [NoFlags EXCEPT !.nonblock = nb] \in Flags
    BY ONLY nb \in BOOLEAN DEF Flags, NoFlags
  <2> QED
    BY <2>1, <2>2, BeginTypes DEF Helper
<1>3. CASE TcpServer
  BY <1>3, <1>0, BeginTypes DEF TcpServer, Helper
<1>4. CASE UnixServer
  BY <1>4, <1>0, BeginTypes DEF UnixServer, Helper
<1>5. CASE AnetAccept
  BY <1>5, <1>0, BeginTypes DEF AnetAccept, Helper
<1> USE BoundAssumption DEF AnetInv, CallShape, ListsHeld, TypeOK, Connects,
         Unix, call, kernel, Resources, transfer
<1>6. CASE \E fd \in Fd : AppCloses(fd)
  BY <1>6 DEF AppCloses
<1>7. CASE \E h \in {"read", "write"}, n \in 0..MaxCount : BeginTransfer(h, n)
  <2> PICK h \in {"read", "write"}, n \in 0..MaxCount : BeginTransfer(h, n)
    BY <1>7
  <2>1. pc' = "transfer" /\ helper' = h /\ flags' \in Flags /\ source' = FALSE
        /\ af6' = FALSE
    BY ONLY <1>0, BeginTransfer(h, n) DEF BeginTransfer
  <2>2. UNCHANGED <<s, Resources, kernel, owned, lost>>
    BY ONLY BeginTransfer(h, n) DEF BeginTransfer
  <2>3. /\ totlen' = 0 /\ count' = n /\ buf' = 0 /\ result' = 0
        /\ bytes' = <<>> /\ ended' = "no"
    BY ONLY BeginTransfer(h, n) DEF BeginTransfer, FreshTransfer
  <2>4. 0 \in 0..MaxCount /\ <<>> \in Seq(1..MaxCount)
    OBVIOUS
  <2> QED
    BY <2>1, <2>2, <2>3, <2>4 DEF Helper
<1>8. CASE ResolveFails
  BY <1>8 DEF ResolveFails, ReturnS
<1>9. CASE \E n \in 1..MaxAddrs : Resolves(n)
  BY <1>9 DEF Resolves, Goto
<1>10. CASE SocketFails
  BY <1>10 DEF SocketFails, ReturnS, Goto, AfterAddress
<1>11. CASE \E fd \in Fd : SocketOpens(fd)
  BY <1>11 DEF SocketOpens, Opens
<1>12. CASE \E works \in BOOLEAN : V6Only(works)
  BY <1>12 DEF V6Only, Goto, Close, DropTo
<1>13. CASE \E works \in BOOLEAN : ListenStep(works)
  BY <1>13 DEF ListenStep, Goto, Close, DropTo, ReturnS, Binds, Becomes
<1>14. CASE ReuseAddrSet
  BY <1>14 DEF ReuseAddrSet, Goto, ToConnect
<1>15. CASE ReuseAddrFails
  BY <1>15 DEF ReuseAddrFails, Close, ReturnS, Goto, DropTo
<1>16. CASE NonBlockSet
  BY <1>16 DEF NonBlockSet, Goto, ToConnect
<1>17. CASE NonBlockFails
  BY <1>17 DEF NonBlockFails, ReturnS, Goto
<1>18. CASE SourceFails
  BY <1>18 DEF SourceFails, Goto
<1>19. CASE \E n \in 1..MaxAddrs : SourceResolves(n)
  BY <1>19 DEF SourceResolves, Goto
<1>20. CASE SourceBound
  BY <1>20 DEF SourceBound, Binds, Goto
<1>21. CASE SourceNotBound
  BY <1>21 DEF SourceNotBound, Goto
<1>22. CASE Connected
  BY <1>22 DEF Connected, Becomes, ConnectEnds, ReturnS, Goto
<1>23. CASE InProgress
  BY <1>23 DEF InProgress, Becomes, ConnectEnds, ReturnS, Goto
<1>24. CASE ConnectFails
  BY <1>24 DEF ConnectFails, Close, ReturnS, DropTo, AfterAddress
<1>25. CASE LabelError
  BY <1>25 DEF LabelError, Close, DropTo
<1>26. CASE LabelEnd
  <2>1. lists' \in 0..2
    BY <1>26 DEF LabelEnd
  <2>2. source' \in BOOLEAN
    BY <1>26 DEF LabelEnd
  <2>3. pc' \in {"resolve", "idle"} /\ s' \in Fd \cup {ANET_ERR}
    BY <1>26 DEF LabelEnd, Goto, ReturnS
  <2>4. owned' \in SUBSET Fd
    BY <1>26 DEF LabelEnd, Goto, ReturnS
  <2> QED
    BY <1>26, <2>1, <2>2, <2>3, <2>4 DEF LabelEnd
<1>27. CASE AcceptFails
  BY <1>27 DEF AcceptFails, ReturnS
<1>28. CASE \E fd \in Fd : Accepts(fd)
  BY <1>28 DEF Accepts, Opens, ReturnS
<1>29. CASE TransferComplete \/ TransferStops \/ TransferFails
  BY <1>29 DEF TransferComplete, TransferStops, TransferFails, TransferReturns
<1>30. CASE \E n \in 1..MaxCount : Transfers(n)
  <2> PICK n \in 1..MaxCount : Transfers(n)
    BY <1>30
  <2>1. totlen' \in 0..MaxCount
    BY DEF Transfers
  <2>2. bytes' = [k \in 1..totlen' |-> k]
    BY OrderStep DEF InOrder
  <2>3. bytes' \in Seq(1..MaxCount)
    BY <2>1, <2>2, RunTyped
  <2> QED
    BY <2>1, <2>3 DEF Transfers
<1>31. CASE UNCHANGED vars
  BY <1>31 DEF vars
<1>32. QED
  BY <1>1, <1>2, <1>3, <1>4, <1>5, <1>6, <1>7, <1>8, <1>9, <1>10,
     <1>11, <1>12, <1>13, <1>14, <1>15, <1>16, <1>17, <1>18, <1>19, <1>20,
     <1>21, <1>22, <1>23, <1>24, <1>25, <1>26, <1>27, <1>28, <1>29, <1>30,
     <1>31
     DEF Next, AppStep, HelperStep

\* The inductive invariant holds in every reachable state: it is what the
\* theorems below rest on, since what a helper returns depends on what its
\* socket was made at each step before.
LEMMA InvariantHolds == Spec => []AnetInv
<1>1. AnetInv /\ [Next]_vars => AnetInv'
  BY ShapeStep, ListsStep, SocketStep, AccountedStep, OrderStep, ToldStep, TypeStep
  DEF AnetInv
<1> QED
  BY InitInv, <1>1, PTL DEF Spec

\* Type correctness of the helpers of src/anet.c.
THEOREM TypeCorrect == Spec => []TypeOK
  BY InvariantHolds, PTL DEF AnetInv

\* Every failure path of every helper closes what it opened, except for the two
\* that "lost" records, and none closes a descriptor of the application.
THEOREM Accounted == Spec => []DescriptorsAccounted
  BY InvariantHolds, PTL DEF AnetInv

\* freeaddrinfo is called once for every list that getaddrinfo allocated.
THEOREM AllListsFreed == Spec => []ListsFreed
<1>1. AnetInv => ListsFreed
  BY DEF AnetInv, ListsHeld, ListsFreed
<1> QED
  BY InvariantHolds, <1>1, PTL

\* What a helper returns is what it was asked for.
THEOREM AllReturnAsAsked == Spec => ReturnsAsAsked
<1>1. AnetInv /\ [Next]_vars => [Asked]_vars
  BY ReturnStep
<1> QED
  BY InvariantHolds, <1>1, PTL DEF Spec, ReturnsAsAsked

\* The value anetRead and anetWrite return says, for every count and however the
\* kernel cuts the transfer, whether a call failed, and if none did, how many
\* bytes of the buffer were moved, in order, and whether the kernel stopped early.
THEOREM AllCallersTold == Spec => []CallerTold
  BY InvariantHolds, PTL DEF AnetInv
=============================================================================
