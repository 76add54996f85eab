------------------------------ MODULE MemPool ------------------------------
(***************************************************************************)
(* The node pool of src/mem (mempool.c, mempool.h): a reserve of free      *)
(* nodes kept under a water level, refilled by put_mp_nodes and used by    *)
(* get_mp_nodes when the allocator callback fails.  The callbacks of the   *)
(* caller, alloc and free, are the set `heap' of nodes that are allocated. *)
(* The pool takes no lock itself: its callers bracket their calls with     *)
(* lock_mp and unlock_mp, and a call made of several steps (one callback   *)
(* each) is made by the holder of the lock.                                *)
(***************************************************************************)
EXTENDS Integers, Sequences

CONSTANTS
    Client,       \* the threads that use the pool
    Node,         \* everything the alloc callback can ever return
    MaxLevel,     \* bound on a water level, and on the number of slots
    MaxNodes,     \* the length of a client's array, bound on `nr'
    NullNode,     \* the NULL of a node array
    NoClient      \* the lock is free

ASSUME LevelAssumption == MaxLevel \in Nat /\ MaxNodes \in Nat
ASSUME NullAssumption == NullNode \notin Node /\ NoClient \notin Client

VARIABLES
    phase,     \* "absent", "filling" (inside create_mp) or "live"
    lock,      \* mp->lock: its holder, or NoClient
    wl,        \* mp->wl
    syswl,     \* mp->syswl
    freeNode,  \* mp->freeNode[0..freeCnt-1]; freeCnt is its length
    slotCnt,   \* mp->slotCnt, the capacity of the freeNode array
    noMem,     \* history: smalloc failed when the array had to grow, and no
               \* resize has succeeded since
    heap,      \* the nodes alloc returned and free has not taken
    arr,       \* the array each client passes as `nodes'
    kind,      \* the client is "idle", or inside "get" or "clean"
    want,      \* `nr' of the call in progress, 0 when there is none
    lo, hi,    \* the client holds the nodes at entries lo+1..hi of its array
    before,    \* history: freeCnt when the get in progress began, 0 when
               \* there is none
    strayed    \* history: clean_node_list has put back an entry that the get
               \* it cleans up after had not written

vars == <<phase, lock, wl, syswl, freeNode, slotCnt, noMem, heap,
          arr, kind, want, lo, hi, before, strayed>>
pool == <<phase, wl, syswl, freeNode, slotCnt, noMem, heap>>
call == <<arr, kind, want, lo, hi, before, strayed>>

E_WATER_LEVEL == {"LOW", "MID", "HIGH"}
Entry == 1..MaxNodes

Held(c) == (lo[c] + 1)..hi[c]

TypeOK ==
    /\ phase \in {"absent", "filling", "live"}
    /\ lock \in Client \cup {NoClient}
    /\ wl \in [E_WATER_LEVEL -> 0..MaxLevel]
    /\ syswl \in E_WATER_LEVEL
    /\ freeNode \in Seq(Node)
    /\ slotCnt \in 0..MaxLevel
    /\ noMem \in BOOLEAN
    /\ heap \in SUBSET Node
    /\ arr \in [Client -> [Entry -> Node \cup {NullNode}]]
    /\ kind \in [Client -> {"idle", "get", "clean"}]
    /\ want \in [Client -> 0..MaxNodes]
    /\ lo \in [Client -> 0..MaxNodes]
    /\ hi \in [Client -> 0..MaxNodes]
    /\ before \in [Client -> Nat]
    /\ strayed \in BOOLEAN

Init ==
    /\ phase = "absent"
    /\ lock = NoClient
    /\ wl = [l \in E_WATER_LEVEL |-> 0]
    /\ syswl = "LOW"
    /\ freeNode = <<>>
    /\ slotCnt = 0
    /\ noMem = FALSE
    /\ heap = {}
    /\ arr = [c \in Client |-> [p \in Entry |-> NullNode]]
    /\ kind = [c \in Client |-> "idle"]
    /\ want = [c \in Client |-> 0]
    /\ lo = [c \in Client |-> 0]
    /\ hi = [c \in Client |-> 0]
    /\ before = [c \in Client |-> 0]
    /\ strayed = FALSE

-----------------------------------------------------------------------------
(* The helpers of mempool.c, as operators on the free list.                *)

\* remove_element: the reserve is a stack, and this is its top.
TopNode == freeNode[Len(freeNode)]
WithoutTop(free) == SubSeq(free, 1, Len(free) - 1)

\* A wrong resize_mp that ignores its argument force.
ResizeMpUnforced(slots, cnt, force) ==
    IF slotCnt < slots \/ cnt > slots
    THEN UNCHANGED <<slotCnt, noMem>>
    ELSE \/ slotCnt' = slots /\ noMem' = FALSE
         \/ slotCnt' = slotCnt /\ noMem' = (noMem \/ slots > slotCnt)

\* resize_mp for a water level of `slots' and a reserve of cnt nodes: smalloc
\* gives an array of that size, or it fails and the old array stays.  The
\* memcpy copies as many slots as the new array has and so reads past an
\* array that grows; what it picks up lies in slots above the reserve, which
\* are written before they are read, and is not represented.
ResizeMp(slots, cnt, force) ==
    IF (slotCnt < slots /\ ~force) \/ cnt > slots
    THEN UNCHANGED <<slotCnt, noMem>>
    ELSE \/ slotCnt' = slots /\ noMem' = FALSE
         \/ slotCnt' = slotCnt /\ noMem' = (noMem \/ slots > slotCnt)

\* Wrong forms of Keeps: the water level is not tested, nothing is kept.
KeepsAll(nr) == nr
KeepsNone(nr) == 0

\* put_mp_nodes, how many of nr nodes go to the reserve.
Keeps(nr) ==
    LET lvlCnt == wl[syswl]
    IN  IF Len(freeNode) + nr <= lvlCnt THEN nr ELSE lvlCnt - Len(freeNode)

\* put_mp_nodes, as it changes the pool: the first nodes go to the reserve
\* as far as the water level allows, the rest to the free callback.
PutNodes(nodes) ==
    LET nr == Len(nodes)
    IN  /\ IF Len(freeNode) + nr > slotCnt
           THEN ResizeMp(wl[syswl], Len(freeNode), TRUE)
           ELSE UNCHANGED <<slotCnt, noMem>>
        /\ freeNode' = freeNode \o SubSeq(nodes, 1, Keeps(nr))
        /\ heap' = heap \ {nodes[i] : i \in (Keeps(nr) + 1)..nr}

\* A wrong FreeDownTo that forgets the free callback.
DropDownTo(cnt) ==
    /\ freeNode' = SubSeq(freeNode, 1, IF Len(freeNode) > cnt THEN cnt
                                       ELSE Len(freeNode))
    /\ UNCHANGED heap

\* The loops that free from the top down to cnt nodes (update_syswl,
\* trim_fnode).
FreeDownTo(cnt) ==
    LET left == IF Len(freeNode) > cnt THEN cnt ELSE Len(freeNode)
    IN  /\ freeNode' = SubSeq(freeNode, 1, left)
        /\ heap' = heap \ {freeNode[i] : i \in (left + 1)..Len(freeNode)}

-----------------------------------------------------------------------------
(* create_mp and destroy_mp, called by the thread that owns the pool.      *)

CreateMp(levels) ==
    /\ phase = "absent"
    /\ phase' = "filling"
    /\ lock' = NoClient
    /\ wl' = levels
    /\ syswl' = "LOW"
    /\ slotCnt' = levels["LOW"]
    /\ noMem' = FALSE
    /\ freeNode' = <<>>
    /\ UNCHANGED <<heap, call>>

CreateFill(n) ==
    /\ phase = "filling"
    /\ Len(freeNode) < wl[syswl]
    /\ n \notin heap
    /\ heap' = heap \cup {n}
    /\ freeNode' = Append(freeNode, n)
    /\ UNCHANGED <<phase, lock, wl, syswl, slotCnt, noMem, call>>

CreateDone ==
    /\ phase = "filling"
    /\ Len(freeNode) >= wl[syswl]
    /\ phase' = "live"
    /\ UNCHANGED <<lock, wl, syswl, freeNode, slotCnt, noMem, heap, call>>

\* destroy_mp: every node of the reserve goes to the free callback.
FreeAll ==
    /\ phase' = "absent"
    /\ FreeDownTo(0)
    /\ UNCHANGED <<lock, wl, syswl, slotCnt, noMem, call>>

\* alloc returned NULL: destroy_mp, and create_mp returns NULL.
CreateFail ==
    /\ phase = "filling"
    /\ Len(freeNode) < wl[syswl]
    /\ FreeAll

\* The owner destroys the pool once its users are done with it.
DestroyMp ==
    /\ phase = "live"
    /\ lock = NoClient
    /\ \A c \in Client : Held(c) = {}
    /\ FreeAll

-----------------------------------------------------------------------------
(* lock_mp, trylock_mp (when it succeeds) and unlock_mp.                   *)

LockMp(c) ==
    /\ phase = "live"
    /\ lock = NoClient
    /\ lock' = c
    /\ UNCHANGED <<pool, call>>

UnlockMp(c) ==
    /\ lock = c
    /\ kind[c] = "idle"
    /\ lock' = NoClient
    /\ UNCHANGED <<pool, call>>

-----------------------------------------------------------------------------
(* get_mp_nodes: one step per iteration of its loop, then, when it fails,  *)
(* one per iteration of clean_node_list.                                   *)

CallEnds(c) ==
    /\ kind' = [kind EXCEPT ![c] = "idle"]
    /\ want' = [want EXCEPT ![c] = 0]
    /\ before' = [before EXCEPT ![c] = 0]
    /\ UNCHANGED <<pool, lock, arr, strayed>>

GetBegin(c, nr) ==
    /\ lock = c
    /\ kind[c] = "idle"
    /\ Held(c) = {}
    /\ kind' = [kind EXCEPT ![c] = "get"]
    /\ want' = [want EXCEPT ![c] = nr]
    /\ before' = [before EXCEPT ![c] = Len(freeNode)]
    /\ UNCHANGED <<pool, lock, arr, lo, hi, strayed>>

\* A wrong InGetLoop, with <= for <.
InGetLoopOneMore(c) == kind[c] = "get" /\ hi[c] <= want[c]

InGetLoop(c) == kind[c] = "get" /\ hi[c] < want[c]

Receive(c, n) ==
    /\ arr' = [arr EXCEPT ![c][hi[c] + 1] = n]
    /\ hi' = [hi EXCEPT ![c] = @ + 1]
    /\ UNCHANGED <<kind, want, lo, before, strayed>>

GetAlloc(c, n) ==
    /\ InGetLoop(c)
    /\ n \notin heap
    /\ heap' = heap \cup {n}
    /\ Receive(c, n)
    /\ UNCHANGED <<phase, lock, wl, syswl, freeNode, slotCnt, noMem>>

\* alloc returned NULL and get_resrv_node did not.
GetReserve(c) ==
    /\ InGetLoop(c)
    /\ Len(freeNode) > 0
    /\ Receive(c, TopNode)
    /\ freeNode' = WithoutTop(freeNode)
    /\ UNCHANGED <<phase, lock, wl, syswl, slotCnt, noMem, heap>>

\* Both returned NULL: clean_node_list is called on the whole array.
GetFail(c) ==
    /\ InGetLoop(c)
    /\ Len(freeNode) = 0
    /\ kind' = [kind EXCEPT ![c] = "clean"]
    /\ UNCHANGED <<pool, lock, arr, want, lo, hi, before, strayed>>

GetDone(c) ==
    /\ kind[c] = "get"
    /\ hi[c] >= want[c]
    /\ CallEnds(c)
    /\ UNCHANGED <<lo, hi>>

\* The test at the head of the loop of clean_node_list: it stops at the first
\* NULL, not where the get stopped.
CleanGoesOn(c) == lo[c] < want[c] /\ arr[c][lo[c] + 1] # NullNode

CleanStep(c) ==
    /\ kind[c] = "clean"
    /\ CleanGoesOn(c)
    /\ PutNodes(<<arr[c][lo[c] + 1]>>)
    /\ arr' = [arr EXCEPT ![c][lo[c] + 1] = NullNode]
    /\ lo' = [lo EXCEPT ![c] = @ + 1]
    /\ strayed' = (strayed \/ lo[c] >= hi[c])
    /\ UNCHANGED <<phase, lock, wl, syswl, kind, want, hi, before>>

\* clean_node_list returns, and get_mp_nodes returns SPG_ERR.
CleanDone(c) ==
    /\ kind[c] = "clean"
    /\ ~CleanGoesOn(c)
    /\ CallEnds(c)
    /\ lo' = [lo EXCEPT ![c] = 0]
    /\ hi' = [hi EXCEPT ![c] = 0]

-----------------------------------------------------------------------------
(* put_mp_nodes on the last nr nodes of the client's array, and the water  *)
(* levels.  put_mp_nodes leaves the array as it is: its caller may clear   *)
(* the entries (clears) or not, as do_alloc_free_test in mp_ut.c.          *)

PutMpNodes(c, nr, clears) ==
    /\ lock = c
    /\ kind[c] = "idle"
    /\ nr <= hi[c]
    /\ PutNodes(SubSeq(arr[c], hi[c] - nr + 1, hi[c]))
    /\ hi' = [hi EXCEPT ![c] = @ - nr]
    /\ arr' = IF clears
              THEN [arr EXCEPT ![c] = [p \in Entry |->
                        IF p > hi[c] - nr THEN NullNode ELSE @[p]]]
              ELSE arr
    /\ UNCHANGED <<phase, lock, wl, syswl, kind, want, lo, before, strayed>>

UpdateSyswl(c, level) ==
    /\ lock = c
    /\ kind[c] = "idle"
    /\ level # syswl
    /\ syswl' = level
    /\ FreeDownTo(wl[level])
    /\ IF Len(freeNode) <= wl[level]
       THEN UNCHANGED <<slotCnt, noMem>>
       ELSE ResizeMp(wl[level], wl[level], FALSE)
    /\ UNCHANGED <<phase, lock, wl, call>>

UpdateMpwl(c, levels) ==
    /\ lock = c
    /\ kind[c] = "idle"
    /\ wl' = levels
    /\ FreeDownTo(levels[syswl])
    /\ ResizeMp(levels[syswl], Len(freeNode'), FALSE)
    /\ UNCHANGED <<phase, lock, syswl, call>>

-----------------------------------------------------------------------------
CreateNext ==
    \/ \E levels \in [E_WATER_LEVEL -> 0..MaxLevel] : CreateMp(levels)
    \/ \E n \in Node : CreateFill(n)
    \/ CreateDone
    \/ CreateFail
    \/ DestroyMp

\* The steps inside a call that has begun.
CallStep(c) ==
    \/ \E n \in Node : GetAlloc(c, n)
    \/ GetReserve(c)
    \/ GetFail(c)
    \/ GetDone(c)
    \/ CleanStep(c)
    \/ CleanDone(c)

ClientNext(c) ==
    \/ LockMp(c)
    \/ UnlockMp(c)
    \/ \E nr \in 1..MaxNodes :
        \/ GetBegin(c, nr)
        \/ \E clears \in BOOLEAN : PutMpNodes(c, nr, clears)
    \/ \E level \in E_WATER_LEVEL : UpdateSyswl(c, level)
    \/ \E levels \in [E_WATER_LEVEL -> 0..MaxLevel] : UpdateMpwl(c, levels)
    \/ CallStep(c)

Next == CreateNext \/ \E c \in Client : ClientNext(c)

Spec == Init /\ [][Next]_vars

-----------------------------------------------------------------------------
(* Properties.                                                             *)

\* No node lies in two slots of the reserve.
ReserveDistinct ==
    \A i, j \in 1..Len(freeNode) : freeNode[i] = freeNode[j] => i = j

\* No node is held twice, by one client or by two.
HeldDistinct ==
    \A c, d \in Client : \A p \in Held(c), q \in Held(d) :
        arr[c][p] = arr[d][q] => c = d /\ p = q

\* No node a client holds is in the reserve.
HeldNotReserved ==
    \A c \in Client : \A p \in Held(c) : \A i \in 1..Len(freeNode) :
        arr[c][p] # freeNode[i]

\* The allocated nodes are those in the reserve and those held: none is
\* leaked, and none is used after it went to the free callback.
HeapOwned ==
    \A n \in Node : n \in heap <=>
        \/ \E i \in 1..Len(freeNode) : freeNode[i] = n
        \/ \E c \in Client : \E p \in Held(c) : arr[c][p] = n

\* Every allocated node has exactly one owner, a slot of the reserve or an
\* entry of a client, through failed gets, partial puts, changes of water
\* level and the end of the pool.  It is what free_unit of mp_ut.c tests: that
\* a node is still a node when it comes to the free callback.
Ownership == ReserveDistinct /\ HeldDistinct /\ HeldNotReserved /\ HeapOwned

\* The one way to lose that: a get that fails after fewer nodes than it was
\* asked for, in an array that still has a node put back earlier behind them,
\* for which clean_node_list goes on to its first NULL.  Until that happens
\* every allocated node has exactly one owner, whether clients clear or not.
OwnedUnlessStrayed == ~strayed => Ownership

\* The reserve never exceeds the water level of the system's current level,
\* however levels and system level change between a get and its put: what
\* the assertion of add_element and the arithmetic of put_mp_nodes rely on.
ReserveWithinLevel == phase # "absent" => Len(freeNode) <= wl[syswl]

\* The freeNode array has room for the whole reserve unless smalloc failed
\* when it had to grow: put_mp_nodes "extends node slots when necessary", and
\* stores beyond the array only after resize_mp had no memory for it.
ShortOnlyWithoutMemory == Len(freeNode) > slotCnt => noMem

\* A get that fails gives back all it took: when get_mp_nodes returns
\* SPG_ERR the reserve holds at least as many nodes as when it was called.
FailedGetKeepsReserve ==
    [][\A c \in Client : kind[c] = "clean" /\ kind'[c] = "idle"
            => Len(freeNode') >= before[c]]_vars

-----------------------------------------------------------------------------
(* The inductive strengthening of the invariants above.                    *)

\* Where a client and the pool are in a call: only the holder of the lock is
\* inside one, and what it holds are nodes.
CallShape ==
    /\ lock # NoClient => phase = "live"
    /\ \A c \in Client :
        /\ kind[c] # "idle" => lock = c /\ hi[c] <= want[c]
        /\ kind[c] # "clean" => lo[c] = 0
        /\ hi[c] > 0 => phase = "live"
        /\ \A p \in Held(c) : arr[c][p] \in Node

\* The reserve in each phase of the pool's life.
ReserveShape ==
    /\ phase = "absent" => freeNode = <<>>
    /\ phase = "filling" => slotCnt = wl[syswl]
    /\ ReserveWithinLevel
    /\ ShortOnlyWithoutMemory

\* What a call in progress still owes the reserve it found, it holds.
ReserveOwed ==
    \A c \in Client : kind[c] # "idle" =>
        /\ before[c] <= wl[syswl]
        /\ \/ before[c] <= Len(freeNode)
           \/ before[c] <= Len(freeNode) + hi[c] - lo[c]

\* The inductive invariant of the pool: types, calls and reserve together.
PoolInv == TypeOK /\ CallShape /\ ReserveShape /\ ReserveOwed

\* The inductive invariant of ownership.
OwnershipInv == PoolInv /\ OwnedUnlessStrayed
=============================================================================
