# spongeDB: models, checks and proofs

spongeDB is a C library of the parts of a database server that were finished
before the server itself: a node pool, an event loop, socket helpers, a sorted
vector, a skip list, file objects, a counting allocator.  There is no server
program yet; the components are tied together by the unit tests
(`src/unit_test`), which show how callers are meant to use them.

This directory holds TLA+ models of those components, TLC configurations that
check them on small instances, and TLAPS proofs for every value of the
constants.  `PROJECT.json` has the index: every definition with the lines it
models, every run, every hazard with the properties that would catch it.

    tlc -workers 2 -config MemPool_safety.cfg MCMemPool.tla
    tlapm MemPoolProofs.tla

## 1. The system

| Component | State it keeps | Operations | Hard behaviour | Correct when |
|---|---|---|---|---|
| **mempool** `src/src/mempool.c` | reserve `freeNode[0..freeCnt-1]`, its capacity `slotCnt`, three water levels `wl`, the current `syswl`, a lock that callers take | `create_mp`, `destroy_mp`, `get_mp_nodes`, `put_mp_nodes`, `update_syswl`, `update_mpwl`, `lock_mp`, `trylock_mp`, `unlock_mp`; calls the caller's `alloc` and `free` | a get fails half-way and has to undo; levels change between a get and its put; `resize_mp` may fail silently | every allocated node has one owner; the reserve stays under its water level and inside its array; a failed get costs the reserve nothing |
| **ae, timers** `src/src/ae.c` | list of timers, cached nearest timer, `lastTime`, `stop`, locals of the pass | `aeCreateTimeEvent`, `aeDeleteTimeEvent`, `aeMain`, `aeStop`, `aeProcessEvents`, `processTimeEvents` | callbacks and finalizers call the API in the middle of a scan or a deletion; the clock is set; the poll ends early | the cache never names a freed timer and names the nearest; a pass fires everything that was due; no timer is forgotten |
| **ae, file events** `src/src/ae.c`, `src/src/ae_epoll.src` | table `events[]`, `maxfd`, `setsize`, `fired[]`, the kernel's interest list | `aeCreateFileEvent`, `aeDeleteFileEvent`, `aeResizeSetSize`, `aeApiPoll`, the dispatch loop | handlers register, delete, close and accept while fired events wait; the table is cut and extended | table and kernel agree; `maxfd` exact; no handler gets another connection's data |
| **anet** `src/src/anet.c` | none of its own: descriptors and address lists | connects (blocking, non-blocking, bound, best effort), servers, accepts, `anetRead`, `anetWrite` | any of up to seven system calls may fail, also on the second attempt | nothing leaks; the socket returned is what was asked for |
| **vector** `src/src/spg_vector.c` | array of elements with `used`, `vecLen`, an order, a rwlock that callers take | `_add`, `_find`, `_get`, `_find_get`, `_del`, the locks, `get_vector`, `free_vector`, export and import of a pack | growth and its failure; an offset found under one lock and used under another; elements that compare equal | it is an ordered list; offsets stay valid under a lock; the block has room for `used` |
| **skip list** `src/src/spg_skiplist.c` | a list per level, backward pointers, `tail`, `length`, `level`, node counts per level, lock statistics | `skl_create`, `skl_destroy`, `skl_insert`, `skl_find_get`, `skl_contain`, `skl_flush`, the traversals, lock, trylock | which levels a node joins and leaves, a node that was counted and not allocated | levels are sublists of level 0; same keys as a set; the counts are those in use |
| **wr_file** `src/src/wr_file.c` | per file object a stdio stream and its descriptor; outside, the file and its path | create, open, read, write, append, flush, lock, close, destroy, for three kinds | `access` and `fopen` in two steps, other processes between them; opens that fail; a process that ends with data in its buffer | no NULL stream is used; what was accepted reaches the file once, in order, and stays |
| **zmalloc** `src/src/zmalloc.c` | `used_memory`, `zmalloc_thread_safe`, the prefix of each block | `zmalloc`, `zcalloc`, `zrealloc`, `zfree`, `zstrdup`, `zmalloc_size`, `zmalloc_used_memory` | the counter without its lock; sizes padded and prefixed on the way in and out | the counter is the sum of the blocks |
| **reference counts** `src/include/util/spg_ref.h` | a counter in the object | `ref_init`, `ref_get`, `ref_put` | gets and puts of other holders between the decrement and its test | released once, after the last put |
| **linked lists** `src/include/ds/list.h` | two pointers per head and entry | add, delete, replace, move, rotate, cut, splice, the tests, the loops safe against removal | heads and entries that are each other's neighbours; a body that removes its entry | rings are closed both ways; each operation does to the sequences what its comment says |
| **checksums** `src/src/algo_crc32.c`, `src/src/algo_sha1.c` | the `SHA1_CTX`: state, bit counter, buffer | `get_crc32`; `SHA1Init`, `SHA1Update`, `SHA1Final` | any alignment, any cut into pieces, the carry of the counter, padding that needs a block more | the result depends on the message only |
| locks, atomics, utilities | macros | | | see section 8 |

How they interact: the allocator is under everything; pool, vector and
skip list take locks from `spg_type.h`; `anet` gives descriptors to the
file events of `ae` (`src/unit_test/ut_srv_mirror.c`), whose handlers call back
into `ae` and `anet`; timers and file events share one loop, where the cached
nearest timer decides how long the poll for file events may sleep.

## 2. Modules

| Module | Models | Proofs in |
|---|---|---|
| `MemPool` | mempool, its callers and their lock | `MemPoolProofs` |
| `AeTimer` | the timers, the main loop, the clock | `AeProofs` |
| `AeFile` | file events, epoll and the dispatch | `AeProofs`, last part |
| `Anet` | the socket helpers and the descriptors | `AnetProofs` |
| `OrderedList` | what a vector promises: no memory, no lock, no search | |
| `Vector` | the vector, its rwlock and its packs; implements `OrderedList` | `VectorProofs` |
| `ZMalloc` | the allocator's accounting by several threads | `ZMallocProofs` |
| `WrFile` | file objects of several processes on one path | `WrFileProofs` |
| `LinkedList` | `list.h`, pointer by pointer | `LinkedListProofs` |
| `SkipList` | the skip list, pointer by pointer | `LinkedListProofs`, last part |
| `SpgRef` | the reference count and its holders | `ZMallocProofs`, last part |
| `Checksums` | CRC-32 and SHA-1, fed in pieces | `ChecksumsProofs` |

`MCx` extends module `x` and adds what TLC needs (symmetry sets, element sets); a
`.cfg` is an instance.  `MCUtil` extends four modules that have no variable in
common, `LinkedList`, `SkipList`, `Checksums` and `ZMalloc`, to check them in one
run: a behaviour of `UtilSpec` uses one of them at a time and goes over to another
only from its initial state, so that each takes every step of its own specification
and the state spaces add up instead of multiplying.  A definition whose comment begins with "A wrong ..." is a
plausible bug in the definition after it; it belongs to no specification and
records that the property it is paired with (`mutants` in `PROJECT.json`) would
notice.

### MemPool

`freeNode` is the reserve as a sequence (its length is `freeCnt`), `heap` the
nodes that `alloc` has returned and `free` not taken back, `arr[c]` the array a
client passes as `nodes`, of which it holds entries `lo[c]+1..hi[c]`.  One step
of `get_mp_nodes` is one iteration: `GetAlloc` (the callback answered),
`GetReserve` (it did not, the reserve did) or `GetFail`; `clean_node_list` puts
back one entry per `CleanStep`.  `put_mp_nodes` with its resize, its copy to the
reserve and its frees is the one step `PutMpNodes`, since the caller holds the
lock and no callback observes a half-done put.  `ResizeMp` gives the set of
capacities that may result, two where `smalloc` may fail.

The model takes callers as the repository has them: after a put they clear the
entries of their array or, as the unit test, they do not, and `smalloc` in
`resize_mp` may always return NULL.  Two history variables name what goes wrong
then: `strayed`, when `clean_node_list` puts back an entry that the get it
cleans up after had not written, and `noMem`, when the array had to grow and
`smalloc` failed.

### AeTimer

The list at `timeEventHead` is the set of ids in it: timers are pushed at the
head and ids only grow, so the list is always in decreasing order of ids.
`pc` says which callback or which part of the loop runs.  Every callback may
create and delete timers and call `aeStop`; `finalizing` is the stack of timers
whose finalizer runs, because a finalizer may delete another timer.  `Tick`
advances the clock in any state, `SetClock` sets it.  A second is `MsPerSec`
ticks, so that the arithmetic on seconds and milliseconds in `TimeMissing`,
`Earlier` and the skew test is the code's.  A timer may be armed again with a
period of 0: it then is due again when its callback has returned, and the scan,
which starts again from the head, fires it once more in the same pass.

### AeFile

`open` and `interest` are the kernel's: open descriptors and epoll's interest
list, which a closed descriptor leaves by itself.  `mask`, `procs`, `maxfd` and
`setsize` are the loop's table, with the mask `Garbage` in slots nobody has
initialised, so that a slot `realloc` brings back is seen as such.  `owned` has
the slots whose `clientData` was registered for the connection now open.  The
dispatch of a fired entry has four steps, so that a handler's calls of the API
come between the test for the read handler and the one for the write handler.

### Anet

One step is one system call with one outcome.  `left` and `bleft` count the rest
of the address lists, `lists` the lists allocated, `owned` has the descriptors
the application got, `lost` those that a helper forgot.  The helpers share their
steps (`ReuseAddrFails`, `ListenStep`, ...) and differ in where these lead.
`anetRead` and `anetWrite` take one step per `read` or `write` (`Transfers`) and
have three ends, `TransferComplete`, `TransferStops` and `TransferFails`, with the
value each returns in `result`; `buf` is the pointer the code advances beside
`totlen`, and `bytes` and `ended` record what the kernel did.

### Vector and OrderedList

`items` is `data[0..used-1]`, `room` the number of elements the block has memory
for, which the code does not store, `vecLen` what it stores instead.  `InitLens`,
`DftLen`, `AlignMask` and `Expand` are the numbers of `spg_vector.c` as
constants, so that a block that is too small needs few elements.  Elements are
records of a `key`, which `cmp` compares, and a tag, so that elements that
compare equal can be told apart.  Operations are steps because callers hold the
lock (`vector_ut.c`); `found` is what a thread may still use of a `_find` under
the lock it holds.  `_del` takes any offset, since `vector_ut.c` passes one found
under an earlier lock: an offset outside a vector that is not empty ends the
process (`DelOutside`).  A vector that was written past its block can only be
ended with its process (`Restart`), and so is everything after a failed `zrealloc`
except unlocking and freeing.

`OrderedList` inserts anywhere the order allows behind the equal elements.
`Vector` implements it under `Abs`: a vector whose memory is lost is a list that
does not exist, a pack is a saved list.

### ZMalloc

`todo[t]` is what the call of thread `t` has still to add to `used_memory`, one
padded number per update; an update is `Update` with thread safety and `Load`
followed by `Store` without.  `size` is the prefix of each block.  `Word` and
`Modulus` stand for `sizeof(long)` and the range of `size_t`.

### WrFile

A chunk is one `fwrite`; `data[i]` has the chunks of file `i`, `buf[h]` those in
the stream of object `h`, which stdio may write out at any time (`Spill`).
`file_open` is three steps, `Access`, `FopenW` and `OpenStream`, as other
processes may make, empty or remove the path between them.  `fd` is 0 before the
first open, as `scalloc` leaves it.

### LinkedList

A cell is a `struct list_head`, a head (`Lists`) or one inside an entry
(`Entries`); `links` has the two pointers of each, and every inline function of
`list.h` is an operator from links to links.  `ring` is which cells are in a
ring, since `list_del` leaves pointers behind that nobody may follow.  `walk` is
a safe loop in progress, with its two variables `pos` and `n`; its body may be
any of the operations, on its own entry only.  `View` reads the sequences back
from the pointers, and `SequenceStep` says of each operation what its comment
says of sequences.  `WalkSafe` says of a loop that what it reads next is in use and
that what was on the list when it began and is not yet visited is the beginning
of what lies ahead; entries that the body added may come behind that.

### SkipList

`heap` maps the nodes in use and the head to records with their pointers.
`lvlCnt` starts at any value of `Garbage`, because `skl_create` does not set the
counters that `smalloc` returned; `atStart` and `failed` record what of it belongs
to no node.  `skl_insert` into a list that is not empty stores through a pointer
that was never set (see 6): `SklInsertFaults` ends the process.  The program so
makes no list of more than one node, and what can be asked of the others is
whether that one node, of any height, is put in and taken out on all its levels.

### SpgRef

`held` are the references to the object, of which each is got and put at most
once before it is used again.  `ref_put` is two steps, the atomic decrement and
the test of what it returned, with gets and puts of others in between.

### Checksums

A piece of the message is fed to `get_crc32` and `SHA1Update` together, at every
alignment the former distinguishes.  CRC-32 has its full width, with words as sets
of bits; `Reference` is the bitwise definition.  SHA-1's compression is symbolic:
`ctx.state` is the sequence of blocks it was given, so that two messages have one
digest exactly when the blocks are the same; `Block` and `WordSize` stand for 64
bytes and 2^32.

## 3. Runs

| Run | Instance | Shows |
|---|---|---|
| `mempool_safety` | 2 clients, 4 nodes, levels up to 2, arrays of 2 | `OwnedUnlessStrayed`, `ReserveWithinLevel`, `ShortOnlyWithoutMemory`, `FailedGetKeepsReserve` |
| `mempool_stale` (fails) | 1 client, 3 nodes | `Ownership` breaks, see 6 |
| `aetimer_safety` | 3 timers, fired once or armed again with periods 0 and 3, seconds of 3 ms, clock from 3 to 6, set once | `NoDanglingTimer`, `NearestCached`, `OversleepBounded`, `PassFiresAllDue`, and `TimerEnds` (liveness) |
| `aetimer_cache` (fails) | 2 timers armed again | `CacheIsNearest` breaks, see 6 |
| `aefile_safety` | 3 descriptors, tables of 1 and 2 slots, 2 handlers | `KernelAgrees`, `MaxfdExact`, `SlotsInTable`, `CallsOpenConnection` |
| `anet_safety` | 3 descriptors, lists of 2 addresses, counts to 3 | `DescriptorsAccounted`, `ListsFreed`, `ReturnsAsAsked`, `CallerTold` |
| `vector_safety` | 2 threads, 3 elements of 2 keys, vectors made for 1 and 2 elements, up to 6 in one | `ImplementsOrderedList` (refinement), `FoundStaysValid` |
| `vector_room` (fails) | 1 thread, the same elements and lengths | `RoomSuffices` breaks, see 6 |
| `wrfile_safety` | 2 objects of any kinds, 3 files, 4 chunks | `OpenedNeverFaults`, `AppendedInOrder`, `ChunksStay` |
| `util_safety`: lists | 2 lists, 3 entries | `RingsClosed`, `WalkSafe`, `TestsTellTheList`, `ActsOnSequences` |
| skip list | 2 nodes, 3 keys, heights to 4, one failed `scalloc` per height, counters that start at 0 or 7 | `CountsExact`, `EmptyTakesInserts` |
| allocator | 3 threads, 3 blocks, sizes 0 to 4 in words of 2 | `UsedExact`, `NeverWraps` |
| checksums | messages of up to 9 bytes over two byte values, blocks of 4 | `CrcOfMessage`, `BlocksOfMessage`, `DigestOfPadded` |
| `skiplist_insert` (fails) | 2 nodes, 2 keys, 2 levels | `InsertNeverFaults` breaks, see 6 |
| `spgref_release` (fails) | 2 references | `ReleasedByLast` breaks, see 6 |

Deadlock is checked in every run.  The runs with a type invariant check it too.

### Why the bounds are enough

- *MemPool*: with two clients and arrays of two, the reserve (two) and one array
  hold all four nodes, so that the other client's get fails after taking none or
  one.  Both lists of water levels range over all values from 0 to 2, so that a
  level falls below, to and above what is in the reserve.  TLC checks the states
  in which `strayed` has become true and does not go on from them (`NotStrayed`):
  a node then has two owners, and the reserve may have it twice.
- *AeTimer*: three timers are the one that runs, one its callback deletes and
  one it creates.  Three milliseconds in a second are the fewest for which a
  carry from milliseconds to seconds can round either way, and the clock covers
  two seconds, so that a timer may lie in the past, the present and the next
  second.  One change of the clock may go back or forth to any value.
- *AeFile*: three descriptors and a table of one or two leave one that never
  fits; two handlers are the least that tell `rfileProc` from `wfileProc`.
- *Anet*: one descriptor may be lost, one owned and one worked on; two addresses
  are the least for which a helper goes on to the next and comes to the end.
- *Vector*: blocks of one and two elements grow to three and five, one by
  doubling and one by `Expand`, and six elements go past both.  Two elements of
  one key and one of another are the least for which the place among equals and
  the place in the order differ.
- *ZMalloc*: sizes with and without padding, also 0; one thread per block.
- *WrFile*: two objects race for the path, append side by side, or write over
  each other; each of the three files may be made, removed and replaced once.
- *LinkedList*: with three entries one has neighbours that are both entries, and
  a cut, a splice or a loop has something before, at and behind it; with two
  lists an entry has another list to go to.
- *SkipList*: one node can be in the list; a second one is what the insert that
  faults would have added.  Heights up to four, above, at and below what the list
  had before; a key below, at and above the one that is there.
- *Checksums*: nine bytes from any of four addresses are up to three bytes, one
  or two words and up to three bytes; nine bytes in blocks of four are two blocks
  and a rest, for every rest there is, and the low word of the counter wraps
  twice.

### Fairness

Only `AeTimer` states fairness, in `FairSpec`, which `aetimer_safety` uses.
The loop is one thread and its code does not block outside the poll
(`WF(LoopStep)`, which includes that callbacks and finalizers return); time goes
on (`WF(Tick)`); and an application that has called `aeStop` runs `aeMain` again
or is of no interest (`WF(AeMain)`).  Nothing is assumed about file events: a
poll may always run into its timeout.

The code does not justify that every pass of `processTimeEvents` ends: a timer
whose period is no longer than its callback runs is fired by every restart of the
scan (`src/src/ae.c:414`), and the timers behind it wait as long as it does so.  `TimerEnds`
therefore has this as its antecedent (`PassesEnd`) and the run has such timers: if
passes end, no timer stays due for ever.  Without the antecedent TLC finds the
starvation.

## 4. Proofs

**The pool** (`MemPoolProofs`), for all sets of clients and nodes and all bounds.

- `PoolInvariant`: `PoolInv` is inductive.  `ReserveWithinLevel` is not by
  itself: a put keeps `lvlCnt - freeCnt` nodes, and to bound the reserve after it
  one must know that the reserve was inside its level before (`ReserveShape`),
  that only the lock's holder is inside a call (`CallShape`), and of which type
  the array entries are.  `FailedGetKeepsReserve` needs `ReserveOwed`: what a get
  has taken so far, added to what is in the reserve, is at least what it found.
- `TypeCorrect`, `ReserveBounded` and `FailedGetRestores` follow, and
  `StoresInBounds`: the reserve is larger than its array only when `smalloc` failed
  as the array had to grow, and no later resize has succeeded.  None of the
  theorems assumes anything of `smalloc` or of the callers' arrays.
- `NodesOwnedOnce`: every node has one owner until a `clean_node_list` goes past
  what its get has written.  That is the only way to lose it: the invariant is
  `OwnershipInv`, and the proof has one lemma per action that moves a node.  The
  step of `clean_node_list` needs that the entry it puts back is held, which is
  what `~strayed'` says.

**The timers** (`AeProofs`), for any number of timers, any delays and
periods, any clock and a second of any length.  `TimerInv` joins four parts:
`IdShape` (ids grow), `CacheShape` (the cache is empty only if the list is, and
names a timer of the list or of a finalizer that runs), `CacheNearest` and
`PassShape`.  `NearestCached` is not inductive alone: between the removal of the
cached timer and the end of its finalizer the cache names a timer outside the
list, whose callbacks may already create new ones, so the part says that nothing
is earlier than the cached timer also then.  `PassFiresAllDue` needs that what is
still to be fired lies ahead of the cursor, or will when the scan restarts.
`OversleepAlwaysBounded` adds `PollShape`, which follows the timeout through the
poll; the arithmetic of seconds and milliseconds is in `StampMonotone`,
`TicksInOrder` and `TimeMissingValue`.

**The file events** (`AeProofs`, last part), for all numbers of descriptors, table sizes
and handlers.  `TableInv` is inductive: to `KernelAgrees` and `MaxfdExact` it adds
that no slot of the table is uninitialised (which a table cut and extended again
relies on `aeResizeSetSize` for), that the dispatch stands on an entry of `fired`
that is in the table (`DispatchShape`), and that data belong to open connections
only.  `LargestFound` is the search for the new `maxfd` in `aeDeleteFileEvent`.

**The vector** (`VectorProofs`), for all threads, elements, lengths and both
orders.  `VectorIsOrderedList` is the refinement: the initial state is the list's,
every step is a step of the list or leaves it as it is.  An insertion is one of
the list's because `find_pos` returns the first place whose element the new one belongs
before (`FindPosProperties`) and the vector was sorted until then (`OrderShape`,
which is why the invariant is needed, also for the pack that an import takes up).
`FoundAlwaysValid` needs that whoever has found something holds the lock and that
a writer is alone (`LockShape`, `WriterForgets`).  `RoomSuffices` is false (see 6)
and nothing weaker is proved in its place.

**The socket helpers** (`AnetProofs`), for all numbers of descriptors, addresses
and bytes.  `AnetInv` joins where each helper can be (`CallShape`), which lists
it holds there (`ListsHeld`), what its socket was made so far (`SocketSoFar`) and
the accounting.  `Accounted`, `AllListsFreed`, `AllReturnAsAsked`,
`AllCallersTold` and `TypeCorrect` follow.  The last but one needs that `buf` and
`totlen`, which the code advances one by one, stay together, and that what the
kernel moved in a call is a prefix of the buffer of that length (`LongerRun` is
the lemma on sequences); each of the three returns then tells its caller the truth.

**The lists** (`LinkedListProofs`), for any finite number of heads and entries.
What `View` reads is a recursion along the pointers, so `RingsClosed` says too
little to reason about it: two heads could be in one ring.  The invariant
`Sequenced` says that from each head in use the next pointers lead through its
sequence and back to it, the prev pointers the same way backwards (`Fits`), and
that every other entry in use is a ring of its own.  That no entry is in two
places follows (`Apart`: going back from it leads to one head, by so many steps),
and so no walk is longer than there are cells, and `From` computes the sequence
(`WalkIs`).  Each function of `list.h` then is a path cut in two, with the
pointers across the cut changed (`Inserted`, `Bridged`, `CutAt`, `JoinedAt`), and
nothing else (`Touches`, `FitsChanged`).  From it follow `RingsStayClosed`,
`TestsAlwaysTell` and the action property `AlwaysActsOnSequences`.
`WalksAlwaysSafe` adds `WalkInv`: the list, read in the direction of the loop, is
what the loop has behind it, what it has still to visit, and what came later
(`Ahead`); the body's own entry is in the first or in the last part, never in the
second, and is not what the loop reads next.

**The skip list** (`LinkedListProofs`, last part), for all nodes, keys and
heights.  As an insertion into a list that is not empty ends the process, the
invariant `SklInv` can name the two shapes a list has, pointer by pointer
(`Shape`); the theorems are about these and say nothing of longer lists, which the
program does not make.  `EmptyAlwaysTakesInserts`: an insert that faults met a
list with a node, since a removal or a flush leaves no level behind.
`SkipListCountsExactly`: the counters are the nodes in use, and besides what
`smalloc` left in them and the nodes `scalloc` did not give (`Statistics`).  What
a walk or a search returns is a recursive function; the proof gives the table of
its values for both shapes and shows by induction that it is that function.

**The file objects** (`WrFileProofs`), for any processes, objects, files, chunks
and reads.  `AppendedInOrder` says nothing of what is still in a buffer, so the
invariant says which chunk may be where (`Sound`): what an object has in its
buffer is its own, in the order of its calls and younger than all that it has in
files.  `Streams` ties the stream to the state of the object, from which
`OpenedNeverFault` follows, and `Races` says that whoever is about to empty a
file that is there lost the race for its name.  `ChunksAlwaysStay` has three
excuses, and no other way to lose a chunk: that race; the end of a process that
still has the chunk in its buffer; and a random write that leaves its buffer for
the chunk's own position (`Overwrites`).  What a buffer makes of a file is a fold
over its entries, hence the lemmas on folds; `DrainLoses` says which chunk of the
file a fold replaces.

**The allocator** (`ZMallocProofs`), for any threads, blocks, sizes and width of
the counter.  The invariant says that there is a function from blocks to what
is counted for each, whose sum is `used_memory`; each update changes it at the
block of its call only, and leaves it between 0 and the most a block can count
for.  From it follow `MemoryNeverWraps` and `MemoryIsExact`; the facts on sums
over finite sets come first.  Both are about programs whose other threads start
after `zmalloc_enable_thread_safeness` (`~StartsEarly`), and the second about
sums that fit in a `size_t` (`InUse < Modulus`): the code counts modulo its
range, and with more in use the counter cannot have the sum.

**Reference counts** (`ZMallocProofs`, from `Ref` on): `AlwaysCounts`, the
counter is the number of references however gets and puts interleave, and from it
`RemovesUnderLastHolder`: what the code does is to remove the object when one
reference is left.

**Checksums** (`ChecksumsProofs`), for every set of bytes, every size of a block
from three bytes on and of a word of the counter that `SizeAssumption` and
`PieceAssumption` allow; with the code's sizes, for messages of up to 2^32 - 64
bytes.

- `CrcIsOfMessage`.  Words are sets of bits and `Xor` is their symmetric
  difference, so that shifts and a bit of the reference are linear (`BitXor`,
  `EightXor`), and bits above the lowest eight only move (`EightHigh`).  Hence
  what the four tables hold (`Tables`), that `STEP1` is a byte of the reference
  (`Step1Is`), and that `load_le_uint` and the four look-ups of `STEP4` are four
  bytes of it (`LoadIs`, `LookUps`, `Step4Is`).  The folds are passes along the
  bytes (`Along`), which can be joined, moved to another buffer, and have one
  result (`AlongJoin`, `AlongShift`, `AlongOnce`); a pass over words is one over
  their bytes (`Grouped`), so neither the alignment nor the cuts matter.
- `BlocksAlwaysOfMessage`.  The invariant is `Ctx`: the state has the whole blocks
  of the message, the two words of the counter its bits, the buffer the rest.
  `BlocksOfMessage` alone would not do, as it leaves open that a word of the
  counter is out of its range, and then the carry is wrong.  `UpdateFull` and
  `UpdatePart` are the two branches of `SHA1Update`, `CountedIs` the carry, and
  `OffsetIs` that the low word alone gives the offset in the block, because it
  wraps after whole blocks.
- `DigestAlwaysOfPadded`.  After k rounds the loop of `SHA1Final` has the context of
  the message, the byte 0x80 and at most k zeros, and stopped adding them at the
  first length that leaves room; one of `Block` lengths in a row does
  (`RoomIsFound`).  The compression of a block stays symbolic.

Searches, recursion and sums all come down to two facts that the modules derive
from the well-foundedness of `<`: a set of numbers that is not empty has a least
element (`LeastNat`), and a set that has 0 and with each number the next has all
(`Induction`).

Assumptions: those in the modules' `ASSUME`s, which TLC evaluates for each
instance.  `NoPackAssumption` of `Vector` says that the value for "no pack" is no
pack.

**Only model-checked**: the liveness of timers (`TimerEnds`; fairness and ENABLED
are out of the prover's reach).  Every other property of a passing run is stated by
a theorem.

## 5. Assumptions on callers

The code relies on them and the models hold callers to them.

- Pool functions are called with the lock held, `create_mp` and `destroy_mp`
  while nobody else uses the pool; a get is not started on an array that still
  holds nodes.
- A `timeProc` that has deleted its own timer returns `AE_NOMORE`
  (`src/src/ae.c:406` writes to the timer otherwise); `aeMain` is not nested.
- A connection that is closed is also removed with `aeDeleteFileEvent`, and
  `aeResizeSetSize` is not called from a handler (`src/src/ae.c:492`: the dispatch
  would go on over arrays that were reallocated and perhaps cut).
- A vector is used under its lock and freed when nobody holds it; a pack is
  written out, with its data, before the lock is released, because it shares
  the data of the vector.
- Other threads allocate after `zmalloc_enable_thread_safeness` was called
  (`StartsEarly = FALSE`; with `TRUE`, `UsedExact` fails).  A block is freed once
  and by one thread.
- A file object is opened only when it is closed: a second open would lose the
  stream of the first.
- A list entry is added when it is on no list, and deleted when it is on one; a
  head that was spliced away without `_init` is initialised before it is used
  again; the body of a safe loop takes off no entry but its own.
- The skip list is used by one thread at a time, which its `skl_trylock` does not
  give (see 6).
- An object is used under a reference only, and not after its release.
- One piece of data for `SHA1Update` is shorter than 2^32 - 64 bytes
  (`src/src/algo_sha1.c:138` adds its length to an offset in 32 bits).

## 6. Where code and comments disagree

Five runs are expected to fail; each shows one of these.

- `mempool_stale`: a get that fails calls `clean_node_list` on the whole array
  (`src/src/mempool.c:132`), which takes "if (nodes[idx] == NULL)" for its end
  (106).  `do_alloc_free_test` of `mp_ut.c` uses one array round after round and
  never clears it, so entries put back in an earlier round go to the pool again, and
  a node gets two owners.  (Before the first round the array is not even
  initialised; the model begins with NULLs.)  `OwnedUnlessStrayed` is what remains
  true.
- `aetimer_cache`: "Search the first timer to fire" (`src/src/ae.c`,
  `aeSearchNearestTimer`): a periodic timer that is cached is compared with itself
  when it is armed again (`src/src/ae.c:73-80`, called at 408), so it stays cached
  although another timer is now nearer, and that one fires late.  `NearestCached`
  is what remains true.
- `vector_room`: "Expand space." (`src/src/spg_vector.c:114`) calls `vec_resize`
  when `used == vecLen`, but `vec_resize` does not change `vecLen` (74-85): after
  one growth the test never holds again and the vector outgrows its block.  The
  same happens to a vector imported from a pack, whose block is of `used` elements
  while its `vecLen` may be up to `AlignMask` more, or 0, from which it cannot grow
  (305, 332).
- `skiplist_insert`: `skl_insert` fills `prev[]` only for the levels above those of
  the list (`src/src/spg_skiplist.c:298` follows the others), so every insertion
  into a list that is not empty ends the process, where `skiplist_ut.c` inserts one
  key after the other.  `EmptyTakesInserts` is what remains true.
- `spgref_release`: `ref_put` releases when the count after its decrement is 1
  (`src/include/util/spg_ref.h:32`): of two holders the first one's put removes
  the object under the other, and an object with one holder is never removed.
  `RemovesUnderLastHolder` proves that this is always so.

Seen while modelling and not kept as runs:

- `put_mp_nodes` stores past the array when `resize_mp` could not extend it
  (`src/src/mempool.c:41`, 146); `mempool_safety` has these states, and
  `ShortOnlyWithoutMemory` says there are no others.  When the array grows,
  `resize_mp` copies as many slots as the new array has and so reads past the old
  one (44); what it picks up is overwritten before it is used.
- A timer that is due again when its callback returns keeps the pass going
  (`src/src/ae.c:414`); the test of `maxId`, "in order to don't loop forever", keeps
  only new timers out.
- For a timer that is overdue the loop still sleeps for the difference of the
  millisecond parts, up to 999 ms (`src/src/ae.c:463-474`): `OversleepBounded` is
  what remains true.
- The test "if the event is still valid" (`src/src/ae.c:497-504`) looks at the
  slot only: a descriptor closed and accepted again during the dispatch gets the
  events of the connection before it.  `CallsOpenConnection` is what remains true.
- `aeResizeSetSize` refuses `maxfd >= setsize`; its comment also excludes
  `maxfd = setsize - 1` (`src/src/ae.c:152-155`, 164).
- Two descriptors leak: in `_anetTcpServer` when `SO_REUSEADDR` fails
  (`src/src/anet.c:499`) and in `anetUnixGenericConnect` when `O_NONBLOCK` does
  (389).  `lost` records them, `DescriptorsAccounted` shows there are no others.
- `anetRead` and `anetWrite` return -1 when a later `read` or `write` fails, so that
  the caller does not learn how many bytes were moved before
  (`src/src/anet.c:423`, 440); `anetWrite` returns less than `count` when `write`
  returns 0 (438), which its comment does not name.  `CallerTold` is what a caller
  can rely on.
- A file object that was never opened has `fd` 0, so that closing or destroying
  it calls `fclose(NULL)` (`src/src/wr_file.c:130`, 492); `_rf_close` does so
  when called twice (236), and `file_open` when it cannot create the file (42).
- `file_open` empties a file that another process has made after its `access`
  (`src/src/wr_file.c:40-41`); it is one of the three excuses of `ChunksStay`.
- `skl_destroy` frees a pointer into the middle of a block
  (`src/src/spg_skiplist.c:268`).  `skl_trylock` returns the opposite of its result
  (215), and `skl_unlock` updates the statistics after the lock is free.
- The node counts of the skip list start from what `smalloc` left in them
  (`src/src/spg_skiplist.c:234`), and a node is counted before it is known whether
  `scalloc` gave one (57); `CountsExact` has both as terms of its sum, so it is no
  promise that the printed counts are right.

## 7. Plan

What is left, in this order:

1. A composition of `Anet` and `AeFile`: descriptors of one are the other's
   slots.
2. An abstract pool, a bag of free nodes with a level, that `MemPool` implements.
3. Proofs about those two.

## 8. Not modelled

- The lock functions of `wr_file.c`: they pass `fcntl` a `struct flock` whose
  range was never set, so what they lock is not determined by the code.  Partial
  `fwrite`s, the device errors of `fflush`, and what reads return.
- `zmalloc_get_rss` and the `smaps` reader: they parse files of `/proc`.
- The lock of the skip list with its times, and its printing functions.
- Locks and atomics (`spg_type.h`, `spg_atomic.c`): macros over pthread and
  compiler primitives; they are the atomic steps of the models.
- The hash lists (`hlist_*`) in the second half of `list.h`, which nothing in the
  repository uses, and `list_safe_reset_next`.
- The rounds of SHA-1's compression: arithmetic, covered by test vectors.
- The `anet` wrappers of a single `setsockopt`, `getsockname` or resolver call;
  `aeWait` and `aeDeleteEventLoop`; allocation failure in `aeCreateEventLoop`.
- Logging, formatting, empty stubs (`paxos_test.h`, `spg_memcache.h`).
