------------------------------- MODULE Vector -------------------------------
(***************************************************************************)
(* The vector of spg_vector.c: an array that is kept in the order given to *)
(* get_vector, grown when it is full, guarded by a read/write lock that    *)
(* its users take themselves (_read_lock, _write_lock, _wr_unlock), and    *)
(* exported to and imported from a pack.  The operations read and write    *)
(* the array only under the lock, as vector_ut.c does, so each is a step.  *)
(* Offsets start at 1 here; 0 is VEC_INFINITE_VAL_32, `not found'.         *)
(***************************************************************************)
EXTENDS Integers, SequencesExt

CONSTANTS
    Thread,     \* the threads that use the vector
    Elem,       \* the values: records with a `key', which is all cmp compares
    InitLens,   \* the vecLen argument of get_vector
    DftLen,     \* DFT_VECTOR_LEN
    AlignMask,  \* VEC_LEN_ALIGN_MASK
    Expand,     \* VEC_SPACE_EXPAND
    MaxUsed,    \* bound on the number of elements
    MaxPack,    \* bound on the number of elements in a pack
    NoThread,   \* the write lock is free
    NoPack      \* no pack was exported

ASSUME ThreadAssumption == NoThread \notin Thread
ASSUME ElemAssumption == \A e \in Elem : e.key \in Int
ASSUME LenAssumption ==
    /\ InitLens \subseteq Nat
    /\ DftLen \in Nat \ {0}
    /\ AlignMask \in Nat \ {0}
    /\ Expand \in Nat \ {0}
    /\ MaxUsed \in Nat
    /\ MaxPack \in Nat

VARIABLES
    phase,    \* "none", "live", or "broken": data was lost to a failed zrealloc
    order,    \* flag_order
    items,    \* data[0..used-1]; `used' is its length
    vecLen,   \* vecLen
    room,     \* how many elements the block `data' has memory for
    writer,   \* the thread that holds the write lock, or NoThread
    readers,  \* the threads that hold a read lock
    found,    \* per thread: the key it looked up and the offset it was given,
              \* or <<>>: what it may use until it changes the vector or unlocks
    pack      \* an exported pack with its data, or NoPack

lock == <<writer, readers>>
vars == <<phase, order, items, vecLen, room, writer, readers, found, pack>>

Order == {"none", "ascend", "descend"}

ASSUME NoPackAssumption ==
    /\ NoPack \notin [order : Order, items : Seq(Elem), vecLen : Nat]
    /\ NoPack \notin [order : Order, items : Seq(Elem)]

Used == Len(items)

TypeOK ==
    /\ phase \in {"none", "live", "broken"}
    /\ order \in Order
    /\ items \in Seq(Elem)
    /\ vecLen \in Nat
    /\ room \in Nat
    /\ writer \in Thread \cup {NoThread}
    /\ readers \in SUBSET Thread
    /\ \A t \in Thread :
        \/ found[t] = <<>>
        \/ found[t] \in [key : Int, at : Nat]
    /\ \/ pack = NoPack
       \/ pack \in [order : Order, items : Seq(Elem), vecLen : Nat]

Init ==
    /\ phase = "none"
    /\ order = "none"
    /\ items = <<>>
    /\ vecLen = 0
    /\ room = 0
    /\ writer = NoThread
    /\ readers = {}
    /\ found = [t \in Thread |-> <<>>]
    /\ pack = NoPack

-----------------------------------------------------------------------------
\* A wrong Aligned: rounds down.
AlignedDown(x) == x - AlignMask

\* ALIGN_OF(x, AlignMask): (x + mask) & ~mask, where the mask is one bit.
Aligned(x) ==
    LET y == x + AlignMask
    IN  IF (y \div AlignMask) % 2 = 1 THEN y - AlignMask ELSE y

\* The length vec_resize asks for.
NewLen == vecLen + (IF 2 * vecLen >= Expand THEN Expand ELSE 2 * vecLen)

\* A wrong Before: a new element goes before those equal to it.
BeforeOrEqual(e, f) ==
    \/ order = "ascend" /\ e.key <= f.key
    \/ order = "descend" /\ e.key >= f.key

\* cmp(e, f) says that the new element e belongs before f.
Before(e, f) ==
    \/ order = "ascend" /\ e.key < f.key
    \/ order = "descend" /\ e.key > f.key

\* find_pos: the first element that e belongs before, or the end.
FindPos(e) ==
    LET i == SelectInSeq(items, LAMBDA f : Before(e, f))
    IN  IF i = 0 THEN Used + 1 ELSE i

\* The first element that compares equal to k, or 0.
FirstEqual(k) == SelectInSeq(items, LAMBDA f : f.key = k)

Holds(t) == writer = t \/ t \in readers

\* The vector can be used: its data is there and was not written past its end.
Usable == phase = "live" /\ Used <= room

Forget(t) == found' = [found EXCEPT ![t] = <<>>]

-----------------------------------------------------------------------------
GetVector(n, o) ==
    /\ phase = "none"
    /\ phase' = "live"
    /\ order' = o
    /\ items' = <<>>
    /\ vecLen' = IF n = 0 THEN DftLen ELSE Aligned(n)
    /\ room' = vecLen'
    /\ UNCHANGED <<lock, found, pack>>

\* The vector is gone: it was freed, or the process that held it.
Gone ==
    /\ phase' = "none"
    /\ order' = "none"
    /\ items' = <<>>
    /\ vecLen' = 0
    /\ room' = 0
    /\ UNCHANGED pack

\* The caller frees a vector nobody holds: destroying a held lock is undefined.
FreeVector ==
    /\ phase # "none"
    /\ Used <= room
    /\ writer = NoThread
    /\ readers = {}
    /\ Gone
    /\ UNCHANGED <<lock, found>>

\* The process ends and starts again; a pack was written out and stays.
ProcessEnds ==
    /\ Gone
    /\ writer' = NoThread
    /\ readers' = {}
    /\ found' = [t \in Thread |-> <<>>]

Restart == phase # "none" /\ ProcessEnds

\* _read_lock, and a _read_trylock that returns 0.
ReadLock(t) ==
    /\ Usable
    /\ ~Holds(t)
    /\ writer = NoThread
    /\ readers' = readers \cup {t}
    /\ UNCHANGED <<phase, order, items, vecLen, room, writer, found, pack>>

\* A wrong WriteLock: a writer does not wait for the readers.
WriteLockAmongReaders(t) ==
    /\ Usable
    /\ ~Holds(t)
    /\ writer = NoThread
    /\ writer' = t
    /\ UNCHANGED <<phase, order, items, vecLen, room, readers, found, pack>>

\* _write_lock, and a _write_trylock that returns 0.
WriteLock(t) ==
    /\ Usable
    /\ ~Holds(t)
    /\ writer = NoThread
    /\ readers = {}
    /\ writer' = t
    /\ UNCHANGED <<phase, order, items, vecLen, room, readers, found, pack>>

Unlock(t) ==
    /\ Used <= room
    /\ Holds(t)
    /\ writer' = IF writer = t THEN NoThread ELSE writer
    /\ readers' = readers \ {t}
    /\ Forget(t)
    /\ UNCHANGED <<phase, order, items, vecLen, room, pack>>

\* do_vec_add asks for memory when the vector is full.
Full == Used = vecLen

\* vecLen keeps its value when the block grows.
Add(t, e) ==
    /\ Usable
    /\ writer = t
    /\ Used < MaxUsed
    /\ room' = IF Full THEN NewLen ELSE room
    /\ items' = InsertAt(items, FindPos(e), e)
    /\ Forget(t)
    /\ UNCHANGED <<phase, order, vecLen, lock, pack>>

\* zrealloc returns NULL: `data' is overwritten with it.
AddFails(t) ==
    /\ Usable
    /\ writer = t
    /\ Full
    /\ phase' = "broken"
    /\ order' = "none"
    /\ items' = <<>>
    /\ vecLen' = 0
    /\ room' = 0
    /\ Forget(t)
    /\ UNCHANGED <<lock, pack>>

\* _find, and _find_get, whose result points into the array at the offset.
Find(t, k) ==
    /\ Usable
    /\ Holds(t)
    /\ found' = [found EXCEPT ![t] = [key |-> k, at |-> FirstEqual(k)]]
    /\ UNCHANGED <<phase, order, items, vecLen, room, lock, pack>>

\* The offsets a caller may pass: vector_ut.c takes one from a _find under an
\* earlier lock, so it may be VEC_INFINITE_VAL_32, or that of another element now.
Offset == 0..MaxUsed

\* An empty vector is left alone, whatever the offset.
Del(t, i) ==
    /\ Usable
    /\ writer = t
    /\ Used = 0 \/ i \in DOMAIN items
    /\ items' = IF Used = 0 THEN items ELSE RemoveAt(items, i)
    /\ Forget(t)
    /\ UNCHANGED <<phase, order, vecLen, room, lock, pack>>

\* An offset outside a vector that is not empty: dbg_assert stops the process,
\* or where it only prints, memmove does, outside the block.
DelOutside(t, i) ==
    /\ Usable
    /\ writer = t
    /\ Used > 0 /\ i \notin DOMAIN items
    /\ ProcessEnds

\* The pack shares the data of the vector: the caller holds the lock until it
\* has written both out.
Export(t) ==
    /\ Usable
    /\ Holds(t)
    /\ pack = NoPack
    /\ Used <= MaxPack
    /\ pack' = [order |-> order, items |-> items, vecLen |-> Aligned(Used)]
    /\ UNCHANGED <<phase, order, items, vecLen, room, lock, found>>

FreePack ==
    /\ pack # NoPack
    /\ pack' = NoPack
    /\ UNCHANGED <<phase, order, items, vecLen, room, lock, found>>

\* The new block has the size of the exported data.
Import ==
    /\ phase = "none"
    /\ pack # NoPack
    /\ phase' = "live"
    /\ order' = pack.order
    /\ items' = pack.items
    /\ vecLen' = pack.vecLen
    /\ room' = Len(pack.items)
    /\ UNCHANGED <<lock, found, pack>>

Next ==
    \/ \E n \in InitLens, o \in Order : GetVector(n, o)
    \/ FreeVector \/ Restart \/ FreePack \/ Import
    \/ \E t \in Thread :
        \/ ReadLock(t) \/ WriteLock(t) \/ Unlock(t)
        \/ \E e \in Elem : Add(t, e) \/ Find(t, e.key)
        \/ AddFails(t) \/ Export(t)
        \/ \E i \in Offset : Del(t, i) \/ DelOutside(t, i)

Spec == Init /\ [][Next]_vars

-----------------------------------------------------------------------------
\* The vector as its users see it.
Abs == INSTANCE OrderedList WITH
    exists <- phase = "live",
    NoSave <- NoPack,
    saved <- IF pack = NoPack THEN NoPack
             ELSE [order |-> pack.order, items |-> pack.items]

\* Every operation, with the lock, the growth of the array and a pack that
\* outlives its vector, does what the ordered list does: an element is added
\* after those that compare equal to it, one is removed, all come back from a
\* pack (do_vec_add with find_pos, do_vec_del, export and import); so a vector with
\* an order is sorted at every moment, which a user that walks it relies on.
ImplementsOrderedList == Abs!Spec

\* What a thread looked up stays right until it unlocks or changes the vector
\* itself: nobody moves an element under the offset or the pointer it holds
\* (do_vec_find, do_vec_find_get against do_vec_add and do_vec_del of others).
FoundStaysValid ==
    \A t \in Thread :
        found[t] # <<>> => found[t].at = FirstEqual(found[t].key)

\* "Expand space." (do_vec_add): a vector never holds more than its block has
\* memory for.  vec_resize does not record the new length in vecLen, so a vector
\* grows once and then never again; and an import may make vecLen larger than the
\* block, or 0.
RoomSuffices == phase = "live" => Used <= room
=============================================================================
