------------------------------ MODULE ZMalloc ------------------------------
(***************************************************************************)
(* The allocator of zmalloc.c: malloc with a prefix that holds the size    *)
(* that was asked for, and used_memory, the sum over all blocks, kept by   *)
(* every thread.  An update of used_memory is one step when thread safety  *)
(* was enabled (an atomic instruction, or a mutex) and a load and a store  *)
(* otherwise.  A call is its work on the heap and, one at a time, its      *)
(* updates of used_memory.                                                 *)
(***************************************************************************)
EXTENDS Integers, Sequences, FiniteSets, Functions

CONSTANTS
    Thread,      \* the threads of the process
    Main,        \* the one that runs from the beginning
    Blocks,       \* everything malloc can ever return
    Sizes,       \* the sizes that are asked for
    Word,        \* sizeof(long), and of size_t
    Modulus,     \* one more than the largest size_t
    StartsEarly  \* TRUE: the other threads allocate before safety is enabled

ASSUME ThreadAssumption == Main \in Thread
ASSUME WordAssumption == Word \in Nat \ {0} /\ Modulus \in Nat \ {0}
ASSUME SizesAssumption == Sizes \subseteq 0..(Modulus - 1) /\ Sizes # {}
ASSUME BlockAssumption == IsFiniteSet(Blocks)
ASSUME StartAssumption == StartsEarly \in BOOLEAN

NotAllocated == -1

VARIABLES
    size,                \* per block, what its prefix says, or NotAllocated
    used_memory,
    zmalloc_thread_safe,
    todo,                \* per thread: what its call has still to add
    loaded,              \* per thread: <<used_memory>> between load and store
    busy,                \* per thread: {the block its call works on}
    freeing              \* the threads inside zfree

zmallocVars == <<size, used_memory, zmalloc_thread_safe, todo, loaded, busy, freeing>>

PREFIX_SIZE == Word
SizeT == 0..(Modulus - 1)

TypeOK ==
    /\ size \in [Blocks -> Nat \cup {NotAllocated}]
    /\ used_memory \in SizeT
    /\ zmalloc_thread_safe \in BOOLEAN
    /\ todo \in [Thread -> Seq(Int)]
    /\ loaded \in [Thread -> {<<>>} \cup {<<n>> : n \in SizeT}]
    /\ busy \in [Thread -> SUBSET Blocks]
    /\ freeing \in SUBSET Thread

ZmallocInit ==
    /\ size = [b \in Blocks |-> NotAllocated]
    /\ used_memory = 0
    /\ zmalloc_thread_safe = FALSE
    /\ todo = [t \in Thread |-> <<>>]
    /\ loaded = [t \in Thread |-> <<>>]
    /\ busy = [t \in Thread |-> {}]
    /\ freeing = {}

-----------------------------------------------------------------------------
\* What update_zmalloc_stat_alloc and _free make of their argument.
Aligned(n) == IF n % Word # 0 THEN n + (Word - (n % Word)) ELSE n

\* zmalloc_size(b)
ZmallocSize(b) == Aligned(size[b]) + PREFIX_SIZE

NoCall(t) == todo[t] = <<>> /\ t \notin freeing

\* The thread is there: the others are started after safety was enabled.
Runs(t) == t = Main \/ zmalloc_thread_safe \/ StartsEarly

\* Blocks that no call works on: the application frees a block once, and no
\* two threads at a time pass it to zmalloc.
Unused == {b \in Blocks : \A t \in Thread : b \notin busy[t]}

Allocated == {b \in Blocks : size[b] # NotAllocated}

\* A call of t has done its part on b and will add each of ns.
Begin(t, b, ns) ==
    /\ Runs(t)
    /\ NoCall(t)
    /\ b \in Unused
    /\ busy' = [busy EXCEPT ![t] = {b}]
    /\ todo' = [todo EXCEPT ![t] = ns]
    /\ UNCHANGED <<used_memory, zmalloc_thread_safe, loaded>>

\* A wrong OfMalloc: zmalloc counts what it asked for, zfree what it was given.
OfMallocUnpadded(n) == <<n + PREFIX_SIZE>>

\* The updates of a call, in their order.
OfMalloc(n) == <<Aligned(n + PREFIX_SIZE)>>
\* A wrong OfRealloc: zrealloc counts the prefix again.
OfReallocPrefixed(old, n) == <<-Aligned(old), Aligned(n + PREFIX_SIZE)>>

OfRealloc(old, n) == <<-Aligned(old), Aligned(n)>>
OfFree(old) == <<-Aligned(old + PREFIX_SIZE)>>

\* zmalloc, zcalloc, zrealloc of NULL and zstrdup, when there is memory.  A
\* call that gets NULL from malloc or realloc returns it and changes nothing.
Zmalloc(t, b, n) ==
    /\ b \notin Allocated
    /\ Begin(t, b, OfMalloc(n))
    /\ size' = [size EXCEPT ![b] = n]
    /\ UNCHANGED freeing

\* realloc gives the block its new size where it is; moving it to another
\* address changes nothing here.
Zrealloc(t, b, n) ==
    /\ b \in Allocated
    /\ Begin(t, b, OfRealloc(size[b], n))
    /\ size' = [size EXCEPT ![b] = n]
    /\ UNCHANGED freeing

Zfree(t, b) ==
    /\ b \in Allocated
    /\ Begin(t, b, OfFree(size[b]))
    /\ freeing' = freeing \cup {t}
    /\ UNCHANGED size

\* zfree gives its block back once it was subtracted.
Free(t) ==
    /\ t \in freeing
    /\ todo[t] = <<>>
    /\ size' = [b \in Blocks |-> IF b \in busy[t] THEN NotAllocated ELSE size[b]]
    /\ freeing' = freeing \ {t}
    /\ busy' = [busy EXCEPT ![t] = {}]
    /\ UNCHANGED <<used_memory, zmalloc_thread_safe, todo, loaded>>

\* An update was made; the call returns after its last one, but for zfree.
Updated(t) ==
    /\ todo' = [todo EXCEPT ![t] = Tail(@)]
    /\ busy' = IF t \notin freeing /\ Len(todo[t]) = 1
               THEN [busy EXCEPT ![t] = {}] ELSE busy

\* update_zmalloc_stat_add and _sub.
Update(t) ==
    /\ todo[t] # <<>>
    /\ loaded[t] = <<>>
    /\ zmalloc_thread_safe
    /\ used_memory' = (used_memory + Head(todo[t])) % Modulus
    /\ Updated(t)
    /\ UNCHANGED <<size, zmalloc_thread_safe, loaded, freeing>>

\* used_memory += _n and -= _n
Load(t) ==
    /\ todo[t] # <<>>
    /\ loaded[t] = <<>>
    /\ ~zmalloc_thread_safe
    /\ loaded' = [loaded EXCEPT ![t] = <<used_memory>>]
    /\ UNCHANGED <<size, used_memory, zmalloc_thread_safe, todo, busy, freeing>>

Store(t) ==
    /\ loaded[t] # <<>>
    /\ used_memory' = (Head(loaded[t]) + Head(todo[t])) % Modulus
    /\ loaded' = [loaded EXCEPT ![t] = <<>>]
    /\ Updated(t)
    /\ UNCHANGED <<size, zmalloc_thread_safe, freeing>>

\* Called by the first thread, between its calls.
EnableThreadSafeness ==
    /\ ~zmalloc_thread_safe
    /\ NoCall(Main)
    /\ zmalloc_thread_safe' = TRUE
    /\ UNCHANGED <<size, used_memory, todo, loaded, busy, freeing>>

ZmallocNext ==
    \/ EnableThreadSafeness
    \/ \E t \in Thread :
        \/ \E b \in Blocks :
            \/ \E n \in Sizes : Zmalloc(t, b, n) \/ Zrealloc(t, b, n)
            \/ Zfree(t, b)
        \/ Update(t) \/ Load(t) \/ Store(t) \/ Free(t)

ZmallocSpec == ZmallocInit /\ [][ZmallocNext]_zmallocVars

-----------------------------------------------------------------------------
\* zmalloc_size of every block, and the most that a block can count for.
SizeOf == [b \in Blocks |-> ZmallocSize(b)]
MostFor == [b \in Blocks |->
    Aligned(CHOOSE n \in Sizes : \A m \in Sizes : m <= n) + PREFIX_SIZE]

\* Between calls zmalloc_used_memory is the sum of zmalloc_size over the
\* blocks in use: what was added for a block, by whichever calls gave it its
\* size, is what zfree takes away, and no thread loses the update of another.
UsedExact ==
    (\A t \in Thread : NoCall(t)) =>
        used_memory = SumFunctionOnSet(SizeOf, Allocated)

\* used_memory never wraps around below zero, and no block is counted twice:
\* at no moment, whatever zrealloc and zfree are in progress, has more been
\* subtracted than was added.
NeverWraps == used_memory <= SumFunctionOnSet(MostFor, Blocks)
=============================================================================
