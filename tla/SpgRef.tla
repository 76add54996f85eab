------------------------------- MODULE SpgRef -------------------------------
(***************************************************************************)
(* The reference count of src/include/util/spg_ref.h, shared by threads:   *)
(* atomic_inc_return and atomic_dec_return are one step each, and what     *)
(* atomic_dec_return returned is tested in a step of its own.  Nobody uses *)
(* the object without a reference, or after its release.                   *)
(***************************************************************************)
EXTENDS Integers, FiniteSets

CONSTANT Reference  \* what may refer to the object

VARIABLES
    ref,      \* the counter
    held,     \* the references to the object
    putting,  \* for each that is in ref_put: what atomic_dec_return returned
    freed     \* release was called

vars == <<ref, held, putting, freed>>

Init == ref = 0 /\ held = {} /\ putting = [r \in {} |-> 0] /\ freed = FALSE

\* ref_init: a new object, which its maker refers to.
RefInit(r) ==
    /\ held = {} /\ DOMAIN putting = {}
    /\ ref' = 1
    /\ held' = {r}
    /\ freed' = FALSE
    /\ UNCHANGED putting

\* ref_get, by the holder r for the new reference n.
RefGet(r, n) ==
    /\ ~freed
    /\ r \in held /\ n \in Reference \ (held \cup DOMAIN putting)
    /\ ref' = ref + 1
    /\ held' = held \cup {n}
    /\ UNCHANGED <<putting, freed>>

\* ref_put, up to its test: the count after the decrement.
Decrement(r) ==
    /\ ~freed
    /\ r \in held
    /\ ref' = ref - 1
    /\ held' = held \ {r}
    /\ putting' = [s \in DOMAIN putting \cup {r} |-> IF s = r THEN ref - 1 ELSE putting[s]]
    /\ UNCHANGED freed

Releases(n) == n = 1

\* ref_put from its test on.
Returns(r) ==
    /\ r \in DOMAIN putting
    /\ freed' = (freed \/ Releases(putting[r]))
    /\ putting' = [s \in DOMAIN putting \ {r} |-> putting[s]]
    /\ UNCHANGED <<ref, held>>

Next == \E r \in Reference :
    \/ RefInit(r) \/ Decrement(r) \/ Returns(r)
    \/ \E n \in Reference : RefGet(r, n)

Spec == Init /\ [][Next]_vars

-----------------------------------------------------------------------------
(* Properties.                                                             *)

\* The counter counts the references, however gets and puts interleave.
CountExact == IsFiniteSet(held) /\ ref = Cardinality(held)

\* "Return 1 if the object was removed" (ref_put): the object is removed when
\* nobody refers to it any more.
ReleasedByLast == freed => held = {}

\* What ref_put does instead: the put that will release is the one that leaves
\* one reference, since atomic_dec_return returns the count after the decrement.
LastButOneReleases == [][\A r \in Reference :
    Decrement(r) => (Releases(putting'[r]) <=> Cardinality(held') = 1)]_vars
=============================================================================
