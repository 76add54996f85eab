---------------------------- MODULE OrderedList ----------------------------
(***************************************************************************)
(* What a vector of spg_vector.h promises to its user: a list that keeps   *)
(* the order it was created with, puts an element after those that compare *)
(* equal to it, and can be saved and loaded.  Nothing is said here of      *)
(* memory, of locks or of how the place of an element is found.            *)
(***************************************************************************)
EXTENDS Integers, SequencesExt

CONSTANTS
    Elem,    \* records with at least a field `key'
    NoSave   \* nothing is saved

VARIABLES
    exists,  \* there is a list
    order,   \* "none", "ascend" or "descend"
    items,   \* the elements, first to last
    saved    \* a saved list, or NoSave

vars == <<exists, order, items, saved>>

Order == {"none", "ascend", "descend"}

\* e may stand before f in a list of order o.
MayPrecede(o, e, f) ==
    /\ o = "ascend" => e.key <= f.key
    /\ o = "descend" => e.key >= f.key

InOrder(o, s) == \A i, j \in DOMAIN s : i < j => MayPrecede(o, s[i], s[j])

Init ==
    /\ exists = FALSE
    /\ order = "none"
    /\ items = <<>>
    /\ saved = NoSave

Create(o) ==
    /\ ~exists
    /\ exists' = TRUE
    /\ order' = o
    /\ items' = <<>>
    /\ UNCHANGED saved

\* The element goes where the order allows it, after every element with its
\* key: at the end of a list without order.
Insert(e) ==
    /\ exists
    /\ \E i \in 1..(Len(items) + 1) :
        /\ items' = InsertAt(items, i, e)
        /\ \A j \in i..Len(items) : order # "none" /\ items[j].key # e.key
    /\ InOrder(order, items')
    /\ UNCHANGED <<exists, order, saved>>

Delete(i) ==
    /\ exists
    /\ i \in DOMAIN items
    /\ items' = RemoveAt(items, i)
    /\ UNCHANGED <<exists, order, saved>>

\* The user gives the list up, or it is lost.
Lose ==
    /\ exists' = FALSE
    /\ items' = <<>>
    /\ order' = "none"
    /\ UNCHANGED saved

Save ==
    /\ exists
    /\ saved' = [order |-> order, items |-> items]
    /\ UNCHANGED <<exists, order, items>>

Discard == saved' = NoSave /\ UNCHANGED <<exists, order, items>>

Load ==
    /\ ~exists
    /\ saved # NoSave
    /\ exists' = TRUE
    /\ order' = saved.order
    /\ items' = saved.items
    /\ UNCHANGED saved

Next ==
    \/ \E o \in Order : Create(o)
    \/ \E e \in Elem : Insert(e)
    \/ \E i \in DOMAIN items : Delete(i)
    \/ Lose \/ Save \/ Discard \/ Load

Spec == Init /\ [][Next]_vars
=============================================================================
