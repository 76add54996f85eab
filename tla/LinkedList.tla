----------------------------- MODULE LinkedList -----------------------------
(***************************************************************************)
(* The circular doubly linked lists of src/include/ds/list.h: a struct     *)
(* list_head is a cell with two pointers, a list is a head with the        *)
(* entries that are reached from it.  One thread, as nothing in list.h     *)
(* takes a lock.  Callers keep to what the comments ask of them: an entry  *)
(* is added when it is on no list, what is removed is on one, and the body *)
(* of a loop that is "safe against removal of list entry" removes no other *)
(* entry than its own.                                                     *)
(***************************************************************************)
EXTENDS Integers, SequencesExt

CONSTANTS
    Lists,    \* the struct list_heads that are heads of lists
    Entries,  \* the struct list_heads that are embedded in entries
    Null      \* a NULL pointer

Cells == Lists \cup Entries

ASSUME CellsAssumption ==
    Lists \cap Entries = {} /\ Null \notin Cells /\ IsFiniteSet(Cells)

VARIABLES
    links,    \* [next |-> the next pointers, prev |-> the prev pointers]
    ring,     \* the cells in a ring: heads, entries on a list, entries that
              \* were deleted and initialised again
    walk      \* a list_for_each_*safe* loop, see Idle

vars == <<links, ring, walk>>

Links == [next : [Cells -> Cells \cup {Null}], prev : [Cells -> Cells \cup {Null}]]
Dirs == {"next", "prev"}

\* No loop runs.  Otherwise head and dir say over which list and which way, pos
\* and n are its loop variables, todo is a history variable: what was on the
\* list when the loop began and is still to be visited.
Idle == [head |-> Null, dir |-> "next", pos |-> Null, n |-> Null, todo |-> <<>>]

Walking == walk.head # Null

-----------------------------------------------------------------------------
(* The inline functions, on l \in Links.                                   *)

\* INIT_LIST_HEAD.
InitHead(l, c) == [next |-> [l.next EXCEPT ![c] = c], prev |-> [l.prev EXCEPT ![c] = c]]

\* A wrong LinkBetween that leaves out next->prev = new.
LinkOneWay(l, new, p, n) ==
    [next |-> [l.next EXCEPT ![new] = n, ![p] = new],
     prev |-> [l.prev EXCEPT ![new] = p]]

\* __list_add.
LinkBetween(l, new, p, n) ==
    [next |-> [l.next EXCEPT ![new] = n, ![p] = new],
     prev |-> [l.prev EXCEPT ![n] = new, ![new] = p]]

\* __list_del, __list_del_entry.
Bridge(l, e) ==
    [next |-> [l.next EXCEPT ![l.prev[e]] = l.next[e]],
     prev |-> [l.prev EXCEPT ![l.next[e]] = l.prev[e]]]

\* list_add and list_add_tail.
Added(l, e, h) == LinkBetween(l, e, h, l.next[h])
AddedTail(l, e, h) == LinkBetween(l, e, l.prev[h], h)

\* list_del: the entry is left with NULL pointers.
Deleted(l, e) ==
    LET b == Bridge(l, e)
    IN  [next |-> [b.next EXCEPT ![e] = Null], prev |-> [b.prev EXCEPT ![e] = Null]]

\* list_replace.
Replaced(l, old, new) ==
    LET n == l.next[old]
        p == IF n = old THEN new ELSE l.prev[old]
    IN  [next |-> [l.next EXCEPT ![new] = n, ![p] = new],
         prev |-> [l.prev EXCEPT ![n] = new, ![new] = p]]

\* __list_cut_position.
Cut(l, list, h, e) ==
    LET rest == l.next[e]
    IN  [next |-> [l.next EXCEPT ![list] = l.next[h], ![e] = list, ![h] = rest],
         prev |-> [l.prev EXCEPT ![l.next[h]] = list, ![list] = e, ![rest] = h]]

\* __list_splice, between p and n.
Joined(l, list, p, n) ==
    [next |-> [l.next EXCEPT ![p] = l.next[list], ![l.prev[list]] = n],
     prev |-> [l.prev EXCEPT ![l.next[list]] = p, ![n] = l.prev[list]]]

\* list_empty, list_empty_careful, list_is_last, list_is_singular.
ListEmpty(l, h) == l.next[h] = h
ListEmptyCareful(l, h) == l.next[h] = h /\ l.prev[h] = h
ListIsLast(l, e, h) == l.next[e] = h
\* A wrong ListIsSingular that forgets the empty list.
ListAtMostOne(l, h) == l.next[h] = l.prev[h]
ListIsSingular(l, h) == ~ListEmpty(l, h) /\ l.next[h] = l.prev[h]

-----------------------------------------------------------------------------
(* What callers know.                                                      *)

\* The k-th cell after c, and the entries from c on until head h, if h is
\* reached.
Nth(l, dir, c) ==
    LET f[k \in 0..Cardinality(Cells)] ==
            IF k = 0 THEN c
            ELSE IF f[k - 1] = Null THEN Null ELSE l[dir][f[k - 1]]
    IN  f
From(l, dir, c, h) ==
    LET f == Nth(l, dir, c)
        ends == {k \in DOMAIN f : f[k] = h}
    IN  IF ends = {} THEN <<Null>>
        ELSE [i \in 1..(CHOOSE k \in ends : \A j \in ends : k <= j) |-> f[i - 1]]

ListOf(l, dir, h) == From(l, dir, l[dir][h], h)
On(h) == ListOf(links, "next", h)

\* On no list: it may be added, or be a list that is overwritten.
Loose(c) == c \notin ring \/ links.next[c] = c

Used(h) == h \in Lists \cap ring
InUse(e) == e \in Entries \cap ring

\* What the body of a loop may take off: its own entry.
MayTake(e) == InUse(e) /\ (Walking => e = walk.pos)

Init ==
    /\ links = [next |-> [c \in Cells |-> IF c \in Lists THEN c ELSE Null],
                 prev |-> [c \in Cells |-> IF c \in Lists THEN c ELSE Null]]
    /\ ring = Lists
    /\ walk = Idle

-----------------------------------------------------------------------------
(* The operations.                                                         *)

InitListHead(h) ==
    /\ ~Walking /\ h \in Lists /\ Loose(h)
    /\ links' = InitHead(links, h)
    /\ ring' = ring \cup {h}
    /\ UNCHANGED walk

ListAdd(e, h) ==
    /\ e \in Entries /\ Loose(e) /\ Used(h)
    /\ links' = Added(links, e, h)
    /\ ring' = ring \cup {e}
    /\ UNCHANGED walk

ListAddTail(e, h) ==
    /\ e \in Entries /\ Loose(e) /\ Used(h)
    /\ links' = AddedTail(links, e, h)
    /\ ring' = ring \cup {e}
    /\ UNCHANGED walk

ListDel(e) ==
    /\ MayTake(e)
    /\ links' = Deleted(links, e)
    /\ ring' = ring \ {e}
    /\ UNCHANGED walk

\* A wrong list_del_init that leaves the entry's own pointers.
ListDelOnly(e) ==
    /\ MayTake(e)
    /\ links' = Bridge(links, e)
    /\ UNCHANGED <<ring, walk>>

ListDelInit(e) ==
    /\ MayTake(e)
    /\ links' = InitHead(Bridge(links, e), e)
    /\ UNCHANGED <<ring, walk>>

\* A head or an entry; init is list_replace_init.
ListReplace(old, new, init) ==
    /\ ~Walking
    /\ \E S \in {Lists, Entries} : old \in S \cap ring /\ new \in S \ {old} /\ Loose(new)
    /\ LET l == Replaced(links, old, new)
       IN  links' = IF init THEN InitHead(l, old) ELSE l
    /\ ring' = IF init THEN ring \cup {new} ELSE (ring \cup {new}) \ {old}
    /\ UNCHANGED walk

ListMove(e, h) ==
    /\ MayTake(e) /\ Used(h) /\ h # walk.head
    /\ links' = Added(Bridge(links, e), e, h)
    /\ UNCHANGED <<ring, walk>>

ListMoveTail(e, h) ==
    /\ MayTake(e) /\ Used(h) /\ h # walk.head
    /\ links' = AddedTail(Bridge(links, e), e, h)
    /\ UNCHANGED <<ring, walk>>

ListRotateLeft(h) ==
    /\ ~Walking /\ Used(h)
    /\ LET first == links.next[h]
       IN  links' = IF ListEmpty(links, h) THEN links
                    ELSE AddedTail(Bridge(links, first), first, h)
    /\ UNCHANGED <<ring, walk>>

\* s has the cell after h and, with a cell other than e, the one after it.
Follows(l, h, e, s) ==
    /\ l.next[h] \in s
    /\ \A c \in s \ {e} : l.next[c] \in s

\* part is what lies behind the head h up to its entry e.
UpTo(l, h, e, part) ==
    /\ e \in part /\ l.next[e] \notin part
    /\ Follows(l, h, e, part)
    /\ \A s \in SUBSET part : Follows(l, h, e, s) => s = part

\* list_cut_position: the caller knows that e is on the list h, or gives h.  An
\* empty h leaves list as it was, also when it was never initialised.
ListCutPosition(list, h, e) ==
    /\ ~Walking /\ Used(h)
    /\ list \in Lists \ {h} /\ Loose(list)
    /\ e = h \/ \E part \in SUBSET (Entries \cap ring) : UpTo(links, h, e, part)
    /\ \/ /\ ListEmpty(links, h) \/ (ListIsSingular(links, h) /\ e \notin {h, links.next[h]})
          /\ UNCHANGED <<links, ring>>
       \/ /\ ~ListEmpty(links, h)
          /\ links' = IF e = h THEN InitHead(links, list) ELSE Cut(links, list, h, e)
          /\ ring' = ring \cup {list}
    /\ UNCHANGED walk

\* list_splice and list_splice_tail, and with init their _init forms.  Without
\* it the spliced head keeps its pointers and must be initialised before use.
ListSplice(list, h, tail, init) ==
    /\ ~Walking /\ Used(h) /\ Used(list) /\ list # h
    /\ \/ /\ ListEmpty(links, list)
          /\ UNCHANGED <<links, ring>>
       \/ /\ ~ListEmpty(links, list)
          /\ LET l == IF tail THEN Joined(links, list, links.prev[h], h)
                      ELSE Joined(links, list, h, links.next[h])
             IN  links' = IF init THEN InitHead(l, list) ELSE l
          /\ ring' = IF init THEN ring ELSE ring \ {list}
    /\ UNCHANGED walk

\* list_for_each_safe and its forms over entries begin at the head; the
\* _continue and _from forms after an entry that the caller has.
WalkBegin(h, dir, from) ==
    /\ ~Walking /\ Used(h)
    /\ from = h \/ from \in ToSet(On(h))
    /\ LET first == links[dir][from]
       IN  walk' = [head |-> h, dir |-> dir, pos |-> first, n |-> links[dir][first],
                    todo |-> From(links, dir, first, h)]
    /\ UNCHANGED <<links, ring>>

\* A wrong step that reads the next entry from the one the body was for.
WalkNextUnsafe ==
    /\ Walking /\ walk.pos # walk.head
    /\ LET pos == links[walk.dir][walk.pos]
       IN  walk' = [walk EXCEPT
               !.pos = pos,
               !.n = IF pos = Null THEN Null ELSE links[walk.dir][pos],
               !.todo = RemoveFirst(@, walk.pos)]
    /\ UNCHANGED <<links, ring>>

\* The body for pos has run: pos = n, and the new n is read from it.
WalkNext ==
    /\ Walking /\ walk.pos # walk.head
    /\ walk' = [walk EXCEPT !.pos = walk.n, !.n = links[walk.dir][walk.n],
                            !.todo = RemoveFirst(@, walk.pos)]
    /\ UNCHANGED <<links, ring>>

WalkEnd ==
    /\ Walking /\ walk.pos = walk.head
    /\ walk' = Idle
    /\ UNCHANGED <<links, ring>>

Next ==
    \/ \E h \in Lists : InitListHead(h) \/ ListRotateLeft(h)
    \/ \E e \in Entries :
        \/ ListDel(e) \/ ListDelInit(e)
        \/ \E h \in Lists :
            \/ ListAdd(e, h) \/ ListAddTail(e, h)
            \/ ListMove(e, h) \/ ListMoveTail(e, h)
    \/ \E c, d \in Cells, init \in BOOLEAN : ListReplace(c, d, init)
    \/ \E g, h \in Lists, c \in Cells : ListCutPosition(g, h, c)
    \/ \E g, h \in Lists, tail, init \in BOOLEAN : ListSplice(g, h, tail, init)
    \/ \E h \in Lists, dir \in Dirs, c \in Cells : WalkBegin(h, dir, c)
    \/ WalkNext \/ WalkEnd

Spec == Init /\ [][Next]_vars

-----------------------------------------------------------------------------
(* Properties.                                                             *)

\* Every cell in use is in a closed ring, and going forth and back from it
\* leads to itself: no operation leaves a pointer to a cell that was taken off,
\* a NULL, or a ring that can be walked in one direction only.
RingsClosed == \A c \in ring :
    /\ {links.next[c], links.prev[c]} \subseteq ring
    /\ links.prev[links.next[c]] = c /\ links.next[links.prev[c]] = c

\* What a loop is about to read was not freed by its body: the entry after the
\* current one is in use, and what is still to visit lies ahead, next and in order.
WalkSafe == Walking =>
    /\ walk.n \in ring
    /\ IsPrefix(RemoveFirst(walk.todo, walk.pos), From(links, walk.dir, walk.n, walk.head))

\* list_empty and the others say of the two pointers they look at what is
\* true of the whole list.
TestsTellTheList == \A h \in Lists \cap ring :
    /\ ListEmpty(links, h) <=> On(h) = <<>>
    /\ ListEmptyCareful(links, h) <=> On(h) = <<>>
    /\ ListIsSingular(links, h) <=> Len(On(h)) = 1
    /\ \A i \in 1..Len(On(h)) : ListIsLast(links, On(h)[i], h) <=> i = Len(On(h))

\* Each operation does to the sequences of entries what its comment says, and
\* nothing to the other lists: what is added comes first (a stack) or last (a
\* queue), a move takes the entry from where it is, a cut takes what is up to
\* the entry, a splice puts one list before or behind the other.  (A step that
\* changes nothing satisfies the property anyway, and need not be looked at.)
View == [h \in Lists |-> IF h \in ring THEN On(h) ELSE <<Null>>]
Without(v, e) == [h \in Lists |-> RemoveFirst(v[h], e)]
Subst(v, old, new) == [h \in Lists |-> ReplaceAll(v[h], old, new)]

SequenceStep ==
    /\ \A e \in Entries :
        /\ ListDel(e) \/ ListDelInit(e) => View' = Without(View, e)
        /\ \A h \in Lists :
            /\ ListAdd(e, h) => View' = [View EXCEPT ![h] = <<e>> \o @]
            /\ ListAddTail(e, h) => View' = [View EXCEPT ![h] = Append(@, e)]
            /\ ListMove(e, h) =>
                   View' = [Without(View, e) EXCEPT ![h] = <<e>> \o @]
            /\ ListMoveTail(e, h) =>
                   View' = [Without(View, e) EXCEPT ![h] = Append(@, e)]
    /\ \A old, new \in Entries, init \in BOOLEAN :
        ListReplace(old, new, init) => View' = Subst(View, old, new)
    /\ \A old, new \in Lists, init \in BOOLEAN :
        ListReplace(old, new, init) =>
            View' = [View EXCEPT ![new] = View[old],
                                 ![old] = IF init THEN <<>> ELSE <<Null>>]
    /\ \A h \in Lists : ListRotateLeft(h) =>
        View' = [View EXCEPT ![h] = IF @ = <<>> THEN @ ELSE Append(Tail(@), Head(@))]
    /\ \A g, h \in Lists, e \in Cells : ListCutPosition(g, h, e) =>
        \E i \in 0..Len(View[h]) :
            /\ (i = 0 /\ e = h) \/ (i > 0 /\ View[h][i] = e)
            /\ View' = IF View[h] = <<>> THEN View
                       ELSE [View EXCEPT ![g] = SubSeq(View[h], 1, i),
                                         ![h] = SubSeq(@, i + 1, Len(@))]
    /\ \A g, h \in Lists, tail, init \in BOOLEAN :
        ListSplice(g, h, tail, init) =>
            View' = [View EXCEPT
                ![h] = IF tail THEN @ \o View[g] ELSE View[g] \o @,
                ![g] = IF init \/ @ = <<>> THEN <<>> ELSE <<Null>>]

ActsOnSequences == [][vars' # vars => SequenceStep]_vars
=============================================================================
