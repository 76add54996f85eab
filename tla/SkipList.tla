------------------------------ MODULE SkipList ------------------------------
(***************************************************************************)
(* The skip list of src/src/spg_skiplist.c, pointer by pointer, as one     *)
(* thread uses it.  skl_insert leaves prev[] NULL for the levels that the  *)
(* list already has, so that it stores through NULL when the list is not   *)
(* empty; sfree of head->lvl in skl_destroy is not a block of malloc.      *)
(* Both end the process, which is the state in which fault is not "none".  *)
(***************************************************************************)
EXTENDS Integers, FiniteSets

CONSTANTS
    Nodes,     \* what scalloc may return for a node
    Key,       \* the keys, ordered by cmpFunc as integers
    MaxLevel,  \* SKIPLIST_LEVEL_MAX
    SklHead,   \* the head node, sklhead
    NULL,      \* a NULL pointer
    MaxFailed, \* bound on how often scalloc fails at one height
    Garbage    \* what smalloc may leave in a counter

ASSUME LevelAssumption == MaxLevel \in Nat \ {0} /\ MaxFailed \in Nat
ASSUME GarbageAssumption == Garbage \subseteq Int
ASSUME KeyAssumption == Key \subseteq Int
ASSUME PointerAssumption == SklHead \notin Nodes /\ NULL \notin Nodes \cup {SklHead}

VARIABLES
    fault,     \* "none", or which call the process died in
    live,      \* skl_create was called, and skl_destroy was not
    heap,      \* the nodes in use, and the head: cell -> sklnode_s
    level, length, tail,
    lvlCnt,    \* stat.lvlCnt
    atStart,   \* history: what smalloc left in it
    failed     \* history: how many nodes of a height scalloc did not give

sklVars == <<fault, live, heap, level, length, tail, lvlCnt, atStart, failed>>

Level == 1..MaxLevel
Height == Level

\* A node as scalloc leaves it, but for key and lvlNum.
NewNode(k, height) ==
    [key |-> k, height |-> height, back |-> NULL, next |-> [i \in Level |-> NULL]]

NoList ==
    /\ live = FALSE
    /\ heap = [c \in {} |-> NULL]
    /\ level = 0 /\ length = 0
    /\ tail = NULL
    /\ lvlCnt = [i \in Level |-> 0]
    /\ atStart = [i \in Level |-> 0] /\ failed = [i \in Level |-> 0]

SklInit == fault = "none" /\ NoList

Ready == fault = "none" /\ live

\* skl_create: smalloc does not clear the counters, and nothing else does; the
\* head is counted as a node of the top level.
SklCreate ==
    /\ fault = "none" /\ ~live
    /\ live' = TRUE
    /\ heap' = [c \in {SklHead} |-> NewNode(NULL, MaxLevel)]
    /\ level' = 0 /\ length' = 0
    /\ tail' = SklHead
    /\ atStart' \in [Level -> Garbage]
    /\ lvlCnt' = [atStart' EXCEPT ![MaxLevel] = @ + 1]
    /\ UNCHANGED <<fault, failed>>

\* skl_insert into an empty list: every prev[idx] is the head.
SklInsert(k, height, node) ==
    LET old == heap[SklHead].next
        next == [i \in Level |-> IF i <= height THEN old[i] ELSE NULL]
        last == old[1] = NULL
        new == [NewNode(k, height) EXCEPT
                    !.next = next,
                    !.back = IF last THEN tail ELSE heap[old[1]].back]
    IN  /\ Ready /\ level = 0
        /\ node \in Nodes \ DOMAIN heap
        /\ heap' = [c \in DOMAIN heap \cup {node} |->
               IF c = node THEN new
               ELSE IF c = SklHead
               THEN [heap[c] EXCEPT !.next =
                        [i \in Level |-> IF i <= height THEN node ELSE old[i]]]
               ELSE IF c = old[1] THEN [heap[c] EXCEPT !.back = node]
               ELSE heap[c]]
        /\ level' = height
        /\ tail' = IF last THEN node ELSE tail
        /\ length' = length + 1
        /\ lvlCnt' = [lvlCnt EXCEPT ![height] = @ + 1]
        /\ UNCHANGED <<fault, live, atStart, failed>>

\* skl_insert into a list that has a level: prev[0] is NULL.
SklInsertFaults(height) ==
    /\ Ready /\ level > 0
    /\ fault' = "insert"
    /\ level' = IF height > level THEN height ELSE level
    /\ lvlCnt' = [lvlCnt EXCEPT ![height] = @ + 1]
    /\ UNCHANGED <<live, heap, length, tail, atStart, failed>>

\* scalloc gives no node: skl_insert returns SPG_ERR, but the node was counted.
SklInsertFails(height) ==
    /\ Ready
    /\ failed[height] < MaxFailed
    /\ lvlCnt' = [lvlCnt EXCEPT ![height] = @ + 1]
    /\ failed' = [failed EXCEPT ![height] = @ + 1]
    /\ UNCHANGED <<fault, live, heap, level, length, tail, atStart>>

-----------------------------------------------------------------------------
\* skl_get_big_equal: the first node whose key is not less than k, found from
\* the top level down; NULL if there is none.
BigEqual(k) ==
    LET search[at \in (DOMAIN heap) \X Level] ==
            LET c == at[1]
                i == at[2]
                n == heap[c].next[i]
            IN  IF n # NULL /\ k > heap[n].key THEN search[<<n, i>>]
                ELSE IF i = 1 THEN n ELSE search[<<c, i - 1>>]
    IN  search[<<SklHead, IF level = 0 THEN 1 ELSE level>>]

\* skl_contain.
SklContain(k) == BigEqual(k) # NULL /\ heap[BigEqual(k)].key = k

\* skl_delete_node walks the backward pointers: the first node before c that
\* has level i is the one that points to c there.
Pred(c, i) ==
    LET f[b \in DOMAIN heap] == IF heap[b].height >= i THEN b ELSE f[heap[b].back]
    IN  f[heap[c].back]

\* What is left of the level when node is unlinked: the levels of the head that
\* point to nothing are dropped.
\* A wrong LevelAfter that drops no level.
LevelKept(next) == level
LevelAfter(next) ==
    LET used == {i \in 1..level : next[i] # NULL}
    IN  IF used = {} THEN 0 ELSE CHOOSE i \in used : \A j \in used : j <= i

\* skl_delete_node.
DeleteNode(node) ==
    LET h == heap[node].height
        unlinked == [c \in DOMAIN heap \ {node} |->
            [heap[c] EXCEPT
                !.next = [i \in Level |-> IF i <= h /\ Pred(node, i) = c
                                          THEN heap[node].next[i] ELSE @[i]],
                !.back = IF c = heap[node].next[1] THEN heap[node].back ELSE @]]
    IN  /\ heap' = unlinked
        /\ tail' = IF heap[node].next[1] = NULL THEN heap[node].back ELSE tail
        /\ length' = length - 1
        /\ level' = LevelAfter(unlinked[SklHead].next)
        /\ lvlCnt' = [lvlCnt EXCEPT ![h] = @ - 1]

\* skl_find_get: one node with the key is taken off, and its key handed out.
SklFindGet(k) ==
    /\ Ready /\ SklContain(k)
    /\ DeleteNode(BigEqual(k))
    /\ UNCHANGED <<fault, live, atStart, failed>>

\* The nodes that skl_flush_all and trav_reverse meet: from the tail until the
\* node that has no backward pointer.
MetFrom(c) ==
    LET f[b \in DOMAIN heap] ==
            IF heap[b].back = NULL THEN {} ELSE {b} \cup f[heap[b].back]
    IN  f[c]

\* A wrong skl_flush_all that frees the nodes without put_sklnode.
SklFlushUncounted ==
    /\ Ready /\ length > 0
    /\ heap' = [c \in DOMAIN heap \ MetFrom(tail) |->
           IF c = SklHead THEN [heap[c] EXCEPT !.next = [i \in Level |-> NULL]] ELSE heap[c]]
    /\ level' = 0 /\ length' = 0
    /\ tail' = SklHead
    /\ UNCHANGED <<fault, live, lvlCnt, atStart, failed>>

\* skl_flush_all.
SklFlushAll ==
    /\ Ready /\ length > 0
    /\ heap' = [c \in DOMAIN heap \ MetFrom(tail) |->
           IF c = SklHead THEN [heap[c] EXCEPT !.next = [i \in Level |-> NULL]] ELSE heap[c]]
    /\ level' = 0 /\ length' = 0
    /\ tail' = SklHead
    /\ lvlCnt' = [i \in Level |->
           lvlCnt[i] - Cardinality({c \in MetFrom(tail) : heap[c].height = i})]
    /\ UNCHANGED <<fault, live, atStart, failed>>

\* skl_destroy of an empty list; with nodes in it its assertion ends the process.
SklDestroy ==
    /\ Ready
    /\ fault' = IF length = 0 THEN "destroy" ELSE "assert"
    /\ UNCHANGED <<live, heap, level, length, tail, lvlCnt, atStart, failed>>

\* The process that died is started again.
Restart ==
    /\ fault # "none"
    /\ fault' = "none"
    /\ live' = FALSE /\ heap' = [c \in {} |-> NULL]
    /\ level' = 0 /\ length' = 0 /\ tail' = NULL
    /\ lvlCnt' = [i \in Level |-> 0]
    /\ atStart' = [i \in Level |-> 0] /\ failed' = [i \in Level |-> 0]

SklNext ==
    \/ SklCreate \/ SklFlushAll \/ SklDestroy \/ Restart
    \/ \E k \in Key : SklFindGet(k)
    \/ \E k \in Key, h \in Height, n \in Nodes : SklInsert(k, h, n)
    \/ \E h \in Height : SklInsertFaults(h) \/ SklInsertFails(h)

SklSpec == SklInit /\ [][SklNext]_sklVars

-----------------------------------------------------------------------------
(* Properties.                                                             *)

\* An insert is refused or succeeds: skiplist_ut.c inserts one key after the
\* other and looks only for a result that is not SPG_OK.  With one node in the
\* list the next insert ends the process.
InsertNeverFaults == fault # "insert"

\* Only a list that has nodes does that: after any number of removals, flushes
\* and refused inserts an empty list takes a node again, whose height may be
\* more or less than the list had before (skl_delete_node and skl_flush_all give
\* back every level).
EmptyTakesInserts == [][fault = "none" /\ fault' = "insert" => length > 0]_sklVars

\* The statistics count every node that is in use, once.  Besides they have what
\* smalloc left in the counters (skl_create does not set them) and the nodes
\* that scalloc did not give (get_sklnode counts before it is known).
CountsExact == Ready => \A i \in Level :
    lvlCnt[i] = atStart[i] + failed[i]
                + Cardinality({c \in DOMAIN heap : heap[c].height = i})
=============================================================================
