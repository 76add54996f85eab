--------------------------- MODULE MemPoolProofs ---------------------------
(***************************************************************************)
(* Proofs about MemPool, for every set of clients and nodes and all        *)
(* bounds, whether clients clear their arrays and smalloc succeeds or not. *)
(* PoolInv and OwnershipInv are the inductive invariants; the lemmas below *)
(* say what each helper of the model does to the reserve, then that each   *)
(* action preserves PoolInv.                                               *)
(***************************************************************************)
EXTENDS MemPool, SequenceTheorems, TLAPS

-----------------------------------------------------------------------------
(* The helpers.                                                            *)

\* resize_mp leaves a capacity within the bound.  Unless smalloc failed to
\* extend it a forced resize gives the water level at least, and an unforced
\* one still has room.
LEMMA ResizeEffect ==
    ASSUME slotCnt \in 0..MaxLevel, MaxLevel \in Nat,
           NEW slots \in 0..MaxLevel, NEW cnt \in Nat, cnt <= slots,
           noMem \in BOOLEAN,
           NEW force \in BOOLEAN, ResizeMp(slots, cnt, force)
    PROVE  /\ slotCnt' \in 0..MaxLevel /\ noMem' \in BOOLEAN
           /\ ~noMem' /\ force => slots <= slotCnt'
           /\ ~noMem' /\ (~noMem => cnt <= slotCnt) => cnt <= slotCnt'
<1>1. CASE (slotCnt < slots /\ ~force) \/ cnt > slots
  <2>1. slotCnt' = slotCnt /\ noMem' = noMem
    BY <1>1 DEF ResizeMp
  <2>2. ~force /\ (~noMem' => ~noMem)
    BY <1>1, <2>1
  <2> QED
    BY <2>1, <2>2
<1>2. CASE slotCnt' = slots /\ noMem' = FALSE
  <2>1. noMem' \in BOOLEAN
    BY <1>2, Zenon
  <2> QED
    BY <1>2, <2>1
<1>3. ASSUME slotCnt' = slotCnt, noMem' = (noMem \/ slots > slotCnt)
      PROVE  /\ slotCnt' \in 0..MaxLevel /\ noMem' \in BOOLEAN
             /\ ~noMem' => slots <= slotCnt' /\ ~noMem
  <2>1. noMem' \in BOOLEAN /\ (~noMem' => ~(slots > slotCnt) /\ ~noMem)
    BY <1>3, Zenon
  <2> QED
    BY <1>3, <2>1
<1> QED
  BY <1>1, <1>2, <1>3 DEF ResizeMp

\* put_mp_nodes appends a prefix of the nodes to the reserve, fills it to
\* the water level if it cannot keep them all, and frees the others.
LEMMA PutEffect ==
    ASSUME freeNode \in Seq(Node), slotCnt \in 0..MaxLevel, MaxLevel \in Nat,
           noMem \in BOOLEAN,
           wl[syswl] \in 0..MaxLevel, Len(freeNode) <= wl[syswl],
           NEW nodes \in Seq(Node), PutNodes(nodes)
    PROVE  LET k == Keeps(Len(nodes))
           IN  /\ k \in 0..Len(nodes)
               /\ k < Len(nodes) => Len(freeNode) + k = wl[syswl]
               /\ freeNode' \in Seq(Node)
               /\ Len(freeNode') = Len(freeNode) + k
               /\ Len(freeNode') <= wl[syswl]
               /\ \A i \in 1..Len(freeNode') : freeNode'[i] =
                    IF i <= Len(freeNode) THEN freeNode[i]
                    ELSE nodes[i - Len(freeNode)]
               /\ heap' = heap \ {nodes[i] : i \in (k + 1)..Len(nodes)}
               /\ slotCnt' \in 0..MaxLevel
               /\ noMem' \in BOOLEAN
               /\ ~noMem' => Len(freeNode') <= slotCnt'
<1> DEFINE k == Keeps(Len(nodes))
<1> HIDE DEF k
<1>1. Len(nodes) \in Nat /\ Len(freeNode) \in Nat
  BY LenProperties
<1>2. /\ k \in 0..Len(nodes)
      /\ k < Len(nodes) => Len(freeNode) + k = wl[syswl]
      /\ Len(freeNode) + k <= wl[syswl]
  BY <1>1 DEF k, Keeps
<1>3. /\ SubSeq(nodes, 1, k) \in Seq(Node)
      /\ Len(SubSeq(nodes, 1, k)) = k
      /\ \A i \in 1..k : SubSeq(nodes, 1, k)[i] = nodes[i]
  <2>1. \A i \in 1..k : nodes[i] \in Node
    BY <1>1, <1>2, LenProperties
  <2>2. /\ SubSeq(nodes, 1, k) \in Seq(Node)
        /\ Len(SubSeq(nodes, 1, k)) = IF 1 <= k THEN k - 1 + 1 ELSE 0
        /\ \A i \in 1..(k - 1 + 1) : SubSeq(nodes, 1, k)[i] = nodes[1 + i - 1]
    BY <1>2, <2>1, SubSeqProperties
  <2> QED
    BY <1>1, <1>2, <2>2
<1>4. freeNode' = freeNode \o SubSeq(nodes, 1, k)
  BY DEF PutNodes, k
<1>5. /\ freeNode' \in Seq(Node)
      /\ Len(freeNode') = Len(freeNode) + k
      /\ \A i \in 1..Len(freeNode) + k : freeNode'[i] =
            IF i <= Len(freeNode) THEN freeNode[i]
            ELSE SubSeq(nodes, 1, k)[i - Len(freeNode)]
  BY <1>3, <1>4, ConcatProperties
<1>6. \A i \in 1..Len(freeNode') : freeNode'[i] =
            IF i <= Len(freeNode) THEN freeNode[i]
            ELSE nodes[i - Len(freeNode)]
  BY <1>1, <1>2, <1>3, <1>5
<1>7. heap' = heap \ {nodes[i] : i \in (k + 1)..Len(nodes)}
  BY DEF PutNodes, k
<1>8. /\ slotCnt' \in 0..MaxLevel
      /\ noMem' \in BOOLEAN
      /\ ~noMem' => Len(freeNode') <= slotCnt'
  <2>1. CASE Len(freeNode) + Len(nodes) > slotCnt
    <3>1. ResizeMp(wl[syswl], Len(freeNode), TRUE)
      BY <2>1 DEF PutNodes
    <3>2. /\ slotCnt' \in 0..MaxLevel /\ noMem' \in BOOLEAN
          /\ ~noMem' => wl[syswl] <= slotCnt'
      BY <1>1, <3>1, ResizeEffect
    <3> QED
      BY <1>1, <1>2, <1>5, <3>2
  <2>2. CASE ~(Len(freeNode) + Len(nodes) > slotCnt)
    BY <1>1, <1>2, <1>5, <2>2 DEF PutNodes
  <2> QED
    BY <2>1, <2>2
<1> QED
  BY <1>2, <1>5, <1>6, <1>7, <1>8 DEF k

\* The freeing loops leave a prefix of the reserve.
LEMMA FreeDownEffect ==
    ASSUME freeNode \in Seq(Node), NEW cnt \in Nat, FreeDownTo(cnt)
    PROVE  /\ freeNode' \in Seq(Node)
           /\ Len(freeNode') = IF Len(freeNode) > cnt THEN cnt ELSE Len(freeNode)
           /\ \A i \in 1..Len(freeNode') : freeNode'[i] = freeNode[i]
           /\ heap' = heap \ {freeNode[i] :
                                i \in (Len(freeNode') + 1)..Len(freeNode)}
<1> DEFINE left == IF Len(freeNode) > cnt THEN cnt ELSE Len(freeNode)
<1>1. Len(freeNode) \in Nat
  BY LenProperties
<1>2. left \in 0..Len(freeNode)
  BY <1>1
<1>3. freeNode' = SubSeq(freeNode, 1, left)
  BY DEF FreeDownTo
<1>4. heap' = heap \ {freeNode[i] : i \in (left + 1)..Len(freeNode)}
  BY DEF FreeDownTo
<1> HIDE DEF left
<1>5. \A i \in 1..left : freeNode[i] \in Node
  BY <1>1, <1>2, LenProperties
<1>6. /\ freeNode' \in Seq(Node)
      /\ Len(freeNode') = IF 1 <= left THEN left - 1 + 1 ELSE 0
      /\ \A i \in 1..(left - 1 + 1) : freeNode'[i] = freeNode[1 + i - 1]
  BY <1>2, <1>3, <1>5, SubSeqProperties
<1>7. /\ Len(freeNode') = left
      /\ \A i \in 1..Len(freeNode') : freeNode'[i] = freeNode[i]
  BY <1>1, <1>2, <1>6
<1> QED
  BY <1>4, <1>6, <1>7 DEF left

\* remove_element takes the last node of the reserve.
LEMMA TopEffect ==
    ASSUME freeNode \in Seq(Node), Len(freeNode) > 0
    PROVE  /\ TopNode \in Node
           /\ WithoutTop(freeNode) \in Seq(Node)
           /\ Len(WithoutTop(freeNode)) = Len(freeNode) - 1
           /\ \A i \in 1..Len(freeNode) - 1 : WithoutTop(freeNode)[i] = freeNode[i]
<1> DEFINE m == Len(freeNode) - 1
<1>1. Len(freeNode) \in Nat /\ m \in Nat
  BY LenProperties
<1>2. \A i \in 1..Len(freeNode) : freeNode[i] \in Node
  BY LenProperties
<1>3. /\ SubSeq(freeNode, 1, m) \in Seq(Node)
      /\ Len(SubSeq(freeNode, 1, m)) = IF 1 <= m THEN m - 1 + 1 ELSE 0
      /\ \A i \in 1..(m - 1 + 1) : SubSeq(freeNode, 1, m)[i] = freeNode[1 + i - 1]
  BY <1>1, <1>2, SubSeqProperties
<1>4. WithoutTop(freeNode) = SubSeq(freeNode, 1, m)
  BY DEF WithoutTop
<1>5. TopNode \in Node
  BY <1>1, <1>2 DEF TopNode
<1> HIDE DEF m
<1>6. Len(WithoutTop(freeNode)) = m /\ WithoutTop(freeNode) \in Seq(Node)
  BY <1>1, <1>3, <1>4
<1>7. \A i \in 1..m : WithoutTop(freeNode)[i] = freeNode[i]
  BY <1>1, <1>3, <1>4
<1> QED
  BY <1>5, <1>6, <1>7 DEF m

-----------------------------------------------------------------------------
(* Initial states, and each action preserves PoolInv.                      *)

LEMMA InitPoolInv == Init => PoolInv
<1> SUFFICES ASSUME Init PROVE PoolInv
  OBVIOUS
<1>1. freeNode \in Seq(Node) /\ Len(freeNode) = 0
  BY EmptySeq DEF Init
<1>2. TypeOK
  <2>1. noMem \in BOOLEAN /\ strayed \in BOOLEAN
    BY Zenon DEF Init
  <2> QED
    BY <1>1, <2>1, LevelAssumption DEF Init, TypeOK, E_WATER_LEVEL, Entry
<1>3. CallShape
  BY DEF Init, CallShape, Held
<1>4. ReserveShape
  BY <1>1 DEF Init, ReserveShape, ReserveWithinLevel, ShortOnlyWithoutMemory
<1>5. ReserveOwed
  BY DEF Init, ReserveOwed
<1> QED
  BY <1>2, <1>3, <1>4, <1>5 DEF PoolInv

\* While no pool is live, nobody holds the lock, is in a call or has nodes.
LEMMA NotLiveIdle ==
    ASSUME PoolInv, phase # "live"
    PROVE  /\ lock = NoClient
           /\ \A c \in Client : kind[c] = "idle" /\ lo[c] = 0 /\ hi[c] = 0
BY NullAssumption DEF PoolInv, TypeOK, CallShape

LEMMA CreateMpStep ==
    ASSUME PoolInv, NEW levels \in [E_WATER_LEVEL -> 0..MaxLevel],
           CreateMp(levels)
    PROVE  PoolInv'
<1>1. freeNode' \in Seq(Node) /\ Len(freeNode') = 0
  BY EmptySeq DEF CreateMp
<1>2. /\ lock = NoClient
      /\ \A c \in Client : kind[c] = "idle" /\ lo[c] = 0 /\ hi[c] = 0
  BY NotLiveIdle DEF CreateMp
<1>3. TypeOK'
  BY <1>1 DEF PoolInv, TypeOK, CreateMp, call, E_WATER_LEVEL
<1>4. CallShape'
  BY <1>2 DEF PoolInv, CallShape, CreateMp, call, Held
<1>5. ReserveShape'
  BY <1>1, LevelAssumption
     DEF ReserveShape, ReserveWithinLevel, ShortOnlyWithoutMemory, CreateMp, E_WATER_LEVEL
<1>6. ReserveOwed'
  BY <1>2 DEF ReserveOwed, CreateMp, call
<1> QED
  BY <1>3, <1>4, <1>5, <1>6 DEF PoolInv

LEMMA CreateFillStep ==
    ASSUME PoolInv, NEW n \in Node, CreateFill(n)
    PROVE  PoolInv'
<1>1. freeNode \in Seq(Node) /\ wl[syswl] \in 0..MaxLevel
  BY DEF PoolInv, TypeOK
<1>2. freeNode' \in Seq(Node) /\ Len(freeNode') = Len(freeNode) + 1
  BY <1>1, AppendProperties DEF CreateFill
<1>3. Len(freeNode) \in Nat /\ Len(freeNode') <= wl[syswl]
  BY <1>1, <1>2, LenProperties, LevelAssumption DEF CreateFill
<1>4. TypeOK'
  BY <1>2 DEF PoolInv, TypeOK, CreateFill, call
<1>5. CallShape'
  BY DEF PoolInv, CallShape, CreateFill, call, Held
<1>6. ReserveShape'
  <2>1. ~(Len(freeNode') > slotCnt')
    BY <1>1, <1>2, <1>3, LevelAssumption DEF PoolInv, ReserveShape, CreateFill
  <2> QED
    BY <1>3, <2>1
       DEF PoolInv, ReserveShape, ReserveWithinLevel, ShortOnlyWithoutMemory,
           CreateFill
<1>7. ReserveOwed'
  BY NotLiveIdle DEF ReserveOwed, CreateFill, call
<1> QED
  BY <1>4, <1>5, <1>6, <1>7 DEF PoolInv

LEMMA CreateDoneStep ==
    ASSUME PoolInv, CreateDone
    PROVE  PoolInv'
<1>1. TypeOK'
  BY DEF PoolInv, TypeOK, CreateDone, call
<1>2. CallShape'
  BY DEF PoolInv, CallShape, CreateDone, call, Held
<1>3. ReserveShape'
  BY DEF PoolInv, ReserveShape, ReserveWithinLevel, ShortOnlyWithoutMemory, CreateDone
<1>4. ReserveOwed'
  BY DEF PoolInv, ReserveOwed, CreateDone, call
<1> QED
  BY <1>1, <1>2, <1>3, <1>4 DEF PoolInv

\* destroy_mp, from create_mp or from the owner.
LEMMA FreeAllStep ==
    ASSUME PoolInv, FreeAll, lock = NoClient,
           \A c \in Client : hi[c] = 0
    PROVE  PoolInv'
<1>1. freeNode \in Seq(Node) /\ FreeDownTo(0)
  BY DEF PoolInv, TypeOK, FreeAll
<1>2. Len(freeNode) \in Nat
  BY <1>1, LenProperties
<1>3. /\ freeNode' \in Seq(Node)
      /\ Len(freeNode') = IF Len(freeNode) > 0 THEN 0 ELSE Len(freeNode)
      /\ heap' = heap \ {freeNode[i] :
                        i \in (Len(freeNode') + 1)..Len(freeNode)}
  BY <1>1, FreeDownEffect
<1>4. freeNode' = <<>>
  BY <1>2, <1>3, EmptySeq
<1>5. \A c \in Client : kind[c] = "idle"
  BY NullAssumption DEF PoolInv, CallShape, TypeOK
<1>6. TypeOK'
  BY <1>3 DEF PoolInv, TypeOK, FreeAll, call
<1>7. CallShape'
  BY <1>5 DEF PoolInv, CallShape, FreeAll, call, Held
<1>8. ReserveShape'
  <2>1. Len(freeNode') = 0 /\ ~(Len(freeNode') > slotCnt')
    BY <1>2, <1>3, LevelAssumption DEF PoolInv, TypeOK, FreeAll
  <2> QED
    BY <1>4, <2>1
       DEF ReserveShape, ReserveWithinLevel, ShortOnlyWithoutMemory, FreeAll
<1>9. ReserveOwed'
  BY <1>5 DEF ReserveOwed, FreeAll, call
<1> QED
  BY <1>6, <1>7, <1>8, <1>9 DEF PoolInv

LEMMA CreateFailStep ==
    ASSUME PoolInv, CreateFail
    PROVE  PoolInv'
BY NotLiveIdle, FreeAllStep DEF CreateFail

LEMMA DestroyMpStep ==
    ASSUME PoolInv, DestroyMp
    PROVE  PoolInv'
<1>1. \A c \in Client : kind[c] = "idle" /\ lo[c] = 0
  BY NullAssumption DEF PoolInv, CallShape, TypeOK, DestroyMp
<1>2. \A c \in Client : hi[c] = 0
  <2> TAKE c \in Client
  <2>1. hi[c] \in Nat /\ (lo[c] + 1)..hi[c] = {}
    BY LevelAssumption DEF PoolInv, TypeOK, DestroyMp, Held
  <2> QED
    BY <1>1, <2>1
<1> QED
  BY <1>2, FreeAllStep DEF DestroyMp

LEMMA LockStep ==
    ASSUME PoolInv, NEW c \in Client, LockMp(c) \/ UnlockMp(c)
    PROVE  PoolInv'
<1>1. TypeOK'
  BY DEF PoolInv, TypeOK, LockMp, UnlockMp, pool, call
<1>2. CallShape'
  BY NullAssumption
     DEF PoolInv, TypeOK, CallShape, LockMp, UnlockMp, pool, call, Held
<1>3. ReserveShape'
  BY DEF PoolInv, ReserveShape, ReserveWithinLevel, ShortOnlyWithoutMemory,
         LockMp, UnlockMp, pool
<1>4. ReserveOwed'
  BY DEF PoolInv, ReserveOwed, LockMp, UnlockMp, pool, call
<1> QED
  BY <1>1, <1>2, <1>3, <1>4 DEF PoolInv

\* The facts about a client and the reserve that every client step starts
\* from.
LEMMA PoolFacts ==
    ASSUME PoolInv, NEW c \in Client
    PROVE  /\ freeNode \in Seq(Node) /\ Len(freeNode) \in Nat
           /\ wl[syswl] \in 0..MaxLevel /\ slotCnt \in 0..MaxLevel
           /\ noMem \in BOOLEAN
           /\ lo[c] \in Nat /\ hi[c] \in 0..MaxNodes /\ want[c] \in 0..MaxNodes
           /\ before[c] \in Nat
           /\ kind[c] # "idle" => lock = c
           /\ lock = c => /\ phase = "live"
                          /\ Len(freeNode) <= wl[syswl]
                          /\ \A d \in Client \ {c} : kind[d] = "idle"
BY LevelAssumption, NullAssumption, LenProperties
   DEF PoolInv, TypeOK, CallShape, ReserveShape, ReserveWithinLevel

LEMMA GetBeginStep ==
    ASSUME PoolInv, NEW c \in Client, NEW nr \in 1..MaxNodes, GetBegin(c, nr)
    PROVE  PoolInv'
<1>1. /\ Len(freeNode) \in Nat /\ hi[c] \in Nat /\ lo[c] = 0
      /\ Len(freeNode) <= wl[syswl]
  BY PoolFacts DEF PoolInv, CallShape, GetBegin
<1>2. hi[c] = 0
  BY <1>1 DEF GetBegin, Held
<1>3. TypeOK'
  BY <1>1 DEF PoolInv, TypeOK, GetBegin, pool
<1>4. CallShape'
  BY <1>1, <1>2 DEF PoolInv, TypeOK, CallShape, GetBegin, pool, Held
<1>5. ReserveShape'
  BY DEF PoolInv, ReserveShape, ReserveWithinLevel, ShortOnlyWithoutMemory,
         GetBegin, pool
<1>6. ReserveOwed'
  BY <1>1 DEF PoolInv, TypeOK, ReserveOwed, GetBegin, pool
<1> QED
  BY <1>3, <1>4, <1>5, <1>6 DEF PoolInv

\* The new node lands in the entry after those the client holds.
LEMMA ReceiveEffect ==
    ASSUME PoolInv, NEW c \in Client, NEW n \in Node,
           InGetLoop(c), Receive(c, n)
    PROVE  /\ arr' \in [Client -> [Entry -> Node \cup {NullNode}]]
           /\ hi' \in [Client -> 0..MaxNodes]
           /\ \A d \in Client : hi'[d] = IF d = c THEN hi[c] + 1 ELSE hi[d]
           /\ \A d \in Client : \A p \in Entry : arr'[d][p] =
                IF d = c /\ p = hi[c] + 1 THEN n ELSE arr[d][p]
           /\ UNCHANGED <<kind, want, lo, before, strayed>>
           /\ hi[c] + 1 \in Entry /\ hi[c] + 1 <= want[c] /\ lo[c] = 0
BY LevelAssumption
   DEF PoolInv, TypeOK, CallShape, InGetLoop, Receive, Entry

LEMMA ReceiveShape ==
    ASSUME PoolInv, NEW c \in Client, NEW n \in Node,
           InGetLoop(c), Receive(c, n), UNCHANGED <<phase, lock>>
    PROVE  CallShape'
<1>1. CallShape /\ hi[c] \in Nat /\ lo[c] = 0 /\ lock = c /\ phase = "live"
  BY PoolFacts DEF PoolInv, CallShape, InGetLoop
<1>2. \A d \in Client : \A p \in Held(d)' : p \in Entry /\ arr'[d][p] \in Node
  <2> TAKE d \in Client
  <2> TAKE p \in Held(d)'
  <2>1. lo[d] \in Nat /\ hi'[d] \in 0..MaxNodes /\ lo' = lo
    BY ReceiveEffect, PoolFacts
  <2>2. p \in Entry
    BY <2>1, LevelAssumption DEF Held, Entry
  <2>3. \/ d = c /\ p = hi[c] + 1
        \/ p \in Held(d) /\ ~(d = c /\ p = hi[c] + 1)
    <3>1. hi'[d] = IF d = c THEN hi[c] + 1 ELSE hi[d]
      BY ReceiveEffect
    <3>2. hi[d] \in Nat /\ p \in (lo[d] + 1)..hi'[d]
      BY <2>1, PoolFacts, LevelAssumption DEF Held
    <3> QED
      BY <1>1, <2>1, <3>1, <3>2 DEF Held
  <2> QED
    BY <1>1, <2>2, <2>3, ReceiveEffect DEF CallShape
<1> QED
  BY <1>1, <1>2, ReceiveEffect DEF CallShape

LEMMA GetAllocStep ==
    ASSUME PoolInv, NEW c \in Client, NEW n \in Node, GetAlloc(c, n)
    PROVE  PoolInv'
<1>1. InGetLoop(c) /\ Receive(c, n)
  BY DEF GetAlloc
<1>2. TypeOK'
  BY <1>1, ReceiveEffect, SMTT(30) DEF PoolInv, TypeOK, GetAlloc
<1>3. CallShape'
  BY <1>1, ReceiveShape DEF GetAlloc
<1>4. ReserveShape'
  BY DEF PoolInv, ReserveShape, ReserveWithinLevel, ShortOnlyWithoutMemory, GetAlloc
<1>5. ReserveOwed'
  <2> SUFFICES ASSUME NEW d \in Client, kind'[d] # "idle"
               PROVE  /\ before'[d] <= wl'[syswl']
                      /\ \/ before'[d] <= Len(freeNode')
                         \/ before'[d] <= Len(freeNode') + hi'[d] - lo'[d]
    BY DEF ReserveOwed
  <2>1. /\ hi'[d] = IF d = c THEN hi[d] + 1 ELSE hi[d]
        /\ UNCHANGED <<kind, lo, before, wl, syswl, freeNode>>
    BY <1>1, ReceiveEffect DEF GetAlloc
  <2>2. /\ Len(freeNode) \in Nat /\ before[d] \in Nat
        /\ lo[d] \in Nat /\ hi[d] \in Nat
    BY PoolFacts
  <2>3. /\ before[d] <= wl[syswl]
        /\ \/ before[d] <= Len(freeNode)
           \/ before[d] <= Len(freeNode) + hi[d] - lo[d]
    BY <2>1 DEF PoolInv, ReserveOwed
  <2> QED
    BY <2>1, <2>2, <2>3
<1> QED
  BY <1>2, <1>3, <1>4, <1>5 DEF PoolInv

LEMMA GetReserveStep ==
    ASSUME PoolInv, NEW c \in Client, GetReserve(c)
    PROVE  PoolInv'
<1>1. /\ freeNode \in Seq(Node) /\ Len(freeNode) \in Nat /\ Len(freeNode) > 0
      /\ wl[syswl] \in Nat /\ slotCnt \in Nat /\ Len(freeNode) <= wl[syswl]
      /\ kind[c] = "get" /\ lock = c
  BY PoolFacts, LevelAssumption DEF GetReserve, InGetLoop
<1>2. /\ TopNode \in Node
      /\ freeNode' \in Seq(Node) /\ Len(freeNode') = Len(freeNode) - 1
  BY <1>1, TopEffect DEF GetReserve
<1>3. InGetLoop(c) /\ Receive(c, TopNode)
  BY DEF GetReserve
<1>4. TypeOK'
  BY <1>2, <1>3, ReceiveEffect DEF PoolInv, TypeOK, GetReserve
<1>5. CallShape'
  BY <1>2, <1>3, ReceiveShape DEF GetReserve
<1>6. ReserveShape'
  BY <1>1, <1>2, PoolFacts
     DEF PoolInv, ReserveShape, ReserveWithinLevel, ShortOnlyWithoutMemory, GetReserve
<1>7. ReserveOwed'
  <2> SUFFICES ASSUME NEW d \in Client, kind'[d] # "idle"
               PROVE  /\ before'[d] <= wl'[syswl']
                      /\ \/ before'[d] <= Len(freeNode')
                         \/ before'[d] <= Len(freeNode') + hi'[d] - lo'[d]
    BY DEF ReserveOwed
  <2>1. UNCHANGED <<kind, lo, before, wl, syswl>> /\ hi'[c] = hi[c] + 1
    BY <1>2, <1>3, ReceiveEffect DEF GetReserve
  <2>2. d = c
    BY <1>1, <2>1, PoolFacts
  <2>3. before[c] \in Nat /\ lo[c] = 0 /\ hi[c] \in Nat
    BY <1>1, PoolFacts DEF PoolInv, CallShape
  <2>4. /\ before[c] <= wl[syswl]
        /\ \/ before[c] <= Len(freeNode)
           \/ before[c] <= Len(freeNode) + hi[c] - lo[c]
    BY <2>1, <2>2 DEF PoolInv, ReserveOwed
  <2> QED
    BY <1>1, <1>2, <2>1, <2>2, <2>3, <2>4
<1> QED
  BY <1>4, <1>5, <1>6, <1>7 DEF PoolInv

LEMMA GetEndStep ==
    ASSUME PoolInv, NEW c \in Client, GetFail(c) \/ GetDone(c)
    PROVE  PoolInv'
<1>1. kind[c] = "get"
  BY DEF GetFail, GetDone, InGetLoop
<1>2. TypeOK'
  <2>1. CASE GetFail(c)
    BY <2>1 DEF PoolInv, TypeOK, GetFail, pool
  <2>2. CASE GetDone(c)
    BY <2>2, LevelAssumption DEF PoolInv, TypeOK, GetDone, CallEnds, pool
  <2> QED
    BY <2>1, <2>2
<1>3. CallShape'
  BY <1>1 DEF PoolInv, TypeOK, CallShape, GetFail, GetDone, CallEnds, pool, Held
<1>4. ReserveShape'
  BY DEF PoolInv, ReserveShape, ReserveWithinLevel, ShortOnlyWithoutMemory,
         GetFail, GetDone, CallEnds, pool
<1>5. ReserveOwed'
  BY <1>1 DEF PoolInv, TypeOK, ReserveOwed, GetFail, GetDone, CallEnds, pool
<1> QED
  BY <1>2, <1>3, <1>4, <1>5 DEF PoolInv

\* One node goes back to the pool from entry lo+1.
LEMMA CleanStepStep ==
    ASSUME PoolInv, NEW c \in Client, CleanStep(c)
    PROVE  PoolInv'
<1> DEFINE e == lo[c] + 1
           n == arr[c][e]
           k == Keeps(Len(<<n>>))
<1>1. /\ freeNode \in Seq(Node) /\ Len(freeNode) \in Nat
      /\ wl[syswl] \in 0..MaxLevel /\ slotCnt \in 0..MaxLevel
      /\ noMem \in BOOLEAN
      /\ lo[c] \in Nat /\ hi[c] \in 0..MaxNodes /\ want[c] \in 0..MaxNodes
      /\ before[c] \in Nat /\ kind[c] = "clean" /\ lock = c
      /\ Len(freeNode) <= wl[syswl] /\ lo[c] < want[c] /\ n # NullNode
      /\ phase = "live"
  BY PoolFacts DEF CleanStep, CleanGoesOn
<1>2. e \in Entry /\ n \in Node
  BY <1>1, LevelAssumption DEF PoolInv, TypeOK, Entry
<1>3. <<n>> \in Seq(Node) /\ Len(<<n>>) = 1
  BY <1>2
<1>4. PutNodes(<<n>>)
  BY DEF CleanStep
<1> HIDE DEF k
<1>5. /\ k \in {0, 1}
      /\ k = 0 => Len(freeNode) = wl[syswl]
      /\ freeNode' \in Seq(Node)
      /\ Len(freeNode') = Len(freeNode) + k
      /\ Len(freeNode') <= wl[syswl]
      /\ heap' \in SUBSET heap
      /\ slotCnt' \in 0..MaxLevel
      /\ noMem' \in BOOLEAN
      /\ ~noMem' => Len(freeNode') <= slotCnt'
  <2>1. /\ k \in 0..1
        /\ k < 1 => Len(freeNode) + k = wl[syswl]
        /\ freeNode' \in Seq(Node)
        /\ Len(freeNode') = Len(freeNode) + k
        /\ Len(freeNode') <= wl[syswl]
        /\ heap' = heap \ {<<n>>[i] : i \in (k + 1)..Len(<<n>>)}
        /\ slotCnt' \in 0..MaxLevel
        /\ noMem' \in BOOLEAN
        /\ ~noMem' => Len(freeNode') <= slotCnt'
    BY <1>1, <1>3, <1>4, PutEffect, LevelAssumption DEF k
  <2> QED
    BY <1>1, <2>1
<1>6. /\ arr' = [arr EXCEPT ![c][e] = NullNode]
      /\ lo' = [lo EXCEPT ![c] = e]
      /\ UNCHANGED <<phase, lock, wl, syswl, kind, want, hi, before>>
  BY DEF CleanStep
<1>7. TypeOK'
  <2>1. lo' \in [Client -> 0..MaxNodes]
    BY <1>2, <1>6, LevelAssumption DEF PoolInv, TypeOK, Entry
  <2>2. arr' \in [Client -> [Entry -> Node \cup {NullNode}]]
    BY <1>2, <1>6 DEF PoolInv, TypeOK
  <2>3. strayed' \in BOOLEAN
    BY Zenon DEF PoolInv, TypeOK, CleanStep
  <2> QED
    BY <1>5, <1>6, <2>1, <2>2, <2>3 DEF PoolInv, TypeOK
<1>8. CallShape'
  <2>1. \A d \in Client : \A p \in Held(d)' : arr'[d][p] \in Node
    <3> TAKE d \in Client
    <3> TAKE p \in Held(d)'
    <3>1. lo[d] \in Nat /\ hi[d] \in 0..MaxNodes /\ hi' = hi
      BY <1>6, PoolFacts
    <3>2. lo'[d] = IF d = c THEN e ELSE lo[d]
      BY <1>6 DEF PoolInv, TypeOK
    <3>3. p \in Held(d) /\ ~(d = c /\ p = e) /\ p \in Entry
      BY <1>1, <3>1, <3>2, LevelAssumption DEF Held, Entry
    <3>4. arr'[d][p] = arr[d][p]
      BY <1>2, <1>6, <3>3 DEF PoolInv, TypeOK
    <3> QED
      BY <3>3, <3>4 DEF PoolInv, CallShape
  <2>2. \A d \in Client : kind'[d] # "clean" => lo'[d] = 0
    BY <1>1, <1>6 DEF PoolInv, TypeOK, CallShape
  <2> QED
    BY <1>6, <2>1, <2>2 DEF PoolInv, CallShape
<1>9. ReserveShape'
  BY <1>1, <1>5, <1>6, PoolFacts DEF ReserveShape, ReserveWithinLevel, ShortOnlyWithoutMemory
<1>10. ReserveOwed'
  <2> SUFFICES ASSUME NEW d \in Client, kind'[d] # "idle"
               PROVE  /\ before'[d] <= wl'[syswl']
                      /\ \/ before'[d] <= Len(freeNode')
                         \/ before'[d] <= Len(freeNode') + hi'[d] - lo'[d]
    BY DEF ReserveOwed
  <2>1. d = c
    BY <1>1, <1>6, PoolFacts
  <2>2. lo'[c] = lo[c] + 1
    BY <1>6 DEF PoolInv, TypeOK
  <2>3. /\ before[c] <= wl[syswl]
        /\ \/ before[c] <= Len(freeNode)
           \/ before[c] <= Len(freeNode) + hi[c] - lo[c]
    BY <1>6, <2>1 DEF PoolInv, ReserveOwed
  <2> QED
    BY <1>1, <1>5, <1>6, <2>1, <2>2, <2>3, SMTT(30)
<1> QED
  BY <1>7, <1>8, <1>9, <1>10 DEF PoolInv

\* When clean_node_list stops, the client holds nothing.
LEMMA CleanDoneHoldsNothing ==
    ASSUME PoolInv, NEW c \in Client, CleanDone(c)
    PROVE  hi[c] <= lo[c]
<1>1. /\ lo[c] \in Nat /\ hi[c] \in 0..MaxNodes /\ want[c] \in 0..MaxNodes
      /\ hi[c] <= want[c]
      /\ \A p \in Held(c) : arr[c][p] \in Node
  BY PoolFacts DEF PoolInv, CallShape, CleanDone
<1>2. SUFFICES ASSUME lo[c] < hi[c] PROVE FALSE
  BY <1>1, LevelAssumption
<1>3. lo[c] + 1 \in Held(c) /\ lo[c] < want[c]
  BY <1>1, <1>2, LevelAssumption DEF Held
<1> QED
  BY <1>1, <1>3, NullAssumption DEF CleanDone, CleanGoesOn

LEMMA CleanDoneStep ==
    ASSUME PoolInv, NEW c \in Client, CleanDone(c)
    PROVE  PoolInv'
<1>1. TypeOK'
  BY LevelAssumption DEF PoolInv, TypeOK, CleanDone, CallEnds, pool
<1>2. CallShape'
  <2>1. \A d \in Client : d # c => Held(d)' = Held(d)
    BY DEF PoolInv, TypeOK, CleanDone, Held
  <2>2. Held(c)' = {}
    BY DEF PoolInv, TypeOK, CleanDone, Held
  <2> QED
    BY <2>1, <2>2 DEF PoolInv, TypeOK, CallShape, CleanDone, CallEnds, pool
<1>3. ReserveShape'
  BY DEF PoolInv, ReserveShape, ReserveWithinLevel, ShortOnlyWithoutMemory,
         CleanDone, CallEnds, pool
<1>4. ReserveOwed'
  BY DEF PoolInv, TypeOK, ReserveOwed, CleanDone, CallEnds, pool
<1> QED
  BY <1>1, <1>2, <1>3, <1>4 DEF PoolInv

\* The nodes a client puts are the last nr of those it holds.
LEMMA PutArgument ==
    ASSUME PoolInv, NEW c \in Client, NEW nr \in 1..MaxNodes,
           NEW clears \in BOOLEAN, PutMpNodes(c, nr, clears)
    PROVE  LET nodes == SubSeq(arr[c], hi[c] - nr + 1, hi[c])
           IN  /\ nodes \in Seq(Node) /\ Len(nodes) = nr /\ PutNodes(nodes)
               /\ lo[c] = 0 /\ hi[c] - nr \in 0..MaxNodes /\ nr \in Nat
               /\ hi[c] \in 0..MaxNodes
               /\ \A i \in 1..nr : nodes[i] = arr[c][hi[c] - nr + i]
<1> DEFINE m == hi[c] - nr + 1
<1>1. /\ lo[c] = 0 /\ hi[c] \in 0..MaxNodes /\ nr \in Nat /\ nr >= 1 /\ nr <= hi[c]
      /\ m \in 1..hi[c] /\ \A p \in 1..hi[c] : arr[c][p] \in Node
  BY PoolFacts, LevelAssumption DEF PoolInv, CallShape, Held, PutMpNodes
<1>2. \A i \in m..hi[c] : arr[c][i] \in Node
  BY <1>1, LevelAssumption
<1>3. m \in Int /\ hi[c] \in Int
  BY <1>1, LevelAssumption
<1> HIDE DEF m
<1>4. /\ SubSeq(arr[c], m, hi[c]) \in Seq(Node)
      /\ Len(SubSeq(arr[c], m, hi[c])) = IF m <= hi[c] THEN hi[c] - m + 1 ELSE 0
      /\ \A i \in 1..(hi[c] - m + 1) :
            SubSeq(arr[c], m, hi[c])[i] = arr[c][m + i - 1]
  BY <1>2, <1>3, SubSeqProperties
<1>5. Len(SubSeq(arr[c], m, hi[c])) = nr
  BY <1>1, <1>4, LevelAssumption DEF m
<1>6. \A i \in 1..nr : SubSeq(arr[c], m, hi[c])[i] = arr[c][hi[c] - nr + i]
  <2> TAKE i \in 1..nr
  <2>1. i \in 1..(hi[c] - m + 1) /\ m + i - 1 = hi[c] - nr + i
    BY <1>1, LevelAssumption DEF m
  <2> QED
    BY <1>4, <2>1
<1>7. PutNodes(SubSeq(arr[c], m, hi[c]))
  BY DEF PutMpNodes, m
<1>8. hi[c] - nr \in 0..MaxNodes
  BY <1>1, LevelAssumption
<1> QED
  BY <1>1, <1>4, <1>5, <1>6, <1>7, <1>8 DEF m

LEMMA PutMpNodesStep ==
    ASSUME PoolInv, NEW c \in Client, NEW nr \in 1..MaxNodes,
           NEW clears \in BOOLEAN, PutMpNodes(c, nr, clears)
    PROVE  PoolInv'
<1> DEFINE nodes == SubSeq(arr[c], hi[c] - nr + 1, hi[c])
<1>1. /\ nodes \in Seq(Node) /\ PutNodes(nodes)
      /\ lo[c] = 0 /\ hi[c] - nr \in 0..MaxNodes /\ nr \in Nat
      /\ hi[c] \in 0..MaxNodes
  BY PutArgument
<1> HIDE DEF nodes
<1>2. /\ freeNode \in Seq(Node) /\ Len(freeNode) \in Nat
      /\ wl[syswl] \in 0..MaxLevel /\ slotCnt \in 0..MaxLevel
      /\ noMem \in BOOLEAN
      /\ lock = c /\ kind[c] = "idle" /\ Len(freeNode) <= wl[syswl]
      /\ phase = "live"
      /\ \A d \in Client : kind[d] = "idle"
  BY PoolFacts DEF PutMpNodes
<1>3. /\ freeNode' \in Seq(Node)
      /\ Len(freeNode') <= wl[syswl]
      /\ heap' \in SUBSET heap
      /\ slotCnt' \in 0..MaxLevel
      /\ noMem' \in BOOLEAN
      /\ ~noMem' => Len(freeNode') <= slotCnt'
  BY <1>1, <1>2, PutEffect, LevelAssumption
<1>4. /\ hi' = [hi EXCEPT ![c] = hi[c] - nr]
      /\ UNCHANGED <<phase, lock, wl, syswl, kind, want, lo, before, strayed>>
  BY DEF PutMpNodes
<1>5. /\ arr' \in [Client -> [Entry -> Node \cup {NullNode}]]
      /\ \A d \in Client : \A p \in Entry :
            arr'[d][p] = IF clears /\ d = c /\ p > hi[c] - nr
                         THEN NullNode ELSE arr[d][p]
  <2>1. arr \in [Client -> [Entry -> Node \cup {NullNode}]]
    BY DEF PoolInv, TypeOK
  <2>2. arr' = IF clears
               THEN [arr EXCEPT ![c] = [p \in Entry |->
                        IF p > hi[c] - nr THEN NullNode ELSE arr[c][p]]]
               ELSE arr
    BY DEF PutMpNodes
  <2> QED
    BY <2>1, <2>2
<1>6. TypeOK'
  <2>1. hi' \in [Client -> 0..MaxNodes]
    BY <1>1, <1>4 DEF PoolInv, TypeOK
  <2> QED
    BY <1>3, <1>4, <1>5, <2>1 DEF PoolInv, TypeOK
<1>7. CallShape'
  <2>1. \A d \in Client : \A p \in Held(d)' : arr'[d][p] \in Node
    <3> TAKE d \in Client
    <3> TAKE p \in Held(d)'
    <3>1. lo[d] \in Nat /\ hi[d] \in 0..MaxNodes /\ lo' = lo
      BY <1>4, PoolFacts
    <3>2. hi'[d] = IF d = c THEN hi[c] - nr ELSE hi[d]
      BY <1>4 DEF PoolInv, TypeOK
    <3>3. p \in Held(d) /\ p \in Entry /\ ~(d = c /\ p > hi[c] - nr)
      BY <1>1, <3>1, <3>2, LevelAssumption DEF Held, Entry
    <3> QED
      BY <1>5, <3>3 DEF PoolInv, CallShape
  <2> QED
    BY <1>2, <1>4, <2>1 DEF PoolInv, CallShape
<1>8. ReserveShape'
  BY <1>2, <1>3, <1>4 DEF ReserveShape, ReserveWithinLevel, ShortOnlyWithoutMemory
<1>9. ReserveOwed'
  BY <1>2, <1>4 DEF ReserveOwed
<1> QED
  BY <1>6, <1>7, <1>8, <1>9 DEF PoolInv

\* The two ways a water level changes: the new level of the current system
\* level is `level', and the reserve is cut down to it.
LEMMA LevelStep ==
    ASSUME PoolInv, NEW c \in Client, lock = c, kind[c] = "idle",
           NEW level \in 0..MaxLevel, FreeDownTo(level),
           wl' \in [E_WATER_LEVEL -> 0..MaxLevel], syswl' \in E_WATER_LEVEL,
           wl'[syswl'] = level,
           \/ UNCHANGED <<slotCnt, noMem>>
           \/ ResizeMp(level, Len(freeNode'), FALSE),
           UNCHANGED <<phase, lock, call>>
    PROVE  PoolInv'
<1>1. /\ freeNode \in Seq(Node) /\ Len(freeNode) \in Nat
      /\ slotCnt \in 0..MaxLevel /\ phase = "live"
      /\ \A d \in Client : kind[d] = "idle"
  BY PoolFacts
<1>2. level \in Nat
  BY LevelAssumption
<1>3. /\ freeNode' \in Seq(Node)
      /\ Len(freeNode') = IF Len(freeNode) > level THEN level ELSE Len(freeNode)
      /\ heap' \in SUBSET heap
  BY <1>1, <1>2, FreeDownEffect
<1>4. Len(freeNode') \in Nat /\ Len(freeNode') <= level
      /\ Len(freeNode') <= Len(freeNode)
  BY <1>1, <1>2, <1>3
<1>5. /\ slotCnt' \in 0..MaxLevel
      /\ noMem' \in BOOLEAN
      /\ ~noMem' => Len(freeNode') <= slotCnt'
  <2>1. noMem \in BOOLEAN /\ (~noMem => Len(freeNode') <= slotCnt)
    BY <1>1, <1>4, LevelAssumption
       DEF PoolInv, TypeOK, ReserveShape, ShortOnlyWithoutMemory
  <2>2. CASE UNCHANGED <<slotCnt, noMem>>
    BY <1>1, <2>1, <2>2
  <2>3. CASE ResizeMp(level, Len(freeNode'), FALSE)
    BY <1>1, <1>4, <2>1, <2>3, ResizeEffect, LevelAssumption
  <2> QED
    BY <2>2, <2>3
<1>6. TypeOK'
  BY <1>3, <1>5 DEF PoolInv, TypeOK, call
<1>7. CallShape'
  BY DEF PoolInv, CallShape, call, Held
<1>8. ReserveShape'
  BY <1>1, <1>4, <1>5 DEF ReserveShape, ReserveWithinLevel, ShortOnlyWithoutMemory
<1>9. ReserveOwed'
  BY <1>1 DEF ReserveOwed, call
<1> QED
  BY <1>6, <1>7, <1>8, <1>9 DEF PoolInv

LEMMA UpdateSyswlStep ==
    ASSUME PoolInv, NEW c \in Client, NEW level \in E_WATER_LEVEL,
           UpdateSyswl(c, level)
    PROVE  PoolInv'
<1>1. /\ wl \in [E_WATER_LEVEL -> 0..MaxLevel] /\ wl[level] \in 0..MaxLevel
      /\ freeNode \in Seq(Node) /\ Len(freeNode) \in Nat
  BY LenProperties DEF PoolInv, TypeOK
<1>2. FreeDownTo(wl[level]) /\ wl' = wl /\ syswl' = level
  BY DEF UpdateSyswl
<1>3. Len(freeNode') = IF Len(freeNode) > wl[level] THEN wl[level]
                       ELSE Len(freeNode)
  BY <1>1, <1>2, FreeDownEffect, LevelAssumption
<1>4. \/ UNCHANGED <<slotCnt, noMem>>
      \/ ResizeMp(wl[level], Len(freeNode'), FALSE)
  <2>1. CASE Len(freeNode) <= wl[level]
    BY <2>1 DEF UpdateSyswl
  <2>2. CASE ~(Len(freeNode) <= wl[level])
    <3>1. Len(freeNode') = wl[level]
      BY <1>1, <1>3, <2>2, LevelAssumption
    <3> QED
      BY <2>2, <3>1 DEF UpdateSyswl
  <2> QED
    BY <2>1, <2>2
<1> QED
  BY <1>1, <1>2, <1>4, LevelStep DEF UpdateSyswl

LEMMA UpdateMpwlStep ==
    ASSUME PoolInv, NEW c \in Client,
           NEW levels \in [E_WATER_LEVEL -> 0..MaxLevel], UpdateMpwl(c, levels)
    PROVE  PoolInv'
<1>1. levels[syswl] \in 0..MaxLevel /\ syswl \in E_WATER_LEVEL
  BY DEF PoolInv, TypeOK
<1> QED
  BY <1>1, LevelStep DEF UpdateMpwl

-----------------------------------------------------------------------------
(* The invariant and what follows from it.                                 *)

LEMMA PoolInvStep == PoolInv /\ [Next]_vars => PoolInv'
<1> SUFFICES ASSUME PoolInv, [Next]_vars PROVE PoolInv'
  OBVIOUS
<1>1. CASE CreateNext
  BY <1>1, CreateMpStep, CreateFillStep, CreateDoneStep, CreateFailStep,
     DestroyMpStep DEF CreateNext
<1>2. ASSUME NEW c \in Client, ClientNext(c) PROVE PoolInv'
  <2>1. CASE LockMp(c) \/ UnlockMp(c)
    BY <2>1, LockStep
  <2>2. CASE \E nr \in 1..MaxNodes :
                \/ GetBegin(c, nr)
                \/ \E clears \in BOOLEAN : PutMpNodes(c, nr, clears)
    BY <2>2, GetBeginStep, PutMpNodesStep
  <2>3. CASE \E level \in E_WATER_LEVEL : UpdateSyswl(c, level)
    BY <2>3, UpdateSyswlStep
  <2>4. CASE \E levels \in [E_WATER_LEVEL -> 0..MaxLevel] : UpdateMpwl(c, levels)
    BY <2>4, UpdateMpwlStep
  <2>5. CASE CallStep(c)
    BY <2>5, GetAllocStep, GetReserveStep, GetEndStep, CleanStepStep,
       CleanDoneStep DEF CallStep
  <2> QED
    BY <1>2, <2>1, <2>2, <2>3, <2>4, <2>5 DEF ClientNext
<1>3. CASE UNCHANGED vars
  BY <1>3 DEF vars, PoolInv, TypeOK, CallShape, Held, ReserveShape,
     ReserveWithinLevel, ShortOnlyWithoutMemory, ReserveOwed
<1> QED
  BY <1>1, <1>2, <1>3 DEF Next

\* The inductive invariant holds of every behaviour of the pool.
THEOREM PoolInvariant == Spec => []PoolInv
<1>1. Init => PoolInv
  BY InitPoolInv
<1>2. PoolInv /\ [Next]_vars => PoolInv'
  BY PoolInvStep
<1> QED
  BY <1>1, <1>2, PTL DEF Spec

\* Every variable keeps its type, whatever the sizes of the pool.
THEOREM TypeCorrect == Spec => []TypeOK
<1>1. PoolInv => TypeOK
  BY DEF PoolInv
<1> QED
  BY <1>1, PoolInvariant, PTL

\* The reserve never exceeds the water level: the assertion of add_element
\* cannot fail and put_mp_nodes never computes a negative room.
THEOREM ReserveBounded == Spec => []ReserveWithinLevel
<1>1. PoolInv => ReserveWithinLevel
  BY DEF PoolInv, ReserveShape
<1> QED
  BY <1>1, PoolInvariant, PTL

\* put_mp_nodes stores past freeNode only after resize_mp had no memory to
\* extend it.
THEOREM StoresInBounds == Spec => []ShortOnlyWithoutMemory
<1>1. PoolInv => ShortOnlyWithoutMemory
  BY DEF PoolInv, ReserveShape
<1> QED
  BY <1>1, PoolInvariant, PTL

\* A failed get_mp_nodes leaves at least the reserve it found.
THEOREM FailedGetRestores == Spec => FailedGetKeepsReserve
<1>1. PoolInv /\ [Next]_vars =>
        [\A c \in Client : kind[c] = "clean" /\ kind'[c] = "idle"
            => Len(freeNode') >= before[c]]_vars
  <2> SUFFICES ASSUME PoolInv, Next, NEW c \in Client,
                      kind[c] = "clean", kind'[c] = "idle"
               PROVE  Len(freeNode') >= before[c]
    BY DEF vars
  <2>1. CleanDone(c)
    <3>1. lock = c /\ phase = "live" /\ kind' # kind
      BY PoolFacts
    <3>2. PICK d \in Client : ClientNext(d)
      BY <3>1 DEF Next, CreateNext, CreateMp, CreateFill, CreateDone,
         CreateFail, DestroyMp, FreeAll, call
    <3>3. CallStep(d)
      BY <3>1, <3>2 DEF ClientNext, LockMp, UnlockMp, GetBegin, PutMpNodes,
         UpdateSyswl, UpdateMpwl, call
    <3>4. GetFail(d) \/ GetDone(d) \/ CleanDone(d)
      BY <3>1, <3>3 DEF CallStep, GetAlloc, GetReserve, Receive, CleanStep
    <3> QED
      BY <3>4 DEF PoolInv, TypeOK, GetFail, GetDone, CleanDone, CallEnds,
         InGetLoop
  <2>2. hi[c] <= lo[c]
    BY <2>1, CleanDoneHoldsNothing
  <2>3. /\ Len(freeNode) \in Nat /\ before[c] \in Nat
        /\ lo[c] \in Nat /\ hi[c] \in 0..MaxNodes
    BY PoolFacts
  <2>4. freeNode' = freeNode
    BY <2>1 DEF CleanDone, CallEnds, pool
  <2>5. \/ before[c] <= Len(freeNode)
        \/ before[c] <= Len(freeNode) + hi[c] - lo[c]
    BY DEF PoolInv, ReserveOwed
  <2> QED
    BY <2>2, <2>3, <2>4, <2>5, LevelAssumption
<1> QED
  BY <1>1, PoolInvariant, PTL DEF Spec, FailedGetKeepsReserve

-----------------------------------------------------------------------------
(* That the pool neither loses nor doubles a node until a cleaning strays. *)
(* PoolInv gives the types and the shape of the calls.                     *)

\* A step that leaves the reserve, the heap and what clients hold alone
\* leaves the owners alone.
LEMMA SameOwners ==
    ASSUME Ownership, freeNode' = freeNode, heap' = heap,
           \A c \in Client : Held(c)' = Held(c),
           \A c \in Client : \A p \in Held(c) : arr'[c][p] = arr[c][p]
    PROVE  Ownership'
BY DEF Ownership, ReserveDistinct, HeldDistinct, HeldNotReserved, HeapOwned

\* With nobody holding a node, an empty reserve owns an empty heap.
LEMMA NobodyOwns ==
    ASSUME Ownership, PoolInv, \A c \in Client : Held(c) = {},
           \A c \in Client : Held(c)' = {},
           Len(freeNode') = 0,
           heap' = heap \ {freeNode[i] : i \in 1..Len(freeNode)}
    PROVE  Ownership'
<1>1. ReserveDistinct'
  BY DEF ReserveDistinct
<1>2. HeldDistinct' /\ HeldNotReserved'
  BY DEF HeldDistinct, HeldNotReserved
<1>3. HeapOwned'
  <2>1. \A n \in Node : n \in heap => \E i \in 1..Len(freeNode) : freeNode[i] = n
    BY DEF Ownership, HeapOwned
  <2>2. \A n \in Node : n \notin heap'
    BY <2>1
  <2> QED
    BY <2>2 DEF HeapOwned
<1> QED
  BY <1>1, <1>2, <1>3 DEF Ownership

\* A fresh node enters the reserve.
LEMMA FillOwner ==
    ASSUME PoolInv, Ownership, NEW n \in Node, CreateFill(n)
    PROVE  Ownership'
<1>1. /\ freeNode \in Seq(Node) /\ Len(freeNode) \in Nat
  BY LenProperties DEF PoolInv, TypeOK
<1>2. /\ Len(freeNode') = Len(freeNode) + 1
      /\ \A i \in 1..Len(freeNode) : freeNode'[i] = freeNode[i]
      /\ freeNode'[Len(freeNode) + 1] = n
  BY <1>1, AppendProperties DEF CreateFill
<1>3. /\ n \notin heap /\ heap' = heap \cup {n} /\ arr' = arr
      /\ \A c \in Client : Held(c)' = Held(c)
  BY DEF CreateFill, call, Held
<1>4. \A i \in 1..Len(freeNode) : freeNode[i] # n
  BY <1>3 DEF Ownership, HeapOwned
<1>5. \A c \in Client : \A p \in Held(c) : arr[c][p] # n
  BY <1>3 DEF Ownership, HeapOwned
<1>6. \A i \in 1..Len(freeNode') : i \in 1..Len(freeNode) \/ i = Len(freeNode) + 1
  BY <1>1, <1>2
<1>7. 1..Len(freeNode) \subseteq 1..Len(freeNode') /\ Len(freeNode) + 1 \in 1..Len(freeNode')
  BY <1>1, <1>2
<1>8. ReserveDistinct'
  BY <1>2, <1>4, <1>6 DEF Ownership, ReserveDistinct
<1>9. HeldDistinct'
  BY <1>3 DEF Ownership, HeldDistinct
<1>10. HeldNotReserved'
  BY <1>2, <1>3, <1>5, <1>6 DEF Ownership, HeldNotReserved
<1>11. HeapOwned'
  <2> SUFFICES ASSUME NEW m \in Node
               PROVE  m \in heap' <=>
                        \/ \E i \in 1..Len(freeNode') : freeNode'[i] = m
                        \/ \E c \in Client : \E p \in Held(c) : arr[c][p] = m
    BY <1>3 DEF HeapOwned
  <2>1. (\E i \in 1..Len(freeNode') : freeNode'[i] = m) <=>
            m = n \/ \E i \in 1..Len(freeNode) : freeNode[i] = m
    BY <1>2, <1>6, <1>7
  <2> QED
    BY <1>3, <2>1 DEF Ownership, HeapOwned
<1> QED
  BY <1>8, <1>9, <1>10, <1>11 DEF Ownership

\* A client takes a node: a fresh one from alloc or the last of the reserve.
LEMMA ReceiveHeld ==
    ASSUME PoolInv, NEW c \in Client, NEW n \in Node,
           InGetLoop(c), Receive(c, n)
    PROVE  /\ Held(c)' = Held(c) \cup {hi[c] + 1} /\ hi[c] + 1 \notin Held(c)
           /\ arr'[c][hi[c] + 1] = n
           /\ \A d \in Client \ {c} : Held(d)' = Held(d)
           /\ \A d \in Client : \A p \in Held(d) : arr'[d][p] = arr[d][p]
<1>1. /\ \A d \in Client : hi'[d] = IF d = c THEN hi[c] + 1 ELSE hi[d]
      /\ \A d \in Client : \A p \in Entry : arr'[d][p] =
            IF d = c /\ p = hi[c] + 1 THEN n ELSE arr[d][p]
      /\ lo' = lo /\ lo[c] = 0 /\ hi[c] + 1 \in Entry
  BY ReceiveEffect
<1>2. \A d \in Client : lo[d] \in Nat /\ hi[d] \in 0..MaxNodes
  BY PoolFacts
<1>3. Held(c)' = Held(c) \cup {hi[c] + 1} /\ hi[c] + 1 \notin Held(c)
  BY <1>1, <1>2, LevelAssumption DEF Held
<1>4. \A d \in Client \ {c} : Held(d)' = Held(d)
  <2> TAKE d \in Client \ {c}
  <2>1. hi'[d] = hi[d] /\ lo'[d] = lo[d]
    BY <1>1
  <2> QED
    BY <2>1 DEF Held
<1>5. \A d \in Client : Held(d) \subseteq Entry
  <2> TAKE d \in Client
  <2>1. lo[d] \in Nat /\ hi[d] \in 0..MaxNodes
    BY <1>2
  <2> QED
    BY <2>1, LevelAssumption DEF Held, Entry
<1>6. \A d \in Client : \A p \in Held(d) : arr'[d][p] = arr[d][p]
  BY <1>1, <1>3, <1>5
<1> QED
  BY <1>1, <1>3, <1>4, <1>6

LEMMA GetAllocOwner ==
    ASSUME PoolInv, Ownership, NEW c \in Client, NEW n \in Node, GetAlloc(c, n)
    PROVE  Ownership'
<1> DEFINE e == hi[c] + 1
<1>1. /\ Held(c)' = Held(c) \cup {e} /\ e \notin Held(c) /\ arr'[c][e] = n
      /\ \A d \in Client \ {c} : Held(d)' = Held(d)
      /\ \A d \in Client : \A p \in Held(d) : arr'[d][p] = arr[d][p]
  BY ReceiveHeld DEF GetAlloc
<1>2. n \notin heap /\ heap' = heap \cup {n} /\ freeNode' = freeNode
  BY DEF GetAlloc
<1> HIDE DEF e
<1>3. \A i \in 1..Len(freeNode) : freeNode[i] # n
  BY <1>2 DEF Ownership, HeapOwned
<1>4. \A d \in Client : \A p \in Held(d) : arr[d][p] # n
  BY <1>2 DEF Ownership, HeapOwned
<1>5. \A d \in Client : \A p \in Held(d)' : p \in Held(d) \/ (d = c /\ p = e)
  BY <1>1
<1>6. ReserveDistinct'
  BY <1>2 DEF Ownership, ReserveDistinct
<1>7. HeldDistinct'
  BY <1>1, <1>4, <1>5 DEF Ownership, HeldDistinct
<1>8. HeldNotReserved'
  BY <1>1, <1>2, <1>3, <1>5 DEF Ownership, HeldNotReserved
<1>9. HeapOwned'
  <2> SUFFICES ASSUME NEW m \in Node
               PROVE  m \in heap' <=>
                        \/ \E i \in 1..Len(freeNode) : freeNode[i] = m
                        \/ \E d \in Client : \E p \in Held(d)' : arr'[d][p] = m
    BY <1>2 DEF HeapOwned
  <2>1. (\E d \in Client : \E p \in Held(d)' : arr'[d][p] = m) <=>
            m = n \/ \E d \in Client : \E p \in Held(d) : arr[d][p] = m
    BY <1>1, <1>5
  <2> QED
    BY <1>2, <2>1 DEF Ownership, HeapOwned
<1> QED
  BY <1>6, <1>7, <1>8, <1>9 DEF Ownership

LEMMA GetReserveOwner ==
    ASSUME PoolInv, Ownership, NEW c \in Client, GetReserve(c)
    PROVE  Ownership'
<1> DEFINE e == hi[c] + 1
           n == freeNode[Len(freeNode)]
<1>1. /\ freeNode \in Seq(Node) /\ Len(freeNode) \in Nat /\ Len(freeNode) > 0
  BY PoolFacts DEF GetReserve
<1>2. /\ TopNode \in Node /\ TopNode = n
      /\ Len(freeNode') = Len(freeNode) - 1
      /\ \A i \in 1..Len(freeNode) - 1 : freeNode'[i] = freeNode[i]
  BY <1>1, TopEffect DEF GetReserve, TopNode
<1>3. /\ Held(c)' = Held(c) \cup {e} /\ e \notin Held(c) /\ arr'[c][e] = n
      /\ \A d \in Client \ {c} : Held(d)' = Held(d)
      /\ \A d \in Client : \A p \in Held(d) : arr'[d][p] = arr[d][p]
  BY <1>2, ReceiveHeld DEF GetReserve
<1>4. heap' = heap
  BY DEF GetReserve
<1> HIDE DEF e, n
<1>5. /\ \A i \in 1..Len(freeNode') : freeNode'[i] = freeNode[i] /\ freeNode[i] # n
      /\ 1..Len(freeNode') \subseteq 1..Len(freeNode)
      /\ \A i \in 1..Len(freeNode) : i \in 1..Len(freeNode') \/ freeNode[i] = n
  BY <1>1, <1>2 DEF n, Ownership, ReserveDistinct
<1>6. \A d \in Client : \A p \in Held(d) : arr[d][p] # n
  BY <1>1 DEF n, Ownership, HeldNotReserved
<1>7. \A d \in Client : \A p \in Held(d)' : p \in Held(d) \/ (d = c /\ p = e)
  BY <1>3
<1>8. ReserveDistinct'
  BY <1>5 DEF Ownership, ReserveDistinct
<1>9. HeldDistinct'
  BY <1>3, <1>6, <1>7 DEF Ownership, HeldDistinct
<1>10. HeldNotReserved'
  BY <1>3, <1>5, <1>7 DEF Ownership, HeldNotReserved
<1>11. HeapOwned'
  <2> SUFFICES ASSUME NEW m \in Node
               PROVE  m \in heap <=>
                        \/ \E i \in 1..Len(freeNode') : freeNode'[i] = m
                        \/ \E d \in Client : \E p \in Held(d)' : arr'[d][p] = m
    BY <1>4 DEF HeapOwned
  <2>1. (\E d \in Client : \E p \in Held(d)' : arr'[d][p] = m) <=>
            m = n \/ \E d \in Client : \E p \in Held(d) : arr[d][p] = m
    BY <1>3, <1>7
  <2>2. (\E i \in 1..Len(freeNode') : freeNode'[i] = m) \/ m = n <=>
            \E i \in 1..Len(freeNode) : freeNode[i] = m
    <3>1. Len(freeNode) \in 1..Len(freeNode)
      BY <1>1
    <3> QED
      BY <1>5, <3>1 DEF n
  <2> QED
    BY <2>1, <2>2 DEF Ownership, HeapOwned
<1> QED
  BY <1>8, <1>9, <1>10, <1>11 DEF Ownership

\* A client gives back the nodes at entries b+1..b+nr: the pool keeps some
\* and frees the others, and the client holds none of them any more.
LEMMA GiveBack ==
    ASSUME PoolInv, Ownership, NEW c \in Client, lock = c,
           NEW nodes \in Seq(Node), PutNodes(nodes), NEW b \in Nat,
           \A i \in 1..Len(nodes) : b + i \in Held(c) /\ nodes[i] = arr[c][b + i],
           Held(c)' = Held(c) \ ((b + 1)..(b + Len(nodes))),
           \A d \in Client \ {c} : Held(d)' = Held(d),
           \A d \in Client : \A p \in Held(d)' : arr'[d][p] = arr[d][p]
    PROVE  Ownership'
<1> DEFINE k == Keeps(Len(nodes))
           F == Len(freeNode)
           N == Len(nodes)
<1>1. /\ freeNode \in Seq(Node) /\ F \in Nat /\ N \in Nat
      /\ wl[syswl] \in 0..MaxLevel /\ slotCnt \in 0..MaxLevel /\ F <= wl[syswl]
      /\ noMem \in BOOLEAN
  BY PoolFacts, LenProperties
<1>2. /\ k \in 0..N
      /\ Len(freeNode') = F + k
      /\ \A i \in 1..Len(freeNode') :
            freeNode'[i] = IF i <= F THEN freeNode[i] ELSE nodes[i - F]
      /\ heap' = heap \ {nodes[i] : i \in (k + 1)..N}
  BY <1>1, PutEffect, LevelAssumption
<1> HIDE DEF k, F, N
<1>3. \A i \in 1..N : b + i \in Held(c) /\ nodes[i] = arr[c][b + i]
  BY DEF N
<1>4. \A i, j \in 1..N : nodes[i] = nodes[j] => i = j
  <2>1. ASSUME NEW i \in 1..N, NEW j \in 1..N, nodes[i] = nodes[j]
        PROVE  i = j
    <3>1. /\ b + i \in Held(c) /\ b + j \in Held(c)
          /\ arr[c][b + i] = arr[c][b + j]
      BY <1>3, <2>1, Zenon
    <3>2. \A p, q \in Held(c) : arr[c][p] = arr[c][q] => p = q
      <4>1. HeldDistinct
        BY DEF Ownership
      <4> QED
        BY <4>1 DEF HeldDistinct
    <3>3. b + i = b + j
      BY <3>1, <3>2, Zenon
    <3> QED
      BY <1>1, <3>3
  <2> QED
    BY <2>1
<1>5. \A i \in 1..N : \A j \in 1..F : nodes[i] # freeNode[j]
  BY <1>3 DEF Ownership, HeldNotReserved, F
<1>6. /\ \A d \in Client : \A p \in Held(d)' :
            p \in Held(d) /\ \A i \in 1..N : arr[d][p] # nodes[i]
      /\ \A d \in Client : \A p \in Held(d) :
            p \in Held(d)' \/ \E i \in 1..N : arr[d][p] = nodes[i]
  <2>1. ASSUME NEW d \in Client, NEW p \in Held(d)'
        PROVE  p \in Held(d) /\ \A i \in 1..N : arr[d][p] # nodes[i]
    <3>1. p \in Held(d) /\ (d = c => p \notin (b + 1)..(b + N))
      BY <2>1 DEF N
    <3>2. ASSUME NEW i \in 1..N PROVE arr[d][p] # nodes[i]
      <4>1. b + i \in (b + 1)..(b + N)
        BY <1>1
      <4> QED
        BY <1>3, <3>1, <4>1 DEF Ownership, HeldDistinct
    <3> QED
      BY <3>1, <3>2
  <2>2. ASSUME NEW d \in Client, NEW p \in Held(d), p \notin Held(d)'
        PROVE  \E i \in 1..N : arr[d][p] = nodes[i]
    <3>1. d = c /\ p \in (b + 1)..(b + N)
      BY <2>2 DEF N
    <3>2. p - b \in 1..N /\ b + (p - b) = p
      BY <1>1, <3>1
    <3> QED
      BY <1>3, <3>1, <3>2
  <2> QED
    BY <2>1, <2>2
<1>7. \A i \in 1..(F + k) :
        \/ i \in 1..F /\ freeNode'[i] = freeNode[i]
        \/ i - F \in 1..k /\ i - F \in 1..N /\ freeNode'[i] = nodes[i - F]
  BY <1>1, <1>2
<1>8. ReserveDistinct'
  <2> SUFFICES ASSUME NEW i \in 1..(F + k), NEW j \in 1..(F + k),
                      freeNode'[i] = freeNode'[j]
               PROVE  i = j
    BY <1>2 DEF ReserveDistinct
  <2>1. CASE i \in 1..F /\ j \in 1..F
    BY <1>1, <1>2, <2>1 DEF Ownership, ReserveDistinct, F
  <2>2. CASE ~(i \in 1..F) /\ ~(j \in 1..F)
    <3>1. i - F = j - F
      BY <1>4, <1>7, <2>2
    <3> QED
      BY <1>1, <1>2, <3>1
  <2>3. CASE i \in 1..F /\ ~(j \in 1..F)
    <3>1. freeNode'[i] = freeNode[i]
      BY <1>1, <1>2, <2>3
    <3>2. j - F \in 1..N /\ freeNode'[j] = nodes[j - F]
      BY <1>7, <2>3
    <3> QED
      BY <1>5, <2>3, <3>1, <3>2
  <2>4. CASE ~(i \in 1..F) /\ j \in 1..F
    <3>1. freeNode'[j] = freeNode[j]
      BY <1>1, <1>2, <2>4
    <3>2. i - F \in 1..N /\ freeNode'[i] = nodes[i - F]
      BY <1>7, <2>4
    <3> QED
      BY <1>5, <2>4, <3>1, <3>2
  <2> QED
    BY <2>1, <2>2, <2>3, <2>4
<1>9. HeldDistinct'
  BY <1>6 DEF Ownership, HeldDistinct
<1>10. HeldNotReserved'
  <2> SUFFICES ASSUME NEW d \in Client, NEW p \in Held(d)', NEW i \in 1..(F + k)
               PROVE  arr[d][p] # freeNode'[i]
    BY <1>2 DEF HeldNotReserved
  <2> QED
    BY <1>6, <1>7 DEF Ownership, HeldNotReserved, F
<1>11. HeapOwned'
  <2> SUFFICES ASSUME NEW m \in Node
               PROVE  m \in heap' <=>
                        \/ \E i \in 1..(F + k) : freeNode'[i] = m
                        \/ \E d \in Client : \E p \in Held(d)' : arr[d][p] = m
    <3>1. \A d \in Client : \A p \in Held(d)' : arr'[d][p] = arr[d][p]
      OBVIOUS
    <3> QED
      BY <1>2, <3>1 DEF HeapOwned
  <2>1. (\E i \in 1..(F + k) : freeNode'[i] = m) <=>
            (\E i \in 1..F : freeNode[i] = m) \/ \E i \in 1..k : nodes[i] = m
    <3>1. \A i \in 1..F : i \in 1..(F + k) /\ freeNode'[i] = freeNode[i]
      BY <1>1, <1>2
    <3>2. \A i \in 1..k : F + i \in 1..(F + k) /\ freeNode'[F + i] = nodes[i]
      BY <1>1, <1>2
    <3> QED
      BY <1>7, <3>1, <3>2
  <2>2. (\E d \in Client : \E p \in Held(d) : arr[d][p] = m) <=>
            \/ \E d \in Client : \E p \in Held(d)' : arr[d][p] = m
            \/ \E i \in 1..N : nodes[i] = m
    <3>1. ASSUME NEW d \in Client, NEW p \in Held(d), arr[d][p] = m
          PROVE  \/ \E x \in Client : \E q \in Held(x)' : arr[x][q] = m
                 \/ \E i \in 1..N : nodes[i] = m
      BY <1>6, <3>1
    <3>2. ASSUME NEW d \in Client, NEW p \in Held(d)', arr[d][p] = m
          PROVE  \E x \in Client : \E q \in Held(x) : arr[x][q] = m
      BY <1>6, <3>2
    <3>3. ASSUME NEW i \in 1..N, nodes[i] = m
          PROVE  \E x \in Client : \E q \in Held(x) : arr[x][q] = m
      BY <1>3, <3>3
    <3> QED
      BY <3>1, <3>2, <3>3
  <2>3. m \in heap' <=> m \in heap /\ \A i \in (k + 1)..N : nodes[i] # m
    BY <1>2
  <2>4. m \in heap <=>
            \/ \E i \in 1..F : freeNode[i] = m
            \/ \E d \in Client : \E p \in Held(d) : arr[d][p] = m
    BY DEF Ownership, HeapOwned, F
  <2>5. /\ \A i \in 1..N : i \in 1..k \/ i \in (k + 1)..N
        /\ 1..k \subseteq 1..N /\ (k + 1)..N \subseteq 1..N
        /\ \A i \in 1..k : \A j \in (k + 1)..N : i # j
    BY <1>1, <1>2
  <2>6. CASE \E i \in (k + 1)..N : nodes[i] = m
    BY <1>4, <1>5, <1>6, <2>1, <2>3, <2>5, <2>6
  <2>7. CASE ~\E i \in (k + 1)..N : nodes[i] = m
    BY <2>1, <2>2, <2>3, <2>4, <2>5, <2>7
  <2> QED
    BY <2>6, <2>7
<1> QED
  BY <1>8, <1>9, <1>10, <1>11 DEF Ownership

\* clean_node_list puts back one node that the get had written: the client
\* holds it.
LEMMA CleanStepOwner ==
    ASSUME PoolInv, Ownership, ~strayed', NEW c \in Client, CleanStep(c)
    PROVE  Ownership'
<1> DEFINE e == lo[c] + 1
           nodes == <<arr[c][e]>>
<1>1. /\ lo[c] \in Nat /\ hi[c] \in 0..MaxNodes /\ want[c] \in 0..MaxNodes
      /\ lo[c] < want[c] /\ lock = c
  BY PoolFacts DEF CleanStep, CleanGoesOn
<1>2. e \in Entry /\ arr[c][e] # NullNode
  BY <1>1, LevelAssumption DEF Entry, CleanStep, CleanGoesOn
<1>3. e \in Held(c)
  <2>1. ~(lo[c] >= hi[c])
    BY Zenon DEF CleanStep
  <2> QED
    BY <1>1, <2>1, LevelAssumption DEF Held
<1>4. arr[c][e] \in Node
  BY <1>2 DEF PoolInv, TypeOK
<1>5. nodes \in Seq(Node) /\ Len(nodes) = 1 /\ nodes[1] = arr[c][e]
  BY <1>4
<1>6. /\ arr' = [arr EXCEPT ![c][e] = NullNode]
      /\ lo' = [lo EXCEPT ![c] = e] /\ hi' = hi /\ PutNodes(nodes)
  BY DEF CleanStep
<1>7. /\ arr \in [Client -> [Entry -> Node \cup {NullNode}]]
      /\ lo \in [Client -> 0..MaxNodes]
  BY DEF PoolInv, TypeOK
<1>8. Held(c)' = Held(c) \ ((lo[c] + 1)..(lo[c] + Len(nodes)))
  <2>1. lo'[c] = lo[c] + 1
    BY <1>6, <1>7
  <2> QED
    BY <1>1, <1>5, <1>6, <2>1, LevelAssumption DEF Held
<1>9. \A d \in Client \ {c} : Held(d)' = Held(d)
  BY <1>6, <1>7 DEF Held
<1>10. \A d \in Client : \A p \in Held(d)' : arr'[d][p] = arr[d][p]
  <2> TAKE d \in Client
  <2> TAKE p \in Held(d)'
  <2>1. d = c => p # e
    BY <1>1, <1>5, <1>8
  <2> QED
    BY <1>6, <1>7, <2>1
<1>11. \A i \in 1..Len(nodes) :
          lo[c] + i \in Held(c) /\ nodes[i] = arr[c][lo[c] + i]
  BY <1>3, <1>5
<1> HIDE DEF nodes
<1> QED
  BY <1>1, <1>5, <1>6, <1>8, <1>9, <1>10, <1>11, GiveBack

LEMMA PutMpNodesOwner ==
    ASSUME PoolInv, Ownership, NEW c \in Client, NEW nr \in 1..MaxNodes,
           NEW clears \in BOOLEAN, PutMpNodes(c, nr, clears)
    PROVE  Ownership'
<1> DEFINE b == hi[c] - nr
           nodes == SubSeq(arr[c], hi[c] - nr + 1, hi[c])
<1>1. /\ nodes \in Seq(Node) /\ Len(nodes) = nr /\ PutNodes(nodes)
      /\ lo[c] = 0 /\ b \in 0..MaxNodes /\ nr \in Nat /\ hi[c] \in 0..MaxNodes
      /\ \A i \in 1..nr : nodes[i] = arr[c][b + i]
  BY PutArgument
<1>2. /\ hi' = [hi EXCEPT ![c] = hi[c] - nr] /\ lo' = lo /\ lock = c
      /\ arr' = IF clears
                THEN [arr EXCEPT ![c] = [p \in Entry |->
                         IF p > b THEN NullNode ELSE arr[c][p]]]
                ELSE arr
  BY DEF PutMpNodes
<1>3. /\ arr \in [Client -> [Entry -> Node \cup {NullNode}]]
      /\ hi \in [Client -> 0..MaxNodes]
  BY DEF PoolInv, TypeOK
<1>4. b + nr = hi[c] /\ b \in Nat
  BY <1>1, LevelAssumption
<1>5. hi'[c] = b /\ \A d \in Client \ {c} : hi'[d] = hi[d]
  BY <1>2, <1>3
<1> HIDE DEF b, nodes
<1>6. Held(c)' = Held(c) \ ((b + 1)..(b + Len(nodes)))
  BY <1>1, <1>2, <1>4, <1>5, LevelAssumption DEF Held
<1>7. \A d \in Client \ {c} : Held(d)' = Held(d)
  BY <1>2, <1>5 DEF Held
<1>8. \A d \in Client : \A p \in Held(d)' : arr'[d][p] = arr[d][p]
  <2> TAKE d \in Client
  <2> TAKE p \in Held(d)'
  <2>1. lo[d] \in Nat /\ hi'[d] \in 0..MaxNodes /\ p \in (lo[d] + 1)..hi'[d]
    <3>1. hi[d] \in 0..MaxNodes /\ lo[d] \in Nat
      BY PoolFacts
    <3>2. hi'[d] \in 0..MaxNodes
      BY <1>1, <1>5, <3>1
    <3> QED
      BY <1>2, <3>1, <3>2 DEF Held
  <2>2. p \in Entry /\ (d = c => ~(p > b))
    BY <1>1, <1>5, <2>1, LevelAssumption DEF Entry
  <2> QED
    BY <1>2, <1>3, <2>2
<1>9. \A i \in 1..Len(nodes) : b + i \in Held(c) /\ nodes[i] = arr[c][b + i]
  BY <1>1, <1>4, LevelAssumption DEF Held
<1> QED
  BY <1>1, <1>2, <1>4, <1>6, <1>7, <1>8, <1>9, GiveBack

\* The freeing loops take nodes off the reserve and off the heap together.
LEMMA FreeDownOwner ==
    ASSUME PoolInv, Ownership, NEW cnt \in Nat, FreeDownTo(cnt), UNCHANGED call
    PROVE  Ownership'
<1> DEFINE F == Len(freeNode)
           L == Len(freeNode')
<1>1. F \in Nat /\ freeNode \in Seq(Node)
  BY LenProperties DEF PoolInv, TypeOK
<1>2. /\ L = IF F > cnt THEN cnt ELSE F
      /\ \A i \in 1..L : freeNode'[i] = freeNode[i]
      /\ heap' = heap \ {freeNode[i] : i \in (L + 1)..F}
  BY <1>1, FreeDownEffect
<1>3. /\ \A c \in Client : Held(c)' = Held(c)
      /\ arr' = arr
  BY DEF call, Held
<1> HIDE DEF F, L
<1>4. /\ L \in Nat /\ 1..L \subseteq 1..F /\ (L + 1)..F \subseteq 1..F
      /\ \A i \in 1..F : i \in 1..L \/ i \in (L + 1)..F
      /\ \A i \in 1..L : \A j \in (L + 1)..F : i # j
  BY <1>1, <1>2
<1>5. ReserveDistinct'
  BY <1>2, <1>4 DEF Ownership, ReserveDistinct, F, L
<1>6. HeldDistinct' /\ HeldNotReserved'
  BY <1>2, <1>3, <1>4 DEF Ownership, HeldDistinct, HeldNotReserved, F, L
<1>7. HeapOwned'
  <2> SUFFICES ASSUME NEW n \in Node
               PROVE  n \in heap' <=>
                        \/ \E i \in 1..L : freeNode'[i] = n
                        \/ \E c \in Client : \E p \in Held(c) : arr[c][p] = n
    BY <1>3 DEF HeapOwned, L
  <2>1. n \in heap <=>
            \/ \E i \in 1..F : freeNode[i] = n
            \/ \E c \in Client : \E p \in Held(c) : arr[c][p] = n
    BY DEF Ownership, HeapOwned, F
  <2>2. n \in heap' <=> n \in heap /\ \A i \in (L + 1)..F : freeNode[i] # n
    BY <1>2
  <2>3. ASSUME NEW i \in (L + 1)..F, freeNode[i] = n
        PROVE  /\ \A j \in 1..L : freeNode[j] # n
               /\ \A c \in Client : \A p \in Held(c) : arr[c][p] # n
    BY <1>4, <2>3 DEF Ownership, ReserveDistinct, HeldNotReserved, F
  <2>4. CASE \E i \in (L + 1)..F : freeNode[i] = n
    BY <1>2, <2>2, <2>3, <2>4
  <2>5. CASE ~\E i \in (L + 1)..F : freeNode[i] = n
    BY <1>2, <1>4, <2>1, <2>2, <2>5
  <2> QED
    BY <2>4, <2>5
<1> QED
  BY <1>5, <1>6, <1>7 DEF Ownership

-----------------------------------------------------------------------------
(* The invariant and the theorem.                                          *)

LEMMA InitOwnership == Init => Ownership
<1> SUFFICES ASSUME Init PROVE Ownership
  OBVIOUS
<1>1. /\ Len(freeNode) = 0 /\ heap = {}
      /\ \A c \in Client : Held(c) = {}
  BY EmptySeq DEF Init, Held
<1> QED
  BY <1>1 DEF Ownership, ReserveDistinct, HeldDistinct,
     HeldNotReserved, HeapOwned

\* Destroying the pool, or giving up creating it.
LEMMA FreeAllOwner ==
    ASSUME PoolInv, Ownership, FreeAll
    PROVE  Ownership'
<1>1. 0 \in Nat /\ FreeDownTo(0) /\ UNCHANGED call
  BY DEF FreeAll
<1> QED
  BY <1>1, FreeDownOwner

LEMMA CreateMpOwner ==
    ASSUME PoolInv, Ownership, NEW levels \in [E_WATER_LEVEL -> 0..MaxLevel],
           CreateMp(levels)
    PROVE  Ownership'
<1>1. freeNode' = freeNode
  BY DEF PoolInv, ReserveShape, CreateMp
<1> QED
  BY <1>1, SameOwners DEF CreateMp, call, Held

\* The steps that touch neither reserve, heap nor arrays.
LEMMA QuietOwner ==
    ASSUME PoolInv, Ownership, NEW c \in Client,
           \/ LockMp(c) \/ UnlockMp(c) \/ GetFail(c) \/ GetDone(c) \/ CleanDone(c)
           \/ \E nr \in 1..MaxNodes : GetBegin(c, nr)
    PROVE  Ownership'
<1>1. freeNode' = freeNode /\ heap' = heap /\ arr' = arr
  BY DEF LockMp, UnlockMp, GetFail, GetDone, CleanDone, CallEnds, GetBegin, pool,
         call
<1>2. CASE CleanDone(c)
  <2>1. hi[c] <= lo[c] /\ lo[c] \in Nat /\ hi[c] \in 0..MaxNodes
    BY <1>2, CleanDoneHoldsNothing, PoolFacts
  <2>2. Held(c) = {} /\ Held(c)' = {}
    <3>1. lo'[c] = 0 /\ hi'[c] = 0
      BY <1>2 DEF CleanDone, PoolInv, TypeOK
    <3> QED
      BY <2>1, <3>1, LevelAssumption DEF Held
  <2>3. \A d \in Client \ {c} : Held(d)' = Held(d)
    <3> TAKE d \in Client \ {c}
    <3>1. lo'[d] = lo[d] /\ hi'[d] = hi[d]
      BY <1>2 DEF CleanDone, PoolInv, TypeOK
    <3> QED
      BY <3>1 DEF Held
  <2> QED
    BY <1>1, <2>2, <2>3, SameOwners
<1>3. CASE ~CleanDone(c)
  <2>1. lo' = lo /\ hi' = hi
    BY <1>3 DEF LockMp, UnlockMp, GetFail, GetDone, GetBegin, call
  <2> QED
    BY <1>1, <2>1, SameOwners DEF Held
<1> QED
  BY <1>2, <1>3

LEMMA OwnershipStep ==
    PoolInv /\ Ownership /\ [Next]_vars /\ ~strayed' => Ownership'
<1> SUFFICES ASSUME PoolInv, Ownership, [Next]_vars, ~strayed'
             PROVE  Ownership'
  OBVIOUS
<1>1. CASE CreateNext
  <2>1. CASE CreateDone
    BY <2>1, SameOwners DEF CreateDone, call, Held
  <2>2. CASE CreateFail \/ DestroyMp
    BY <2>2, FreeAllOwner DEF CreateFail, DestroyMp
  <2> QED
    BY <1>1, <2>1, <2>2, CreateMpOwner, FillOwner DEF CreateNext
<1>2. ASSUME NEW c \in Client, ClientNext(c) PROVE Ownership'
  <2>1. CASE \E level \in E_WATER_LEVEL : UpdateSyswl(c, level)
    <3>1. PICK level \in E_WATER_LEVEL : UpdateSyswl(c, level)
      BY <2>1
    <3>2. wl[level] \in Nat
      BY LevelAssumption DEF PoolInv, TypeOK
    <3> QED
      BY <3>1, <3>2, FreeDownOwner DEF UpdateSyswl
  <2>2. CASE \E levels \in [E_WATER_LEVEL -> 0..MaxLevel] : UpdateMpwl(c, levels)
    <3>1. PICK levels \in [E_WATER_LEVEL -> 0..MaxLevel] : UpdateMpwl(c, levels)
      BY <2>2
    <3>2. levels[syswl] \in Nat
      BY LevelAssumption DEF PoolInv, TypeOK
    <3> QED
      BY <3>1, <3>2, FreeDownOwner DEF UpdateMpwl
  <2>3. CASE CallStep(c)
    BY <2>3, GetAllocOwner, GetReserveOwner, CleanStepOwner, QuietOwner
       DEF CallStep
  <2>4. CASE \E nr \in 1..MaxNodes :
                \/ GetBegin(c, nr)
                \/ \E clears \in BOOLEAN : PutMpNodes(c, nr, clears)
    BY <2>4, PutMpNodesOwner, QuietOwner
  <2> QED
    BY <1>2, <2>1, <2>2, <2>3, <2>4, QuietOwner DEF ClientNext
<1>3. CASE UNCHANGED vars
  BY <1>3, SameOwners DEF vars, Held
<1> QED
  BY <1>1, <1>2, <1>3 DEF Next

\* A cleaning that strayed is not forgotten.
LEMMA StrayedStays == [Next]_vars /\ ~strayed' => ~strayed
<1> SUFFICES ASSUME [Next]_vars, strayed PROVE strayed'
  OBVIOUS
<1>1. CASE CreateNext
  BY <1>1 DEF CreateNext, CreateMp, CreateFill, CreateDone, CreateFail,
     DestroyMp, FreeAll, call
<1>2. ASSUME NEW c \in Client, ClientNext(c)
      PROVE  strayed'
  BY <1>2 DEF ClientNext, CallStep, LockMp, UnlockMp, GetBegin, GetAlloc,
     GetReserve, Receive, GetFail, GetDone, CleanStep, CleanDone, CallEnds,
     PutMpNodes, UpdateSyswl, UpdateMpwl, call
<1>3. CASE UNCHANGED vars
  BY <1>3 DEF vars
<1> QED
  BY <1>1, <1>2, <1>3 DEF Next

\* Every allocated node has exactly one owner in every behaviour, until a
\* failed get has cleaned up entries it had not written.
THEOREM NodesOwnedOnce == Spec => []OwnedUnlessStrayed
<1>1. Init => OwnershipInv
  BY InitPoolInv, InitOwnership DEF OwnershipInv, OwnedUnlessStrayed
<1>2. OwnershipInv /\ [Next]_vars => OwnershipInv'
  <2> SUFFICES ASSUME OwnershipInv, [Next]_vars PROVE OwnershipInv'
    OBVIOUS
  <2>1. PoolInv'
    BY PoolInvStep DEF OwnershipInv
  <2>2. ASSUME ~strayed' PROVE Ownership'
    BY <2>2, StrayedStays, OwnershipStep DEF OwnershipInv, OwnedUnlessStrayed
  <2> QED
    BY <2>1, <2>2 DEF OwnershipInv, OwnedUnlessStrayed
<1>3. OwnershipInv => OwnedUnlessStrayed
  BY DEF OwnershipInv
<1> QED
  BY <1>1, <1>2, <1>3, PTL DEF Spec
=============================================================================
