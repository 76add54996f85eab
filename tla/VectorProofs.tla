---------------------------- MODULE VectorProofs ----------------------------
(* Proofs about the vector, for any threads, elements, lengths and bounds. *)
EXTENDS Vector, WellFoundedInduction, SequenceTheorems, TLAPS

-----------------------------------------------------------------------------
(* Numbers.                                                                *)

\* A set of numbers that is not empty has a least element.
LEMMA LeastNat ==
    ASSUME NEW T, T \subseteq Nat, T # {}
    PROVE  \E x \in T : \A y \in T : x <= y
<1> DEFINE R == OpToRel(<, Nat)
<1>1. IsWellFoundedOn(R, Nat)
  BY NatLessThanWellFounded
<1>2. \A x, y \in Nat : y < x => <<y, x>> \in R
  BY DEF OpToRel
<1> HIDE DEF R
<1>3. PICK x \in T : \A y \in T : ~(<<y, x>> \in R)
  BY <1>1, WFMin
<1>4. \A y \in T : ~(y < x)
  BY <1>2, <1>3
<1> QED
  BY <1>4

-----------------------------------------------------------------------------
(* Sequences and their searches.                                           *)

\* What InsertAt gives: the elements from i on go one place further.
LEMMA InsertAtProperties ==
    ASSUME NEW S, NEW s \in Seq(S), NEW i \in 1..(Len(s) + 1), NEW e \in S
    PROVE  /\ InsertAt(s, i, e) \in Seq(S)
           /\ Len(InsertAt(s, i, e)) = Len(s) + 1
           /\ \A j \in 1..(Len(s) + 1) : InsertAt(s, i, e)[j] =
                IF j < i THEN s[j] ELSE IF j = i THEN e ELSE s[j - 1]
<1> DEFINE a == SubSeq(s, 1, i - 1)
<1> DEFINE b == SubSeq(s, i, Len(s))
<1> DEFINE c == a \o <<e>>
<1>1. Len(s) \in Nat /\ \A j \in 1..Len(s) : s[j] \in S
  OBVIOUS
<1>2. /\ a \in Seq(S) /\ Len(a) = i - 1
      /\ \A j \in 1..(i - 1) : a[j] = s[j]
  <2>1. \A j \in 1..(i - 1) : s[j] \in S
    BY <1>1
  <2> QED
    BY <1>1, <2>1, SubSeqProperties
<1>3. /\ b \in Seq(S) /\ Len(b) = Len(s) - i + 1
      /\ \A j \in 1..(Len(s) - i + 1) : b[j] = s[i + j - 1]
  <2>1. \A j \in i..Len(s) : s[j] \in S
    BY <1>1
  <2> QED
    BY <1>1, <2>1, SubSeqProperties
<1> HIDE DEF a, b
<1>4. /\ c \in Seq(S) /\ Len(c) = i
      /\ \A j \in 1..i : c[j] = IF j < i THEN s[j] ELSE e
  <2>1. <<e>> \in Seq(S) /\ Len(<<e>>) = 1 /\ <<e>>[1] = e
    OBVIOUS
  <2>2. /\ c \in Seq(S) /\ Len(c) = Len(a) + 1
        /\ \A j \in 1..(Len(a) + 1) : c[j] = IF j <= Len(a) THEN a[j] ELSE <<e>>[j - Len(a)]
    BY <1>2, <2>1, ConcatProperties
  <2>3. ASSUME NEW j \in 1..i PROVE c[j] = IF j < i THEN s[j] ELSE e
    BY <1>2, <2>1, <2>2
  <2> QED
    BY <1>2, <2>2, <2>3
<1> HIDE DEF c
<1>5. InsertAt(s, i, e) = c \o b
  BY DEF InsertAt, a, b, c
<1>6. /\ c \o b \in Seq(S) /\ Len(c \o b) = Len(c) + Len(b)
      /\ \A j \in 1..(Len(c) + Len(b)) :
            (c \o b)[j] = IF j <= Len(c) THEN c[j] ELSE b[j - Len(c)]
  BY <1>3, <1>4, ConcatProperties
<1>7. ASSUME NEW j \in 1..(Len(s) + 1)
      PROVE  (c \o b)[j] = IF j < i THEN s[j] ELSE IF j = i THEN e ELSE s[j - 1]
  <2>1. CASE j <= i
    BY <1>1, <1>3, <1>4, <1>6, <2>1
  <2>2. CASE ~(j <= i)
    <3>1. j - i \in 1..(Len(s) - i + 1) /\ i + (j - i) - 1 = j - 1
      BY <1>1, <2>2
    <3>2. b[j - i] = s[j - 1]
      BY <1>3, <3>1
    <3> QED
      BY <1>1, <1>3, <1>4, <1>6, <2>2, <3>2
  <2> QED
    BY <2>1, <2>2
<1>8. Len(c \o b) = Len(s) + 1
  BY <1>1, <1>3, <1>4, <1>6
<1> QED
  BY <1>5, <1>6, <1>7, <1>8

\* What RemoveAt gives: the elements behind i come one place nearer.
LEMMA RemoveAtProperties ==
    ASSUME NEW S, NEW s \in Seq(S), NEW i \in 1..Len(s)
    PROVE  /\ RemoveAt(s, i) \in Seq(S)
           /\ Len(RemoveAt(s, i)) = Len(s) - 1
           /\ \A j \in 1..(Len(s) - 1) :
                RemoveAt(s, i)[j] = IF j < i THEN s[j] ELSE s[j + 1]
<1> DEFINE a == SubSeq(s, 1, i - 1)
<1> DEFINE b == SubSeq(s, i + 1, Len(s))
<1>1. Len(s) \in Nat /\ \A j \in 1..Len(s) : s[j] \in S
  OBVIOUS
<1>2. /\ a \in Seq(S) /\ Len(a) = i - 1
      /\ \A j \in 1..(i - 1) : a[j] = s[j]
  <2>1. \A j \in 1..(i - 1) : s[j] \in S
    BY <1>1
  <2> QED
    BY <1>1, <2>1, SubSeqProperties
<1>3. /\ b \in Seq(S) /\ Len(b) = Len(s) - i
      /\ \A j \in 1..(Len(s) - i) : b[j] = s[i + j]
  <2>1. \A j \in (i + 1)..Len(s) : s[j] \in S
    BY <1>1
  <2>2. /\ b \in Seq(S)
        /\ Len(b) = IF i + 1 <= Len(s) THEN Len(s) - (i + 1) + 1 ELSE 0
        /\ \A j \in 1..(Len(s) - (i + 1) + 1) : b[j] = s[i + 1 + j - 1]
    BY <1>1, <2>1, SubSeqProperties
  <2> HIDE DEF b
  <2>3. ASSUME NEW j \in 1..(Len(s) - i) PROVE b[j] = s[i + j]
    <3>1. j \in 1..(Len(s) - (i + 1) + 1) /\ i + 1 + j - 1 = i + j
      BY <1>1
    <3> QED
      BY <2>2, <3>1
  <2> QED
    BY <1>1, <2>2, <2>3
<1> HIDE DEF a, b
<1>4. RemoveAt(s, i) = a \o b
  BY DEF RemoveAt, a, b
<1>5. /\ a \o b \in Seq(S) /\ Len(a \o b) = Len(a) + Len(b)
      /\ \A j \in 1..(Len(a) + Len(b)) :
            (a \o b)[j] = IF j <= Len(a) THEN a[j] ELSE b[j - Len(a)]
  BY <1>2, <1>3, ConcatProperties
<1>6. ASSUME NEW j \in 1..(Len(s) - 1)
      PROVE  (a \o b)[j] = IF j < i THEN s[j] ELSE s[j + 1]
  <2>1. CASE j < i
    BY <1>1, <1>2, <1>3, <1>5, <2>1
  <2>2. CASE ~(j < i)
    <3>1. j - (i - 1) \in 1..(Len(s) - i) /\ i + (j - (i - 1)) = j + 1
      BY <1>1, <2>2
    <3>2. b[j - (i - 1)] = s[j + 1]
      BY <1>3, <3>1
    <3> QED
      BY <1>1, <1>2, <1>3, <1>5, <2>2, <3>2
  <2> QED
    BY <2>1, <2>2
<1> QED
  BY <1>1, <1>2, <1>3, <1>4, <1>5, <1>6

LEMMA MinIsLeast ==
    ASSUME NEW I, I \subseteq Nat, I # {}
    PROVE  Min(I) \in I /\ \A x \in I : Min(I) <= x
<1>1. \E x \in I : \A y \in I : x <= y
  BY LeastNat
<1> QED
  BY <1>1 DEF Min

\* find_pos: the new element belongs before the one at this place, if there is one,
\* and before none in front of it.
LEMMA FindPosProperties ==
    ASSUME NEW e, items \in Seq(Elem)
    PROVE  /\ FindPos(e) \in 1..(Len(items) + 1)
           /\ \A j \in 1..Len(items) : j < FindPos(e) => ~Before(e, items[j])
           /\ FindPos(e) \in 1..Len(items) => Before(e, items[FindPos(e)])
<1> DEFINE I == {i \in 1..Len(items) : Before(e, items[i])}
<1>1. FindPos(e) = IF (IF I # {} THEN Min(I) ELSE 0) = 0 THEN Len(items) + 1
                   ELSE (IF I # {} THEN Min(I) ELSE 0)
  BY DEF FindPos, SelectInSeq, Used
<1>2. Len(items) \in Nat
  OBVIOUS
<1>3. CASE I = {}
  BY <1>1, <1>2, <1>3
<1>4. CASE I # {}
  <2>1. \A i \in I : i \in Nat
    BY <1>2
  <2>2. Min(I) \in I /\ \A x \in I : Min(I) <= x
    BY <1>4, <2>1, MinIsLeast
  <2> DEFINE m == Min(I)
  <2> HIDE DEF m
  <2>3. m \in 1..Len(items) /\ Before(e, items[m])
    BY <2>2 DEF m
  <2>4. FindPos(e) = m
    BY <1>1, <1>2, <1>4, <2>3 DEF m
  <2>5. ASSUME NEW j \in 1..Len(items), j < m, Before(e, items[j]) PROVE FALSE
    <3>1. j \in I
      BY <2>5
    <3>2. m <= j
      BY <2>2, <3>1 DEF m
    <3> QED
      BY <1>2, <2>3, <2>5, <3>2
  <2> QED
    BY <1>2, <2>3, <2>4, <2>5
<1> QED
  BY <1>3, <1>4

LEMMA FirstEqualType ==
    ASSUME NEW k, items \in Seq(Elem)
    PROVE  FirstEqual(k) \in Nat
<1> DEFINE I == {i \in 1..Len(items) : items[i].key = k}
<1>1. FirstEqual(k) = IF I # {} THEN Min(I) ELSE 0
  BY DEF FirstEqual, SelectInSeq
<1>2. I # {} => Min(I) \in I
  <2>1. \A i \in I : i \in Nat
    OBVIOUS
  <2> QED
    BY <2>1, MinIsLeast
<1>3. \A i \in I : i \in Nat
  OBVIOUS
<1> QED
  BY <1>1, <1>2, <1>3

-----------------------------------------------------------------------------
(* The invariant.                                                          *)

FoundType == found = [t \in Thread |-> found[t]]

\* A writer is alone; what a thread has found it may use only under its lock; a
\* vector that does not exist is not locked.
LockShape ==
    /\ writer # NoThread => readers = {}
    /\ \A t \in Thread : found[t] # <<>> => Holds(t)
    /\ phase = "none" => writer = NoThread /\ readers = {}

\* The vector and its pack are sorted.
OrderShape ==
    /\ Abs!InOrder(order, items)
    /\ pack # NoPack => Abs!InOrder(pack.order, pack.items)

VectorInv ==
    TypeOK /\ FoundType /\ LockShape /\ FoundStaysValid /\ OrderShape

LEMMA AlignedType ==
    ASSUME NEW x \in Nat
    PROVE  Aligned(x) \in Nat /\ x <= Aligned(x)
<1> DEFINE y == x + AlignMask
<1>1. AlignMask \in Nat
  BY LenAssumption
<1>2. Aligned(x) = y \/ Aligned(x) = y - AlignMask
  BY DEF Aligned
<1> QED
  BY <1>1, <1>2

LEMMA NewLenType == vecLen \in Nat => NewLen \in Nat
  BY LenAssumption DEF NewLen

LEMMA EmptyInOrder == \A o : Abs!InOrder(o, <<>>)
  BY DEF Abs!InOrder

\* Insertion at find_pos keeps the order, and puts the element behind its equals.
LEMMA InsertKeepsOrder ==
    ASSUME NEW e \in Elem, items \in Seq(Elem), order \in Order,
           Abs!InOrder(order, items)
    PROVE  /\ Abs!InOrder(order, InsertAt(items, FindPos(e), e))
           /\ \A j \in FindPos(e)..Len(items) :
                    order # "none" /\ items[j].key # e.key
<1> DEFINE n == FindPos(e)
<1> DEFINE new == InsertAt(items, n, e)
<1>1. /\ n \in 1..(Len(items) + 1)
      /\ \A j \in 1..Len(items) : j < n => ~Before(e, items[j])
      /\ n \in 1..Len(items) => Before(e, items[n])
  BY FindPosProperties
<1> HIDE DEF n
<1>2. /\ new \in Seq(Elem) /\ Len(new) = Len(items) + 1
      /\ \A j \in 1..(Len(items) + 1) : new[j] =
            IF j < n THEN items[j] ELSE IF j = n THEN e ELSE items[j - 1]
  <2>1. n \in 1..(Len(items) + 1) /\ items \in Seq(Elem)
    BY <1>1
  <2>2. ASSUME NEW i \in 1..(Len(items) + 1)
        PROVE  /\ InsertAt(items, i, e) \in Seq(Elem)
               /\ Len(InsertAt(items, i, e)) = Len(items) + 1
               /\ \A j \in 1..(Len(items) + 1) : InsertAt(items, i, e)[j] =
                    IF j < i THEN items[j] ELSE IF j = i THEN e ELSE items[j - 1]
    BY InsertAtProperties
  <2> QED
    BY <2>1, <2>2
<1> HIDE DEF new
<1>3. Len(items) \in Nat /\ DOMAIN items = 1..Len(items)
      /\ DOMAIN new = 1..(Len(items) + 1)
  BY <1>2
<1>4. \A j \in 1..Len(items) : items[j] \in Elem /\ items[j].key \in Int
  BY ElemAssumption
<1>5. e.key \in Int
  BY ElemAssumption
<1>6. \A i, j \in 1..Len(items) : i < j => Abs!MayPrecede(order, items[i], items[j])
  BY <1>3 DEF Abs!InOrder
<1>7. ASSUME NEW j \in 1..Len(items), n <= j PROVE Before(e, items[j])
  <2>1. n \in 1..Len(items) /\ Before(e, items[n])
    BY <1>1, <1>3, <1>7
  <2>2. CASE n = j
    BY <2>1, <2>2
  <2>3. CASE n < j
    <3>1. Abs!MayPrecede(order, items[n], items[j])
      BY <1>6, <2>1, <2>3
    <3> QED
      BY <1>4, <1>5, <2>1, <3>1 DEF Before, Abs!MayPrecede
  <2> QED
    BY <1>1, <1>3, <1>7, <2>2, <2>3
<1>8. ASSUME NEW j \in 1..Len(items), j < n PROVE Abs!MayPrecede(order, items[j], e)
  BY <1>1, <1>4, <1>5, <1>8 DEF Before, Abs!MayPrecede, Order
<1>9. ASSUME NEW j \in 1..Len(items), n <= j PROVE Abs!MayPrecede(order, e, items[j])
  BY <1>4, <1>5, <1>7, <1>9 DEF Before, Abs!MayPrecede
<1>10. ASSUME NEW i \in 1..(Len(items) + 1), NEW j \in 1..(Len(items) + 1), i < j
       PROVE  Abs!MayPrecede(order, new[i], new[j])
  <2>1. CASE j < n
    BY <1>1, <1>2, <1>3, <1>6, <1>10, <2>1
  <2>2. CASE j = n
    BY <1>1, <1>2, <1>3, <1>8, <1>10, <2>2
  <2>3. CASE n < j
    <3>1. new[j] = items[j - 1] /\ j - 1 \in 1..Len(items) /\ n <= j - 1
      BY <1>1, <1>2, <1>3, <2>3
    <3>2. CASE i < n
      <4>1. new[i] = items[i] /\ i \in 1..Len(items) /\ i < j - 1
        BY <1>1, <1>2, <1>3, <2>3, <3>2
      <4> QED
        BY <1>6, <3>1, <4>1
    <3>3. CASE i = n
      BY <1>2, <1>9, <3>1, <3>3
    <3>4. CASE n < i
      <4>1. new[i] = items[i - 1] /\ i - 1 \in 1..Len(items) /\ i - 1 < j - 1
        BY <1>1, <1>2, <1>3, <1>10, <3>4
      <4> QED
        BY <1>6, <3>1, <4>1
    <3> QED
      BY <1>1, <3>2, <3>3, <3>4
  <2> QED
    BY <1>1, <2>1, <2>2, <2>3
<1>11. Abs!InOrder(order, new)
  BY <1>3, <1>10 DEF Abs!InOrder
<1>12. ASSUME NEW j \in n..Len(items)
       PROVE  order # "none" /\ items[j].key # e.key
  <2>1. j \in 1..Len(items) /\ n <= j
    BY <1>1, <1>3
  <2>2. Before(e, items[j])
    BY <1>7, <2>1
  <2> QED
    BY <1>4, <1>5, <2>1, <2>2 DEF Before
<1> QED
  BY <1>11, <1>12 DEF n, new

LEMMA InsertType ==
    ASSUME NEW e \in Elem, items \in Seq(Elem), NEW i \in 1..(Len(items) + 1)
    PROVE  /\ InsertAt(items, i, e) \in Seq(Elem)
           /\ Len(InsertAt(items, i, e)) = Len(items) + 1
  BY InsertAtProperties

\* Removal keeps the order too.
LEMMA RemoveKeepsOrder ==
    ASSUME NEW o, NEW s \in Seq(Elem), NEW i \in 1..Len(s), Abs!InOrder(o, s)
    PROVE  Abs!InOrder(o, RemoveAt(s, i))
<1> DEFINE new == RemoveAt(s, i)
<1>1. /\ new \in Seq(Elem) /\ Len(new) = Len(s) - 1
      /\ \A j \in 1..(Len(s) - 1) : new[j] = IF j < i THEN s[j] ELSE s[j + 1]
  BY RemoveAtProperties
<1> HIDE DEF new
<1>2. Len(s) \in Nat /\ DOMAIN s = 1..Len(s) /\ DOMAIN new = 1..(Len(s) - 1)
  BY <1>1
<1>3. ASSUME NEW j \in 1..(Len(s) - 1), NEW k \in 1..(Len(s) - 1), j < k
      PROVE  Abs!MayPrecede(o, new[j], new[k])
  <2> DEFINE p == IF j < i THEN j ELSE j + 1
  <2> DEFINE q == IF k < i THEN k ELSE k + 1
  <2>1. new[j] = s[p] /\ new[k] = s[q]
    BY <1>1
  <2>2. p \in 1..Len(s) /\ q \in 1..Len(s) /\ p < q
    BY <1>2, <1>3
  <2> HIDE DEF p, q
  <2> QED
    BY <1>2, <2>1, <2>2 DEF Abs!InOrder
<1> QED
  BY <1>2, <1>3 DEF Abs!InOrder, new

LEMMA VectorInvInit == Init => VectorInv
<1> SUFFICES ASSUME Init PROVE VectorInv
  OBVIOUS
<1>1. items \in Seq(Elem)
  BY EmptySeq DEF Init
<1>2. TypeOK
  BY <1>1 DEF Init, TypeOK, Order
<1>3. FoundType
  BY DEF Init, FoundType
<1>4. LockShape /\ FoundStaysValid
  BY DEF Init, LockShape, FoundStaysValid
<1>6. OrderShape
  BY EmptyInOrder DEF Init, OrderShape
<1> QED
  BY <1>2, <1>3, <1>4, <1>6 DEF VectorInv

-----------------------------------------------------------------------------
(* A thread that writes the vector is alone with it.                       *)

\* What Forget does to the finds of the other threads: nothing, and the writer is
\* the only one that had any.
LEMMA WriterForgets ==
    ASSUME VectorInv, NEW t \in Thread, writer = t, Forget(t)
    PROVE  found' = [u \in Thread |-> <<>>]
<1>1. found = [u \in Thread |-> found[u]]
  BY DEF VectorInv, FoundType
<1>2. t # NoThread /\ readers = {}
  BY ThreadAssumption DEF VectorInv, LockShape
<1>3. \A u \in Thread : u # t => found[u] = <<>>
  BY <1>2 DEF VectorInv, LockShape, Holds
<1>4. found' = [found EXCEPT ![t] = <<>>]
  BY DEF Forget
<1>5. found' = [u \in Thread |-> IF u = t THEN <<>> ELSE found[u]]
  BY <1>1, <1>4
<1> QED
  BY <1>3, <1>5

\* The parts of the invariant about finds, when nobody has any.
LEMMA NothingFound ==
    ASSUME found' = [u \in Thread |-> <<>>]
    PROVE  /\ FoundType' /\ FoundStaysValid'
           /\ \A u \in Thread : found'[u] = <<>>
  BY DEF FoundType, FoundStaysValid

LEMMA AddKeeps ==
    ASSUME VectorInv, NEW t \in Thread, NEW e \in Elem, Add(t, e)
    PROVE  VectorInv'
<1> USE DEF VectorInv
<1>1. /\ phase = "live" /\ Used <= room /\ writer = t
      /\ room' = IF Full THEN NewLen ELSE room
      /\ items' = InsertAt(items, FindPos(e), e)
      /\ Forget(t)
      /\ UNCHANGED <<phase, order, vecLen, writer, readers, pack>>
  BY DEF Add, Usable, lock
<1>2. items \in Seq(Elem) /\ Len(items) \in Nat /\ order \in Order /\ room \in Nat
      /\ vecLen \in Nat
  BY DEF TypeOK
<1>3. /\ found' = [u \in Thread |-> <<>>]
      /\ FoundType' /\ FoundStaysValid' /\ \A u \in Thread : found'[u] = <<>>
  BY <1>1, WriterForgets, NothingFound
<1>4. items' \in Seq(Elem) /\ Len(items') = Len(items) + 1
  <2>1. FindPos(e) \in 1..(Len(items) + 1)
    BY <1>2, FindPosProperties
  <2>2. ASSUME NEW i \in 1..(Len(items) + 1)
        PROVE  /\ InsertAt(items, i, e) \in Seq(Elem)
               /\ Len(InsertAt(items, i, e)) = Len(items) + 1
    BY <1>2, InsertType
  <2> QED
    BY <1>1, <2>1, <2>2
<1>5. NewLen \in Nat /\ NewLen' = NewLen
  BY <1>1, <1>2, NewLenType DEF NewLen
<1>6. TypeOK'
  BY <1>1, <1>2, <1>3, <1>4, <1>5 DEF TypeOK
<1>7. LockShape'
  BY <1>1, <1>3 DEF LockShape
<1>9. OrderShape'
  <2>1. Abs!InOrder(order, InsertAt(items, FindPos(e), e))
    BY <1>2, InsertKeepsOrder DEF OrderShape
  <2>2. Abs!InOrder(order, items')
    BY <1>1, <2>1
  <2> QED
    BY <1>1, <2>2 DEF OrderShape, Abs!InOrder, Abs!MayPrecede
<1> QED
  BY <1>3, <1>6, <1>7, <1>9

LEMMA DelKeeps ==
    ASSUME VectorInv, NEW t \in Thread, NEW i \in Offset, Del(t, i)
    PROVE  VectorInv'
<1> USE DEF VectorInv
<1>1. /\ phase = "live" /\ Used <= room /\ writer = t
      /\ Used = 0 \/ i \in DOMAIN items
      /\ items' = IF Used = 0 THEN items ELSE RemoveAt(items, i)
      /\ Forget(t)
      /\ UNCHANGED <<phase, order, vecLen, room, writer, readers, pack>>
  BY DEF Del, Usable, lock
<1>2. items \in Seq(Elem) /\ room \in Nat /\ vecLen \in Nat
  BY DEF TypeOK
<1>3. /\ found' = [u \in Thread |-> <<>>]
      /\ FoundType' /\ FoundStaysValid' /\ \A u \in Thread : found'[u] = <<>>
  BY <1>1, WriterForgets, NothingFound
<1>4. items' \in Seq(Elem)
  <2>1. CASE Used = 0
    BY <1>1, <1>2, <2>1
  <2>2. CASE Used # 0
    <3>1. i \in 1..Len(items) /\ items' = RemoveAt(items, i)
      BY <1>1, <1>2, <2>2
    <3> QED
      BY <1>2, <3>1, RemoveAtProperties
  <2> QED
    BY <2>1, <2>2
<1>5. TypeOK'
  BY <1>1, <1>3, <1>4 DEF TypeOK
<1>6. LockShape'
  BY <1>1, <1>3 DEF LockShape
<1>8. OrderShape'
  <2>1. CASE Used = 0
    BY <1>1, <2>1 DEF OrderShape, Abs!InOrder, Abs!MayPrecede
  <2>2. CASE Used # 0
    <3>1. i \in 1..Len(items) /\ items' = RemoveAt(items, i)
      BY <1>1, <1>2, <2>2
    <3>2. Abs!InOrder(order, items')
      BY <1>2, <3>1, RemoveKeepsOrder DEF OrderShape
    <3> QED
      BY <1>1, <3>2 DEF OrderShape, Abs!InOrder, Abs!MayPrecede
  <2> QED
    BY <2>1, <2>2
<1> QED
  BY <1>3, <1>5, <1>6, <1>8

\* The steps that make a vector or end one.
LEMMA LifeKeeps ==
    ASSUME VectorInv,
           \/ \E n \in InitLens, o \in Order : GetVector(n, o)
           \/ FreeVector \/ Restart \/ Import
           \/ \E t \in Thread : AddFails(t)
           \/ \E t \in Thread, i \in Offset : DelOutside(t, i)
    PROVE  VectorInv'
<1> USE DEF VectorInv
<1>1. CASE \E n \in InitLens, o \in Order : GetVector(n, o)
  <2>1. PICK n \in InitLens, o \in Order : GetVector(n, o)
    BY <1>1
  <2>2. /\ phase = "none" /\ phase' = "live" /\ order' = o /\ items' = <<>>
        /\ vecLen' = (IF n = 0 THEN DftLen ELSE Aligned(n))
        /\ room' = vecLen'
        /\ UNCHANGED <<writer, readers, found, pack>>
    BY <2>1 DEF GetVector, lock
  <2>3. vecLen' \in Nat
    BY <2>2, AlignedType, LenAssumption
  <2>4. items' \in Seq(Elem) /\ Len(items') = 0
    BY <2>2, EmptySeq
  <2>5. writer = NoThread /\ readers = {} /\ \A t \in Thread : found[t] = <<>>
    BY <2>2, ThreadAssumption DEF LockShape, Holds
  <2>6. TypeOK'
    BY <2>2, <2>3, <2>4 DEF TypeOK
  <2>7. LockShape' /\ FoundType' /\ FoundStaysValid'
    BY <2>2, <2>5 DEF LockShape, FoundType, FoundStaysValid
  <2>9. OrderShape'
    BY <2>2, EmptyInOrder DEF OrderShape, Abs!InOrder, Abs!MayPrecede
  <2> QED
    BY <2>6, <2>7, <2>9
<1>2. CASE \/ FreeVector \/ Restart
           \/ \E t \in Thread : AddFails(t)
           \/ \E t \in Thread, i \in Offset : DelOutside(t, i)
  <2>1. /\ phase' \in {"none", "broken"} /\ order' = "none" /\ items' = <<>>
        /\ vecLen' = 0 /\ room' = 0 /\ pack' = pack
    BY <1>2 DEF FreeVector, Restart, ProcessEnds, DelOutside, AddFails, Gone
  <2>2. items' \in Seq(Elem) /\ Len(items') = 0
    BY <2>1, EmptySeq
  <2>3. /\ writer' \in Thread \cup {NoThread} /\ readers' \in SUBSET Thread
        /\ writer' # NoThread => readers' = {}
        /\ phase' = "none" => writer' = NoThread /\ readers' = {}
    BY <1>2 DEF FreeVector, Restart, ProcessEnds, DelOutside, AddFails, Gone, lock, TypeOK, LockShape
  <2>4. found' = [u \in Thread |-> <<>>]
    <3>1. CASE FreeVector
      <4>1. writer = NoThread /\ readers = {} /\ found' = found
        BY <3>1 DEF FreeVector, lock
      <4>2. \A t \in Thread : found[t] = <<>>
        BY <4>1, ThreadAssumption DEF LockShape, Holds
      <4> QED
        BY <4>1, <4>2 DEF FoundType
    <3>2. CASE Restart \/ \E t \in Thread, i \in Offset : DelOutside(t, i)
      BY <3>2 DEF Restart, DelOutside, ProcessEnds
    <3>3. CASE \E t \in Thread : AddFails(t)
      BY <3>3, WriterForgets DEF AddFails
    <3> QED
      BY <1>2, <3>1, <3>2, <3>3
  <2>5. FoundType' /\ FoundStaysValid' /\ \A u \in Thread : found'[u] = <<>>
    BY <2>4, NothingFound
  <2>6. TypeOK'
    BY <2>1, <2>2, <2>3, <2>5 DEF TypeOK, Order
  <2>7. LockShape'
    BY <2>3, <2>5 DEF LockShape
  <2>9. OrderShape'
    BY <2>1, EmptyInOrder DEF OrderShape, Abs!InOrder, Abs!MayPrecede
  <2> QED
    BY <2>5, <2>6, <2>7, <2>9
<1>3. CASE Import
  <2>1. /\ phase = "none" /\ pack # NoPack /\ phase' = "live"
        /\ order' = pack.order /\ items' = pack.items /\ vecLen' = pack.vecLen
        /\ room' = Len(pack.items)
        /\ UNCHANGED <<writer, readers, found, pack>>
    BY <1>3 DEF Import, lock
  <2>2. /\ pack.order \in Order /\ pack.items \in Seq(Elem) /\ pack.vecLen \in Nat
        /\ Len(pack.items) \in Nat
    BY <2>1 DEF TypeOK
  <2>3. writer = NoThread /\ readers = {} /\ \A t \in Thread : found[t] = <<>>
    BY <2>1, ThreadAssumption DEF LockShape, Holds
  <2>4. TypeOK'
    BY <2>1, <2>2 DEF TypeOK
  <2>5. LockShape' /\ FoundType' /\ FoundStaysValid'
    BY <2>1, <2>3 DEF LockShape, FoundType, FoundStaysValid
  <2>7. OrderShape'
    BY <2>1 DEF OrderShape, Abs!InOrder, Abs!MayPrecede
  <2> QED
    BY <2>4, <2>5, <2>7
<1> QED
  BY <1>1, <1>2, <1>3

LEMMA FirstEqualKept ==
    ASSUME items' = items
    PROVE  \A k : FirstEqual(k)' = FirstEqual(k)
  BY DEF FirstEqual, SelectInSeq

\* The steps that leave the array alone.
LEMMA QuietKeeps ==
    ASSUME VectorInv, NEW t \in Thread,
           \/ ReadLock(t) \/ WriteLock(t) \/ Unlock(t) \/ Export(t) \/ FreePack
           \/ \E e \in Elem : Find(t, e.key)
    PROVE  VectorInv'
<1> USE DEF VectorInv
<1>1. UNCHANGED <<phase, order, items, vecLen, room>>
  BY DEF ReadLock, WriteLock, Unlock, Export, FreePack, Find
<1>2. items \in Seq(Elem) /\ Len(items) \in Nat /\ order \in Order
  BY DEF TypeOK
<1>3. \A k : FirstEqual(k)' = FirstEqual(k)
  BY <1>1, FirstEqualKept
<1>4. CASE ReadLock(t) \/ WriteLock(t)
  <2>1. UNCHANGED <<found, pack>>
    BY <1>4 DEF ReadLock, WriteLock
  <2>2. /\ writer' \in Thread \cup {NoThread} /\ readers' \in SUBSET Thread
        /\ writer' # NoThread => readers' = {}
        /\ \A u \in Thread : Holds(u) => Holds(u)'
        /\ phase = "live"
    BY <1>4, ThreadAssumption
    DEF ReadLock, WriteLock, Usable, TypeOK, LockShape, Holds
  <2>3. TypeOK' /\ FoundType'
    BY <1>1, <2>1, <2>2 DEF TypeOK, FoundType
  <2>4. LockShape'
    BY <1>1, <2>1, <2>2 DEF LockShape
  <2>5. FoundStaysValid'
    BY <1>3, <2>1 DEF FoundStaysValid
  <2>6. OrderShape'
    BY <1>1, <2>1 DEF OrderShape, Abs!InOrder, Abs!MayPrecede
  <2> QED
    BY <2>3, <2>4, <2>5, <2>6
<1>5. CASE Unlock(t)
  <2>1. /\ Holds(t) /\ pack' = pack
        /\ writer' = IF writer = t THEN NoThread ELSE writer
        /\ readers' = readers \ {t}
        /\ found' = [found EXCEPT ![t] = <<>>]
    BY <1>5 DEF Unlock, Forget
  <2>2. found' = [u \in Thread |-> IF u = t THEN <<>> ELSE found[u]]
    BY <2>1 DEF FoundType
  <2>3. TypeOK'
    BY <1>1, <2>1, <2>2 DEF TypeOK
  <2>4. FoundType' /\ FoundStaysValid'
    BY <1>3, <2>2 DEF FoundType, FoundStaysValid
  <2>5. LockShape'
    <3>1. phase' = "none" => writer' = NoThread /\ readers' = {}
      BY <1>1, <2>1 DEF LockShape
    <3>2. writer' # NoThread => readers' = {}
      BY <2>1 DEF LockShape
    <3>3. \A u \in Thread : found'[u] # <<>> => Holds(u)'
      BY <2>1, <2>2 DEF LockShape, Holds
    <3> QED
      BY <3>1, <3>2, <3>3 DEF LockShape
  <2>7. OrderShape'
    BY <1>1, <2>1 DEF OrderShape, Abs!InOrder, Abs!MayPrecede
  <2> QED
    BY <2>3, <2>4, <2>5, <2>7
<1>6. CASE \E e \in Elem : Find(t, e.key)
  <2>1. PICK e \in Elem : Find(t, e.key)
    BY <1>6
  <2>2. /\ Holds(t)
        /\ found' = [found EXCEPT ![t] = [key |-> e.key, at |-> FirstEqual(e.key)]]
        /\ UNCHANGED <<writer, readers, pack>>
    BY <2>1 DEF Find, lock
  <2>3. e.key \in Int /\ FirstEqual(e.key) \in Nat
    BY <1>2, ElemAssumption, FirstEqualType
  <2> DEFINE f == [key |-> e.key, at |-> FirstEqual(e.key)]
  <2>4. found' = [u \in Thread |-> IF u = t THEN f ELSE found[u]]
    BY <2>2 DEF FoundType
  <2>5. TypeOK'
    <3>1. f \in [key : Int, at : Nat]
      BY <2>3
    <3>2. \A u \in Thread : found'[u] = <<>> \/ found'[u] \in [key : Int, at : Nat]
      BY <2>4, <3>1 DEF TypeOK
    <3> QED
      BY <1>1, <2>2, <3>2 DEF TypeOK
  <2>6. FoundType'
    BY <2>4 DEF FoundType
  <2>7. FoundStaysValid'
    BY <1>3, <2>4 DEF FoundStaysValid
  <2>8. LockShape'
    <3>1. \A u \in Thread : found'[u] # <<>> => Holds(u)'
      BY <2>2, <2>4 DEF LockShape, Holds
    <3> QED
      BY <1>1, <2>2, <3>1 DEF LockShape
  <2>9. OrderShape'
    BY <1>1, <2>2 DEF OrderShape, Abs!InOrder, Abs!MayPrecede
  <2> QED
    BY <2>5, <2>6, <2>7, <2>8, <2>9
<1>7. CASE Export(t) \/ FreePack
  <2>1. UNCHANGED <<writer, readers, found>>
    BY <1>7 DEF Export, FreePack, lock
  <2>2. \/ pack' = NoPack
        \/ pack' = [order |-> order, items |-> items, vecLen |-> Aligned(Used)]
    BY <1>7 DEF Export, FreePack
  <2>3. Aligned(Used) \in Nat /\ Len(items) <= Aligned(Used)
    BY <1>2, AlignedType DEF Used
  <2>4. TypeOK'
    BY <1>1, <1>2, <2>1, <2>2, <2>3 DEF TypeOK
  <2>5. FoundType' /\ LockShape'
    BY <1>1, <2>1 DEF FoundType, LockShape, Holds
  <2>6. FoundStaysValid'
    BY <1>3, <2>1 DEF FoundStaysValid
  <2>8. OrderShape'
    BY <1>1, <2>2 DEF OrderShape, Abs!InOrder, Abs!MayPrecede
  <2> QED
    BY <2>4, <2>5, <2>6, <2>8
<1> QED
  BY <1>4, <1>5, <1>6, <1>7

LEMMA VectorInvStep == VectorInv /\ [Next]_vars => VectorInv'
<1> SUFFICES ASSUME VectorInv, [Next]_vars PROVE VectorInv'
  OBVIOUS
<1>1. CASE \E n \in InitLens, o \in Order : GetVector(n, o)
  BY <1>1, LifeKeeps
<1>2. CASE \/ FreeVector \/ Restart \/ Import
           \/ \E t \in Thread : AddFails(t)
           \/ \E t \in Thread, i \in Offset : DelOutside(t, i)
  BY <1>2, LifeKeeps
<1>3. CASE \E t \in Thread, e \in Elem : Add(t, e)
  BY <1>3, AddKeeps
<1>4. CASE \E t \in Thread : \E i \in Offset : Del(t, i)
  BY <1>4, DelKeeps
<1>5. CASE \E t \in Thread :
              \/ ReadLock(t) \/ WriteLock(t) \/ Unlock(t) \/ Export(t)
              \/ \E e \in Elem : Find(t, e.key)
  BY <1>5, QuietKeeps
<1>6. CASE FreePack
  <2>1. /\ UNCHANGED <<phase, order, items, vecLen, room, writer, readers, found>>
        /\ pack' = NoPack
    BY <1>6 DEF FreePack, lock
  <2>2. TypeOK' /\ FoundType' /\ LockShape'
    BY <2>1 DEF VectorInv, TypeOK, FoundType, LockShape, Holds
  <2>3. FoundStaysValid'
    BY <2>1, FirstEqualKept DEF VectorInv, FoundStaysValid
  <2>4. OrderShape'
    BY <2>1 DEF VectorInv, OrderShape, Abs!InOrder, Abs!MayPrecede
  <2> QED
    BY <2>2, <2>3, <2>4 DEF VectorInv
<1>7. CASE UNCHANGED vars
  <2>1. UNCHANGED <<phase, order, items, vecLen, room, writer, readers, found, pack>>
    BY <1>7 DEF vars
  <2>2. TypeOK' /\ FoundType' /\ LockShape'
    BY <2>1 DEF VectorInv, TypeOK, FoundType, LockShape, Holds
  <2>3. FoundStaysValid'
    BY <2>1, FirstEqualKept DEF VectorInv, FoundStaysValid
  <2>4. OrderShape'
    BY <2>1 DEF VectorInv, OrderShape, Abs!InOrder, Abs!MayPrecede
  <2> QED
    BY <2>2, <2>3, <2>4 DEF VectorInv
<1> QED
  BY <1>1, <1>2, <1>3, <1>4, <1>5, <1>6, <1>7 DEF Next

-----------------------------------------------------------------------------
(* The refinement.                                                         *)

LEMMA AbsInit == Init => Abs!Init
  BY DEF Init, Abs!Init

\* Adding is inserting behind the equals.
LEMMA AddInserts ==
    ASSUME VectorInv, NEW t \in Thread, NEW e \in Elem, Add(t, e)
    PROVE  Abs!Insert(e)
<1>1. /\ phase = "live" /\ items' = InsertAt(items, FindPos(e), e)
      /\ UNCHANGED <<phase, order, pack>>
  BY DEF Add, Usable
<1>2. items \in Seq(Elem) /\ order \in Order /\ Abs!InOrder(order, items)
  BY DEF VectorInv, TypeOK, OrderShape
<1>3. FindPos(e) \in 1..(Len(items) + 1)
  BY <1>2, FindPosProperties
<1>4. /\ Abs!InOrder(order, items')
      /\ \A j \in FindPos(e)..Len(items) : order # "none" /\ items[j].key # e.key
  BY <1>1, <1>2, InsertKeepsOrder
<1> QED
  BY <1>1, <1>3, <1>4 DEF Abs!Insert, Abs!InsertAt, InsertAt

LEMMA AbsStep == VectorInv /\ [Next]_vars => [Abs!Next]_(Abs!vars)
<1> SUFFICES ASSUME VectorInv, [Next]_vars PROVE Abs!Next \/ UNCHANGED Abs!vars
  OBVIOUS
<1>1. CASE \E n \in InitLens, o \in Order : GetVector(n, o)
  <2>1. PICK n \in InitLens, o \in Order : GetVector(n, o)
    BY <1>1
  <2>2. Abs!Create(o)
    BY <2>1 DEF GetVector, Abs!Create
  <2> QED
    BY <2>2 DEF Abs!Next, Abs!Order, Order
<1>2. CASE \/ FreeVector \/ Restart
           \/ \E t \in Thread : AddFails(t)
           \/ \E t \in Thread, i \in Offset : DelOutside(t, i)
  <2>1. Abs!Lose
    BY <1>2 DEF FreeVector, Restart, ProcessEnds, DelOutside, AddFails, Gone, Abs!Lose
  <2> QED
    BY <2>1 DEF Abs!Next
<1>3. CASE Import
  <2>1. /\ phase = "none" /\ pack # NoPack /\ phase' = "live"
        /\ order' = pack.order /\ items' = pack.items /\ pack' = pack
    BY <1>3 DEF Import
  <2>2. [order |-> pack.order, items |-> pack.items] # NoPack
    BY <2>1, NoPackAssumption DEF VectorInv, TypeOK
  <2>3. Abs!Load
    BY <2>1, <2>2 DEF Abs!Load
  <2> QED
    BY <2>3 DEF Abs!Next
<1>4. CASE FreePack
  <2>1. Abs!Discard
    BY <1>4 DEF FreePack, Abs!Discard
  <2> QED
    BY <2>1 DEF Abs!Next
<1>5. CASE \E t \in Thread : ReadLock(t) \/ WriteLock(t) \/ Unlock(t)
                             \/ \E e \in Elem : Find(t, e.key)
  BY <1>5 DEF ReadLock, WriteLock, Unlock, Find, Abs!vars
<1>6. CASE \E t \in Thread, e \in Elem : Add(t, e)
  <2>1. PICK t \in Thread, e \in Elem : Add(t, e)
    BY <1>6
  <2>2. Abs!Insert(e)
    BY <2>1, AddInserts
  <2> QED
    BY <2>2 DEF Abs!Next
<1>7. CASE \E t \in Thread : Export(t)
  <2>1. PICK t \in Thread : Export(t)
    BY <1>7
  <2>2. /\ phase = "live"
        /\ pack' = [order |-> order, items |-> items, vecLen |-> Aligned(Used)]
        /\ UNCHANGED <<phase, order, items>>
    BY <2>1 DEF Export, Usable
  <2>3. pack' # NoPack
    <3>1. items \in Seq(Elem) /\ order \in Order /\ Used \in Nat
      BY DEF VectorInv, TypeOK, Used
    <3>2. pack' \in [order : Order, items : Seq(Elem), vecLen : Nat]
      BY <2>2, <3>1, AlignedType
    <3> QED
      BY <3>2, NoPackAssumption
  <2>4. Abs!Save
    BY <2>2, <2>3 DEF Abs!Save
  <2> QED
    BY <2>4 DEF Abs!Next
<1>8. CASE \E t \in Thread : \E i \in Offset : Del(t, i)
  <2>1. PICK t \in Thread, i \in Offset : Del(t, i)
    BY <1>8
  <2>2. CASE Used = 0
    BY <2>1, <2>2 DEF Del, Abs!vars
  <2>3. CASE Used # 0
    <3>1. i \in DOMAIN items /\ Abs!Delete(i)
      BY <2>1, <2>3 DEF Del, Usable, Abs!Delete, Abs!RemoveAt, RemoveAt
    <3> QED
      BY <3>1 DEF Abs!Next
  <2> QED
    BY <2>2, <2>3
<1>9. CASE UNCHANGED vars
  BY <1>9 DEF vars, Abs!vars
<1> QED
  BY <1>1, <1>2, <1>3, <1>4, <1>5, <1>6, <1>7, <1>8, <1>9 DEF Next

-----------------------------------------------------------------------------
(* The theorems.                                                           *)

\* The invariant holds in every reachable state.
THEOREM VectorInvariant == Spec => []VectorInv
<1>1. Init => VectorInv
  BY VectorInvInit
<1>2. VectorInv /\ [Next]_vars => VectorInv'
  BY VectorInvStep
<1> QED
  BY <1>1, <1>2, PTL DEF Spec

\* The variables keep their types, whatever threads, elements and lengths there are.
THEOREM TypeCorrect == Spec => []TypeOK
<1>1. VectorInv => TypeOK
  BY DEF VectorInv
<1> QED
  BY <1>1, VectorInvariant, PTL

\* An offset that do_vec_find returned stays right while its lock is held.
THEOREM FoundAlwaysValid == Spec => []FoundStaysValid
<1>1. VectorInv => FoundStaysValid
  BY DEF VectorInv
<1> QED
  BY <1>1, VectorInvariant, PTL

\* The vector is an ordered list: it starts as one, and every step of it, with its
\* lock, its memory and its packs, is a step of the list or leaves it as it is.
THEOREM VectorIsOrderedList == Spec => ImplementsOrderedList
<1>1. Init => Abs!Init
  BY AbsInit
<1>2. VectorInv /\ [Next]_vars => [Abs!Next]_(Abs!vars)
  BY AbsStep
<1> QED
  BY <1>1, <1>2, VectorInvariant, PTL DEF Spec, ImplementsOrderedList, Abs!Spec
=============================================================================
