-------------------------- MODULE LinkedListProofs --------------------------
(***************************************************************************)
(* The circular lists of list.h act on sequences, for any finite number of *)
(* lists and entries.  The invariant (Fits, Sequenced): from each head in  *)
(* use the next pointers lead through the sequence View has for it and     *)
(* back to the head, the prev pointers the same way backwards, and every   *)
(* other entry in use is a ring of its own.  From it no entry is on two    *)
(* places (Apart), the rings are closed, and two pointers tell what is on  *)
(* the list.                                                               *)
(*                                                                         *)
(* The functions are taken one by one, on any links l and any set r of     *)
(* cells in use: a path is cut in two at the place where a function works, *)
(* and only the pointers across that place change (PathSides).  What a     *)
(* function leaves alone is stated once (Touches, Restores, FitsChanged).  *)
(*                                                                         *)
(* A walk then is a place on the way through its list (Ahead): behind it   *)
(* what it has visited, ahead of it first what was there when it began and *)
(* is still to be visited, then what came later.                           *)
(*                                                                         *)
(* The last part proves the skip list.                                     *)
(***************************************************************************)
EXTENDS LinkedList, SkipList, FiniteSetTheorems, WellFoundedInduction, SequenceTheorems, TLAPS

\* A set of numbers that is not empty has a least element.
LEMMA LeastNat ==
    ASSUME NEW T, T \subseteq Nat, T # {}
    PROVE  \E x \in T : \A y \in T : x <= y
<1> DEFINE R == OpToRel(<, Nat)
<1>1. IsWellFoundedOn(R, Nat)
  BY NatLessThanWellFounded
<1>2. \A x, y \in Nat : y < x => <<y, x>> \in R
  BY DEF OpToRel
<1> HIDE DEF R
<1>3. PICK x \in T : \A y \in T : ~(<<y, x>> \in R)
  BY <1>1, WFMin
<1>4. \A y \in T : ~(y < x)
  BY <1>2, <1>3
<1> QED
  BY <1>4

\* Induction, for a set.
LEMMA Induction ==
    ASSUME NEW S, 0 \in S, \A n \in Nat : n \in S => n + 1 \in S
    PROVE  Nat \subseteq S
<1> SUFFICES ASSUME Nat \ S # {} PROVE FALSE
  OBVIOUS
<1>1. PICK x \in Nat \ S : \A y \in Nat \ S : x <= y
  BY LeastNat
<1>2. x # 0 /\ x - 1 \in Nat
  BY <1>1
<1>3. x - 1 \in S
  BY <1>1, <1>2
<1> QED
  BY <1>1, <1>2, <1>3

-----------------------------------------------------------------------------
(* Sequences of cells in the links.                                        *)

\* b comes after a, and a before b.
Edge(l, a, b) == l.next[a] = b /\ l.prev[b] = a

\* The cells of a path: c, those of s, d.
At(c, s, d, i) == IF i = 0 THEN c ELSE IF i = Len(s) + 1 THEN d ELSE s[i]

\* The links lead from c through s to d, and back.
Path(l, c, s, d) == \A i \in 0..Len(s) : Edge(l, At(c, s, d, i), At(c, s, d, i + 1))

\* The cell behind c, and the one before d.
First(s, d) == IF s = <<>> THEN d ELSE s[1]
Final(c, s) == IF s = <<>> THEN c ELSE s[Len(s)]

\* A path in other links: its ends may be others, within it nothing changed.
LEMMA PathMoved ==
    ASSUME NEW l, NEW m, NEW c, NEW d, NEW a, NEW b, NEW S, NEW s \in Seq(S),
           Path(l, c, s, d), Edge(m, a, First(s, b)), Edge(m, Final(a, s), b),
           \A i \in 1..Len(s) - 1 : /\ m.next[s[i]] = l.next[s[i]]
                                    /\ m.prev[s[i + 1]] = l.prev[s[i + 1]]
    PROVE  Path(m, a, s, b)
<1>0. Len(s) \in Nat /\ (s = <<>> <=> Len(s) = 0)
  BY EmptySeq
<1> SUFFICES ASSUME NEW i \in 0..Len(s)
             PROVE  Edge(m, At(a, s, b, i), At(a, s, b, i + 1))
  BY DEF Path
<1>1. CASE i = 0
  BY <1>0, <1>1 DEF At, First
<1>2. CASE i # 0 /\ i = Len(s)
  BY <1>0, <1>2 DEF At, Final
<1>3. CASE i # 0 /\ i # Len(s)
  <2>1. Edge(l, s[i], s[i + 1])
    <3>1. Edge(l, At(c, s, d, i), At(c, s, d, i + 1))
      BY DEF Path
    <3> QED
      BY <1>0, <1>3, <3>1 DEF At
  <2>2. i \in 1..Len(s) - 1
    BY <1>0, <1>3
  <2>3. Edge(m, s[i], s[i + 1])
    BY <2>1, <2>2 DEF Edge
  <2> QED
    BY <1>0, <1>3, <2>3 DEF At
<1> QED
  BY <1>1, <1>2, <1>3

\* The first and the last step of a path.
LEMMA PathEnds ==
    ASSUME NEW l, NEW c, NEW d, NEW S, NEW s \in Seq(S), Path(l, c, s, d)
    PROVE  Edge(l, c, First(s, d)) /\ Edge(l, Final(c, s), d)
<1>0. Len(s) \in Nat /\ (s = <<>> <=> Len(s) = 0)
  BY EmptySeq
<1>1. /\ Edge(l, At(c, s, d, 0), At(c, s, d, 0 + 1))
      /\ Edge(l, At(c, s, d, Len(s)), At(c, s, d, Len(s) + 1))
  BY <1>0 DEF Path
<1> QED
  BY <1>0, <1>1 DEF At, First, Final

\* One path after the other.
LEMMA PathConcat ==
    ASSUME NEW l, NEW c, NEW d, NEW S, NEW s \in Seq(S), NEW t \in Seq(S)
    PROVE  Path(l, c, s \o t, d) <=> /\ Path(l, c, s, First(t, d))
                                     /\ Path(l, Final(c, s), t, d)
<1> DEFINE u == s \o t
           x == First(t, d)
           y == Final(c, s)
<1>0. /\ Len(s) \in Nat /\ Len(t) \in Nat
      /\ (s = <<>> <=> Len(s) = 0) /\ (t = <<>> <=> Len(t) = 0)
  BY EmptySeq
<1>1. /\ u \in Seq(S) /\ Len(u) = Len(s) + Len(t)
      /\ \A i \in 1..Len(s) : u[i] = s[i]
      /\ \A i \in 1..Len(t) : u[Len(s) + i] = t[i]
  BY <1>0, ConcatProperties
<1> HIDE DEF u
<1>2. \A i \in 0..Len(s) : At(c, s, x, i) = At(c, u, d, i)
  BY <1>0, <1>1 DEF At
<1>3. At(c, s, x, Len(s) + 1) = At(c, u, d, Len(s) + 1)
  <2>1. CASE t = <<>>
    BY <1>0, <1>1, <2>1 DEF At, First
  <2>2. CASE t # <<>>
    <3>1. u[Len(s) + 1] = t[1]
      BY <1>0, <1>1, <2>2
    <3> QED
      BY <1>0, <1>1, <2>2, <3>1 DEF At, First
  <2> QED
    BY <2>1, <2>2
<1>4. ASSUME NEW i \in 1..Len(t) + 1
      PROVE  At(y, t, d, i) = At(c, u, d, Len(s) + i)
  <2>1. CASE i = Len(t) + 1
    <3>1. i # 0 /\ Len(s) + i # 0 /\ Len(s) + i = Len(u) + 1
      BY <1>0, <1>1, <2>1
    <3> QED
      BY <2>1, <3>1 DEF At
  <2>2. CASE i # Len(t) + 1
    <3>1. i \in 1..Len(t) /\ i # 0 /\ Len(s) + i # 0 /\ Len(s) + i # Len(u) + 1
      <4>1. \A p, q, w \in Nat : \A k \in 1..q + 1 : w = p + q /\ k # q + 1
                => k \in 1..q /\ k # 0 /\ p + k # 0 /\ p + k # w + 1
        OBVIOUS
      <4>2. Len(u) \in Nat /\ Len(u) = Len(s) + Len(t)
        BY <1>0, <1>1
      <4> QED
        BY <1>0, <2>2, <4>1, <4>2
    <3>2. u[Len(s) + i] = t[i]
      BY <1>1, <3>1
    <3> QED
      BY <2>2, <3>1, <3>2 DEF At
  <2> QED
    BY <2>1, <2>2
<1>5. At(y, t, d, 0) = At(c, u, d, Len(s))
  BY <1>0, <1>1 DEF At, Final
<1> DEFINE E(i) == Edge(l, At(c, u, d, i), At(c, u, d, i + 1))
<1>6. Path(l, c, s, x) <=> \A i \in 0..Len(s) : E(i)
  <2>1. ASSUME NEW i \in 0..Len(s)
        PROVE  Edge(l, At(c, s, x, i), At(c, s, x, i + 1)) <=> E(i)
    <3>1. At(c, s, x, i) = At(c, u, d, i) /\ At(c, s, x, i + 1) = At(c, u, d, i + 1)
      <4>1. i + 1 \in 0..Len(s) \/ i = Len(s)
        BY <1>0
      <4> QED
        BY <1>2, <1>3, <4>1
    <3> QED
      BY <3>1, Zenon
  <2> HIDE DEF E
  <2> QED
    BY <2>1 DEF Path
<1>7. Path(l, y, t, d) <=> \A i \in 0..Len(t) : E(Len(s) + i)
  <2>1. ASSUME NEW i \in 0..Len(t)
        PROVE  Edge(l, At(y, t, d, i), At(y, t, d, i + 1)) <=> E(Len(s) + i)
    <3>1. At(y, t, d, i) = At(c, u, d, Len(s) + i)
      <4>1. i \in 1..Len(t) + 1 \/ (i = 0 /\ Len(s) + i = Len(s))
        BY <1>0
      <4> QED
        BY <1>4, <1>5, <4>1
    <3>2. At(y, t, d, i + 1) = At(c, u, d, (Len(s) + i) + 1)
      <4>1. i + 1 \in 1..Len(t) + 1 /\ Len(s) + (i + 1) = (Len(s) + i) + 1
        BY <1>0
      <4> QED
        BY <1>4, <4>1
    <3> QED
      BY <3>1, <3>2, Zenon
  <2> HIDE DEF E
  <2> QED
    BY <2>1 DEF Path
<1>8. Path(l, c, u, d) <=> \A i \in 0..Len(u) : E(i)
  BY DEF Path
<1> HIDE DEF E
<1>9. (\A i \in 0..Len(u) : E(i))
      <=> (\A i \in 0..Len(s) : E(i)) /\ (\A i \in 0..Len(t) : E(Len(s) + i))
  <2>1. ASSUME \A i \in 0..Len(s) : E(i), \A i \in 0..Len(t) : E(Len(s) + i),
               NEW i \in 0..Len(u)
        PROVE  E(i)
    <3>1. CASE i \in 0..Len(s)
      BY <2>1, <3>1
    <3>2. CASE i \notin 0..Len(s)
      <4>1. i - Len(s) \in 0..Len(t) /\ Len(s) + (i - Len(s)) = i
        BY <1>0, <1>1, <3>2
      <4> QED
        BY <2>1, <4>1
    <3> QED
      BY <3>1, <3>2
  <2>2. \A i \in 0..Len(s) : i \in 0..Len(u)
    BY <1>0, <1>1
  <2>3. \A i \in 0..Len(t) : Len(s) + i \in 0..Len(u)
    BY <1>0, <1>1
  <2> QED
    BY <2>1, <2>2, <2>3
<1> HIDE DEF x, y
<1>10. Path(l, c, u, d) <=> Path(l, c, s, x) /\ Path(l, y, t, d)
  BY <1>6, <1>7, <1>8, <1>9, Zenon
<1> QED
  BY <1>10 DEF u, x, y

-----------------------------------------------------------------------------
(* The lists as sequences.                                                 *)

Inj(s) == \A i, j \in 1..Len(s) : s[i] = s[j] => i = j

\* v has, for each head in use, what its ring leads through; every other entry
\* in use is a ring of its own.
Fits(l, r, v) ==
    /\ l \in Links /\ r \in SUBSET Cells
    /\ v \in [Lists -> Seq(Entries \cup {Null})]
    /\ \A h \in Lists \cap r : v[h] \in Seq(Entries \cap r) /\ Path(l, h, v[h], h)
    /\ \A h \in Lists \ r : v[h] = <<Null>>
    /\ \A e \in Entries \cap r : Edge(l, e, e) \/ \E h \in Lists \cap r : Contains(v[h], e)

\* An entry is on one list at most, and there once: going back from it leads to
\* one head, by so many steps.
LEMMA Apart ==
    ASSUME NEW l, NEW r, NEW v, Fits(l, r, v),
           NEW g \in Lists \cap r, NEW h \in Lists \cap r,
           NEW i \in 1..Len(v[g]), NEW j \in 1..Len(v[h]), v[g][i] = v[h][j]
    PROVE  g = h /\ i = j
<1>0. \A k \in Lists \cap r : /\ v[k] \in Seq(Entries \cap r) /\ Len(v[k]) \in Nat
                              /\ k \notin Entries /\ Path(l, k, v[k], k)
  BY CellsAssumption DEF Fits
<1> DEFINE N == {n \in Nat : \A a, b \in Lists \cap r :
                    n \in 0..Len(v[a]) => \A q \in 0..Len(v[b]) :
                        At(a, v[a], a, n) = At(b, v[b], b, q) => a = b /\ n = q}
<1>1. \A k \in Lists \cap r : \A q \in 1..Len(v[k]) : At(k, v[k], k, q) = v[k][q] /\ v[k][q] \in Entries
  BY <1>0 DEF At
<1>2. \A k \in Lists \cap r : At(k, v[k], k, 0) = k
  BY DEF At
<1>3. 0 \in N
  <2> SUFFICES ASSUME NEW a \in Lists \cap r, NEW b \in Lists \cap r, NEW q \in 0..Len(v[b]),
                      At(a, v[a], a, 0) = At(b, v[b], b, q)
               PROVE  a = b /\ 0 = q
    OBVIOUS
  <2>1. q = 0
    <3> SUFFICES ASSUME q # 0 PROVE FALSE
      OBVIOUS
    <3>1. q \in 1..Len(v[b])
      BY <1>0
    <3> QED
      BY <1>0, <1>1, <1>2, <3>1
  <2> QED
    BY <1>2, <2>1
<1>4. ASSUME NEW n \in Nat, n \in N PROVE n + 1 \in N
  <2> SUFFICES ASSUME NEW a \in Lists \cap r, NEW b \in Lists \cap r, n + 1 \in 0..Len(v[a]),
                      NEW q \in 0..Len(v[b]), At(a, v[a], a, n + 1) = At(b, v[b], b, q)
               PROVE  a = b /\ n + 1 = q
    OBVIOUS
  <2>1. n + 1 \in 1..Len(v[a]) /\ n \in 0..Len(v[a])
    BY <1>0
  <2>2. q # 0
    BY <1>0, <1>1, <1>2, <2>1
  <2>3. q - 1 \in 0..Len(v[b]) /\ (q - 1) + 1 = q
    BY <1>0, <2>2
  <2>4. l.prev[At(a, v[a], a, n + 1)] = At(a, v[a], a, n)
    BY <1>0, <2>1 DEF Path, Edge
  <2>5. l.prev[At(b, v[b], b, q)] = At(b, v[b], b, q - 1)
    <3>1. Edge(l, At(b, v[b], b, q - 1), At(b, v[b], b, (q - 1) + 1))
      BY <1>0, <2>3 DEF Path
    <3> QED
      BY <2>3, <3>1 DEF Edge
  <2>6. At(a, v[a], a, n) = At(b, v[b], b, q - 1)
    BY <2>4, <2>5, Zenon
  <2>7. a = b /\ n = q - 1
    BY <1>4, <2>1, <2>3, <2>6
  <2> QED
    BY <2>3, <2>7
<1>5. Nat \subseteq N
  <2> HIDE DEF N
  <2> QED
    BY <1>3, <1>4, Induction
<1>6. i \in N /\ i \in 0..Len(v[g]) /\ j \in 0..Len(v[h])
  BY <1>0, <1>5
<1> QED
  BY <1>1, <1>6

\* An entry that is not in use, or is a ring of its own, is on no list.
LEMMA LooseEntry ==
    ASSUME NEW l, NEW r, NEW v, Fits(l, r, v), NEW e \in Entries, e \notin r \/ l.next[e] = e,
           NEW h \in Lists \cap r
    PROVE  ~Contains(v[h], e)
<1>0. v[h] \in Seq(Entries \cap r) /\ Len(v[h]) \in Nat /\ h \notin Entries /\ Path(l, h, v[h], h)
  BY CellsAssumption DEF Fits
<1> SUFFICES ASSUME NEW i \in 1..Len(v[h]), v[h][i] = e PROVE FALSE
  BY DEF Contains
<1>1. l.next[e] = e
  BY <1>0
<1>2. Edge(l, v[h][i], At(h, v[h], h, i + 1))
  <2>1. i \in 0..Len(v[h]) /\ i # 0 /\ i # Len(v[h]) + 1
    BY <1>0
  <2> QED
    BY <1>0, <2>1 DEF Path, At
<1>3. At(h, v[h], h, i + 1) = v[h][i]
  BY <1>1, <1>2 DEF Edge
<1>4. i + 1 \in 1..Len(v[h])
  BY <1>0, <1>3 DEF At
<1>5. v[h][i + 1] = v[h][i]
  BY <1>0, <1>3, <1>4 DEF At
<1> QED
  BY <1>4, <1>5, Apart

\* A head that is in use and is a ring of its own has no entry.
LEMMA LooseHead ==
    ASSUME NEW l, NEW r, NEW v, Fits(l, r, v), NEW h \in Lists \cap r, l.next[h] = h
    PROVE  v[h] = <<>>
<1>0. v[h] \in Seq(Entries \cap r) /\ h \notin Entries /\ Path(l, h, v[h], h)
  BY CellsAssumption DEF Fits
<1>1. Edge(l, h, First(v[h], h))
  BY <1>0, PathEnds
<1> SUFFICES ASSUME v[h] # <<>> PROVE FALSE
  OBVIOUS
<1>2. v[h][1] \in Entries
  BY <1>0, EmptySeq
<1> QED
  BY <1>0, <1>1, <1>2 DEF First, Edge

-----------------------------------------------------------------------------
(* What a walk meets.                                                      *)

\* There are finitely many cells.
LEMMA CellsNumber == Cardinality(Cells) \in Nat
BY CellsAssumption, FS_CardinalityType

\* Nth is what it is defined by.
LEMMA NthSteps ==
    ASSUME NEW l, NEW dir, NEW c
    PROVE  LET f == Nth(l, dir, c)
           IN  /\ DOMAIN f = 0..Cardinality(Cells)
               /\ f[0] = c
               /\ \A k \in 1..Cardinality(Cells) :
                      f[k] = IF f[k - 1] = Null THEN Null ELSE l[dir][f[k - 1]]
<1> DEFINE K == Cardinality(Cells)
           Upto(n, f) == f = [k \in 0..n |->
                IF k = 0 THEN c ELSE IF f[k - 1] = Null THEN Null ELSE l[dir][f[k - 1]]]
           N == {n \in Nat : \E f : Upto(n, f)}
<1>0. K \in Nat
  BY CellsNumber
<1> HIDE DEF K
<1>1. 0 \in N
  <2>1. Upto(0, [k \in 0..0 |-> c])
    BY SMT
  <2> HIDE DEF Upto
  <2> QED
    BY <2>1
<1>2. ASSUME NEW n \in Nat, n \in N PROVE n + 1 \in N
  <2>1. PICK f : Upto(n, f)
    BY <1>2
  <2> DEFINE last == IF f[n] = Null THEN Null ELSE l[dir][f[n]]
             g == [k \in 0..n + 1 |-> IF k = n + 1 THEN last ELSE f[k]]
  <2>2. g[n + 1] = last /\ \A k \in 0..n : g[k] = f[k]
    <3> HIDE DEF last
    <3> QED
      OBVIOUS
  <2>3. g = [k \in 0..n + 1 |-> g[k]]
    OBVIOUS
  <2> HIDE DEF g
  <2>4. \A k \in 0..n + 1 : g[k] = IF k = 0 THEN c
                                   ELSE IF g[k - 1] = Null THEN Null ELSE l[dir][g[k - 1]]
    <3> SUFFICES ASSUME NEW k \in 0..n + 1
                 PROVE  g[k] = IF k = 0 THEN c
                               ELSE IF g[k - 1] = Null THEN Null ELSE l[dir][g[k - 1]]
      OBVIOUS
    <3>1. CASE k = n + 1
      <4>1. k # 0 /\ k - 1 = n /\ n \in 0..n
        BY <3>1
      <4>2. g[k] = last /\ g[k - 1] = f[n]
        BY <2>2, <3>1, <4>1
      <4> QED
        BY <4>1, <4>2
    <3>2. CASE k # n + 1
      <4>1. k \in 0..n /\ (k # 0 => k - 1 \in 0..n)
        BY <3>2
      <4>2. g[k] = f[k] /\ (k # 0 => g[k - 1] = f[k - 1])
        BY <2>2, <4>1
      <4>3. f[k] = IF k = 0 THEN c ELSE IF f[k - 1] = Null THEN Null ELSE l[dir][f[k - 1]]
        BY <2>1, <4>1
      <4> QED
        BY <4>2, <4>3
    <3> QED
      BY <3>1, <3>2
  <2>5. Upto(n + 1, g)
    BY <2>3, <2>4
  <2> HIDE DEF Upto
  <2> QED
    BY <2>5
<1>3. Nat \subseteq N
  <2> HIDE DEF N
  <2> QED
    BY <1>1, <1>2, Induction
<1>4. \E f : Upto(K, f)
  <2> HIDE DEF Upto
  <2> QED
    BY <1>0, <1>3
<1>5. Nth(l, dir, c) = CHOOSE f : Upto(K, f)
  BY DEF Nth, K
<1>6. Upto(K, Nth(l, dir, c))
  <2> HIDE DEF Upto
  <2> QED
    BY <1>4, <1>5, Zenon
<1> DEFINE f == Nth(l, dir, c)
<1>7. f = [k \in 0..K |->
                IF k = 0 THEN c ELSE IF f[k - 1] = Null THEN Null ELSE l[dir][f[k - 1]]]
  BY <1>6, Zenon
<1> HIDE DEF f
<1>8. /\ DOMAIN f = 0..K
      /\ f[0] = c
      /\ \A k \in 1..K : f[k] = IF f[k - 1] = Null THEN Null ELSE l[dir][f[k - 1]]
  BY <1>0, <1>7
<1> QED
  BY <1>8 DEF f, K

\* A walk that is led from the first cell of s to its last, and then to h, is s.
LEMMA WalkIs ==
    ASSUME NEW l, NEW dir, NEW h, NEW S, NEW s \in Seq(S), Len(s) <= Cardinality(Cells),
           \A i \in 1..Len(s) : /\ s[i] # h /\ s[i] # Null
                                /\ l[dir][s[i]] = IF i = Len(s) THEN h ELSE s[i + 1]
    PROVE  From(l, dir, First(s, h), h) = s
<1> DEFINE K == Cardinality(Cells)
           n == Len(s)
           f == Nth(l, dir, First(s, h))
           ends == {k \in DOMAIN f : f[k] = h}
<1>0. K \in Nat /\ n \in Nat /\ n <= K /\ (s = <<>> <=> n = 0)
  BY CellsNumber, EmptySeq
<1>1. /\ DOMAIN f = 0..K /\ f[0] = First(s, h)
      /\ \A k \in 1..K : f[k] = IF f[k - 1] = Null THEN Null ELSE l[dir][f[k - 1]]
  BY NthSteps
<1> DEFINE N == {k \in Nat : k <= n => f[k] = IF k = n THEN h ELSE s[k + 1]}
<1> HIDE DEF f, K
<1>2. 0 \in N
  BY <1>0, <1>1 DEF First
<1>3. ASSUME NEW k \in Nat, k \in N PROVE k + 1 \in N
  <2> SUFFICES ASSUME k + 1 <= n PROVE f[k + 1] = IF k + 1 = n THEN h ELSE s[(k + 1) + 1]
    OBVIOUS
  <2>1. k + 1 \in 1..K /\ k + 1 \in 1..n /\ k # n /\ k <= n /\ (k + 1) - 1 = k
    BY <1>0
  <2>2. f[k] = s[k + 1]
    BY <1>3, <2>1
  <2>3. f[k + 1] = IF f[k] = Null THEN Null ELSE l[dir][f[k]]
    BY <1>1, <2>1
  <2>4. /\ s[k + 1] # Null
        /\ l[dir][s[k + 1]] = IF k + 1 = n THEN h ELSE s[(k + 1) + 1]
    BY <2>1
  <2> HIDE DEF n
  <2> QED
    BY <2>2, <2>3, <2>4
<1>4. Nat \subseteq N
  <2> HIDE DEF N
  <2> QED
    BY <1>2, <1>3, Induction
<1>5. \A k \in 0..n : f[k] = IF k = n THEN h ELSE s[k + 1]
  BY <1>0, <1>4
<1>6. n \in ends /\ \A k \in ends : n <= k
  <2>1. n \in ends
    BY <1>0, <1>1, <1>5
  <2>2. ASSUME NEW k \in ends, ~(n <= k) PROVE FALSE
    <3>1. k \in 0..K /\ f[k] = h
      BY <1>1
    <3>2. k \in 0..n /\ k # n /\ k + 1 \in 1..n
      BY <1>0, <2>2, <3>1
    <3>3. f[k] = s[k + 1] /\ s[k + 1] # h
      BY <1>5, <3>2
    <3> QED
      BY <3>1, <3>3
  <2> QED
    BY <2>1, <2>2
<1> DEFINE m == CHOOSE k \in ends : \A j \in ends : k <= j
<1>7. m = n
  <2>1. ends \subseteq Nat
    BY <1>0, <1>1
  <2> HIDE DEF ends, n
  <2>2. m \in ends /\ \A j \in ends : m <= j
    BY <1>6
  <2> HIDE DEF m
  <2> QED
    BY <1>0, <1>6, <2>1, <2>2
<1>8. From(l, dir, First(s, h), h)
      = IF ends = {} THEN <<Null>> ELSE [i \in 1..m |-> f[i - 1]]
  BY DEF From, f
<1>9. [i \in 1..n |-> f[i - 1]] = s
  <2>1. \A i \in 1..n : f[i - 1] = s[i]
    <3> SUFFICES ASSUME NEW i \in 1..n PROVE f[i - 1] = s[i]
      OBVIOUS
    <3>1. i - 1 \in 0..n /\ i - 1 # n /\ (i - 1) + 1 = i
      BY <1>0
    <3> QED
      BY <1>5, <3>1
  <2> HIDE DEF f
  <2> QED
    BY <2>1
<1> HIDE DEF m, ends
<1> QED
  BY <1>6, <1>7, <1>8, <1>9

\* No entry is twice on a list.
LEMMA ListsInj ==
    ASSUME NEW l, NEW r, NEW v, Fits(l, r, v), NEW h \in Lists \cap r
    PROVE  Inj(v[h])
BY Apart DEF Inj

\* A sequence of cells that has none twice is no longer than there are cells.
LEMMA InjShort ==
    ASSUME NEW s \in Seq(Cells), Inj(s)
    PROVE  Len(s) <= Cardinality(Cells)
<1>1. Len(s) \in Nat /\ s \in [1..Len(s) -> Cells]
  BY LenProperties
<1>2. s \in Injection(1..Len(s), Cells)
  BY <1>1 DEF Inj, Injection, IsInjective
<1>3. Cardinality(1..Len(s)) <= Cardinality(Cells)
  BY <1>2, CellsAssumption, FS_Injection
<1>4. Cardinality(1..Len(s)) = Len(s)
  <2>1. Cardinality(1..Len(s)) = IF 1 > Len(s) THEN 0 ELSE Len(s) - 1 + 1
    BY <1>1, FS_Interval
  <2> QED
    BY <1>1, <2>1
<1> QED
  BY <1>3, <1>4

\* What is on the list is what its ring leads through.
LEMMA ListIs ==
    ASSUME NEW l, NEW r, NEW v, Fits(l, r, v), NEW h \in Lists \cap r
    PROVE  ListOf(l, "next", h) = v[h]
<1> DEFINE s == v[h]
<1>1. s \in Seq(Entries \cap r) /\ Path(l, h, s, h)
  BY DEF Fits
<1>2. Len(s) <= Cardinality(Cells)
  <2>1. s \in Seq(Cells)
    BY <1>1 DEF Cells
  <2> QED
    BY <2>1, ListsInj, InjShort
<1>3. ASSUME NEW i \in 1..Len(s)
      PROVE  /\ s[i] # h /\ s[i] # Null
             /\ l["next"][s[i]] = IF i = Len(s) THEN h ELSE s[i + 1]
  <2>0. Len(s) \in Nat /\ s[i] \in Entries
    BY <1>1
  <2>1. Edge(l, At(h, s, h, i), At(h, s, h, i + 1))
    <3>1. i \in 0..Len(s)
      BY <2>0
    <3> QED
      BY <1>1, <3>1 DEF Path
  <2>2. At(h, s, h, i) = s[i] /\ At(h, s, h, i + 1) = IF i = Len(s) THEN h ELSE s[i + 1]
    BY <2>0 DEF At
  <2>3. l.next[s[i]] = IF i = Len(s) THEN h ELSE s[i + 1]
    BY <2>1, <2>2 DEF Edge
  <2> QED
    BY <2>0, <2>3, CellsAssumption DEF Cells
<1>4. l["next"][h] = First(s, h)
  BY <1>1, PathEnds DEF Edge
<1> HIDE DEF s
<1>5. From(l, "next", First(s, h), h) = s
  BY <1>1, <1>2, <1>3, WalkIs
<1> QED
  BY <1>4, <1>5 DEF ListOf, s

\* The view is made of these sequences.
LEMMA ViewIs ==
    ASSUME NEW v, Fits(links, ring, v)
    PROVE  v = View
<1>1. v = [h \in Lists |-> v[h]]
  BY DEF Fits
<1>2. ASSUME NEW h \in Lists PROVE v[h] = IF h \in ring THEN On(h) ELSE <<Null>>
  <2>1. CASE h \in ring
    BY <2>1, ListIs DEF On
  <2>2. CASE h \notin ring
    BY <2>2 DEF Fits
  <2> QED
    BY <2>1, <2>2
<1>3. [h \in Lists |-> v[h]] = [h \in Lists |-> IF h \in ring THEN On(h) ELSE <<Null>>]
  BY <1>2, Zenon
<1> QED
  BY <1>1, <1>3, Zenon DEF View

\* The tests say what is so.
LEMMA FitsTests ==
    ASSUME NEW v, Fits(links, ring, v)
    PROVE  TestsTellTheList
<1> SUFFICES ASSUME NEW h \in Lists \cap ring
             PROVE  /\ ListEmpty(links, h) <=> On(h) = <<>>
                    /\ ListEmptyCareful(links, h) <=> On(h) = <<>>
                    /\ ListIsSingular(links, h) <=> Len(On(h)) = 1
                    /\ \A i \in 1..Len(On(h)) : ListIsLast(links, On(h)[i], h) <=> i = Len(On(h))
  BY DEF TestsTellTheList
<1> DEFINE s == v[h]
<1>0. On(h) = s
  BY ListIs DEF On
<1>1. s \in Seq(Entries \cap ring) /\ Path(links, h, s, h) /\ Inj(s) /\ h \notin Entries
  BY ListsInj, CellsAssumption DEF Fits
<1> HIDE DEF s
<1>2. Len(s) \in Nat /\ (s = <<>> <=> Len(s) = 0) /\ \A i \in 1..Len(s) : s[i] \in Entries
  BY <1>1, EmptySeq
<1>3. links.next[h] = First(s, h) /\ links.prev[h] = Final(h, s)
  BY <1>1, PathEnds DEF Edge
<1>4. ListEmpty(links, h) <=> s = <<>>
  BY <1>1, <1>2, <1>3 DEF ListEmpty, First
<1>5. ListEmptyCareful(links, h) <=> s = <<>>
  BY <1>1, <1>2, <1>3 DEF ListEmptyCareful, First, Final
<1>6. ListIsSingular(links, h) <=> Len(s) = 1
  <2>1. CASE s = <<>>
    BY <1>2, <1>4, <2>1 DEF ListIsSingular
  <2>2. CASE s # <<>>
    <3>1. links.next[h] = s[1] /\ links.prev[h] = s[Len(s)] /\ 1 \in 1..Len(s) /\ Len(s) \in 1..Len(s)
      BY <1>2, <1>3, <2>2 DEF First, Final
    <3>2. s[1] = s[Len(s)] <=> 1 = Len(s)
      BY <1>1, <3>1 DEF Inj
    <3> QED
      BY <1>4, <2>2, <3>1, <3>2 DEF ListIsSingular
  <2> QED
    BY <2>1, <2>2
<1>7. ASSUME NEW i \in 1..Len(s) PROVE ListIsLast(links, s[i], h) <=> i = Len(s)
  <2>1. Edge(links, At(h, s, h, i), At(h, s, h, i + 1))
    <3>1. i \in 0..Len(s)
      BY <1>2
    <3> QED
      BY <1>1, <3>1 DEF Path
  <2>2. At(h, s, h, i) = s[i] /\ At(h, s, h, i + 1) = IF i = Len(s) THEN h ELSE s[i + 1]
    BY <1>2 DEF At
  <2>3. links.next[s[i]] = IF i = Len(s) THEN h ELSE s[i + 1]
    BY <2>1, <2>2 DEF Edge
  <2>4. i # Len(s) => s[i + 1] \in Entries
    BY <1>2
  <2> QED
    BY <1>1, <2>3, <2>4 DEF ListIsLast
<1> QED
  BY <1>0, <1>4, <1>5, <1>6, <1>7

-----------------------------------------------------------------------------
(* Paths that change at one end.                                           *)

\* What lies behind the start of a path is kept: it may start elsewhere.
LEMMA PathRestart ==
    ASSUME NEW l, NEW m, NEW c, NEW d, NEW a, NEW S, NEW s \in Seq(S), Path(l, c, s, d),
           Edge(m, a, First(s, d)),
           \A j \in 1..Len(s) : m.next[s[j]] = l.next[s[j]],
           \A j \in 2..Len(s) : m.prev[s[j]] = l.prev[s[j]],
           s # <<>> => m.prev[d] = l.prev[d]
    PROVE  Path(m, a, s, d)
<1>0. Len(s) \in Nat /\ (s = <<>> <=> Len(s) = 0)
  BY EmptySeq
<1>1. Edge(l, Final(c, s), d)
  BY PathEnds
<1>2. Edge(m, Final(a, s), d)
  <2>1. CASE s = <<>>
    BY <2>1 DEF Final, First
  <2>2. CASE s # <<>>
    <3>1. Len(s) \in 1..Len(s)
      BY <1>0, <2>2
    <3> QED
      BY <1>1, <2>2, <3>1 DEF Final, Edge
  <2> QED
    BY <2>1, <2>2
<1>3. \A j \in 1..Len(s) - 1 : /\ m.next[s[j]] = l.next[s[j]]
                               /\ m.prev[s[j + 1]] = l.prev[s[j + 1]]
  <2> SUFFICES ASSUME NEW j \in 1..Len(s) - 1
               PROVE  m.next[s[j]] = l.next[s[j]] /\ m.prev[s[j + 1]] = l.prev[s[j + 1]]
    OBVIOUS
  <2>1. j \in 1..Len(s) /\ j + 1 \in 2..Len(s)
    BY <1>0
  <2> QED
    BY <2>1
<1> QED
  BY <1>2, <1>3, PathMoved

\* What lies before the end of a path is kept: it may end elsewhere.
LEMMA PathRestop ==
    ASSUME NEW l, NEW m, NEW c, NEW d, NEW b, NEW S, NEW s \in Seq(S), Path(l, c, s, d),
           Edge(m, Final(c, s), b),
           \A j \in 1..Len(s) : m.prev[s[j]] = l.prev[s[j]],
           \A j \in 1..Len(s) - 1 : m.next[s[j]] = l.next[s[j]],
           s # <<>> => m.next[c] = l.next[c]
    PROVE  Path(m, c, s, b)
<1>0. Len(s) \in Nat /\ (s = <<>> <=> Len(s) = 0)
  BY EmptySeq
<1>1. Edge(l, c, First(s, d))
  BY PathEnds
<1>2. Edge(m, c, First(s, b))
  <2>1. CASE s = <<>>
    BY <2>1 DEF Final, First
  <2>2. CASE s # <<>>
    <3>1. 1 \in 1..Len(s)
      BY <1>0, <2>2
    <3> QED
      BY <1>1, <2>2, <3>1 DEF First, Edge
  <2> QED
    BY <2>1, <2>2
<1>3. \A j \in 1..Len(s) - 1 : /\ m.next[s[j]] = l.next[s[j]]
                               /\ m.prev[s[j + 1]] = l.prev[s[j + 1]]
  <2> SUFFICES ASSUME NEW j \in 1..Len(s) - 1
               PROVE  m.next[s[j]] = l.next[s[j]] /\ m.prev[s[j + 1]] = l.prev[s[j + 1]]
    OBVIOUS
  <2>1. j + 1 \in 1..Len(s)
    BY <1>0
  <2> QED
    BY <2>1
<1> QED
  BY <1>2, <1>3, PathMoved

\* A path whose cells are left alone.
LEMMA PathKept ==
    ASSUME NEW l, NEW m, NEW c, NEW d, NEW S, NEW s \in Seq(S), Path(l, c, s, d),
           \A j \in 1..Len(s) : m.next[s[j]] = l.next[s[j]] /\ m.prev[s[j]] = l.prev[s[j]],
           m.next[c] = l.next[c], m.prev[d] = l.prev[d]
    PROVE  Path(m, c, s, d)
<1>0. Len(s) \in Nat /\ (s = <<>> <=> Len(s) = 0)
  BY EmptySeq
<1>1. Edge(l, c, First(s, d))
  BY PathEnds
<1>2. Edge(m, c, First(s, d))
  <2>1. CASE s = <<>>
    BY <1>1, <2>1 DEF Edge, First
  <2>2. CASE s # <<>>
    <3>1. 1 \in 1..Len(s)
      BY <1>0, <2>2
    <3> QED
      BY <1>1, <2>2, <3>1 DEF First, Edge
  <2> QED
    BY <2>1, <2>2
<1>3. \A j \in 1..Len(s) : m.next[s[j]] = l.next[s[j]]
  OBVIOUS
<1>4. \A j \in 2..Len(s) : m.prev[s[j]] = l.prev[s[j]]
  <2>1. \A j \in 2..Len(s) : j \in 1..Len(s)
    BY <1>0
  <2> QED
    BY <2>1
<1> QED
  BY <1>2, <1>3, <1>4, PathRestart

\* From l to m only the pointers of the heads H, of what is on their lists, and
\* of the entries E change, which are on no other list.
Touches(l, r, v, m, H, E) ==
    /\ H \subseteq Lists /\ E \subseteq Entries
    /\ \A c \in Cells \ (H \cup E) :
            \/ \E h \in H \cap r : Contains(v[h], c)
            \/ m.next[c] = l.next[c] /\ m.prev[c] = l.prev[c]
    /\ \A g \in (Lists \cap r) \ H : \A e \in E : ~Contains(v[g], e)

\* That leaves the other rings as they are.
LEMMA OthersKept ==
    ASSUME NEW l, NEW r, NEW v, Fits(l, r, v), NEW m, NEW H, NEW E, Touches(l, r, v, m, H, E)
    PROVE  /\ \A g \in (Lists \cap r) \ H : Path(m, g, v[g], g)
           /\ \A e \in (Entries \cap r) \ E : Edge(l, e, e) => Edge(m, e, e)
<1> USE DEF Touches
<1>0. Lists \cap Entries = {} /\ Lists \subseteq Cells /\ Entries \subseteq Cells
  BY CellsAssumption DEF Cells
<1>1. ASSUME NEW g \in (Lists \cap r) \ H PROVE Path(m, g, v[g], g)
  <2>1. v[g] \in Seq(Entries \cap r) /\ Path(l, g, v[g], g) /\ Len(v[g]) \in Nat
    BY DEF Fits
  <2>2. ASSUME NEW c, c = g \/ Contains(v[g], c)
        PROVE  m.next[c] = l.next[c] /\ m.prev[c] = l.prev[c]
    <3>1. c \in Cells /\ c \notin H \cup E
      <4>1. CASE c = g
        BY <1>0, <4>1
      <4>2. CASE Contains(v[g], c)
        <5>1. c \in Entries
          BY <2>1, <4>2 DEF Contains
        <5> QED
          BY <1>0, <4>2, <5>1
      <4> QED
        BY <2>2, <4>1, <4>2
    <3>2. ASSUME NEW h \in H \cap Lists \cap r, Contains(v[h], c) PROVE FALSE
      <4>1. PICK j \in 1..Len(v[h]) : v[h][j] = c
        BY <3>2 DEF Contains
      <4>2. c # g
        BY <1>0, <4>1 DEF Fits
      <4>3. PICK i \in 1..Len(v[g]) : v[g][i] = c
        BY <2>2, <4>2 DEF Contains
      <4>4. g = h
        BY <4>1, <4>3, Apart
      <4> QED
        BY <4>4
    <3> QED
      BY <3>1, <3>2
  <2>3. \A j \in 1..Len(v[g]) : /\ m.next[v[g][j]] = l.next[v[g][j]]
                                /\ m.prev[v[g][j]] = l.prev[v[g][j]]
    BY <2>2 DEF Contains
  <2> QED
    BY <2>1, <2>2, <2>3, PathKept
<1>2. ASSUME NEW e \in (Entries \cap r) \ E, Edge(l, e, e) PROVE Edge(m, e, e)
  <2>1. e \in Cells \ (H \cup E)
    BY <1>0
  <2>2. \A h \in Lists \cap r : ~Contains(v[h], e)
    BY <1>2, LooseEntry DEF Edge
  <2>3. m.next[e] = l.next[e] /\ m.prev[e] = l.prev[e]
    BY <2>1, <2>2
  <2> QED
    BY <1>2, <2>3 DEF Edge
<1> QED
  BY <1>1, <1>2

-----------------------------------------------------------------------------
(* What RemoveFirst and ReplaceAll do to a list that has no entry twice.   *)

\* A sequence is what is before a place, what is there, what is behind.
LEMMA SeqAround ==
    ASSUME NEW S, NEW s \in Seq(S), NEW i \in 1..Len(s)
    PROVE  /\ SubSeq(s, 1, i - 1) \in Seq(S) /\ SubSeq(s, i + 1, Len(s)) \in Seq(S)
           /\ s = SubSeq(s, 1, i - 1) \o (<<s[i]>> \o SubSeq(s, i + 1, Len(s)))
           /\ Len(SubSeq(s, 1, i - 1)) = i - 1
           /\ Len(SubSeq(s, i + 1, Len(s))) = Len(s) - i
           /\ \A j \in 1..i - 1 : SubSeq(s, 1, i - 1)[j] = s[j]
           /\ \A j \in 1..Len(s) - i : SubSeq(s, i + 1, Len(s))[j] = s[i + j]
<1>0. Len(s) \in Nat /\ \A j \in 1..Len(s) : s[j] \in S
  OBVIOUS
<1>1. SubSeq(s, 1, i - 1) \o SubSeq(s, (i - 1) + 1, Len(s)) = SubSeq(s, 1, Len(s))
  <2>1. 1 \in 1..Len(s) + 1 /\ i - 1 \in 1 - 1..Len(s) /\ Len(s) \in i - 1..Len(s)
    BY <1>0
  <2> QED
    BY <2>1, ConcatAdjacentSubSeq
<1>2. SubSeq(s, 1, Len(s)) = s
  BY SubSeqFull
<1>3. SubSeq(s, i, Len(s)) = <<s[i]>> \o SubSeq(s, i + 1, Len(s))
  <2>1. Len(s) \in i..Len(s)
    BY <1>0
  <2> QED
    BY <2>1, SubSeqRecursiveFirst
<1>4. (i - 1) + 1 = i
  BY <1>0
<1>5. s = SubSeq(s, 1, i - 1) \o (<<s[i]>> \o SubSeq(s, i + 1, Len(s)))
  BY <1>1, <1>2, <1>3, <1>4, Zenon
<1>6. /\ SubSeq(s, 1, i - 1) \in Seq(S)
      /\ Len(SubSeq(s, 1, i - 1)) = IF 1 <= i - 1 THEN (i - 1) - 1 + 1 ELSE 0
      /\ \A j \in 1..(i - 1) - 1 + 1 : SubSeq(s, 1, i - 1)[j] = s[1 + j - 1]
  <2>1. \A j \in 1..i - 1 : s[j] \in S
    BY <1>0
  <2>2. 1 \in Int /\ i - 1 \in Int
    BY <1>0
  <2> QED
    BY <2>1, <2>2, SubSeqProperties
<1>7. /\ SubSeq(s, i + 1, Len(s)) \in Seq(S)
      /\ Len(SubSeq(s, i + 1, Len(s))) = IF i + 1 <= Len(s) THEN Len(s) - (i + 1) + 1 ELSE 0
      /\ \A j \in 1..Len(s) - (i + 1) + 1 : SubSeq(s, i + 1, Len(s))[j] = s[(i + 1) + j - 1]
  <2>1. \A j \in i + 1..Len(s) : s[j] \in S
    BY <1>0
  <2>2. i + 1 \in Int /\ Len(s) \in Int
    BY <1>0
  <2> QED
    BY <2>1, <2>2, SubSeqProperties
<1>8. Len(SubSeq(s, 1, i - 1)) = i - 1 /\ Len(SubSeq(s, i + 1, Len(s))) = Len(s) - i
  BY <1>0, <1>6, <1>7
<1>9. ASSUME NEW j \in 1..i - 1 PROVE SubSeq(s, 1, i - 1)[j] = s[j]
  <2>1. j \in 1..(i - 1) - 1 + 1 /\ 1 + j - 1 = j
    BY <1>0
  <2> QED
    BY <1>6, <2>1
<1>10. ASSUME NEW j \in 1..Len(s) - i PROVE SubSeq(s, i + 1, Len(s))[j] = s[i + j]
  <2>1. j \in 1..Len(s) - (i + 1) + 1 /\ (i + 1) + j - 1 = i + j
    BY <1>0
  <2> QED
    BY <1>7, <2>1
<1> QED
  BY <1>5, <1>6, <1>7, <1>8, <1>9, <1>10

\* RemoveFirst leaves what is before the entry and what is behind it.
LEMMA RemoveFirstIs ==
    ASSUME NEW S, NEW s \in Seq(S), Inj(s), NEW i \in 1..Len(s)
    PROVE  RemoveFirst(s, s[i]) = SubSeq(s, 1, i - 1) \o SubSeq(s, i + 1, Len(s))
<1> DEFINE I == {j \in 1..Len(s) : s[j] = s[i]}
<1>1. RemoveFirst(s, s[i])
      = IF \E j \in 1..Len(s) : s[j] = s[i]
        THEN RemoveAt(s, IF I # {} THEN Min(I) ELSE 0) ELSE s
  BY Zenon DEF RemoveFirst, SelectInSeq
<1>2. I = {i}
  BY DEF Inj
<1>3. Min({i}) = i
  BY DEF Min
<1> HIDE DEF I
<1>4. RemoveFirst(s, s[i]) = RemoveAt(s, i)
  BY <1>1, <1>2, <1>3
<1> QED
  BY <1>4 DEF RemoveAt

\* What is not on a sequence cannot be removed from it.
LEMMA RemoveNone ==
    ASSUME NEW s, NEW e, ~Contains(s, e)
    PROVE  RemoveFirst(s, e) = s
BY DEF RemoveFirst, Contains

\* ReplaceAll puts the new entry in the place of the old one.
LEMMA ReplaceAllIs ==
    ASSUME NEW S, NEW s \in Seq(S), Inj(s), NEW i \in 1..Len(s), NEW new \in S
    PROVE  ReplaceAll(s, s[i], new)
           = SubSeq(s, 1, i - 1) \o (<<new>> \o SubSeq(s, i + 1, Len(s)))
<1> DEFINE a == SubSeq(s, 1, i - 1)
           b == SubSeq(s, i + 1, Len(s))
           t == ReplaceAll(s, s[i], new)
           u == a \o (<<new>> \o b)
<1>0. Len(s) \in Nat
  OBVIOUS
<1>1. /\ a \in Seq(S) /\ b \in Seq(S) /\ Len(a) = i - 1 /\ Len(b) = Len(s) - i
      /\ \A j \in 1..i - 1 : a[j] = s[j]
      /\ \A j \in 1..Len(s) - i : b[j] = s[i + j]
  BY SeqAround
<1>2. t = [j \in 1..Len(s) |-> IF s[j] = s[i] THEN new ELSE s[j]]
  BY DEF ReplaceAll
<1>3. t \in Seq(S) /\ Len(t) = Len(s)
  BY <1>0, <1>2
<1>4. \A j \in 1..Len(s) : t[j] = IF j = i THEN new ELSE s[j]
  BY <1>2 DEF Inj
<1> HIDE DEF a, b, t
<1>5. /\ <<new>> \o b \in Seq(S) /\ Len(<<new>> \o b) = 1 + Len(b)
      /\ (<<new>> \o b)[1] = new
      /\ \A j \in 2..1 + Len(b) : (<<new>> \o b)[j] = b[j - 1]
  BY <1>1
<1> DEFINE w == <<new>> \o b
<1> HIDE DEF w
<1>6. /\ a \o w \in Seq(S) /\ Len(a \o w) = Len(a) + Len(w)
      /\ \A j \in 1..Len(a) + Len(w) : (a \o w)[j] = IF j <= Len(a) THEN a[j] ELSE w[j - Len(a)]
  BY <1>1, <1>5, ConcatProperties DEF w
<1>7. Len(w) = 1 + Len(b) /\ w[1] = new /\ \A j \in 2..1 + Len(b) : w[j] = b[j - 1]
  BY <1>5 DEF w
<1>8. Len(a \o w) = Len(s)
  BY <1>0, <1>1, <1>6, <1>7
<1>9. ASSUME NEW j \in 1..Len(s) PROVE t[j] = (a \o w)[j]
  <2>0. (a \o w)[j] = IF j <= Len(a) THEN a[j] ELSE w[j - Len(a)]
    BY <1>0, <1>1, <1>6, <1>7
  <2>1. CASE j < i
    <3>1. j \in 1..i - 1 /\ j <= Len(a)
      BY <1>0, <1>1, <2>1
    <3> QED
      BY <1>1, <1>4, <2>0, <2>1, <3>1
  <2>2. CASE j = i
    <3>1. ~(j <= Len(a)) /\ j - Len(a) = 1
      BY <1>0, <1>1, <2>2
    <3> QED
      BY <1>4, <1>7, <2>0, <2>2, <3>1
  <2>3. CASE j > i
    <3>1. ~(j <= Len(a)) /\ j - Len(a) \in 2..1 + Len(b) /\ j - i \in 1..Len(s) - i
      BY <1>0, <1>1, <2>3
    <3>2. (j - Len(a)) - 1 = j - i /\ i + (j - i) = j
      BY <1>0, <1>1, <2>3
    <3>3. w[j - Len(a)] = b[j - i] /\ b[j - i] = s[j]
      BY <1>1, <1>7, <3>1, <3>2
    <3>4. (a \o w)[j] = s[j]
      BY <2>0, <3>1, <3>3, Zenon
    <3>5. t[j] = s[j]
      BY <1>4, <2>3
    <3> QED
      BY <3>4, <3>5
  <2>4. j < i \/ j = i \/ j > i
    BY <1>0
  <2> QED
    BY <2>1, <2>2, <2>3, <2>4, Zenon
<1>10. t = a \o w
  BY <1>3, <1>6, <1>8, <1>9, SeqEqual
<1> QED
  BY <1>10 DEF a, b, t, w

\* What is not on a sequence cannot be replaced on it.
LEMMA ReplaceNone ==
    ASSUME NEW S, NEW s \in Seq(S), NEW e, NEW new, ~Contains(s, e)
    PROVE  ReplaceAll(s, e, new) = s
<1>1. s = [j \in 1..Len(s) |-> s[j]]
  OBVIOUS
<1>2. \A j \in 1..Len(s) : (IF s[j] = e THEN new ELSE s[j]) = s[j]
  BY DEF Contains
<1>3. ReplaceAll(s, e, new) = [j \in 1..Len(s) |-> IF s[j] = e THEN new ELSE s[j]]
  BY DEF ReplaceAll
<1>4. [j \in 1..Len(s) |-> IF s[j] = e THEN new ELSE s[j]] = [j \in 1..Len(s) |-> s[j]]
  BY <1>2
<1> QED
  BY <1>1, <1>3, <1>4

\* The sequence with an entry e in the middle, under Path.
LEMMA PathAround ==
    ASSUME NEW l, NEW c, NEW d, NEW S, NEW a \in Seq(S), NEW b \in Seq(S), NEW e \in S
    PROVE  Path(l, c, a \o (<<e>> \o b), d) <=> Path(l, c, a, e) /\ Path(l, e, b, d)
<1>0. Len(<<e>>) = 1 /\ <<e>> \in Seq(S) /\ <<e>> # <<>> /\ <<e>>[1] = e
  OBVIOUS
<1>1. <<e>> \o b \in Seq(S) /\ (<<e>> \o b)[1] = e /\ <<e>> \o b # <<>>
  <2>1. Len(<<e>> \o b) = 1 + Len(b) /\ Len(b) \in Nat
    BY <1>0, ConcatProperties
  <2> QED
    BY <2>1, <1>0, ConcatProperties, EmptySeq
<1>2. Path(l, c, a \o (<<e>> \o b), d) <=> /\ Path(l, c, a, First(<<e>> \o b, d))
                                           /\ Path(l, Final(c, a), <<e>> \o b, d)
  BY <1>1, PathConcat
<1>3. First(<<e>> \o b, d) = e
  BY <1>1 DEF First
<1>4. Path(l, Final(c, a), <<e>> \o b, d) <=> /\ Path(l, Final(c, a), <<e>>, First(b, d))
                                              /\ Path(l, Final(Final(c, a), <<e>>), b, d)
  BY <1>0, PathConcat
<1>5. Final(Final(c, a), <<e>>) = e
  BY <1>0 DEF Final
<1>6. ASSUME NEW x, NEW y
      PROVE  Path(l, x, <<e>>, y) <=> Edge(l, x, e) /\ Edge(l, e, y)
  <2>1. Path(l, x, <<e>>, y) <=> \A i \in 0..1 : Edge(l, At(x, <<e>>, y, i), At(x, <<e>>, y, i + 1))
    BY <1>0 DEF Path
  <2>2. At(x, <<e>>, y, 0) = x /\ At(x, <<e>>, y, 1) = e /\ At(x, <<e>>, y, 2) = y
    BY <1>0 DEF At
  <2>3. (\A i \in 0..1 : Edge(l, At(x, <<e>>, y, i), At(x, <<e>>, y, i + 1)))
        <=> Edge(l, At(x, <<e>>, y, 0), At(x, <<e>>, y, 1)) /\ Edge(l, At(x, <<e>>, y, 1), At(x, <<e>>, y, 2))
    <3>1. 0..1 = {0, 1} /\ 0 + 1 = 1 /\ 1 + 1 = 2
      OBVIOUS
    <3> QED
      BY <3>1
  <2> QED
    BY <2>1, <2>2, <2>3
<1>7. Path(l, c, a, e) => Edge(l, Final(c, a), e)
  BY PathEnds
<1>8. Path(l, e, b, d) => Edge(l, e, First(b, d))
  BY PathEnds
<1> HIDE DEF Path, Edge
<1>9. Path(l, Final(c, a), <<e>>, First(b, d)) <=> Edge(l, Final(c, a), e) /\ Edge(l, e, First(b, d))
  BY <1>6
<1> QED
  BY <1>2, <1>3, <1>4, <1>5, <1>7, <1>8, <1>9, Zenon

-----------------------------------------------------------------------------
(* The two sides of a place in a list.                                     *)

\* No entry is on both parts of a sequence that has none twice.
LEMMA InjConcat ==
    ASSUME NEW S, NEW a \in Seq(S), NEW b \in Seq(S), Inj(a \o b)
    PROVE  /\ Inj(a) /\ Inj(b)
           /\ \A j \in 1..Len(a), k \in 1..Len(b) : a[j] # b[k]
<1> DEFINE s == a \o b
<1>0. Len(a) \in Nat /\ Len(b) \in Nat
  OBVIOUS
<1>1. /\ Len(s) = Len(a) + Len(b)
      /\ \A i \in 1..Len(a) : s[i] = a[i]
      /\ \A i \in 1..Len(b) : s[Len(a) + i] = b[i]
  BY <1>0, ConcatProperties
<1>2. \A i, j \in 1..Len(s) : s[i] = s[j] => i = j
  BY DEF Inj
<1> HIDE DEF s
<1>3. /\ \A i \in 1..Len(a) : i \in 1..Len(s)
      /\ \A i \in 1..Len(b) : Len(a) + i \in 1..Len(s)
  BY <1>0, <1>1
<1>4. Inj(a)
  BY <1>1, <1>2, <1>3 DEF Inj
<1>5. Inj(b)
  <2> SUFFICES ASSUME NEW i \in 1..Len(b), NEW j \in 1..Len(b), b[i] = b[j] PROVE i = j
    BY DEF Inj
  <2>1. Len(a) + i = Len(a) + j
    BY <1>1, <1>2, <1>3
  <2> QED
    BY <1>0, <2>1
<1>6. ASSUME NEW j \in 1..Len(a), NEW k \in 1..Len(b), a[j] = b[k] PROVE FALSE
  <2>1. j = Len(a) + k
    BY <1>1, <1>2, <1>3, <1>6
  <2> QED
    BY <1>0, <2>1
<1> QED
  BY <1>4, <1>5, <1>6

\* Only the pointers across the place change: the side before it may end
\* elsewhere, the one behind it may begin elsewhere.
LEMMA PathSides ==
    ASSUME NEW l, NEW m, NEW S, NEW a \in Seq(S), NEW b \in Seq(S), NEW h, h \notin S,
           Inj(a \o b), NEW x, NEW y, Path(l, h, a, x), Path(l, y, b, h),
           \A c \in S \cup {h} : c # Final(h, a) => m.next[c] = l.next[c],
           \A c \in S \cup {h} : c # First(b, h) => m.prev[c] = l.prev[c],
           NEW z, Edge(m, Final(h, a), z), NEW u, Edge(m, u, First(b, h))
    PROVE  Path(m, h, a, z) /\ Path(m, u, b, h)
<1>0. /\ Len(a) \in Nat /\ Len(b) \in Nat
      /\ (a = <<>> <=> Len(a) = 0) /\ (b = <<>> <=> Len(b) = 0)
      /\ \A j \in 1..Len(a) : a[j] \in S
      /\ \A j \in 1..Len(b) : b[j] \in S
  BY EmptySeq
<1>1. /\ Inj(a) /\ Inj(b)
      /\ \A j \in 1..Len(a), k \in 1..Len(b) : a[j] # b[k]
  BY InjConcat
<1>2. Path(m, h, a, z)
  <2>1. \A j \in 1..Len(a) : m.prev[a[j]] = l.prev[a[j]]
    <3> SUFFICES ASSUME NEW j \in 1..Len(a) PROVE a[j] # First(b, h)
      BY <1>0
    <3>1. CASE b = <<>>
      BY <1>0, <3>1 DEF First
    <3>2. CASE b # <<>>
      <4>1. 1 \in 1..Len(b)
        BY <1>0, <3>2
      <4> QED
        BY <1>1, <3>2, <4>1 DEF First
    <3> QED
      BY <3>1, <3>2
  <2>2. \A j \in 1..Len(a) - 1 : m.next[a[j]] = l.next[a[j]]
    <3> SUFFICES ASSUME NEW j \in 1..Len(a) - 1 PROVE a[j] \in S /\ a[j] # Final(h, a)
      OBVIOUS
    <3>1. j \in 1..Len(a) /\ Len(a) \in 1..Len(a) /\ a # <<>> /\ j # Len(a)
      BY <1>0
    <3> QED
      BY <1>0, <1>1, <3>1 DEF Final, Inj
  <2>3. a # <<>> => m.next[h] = l.next[h]
    <3> SUFFICES ASSUME a # <<>> PROVE h # Final(h, a)
      OBVIOUS
    <3>1. Len(a) \in 1..Len(a)
      BY <1>0
    <3> QED
      BY <1>0, <3>1 DEF Final
  <2> QED
    BY <2>1, <2>2, <2>3, PathRestop
<1>3. Path(m, u, b, h)
  <2>1. \A j \in 1..Len(b) : m.next[b[j]] = l.next[b[j]]
    <3> SUFFICES ASSUME NEW j \in 1..Len(b) PROVE b[j] # Final(h, a)
      BY <1>0
    <3>1. CASE a = <<>>
      BY <1>0, <3>1 DEF Final
    <3>2. CASE a # <<>>
      <4>1. Len(a) \in 1..Len(a)
        BY <1>0, <3>2
      <4> QED
        BY <1>1, <3>2, <4>1 DEF Final
    <3> QED
      BY <3>1, <3>2
  <2>2. \A j \in 2..Len(b) : m.prev[b[j]] = l.prev[b[j]]
    <3> SUFFICES ASSUME NEW j \in 2..Len(b) PROVE b[j] \in S /\ b[j] # First(b, h)
      OBVIOUS
    <3>1. j \in 1..Len(b) /\ 1 \in 1..Len(b) /\ b # <<>> /\ j # 1
      BY <1>0
    <3> QED
      BY <1>0, <1>1, <3>1 DEF First, Inj
  <2>3. b # <<>> => m.prev[h] = l.prev[h]
    <3> SUFFICES ASSUME b # <<>> PROVE h # First(b, h)
      OBVIOUS
    <3>1. 1 \in 1..Len(b)
      BY <1>0
    <3> QED
      BY <1>0, <3>1 DEF First
  <2> QED
    BY <2>1, <2>2, <2>3, PathRestart
<1> QED
  BY <1>2, <1>3

-----------------------------------------------------------------------------
(* What is on a sequence.                                                  *)

\* What is on two sequences is on one or the other.
LEMMA ContainsConcat ==
    ASSUME NEW S, NEW a \in Seq(S), NEW b \in Seq(S), NEW x
    PROVE  Contains(a \o b, x) <=> Contains(a, x) \/ Contains(b, x)
<1> DEFINE s == a \o b
<1>0. Len(a) \in Nat /\ Len(b) \in Nat
  OBVIOUS
<1>1. /\ Len(s) = Len(a) + Len(b)
      /\ \A i \in 1..Len(a) : s[i] = a[i]
      /\ \A i \in 1..Len(b) : s[Len(a) + i] = b[i]
  BY <1>0, ConcatProperties
<1> HIDE DEF s
<1>2. ASSUME NEW i \in 1..Len(s), s[i] = x PROVE Contains(a, x) \/ Contains(b, x)
  <2>1. CASE i \in 1..Len(a)
    BY <1>1, <1>2, <2>1 DEF Contains
  <2>2. CASE i \notin 1..Len(a)
    <3>1. i - Len(a) \in 1..Len(b) /\ Len(a) + (i - Len(a)) = i
      BY <1>0, <1>1, <2>2
    <3> QED
      BY <1>1, <1>2, <3>1 DEF Contains
  <2> QED
    BY <2>1, <2>2
<1>3. ASSUME NEW i \in 1..Len(a), a[i] = x PROVE Contains(s, x)
  <2>1. i \in 1..Len(s)
    BY <1>0, <1>1
  <2> QED
    BY <1>1, <1>3, <2>1 DEF Contains
<1>4. ASSUME NEW i \in 1..Len(b), b[i] = x PROVE Contains(s, x)
  <2>1. Len(a) + i \in 1..Len(s)
    BY <1>0, <1>1
  <2> QED
    BY <1>1, <1>4, <2>1 DEF Contains
<1>5. Contains(s, x) => Contains(a, x) \/ Contains(b, x)
  BY <1>2 DEF Contains
<1>6. Contains(a, x) \/ Contains(b, x) => Contains(s, x)
  BY <1>3, <1>4 DEF Contains
<1> QED
  BY <1>5, <1>6 DEF s

\* What is on a sequence of one.
LEMMA ContainsOne == \A e, x : Contains(<<e>>, x) <=> x = e
<1>1. \A e : Len(<<e>>) = 1 /\ <<e>>[1] = e
  OBVIOUS
<1> QED
  BY <1>1 DEF Contains

\* What is on a sequence with e in the middle.
LEMMA ContainsAround ==
    ASSUME NEW S, NEW a \in Seq(S), NEW b \in Seq(S), NEW e \in S, NEW x
    PROVE  Contains(a \o (<<e>> \o b), x) <=> Contains(a, x) \/ x = e \/ Contains(b, x)
<1>1. <<e>> \in Seq(S) /\ <<e>> \o b \in Seq(S)
  OBVIOUS
<1>2. Contains(a \o (<<e>> \o b), x) <=> Contains(a, x) \/ Contains(<<e>> \o b, x)
  BY <1>1, ContainsConcat
<1>3. Contains(<<e>> \o b, x) <=> Contains(<<e>>, x) \/ Contains(b, x)
  BY <1>1, ContainsConcat
<1> QED
  BY <1>2, <1>3, ContainsOne

\* An entry that is there once is gone when it is left out.
LEMMA InjAround ==
    ASSUME NEW S, NEW a \in Seq(S), NEW b \in Seq(S), NEW e \in S,
           Inj(a \o (<<e>> \o b))
    PROVE  Inj(a \o b) /\ ~Contains(a \o b, e)
<1>0. Len(a) \in Nat /\ Len(b) \in Nat /\ <<e>> \in Seq(S) /\ <<e>> \o b \in Seq(S)
  OBVIOUS
<1>1. Len(<<e>>) = 1 /\ <<e>>[1] = e
  OBVIOUS
<1>2. /\ Inj(a) /\ Inj(<<e>> \o b)
      /\ \A j \in 1..Len(a), k \in 1..Len(<<e>> \o b) : a[j] # (<<e>> \o b)[k]
  BY <1>0, InjConcat
<1>3. /\ Inj(b)
      /\ \A j \in 1..Len(<<e>>), k \in 1..Len(b) : <<e>>[j] # b[k]
  BY <1>0, <1>2, InjConcat
<1>4. /\ Len(<<e>> \o b) = 1 + Len(b) /\ (<<e>> \o b)[1] = e
      /\ \A k \in 1..Len(b) : (<<e>> \o b)[1 + k] = b[k]
  BY <1>0
<1> DEFINE t == <<e>> \o b
<1> HIDE DEF t
<1>5. /\ \A j \in 1..Len(a) : a[j] # e
      /\ \A j \in 1..Len(a), k \in 1..Len(b) : a[j] # b[k]
  <2>1. 1 \in 1..Len(t) /\ \A k \in 1..Len(b) : 1 + k \in 1..Len(t)
    BY <1>0, <1>4 DEF t
  <2>2. \A j \in 1..Len(a), k \in 1..Len(t) : a[j] # t[k]
    BY <1>2 DEF t
  <2>3. t[1] = e /\ \A k \in 1..Len(b) : t[1 + k] = b[k]
    BY <1>4 DEF t
  <2>4. ASSUME NEW j \in 1..Len(a), NEW k \in 1..Len(b) PROVE a[j] # b[k]
    <3>1. a[j] # t[1 + k]
      BY <2>1, <2>2
    <3> QED
      BY <2>3, <3>1
  <2> QED
    BY <2>1, <2>2, <2>3, <2>4
<1>6. \A k \in 1..Len(b) : b[k] # e
  <2>1. 1 \in 1..Len(<<e>>)
    BY <1>1
  <2> QED
    BY <1>1, <1>3, <2>1
<1>7. ~Contains(a \o b, e)
  BY <1>5, <1>6, ContainsConcat DEF Contains
<1>8. Inj(a \o b)
  <2> DEFINE s == a \o b
  <2>1. /\ Len(s) = Len(a) + Len(b)
        /\ \A i \in 1..Len(s) : s[i] = IF i <= Len(a) THEN a[i] ELSE b[i - Len(a)]
    BY <1>0, ConcatProperties
  <2> HIDE DEF s
  <2> SUFFICES ASSUME NEW i \in 1..Len(s), NEW j \in 1..Len(s), s[i] = s[j] PROVE i = j
    BY DEF Inj, s
  <2>2. \A k \in 1..Len(s) : \/ k <= Len(a) /\ k \in 1..Len(a)
                             \/ ~(k <= Len(a)) /\ k - Len(a) \in 1..Len(b)
    BY <1>0, <2>1
  <2>3. CASE i <= Len(a) /\ j <= Len(a)
    BY <1>2, <2>1, <2>2, <2>3 DEF Inj
  <2>4. CASE i <= Len(a) /\ ~(j <= Len(a))
    BY <1>5, <2>1, <2>2, <2>4
  <2>5. CASE ~(i <= Len(a)) /\ j <= Len(a)
    BY <1>5, <2>1, <2>2, <2>5
  <2>6. CASE ~(i <= Len(a)) /\ ~(j <= Len(a))
    <3>1. b[i - Len(a)] = b[j - Len(a)]
      BY <2>1, <2>6
    <3>2. i - Len(a) = j - Len(a)
      BY <1>3, <2>2, <2>6, <3>1 DEF Inj
    <3> QED
      BY <1>0, <2>1, <3>2
  <2> QED
    BY <2>3, <2>4, <2>5, <2>6
<1> QED
  BY <1>7, <1>8

\* A sequence of elements of T.
LEMMA SeqWithin ==
    ASSUME NEW S, NEW s \in Seq(S), NEW T, \A x : Contains(s, x) => x \in T
    PROVE  s \in Seq(T)
<1>1. \A i \in 1..Len(s) : s[i] \in T
  BY DEF Contains
<1> QED
  BY <1>1

-----------------------------------------------------------------------------
(* A change to some of the lists.                                          *)

\* In m the heads H have the lists that w says; the entries E, and what was on
\* those lists in v, are on them or rings of their own, or no more in use.
Restores(r, v, m, q, w, H, E) ==
    /\ m \in Links /\ q \in SUBSET Cells /\ w \in [Lists -> Seq(Entries \cup {Null})]
    /\ \A c \in Cells \ (H \cup E) : c \in q <=> c \in r
    /\ \A g \in Lists \ H : w[g] = v[g]
    /\ \A h \in H \cap q : w[h] \in Seq(Entries \cap q) /\ Path(m, h, w[h], h)
    /\ \A h \in H \ q : w[h] = <<Null>>
    /\ \A e \in Entries \cap q : e \in E \/ (\E h \in H \cap r : Contains(v[h], e)) =>
            Edge(m, e, e) \/ \E h \in H \cap q : Contains(w[h], e)

\* If the change touches nothing else, the rings are as w says.
LEMMA FitsChanged ==
    ASSUME NEW l, NEW r, NEW v, Fits(l, r, v), NEW m, NEW q, NEW w, NEW H, NEW E,
           Touches(l, r, v, m, H, E), Restores(r, v, m, q, w, H, E)
    PROVE  Fits(m, q, w)
<1> USE DEF Restores
<1>0. /\ Lists \cap Entries = {} /\ Cells = Lists \cup Entries
      /\ H \subseteq Lists /\ E \subseteq Entries
  BY CellsAssumption DEF Cells, Touches
<1>1. /\ \A g \in (Lists \cap r) \ H : Path(m, g, v[g], g)
      /\ \A e \in (Entries \cap r) \ E : Edge(l, e, e) => Edge(m, e, e)
  BY OthersKept
<1>2. ASSUME NEW g \in (Lists \cap q) \ H
      PROVE  g \in r /\ w[g] \in Seq(Entries \cap q) /\ Path(m, g, w[g], g)
  <2>1. g \in r /\ w[g] = v[g]
    BY <1>0
  <2>2. v[g] \in Seq(Entries \cap r)
    BY <2>1 DEF Fits
  <2>3. ASSUME NEW x, Contains(v[g], x) PROVE x \in Entries \cap q
    <3>1. x \in Entries \cap r
      BY <2>2, <2>3 DEF Contains
    <3>2. x \notin E
      BY <2>1, <2>3 DEF Touches
    <3> QED
      BY <1>0, <3>1, <3>2
  <2>4. v[g] \in Seq(Entries \cap q)
    BY <2>2, <2>3, SeqWithin
  <2> QED
    BY <1>1, <2>1, <2>4
<1>3. ASSUME NEW g \in Lists \ q PROVE w[g] = <<Null>>
  <2>1. CASE g \notin H
    BY <1>0, <2>1 DEF Fits, Touches
  <2> QED
    BY <2>1
<1>4. ASSUME NEW e \in Entries \cap q
      PROVE  Edge(m, e, e) \/ \E h \in Lists \cap q : Contains(w[h], e)
  <2>1. CASE e \in E \/ (\E h \in H \cap r : Contains(v[h], e))
    BY <1>0, <2>1
  <2>2. CASE ~(e \in E \/ (\E h \in H \cap r : Contains(v[h], e)))
    <3>1. e \in r
      BY <1>0, <2>2
    <3>2. Edge(l, e, e) \/ \E h \in Lists \cap r : Contains(v[h], e)
      BY <3>1 DEF Fits
    <3>3. CASE Edge(l, e, e)
      BY <1>1, <2>2, <3>1, <3>3
    <3>4. CASE \E h \in Lists \cap r : Contains(v[h], e)
      <4>1. PICK h \in Lists \cap r : Contains(v[h], e)
        BY <3>4
      <4>2. h \notin H
        BY <2>2, <4>1
      <4>3. h \in q /\ w[h] = v[h]
        BY <1>0, <4>2
      <4> QED
        BY <4>1, <4>3
    <3> QED
      BY <3>2, <3>3, <3>4
  <2> QED
    BY <2>1, <2>2
<1> QED
  BY <1>2, <1>3, <1>4 DEF Fits, Touches

-----------------------------------------------------------------------------
(* The functions of list.h on the lists as sequences.                      *)

\* What is known of the list of a head in use.
LEMMA ListFacts ==
    ASSUME NEW l, NEW r, NEW v, Fits(l, r, v), NEW h \in Lists \cap r
    PROVE  /\ v[h] \in Seq(Entries \cap r) /\ Path(l, h, v[h], h) /\ Inj(v[h])
           /\ h \notin Entries /\ \A x : Contains(v[h], x) => x \in Entries \cap r
<1>1. v[h] \in Seq(Entries \cap r) /\ Path(l, h, v[h], h)
  BY DEF Fits
<1>2. \A x : Contains(v[h], x) => x \in Entries \cap r
  BY <1>1 DEF Contains
<1> QED
  BY <1>1, <1>2, ListsInj, CellsAssumption

\* An entry is on one list.
LEMMA OnOne ==
    ASSUME NEW l, NEW r, NEW v, Fits(l, r, v), NEW g \in Lists \cap r, NEW h \in Lists \cap r,
           NEW x, Contains(v[g], x), Contains(v[h], x)
    PROVE  g = h
<1>1. PICK i \in 1..Len(v[g]) : v[g][i] = x
  BY DEF Contains
<1>2. PICK j \in 1..Len(v[h]) : v[h][j] = x
  BY DEF Contains
<1> QED
  BY <1>1, <1>2, Apart

\* The cells on both sides of a place.
LEMMA Place ==
    ASSUME NEW S, NEW a \in Seq(S), NEW b \in Seq(S), NEW h
    PROVE  /\ Final(h, a) = h \/ Contains(a, Final(h, a))
           /\ First(b, h) = h \/ Contains(b, First(b, h))
<1>1. /\ Len(a) \in Nat /\ Len(b) \in Nat
      /\ (a = <<>> <=> Len(a) = 0) /\ (b = <<>> <=> Len(b) = 0)
  BY EmptySeq
<1>2. a # <<>> => Len(a) \in 1..Len(a)
  BY <1>1
<1>3. b # <<>> => 1 \in 1..Len(b)
  BY <1>1
<1> QED
  BY <1>2, <1>3 DEF Final, First, Contains

\* __list_add between the cells on both sides of a place.
LEMMA Inserted ==
    ASSUME NEW l, NEW r, NEW v, Fits(l, r, v), NEW h \in Lists \cap r,
           NEW a \in Seq(Entries), NEW b \in Seq(Entries), v[h] = a \o b,
           NEW e \in Entries, \A g \in Lists \cap r : ~Contains(v[g], e)
    PROVE  Fits(LinkBetween(l, e, Final(h, a), First(b, h)), r \cup {e},
                [v EXCEPT ![h] = a \o (<<e>> \o b)])
<1> DEFINE p == Final(h, a)
           n == First(b, h)
           m == LinkBetween(l, e, p, n)
           q == r \cup {e}
           u == a \o (<<e>> \o b)
           w == [v EXCEPT ![h] = u]
           S == (Entries \cap r) \ {e}
<1>1. /\ Path(l, h, a \o b, h) /\ Inj(a \o b) /\ h \notin Entries /\ h \in Cells /\ e \in Cells
      /\ \A x : Contains(a \o b, x) => x \in Entries \cap r /\ x # e
      /\ l \in Links /\ r \subseteq Cells
  <2>1. l \in Links /\ r \subseteq Cells /\ h \in Cells /\ e \in Cells
    BY DEF Fits, Cells
  <2>2. /\ Path(l, h, v[h], h) /\ Inj(v[h]) /\ h \notin Entries
        /\ \A x : Contains(v[h], x) => x \in Entries \cap r
    BY ListFacts
  <2>3. \A x : Contains(v[h], x) => x # e
    OBVIOUS
  <2> HIDE DEF Path, Inj, Contains
  <2> QED
    BY <2>1, <2>2, <2>3, Zenon
<1>2. /\ \A x : Contains(a \o b, x) <=> Contains(a, x) \/ Contains(b, x)
      /\ \A x : Contains(u, x) <=> Contains(a, x) \/ x = e \/ Contains(b, x)
  BY ContainsConcat, ContainsAround
<1>3. a \in Seq(S) /\ b \in Seq(S)
  <2>1. \A x : Contains(a, x) \/ Contains(b, x) => x \in S
    BY <1>1, <1>2
  <2> QED
    BY <2>1, SeqWithin
<1>4. /\ p = h \/ Contains(a, p)
      /\ n = h \/ Contains(b, n)
  BY Place
<1>5. p \in Cells /\ n \in Cells /\ p # e /\ n # e
  BY <1>1, <1>2, <1>4, CellsAssumption DEF Cells
<1> HIDE DEF p, n
<1>6. /\ m.next = [l.next EXCEPT ![e] = n, ![p] = e]
      /\ m.prev = [l.prev EXCEPT ![n] = e, ![e] = p]
  BY DEF LinkBetween
<1>7. m \in Links
  BY <1>1, <1>5 DEF LinkBetween, Links
<1>8. /\ m.next[e] = n /\ m.next[p] = e /\ m.prev[n] = e /\ m.prev[e] = p
      /\ \A c \in Cells : c \notin {e, p} => m.next[c] = l.next[c]
      /\ \A c \in Cells : c \notin {e, n} => m.prev[c] = l.prev[c]
  BY <1>1, <1>5, <1>6 DEF Links
<1> HIDE DEF m, u
<1>9. Path(m, h, u, h)
  <2>1. Path(l, h, a, First(b, h)) /\ Path(l, Final(h, a), b, h)
    BY <1>1, PathConcat
  <2>2. Edge(m, p, e) /\ Edge(m, e, n)
    BY <1>8 DEF Edge
  <2>3. /\ \A c \in S \cup {h} : c # p => m.next[c] = l.next[c]
        /\ \A c \in S \cup {h} : c # n => m.prev[c] = l.prev[c]
    <3>1. \A c \in S \cup {h} : c \in Cells /\ c # e
      BY <1>1, CellsAssumption DEF Cells
    <3> QED
      BY <1>8, <3>1
  <2>4. h \notin S
    BY <1>1
  <2> HIDE DEF S
  <2>5. Path(m, h, a, e) /\ Path(m, e, b, h)
    BY <1>1, <1>3, <2>1, <2>2, <2>3, <2>4, PathSides DEF p, n
  <2> QED
    BY <2>5, PathAround DEF u
<1>10. u \in Seq(Entries) /\ \A x : Contains(u, x) => x \in Entries \cap q
  <2>1. u \in Seq(Entries)
    BY DEF u
  <2> QED
    BY <1>1, <1>2, <2>1
<1>11. u \in Seq(Entries \cap q)
  BY <1>10, SeqWithin
<1>12. w \in [Lists -> Seq(Entries \cup {Null})] /\ w[h] = u /\ \A g \in Lists \ {h} : w[g] = v[g]
  <2>1. u \in Seq(Entries \cup {Null})
    BY <1>10
  <2> QED
    BY <2>1 DEF Fits
<1>13. Touches(l, r, v, m, {h}, {e})
  <2>1. ASSUME NEW c \in Cells \ ({h} \cup {e})
        PROVE  Contains(v[h], c) \/ (m.next[c] = l.next[c] /\ m.prev[c] = l.prev[c])
    BY <1>2, <1>4, <1>8
  <2> QED
    BY <2>1 DEF Touches
<1>14. \A x \in Entries \cap q : x \in {e} \/ (\E g \in {h} \cap r : Contains(v[g], x)) =>
            Edge(m, x, x) \/ \E g \in {h} \cap q : Contains(w[g], x)
  BY <1>2, <1>12
<1>15. /\ q \in SUBSET Cells /\ \A c \in Cells \ ({h} \cup {e}) : c \in q <=> c \in r
       /\ {h} \cap q = {h} /\ {h} \ q = {}
  BY <1>1
<1> HIDE DEF q, w
<1>16. Fits(m, q, w)
  <2>1. \A g \in {h} \cap q : w[g] \in Seq(Entries \cap q) /\ Path(m, g, w[g], g)
    BY <1>9, <1>11, <1>12
  <2>2. /\ \A g \in Lists \ {h} : w[g] = v[g]
        /\ \A g \in {h} \ q : w[g] = <<Null>>
        /\ w \in [Lists -> Seq(Entries \cup {Null})]
    BY <1>12, <1>15
  <2>3. Restores(r, v, m, q, w, {h}, {e})
    BY <1>7, <1>14, <1>15, <2>1, <2>2 DEF Restores
  <2> QED
    BY <1>13, <2>3, FitsChanged
<1> QED
  BY <1>16 DEF m, q, u, w, p, n

\* __list_del_entry.
LEMMA Bridged ==
    ASSUME NEW l, NEW r, NEW v, Fits(l, r, v), NEW h \in Lists \cap r,
           NEW a \in Seq(Entries), NEW b \in Seq(Entries), NEW e \in Entries,
           v[h] = a \o (<<e>> \o b)
    PROVE  /\ l.prev[e] = Final(h, a) /\ l.next[e] = First(b, h)
           /\ Fits(Bridge(l, e), r \ {e}, [v EXCEPT ![h] = a \o b])
<1> DEFINE p == Final(h, a)
           n == First(b, h)
           m == Bridge(l, e)
           q == r \ {e}
           u == a \o b
           w == [v EXCEPT ![h] = u]
           S == (Entries \cap r) \ {e}
<1>1. /\ Path(l, h, v[h], h) /\ Inj(v[h]) /\ h \notin Entries /\ h \in Cells /\ e \in Cells
      /\ \A x : Contains(v[h], x) => x \in Entries \cap r
      /\ l \in Links /\ r \subseteq Cells
  <2>1. l \in Links /\ r \subseteq Cells /\ h \in Cells /\ e \in Cells
    BY DEF Fits, Cells
  <2> QED
    BY <2>1, ListFacts, Zenon
<1>2. /\ \A x : Contains(u, x) <=> Contains(a, x) \/ Contains(b, x)
      /\ \A x : Contains(v[h], x) <=> Contains(a, x) \/ x = e \/ Contains(b, x)
  BY ContainsConcat, ContainsAround
<1>3. Inj(u) /\ ~Contains(u, e)
  <2>1. Inj(a \o (<<e>> \o b))
    BY <1>1
  <2> QED
    BY <2>1, InjAround
<1>4. a \in Seq(S) /\ b \in Seq(S)
  <2>1. \A x : Contains(a, x) \/ Contains(b, x) => x \in S
    BY <1>1, <1>2, <1>3
  <2> QED
    BY <2>1, SeqWithin
<1>5. /\ p = h \/ Contains(a, p)
      /\ n = h \/ Contains(b, n)
  BY Place
<1>6. p \in Cells /\ n \in Cells /\ p # e /\ n # e
  BY <1>1, <1>2, <1>3, <1>5, CellsAssumption DEF Cells
<1>7. /\ Path(l, h, a, e) /\ Path(l, e, b, h)
      /\ l.prev[e] = p /\ l.next[e] = n
  <2>1. Path(l, h, a, e) /\ Path(l, e, b, h)
    BY <1>1, PathAround
  <2> QED
    BY <2>1, PathEnds DEF Edge
<1> HIDE DEF p, n
<1>8. /\ m.next = [l.next EXCEPT ![p] = n]
      /\ m.prev = [l.prev EXCEPT ![n] = p]
  BY <1>7 DEF Bridge
<1>9. m \in Links
  BY <1>1, <1>6, <1>7 DEF Bridge, Links
<1>10. /\ m.next[p] = n /\ m.prev[n] = p
       /\ \A c \in Cells : c # p => m.next[c] = l.next[c]
       /\ \A c \in Cells : c # n => m.prev[c] = l.prev[c]
  BY <1>1, <1>6, <1>8 DEF Links
<1> HIDE DEF m, u
<1>11. Path(m, h, u, h)
  <2>1. Edge(m, p, n)
    BY <1>10 DEF Edge
  <2>2. /\ \A c \in S \cup {h} : c # p => m.next[c] = l.next[c]
        /\ \A c \in S \cup {h} : c # n => m.prev[c] = l.prev[c]
    BY <1>1, <1>10
  <2>3. h \notin S
    BY <1>1
  <2> HIDE DEF S
  <2>4. Path(m, h, a, n) /\ Path(m, p, b, h)
    <3>1. /\ Inj(a \o b) /\ Path(l, h, a, e) /\ Path(l, e, b, h)
          /\ Edge(m, Final(h, a), n) /\ Edge(m, p, First(b, h))
          /\ \A c \in S \cup {h} : c # Final(h, a) => m.next[c] = l.next[c]
          /\ \A c \in S \cup {h} : c # First(b, h) => m.prev[c] = l.prev[c]
      BY <1>3, <1>7, <2>1, <2>2 DEF p, n, u
    <3> QED
      BY ONLY <1>4, <2>3, <3>1, PathSides
  <2> QED
    BY <2>4, PathConcat DEF u, p, n
<1>12. u \in Seq(Entries) /\ \A x : Contains(u, x) => x \in Entries \cap q
  <2>1. u \in Seq(Entries)
    BY DEF u
  <2> QED
    BY <1>1, <1>2, <1>3, <2>1
<1>13. u \in Seq(Entries \cap q)
  BY <1>12, SeqWithin
<1>14. w \in [Lists -> Seq(Entries \cup {Null})] /\ w[h] = u /\ \A g \in Lists \ {h} : w[g] = v[g]
  <2>1. u \in Seq(Entries \cup {Null})
    BY <1>12
  <2> QED
    BY <2>1 DEF Fits
<1>15. Touches(l, r, v, m, {h}, {e})
  <2>1. ASSUME NEW c \in Cells \ ({h} \cup {e})
        PROVE  Contains(v[h], c) \/ (m.next[c] = l.next[c] /\ m.prev[c] = l.prev[c])
    BY <1>2, <1>5, <1>10
  <2>2. \A g \in (Lists \cap r) \ {h} : ~Contains(v[g], e)
    BY <1>2, OnOne
  <2> QED
    BY <2>1, <2>2 DEF Touches
<1>16. \A x \in Entries \cap q : x \in {e} \/ (\E g \in {h} \cap r : Contains(v[g], x)) =>
            Edge(m, x, x) \/ \E g \in {h} \cap q : Contains(w[g], x)
  <2> SUFFICES ASSUME NEW x \in Entries \cap q, Contains(v[h], x)
               PROVE  \E g \in {h} \cap q : Contains(w[g], x)
    OBVIOUS
  <2>1. Contains(u, x) /\ h \in q
    BY <1>1, <1>2, CellsAssumption
  <2> QED
    BY <1>14, <2>1
<1>17. /\ q \in SUBSET Cells /\ \A c \in Cells \ ({h} \cup {e}) : c \in q <=> c \in r
       /\ {h} \cap q = {h} /\ {h} \ q = {}
  BY <1>1
<1> HIDE DEF q, w
<1>18. Fits(m, q, w)
  <2>1. \A g \in {h} \cap q : w[g] \in Seq(Entries \cap q) /\ Path(m, g, w[g], g)
    BY <1>11, <1>13, <1>14
  <2>2. /\ \A g \in Lists \ {h} : w[g] = v[g]
        /\ \A g \in {h} \ q : w[g] = <<Null>>
        /\ w \in [Lists -> Seq(Entries \cup {Null})]
    BY <1>14, <1>17
  <2>3. Restores(r, v, m, q, w, {h}, {e})
    BY <1>9, <1>16, <1>17, <2>1, <2>2 DEF Restores
  <2> QED
    BY <1>15, <2>3, FitsChanged
<1> QED
  BY <1>7, <1>18 DEF m, q, u, w, p, n

\* The pointers of one entry, that is in no ring but its own.
LEMMA EntryAlone ==
    ASSUME NEW l, NEW r, NEW v, Fits(l, r, v), NEW e \in Entries,
           \A g \in Lists \cap r : ~Contains(v[g], e),
           NEW m \in Links,
           \A c \in Cells \ {e} : m.next[c] = l.next[c] /\ m.prev[c] = l.prev[c],
           NEW q \in SUBSET Cells, q \ {e} = r \ {e}, e \in q => Edge(m, e, e)
    PROVE  Fits(m, q, v)
<1>1. Touches(l, r, v, m, {}, {e})
  BY DEF Touches
<1>2. Restores(r, v, m, q, v, {}, {e})
  <2>1. v \in [Lists -> Seq(Entries \cup {Null})]
    BY DEF Fits
  <2>2. \A c \in Cells \ ({} \cup {e}) : c \in q <=> c \in r
    OBVIOUS
  <2> HIDE DEF Edge
  <2> QED
    BY <2>1, <2>2 DEF Restores
<1> QED
  BY <1>1, <1>2, FitsChanged

\* The pointers of one head, that is not in use or has no entry.
LEMMA HeadAlone ==
    ASSUME NEW l, NEW r, NEW v, Fits(l, r, v), NEW h \in Lists,
           h \notin r \/ v[h] = <<>>,
           NEW m \in Links,
           \A c \in Cells \ {h} : m.next[c] = l.next[c] /\ m.prev[c] = l.prev[c],
           NEW q \in SUBSET Cells, q \ {h} = r \ {h}, h \in q => Edge(m, h, h)
    PROVE  Fits(m, q, [v EXCEPT ![h] = IF h \in q THEN <<>> ELSE <<Null>>])
<1> DEFINE u == IF h \in q THEN <<>> ELSE <<Null>>
           w == [v EXCEPT ![h] = u]
<1>1. Touches(l, r, v, m, {h}, {})
  BY DEF Touches
<1>2. /\ w \in [Lists -> Seq(Entries \cup {Null})] /\ w[h] = u
      /\ \A g \in Lists \ {h} : w[g] = v[g]
  <2>0. <<>> \in Seq(Entries \cup {Null}) /\ <<Null>> \in Seq(Entries \cup {Null})
    BY EmptySeq
  <2>1. u \in Seq(Entries \cup {Null})
    BY <2>0, Zenon
  <2> HIDE DEF u
  <2> QED
    BY <2>1 DEF Fits
<1>3. h \in q => w[h] \in Seq(Entries \cap q) /\ Path(m, h, w[h], h)
  <2> SUFFICES ASSUME h \in q PROVE <<>> \in Seq(Entries \cap q) /\ Path(m, h, <<>>, h)
    BY <1>2
  <2>1. \A i \in 0..Len(<<>>) : At(h, <<>>, h, i) = h /\ At(h, <<>>, h, i + 1) = h
    <3>1. Len(<<>>) = 0
      BY EmptySeq
    <3> QED
      BY <3>1 DEF At
  <2>2. Edge(m, h, h)
    OBVIOUS
  <2> HIDE DEF Edge
  <2> QED
    BY <2>1, <2>2 DEF Path
<1>4. \A g \in {h} \cap r : \A x : ~Contains(v[g], x)
  <2>1. Len(<<>>) = 0
    BY EmptySeq
  <2> QED
    BY <2>1 DEF Contains
<1>5. \A c \in Cells \ ({h} \cup {}) : c \in q <=> c \in r
  OBVIOUS
<1>6. \A g \in {h} \ q : w[g] = <<Null>>
  BY <1>2
<1> HIDE DEF w
<1>7. Restores(r, v, m, q, w, {h}, {})
  BY <1>2, <1>3, <1>4, <1>5, <1>6 DEF Restores
<1>8. Fits(m, q, w)
  BY <1>1, <1>7, FitsChanged
<1> QED
  BY <1>8 DEF w, u

\* INIT_LIST_HEAD of an entry and of a head.
LEMMA EntryInitialised ==
    ASSUME NEW l, NEW r, NEW v, Fits(l, r, v), NEW e \in Entries,
           \A g \in Lists \cap r : ~Contains(v[g], e)
    PROVE  Fits(InitHead(l, e), r \cup {e}, v)
<1> DEFINE m == InitHead(l, e)
           q == r \cup {e}
<1>1. l \in Links /\ e \in Cells /\ r \subseteq Cells
  BY DEF Fits, Cells
<1>2. m \in Links /\ Edge(m, e, e)
      /\ \A c \in Cells \ {e} : m.next[c] = l.next[c] /\ m.prev[c] = l.prev[c]
  BY <1>1 DEF InitHead, Links, Edge
<1>3. q \in SUBSET Cells /\ q \ {e} = r \ {e}
  BY <1>1
<1> HIDE DEF m, q
<1>4. Fits(m, q, v)
  BY <1>2, <1>3, EntryAlone
<1> QED
  BY <1>4 DEF m, q

\* INIT_LIST_HEAD of a head that is not in use, or has an empty list.
LEMMA HeadInitialised ==
    ASSUME NEW l, NEW r, NEW v, Fits(l, r, v), NEW h \in Lists,
           h \notin r \/ v[h] = <<>>
    PROVE  Fits(InitHead(l, h), r \cup {h}, [v EXCEPT ![h] = <<>>])
<1> DEFINE m == InitHead(l, h)
           q == r \cup {h}
<1>1. l \in Links /\ h \in Cells /\ r \subseteq Cells
  BY DEF Fits, Cells
<1>2. m \in Links /\ Edge(m, h, h)
      /\ \A c \in Cells \ {h} : m.next[c] = l.next[c] /\ m.prev[c] = l.prev[c]
  BY <1>1 DEF InitHead, Links, Edge
<1>3. q \in SUBSET Cells /\ q \ {h} = r \ {h} /\ h \in q
  BY <1>1
<1> HIDE DEF m, q
<1>4. Fits(m, q, [v EXCEPT ![h] = IF h \in q THEN <<>> ELSE <<Null>>])
  BY <1>2, <1>3, HeadAlone
<1>5. (IF h \in q THEN <<>> ELSE <<Null>>) = <<>>
  BY <1>3
<1>6. Fits(m, q, [v EXCEPT ![h] = <<>>])
  BY <1>4, <1>5, Zenon
<1> QED
  BY <1>6 DEF m, q

\* list_replace of a head: its list is the new one's.
LEMMA HeadReplaced ==
    ASSUME NEW l, NEW r, NEW v, Fits(l, r, v), NEW old \in Lists \cap r, NEW new \in Lists \ {old},
           new \notin r \/ v[new] = <<>>
    PROVE  Fits(Replaced(l, old, new), (r \cup {new}) \ {old},
                [v EXCEPT ![new] = v[old], ![old] = <<Null>>])
<1> DEFINE s == v[old]
           p == Final(new, s)
           n == First(s, new)
           m == Replaced(l, old, new)
           q == (r \cup {new}) \ {old}
           w == [v EXCEPT ![new] = s, ![old] = <<Null>>]
<1>1. /\ s \in Seq(Entries \cap r) /\ Path(l, old, s, old) /\ Inj(s)
      /\ \A x : Contains(s, x) => x \in Entries \cap r
  BY ListFacts
<1>2. /\ l \in Links /\ r \subseteq Cells /\ old \in Cells /\ new \in Cells
      /\ old \notin Entries /\ new \notin Entries /\ Entries \subseteq Cells
  BY CellsAssumption DEF Fits, Cells
<1>3. /\ p = new \/ Contains(s, p)
      /\ n = new \/ Contains(s, n)
  BY <1>1, Place
<1>4. /\ Len(s) \in Nat /\ (s = <<>> <=> Len(s) = 0) /\ \A j \in 1..Len(s) : s[j] \in Entries
      /\ \A j \in 1..Len(s) : Contains(s, s[j])
  BY <1>1, EmptySeq DEF Contains
<1>5. l.next[old] = First(s, old) /\ l.prev[old] = Final(old, s)
  BY <1>1, PathEnds DEF Edge
<1> HIDE DEF s
<1>6. m = LinkBetween(l, new, p, IF s = <<>> THEN old ELSE n)
  <2>1. CASE s = <<>>
    BY <1>5, <2>1 DEF Replaced, LinkBetween, First, Final
  <2>2. CASE s # <<>>
    <3>1. l.next[old] = n /\ l.prev[old] = p
      BY <1>5, <2>2 DEF First, Final
    <3>2. n # old
      BY <1>1, <1>2, <1>3
    <3> QED
      BY <2>2, <3>1, <3>2 DEF Replaced, LinkBetween
  <2> QED
    BY <2>1, <2>2
<1>7. p \in Cells /\ n \in Cells
  BY <1>1, <1>2, <1>3
<1>8. (s = <<>> => p = new /\ n = new) /\ (s # <<>> => p # new /\ n # new)
  <2>1. s # <<>> => Len(s) \in 1..Len(s) /\ 1 \in 1..Len(s)
    BY <1>4
  <2> QED
    BY <1>2, <1>4, <2>1 DEF First, Final
<1> HIDE DEF p, n, m
<1>9. /\ m \in Links
      /\ m.next[new] = n /\ m.prev[new] = p /\ m.next[p] = new /\ m.prev[n] = new
      /\ \A c \in Cells : c \notin {new, p} => m.next[c] = l.next[c]
      /\ \A c \in Cells : c \notin {old, new, n} => m.prev[c] = l.prev[c]
  <2>1. CASE s = <<>>
    <3>1. m = LinkBetween(l, new, new, old) /\ p = new /\ n = new
      BY <1>6, <1>8, <2>1
    <3> QED
      BY <1>2, <3>1 DEF LinkBetween, Links
  <2>2. CASE s # <<>>
    <3>1. m = LinkBetween(l, new, p, n) /\ p # new /\ n # new
      BY <1>6, <1>8, <2>2
    <3> QED
      BY <1>2, <1>7, <3>1 DEF LinkBetween, Links
  <2> QED
    BY <2>1, <2>2
<1>10. Path(m, new, s, new)
  <2>1. Edge(m, new, First(s, new)) /\ Edge(m, Final(new, s), new)
    BY <1>9 DEF Edge, p, n
  <2>2. ASSUME NEW j \in 1..Len(s) - 1
        PROVE  m.next[s[j]] = l.next[s[j]] /\ m.prev[s[j + 1]] = l.prev[s[j + 1]]
    <3>1. j \in 1..Len(s) /\ j + 1 \in 1..Len(s) /\ s # <<>>
      BY <1>4
    <3>2. 1 \in 1..Len(s) /\ Len(s) \in 1..Len(s) /\ j # Len(s) /\ j + 1 # 1
      BY <1>4, <3>1
    <3>3. p = s[Len(s)] /\ n = s[1]
      BY <3>1 DEF p, n, First, Final
    <3>4. s[j] # p /\ s[j + 1] # n
      BY <1>1, <3>1, <3>2, <3>3 DEF Inj
    <3>5. s[j] \in Entries /\ s[j + 1] \in Entries
      BY <1>4, <3>1
    <3>6. s[j] \in Cells /\ s[j + 1] \in Cells /\ s[j] \notin {old, new} /\ s[j + 1] \notin {old, new}
      BY <1>2, <3>5
    <3> QED
      BY <1>9, <3>4, <3>6
  <2> QED
    BY <1>1, <2>1, <2>2, PathMoved
<1>11. s \in Seq(Entries \cap q)
  BY <1>1, <1>2, SeqWithin
<1>12. /\ w \in [Lists -> Seq(Entries \cup {Null})] /\ w[new] = s /\ w[old] = <<Null>>
       /\ \A g \in Lists \ {old, new} : w[g] = v[g]
  <2>1. s \in Seq(Entries \cup {Null}) /\ <<Null>> \in Seq(Entries \cup {Null})
    BY <1>1
  <2> QED
    BY <2>1 DEF Fits
<1>13. Touches(l, r, v, m, {old, new}, {})
  <2>1. ASSUME NEW c \in Cells \ ({old, new} \cup {})
        PROVE  Contains(v[old], c) \/ (m.next[c] = l.next[c] /\ m.prev[c] = l.prev[c])
    BY <1>3, <1>9 DEF s
  <2>2. old \in {old, new} \cap r
    OBVIOUS
  <2> QED
    BY <2>1, <2>2 DEF Touches
<1>14. \A x \in Entries \cap q : (\E g \in {old, new} \cap r : Contains(v[g], x)) =>
            \E g \in {old, new} \cap q : Contains(w[g], x)
  <2> SUFFICES ASSUME NEW x \in Entries \cap q, NEW g \in {old, new} \cap r, Contains(v[g], x)
               PROVE  \E k \in {old, new} \cap q : Contains(w[k], x)
    OBVIOUS
  <2>1. CASE g = old
    BY <1>12, <2>1 DEF s
  <2>2. CASE g = new
    <3>1. v[new] = <<>> /\ Len(<<>>) = 0
      BY <2>2, EmptySeq
    <3> QED
      BY <2>2, <3>1 DEF Contains
  <2> QED
    BY <2>1, <2>2
<1>15. /\ q \in SUBSET Cells /\ \A c \in Cells \ ({old, new} \cup {}) : c \in q <=> c \in r
       /\ {old, new} \cap q = {new} /\ {old, new} \ q = {old}
  BY <1>2
<1> HIDE DEF q, w
<1>16. Restores(r, v, m, q, w, {old, new}, {})
  <2>1. \A g \in {old, new} \cap q : w[g] \in Seq(Entries \cap q) /\ Path(m, g, w[g], g)
    BY <1>10, <1>11, <1>12, <1>15
  <2>2. \A g \in {old, new} \ q : w[g] = <<Null>>
    BY <1>12, <1>15
  <2> QED
    BY <1>9, <1>12, <1>14, <1>15, <2>1, <2>2 DEF Restores
<1>17. Fits(m, q, w)
  BY <1>13, <1>16, FitsChanged
<1> QED
  BY <1>17 DEF m, q, w, s

\* __list_cut_position: what is before the place goes to g.
LEMMA CutAt ==
    ASSUME NEW l, NEW r, NEW v, Fits(l, r, v), NEW h \in Lists \cap r, NEW g \in Lists \ {h},
           g \notin r \/ v[g] = <<>>,
           NEW a \in Seq(Entries), NEW b \in Seq(Entries), v[h] = a \o b, a # <<>>
    PROVE  Fits(Cut(l, g, h, Final(h, a)), r \cup {g}, [v EXCEPT ![g] = a, ![h] = b])
<1> DEFINE e == Final(h, a)
           rest == First(b, h)
           one == First(a, h)
           m == Cut(l, g, h, e)
           q == r \cup {g}
           w == [v EXCEPT ![g] = a, ![h] = b]
           S == Entries \cap r
<1>1. /\ l \in Links /\ r \subseteq Cells /\ h \in Cells /\ g \in Cells
      /\ h \notin Entries /\ g \notin Entries /\ Entries \subseteq Cells
  BY CellsAssumption DEF Fits, Cells
<1>2. /\ Path(l, h, a \o b, h) /\ Inj(a \o b)
      /\ \A x : Contains(a \o b, x) => x \in S
  <2>1. /\ Path(l, h, v[h], h) /\ Inj(v[h])
        /\ \A x : Contains(v[h], x) => x \in S
    BY ListFacts
  <2> HIDE DEF Path, Inj, Contains, S
  <2> QED
    BY <2>1, Zenon
<1>3. \A x : Contains(a \o b, x) <=> Contains(a, x) \/ Contains(b, x)
  BY ContainsConcat
<1>4. a \in Seq(S) /\ b \in Seq(S)
  <2>1. \A x : Contains(a, x) \/ Contains(b, x) => x \in S
    BY <1>2, <1>3
  <2> QED
    BY <2>1, SeqWithin
<1>5. /\ Len(a) \in Nat /\ Len(b) \in Nat /\ Len(a) # 0 /\ (b = <<>> <=> Len(b) = 0)
      /\ 1 \in 1..Len(a) /\ Len(a) \in 1..Len(a)
      /\ \A j \in 1..Len(a) : a[j] \in S
      /\ \A j \in 1..Len(b) : b[j] \in S
  BY <1>4, EmptySeq
<1>6. e = a[Len(a)] /\ one = a[1] /\ (rest = h \/ (rest \in S /\ b # <<>> /\ rest = b[1]))
  <2>1. b # <<>> => 1 \in 1..Len(b)
    BY <1>5
  <2> QED
    BY <1>5, <2>1 DEF First, Final
<1>7. /\ Inj(a) /\ Inj(b)
      /\ \A j \in 1..Len(a), k \in 1..Len(b) : a[j] # b[k]
  BY <1>2, InjConcat
<1>8. rest # one /\ rest # g /\ one # h /\ one # g /\ e # h /\ e # g
  <2>1. b # <<>> => 1 \in 1..Len(b)
    BY <1>5
  <2> QED
    BY <1>1, <1>5, <1>6, <1>7, <2>1
<1>9. /\ Path(l, h, a, rest) /\ Path(l, e, b, h)
      /\ l.next[h] = one /\ l.next[e] = rest
  <2>1. Path(l, h, a, rest) /\ Path(l, e, b, h)
    BY <1>2, PathConcat
  <2>2. Edge(l, h, First(a, rest)) /\ Edge(l, Final(h, a), rest)
    BY <2>1, PathEnds
  <2> QED
    BY <2>1, <2>2 DEF Edge, First
<1>10. one \in Cells /\ e \in Cells /\ rest \in Cells
  BY <1>1, <1>5, <1>6
<1> HIDE DEF e, rest, one, S
<1>11. /\ m.next = [l.next EXCEPT ![g] = one, ![e] = g, ![h] = rest]
       /\ m.prev = [l.prev EXCEPT ![one] = g, ![g] = e, ![rest] = h]
  BY <1>9 DEF Cut
<1>12. m \in Links
  BY <1>1, <1>9, <1>10 DEF Cut, Links
<1>13. /\ m.next[g] = one /\ m.next[e] = g /\ m.next[h] = rest
       /\ m.prev[one] = g /\ m.prev[g] = e /\ m.prev[rest] = h
       /\ \A c \in Cells : c \notin {g, e, h} => m.next[c] = l.next[c]
       /\ \A c \in Cells : c \notin {one, g, rest} => m.prev[c] = l.prev[c]
  BY <1>1, <1>8, <1>10, <1>11 DEF Links
<1> HIDE DEF m
<1>14. \A c \in S : c \in Cells /\ c \notin {g, h}
  BY <1>1 DEF S
<1>15. Path(m, g, a, g)
  <2>1. Edge(m, g, First(a, g)) /\ Edge(m, Final(g, a), g)
    BY <1>6, <1>13 DEF Edge, First, Final
  <2>2. ASSUME NEW j \in 1..Len(a) - 1
        PROVE  m.next[a[j]] = l.next[a[j]] /\ m.prev[a[j + 1]] = l.prev[a[j + 1]]
    <3>1. j \in 1..Len(a) /\ j + 1 \in 1..Len(a) /\ j # Len(a) /\ j + 1 # 1
      BY <1>5
    <3>2. a[j] # e /\ a[j + 1] # one
      BY <1>5, <1>6, <1>7, <3>1 DEF Inj
    <3>3. a[j + 1] # rest
      <4>1. b # <<>> => 1 \in 1..Len(b)
        BY <1>5
      <4> QED
        BY <1>5, <1>6, <1>7, <1>14, <3>1, <4>1
    <3>4. a[j] \in S /\ a[j + 1] \in S
      BY <1>5, <3>1
    <3> QED
      BY <1>13, <1>14, <3>2, <3>3, <3>4
  <2>3. a \in Seq(S) /\ Path(l, h, a, rest)
    BY <1>4, <1>9
  <2>4. \A i \in 1..Len(a) - 1 : /\ m.next[a[i]] = l.next[a[i]]
                                 /\ m.prev[a[i + 1]] = l.prev[a[i + 1]]
    BY <2>2
  <2> QED
    BY <2>1, <2>3, <2>4, PathMoved
<1>16. Path(m, h, b, h)
  <2>1. Edge(m, h, First(b, h))
    BY <1>13 DEF Edge, rest
  <2>2. ASSUME NEW j \in 1..Len(b) PROVE m.next[b[j]] = l.next[b[j]]
    <3>1. b[j] # e /\ b[j] \in S
      BY <1>5, <1>6, <1>7
    <3> QED
      BY <1>13, <1>14, <3>1
  <2>3. ASSUME NEW j \in 2..Len(b) PROVE m.prev[b[j]] = l.prev[b[j]]
    <3>1. j \in 1..Len(b) /\ 1 \in 1..Len(b) /\ j # 1 /\ b # <<>>
      BY <1>5
    <3>2. b[j] # one /\ b[j] \in S
      BY <1>5, <1>6, <1>7, <3>1
    <3>3. b[j] # rest
      BY <1>6, <1>7, <1>14, <3>1, <3>2 DEF Inj
    <3> QED
      BY <1>13, <1>14, <3>2, <3>3
  <2>4. b # <<>> => m.prev[h] = l.prev[h]
    <3> SUFFICES ASSUME b # <<>> PROVE m.prev[h] = l.prev[h]
      OBVIOUS
    <3>1. rest = b[1] /\ 1 \in 1..Len(b)
      BY <1>5 DEF rest, First
    <3>2. rest # h
      BY <1>5, <1>14, <3>1
    <3> QED
      BY <1>1, <1>8, <1>13, <3>2
  <2> QED
    BY <1>9, <2>1, <2>2, <2>3, <2>4, PathRestart
<1>17. a \in Seq(Entries \cap q) /\ b \in Seq(Entries \cap q)
  <2>1. \A x : Contains(a, x) \/ Contains(b, x) => x \in Entries \cap q
    BY <1>2, <1>3 DEF S
  <2> QED
    BY <2>1, SeqWithin
<1>18. /\ w \in [Lists -> Seq(Entries \cup {Null})] /\ w[g] = a /\ w[h] = b
       /\ \A k \in Lists \ {g, h} : w[k] = v[k]
  <2>1. a \in Seq(Entries \cup {Null}) /\ b \in Seq(Entries \cup {Null})
    OBVIOUS
  <2> QED
    BY <2>1 DEF Fits
<1>19. Touches(l, r, v, m, {g, h}, {})
  <2>1. ASSUME NEW c \in Cells \ ({g, h} \cup {})
        PROVE  Contains(v[h], c) \/ (m.next[c] = l.next[c] /\ m.prev[c] = l.prev[c])
    <3>1. Contains(a, e) /\ Contains(a, one) /\ (rest = h \/ Contains(b, rest))
      <4>1. b # <<>> => 1 \in 1..Len(b)
        BY <1>5
      <4> QED
        BY <1>5, <1>6, <4>1 DEF Contains
    <3> HIDE DEF Contains
    <3> QED
      BY <1>3, <1>13, <3>1
  <2>2. h \in {g, h} \cap r
    OBVIOUS
  <2> QED
    BY <2>1, <2>2 DEF Touches
<1>20. \A x \in Entries \cap q : (\E k \in {g, h} \cap r : Contains(v[k], x)) =>
            \E k \in {g, h} \cap q : Contains(w[k], x)
  <2> SUFFICES ASSUME NEW x \in Entries \cap q, NEW k \in {g, h} \cap r, Contains(v[k], x)
               PROVE  \E i \in {g, h} \cap q : Contains(w[i], x)
    OBVIOUS
  <2>1. CASE k = h
    <3>1. Contains(a, x) \/ Contains(b, x)
      BY <1>3, <2>1
    <3>2. g \in {g, h} \cap q /\ h \in {g, h} \cap q
      OBVIOUS
    <3> HIDE DEF Contains, q
    <3> QED
      BY <1>18, <3>1, <3>2
  <2>2. CASE k = g
    <3>1. v[g] = <<>> /\ Len(<<>>) = 0
      BY <2>2, EmptySeq
    <3> QED
      BY <2>2, <3>1 DEF Contains
  <2> QED
    BY <2>1, <2>2
<1>21. /\ q \in SUBSET Cells /\ \A c \in Cells \ ({g, h} \cup {}) : c \in q <=> c \in r
       /\ {g, h} \cap q = {g, h} /\ {g, h} \ q = {}
  BY <1>1
<1> HIDE DEF q, w
<1>22. Restores(r, v, m, q, w, {g, h}, {})
  <2>1. \A k \in {g, h} \cap q : w[k] \in Seq(Entries \cap q) /\ Path(m, k, w[k], k)
    BY <1>15, <1>16, <1>17, <1>18
  <2> QED
    BY <1>12, <1>18, <1>20, <1>21, <2>1 DEF Restores
<1>23. Fits(m, q, w)
  BY <1>19, <1>22, FitsChanged
<1> QED
  BY <1>23 DEF m, q, w, e

\* __list_splice: the list of g goes between the cells on both sides of a place.
LEMMA JoinedAt ==
    ASSUME NEW l, NEW r, NEW v, Fits(l, r, v),
           NEW h \in Lists \cap r, NEW g \in (Lists \cap r) \ {h}, v[g] # <<>>,
           NEW a \in Seq(Entries), NEW b \in Seq(Entries), v[h] = a \o b
    PROVE  Fits(Joined(l, g, Final(h, a), First(b, h)), r \ {g},
                [v EXCEPT ![h] = a \o (v[g] \o b), ![g] = <<Null>>])
<1> DEFINE t == v[g]
           p == Final(h, a)
           n == First(b, h)
           one == First(t, g)
           last == Final(g, t)
           m == Joined(l, g, p, n)
           q == r \ {g}
           u == a \o (t \o b)
           w == [v EXCEPT ![h] = u, ![g] = <<Null>>]
           S == {x \in Entries \cap r : ~Contains(t, x)}
<1>1. /\ l \in Links /\ r \subseteq Cells /\ h \in Cells /\ g \in Cells
      /\ h \notin Entries /\ g \notin Entries /\ Entries \subseteq Cells
  BY CellsAssumption DEF Fits, Cells
<1>2. /\ Path(l, h, a \o b, h) /\ Inj(a \o b)
      /\ \A x : Contains(a \o b, x) => x \in Entries \cap r
  <2>1. /\ Path(l, h, v[h], h) /\ Inj(v[h])
        /\ \A x : Contains(v[h], x) => x \in Entries \cap r
    BY ListFacts
  <2> HIDE DEF Path, Inj, Contains
  <2> QED
    BY <2>1, Zenon
<1>3. /\ t \in Seq(Entries \cap r) /\ Path(l, g, t, g) /\ Inj(t)
      /\ \A x : Contains(t, x) => x \in Entries \cap r
  BY ListFacts
<1>4. \A x : ~(Contains(a \o b, x) /\ Contains(t, x))
  <2> SUFFICES ASSUME NEW x, Contains(v[h], x), Contains(v[g], x) PROVE FALSE
    BY Zenon
  <2> QED
    BY OnOne
<1>5. t # <<>>
  OBVIOUS
<1> HIDE DEF t
<1>6. /\ \A x : Contains(a \o b, x) <=> Contains(a, x) \/ Contains(b, x)
      /\ \A x : Contains(u, x) <=> Contains(a, x) \/ Contains(t, x) \/ Contains(b, x)
  <2>1. t \in Seq(Entries) /\ t \o b \in Seq(Entries)
    BY <1>3
  <2>2. \A x : Contains(t \o b, x) <=> Contains(t, x) \/ Contains(b, x)
    BY <2>1, ContainsConcat
  <2>3. \A x : Contains(u, x) <=> Contains(a, x) \/ Contains(t \o b, x)
    BY <2>1, ContainsConcat
  <2>4. \A x : Contains(a \o b, x) <=> Contains(a, x) \/ Contains(b, x)
    BY ContainsConcat
  <2> HIDE DEF u, Contains
  <2> QED
    BY <2>2, <2>3, <2>4, Zenon
<1>7. a \in Seq(S) /\ b \in Seq(S)
  <2>1. \A x : Contains(a, x) \/ Contains(b, x) => x \in S
    BY <1>2, <1>4, <1>6
  <2> QED
    BY <2>1, SeqWithin
<1>8. /\ p = h \/ Contains(a, p)
      /\ n = h \/ Contains(b, n)
  BY Place
<1>9. Contains(t, one) /\ Contains(t, last)
  <2>1. 1 \in 1..Len(t) /\ Len(t) \in 1..Len(t)
    BY <1>3, <1>5, EmptySeq
  <2> QED
    BY <1>5, <2>1 DEF First, Final, Contains
<1>10. /\ p \in Cells /\ n \in Cells /\ one \in Cells /\ last \in Cells
       /\ p # last /\ n # one /\ p # g /\ n # g /\ one # h /\ last # h
       /\ one # g /\ last # g
  <2> HIDE DEF p, n, one, last
  <2>1. /\ p = h \/ (p \in Entries \cap r /\ ~Contains(t, p))
        /\ n = h \/ (n \in Entries \cap r /\ ~Contains(t, n))
    BY <1>2, <1>4, <1>6, <1>8
  <2>2. one \in Entries \cap r /\ last \in Entries \cap r
    BY <1>3, <1>9
  <2> QED
    BY <1>1, <1>9, <2>1, <2>2
<1>11. /\ Path(l, h, a, n) /\ Path(l, p, b, h)
       /\ l.next[g] = one /\ l.prev[g] = last
  <2>1. Path(l, h, a, n) /\ Path(l, p, b, h)
    BY <1>2, PathConcat
  <2>2. Edge(l, g, First(t, g)) /\ Edge(l, Final(g, t), g)
    BY <1>3, PathEnds
  <2> QED
    BY <2>1, <2>2 DEF Edge
<1> HIDE DEF p, n, one, last
<1>12. /\ m.next = [l.next EXCEPT ![p] = one, ![last] = n]
       /\ m.prev = [l.prev EXCEPT ![one] = p, ![n] = last]
  BY <1>11 DEF Joined
<1>13. m \in Links
  BY <1>1, <1>10, <1>11 DEF Joined, Links
<1>14. /\ m.next[p] = one /\ m.next[last] = n /\ m.prev[one] = p /\ m.prev[n] = last
       /\ \A c \in Cells : c \notin {p, last} => m.next[c] = l.next[c]
       /\ \A c \in Cells : c \notin {n, one} => m.prev[c] = l.prev[c]
  BY <1>1, <1>10, <1>12 DEF Links
<1> HIDE DEF m, u
<1>15. Path(m, h, a, one) /\ Path(m, last, b, h)
  <2>1. Edge(m, p, one) /\ Edge(m, last, n)
    BY <1>14 DEF Edge
  <2>2. /\ \A c \in S \cup {h} : c # p => m.next[c] = l.next[c]
        /\ \A c \in S \cup {h} : c # n => m.prev[c] = l.prev[c]
    <3>1. \A c \in S \cup {h} : c \in Cells /\ c # last /\ c # one
      BY <1>1, <1>9, <1>10
    <3> QED
      BY <1>14, <3>1
  <2>3. h \notin S
    BY <1>1
  <2> HIDE DEF S
  <2>4. Edge(m, Final(h, a), one) /\ Edge(m, last, First(b, h))
    BY <2>1 DEF p, n
  <2>5. /\ \A c \in S \cup {h} : c # Final(h, a) => m.next[c] = l.next[c]
        /\ \A c \in S \cup {h} : c # First(b, h) => m.prev[c] = l.prev[c]
    BY <2>2 DEF p, n
  <2> QED
    BY ONLY <1>2, <1>7, <1>11, <2>3, <2>4, <2>5, PathSides
<1>16. Path(m, p, t, n)
  <2>0. Len(t) \in Nat /\ 1 \in 1..Len(t) /\ Len(t) \in 1..Len(t)
    BY <1>3, <1>5, EmptySeq
  <2>1. Edge(m, p, First(t, n)) /\ Edge(m, Final(p, t), n)
    BY <1>5, <1>14 DEF Edge, First, Final, one, last
  <2>2. ASSUME NEW j \in 1..Len(t) - 1
        PROVE  m.next[t[j]] = l.next[t[j]] /\ m.prev[t[j + 1]] = l.prev[t[j + 1]]
    <3>1. j \in 1..Len(t) /\ j + 1 \in 1..Len(t) /\ j # Len(t) /\ j + 1 # 1
      BY <2>0
    <3>2. t[j] # t[Len(t)] /\ t[j + 1] # t[1]
      BY <1>3, <2>0, <3>1 DEF Inj
    <3>3. Contains(t, t[j]) /\ Contains(t, t[j + 1])
      BY <3>1 DEF Contains
    <3>4. last = t[Len(t)] /\ one = t[1]
      BY <1>5 DEF last, one, First, Final
    <3> HIDE DEF Contains
    <3>5. t[j] # p /\ t[j + 1] # n /\ t[j] \in Cells /\ t[j + 1] \in Cells
      BY <1>1, <1>3, <1>4, <1>6, <1>8, <3>3
    <3> QED
      BY <1>14, <3>2, <3>4, <3>5
  <2> QED
    BY <1>3, <2>1, <2>2, PathMoved
<1>17. Path(m, h, u, h)
  <2>1. t \in Seq(Entries) /\ t \o b \in Seq(Entries)
    BY <1>3
  <2>2. Path(m, p, t \o b, h)
    <3>1. Final(p, t) = last
      BY <1>5 DEF Final, last
    <3> QED
      BY <1>15, <1>16, <2>1, <3>1, PathConcat DEF n
  <2>3. First(t \o b, h) = one
    <3>1. (t \o b)[1] = t[1] /\ t \o b # <<>>
      <4>1. Len(t) \in Nat /\ Len(b) \in Nat /\ 1 \in 1..Len(t)
        BY <1>3, <1>5, EmptySeq
      <4>2. Len(t \o b) = Len(t) + Len(b) /\ (t \o b)[1] = t[1]
        BY <2>1, <4>1
      <4> QED
        BY <4>1, <4>2, EmptySeq
    <3> QED
      BY <1>5, <3>1 DEF First, one
  <2> QED
    BY <1>15, <2>1, <2>2, <2>3, PathConcat DEF u, p
<1>18. u \in Seq(Entries) /\ u \in Seq(Entries \cap q)
  <2>1. u \in Seq(Entries)
    BY <1>3 DEF u
  <2>2. \A x : Contains(u, x) => x \in Entries \cap q
    BY <1>1, <1>2, <1>3, <1>6
  <2> QED
    BY <2>1, <2>2, SeqWithin
<1>19. /\ w \in [Lists -> Seq(Entries \cup {Null})] /\ w[h] = u /\ w[g] = <<Null>>
       /\ \A k \in Lists \ {g, h} : w[k] = v[k]
  <2>1. u \in Seq(Entries \cup {Null}) /\ <<Null>> \in Seq(Entries \cup {Null})
    BY <1>18
  <2> QED
    BY <2>1 DEF Fits
<1>20. Touches(l, r, v, m, {g, h}, {})
  <2>1. ASSUME NEW c \in Cells \ ({g, h} \cup {})
        PROVE  \/ Contains(v[h], c) \/ Contains(v[g], c)
               \/ m.next[c] = l.next[c] /\ m.prev[c] = l.prev[c]
    <3> HIDE DEF Contains
    <3> QED
      BY <1>6, <1>8, <1>9, <1>14 DEF t
  <2>2. h \in {g, h} \cap r /\ g \in {g, h} \cap r
    OBVIOUS
  <2> QED
    BY <2>1, <2>2 DEF Touches
<1>21. \A x \in Entries \cap q : (\E k \in {g, h} \cap r : Contains(v[k], x)) =>
            \E k \in {g, h} \cap q : Contains(w[k], x)
  <2> SUFFICES ASSUME NEW x \in Entries \cap q, NEW k \in {g, h} \cap r, Contains(v[k], x)
               PROVE  \E i \in {g, h} \cap q : Contains(w[i], x)
    OBVIOUS
  <2>1. Contains(u, x)
    <3> HIDE DEF Contains
    <3> QED
      BY <1>6 DEF t
  <2>2. h \in {g, h} \cap q
    OBVIOUS
  <2> HIDE DEF Contains, q
  <2> QED
    BY <1>19, <2>1, <2>2
<1>22. /\ q \in SUBSET Cells /\ \A c \in Cells \ ({g, h} \cup {}) : c \in q <=> c \in r
       /\ {g, h} \cap q = {h} /\ {g, h} \ q = {g}
  BY <1>1
<1> HIDE DEF q, w
<1>23. Restores(r, v, m, q, w, {g, h}, {})
  <2>1. \A k \in {g, h} \cap q : w[k] \in Seq(Entries \cap q) /\ Path(m, k, w[k], k)
    BY <1>17, <1>18, <1>19, <1>22
  <2>2. \A k \in {g, h} \ q : w[k] = <<Null>>
    BY <1>19, <1>22
  <2> QED
    BY <1>13, <1>19, <1>21, <1>22, <2>1, <2>2 DEF Restores
<1>24. Fits(m, q, w)
  BY <1>20, <1>23, FitsChanged
<1> QED
  BY <1>24 DEF m, q, w, u, p, n, t

\* An entry in use is a ring of its own, or at one place of one list.
LEMMA WhereEntryIs ==
    ASSUME NEW l, NEW r, NEW v, Fits(l, r, v), NEW e \in Entries \cap r
    PROVE  \/ Edge(l, e, e) /\ \A g \in Lists \cap r : ~Contains(v[g], e)
           \/ \E h \in Lists \cap r : \E i \in 1..Len(v[h]) : v[h][i] = e
<1>1. CASE Edge(l, e, e)
  BY <1>1, LooseEntry DEF Edge
<1>2. CASE ~Edge(l, e, e)
  BY <1>2 DEF Fits, Contains
<1> QED
  BY <1>1, <1>2

\* A head that is not in use has no entry.
LEMMA UnusedList ==
    ASSUME NEW l, NEW r, NEW v, Fits(l, r, v), NEW g \in Lists, g \notin r, NEW e \in Entries
    PROVE  v[g] = <<Null>> /\ ~Contains(v[g], e)
<1>1. v[g] = <<Null>>
  BY DEF Fits
<1>2. e # Null
  BY CellsAssumption DEF Cells
<1> QED
  BY <1>1, <1>2, ContainsOne

\* What is on no list cannot be taken off or replaced.
LEMMA WithoutNone ==
    ASSUME NEW l, NEW r, NEW v, Fits(l, r, v), NEW e \in Entries,
           \A g \in Lists \cap r : ~Contains(v[g], e)
    PROVE  Without(v, e) = v /\ \A new : Subst(v, e, new) = v
<1>1. \A g \in Lists : ~Contains(v[g], e)
  BY UnusedList
<1>2. v = [g \in Lists |-> v[g]] /\ \A g \in Lists : v[g] \in Seq(Entries \cup {Null})
  BY DEF Fits
<1>3. \A g \in Lists : RemoveFirst(v[g], e) = v[g]
  BY <1>1, RemoveNone
<1>4. \A g \in Lists : \A new : ReplaceAll(v[g], e, new) = v[g]
  BY <1>1, <1>2, ReplaceNone
<1>5. [g \in Lists |-> RemoveFirst(v[g], e)] = [g \in Lists |-> v[g]]
  BY <1>3, Zenon
<1>6. \A new : [g \in Lists |-> ReplaceAll(v[g], e, new)] = [g \in Lists |-> v[g]]
  BY <1>4, Zenon
<1>7. Without(v, e) = v
  BY <1>2, <1>5, Zenon DEF Without
<1>8. \A new : Subst(v, e, new) = v
  BY <1>2, <1>6, Zenon DEF Subst
<1> QED
  BY <1>7, <1>8

\* With s on the list of h.
Put(v, h, s) == [v EXCEPT ![h] = s]

\* Taking an entry off its list, or replacing it there, changes that list only.
LEMMA WithoutIs ==
    ASSUME NEW l, NEW r, NEW v, Fits(l, r, v), NEW h \in Lists \cap r, NEW i \in 1..Len(v[h])
    PROVE  LET a == SubSeq(v[h], 1, i - 1)
               b == SubSeq(v[h], i + 1, Len(v[h]))
           IN  /\ Without(v, v[h][i]) = Put(v, h, a \o b)
               /\ \A new \in Entries :
                    Subst(v, v[h][i], new) = Put(v, h, a \o (<<new>> \o b))
<1> DEFINE e == v[h][i]
           a == SubSeq(v[h], 1, i - 1)
           b == SubSeq(v[h], i + 1, Len(v[h]))
<1>1. /\ v[h] \in Seq(Entries \cap r) /\ Inj(v[h]) /\ e \in Entries
      /\ Contains(v[h], e)
  BY ListFacts DEF Contains
<1>2. v \in [Lists -> Seq(Entries \cup {Null})]
  BY DEF Fits
<1>3. \A g \in Lists \ {h} : ~Contains(v[g], e)
  <2> SUFFICES ASSUME NEW g \in Lists \ {h} PROVE ~Contains(v[g], e)
    OBVIOUS
  <2>1. CASE g \in r
    BY <1>1, <2>1, OnOne
  <2>2. CASE g \notin r
    BY <1>1, <2>2, UnusedList
  <2> QED
    BY <2>1, <2>2
<1>4. RemoveFirst(v[h], e) = a \o b
  BY <1>1, RemoveFirstIs
<1>5. \A new \in Entries : ReplaceAll(v[h], e, new) = a \o (<<new>> \o b)
  <2>1. v[h] \in Seq(Entries)
    BY <1>1
  <2> QED
    BY <1>1, <2>1, ReplaceAllIs
<1> HIDE DEF a, b, e
<1>6. \A g \in Lists : RemoveFirst(v[g], e) = [v EXCEPT ![h] = a \o b][g]
  <2> SUFFICES ASSUME NEW g \in Lists PROVE RemoveFirst(v[g], e) = [v EXCEPT ![h] = a \o b][g]
    OBVIOUS
  <2>1. CASE g = h
    BY <1>2, <1>4, <2>1
  <2>2. CASE g # h
    <3>1. RemoveFirst(v[g], e) = v[g]
      BY <1>3, <2>2, RemoveNone
    <3> QED
      BY <1>2, <2>2, <3>1
  <2> QED
    BY <2>1, <2>2
<1>7. ASSUME NEW new \in Entries
      PROVE  \A g \in Lists : ReplaceAll(v[g], e, new) = [v EXCEPT ![h] = a \o (<<new>> \o b)][g]
  <2> SUFFICES ASSUME NEW g \in Lists
               PROVE  ReplaceAll(v[g], e, new) = [v EXCEPT ![h] = a \o (<<new>> \o b)][g]
    OBVIOUS
  <2>1. CASE g = h
    BY <1>2, <1>5, <2>1
  <2>2. CASE g # h
    <3>1. ReplaceAll(v[g], e, new) = v[g]
      BY <1>2, <1>3, <2>2, ReplaceNone
    <3> QED
      BY <1>2, <2>2, <3>1
  <2> QED
    BY <2>1, <2>2
<1>8. ASSUME NEW s
      PROVE  [v EXCEPT ![h] = s] = [g \in Lists |-> [v EXCEPT ![h] = s][g]]
  BY <1>2
<1>9. Without(v, e) = [v EXCEPT ![h] = a \o b]
  <2>1. [g \in Lists |-> RemoveFirst(v[g], e)] = [g \in Lists |-> [v EXCEPT ![h] = a \o b][g]]
    BY <1>6, Zenon
  <2> QED
    BY <1>8, <2>1, Zenon DEF Without
<1>10. ASSUME NEW new \in Entries
       PROVE  Subst(v, e, new) = [v EXCEPT ![h] = a \o (<<new>> \o b)]
  <2>1. [g \in Lists |-> ReplaceAll(v[g], e, new)]
        = [g \in Lists |-> [v EXCEPT ![h] = a \o (<<new>> \o b)][g]]
    BY <1>7, Zenon
  <2> QED
    BY <1>8, <2>1, Zenon DEF Subst
<1> QED
  BY <1>9, <1>10 DEF a, b, e, Put

\* a is before the entry e on the list of h, and b behind it.
Splits(v, h, e, a, b) ==
    /\ a \in Seq(Entries) /\ b \in Seq(Entries)
    /\ v[h] = a \o (<<e>> \o b)
    /\ Without(v, e) = Put(v, h, a \o b)
    /\ \A new \in Entries : Subst(v, e, new) = Put(v, h, a \o (<<new>> \o b))

\* The list of an entry is split at it.
LEMMA Around ==
    ASSUME NEW l, NEW r, NEW v, Fits(l, r, v), NEW h \in Lists \cap r, NEW e, Contains(v[h], e)
    PROVE  \E a, b : Splits(v, h, e, a, b)
<1>1. PICK i \in 1..Len(v[h]) : v[h][i] = e
  BY DEF Contains
<1> DEFINE a == SubSeq(v[h], 1, i - 1)
           b == SubSeq(v[h], i + 1, Len(v[h]))
<1>2. v[h] \in Seq(Entries)
  <2>1. v[h] \in Seq(Entries \cap r)
    BY ListFacts
  <2> QED
    BY <2>1
<1>3. a \in Seq(Entries) /\ b \in Seq(Entries) /\ v[h] = a \o (<<v[h][i]>> \o b)
  BY <1>2, SeqAround
<1>4. /\ Without(v, v[h][i]) = Put(v, h, a \o b)
      /\ \A new \in Entries : Subst(v, v[h][i], new) = Put(v, h, a \o (<<new>> \o b))
  BY WithoutIs
<1> HIDE DEF a, b
<1>5. /\ v[h] = a \o (<<e>> \o b)
      /\ Without(v, e) = Put(v, h, a \o b)
      /\ \A new \in Entries : Subst(v, e, new) = Put(v, h, a \o (<<new>> \o b))
  BY <1>1, <1>3, <1>4, Zenon
<1> QED
  BY <1>3, <1>5 DEF Splits

\* __list_del_entry of an entry in use.
LEMMA EntryTaken ==
    ASSUME NEW l, NEW r, NEW v, Fits(l, r, v), NEW e \in Entries \cap r
    PROVE  Fits(Bridge(l, e), r \ {e}, Without(v, e))
<1>1. CASE Edge(l, e, e) /\ \A g \in Lists \cap r : ~Contains(v[g], e)
  <2>1. Without(v, e) = v
    BY <1>1, WithoutNone
  <2>2. l \in Links /\ r \subseteq Cells /\ e \in Cells
    BY DEF Fits, Cells
  <2>3. Bridge(l, e) = l
    <3>1. /\ Bridge(l, e).next = [l.next EXCEPT ![e] = e]
          /\ Bridge(l, e).prev = [l.prev EXCEPT ![e] = e]
      BY <1>1 DEF Bridge, Edge
    <3>2. [l.next EXCEPT ![e] = e] = l.next /\ [l.prev EXCEPT ![e] = e] = l.prev
      BY <1>1, <2>2 DEF Links, Edge
    <3>3. Bridge(l, e) \in Links
      BY <1>1, <2>2 DEF Bridge, Links, Edge
    <3> QED
      BY <2>2, <3>1, <3>2, <3>3 DEF Links
  <2>4. r \ {e} \in SUBSET Cells /\ (r \ {e}) \ {e} = r \ {e}
    BY <2>2
  <2>5. Fits(l, r \ {e}, v)
    BY <1>1, <2>2, <2>4, EntryAlone
  <2> QED
    BY <2>1, <2>3, <2>5
<1>2. CASE \E h \in Lists \cap r : \E i \in 1..Len(v[h]) : v[h][i] = e
  <2>1. PICK h \in Lists \cap r : \E i \in 1..Len(v[h]) : v[h][i] = e
    BY <1>2
  <2>2. Contains(v[h], e)
    BY <2>1 DEF Contains
  <2>3. PICK a, b : Splits(v, h, e, a, b)
    BY <2>2, Around
  <2>4. /\ a \in Seq(Entries) /\ b \in Seq(Entries) /\ v[h] = a \o (<<e>> \o b)
        /\ Without(v, e) = Put(v, h, a \o b)
    BY <2>3 DEF Splits
  <2>5. Fits(Bridge(l, e), r \ {e}, Put(v, h, a \o b))
    BY <2>4, Bridged DEF Put
  <2> QED
    BY <2>4, <2>5
<1> QED
  BY <1>1, <1>2, WhereEntryIs

\* list_add and list_add_tail.
LEMMA EntryAdded ==
    ASSUME NEW l, NEW r, NEW v, Fits(l, r, v), NEW h \in Lists \cap r, NEW e \in Entries,
           e \notin r \/ l.next[e] = e
    PROVE  /\ Fits(Added(l, e, h), r \cup {e}, [v EXCEPT ![h] = <<e>> \o @])
           /\ Fits(AddedTail(l, e, h), r \cup {e}, [v EXCEPT ![h] = Append(@, e)])
<1>1. \A g \in Lists \cap r : ~Contains(v[g], e)
  BY LooseEntry
<1>2. v[h] \in Seq(Entries) /\ l.next[h] = First(v[h], h) /\ l.prev[h] = Final(h, v[h])
  <2>1. v[h] \in Seq(Entries \cap r) /\ Path(l, h, v[h], h)
    BY ListFacts
  <2>2. v[h] \in Seq(Entries)
    BY <2>1
  <2> QED
    BY <2>1, <2>2, PathEnds DEF Edge
<1>3. <<>> \in Seq(Entries) /\ <<e>> \in Seq(Entries) /\ <<e>> \o v[h] \in Seq(Entries)
  BY <1>2
<1>4. /\ v[h] = <<>> \o v[h] /\ v[h] = v[h] \o <<>>
      /\ <<>> \o (<<e>> \o v[h]) = <<e>> \o v[h]
      /\ <<e>> \o <<>> = <<e>> /\ Append(v[h], e) = v[h] \o <<e>>
  BY <1>2, <1>3, ConcatEmptySeq, AppendIsConcat
<1>5. Final(h, <<>>) = h /\ First(<<>>, h) = h
  BY DEF Final, First
<1>6. Fits(LinkBetween(l, e, h, First(v[h], h)), r \cup {e}, [v EXCEPT ![h] = <<>> \o (<<e>> \o v[h])])
  BY <1>1, <1>2, <1>3, <1>4, <1>5, Inserted
<1>7. Fits(LinkBetween(l, e, Final(h, v[h]), h), r \cup {e}, [v EXCEPT ![h] = v[h] \o (<<e>> \o <<>>)])
  BY <1>1, <1>2, <1>3, <1>4, <1>5, Inserted
<1>8. Fits(Added(l, e, h), r \cup {e}, [v EXCEPT ![h] = <<e>> \o v[h]])
  BY <1>2, <1>4, <1>6, Zenon DEF Added
<1>9. Fits(AddedTail(l, e, h), r \cup {e}, [v EXCEPT ![h] = Append(v[h], e)])
  BY <1>2, <1>4, <1>7, Zenon DEF AddedTail
<1> QED
  BY <1>8, <1>9

\* list_replace of an entry.
LEMMA EntryReplaced ==
    ASSUME NEW l, NEW r, NEW v, Fits(l, r, v), NEW old \in Entries \cap r,
           NEW new \in Entries \ {old}, new \notin r \/ l.next[new] = new
    PROVE  Fits(Replaced(l, old, new), (r \cup {new}) \ {old}, Subst(v, old, new))
<1> DEFINE m == Replaced(l, old, new)
           q == (r \cup {new}) \ {old}
<1>0. /\ l \in Links /\ r \subseteq Cells /\ old \in Cells /\ new \in Cells
      /\ v \in [Lists -> Seq(Entries \cup {Null})]
  BY DEF Fits, Cells
<1>1. \A g \in Lists \cap r : ~Contains(v[g], new)
  BY LooseEntry
<1>2. CASE Edge(l, old, old) /\ \A g \in Lists \cap r : ~Contains(v[g], old)
  <2> DEFINE k == [next |-> l.next, prev |-> [l.prev EXCEPT ![old] = new]]
  <2>1. /\ k \in Links
        /\ \A c \in Cells \ {old} : k.next[c] = l.next[c] /\ k.prev[c] = l.prev[c]
    BY <1>0 DEF Links
  <2>2. r \ {old} \in SUBSET Cells /\ (r \ {old}) \ {old} = r \ {old}
    BY <1>0
  <2>3. /\ m.next = [l.next EXCEPT ![new] = new]
        /\ m.prev = [l.prev EXCEPT ![old] = new, ![new] = new]
    <3>1. /\ m.next = [l.next EXCEPT ![new] = old, ![new] = new]
          /\ m.prev = [l.prev EXCEPT ![old] = new, ![new] = new]
      BY <1>2 DEF Replaced, Edge
    <3>2. [l.next EXCEPT ![new] = old, ![new] = new] = [l.next EXCEPT ![new] = new]
      BY <1>0 DEF Links
    <3> QED
      BY <3>1, <3>2
  <2>4. m \in Links
    BY <1>0, <1>2 DEF Replaced, Edge, Links
  <2>5. /\ \A c \in Cells \ {new} : m.next[c] = k.next[c] /\ m.prev[c] = k.prev[c]
        /\ Edge(m, new, new)
    BY <1>0, <2>3 DEF Links, Edge
  <2> HIDE DEF k, m
  <2>6. Fits(k, r \ {old}, v)
    BY <1>2, <2>1, <2>2, EntryAlone
  <2>7. q \in SUBSET Cells /\ q \ {new} = (r \ {old}) \ {new}
    BY <1>0
  <2>8. \A g \in Lists \cap (r \ {old}) : ~Contains(v[g], new)
    BY <1>1
  <2> HIDE DEF q
  <2>9. Fits(m, q, v)
    BY <2>4, <2>5, <2>6, <2>7, <2>8, EntryAlone
  <2>10. Subst(v, old, new) = v
    BY <1>2, WithoutNone
  <2> QED
    BY <2>9, <2>10 DEF m, q
<1>3. CASE \E h \in Lists \cap r : \E i \in 1..Len(v[h]) : v[h][i] = old
  <2>1. PICK h \in Lists \cap r : \E i \in 1..Len(v[h]) : v[h][i] = old
    BY <1>3
  <2>2. Contains(v[h], old)
    BY <2>1 DEF Contains
  <2>3. PICK a, b : Splits(v, h, old, a, b)
    BY <2>2, Around
  <2>4. /\ a \in Seq(Entries) /\ b \in Seq(Entries) /\ v[h] = a \o (<<old>> \o b)
        /\ Subst(v, old, new) = Put(v, h, a \o (<<new>> \o b))
    BY <2>3 DEF Splits
  <2> DEFINE p == Final(h, a)
             n == First(b, h)
             k == Bridge(l, old)
             u == Put(v, h, a \o b)
  <2>5. l.prev[old] = p /\ l.next[old] = n /\ Fits(k, r \ {old}, u)
    BY <2>4, Bridged DEF Put
  <2>6. /\ n # old /\ p \in Cells /\ n \in Cells
    <3>1. n = h \/ Contains(b, n)
      BY <2>4, Place
    <3>2. p = h \/ Contains(a, p)
      BY <2>4, Place
    <3>3. ~Contains(a \o b, old)
      <4>1. Inj(v[h])
        BY ListsInj
      <4>2. Inj(a \o (<<old>> \o b))
        BY <2>4, <4>1
      <4> QED
        BY <2>4, <4>2, InjAround
    <3>4. \A x : Contains(a, x) \/ Contains(b, x) => Contains(a \o b, x) /\ x \in Entries
      <4>1. \A x : Contains(a, x) \/ Contains(b, x) => Contains(a \o b, x)
        BY <2>4, ContainsConcat
      <4>2. \A x : Contains(a, x) \/ Contains(b, x) => x \in Entries
        BY <2>4 DEF Contains
      <4> QED
        BY <4>1, <4>2
    <3> HIDE DEF p, n
    <3>5. h \in Cells /\ h # old
      BY CellsAssumption DEF Cells
    <3>6. Entries \subseteq Cells
      BY DEF Cells
    <3> QED
      BY <3>1, <3>2, <3>3, <3>4, <3>5, <3>6
  <2>7. m = LinkBetween(k, new, p, n)
    <3> HIDE DEF p, n
    <3>1. m = [next |-> [l.next EXCEPT ![new] = n, ![p] = new],
               prev |-> [l.prev EXCEPT ![n] = new, ![new] = p]]
      BY <2>5, <2>6 DEF Replaced
    <3>2. k = [next |-> [l.next EXCEPT ![p] = n], prev |-> [l.prev EXCEPT ![n] = p]]
      BY <2>5 DEF Bridge
    <3>3. [l.next EXCEPT ![new] = n, ![p] = new]
          = [[l.next EXCEPT ![p] = n] EXCEPT ![new] = n, ![p] = new]
      BY <1>0, <2>6 DEF Links
    <3>4. [l.prev EXCEPT ![n] = new, ![new] = p]
          = [[l.prev EXCEPT ![n] = p] EXCEPT ![n] = new, ![new] = p]
      BY <1>0, <2>6 DEF Links
    <3>5. /\ k.next = [l.next EXCEPT ![p] = n]
          /\ k.prev = [l.prev EXCEPT ![n] = p]
      BY <3>2
    <3> HIDE DEF k, m
    <3> QED
      BY <3>1, <3>3, <3>4, <3>5, Zenon DEF LinkBetween
  <2>8. u[h] = a \o b /\ (\A g \in Lists \ {h} : u[g] = v[g])
        /\ [u EXCEPT ![h] = a \o (<<new>> \o b)] = Put(v, h, a \o (<<new>> \o b))
    BY <1>0 DEF Put
  <2>9. \A g \in Lists \cap (r \ {old}) : ~Contains(u[g], new)
    <3> SUFFICES ASSUME NEW g \in Lists \cap (r \ {old}), Contains(u[g], new) PROVE FALSE
      OBVIOUS
    <3> HIDE DEF u
    <3>1. CASE g = h
      <4>1. Contains(a \o b, new)
        BY <2>8, <3>1, Zenon
      <4>2. Contains(a \o (<<old>> \o b), new)
        BY <2>4, <4>1, ContainsConcat, ContainsAround
      <4>3. Contains(v[h], new)
        BY <2>4, <4>2, Zenon
      <4> QED
        BY <1>1, <4>3
    <3>2. CASE g # h
      BY <1>1, <2>8, <3>2
    <3> QED
      BY <3>1, <3>2
  <2> HIDE DEF k, u, m
  <2>10. h \in Lists \cap (r \ {old})
    BY CellsAssumption
  <2>11. Fits(LinkBetween(k, new, p, n), (r \ {old}) \cup {new},
              [u EXCEPT ![h] = a \o (<<new>> \o b)])
    BY <2>4, <2>5, <2>8, <2>9, <2>10, Inserted
  <2>12. (r \ {old}) \cup {new} = q
    OBVIOUS
  <2> HIDE DEF p, n, q
  <2>13. Fits(m, q, Subst(v, old, new))
    BY <2>4, <2>7, <2>8, <2>11, <2>12, Zenon
  <2> QED
    BY <2>13 DEF m, q
<1> QED
  BY <1>2, <1>3, WhereEntryIs

\* list_rotate_left of a list with entries.
LEMMA ListRotated ==
    ASSUME NEW l, NEW r, NEW v, Fits(l, r, v), NEW h \in Lists \cap r, v[h] # <<>>
    PROVE  LET first == l.next[h]
           IN  Fits(AddedTail(Bridge(l, first), first, h), r,
                    [v EXCEPT ![h] = Append(Tail(v[h]), Head(v[h]))])
<1> DEFINE s == v[h]
           e == Head(s)
           t == Tail(s)
           k == Bridge(l, e)
           u == Put(v, h, t)
<1>1. s \in Seq(Entries) /\ s # <<>> /\ Path(l, h, s, h) /\ e \in Entries \cap r /\ e \in Cells
  <2>1. s \in Seq(Entries \cap r) /\ Path(l, h, s, h)
    BY ListFacts
  <2>2. s \in Seq(Entries) /\ e \in Entries \cap r
    BY <2>1
  <2> QED
    BY <2>1, <2>2 DEF Cells
<1>2. t \in Seq(Entries) /\ e = s[1]
  BY <1>1
<1>3. l.next[h] = e
  BY <1>1, <1>2, PathEnds DEF Edge, First
<1>4. s = <<>> \o (<<e>> \o t) /\ t = <<>> \o t
  <2>0. Len(s) \in Nat /\ Len(s) # 0
    BY <1>1, EmptySeq
  <2>1. SubSeq(s, 1, Len(s)) = <<s[1]>> \o SubSeq(s, 1 + 1, Len(s))
    <3>1. 1 \in 1..Len(s) /\ Len(s) \in 1..Len(s)
      BY <2>0
    <3> QED
      BY <1>1, <3>1, SubSeqRecursiveFirst
  <2>2. SubSeq(s, 1, Len(s)) = s
    BY <1>1, SubSeqFull
  <2>3. Tail(s) = SubSeq(s, 2, Len(s)) /\ 1 + 1 = 2
    BY <1>1, TailIsSubSeq
  <2>4. s = <<e>> \o t
    BY <1>2, <2>1, <2>2, <2>3, Zenon
  <2>5. <<e>> \o t \in Seq(Entries)
    BY <1>1, <1>2
  <2>6. <<>> \o (<<e>> \o t) = <<e>> \o t /\ <<>> \o t = t
    BY <1>2, <2>5, ConcatEmptySeq
  <2> QED
    BY <2>4, <2>6, Zenon
<1> HIDE DEF e, t
<1>5. Fits(k, r \ {e}, u)
  <2>0. <<>> \in Seq(Entries)
    BY EmptySeq
  <2>1. Fits(Bridge(l, e), r \ {e}, [v EXCEPT ![h] = <<>> \o t])
    BY <1>1, <1>2, <1>4, <2>0, Bridged
  <2> QED
    BY <1>4, <2>1, Zenon DEF Put
<1>6. Fits(AddedTail(k, e, h), (r \ {e}) \cup {e}, [u EXCEPT ![h] = Append(@, e)])
  <2>1. h \in Lists \cap (r \ {e}) /\ e \notin r \ {e}
    BY <1>1, CellsAssumption
  <2> HIDE DEF k, u
  <2> QED
    BY <1>1, <1>5, <2>1, EntryAdded
<1>7. (r \ {e}) \cup {e} = r
  BY <1>1
<1>8. [u EXCEPT ![h] = Append(@, e)] = [v EXCEPT ![h] = Append(t, e)]
  <2>1. v \in [Lists -> Seq(Entries \cup {Null})]
    BY DEF Fits
  <2>2. u[h] = t /\ [u EXCEPT ![h] = Append(t, e)] = Put(v, h, Append(t, e))
    BY <2>1 DEF Put
  <2> HIDE DEF u
  <2> QED
    BY <2>2, Zenon DEF Put
<1>9. Fits(AddedTail(k, e, h), r, [v EXCEPT ![h] = Append(t, e)])
  BY <1>6, <1>7, <1>8, Zenon
<1> QED
  BY <1>3, <1>9, Zenon DEF e, t

\* __list_cut_position up to the i-th entry.
LEMMA ListCut ==
    ASSUME NEW l, NEW r, NEW v, Fits(l, r, v), NEW h \in Lists \cap r, NEW g \in Lists \ {h},
           g \notin r \/ v[g] = <<>>, NEW i \in 1..Len(v[h])
    PROVE  Fits(Cut(l, g, h, v[h][i]), r \cup {g},
                [v EXCEPT ![g] = SubSeq(v[h], 1, i), ![h] = SubSeq(v[h], i + 1, Len(v[h]))])
<1> DEFINE s == v[h]
           a == SubSeq(s, 1, i)
           b == SubSeq(s, i + 1, Len(s))
<1>1. s \in Seq(Entries)
  <2>1. s \in Seq(Entries \cap r)
    BY ListFacts
  <2> QED
    BY <2>1
<1>2. Len(s) \in Nat /\ \A j \in 1..Len(s) : s[j] \in Entries
  BY <1>1
<1>3. /\ a \in Seq(Entries) /\ Len(a) = IF 1 <= i THEN i - 1 + 1 ELSE 0
      /\ \A j \in 1..i - 1 + 1 : a[j] = s[1 + j - 1]
  <2>1. \A j \in 1..i : s[j] \in Entries
    BY <1>2
  <2>2. 1 \in Int /\ i \in Int
    OBVIOUS
  <2> QED
    BY <2>1, <2>2, SubSeqProperties
<1>4. Len(a) = i /\ a[i] = s[i] /\ a # <<>>
  <2>1. Len(a) = i /\ i \in 1..i - 1 + 1 /\ 1 + i - 1 = i /\ i # 0
    BY <1>3
  <2> QED
    BY <1>3, <2>1, EmptySeq
<1>5. b \in Seq(Entries)
  <2>1. \A j \in i + 1..Len(s) : s[j] \in Entries
    BY <1>2
  <2>2. i + 1 \in Int /\ Len(s) \in Int
    BY <1>2
  <2> QED
    BY <2>1, <2>2, SubSeqProperties
<1>6. a \o b = s
  <2>1. 1 \in 1..Len(s) + 1 /\ i \in 1 - 1..Len(s) /\ Len(s) \in i..Len(s)
    BY <1>2
  <2>2. a \o b = SubSeq(s, 1, Len(s))
    BY <1>1, <2>1, ConcatAdjacentSubSeq
  <2> QED
    BY <1>1, <2>2, SubSeqFull
<1>7. Final(h, a) = s[i]
  BY <1>4 DEF Final
<1> HIDE DEF a, b
<1>8. Fits(Cut(l, g, h, Final(h, a)), r \cup {g}, [v EXCEPT ![g] = a, ![h] = b])
  BY <1>3, <1>4, <1>5, <1>6, CutAt
<1> QED
  BY <1>7, <1>8 DEF a, b

\* list_splice and list_splice_tail of a list with entries.
LEMMA ListSpliced ==
    ASSUME NEW l, NEW r, NEW v, Fits(l, r, v),
           NEW h \in Lists \cap r, NEW g \in (Lists \cap r) \ {h}, v[g] # <<>>
    PROVE  /\ Fits(Joined(l, g, h, l.next[h]), r \ {g},
                   [v EXCEPT ![h] = v[g] \o v[h], ![g] = <<Null>>])
           /\ Fits(Joined(l, g, l.prev[h], h), r \ {g},
                   [v EXCEPT ![h] = v[h] \o v[g], ![g] = <<Null>>])
<1>1. /\ v[h] \in Seq(Entries) /\ v[g] \in Seq(Entries)
      /\ l.next[h] = First(v[h], h) /\ l.prev[h] = Final(h, v[h])
  <2>1. v[h] \in Seq(Entries \cap r) /\ Path(l, h, v[h], h) /\ v[g] \in Seq(Entries \cap r)
    BY ListFacts
  <2>2. v[h] \in Seq(Entries) /\ v[g] \in Seq(Entries)
    BY <2>1
  <2> QED
    BY <2>1, <2>2, PathEnds DEF Edge
<1>2. <<>> \in Seq(Entries) /\ v[g] \o v[h] \in Seq(Entries)
  BY <1>1
<1>3. /\ v[h] = <<>> \o v[h] /\ v[h] = v[h] \o <<>> /\ v[g] \o <<>> = v[g]
      /\ <<>> \o (v[g] \o v[h]) = v[g] \o v[h]
  BY <1>1, <1>2, ConcatEmptySeq
<1>4. Final(h, <<>>) = h /\ First(<<>>, h) = h
  BY DEF Final, First
<1>5. Fits(Joined(l, g, Final(h, <<>>), First(v[h], h)), r \ {g},
           [v EXCEPT ![h] = <<>> \o (v[g] \o v[h]), ![g] = <<Null>>])
  BY <1>1, <1>2, <1>3, JoinedAt
<1>6. Fits(Joined(l, g, Final(h, v[h]), First(<<>>, h)), r \ {g},
           [v EXCEPT ![h] = v[h] \o (v[g] \o <<>>), ![g] = <<Null>>])
  BY <1>1, <1>2, <1>3, JoinedAt
<1>7. Fits(Joined(l, g, h, l.next[h]), r \ {g}, [v EXCEPT ![h] = v[g] \o v[h], ![g] = <<Null>>])
  BY <1>1, <1>3, <1>4, <1>5, Zenon
<1>8. Fits(Joined(l, g, l.prev[h], h), r \ {g}, [v EXCEPT ![h] = v[h] \o v[g], ![g] = <<Null>>])
  BY <1>1, <1>3, <1>4, <1>6, Zenon
<1> QED
  BY <1>7, <1>8

\* What a caller of list_cut_position knows: the entry is on the list.
LEMMA UpToPlace ==
    ASSUME NEW l, NEW r, NEW v, Fits(l, r, v), NEW h \in Lists \cap r, NEW e,
           NEW part, part \subseteq Entries, UpTo(l, h, e, part)
    PROVE  \E i \in 1..Len(v[h]) : v[h][i] = e
<1> DEFINE s == v[h]
<1> SUFFICES ASSUME \A i \in 1..Len(s) : s[i] # e PROVE FALSE
  OBVIOUS
<1>1. s \in Seq(Entries \cap r) /\ Path(l, h, s, h) /\ h \notin Entries
  BY ListFacts
<1> HIDE DEF s
<1>2. Len(s) \in Nat /\ (s = <<>> <=> Len(s) = 0)
  BY <1>1, EmptySeq
<1>3. l.next[h] \in part /\ \A c \in part \ {e} : l.next[c] \in part
  BY DEF UpTo, Follows
<1>4. l.next[h] = First(s, h)
  BY <1>1, PathEnds DEF Edge
<1>5. s # <<>> /\ s[1] \in part
  BY <1>1, <1>3, <1>4 DEF First
<1>6. \A i \in 1..Len(s) : l.next[s[i]] = IF i = Len(s) THEN h ELSE s[i + 1]
  <2> SUFFICES ASSUME NEW i \in 1..Len(s)
               PROVE  l.next[s[i]] = IF i = Len(s) THEN h ELSE s[i + 1]
    OBVIOUS
  <2>1. Edge(l, At(h, s, h, i), At(h, s, h, i + 1))
    <3>1. i \in 0..Len(s)
      BY <1>2
    <3> QED
      BY <1>1, <3>1 DEF Path
  <2>2. At(h, s, h, i) = s[i] /\ At(h, s, h, i + 1) = IF i = Len(s) THEN h ELSE s[i + 1]
    BY <1>2 DEF At
  <2> QED
    BY <2>1, <2>2 DEF Edge
<1> DEFINE N == {n \in Nat : n + 1 <= Len(s) => s[n + 1] \in part}
<1>7. 0 \in N
  BY <1>5
<1>8. ASSUME NEW n \in Nat, n \in N PROVE n + 1 \in N
  <2> SUFFICES ASSUME (n + 1) + 1 <= Len(s) PROVE s[(n + 1) + 1] \in part
    OBVIOUS
  <2>1. n + 1 \in 1..Len(s) /\ n + 1 # Len(s) /\ n + 1 <= Len(s)
    BY <1>2
  <2>2. s[n + 1] \in part \ {e}
    BY <1>8, <2>1
  <2> QED
    BY <1>3, <1>6, <2>1, <2>2
<1>9. Nat \subseteq N
  <2> HIDE DEF N
  <2> QED
    BY <1>7, <1>8, Induction
<1>10. s[Len(s)] \in part /\ Len(s) \in 1..Len(s)
  <2>1. Len(s) - 1 \in Nat /\ (Len(s) - 1) + 1 = Len(s)
    BY <1>2, <1>5
  <2> QED
    BY <1>2, <1>9, <2>1
<1>11. s[Len(s)] \in part \ {e}
  BY <1>10
<1>12. l.next[s[Len(s)]] = h
  BY <1>6, <1>10
<1> QED
  BY <1>1, <1>3, <1>11, <1>12

-----------------------------------------------------------------------------
(* The actions on the lists as sequences.                                  *)

\* At first all heads are in use, and all lists are empty.
LEMMA InitFits == Init => Fits(links, ring, [h \in Lists |-> <<>>])
<1> SUFFICES ASSUME Init PROVE Fits(links, ring, [h \in Lists |-> <<>>])
  OBVIOUS
<1>1. links \in Links /\ ring \in SUBSET Cells
  BY DEF Init, Links, Cells
<1>2. [h \in Lists |-> <<>>] \in [Lists -> Seq(Entries \cup {Null})]
  BY EmptySeq
<1>3. ASSUME NEW h \in Lists
      PROVE  <<>> \in Seq(Entries \cap ring) /\ Path(links, h, <<>>, h)
  <2>1. Edge(links, h, h)
    BY DEF Init, Edge, Cells
  <2>2. Len(<<>>) = 0 /\ \A i \in 0..Len(<<>>) : At(h, <<>>, h, i) = h /\ At(h, <<>>, h, i + 1) = h
    <3>1. Len(<<>>) = 0
      BY EmptySeq
    <3> QED
      BY <3>1 DEF At
  <2> HIDE DEF Edge
  <2> QED
    BY <2>1, <2>2 DEF Path
<1>4. ring = Lists /\ Entries \cap ring = {}
  BY CellsAssumption DEF Init
<1> QED
  BY <1>1, <1>2, <1>3, <1>4 DEF Fits

\* list_del.
LEMMA DelFits ==
    ASSUME NEW v, Fits(links, ring, v), NEW e \in Entries, ListDel(e)
    PROVE  Fits(links', ring', Without(v, e))
<1> DEFINE b == Bridge(links, e)
           m == Deleted(links, e)
<1>1. e \in Entries \cap ring /\ links' = m /\ ring' = ring \ {e}
  BY DEF ListDel, MayTake, InUse
<1>2. Fits(b, ring \ {e}, Without(v, e))
  BY <1>1, EntryTaken
<1>3. b \in Links /\ e \in Cells /\ ring \ {e} \in SUBSET Cells
  BY <1>2 DEF Fits, Cells
<1>4. /\ m.next = [b.next EXCEPT ![e] = Null] /\ m.prev = [b.prev EXCEPT ![e] = Null]
      /\ m = [next |-> [b.next EXCEPT ![e] = Null], prev |-> [b.prev EXCEPT ![e] = Null]]
  BY DEF Deleted
<1> HIDE DEF m, b
<1>5. m \in Links /\ \A c \in Cells \ {e} : m.next[c] = b.next[c] /\ m.prev[c] = b.prev[c]
  BY <1>3, <1>4 DEF Links
<1>6. \A g \in Lists \cap (ring \ {e}) : ~Contains(Without(v, e)[g], e)
  BY <1>2, LooseEntry
<1>7. (ring \ {e}) \ {e} = (ring \ {e}) \ {e} /\ e \notin ring \ {e}
  OBVIOUS
<1>8. Fits(m, ring \ {e}, Without(v, e))
  BY <1>2, <1>3, <1>5, <1>6, <1>7, EntryAlone
<1> QED
  BY <1>1, <1>8

\* list_del_init.
LEMMA DelInitFits ==
    ASSUME NEW v, Fits(links, ring, v), NEW e \in Entries, ListDelInit(e)
    PROVE  Fits(links', ring', Without(v, e))
<1>1. e \in Entries \cap ring /\ links' = InitHead(Bridge(links, e), e) /\ ring' = ring
  BY DEF ListDelInit, MayTake, InUse
<1>2. Fits(Bridge(links, e), ring \ {e}, Without(v, e))
  BY <1>1, EntryTaken
<1>3. \A g \in Lists \cap (ring \ {e}) : ~Contains(Without(v, e)[g], e)
  BY <1>2, LooseEntry
<1>4. Fits(InitHead(Bridge(links, e), e), (ring \ {e}) \cup {e}, Without(v, e))
  BY <1>2, <1>3, EntryInitialised
<1>5. (ring \ {e}) \cup {e} = ring
  BY <1>1
<1> QED
  BY <1>1, <1>4, <1>5, Zenon

\* list_move and list_move_tail.
LEMMA MoveFits ==
    ASSUME NEW v, Fits(links, ring, v), NEW e \in Entries, NEW h \in Lists
    PROVE  /\ ListMove(e, h) => Fits(links', ring', [Without(v, e) EXCEPT ![h] = <<e>> \o @])
           /\ ListMoveTail(e, h) => Fits(links', ring', [Without(v, e) EXCEPT ![h] = Append(@, e)])
<1> SUFFICES ASSUME ListMove(e, h) \/ ListMoveTail(e, h)
             PROVE  /\ ListMove(e, h) => Fits(links', ring', [Without(v, e) EXCEPT ![h] = <<e>> \o @])
                    /\ ListMoveTail(e, h) => Fits(links', ring', [Without(v, e) EXCEPT ![h] = Append(@, e)])
  OBVIOUS
<1> DEFINE b == Bridge(links, e)
           u == Without(v, e)
<1>1. e \in Entries \cap ring /\ h \in Lists \cap (ring \ {e}) /\ ring' = ring /\ (ring \ {e}) \cup {e} = ring
  BY CellsAssumption DEF ListMove, ListMoveTail, MayTake, InUse, Used
<1>2. Fits(b, ring \ {e}, u)
  BY <1>1, EntryTaken
<1> HIDE DEF b, u
<1>3. /\ Fits(Added(b, e, h), (ring \ {e}) \cup {e}, [u EXCEPT ![h] = <<e>> \o @])
      /\ Fits(AddedTail(b, e, h), (ring \ {e}) \cup {e}, [u EXCEPT ![h] = Append(@, e)])
  <2>1. e \notin ring \ {e}
    OBVIOUS
  <2> QED
    BY <1>1, <1>2, <2>1, EntryAdded
<1>4. /\ ListMove(e, h) => links' = Added(b, e, h)
      /\ ListMoveTail(e, h) => links' = AddedTail(b, e, h)
  BY DEF ListMove, ListMoveTail, b
<1>5. /\ Fits(Added(b, e, h), ring', [u EXCEPT ![h] = <<e>> \o @])
      /\ Fits(AddedTail(b, e, h), ring', [u EXCEPT ![h] = Append(@, e)])
  BY <1>1, <1>3, Zenon
<1>6. ASSUME ListMove(e, h) PROVE Fits(links', ring', [u EXCEPT ![h] = <<e>> \o @])
  BY <1>4, <1>5, <1>6, Zenon
<1>7. ASSUME ListMoveTail(e, h) PROVE Fits(links', ring', [u EXCEPT ![h] = Append(@, e)])
  BY <1>4, <1>5, <1>7, Zenon
<1> QED
  BY <1>6, <1>7 DEF u

\* list_add and list_add_tail.
LEMMA AddFits ==
    ASSUME NEW v, Fits(links, ring, v), NEW e \in Entries, NEW h \in Lists
    PROVE  /\ ListAdd(e, h) => Fits(links', ring', [v EXCEPT ![h] = <<e>> \o @])
           /\ ListAddTail(e, h) => Fits(links', ring', [v EXCEPT ![h] = Append(@, e)])
<1>1. ASSUME ListAdd(e, h) PROVE Fits(links', ring', [v EXCEPT ![h] = <<e>> \o @])
  <2>1. /\ h \in Lists \cap ring /\ (e \notin ring \/ links.next[e] = e)
        /\ links' = Added(links, e, h) /\ ring' = ring \cup {e}
    BY <1>1 DEF ListAdd, Used, Loose
  <2>2. Fits(Added(links, e, h), ring \cup {e}, [v EXCEPT ![h] = <<e>> \o @])
    BY <2>1, EntryAdded
  <2> QED
    BY <2>1, <2>2
<1>2. ASSUME ListAddTail(e, h) PROVE Fits(links', ring', [v EXCEPT ![h] = Append(@, e)])
  <2>1. /\ h \in Lists \cap ring /\ (e \notin ring \/ links.next[e] = e)
        /\ links' = AddedTail(links, e, h) /\ ring' = ring \cup {e}
    BY <1>2 DEF ListAddTail, Used, Loose
  <2>2. Fits(AddedTail(links, e, h), ring \cup {e}, [v EXCEPT ![h] = Append(@, e)])
    BY <2>1, EntryAdded
  <2> QED
    BY <2>1, <2>2
<1> QED
  BY <1>1, <1>2

\* list_replace and list_replace_init of an entry.
LEMMA ReplaceEntryFits ==
    ASSUME NEW v, Fits(links, ring, v), NEW old \in Entries, NEW new \in Entries,
           NEW init \in BOOLEAN, ListReplace(old, new, init)
    PROVE  Fits(links', ring', Subst(v, old, new))
<1> DEFINE m == Replaced(links, old, new)
           q == (ring \cup {new}) \ {old}
<1>1. /\ old \in Entries \cap ring /\ new \in Entries \ {old}
      /\ new \notin ring \/ links.next[new] = new
      /\ links' = IF init THEN InitHead(m, old) ELSE m
      /\ ring' = IF init THEN ring \cup {new} ELSE q
  BY CellsAssumption DEF ListReplace, Loose
<1>2. Fits(m, q, Subst(v, old, new))
  BY <1>1, EntryReplaced
<1> HIDE DEF m
<1>3. CASE init
  <2>1. \A g \in Lists \cap q : ~Contains(Subst(v, old, new)[g], old)
    <3>1. old \notin q
      OBVIOUS
    <3> HIDE DEF q
    <3> QED
      BY <1>2, <3>1, LooseEntry
  <2>2. Fits(InitHead(m, old), q \cup {old}, Subst(v, old, new))
    BY <1>2, <2>1, EntryInitialised
  <2>3. q \cup {old} = ring \cup {new}
    BY <1>1
  <2> QED
    BY <1>1, <1>3, <2>2, <2>3
<1>4. CASE ~init
  BY <1>1, <1>2, <1>4
<1> QED
  BY <1>3, <1>4

\* list_replace and list_replace_init of a head.
LEMMA ReplaceHeadFits ==
    ASSUME NEW v, Fits(links, ring, v), NEW old \in Lists, NEW new \in Lists,
           NEW init \in BOOLEAN, ListReplace(old, new, init)
    PROVE  Fits(links', ring', [v EXCEPT ![new] = v[old],
                                         ![old] = IF init THEN <<>> ELSE <<Null>>])
<1> DEFINE m == Replaced(links, old, new)
           q == (ring \cup {new}) \ {old}
           u == [v EXCEPT ![new] = v[old], ![old] = <<Null>>]
<1>1. /\ old \in Lists \cap ring /\ new \in Lists \ {old}
      /\ new \notin ring \/ links.next[new] = new
      /\ links' = IF init THEN InitHead(m, old) ELSE m
      /\ ring' = IF init THEN ring \cup {new} ELSE q
  BY CellsAssumption DEF ListReplace, Loose
<1>2. new \notin ring \/ v[new] = <<>>
  BY <1>1, LooseHead
<1>3. Fits(m, q, u)
  BY <1>1, <1>2, HeadReplaced
<1>4. v \in [Lists -> Seq(Entries \cup {Null})]
  BY DEF Fits
<1> HIDE DEF m, u
<1>5. CASE init
  <2>1. Fits(InitHead(m, old), q \cup {old}, [u EXCEPT ![old] = <<>>])
    BY <1>1, <1>3, HeadInitialised
  <2>2. q \cup {old} = ring \cup {new}
    BY <1>1
  <2>3. [u EXCEPT ![old] = <<>>] = [v EXCEPT ![new] = v[old], ![old] = <<>>]
    BY <1>4 DEF u
  <2>4. (IF init THEN <<>> ELSE <<Null>>) = <<>>
    BY <1>5
  <2>5. links' = InitHead(m, old) /\ ring' = ring \cup {new}
    BY <1>1, <1>5
  <2> HIDE DEF q
  <2> QED
    BY <2>1, <2>2, <2>3, <2>4, <2>5, Zenon
<1>6. CASE ~init
  <2>1. (IF init THEN <<>> ELSE <<Null>>) = <<Null>>
    BY <1>6
  <2>2. links' = m /\ ring' = q
    BY <1>1, <1>6
  <2> HIDE DEF q
  <2> QED
    BY <1>3, <2>1, <2>2, Zenon DEF u
<1> QED
  BY <1>5, <1>6

\* list_empty looks at one pointer.
LEMMA EmptyIs ==
    ASSUME NEW v, Fits(links, ring, v), NEW h \in Lists \cap ring
    PROVE  ListEmpty(links, h) <=> v[h] = <<>>
<1>1. On(h) = v[h]
  BY ListIs DEF On
<1> QED
  BY <1>1, FitsTests DEF TestsTellTheList

\* list_rotate_left.
LEMMA RotateFits ==
    ASSUME NEW v, Fits(links, ring, v), NEW h \in Lists, ListRotateLeft(h)
    PROVE  Fits(links', ring', [v EXCEPT ![h] = IF @ = <<>> THEN @ ELSE Append(Tail(@), Head(@))])
<1> DEFINE first == links.next[h]
           k == AddedTail(Bridge(links, first), first, h)
<1>1. /\ h \in Lists \cap ring /\ ring' = ring
      /\ links' = IF ListEmpty(links, h) THEN links ELSE k
  BY DEF ListRotateLeft, Used
<1>2. v \in [Lists -> Seq(Entries \cup {Null})]
  BY DEF Fits
<1>3. CASE v[h] = <<>>
  <2>1. links' = links
    BY <1>1, <1>3, EmptyIs
  <2>2. [v EXCEPT ![h] = IF @ = <<>> THEN @ ELSE Append(Tail(@), Head(@))] = [v EXCEPT ![h] = v[h]]
    BY <1>3
  <2>3. [v EXCEPT ![h] = v[h]] = v
    BY <1>2
  <2> QED
    BY <1>1, <2>1, <2>2, <2>3, Zenon
<1>4. CASE v[h] # <<>>
  <2>1. links' = k
    BY <1>1, <1>4, EmptyIs
  <2>2. Fits(k, ring, [v EXCEPT ![h] = Append(Tail(v[h]), Head(v[h]))])
    BY <1>1, <1>4, ListRotated
  <2>3. [v EXCEPT ![h] = IF @ = <<>> THEN @ ELSE Append(Tail(@), Head(@))]
        = [v EXCEPT ![h] = Append(Tail(v[h]), Head(v[h]))]
    BY <1>4
  <2> HIDE DEF k
  <2> QED
    BY <1>1, <2>1, <2>2, <2>3, Zenon
<1> QED
  BY <1>3, <1>4

\* How a list is cut at i.
CutView(v, g, h, i) ==
    IF v[h] = <<>> THEN v
    ELSE [v EXCEPT ![g] = SubSeq(v[h], 1, i), ![h] = SubSeq(@, i + 1, Len(@))]

\* list_cut_position.
LEMMA CutFits ==
    ASSUME NEW v, Fits(links, ring, v), NEW g \in Lists, NEW h \in Lists, NEW e \in Cells,
           ListCutPosition(g, h, e)
    PROVE  \E i \in 0..Len(v[h]) :
                /\ (i = 0 /\ e = h) \/ (i > 0 /\ v[h][i] = e)
                /\ Fits(links', ring', CutView(v, g, h, i))
<1> DEFINE s == v[h]
<1>1. /\ h \in Lists \cap ring /\ g \in Lists \ {h} /\ h \notin Entries
      /\ g \notin ring \/ links.next[g] = g
      /\ e = h \/ \E part \in SUBSET (Entries \cap ring) : UpTo(links, h, e, part)
  BY CellsAssumption DEF ListCutPosition, Used, Loose
<1>2. g \notin ring \/ v[g] = <<>>
  BY <1>1, LooseHead
<1>3. s \in Seq(Entries) /\ Len(s) \in Nat /\ (s = <<>> <=> Len(s) = 0)
  <2>1. s \in Seq(Entries \cap ring)
    BY <1>1, ListFacts
  <2>2. s \in Seq(Entries)
    BY <2>1
  <2> QED
    BY <2>2, EmptySeq
<1>4. v \in [Lists -> Seq(Entries \cup {Null})]
  BY DEF Fits
<1>5. /\ ListEmpty(links, h) <=> s = <<>>
      /\ ListIsSingular(links, h) <=> Len(s) = 1
      /\ s # <<>> => links.next[h] = s[1]
  <2>1. On(h) = s
    BY <1>1, ListIs DEF On
  <2>2. TestsTellTheList
    BY FitsTests
  <2>3. /\ ListEmpty(links, h) <=> On(h) = <<>>
        /\ ListIsSingular(links, h) <=> Len(On(h)) = 1
    BY <1>1, <2>2 DEF TestsTellTheList
  <2>4. links.next[h] = First(s, h)
    <3>1. s \in Seq(Entries \cap ring) /\ Path(links, h, s, h)
      BY <1>1, ListFacts
    <3> QED
      BY <3>1, PathEnds DEF Edge
  <2> QED
    BY <2>1, <2>3, <2>4, Zenon DEF First
<1>6. \/ /\ s = <<>> \/ (Len(s) = 1 /\ e \notin {h, links.next[h]})
         /\ links' = links /\ ring' = ring
      \/ /\ s # <<>>
         /\ links' = IF e = h THEN InitHead(links, g) ELSE Cut(links, g, h, e)
         /\ ring' = ring \cup {g}
  BY <1>5 DEF ListCutPosition
<1>7. PICK i \in 0..Len(s) : (i = 0 /\ e = h) \/ (i > 0 /\ s[i] = e)
  <2>1. CASE e = h
    BY <1>3, <2>1
  <2>2. CASE \E part \in SUBSET (Entries \cap ring) : UpTo(links, h, e, part)
    <3>1. PICK part \in SUBSET (Entries \cap ring) : UpTo(links, h, e, part)
      BY <2>2
    <3>2. part \subseteq Entries
      OBVIOUS
    <3>3. \E i \in 1..Len(s) : s[i] = e
      BY <1>1, <3>1, <3>2, UpToPlace
    <3>4. PICK i \in 1..Len(s) : s[i] = e
      BY <3>3
    <3>5. i \in 0..Len(s) /\ i > 0
      BY <1>3
    <3> QED
      BY <3>4, <3>5
  <2> QED
    BY <1>1, <2>1, <2>2
<1> SUFFICES Fits(links', ring', CutView(v, g, h, i))
  BY <1>7
<1>8. CASE s = <<>>
  BY <1>6, <1>8 DEF CutView
<1>9. CASE s # <<>>
  <2>1. /\ links' = IF e = h THEN InitHead(links, g) ELSE Cut(links, g, h, e)
        /\ ring' = ring \cup {g}
    <3> SUFFICES ASSUME Len(s) = 1, e \notin {h, links.next[h]} PROVE FALSE
      BY <1>6, <1>9
    <3>1. i = 1
      BY <1>7
    <3> QED
      BY <1>5, <1>7, <1>9, <3>1
  <2> DEFINE u == [v EXCEPT ![g] = SubSeq(v[h], 1, i), ![h] = SubSeq(v[h], i + 1, Len(v[h]))]
  <2>2. CutView(v, g, h, i) = u
    <3>1. [v EXCEPT ![g] = SubSeq(v[h], 1, i)][h] = v[h]
      BY <1>1, <1>4
    <3>2. [v EXCEPT ![g] = SubSeq(v[h], 1, i), ![h] = SubSeq(@, i + 1, Len(@))] = u
      BY <1>1, <1>4
    <3> QED
      BY <1>9, <3>2 DEF CutView
  <2>3. CASE i = 0
    <3>1. e = h
      BY <1>7, <2>3
    <3>2. Fits(InitHead(links, g), ring \cup {g}, [v EXCEPT ![g] = <<>>])
      BY <1>1, <1>2, HeadInitialised
    <3>3. SubSeq(s, 1, i) = <<>>
      BY <2>3, SubSeqEmpty
    <3>4. SubSeq(s, i + 1, Len(s)) = s
      <4>1. i + 1 = 1
        BY <2>3
      <4>2. SubSeq(s, 1, Len(s)) = s
        BY <1>3, SubSeqFull
      <4> QED
        BY <4>1, <4>2, Zenon
    <3>5. [v EXCEPT ![g] = <<>>] = [v EXCEPT ![g] = <<>>, ![h] = v[h]]
      BY <1>1, <1>4
    <3>6. u = [v EXCEPT ![g] = <<>>]
      BY <3>3, <3>4, <3>5, Zenon
    <3>7. links' = InitHead(links, g)
      BY <2>1, <3>1
    <3> HIDE DEF u
    <3> QED
      BY <2>1, <2>2, <3>2, <3>6, <3>7
  <2>4. CASE i # 0
    <3>1. i \in 1..Len(s) /\ s[i] = e /\ e \in Entries
      BY <1>3, <1>7, <2>4
    <3>2. Fits(Cut(links, g, h, s[i]), ring \cup {g}, u)
      BY <1>1, <1>2, <3>1, ListCut
    <3>3. links' = Cut(links, g, h, s[i])
      BY <1>1, <2>1, <3>1
    <3> HIDE DEF u
    <3> QED
      BY <2>1, <2>2, <3>2, <3>3
  <2> QED
    BY <2>3, <2>4
<1> QED
  BY <1>8, <1>9

\* How the list of g is joined to that of h.
SpliceView(v, g, h, atEnd, init) ==
    [v EXCEPT ![h] = IF atEnd THEN @ \o v[g] ELSE v[g] \o @,
              ![g] = IF init \/ @ = <<>> THEN <<>> ELSE <<Null>>]

\* list_splice, list_splice_tail and their _init forms.
LEMMA SpliceFits ==
    ASSUME NEW v, Fits(links, ring, v), NEW g \in Lists, NEW h \in Lists,
           NEW atEnd \in BOOLEAN, NEW init \in BOOLEAN, ListSplice(g, h, atEnd, init)
    PROVE  Fits(links', ring', SpliceView(v, g, h, atEnd, init))
<1> DEFINE w == SpliceView(v, g, h, atEnd, init)
           t == IF atEnd THEN v[h] \o v[g] ELSE v[g] \o v[h]
           k == IF atEnd THEN Joined(links, g, links.prev[h], h)
                ELSE Joined(links, g, h, links.next[h])
<1>1. /\ h \in Lists \cap ring /\ g \in (Lists \cap ring) \ {h}
      /\ \/ ListEmpty(links, g) /\ links' = links /\ ring' = ring
         \/ /\ ~ListEmpty(links, g)
            /\ links' = IF init THEN InitHead(k, g) ELSE k
            /\ ring' = IF init THEN ring ELSE ring \ {g}
  BY DEF ListSplice, Used
<1>2. v \in [Lists -> Seq(Entries \cup {Null})]
  BY DEF Fits
<1>3. ListEmpty(links, g) <=> v[g] = <<>>
  BY <1>1, EmptyIs
<1>4. w = [v EXCEPT ![h] = t, ![g] = IF init \/ v[g] = <<>> THEN <<>> ELSE <<Null>>]
  BY <1>1, <1>2 DEF SpliceView
<1> HIDE DEF w
<1>5. CASE v[g] = <<>>
  <2>1. t = v[h]
    <3>1. v[h] \in Seq(Entries \cup {Null})
      BY <1>2
    <3>2. v[h] \o <<>> = v[h] /\ <<>> \o v[h] = v[h]
      BY <3>1, ConcatEmptySeq
    <3> QED
      BY <1>5, <3>2, Zenon
  <2>2. (IF init \/ v[g] = <<>> THEN <<>> ELSE <<Null>>) = v[g]
    BY <1>5
  <2>3. [v EXCEPT ![h] = v[h], ![g] = v[g]] = v
    BY <1>2
  <2> HIDE DEF t
  <2>4. w = v
    BY <1>4, <2>1, <2>2, <2>3, Zenon
  <2> QED
    BY <1>1, <1>3, <1>5, <2>4 DEF w
<1>6. CASE v[g] # <<>>
  <2> DEFINE u == [v EXCEPT ![h] = t, ![g] = <<Null>>]
  <2>1. Fits(k, ring \ {g}, u)
    <3>1. /\ Fits(Joined(links, g, h, links.next[h]), ring \ {g},
                  [v EXCEPT ![h] = v[g] \o v[h], ![g] = <<Null>>])
          /\ Fits(Joined(links, g, links.prev[h], h), ring \ {g},
                  [v EXCEPT ![h] = v[h] \o v[g], ![g] = <<Null>>])
      BY <1>1, <1>6, ListSpliced
    <3>2. CASE atEnd
      BY <3>1, <3>2, Zenon
    <3>3. CASE ~atEnd
      BY <3>1, <3>3, Zenon
    <3> QED
      BY <3>2, <3>3
  <2> HIDE DEF k, t
  <2>2. CASE init
    <3>1. links' = InitHead(k, g) /\ ring' = ring
      BY <1>1, <1>3, <1>6, <2>2
    <3>2. Fits(InitHead(k, g), (ring \ {g}) \cup {g}, [u EXCEPT ![g] = <<>>])
      <4> HIDE DEF u
      <4> QED
        BY <1>1, <2>1, HeadInitialised
    <3>3. (ring \ {g}) \cup {g} = ring
      BY <1>1
    <3>4. [u EXCEPT ![g] = <<>>] = [v EXCEPT ![h] = t, ![g] = <<>>]
      BY <1>2
    <3>5. (IF init \/ v[g] = <<>> THEN <<>> ELSE <<Null>>) = <<>>
      BY <2>2
    <3> HIDE DEF u
    <3>6. Fits(links', ring', w)
      BY <1>4, <3>1, <3>2, <3>3, <3>4, <3>5, Zenon
    <3> QED
      BY <3>6 DEF w
  <2>3. CASE ~init
    <3>1. links' = k /\ ring' = ring \ {g}
      BY <1>1, <1>3, <1>6, <2>3
    <3>2. (IF init \/ v[g] = <<>> THEN <<>> ELSE <<Null>>) = <<Null>>
      BY <1>6, <2>3
    <3>3. Fits(links', ring', w)
      BY <1>4, <2>1, <3>1, <3>2, Zenon
    <3> QED
      BY <3>3 DEF w
  <2> QED
    BY <2>2, <2>3
<1> QED
  BY <1>5, <1>6

\* INIT_LIST_HEAD.
LEMMA InitHeadFits ==
    ASSUME NEW v, Fits(links, ring, v), NEW h \in Lists, InitListHead(h)
    PROVE  Fits(links', ring', [v EXCEPT ![h] = <<>>])
<1>1. /\ h \notin ring \/ links.next[h] = h
      /\ links' = InitHead(links, h) /\ ring' = ring \cup {h}
  BY DEF InitListHead, Loose
<1>2. h \notin ring \/ v[h] = <<>>
  BY <1>1, LooseHead
<1>3. Fits(InitHead(links, h), ring \cup {h}, [v EXCEPT ![h] = <<>>])
  BY <1>2, HeadInitialised
<1> QED
  BY <1>1, <1>3

\* The rings are what View says.
Sequenced == Fits(links, ring, View)

\* What the rings lead through is what is seen of them.
LEMMA FitsView ==
    ASSUME NEW v, Fits(links, ring, v)
    PROVE  Sequenced
BY ViewIs DEF Sequenced

\* The same after a step.
LEMMA FitsViewNext ==
    ASSUME NEW v, Fits(links', ring', v)
    PROVE  View' = v /\ Sequenced'
<1>1. v = [h \in Lists |-> v[h]]
  BY DEF Fits
<1>2. ASSUME NEW h \in Lists PROVE v[h] = IF h \in ring' THEN On(h)' ELSE <<Null>>
  <2>1. CASE h \in ring'
    BY <2>1, ListIs DEF On
  <2>2. CASE h \notin ring'
    BY <2>2 DEF Fits
  <2> QED
    BY <2>1, <2>2
<1>3. [h \in Lists |-> v[h]] = [h \in Lists |-> IF h \in ring' THEN On(h)' ELSE <<Null>>]
  BY <1>2, Zenon
<1>4. View' = [h \in Lists |-> IF h \in ring' THEN On(h)' ELSE <<Null>>]
  BY DEF View
<1>5. View' = v
  BY <1>1, <1>3, <1>4, Zenon
<1>6. Fits(links', ring', View')
  BY <1>5, Zenon
<1>7. Fits(links, ring, View)' <=> Fits(links', ring', View')
  BY DEF Fits
<1> QED
  BY <1>5, <1>6, <1>7 DEF Sequenced

\* Every operation does to the sequences what is said of it.
LEMMA SequencedActs == Sequenced => SequenceStep
<1> SUFFICES ASSUME Sequenced PROVE SequenceStep
  OBVIOUS
<1> DEFINE v == View
<1>0. Fits(links, ring, v)
  BY DEF Sequenced
<1> HIDE DEF v
<1>1. ASSUME NEW e \in Entries
      PROVE  /\ ListDel(e) \/ ListDelInit(e) => View' = Without(v, e)
             /\ \A h \in Lists :
                 /\ ListAdd(e, h) => View' = [v EXCEPT ![h] = <<e>> \o @]
                 /\ ListAddTail(e, h) => View' = [v EXCEPT ![h] = Append(@, e)]
                 /\ ListMove(e, h) => View' = [Without(v, e) EXCEPT ![h] = <<e>> \o @]
                 /\ ListMoveTail(e, h) => View' = [Without(v, e) EXCEPT ![h] = Append(@, e)]
  <2>1. ListDel(e) \/ ListDelInit(e) => View' = Without(v, e)
    BY <1>0, DelFits, DelInitFits, FitsViewNext, Zenon
  <2>2. ASSUME NEW h \in Lists
        PROVE  /\ ListAdd(e, h) => View' = [v EXCEPT ![h] = <<e>> \o @]
               /\ ListAddTail(e, h) => View' = [v EXCEPT ![h] = Append(@, e)]
    BY <1>0, AddFits, FitsViewNext, Zenon
  <2>3. ASSUME NEW h \in Lists
        PROVE  /\ ListMove(e, h) => View' = [Without(v, e) EXCEPT ![h] = <<e>> \o @]
               /\ ListMoveTail(e, h) => View' = [Without(v, e) EXCEPT ![h] = Append(@, e)]
    BY <1>0, MoveFits, FitsViewNext, Zenon
  <2> QED
    BY <2>1, <2>2, <2>3, Zenon
<1>2. ASSUME NEW old \in Entries, NEW new \in Entries, NEW init \in BOOLEAN,
             ListReplace(old, new, init)
      PROVE  View' = Subst(v, old, new)
  BY <1>0, <1>2, ReplaceEntryFits, FitsViewNext, Zenon
<1>3. ASSUME NEW old \in Lists, NEW new \in Lists, NEW init \in BOOLEAN,
             ListReplace(old, new, init)
      PROVE  View' = [v EXCEPT ![new] = v[old], ![old] = IF init THEN <<>> ELSE <<Null>>]
  BY <1>0, <1>3, ReplaceHeadFits, FitsViewNext, Zenon
<1>4. ASSUME NEW h \in Lists, ListRotateLeft(h)
      PROVE  View' = [v EXCEPT ![h] = IF @ = <<>> THEN @ ELSE Append(Tail(@), Head(@))]
  <2> DEFINE w == [v EXCEPT ![h] = IF @ = <<>> THEN @ ELSE Append(Tail(@), Head(@))]
  <2>1. Fits(links', ring', w)
    BY <1>0, <1>4, RotateFits
  <2> HIDE DEF w
  <2>2. View' = w
    BY <2>1, FitsViewNext
  <2> QED
    BY <2>2 DEF w
<1>5. ASSUME NEW g \in Lists, NEW h \in Lists, NEW e \in Cells, ListCutPosition(g, h, e)
      PROVE  \E i \in 0..Len(v[h]) :
                /\ (i = 0 /\ e = h) \/ (i > 0 /\ v[h][i] = e)
                /\ View' = IF v[h] = <<>> THEN v
                           ELSE [v EXCEPT ![g] = SubSeq(v[h], 1, i),
                                          ![h] = SubSeq(@, i + 1, Len(@))]
  <2>1. PICK i \in 0..Len(v[h]) :
                /\ (i = 0 /\ e = h) \/ (i > 0 /\ v[h][i] = e)
                /\ Fits(links', ring', CutView(v, g, h, i))
    BY <1>0, <1>5, CutFits
  <2>2. View' = CutView(v, g, h, i)
    BY <2>1, FitsViewNext, Zenon
  <2> QED
    BY <2>1, <2>2, Zenon DEF CutView
<1>6. ASSUME NEW g \in Lists, NEW h \in Lists, NEW atEnd \in BOOLEAN, NEW init \in BOOLEAN,
             ListSplice(g, h, atEnd, init)
      PROVE  View' = [v EXCEPT ![h] = IF atEnd THEN @ \o v[g] ELSE v[g] \o @,
                               ![g] = IF init \/ @ = <<>> THEN <<>> ELSE <<Null>>]
  <2>1. View' = SpliceView(v, g, h, atEnd, init)
    BY <1>0, <1>6, SpliceFits, FitsViewNext, Zenon
  <2> QED
    BY <2>1 DEF SpliceView
<1> QED
  BY <1>1, <1>2, <1>3, <1>4, <1>5, <1>6, Zenon DEF SequenceStep, v

\* Every step keeps the rings such.
LEMMA SequencedKept == Sequenced /\ [Next]_vars => Sequenced'
<1> SUFFICES ASSUME Sequenced, [Next]_vars PROVE Sequenced'
  OBVIOUS
<1> DEFINE v == View
<1>0. Fits(links, ring, v)
  BY DEF Sequenced
<1> HIDE DEF v
<1>1. ASSUME NEW h \in Lists, InitListHead(h) PROVE Sequenced'
  BY <1>0, <1>1, InitHeadFits, FitsViewNext, Zenon
<1>2. ASSUME NEW h \in Lists, ListRotateLeft(h) PROVE Sequenced'
  BY <1>0, <1>2, RotateFits, FitsViewNext, Zenon
<1>3. ASSUME NEW e \in Entries, ListDel(e) \/ ListDelInit(e) PROVE Sequenced'
  BY <1>0, <1>3, DelFits, DelInitFits, FitsViewNext, Zenon
<1>4. ASSUME NEW e \in Entries, NEW h \in Lists, ListAdd(e, h) \/ ListAddTail(e, h)
      PROVE  Sequenced'
  BY <1>0, <1>4, AddFits, FitsViewNext, Zenon
<1>5. ASSUME NEW e \in Entries, NEW h \in Lists, ListMove(e, h) \/ ListMoveTail(e, h)
      PROVE  Sequenced'
  BY <1>0, <1>5, MoveFits, FitsViewNext, Zenon
<1>6. ASSUME NEW c \in Cells, NEW d \in Cells, NEW init \in BOOLEAN, ListReplace(c, d, init)
      PROVE  Sequenced'
  <2>1. (c \in Lists /\ d \in Lists) \/ (c \in Entries /\ d \in Entries)
    BY <1>6 DEF ListReplace
  <2>2. CASE c \in Lists /\ d \in Lists
    BY <1>0, <1>6, <2>2, ReplaceHeadFits, FitsViewNext, Zenon
  <2>3. CASE c \in Entries /\ d \in Entries
    BY <1>0, <1>6, <2>3, ReplaceEntryFits, FitsViewNext, Zenon
  <2> QED
    BY <2>1, <2>2, <2>3
<1>7. ASSUME NEW g \in Lists, NEW h \in Lists, NEW c \in Cells, ListCutPosition(g, h, c)
      PROVE  Sequenced'
  <2>1. \E i \in 0..Len(v[h]) : Fits(links', ring', CutView(v, g, h, i))
    BY <1>0, <1>7, CutFits
  <2> QED
    BY <2>1, FitsViewNext, Zenon
<1>8. ASSUME NEW g \in Lists, NEW h \in Lists, NEW atEnd \in BOOLEAN, NEW init \in BOOLEAN,
             ListSplice(g, h, atEnd, init)
      PROVE  Sequenced'
  BY <1>0, <1>8, SpliceFits, FitsViewNext, Zenon
<1>9. ASSUME \/ \E h \in Lists, dir \in Dirs, c \in Cells : WalkBegin(h, dir, c)
             \/ WalkNext \/ WalkEnd \/ UNCHANGED vars
      PROVE  Sequenced'
  <2>1. links' = links /\ ring' = ring
    BY <1>9 DEF WalkBegin, WalkNext, WalkEnd, vars
  <2>2. Fits(links', ring', v)
    BY <1>0, <2>1, Zenon
  <2> QED
    BY <2>2, FitsViewNext
<1> QED
  BY <1>1, <1>2, <1>3, <1>4, <1>5, <1>6, <1>7, <1>8, <1>9 DEF Next

\* The rings are always such.
LEMMA AlwaysSequenced == Spec => []Sequenced
<1>1. Init => Sequenced
  BY InitFits, FitsView
<1>2. Sequenced /\ [Next]_vars => Sequenced'
  BY SequencedKept
<1> QED
  BY <1>1, <1>2, PTL DEF Spec

\* A ring that leads through a sequence and back is closed.
LEMMA FitsClosed == Sequenced => RingsClosed
<1> DEFINE v == View
           Good(c) == /\ {links.next[c], links.prev[c]} \subseteq ring
                      /\ links.prev[links.next[c]] = c /\ links.next[links.prev[c]] = c
<1> SUFFICES ASSUME Sequenced, NEW c \in ring PROVE Good(c)
  BY DEF RingsClosed
<1>0. Fits(links, ring, v) /\ ring \subseteq Lists \cup Entries
  BY DEF Sequenced, Fits, Cells
<1> HIDE DEF v
<1>1. ASSUME NEW h \in Lists \cap ring
      PROVE  /\ v[h] \in Seq(Entries \cap ring) /\ Len(v[h]) \in Nat
             /\ \A i \in 0..Len(v[h]) : Edge(links, At(h, v[h], h, i), At(h, v[h], h, i + 1))
             /\ \A i \in 0..Len(v[h]) + 1 : At(h, v[h], h, i) \in ring
  <2>1. v[h] \in Seq(Entries \cap ring) /\ Path(links, h, v[h], h)
    BY <1>0, ListFacts
  <2>2. Len(v[h]) \in Nat /\ \A i \in 1..Len(v[h]) : v[h][i] \in ring
    BY <2>1
  <2> QED
    BY <2>1, <2>2 DEF Path, At
<1>2. CASE c \in Lists
  <2> DEFINE s == v[c]
             f == At(c, s, c, 1)
             z == At(c, s, c, Len(s))
  <2>1. /\ Edge(links, At(c, s, c, 0), At(c, s, c, 0 + 1))
        /\ Edge(links, At(c, s, c, Len(s)), At(c, s, c, Len(s) + 1))
        /\ f \in ring /\ z \in ring /\ Len(s) \in Nat
    BY <1>1, <1>2
  <2>2. At(c, s, c, 0) = c /\ At(c, s, c, Len(s) + 1) = c
    BY <2>1 DEF At
  <2> QED
    BY <2>1, <2>2 DEF Edge
<1>3. CASE c \in Entries /\ Edge(links, c, c)
  BY <1>3 DEF Edge
<1>4. CASE c \in Entries /\ ~Edge(links, c, c)
  <2>1. PICK h \in Lists \cap ring : Contains(v[h], c)
    BY <1>0, <1>4 DEF Fits
  <2>2. PICK i \in 1..Len(v[h]) : v[h][i] = c
    BY <2>1 DEF Contains
  <2> DEFINE s == v[h]
             a == At(h, s, h, i - 1)
             b == At(h, s, h, i + 1)
  <2>3. i \in 0..Len(s) /\ i - 1 \in 0..Len(s) /\ i + 1 \in 0..Len(s) + 1 /\ (i - 1) + 1 = i
        /\ i # 0 /\ i # Len(s) + 1
    BY <1>1
  <2>4. /\ Edge(links, a, At(h, s, h, (i - 1) + 1)) /\ Edge(links, At(h, s, h, i), b)
        /\ a \in ring /\ b \in ring
    BY <1>1, <2>3
  <2>5. At(h, s, h, i) = c
    BY <2>2, <2>3 DEF At
  <2> QED
    BY <2>3, <2>4, <2>5 DEF Edge
<1> QED
  BY <1>0, <1>2, <1>3, <1>4

\* No operation leaves a pointer to a cell that was taken off, a NULL, or a
\* ring that can be walked in one direction only.
THEOREM RingsStayClosed == Spec => []RingsClosed
<1> QED
  BY FitsClosed, AlwaysSequenced, PTL

\* list_empty and the others tell from two pointers what is true of the whole
\* list.
THEOREM TestsAlwaysTell == Spec => []TestsTellTheList
<1>1. Sequenced => TestsTellTheList
  BY FitsTests DEF Sequenced
<1> QED
  BY <1>1, AlwaysSequenced, PTL

\* Each function of list.h, on lists of any length, does to the sequences what
\* its comment says and nothing to the other lists.
THEOREM AlwaysActsOnSequences == Spec => ActsOnSequences
<1>1. Sequenced /\ [Next]_vars => [vars' # vars => SequenceStep]_vars
  BY SequencedActs
<1>2. Spec => [][Next]_vars
  BY DEF Spec
<1> QED
  BY <1>1, <1>2, AlwaysSequenced, PTL DEF ActsOnSequences

-----------------------------------------------------------------------------
(* Walks.                                                                  *)

\* The entries of a list in the order in which a walk meets them.
Way(dir, s) == IF dir = "next" THEN s ELSE Reverse(s)

\* Reverse, entry by entry.
LEMMA ReverseProperties ==
    ASSUME NEW S, NEW s \in Seq(S)
    PROVE  /\ Reverse(s) \in Seq(S) /\ Len(Reverse(s)) = Len(s)
           /\ \A i \in 1..Len(s) : Reverse(s)[i] = s[(Len(s) - i) + 1]
           /\ \A x : Contains(Reverse(s), x) <=> Contains(s, x)
<1> DEFINE t == Reverse(s)
<1>0. Len(s) \in Nat /\ \A i \in 1..Len(s) : s[i] \in S
  OBVIOUS
<1>1. t = [i \in 1..Len(s) |-> s[(Len(s) - i) + 1]]
  BY DEF Reverse
<1>2. \A i \in 1..Len(s) : (Len(s) - i) + 1 \in 1..Len(s)
  BY <1>0
<1>3. t \in [1..Len(s) -> S]
  BY <1>0, <1>1, <1>2
<1>4. t \in Seq(S) /\ Len(t) = Len(s)
  BY <1>0, <1>3
<1>5. \A i \in 1..Len(s) : t[i] = s[(Len(s) - i) + 1]
  BY <1>1
<1> HIDE DEF t
<1>6. ASSUME NEW x PROVE Contains(t, x) <=> Contains(s, x)
  <2>1. ASSUME NEW i \in 1..Len(t), t[i] = x PROVE Contains(s, x)
    BY <1>2, <1>4, <1>5, <2>1 DEF Contains
  <2>2. ASSUME NEW i \in 1..Len(s), s[i] = x PROVE Contains(t, x)
    <3>1. (Len(s) - i) + 1 \in 1..Len(s) /\ (Len(s) - ((Len(s) - i) + 1)) + 1 = i
      BY <1>0
    <3>2. t[(Len(s) - i) + 1] = x
      BY <1>5, <2>2, <3>1
    <3> QED
      BY <1>4, <3>1, <3>2 DEF Contains
  <2>3. Contains(t, x) => Contains(s, x)
    BY <2>1 DEF Contains
  <2>4. Contains(s, x) => Contains(t, x)
    BY <2>2 DEF Contains
  <2> QED
    BY <2>3, <2>4
<1> QED
  BY <1>4, <1>5, <1>6 DEF t

\* Two sequences, reversed.
LEMMA ReverseConcat ==
    ASSUME NEW S, NEW a \in Seq(S), NEW b \in Seq(S)
    PROVE  Reverse(a \o b) = Reverse(b) \o Reverse(a)
<1> DEFINE s == a \o b
           u == Reverse(s)
           x == Reverse(a)
           y == Reverse(b)
           w == y \o x
<1>0. Len(a) \in Nat /\ Len(b) \in Nat
  OBVIOUS
<1>1. /\ s \in Seq(S) /\ Len(s) = Len(a) + Len(b)
      /\ \A i \in 1..Len(a) + Len(b) : s[i] = IF i <= Len(a) THEN a[i] ELSE b[i - Len(a)]
  BY ConcatProperties
<1>2. /\ x \in Seq(S) /\ Len(x) = Len(a)
      /\ \A i \in 1..Len(a) : x[i] = a[(Len(a) - i) + 1]
  BY ReverseProperties
<1>3. /\ y \in Seq(S) /\ Len(y) = Len(b)
      /\ \A i \in 1..Len(b) : y[i] = b[(Len(b) - i) + 1]
  BY ReverseProperties
<1> HIDE DEF s, x, y
<1>4. /\ u \in Seq(S) /\ Len(u) = Len(s)
      /\ \A i \in 1..Len(s) : u[i] = s[(Len(s) - i) + 1]
  BY <1>1, ReverseProperties
<1>5. /\ w \in Seq(S) /\ Len(w) = Len(y) + Len(x)
      /\ \A i \in 1..Len(y) + Len(x) : w[i] = IF i <= Len(y) THEN y[i] ELSE x[i - Len(y)]
  <2>1. y \in Seq(S) /\ x \in Seq(S)
    BY <1>2, <1>3
  <2> QED
    BY ONLY <2>1, ConcatProperties
<1> HIDE DEF u, w
<1>6. Len(u) = Len(w)
  BY <1>0, <1>1, <1>2, <1>3, <1>4, <1>5
<1>7. ASSUME NEW i \in 1..Len(u) PROVE u[i] = w[i]
  <2> DEFINE j == (Len(s) - i) + 1
  <2>0. /\ i \in 1..Len(s) /\ j \in 1..Len(a) + Len(b) /\ i \in 1..Len(y) + Len(x)
        /\ j = ((Len(a) + Len(b)) - i) + 1
    BY <1>0, <1>1, <1>2, <1>3, <1>4
  <2>1. u[i] = s[j]
    BY <1>4, <2>0
  <2> HIDE DEF j
  <2>2. s[j] = IF j <= Len(a) THEN a[j] ELSE b[j - Len(a)]
    BY <1>1, <2>0
  <2>3. w[i] = IF i <= Len(y) THEN y[i] ELSE x[i - Len(y)]
    BY <1>5, <2>0
  <2>4. CASE i <= Len(b)
    <3>1. ~(j <= Len(a)) /\ j - Len(a) = (Len(b) - i) + 1 /\ i \in 1..Len(b) /\ i <= Len(y)
      BY <1>0, <1>3, <2>0, <2>4
    <3>2. w[i] = y[i] /\ y[i] = b[(Len(b) - i) + 1]
      BY <1>3, <2>3, <3>1
    <3>3. s[j] = b[(Len(b) - i) + 1]
      BY <2>2, <3>1
    <3> QED
      BY <2>1, <3>2, <3>3
  <2>5. CASE ~(i <= Len(b))
    <3>1. /\ j <= Len(a) /\ i - Len(y) \in 1..Len(a) /\ (Len(a) - (i - Len(y))) + 1 = j
          /\ ~(i <= Len(y))
      BY <1>0, <1>2, <1>3, <2>0, <2>5
    <3>2. w[i] = x[i - Len(y)] /\ x[i - Len(y)] = a[(Len(a) - (i - Len(y))) + 1]
      BY <1>2, <2>3, <3>1
    <3>3. w[i] = a[j]
      BY <3>1, <3>2
    <3>4. s[j] = a[j]
      BY <2>2, <3>1
    <3> QED
      BY <2>1, <3>3, <3>4
  <2> QED
    BY <2>4, <2>5
<1>8. u = w
  BY <1>4, <1>5, <1>6, <1>7, SeqEqual
<1> QED
  BY <1>8 DEF u, w, s, x, y

\* A sequence of one, reversed.
LEMMA ReverseOne == \A e : Reverse(<<e>>) = <<e>>
<1> SUFFICES ASSUME NEW e PROVE Reverse(<<e>>) = <<e>>
  OBVIOUS
<1>1. <<e>> \in Seq({e}) /\ Len(<<e>>) = 1 /\ <<e>>[1] = e
  OBVIOUS
<1>2. /\ Reverse(<<e>>) \in Seq({e}) /\ Len(Reverse(<<e>>)) = 1
      /\ \A i \in 1..1 : Reverse(<<e>>)[i] = <<e>>[(1 - i) + 1]
  BY <1>1, ReverseProperties
<1>3. \A i \in 1..1 : Reverse(<<e>>)[i] = <<e>>[i]
  BY <1>1, <1>2
<1> QED
  BY <1>1, <1>2, <1>3, SeqEqual

\* What a change of the list is on the way of a walk.
LEMMA WayProperties ==
    ASSUME NEW dir \in Dirs, NEW s \in Seq(Entries)
    PROVE  /\ Way(dir, s) \in Seq(Entries) /\ Len(Way(dir, s)) = Len(s)
           /\ \A x : Contains(Way(dir, s), x) <=> Contains(s, x)
           /\ Inj(s) => Inj(Way(dir, s))
<1>0. Len(s) \in Nat
  OBVIOUS
<1>1. CASE dir = "next"
  BY <1>1 DEF Way
<1>2. CASE dir # "next"
  <2> DEFINE t == Reverse(s)
  <2>1. /\ t \in Seq(Entries) /\ Len(t) = Len(s)
        /\ \A i \in 1..Len(s) : t[i] = s[(Len(s) - i) + 1]
        /\ \A x : Contains(t, x) <=> Contains(s, x)
    BY ReverseProperties
  <2> HIDE DEF t
  <2>2. ASSUME Inj(s), NEW i \in 1..Len(t), NEW j \in 1..Len(t), t[i] = t[j] PROVE i = j
    <3>1. (Len(s) - i) + 1 \in 1..Len(s) /\ (Len(s) - j) + 1 \in 1..Len(s)
      BY <1>0, <2>1
    <3>2. s[(Len(s) - i) + 1] = s[(Len(s) - j) + 1]
      BY <2>1, <2>2
    <3>3. (Len(s) - i) + 1 = (Len(s) - j) + 1
      BY <2>2, <3>1, <3>2 DEF Inj
    <3> QED
      BY <1>0, <2>1, <3>3
  <2>3. Inj(s) => Inj(t)
    BY <2>2 DEF Inj
  <2>4. Way(dir, s) = t
    BY <1>2 DEF Way, t
  <2> QED
    BY <2>1, <2>3, <2>4
<1> QED
  BY <1>1, <1>2

\* What is added at an end of a list is at an end of the way.
LEMMA WayAdded ==
    ASSUME NEW dir \in Dirs, NEW s \in Seq(Entries), NEW e \in Entries
    PROVE  /\ Way(dir, <<e>> \o s) \in {<<e>> \o Way(dir, s), Way(dir, s) \o <<e>>}
           /\ Way(dir, Append(s, e)) \in {<<e>> \o Way(dir, s), Way(dir, s) \o <<e>>}
<1>1. Append(s, e) = s \o <<e>> /\ <<e>> \in Seq(Entries)
  BY AppendIsConcat
<1>2. CASE dir = "next"
  BY <1>1, <1>2, Zenon DEF Way
<1>3. CASE dir # "next"
  <2>1. Reverse(<<e>> \o s) = Reverse(s) \o Reverse(<<e>>)
    BY <1>1, ReverseConcat
  <2>2. Reverse(s \o <<e>>) = Reverse(<<e>>) \o Reverse(s)
    BY <1>1, ReverseConcat
  <2>3. Reverse(<<e>>) = <<e>>
    BY ReverseOne
  <2>4. \A t : Way(dir, t) = Reverse(t)
    BY <1>3 DEF Way
  <2>5. Way(dir, <<e>> \o s) = Way(dir, s) \o <<e>>
    BY <2>1, <2>3, <2>4, Zenon
  <2>6. Way(dir, Append(s, e)) = <<e>> \o Way(dir, s)
    BY <1>1, <2>2, <2>3, <2>4, Zenon
  <2> QED
    BY <2>5, <2>6
<1> QED
  BY <1>2, <1>3

\* An entry that is taken off is gone from where the walk would meet it.
LEMMA RemoveAround ==
    ASSUME NEW S, NEW a \in Seq(S), NEW b \in Seq(S), NEW e \in S, Inj(a \o (<<e>> \o b))
    PROVE  RemoveFirst(a \o (<<e>> \o b), e) = a \o b
<1> DEFINE s == a \o (<<e>> \o b)
           i == Len(a) + 1
<1>0. Len(a) \in Nat /\ Len(b) \in Nat /\ <<e>> \in Seq(S) /\ <<e>> \o b \in Seq(S)
  OBVIOUS
<1>1. Len(<<e>> \o b) = 1 + Len(b) /\ (<<e>> \o b)[1] = e
      /\ \A j \in 1..Len(b) : (<<e>> \o b)[1 + j] = b[j]
  BY <1>0
<1> DEFINE t == <<e>> \o b
<1> HIDE DEF t
<1>2. t \in Seq(S) /\ Len(t) = 1 + Len(b) /\ t[1] = e /\ \A j \in 1..Len(b) : t[1 + j] = b[j]
  BY <1>0, <1>1 DEF t
<1>3. /\ a \o t \in Seq(S) /\ Len(a \o t) = Len(a) + Len(t)
      /\ \A j \in 1..Len(a) + Len(t) : (a \o t)[j] = IF j <= Len(a) THEN a[j] ELSE t[j - Len(a)]
  <2>1. a \in Seq(S) /\ t \in Seq(S)
    BY <1>2
  <2> QED
    BY ONLY <2>1, ConcatProperties
<1>4. s = a \o t
  BY DEF t
<1> HIDE DEF s
<1>5. s \in Seq(S) /\ Len(s) = Len(a) + 1 + Len(b) /\ i \in 1..Len(s) /\ s[i] = e
  <2>1. i \in 1..Len(a) + Len(t) /\ ~(i <= Len(a)) /\ i - Len(a) = 1
    BY <1>0, <1>2
  <2>2. (a \o t)[i] = t[1]
    BY <1>3, <2>1
  <2>3. Len(s) = Len(a) + 1 + Len(b)
    BY <1>0, <1>2, <1>3, <1>4
  <2> QED
    BY <1>0, <1>2, <1>3, <1>4, <2>2, <2>3
<1> HIDE DEF i
<1>6. RemoveFirst(s, s[i]) = SubSeq(s, 1, i - 1) \o SubSeq(s, i + 1, Len(s))
  <2>1. Inj(s)
    BY DEF s
  <2> QED
    BY <1>5, <2>1, RemoveFirstIs
<1>7. /\ SubSeq(s, 1, i - 1) \in Seq(S) /\ SubSeq(s, i + 1, Len(s)) \in Seq(S)
      /\ Len(SubSeq(s, 1, i - 1)) = i - 1
      /\ Len(SubSeq(s, i + 1, Len(s))) = Len(s) - i
      /\ \A j \in 1..i - 1 : SubSeq(s, 1, i - 1)[j] = s[j]
      /\ \A j \in 1..Len(s) - i : SubSeq(s, i + 1, Len(s))[j] = s[i + j]
  BY <1>5, SeqAround
<1> DEFINE p == SubSeq(s, 1, i - 1)
           q == SubSeq(s, i + 1, Len(s))
<1>8. p = a
  <2>1. Len(p) = Len(a)
    BY <1>0, <1>7 DEF i
  <2>2. ASSUME NEW j \in 1..Len(p) PROVE p[j] = a[j]
    <3>1. j \in 1..i - 1 /\ j \in 1..Len(a) + Len(t) /\ j <= Len(a)
      BY <1>0, <1>2, <1>7, <2>1
    <3>2. p[j] = s[j]
      BY <1>7, <3>1
    <3>3. (a \o t)[j] = a[j]
      BY <1>3, <3>1
    <3> HIDE DEF p
    <3> QED
      BY <1>4, <3>2, <3>3
  <2>3. p \in Seq(S)
    BY <1>7
  <2> HIDE DEF p
  <2> QED
    BY <2>1, <2>2, <2>3, SeqEqual
<1>9. q = b
  <2>1. Len(q) = Len(b) /\ Len(s) - i = Len(b)
    BY <1>0, <1>5, <1>7 DEF i
  <2>2. ASSUME NEW j \in 1..Len(q) PROVE q[j] = b[j]
    <3>1. /\ j \in 1..Len(s) - i /\ i + j \in 1..Len(a) + Len(t) /\ ~(i + j <= Len(a))
          /\ (i + j) - Len(a) = 1 + j /\ j \in 1..Len(b)
      BY <1>0, <1>2, <2>1 DEF i
    <3>2. q[j] = s[i + j]
      BY <1>7, <3>1
    <3>3. (a \o t)[i + j] = t[1 + j]
      BY <1>3, <3>1
    <3>4. t[1 + j] = b[j]
      BY <1>2, <3>1
    <3> HIDE DEF q
    <3> QED
      BY <1>4, <3>2, <3>3, <3>4
  <2>3. q \in Seq(S)
    BY <1>7
  <2> HIDE DEF q
  <2> QED
    BY <2>1, <2>2, <2>3, SeqEqual
<1>10. RemoveFirst(s, e) = a \o b
  <2> HIDE DEF p, q
  <2> QED
    BY <1>5, <1>6, <1>8, <1>9, Zenon DEF p, q
<1> QED
  BY <1>10 DEF s

\* s is p, e and q.
Parted(S, s, p, e, q) == p \in Seq(S) /\ q \in Seq(S) /\ s = p \o (<<e>> \o q)

\* A sequence is split at what is on it.
LEMMA SplitAt ==
    ASSUME NEW S, NEW s \in Seq(S), NEW e, Contains(s, e)
    PROVE  \E p, q : Parted(S, s, p, e, q)
<1>1. PICK i \in 1..Len(s) : s[i] = e
  BY DEF Contains
<1> DEFINE p == SubSeq(s, 1, i - 1)
           q == SubSeq(s, i + 1, Len(s))
<1>2. p \in Seq(S) /\ q \in Seq(S) /\ s = p \o (<<s[i]>> \o q)
  BY SeqAround
<1> HIDE DEF p, q
<1>3. s = p \o (<<e>> \o q)
  BY <1>1, <1>2, Zenon
<1> QED
  BY <1>2, <1>3 DEF Parted

\* A sequence that is not empty begins with its first.
LEMMA SplitFirst ==
    ASSUME NEW S, NEW s \in Seq(S), s # <<>>
    PROVE  \E q \in Seq(S) : s = <<s[1]>> \o q
<1>1. Len(s) \in Nat \ {0} /\ 1 \in 1..Len(s)
  BY EmptySeq
<1> DEFINE p == SubSeq(s, 1, 1 - 1)
           q == SubSeq(s, 1 + 1, Len(s))
<1>2. p \in Seq(S) /\ q \in Seq(S) /\ Len(p) = 1 - 1 /\ s = p \o (<<s[1]>> \o q)
  BY <1>1, SeqAround
<1> HIDE DEF p, q
<1>3. p = <<>>
  BY <1>2, EmptySeq
<1>4. <<s[1]>> \o q \in Seq(S)
  BY <1>1, <1>2
<1>5. <<>> \o (<<s[1]>> \o q) = <<s[1]>> \o q
  BY <1>4, ConcatEmptySeq
<1>6. s = <<s[1]>> \o q
  BY <1>2, <1>3, <1>5, Zenon
<1> QED
  BY <1>2, <1>6

\* What is taken off a list is taken off the way of a walk.
LEMMA WayRemoved ==
    ASSUME NEW dir \in Dirs, NEW s \in Seq(Entries), Inj(s), NEW e \in Entries
    PROVE  Way(dir, RemoveFirst(s, e)) = RemoveFirst(Way(dir, s), e)
<1>1. CASE dir = "next"
  BY <1>1, Zenon DEF Way
<1>2. CASE dir # "next"
  <2>0. \A t : Way(dir, t) = Reverse(t)
    BY <1>2 DEF Way
  <2>1. CASE ~Contains(s, e)
    <3>1. ~Contains(Reverse(s), e)
      BY <2>1, ReverseProperties
    <3>2. RemoveFirst(s, e) = s /\ RemoveFirst(Reverse(s), e) = Reverse(s)
      BY <2>1, <3>1, RemoveNone
    <3> QED
      BY <2>0, <3>2, Zenon
  <2>2. CASE Contains(s, e)
    <3>0. PICK p, q : Parted(Entries, s, p, e, q)
      BY <2>2, SplitAt
    <3>1. p \in Seq(Entries) /\ q \in Seq(Entries) /\ s = p \o (<<e>> \o q)
      BY <3>0 DEF Parted
    <3> DEFINE x == Reverse(p)
               y == Reverse(q)
    <3>2. <<e>> \in Seq(Entries) /\ <<e>> \o q \in Seq(Entries)
      BY <3>1
    <3>3. x \in Seq(Entries) /\ y \in Seq(Entries)
      BY <3>1, ReverseProperties
    <3>4. Reverse(p \o (<<e>> \o q)) = Reverse(<<e>> \o q) \o x
      BY <3>1, <3>2, ReverseConcat
    <3>5. Reverse(<<e>> \o q) = y \o Reverse(<<e>>)
      BY <3>1, <3>2, ReverseConcat
    <3>6. Reverse(<<e>>) = <<e>>
      BY ReverseOne
    <3>7. Reverse(p \o q) = y \o x
      BY <3>1, ReverseConcat
    <3> HIDE DEF x, y
    <3>8. (y \o <<e>>) \o x = y \o (<<e>> \o x)
      BY <3>2, <3>3, ConcatAssociative
    <3>9. Reverse(s) = y \o (<<e>> \o x)
      BY <3>1, <3>4, <3>5, <3>6, <3>8, Zenon
    <3>10. Inj(Reverse(s))
      BY <2>0, WayProperties
    <3>11. RemoveFirst(y \o (<<e>> \o x), e) = y \o x
      <4>1. Inj(y \o (<<e>> \o x))
        BY <3>9, <3>10, Zenon
      <4> QED
        BY <3>3, <4>1, RemoveAround
    <3>12. RemoveFirst(s, e) = p \o q
      <4>1. Inj(p \o (<<e>> \o q))
        BY <3>1, Zenon
      <4>2. RemoveFirst(p \o (<<e>> \o q), e) = p \o q
        BY <3>1, <4>1, RemoveAround
      <4> QED
        BY <3>1, <4>2, Zenon
    <3>13. Reverse(RemoveFirst(s, e)) = RemoveFirst(Reverse(s), e)
      BY <3>7, <3>9, <3>11, <3>12, Zenon
    <3> QED
      BY <2>0, <3>13, Zenon
  <2> QED
    BY <2>1, <2>2
<1> QED
  BY <1>1, <1>2

\* The pointers in the direction of a walk lead from the head h through D.
Leads(l, dir, h, D) ==
    /\ D \in Seq(Entries) /\ Inj(D) /\ h \in Lists
    /\ \A i \in 0..Len(D) : l[dir][At(h, D, h, i)] = At(h, D, h, i + 1)

\* The pointers of a list lead on the way of a walk.
LEMMA ListLeads ==
    ASSUME NEW l, NEW r, NEW v, Fits(l, r, v), NEW h \in Lists \cap r, NEW dir \in Dirs
    PROVE  Leads(l, dir, h, Way(dir, v[h]))
<1> DEFINE s == v[h]
           D == Way(dir, s)
<1>1. s \in Seq(Entries) /\ Path(l, h, s, h) /\ Inj(s)
  <2>1. s \in Seq(Entries \cap r) /\ Path(l, h, s, h) /\ Inj(s)
    BY ListFacts
  <2> QED
    BY <2>1
<1> HIDE DEF s
<1>2. D \in Seq(Entries) /\ Inj(D) /\ Len(D) = Len(s) /\ Len(s) \in Nat
  BY <1>1, WayProperties
<1>3. ASSUME NEW i \in 0..Len(D) PROVE l[dir][At(h, D, h, i)] = At(h, D, h, i + 1)
  <2>1. CASE dir = "next"
    <3>1. D = s
      BY <2>1 DEF Way
    <3>2. Edge(l, At(h, s, h, i), At(h, s, h, i + 1))
      BY <1>1, <1>2 DEF Path
    <3> HIDE DEF D
    <3> QED
      BY <2>1, <3>1, <3>2, Zenon DEF Edge
  <2>2. CASE dir # "next"
    <3>1. dir = "prev" /\ D = Reverse(s)
      BY <2>2 DEF Dirs, Way
    <3>2. \A k \in 1..Len(s) : D[k] = s[(Len(s) - k) + 1]
      BY <1>1, <3>1, ReverseProperties
    <3> HIDE DEF D
    <3> DEFINE j == Len(s) - i
    <3>3. j \in 0..Len(s)
      BY <1>2
    <3>4. Edge(l, At(h, s, h, j), At(h, s, h, j + 1))
      BY <1>1, <3>3 DEF Path
    <3>5. At(h, D, h, i) = At(h, s, h, j + 1)
      <4>1. CASE i = 0
        <5>1. j + 1 = Len(s) + 1 /\ j + 1 # 0
          BY <1>2, <4>1
        <5> QED
          BY <4>1, <5>1 DEF At
      <4>2. CASE i # 0
        <5>1. /\ i \in 1..Len(s) /\ i # Len(D) + 1 /\ j + 1 # 0 /\ j + 1 # Len(s) + 1
              /\ (Len(s) - i) + 1 = j + 1
          BY <1>2, <4>2
        <5>2. At(h, D, h, i) = D[i] /\ At(h, s, h, j + 1) = s[j + 1]
          BY <4>2, <5>1 DEF At
        <5> HIDE DEF j
        <5> QED
          BY <3>2, <5>1, <5>2
      <4> QED
        BY <4>1, <4>2
    <3>6. At(h, D, h, i + 1) = At(h, s, h, j)
      <4>1. CASE i = Len(D)
        <5>1. j = 0 /\ i + 1 # 0 /\ i + 1 = Len(D) + 1
          BY <1>2, <4>1
        <5> QED
          BY <5>1 DEF At
      <4>2. CASE i # Len(D)
        <5>1. /\ i + 1 \in 1..Len(s) /\ i + 1 # Len(D) + 1 /\ i + 1 # 0
              /\ j # 0 /\ j # Len(s) + 1 /\ (Len(s) - (i + 1)) + 1 = j
          BY <1>2, <4>2
        <5>2. At(h, D, h, i + 1) = D[i + 1] /\ At(h, s, h, j) = s[j]
          BY <5>1 DEF At
        <5> HIDE DEF j
        <5> QED
          BY <3>2, <5>1, <5>2
      <4> QED
        BY <4>1, <4>2
    <3> HIDE DEF j
    <3>7. l.prev[At(h, s, h, j + 1)] = At(h, s, h, j)
      BY <3>4 DEF Edge
    <3> QED
      BY <3>1, <3>5, <3>6, <3>7, Zenon
  <2> QED
    BY <2>1, <2>2
<1>4. Leads(l, dir, h, D)
  <2> HIDE DEF D
  <2> QED
    BY <1>2, <1>3 DEF Leads
<1> QED
  BY <1>4 DEF D, s

\* Where the pointers lead from the head and from an entry.
LEMMA LedFrom ==
    ASSUME NEW l, NEW dir, NEW h, NEW D, Leads(l, dir, h, D)
    PROVE  /\ l[dir][h] = First(D, h)
           /\ \A i \in 1..Len(D) : l[dir][D[i]] = IF i = Len(D) THEN h ELSE D[i + 1]
<1>1. Len(D) \in Nat /\ (D = <<>> <=> Len(D) = 0)
  BY EmptySeq DEF Leads
<1>2. l[dir][h] = First(D, h)
  <2>1. l[dir][At(h, D, h, 0)] = At(h, D, h, 0 + 1)
    BY <1>1 DEF Leads
  <2> QED
    BY <1>1, <2>1 DEF At, First
<1>3. ASSUME NEW i \in 1..Len(D) PROVE l[dir][D[i]] = IF i = Len(D) THEN h ELSE D[i + 1]
  <2>1. l[dir][At(h, D, h, i)] = At(h, D, h, i + 1)
    BY <1>1 DEF Leads
  <2>2. At(h, D, h, i) = D[i] /\ At(h, D, h, i + 1) = IF i = Len(D) THEN h ELSE D[i + 1]
    BY <1>1 DEF At
  <2> QED
    BY <2>1, <2>2
<1> QED
  BY <1>2, <1>3

\* Where the pointers lead from an entry in the middle.
LEMMA LedOn ==
    ASSUME NEW l, NEW dir, NEW h, NEW a \in Seq(Entries), NEW b \in Seq(Entries), NEW e \in Entries,
           Leads(l, dir, h, a \o (<<e>> \o b))
    PROVE  l[dir][e] = First(b, h)
<1> DEFINE t == <<e>> \o b
           D == a \o t
           i == Len(a) + 1
<1>0. Len(a) \in Nat /\ Len(b) \in Nat /\ (b = <<>> <=> Len(b) = 0)
  BY EmptySeq
<1>1. t \in Seq(Entries) /\ Len(t) = 1 + Len(b) /\ t[1] = e /\ \A j \in 1..Len(b) : t[1 + j] = b[j]
  BY <1>0
<1> HIDE DEF t
<1>2. /\ Len(D) = Len(a) + Len(t)
      /\ \A j \in 1..Len(a) + Len(t) : D[j] = IF j <= Len(a) THEN a[j] ELSE t[j - Len(a)]
  <2>1. a \in Seq(Entries) /\ t \in Seq(Entries)
    BY <1>1
  <2> QED
    BY ONLY <2>1, ConcatProperties
<1>3. \A j \in 1..Len(D) : l[dir][D[j]] = IF j = Len(D) THEN h ELSE D[j + 1]
  <2>1. Leads(l, dir, h, D)
    BY DEF t
  <2> HIDE DEF D
  <2> QED
    BY <2>1, LedFrom
<1> HIDE DEF D
<1>4. i \in 1..Len(D) /\ D[i] = e
  <2>1. i \in 1..Len(a) + Len(t) /\ ~(i <= Len(a)) /\ i - Len(a) = 1
    BY <1>0, <1>1
  <2> HIDE DEF i
  <2> QED
    BY <1>1, <1>2, <2>1
<1>5. (IF i = Len(D) THEN h ELSE D[i + 1]) = First(b, h)
  <2>1. CASE b = <<>>
    BY <1>0, <1>1, <1>2, <2>1 DEF First
  <2>2. CASE b # <<>>
    <3>1. /\ i # Len(D) /\ i + 1 \in 1..Len(a) + Len(t) /\ ~(i + 1 <= Len(a))
          /\ (i + 1) - Len(a) = 1 + 1 /\ 1 \in 1..Len(b)
      BY <1>0, <1>1, <1>2, <2>2
    <3> HIDE DEF i
    <3>2. D[i + 1] = t[1 + 1]
      BY <1>2, <3>1
    <3>3. t[1 + 1] = b[1]
      BY <1>1, <3>1
    <3> QED
      BY <2>2, <3>1, <3>2, <3>3 DEF First
  <2> QED
    BY <2>1, <2>2
<1> HIDE DEF i
<1> QED
  BY <1>3, <1>4, <1>5

\* The rest of a walk is what is ahead of it.
LEMMA LedWalk ==
    ASSUME NEW l, NEW dir, NEW h, NEW a \in Seq(Entries), NEW b \in Seq(Entries),
           Leads(l, dir, h, a \o b)
    PROVE  From(l, dir, First(b, h), h) = b
<1> DEFINE D == a \o b
<1>0. /\ Len(a) \in Nat /\ Len(b) \in Nat /\ \A j \in 1..Len(b) : b[j] \in Entries
      /\ h \in Lists /\ Inj(D)
  BY DEF Leads
<1>1. /\ Len(D) = Len(a) + Len(b)
      /\ \A j \in 1..Len(a) + Len(b) : D[j] = IF j <= Len(a) THEN a[j] ELSE b[j - Len(a)]
  BY ONLY a \in Seq(Entries), b \in Seq(Entries), ConcatProperties
<1>2. \A j \in 1..Len(D) : l[dir][D[j]] = IF j = Len(D) THEN h ELSE D[j + 1]
  <2>1. Leads(l, dir, h, D)
    OBVIOUS
  <2> HIDE DEF D
  <2> QED
    BY <2>1, LedFrom
<1>3. Len(b) <= Cardinality(Cells)
  <2>1. Inj(b)
    BY <1>0, InjConcat
  <2>2. b \in Seq(Cells)
    BY DEF Cells
  <2> QED
    BY <2>1, <2>2, InjShort
<1> HIDE DEF D
<1>4. ASSUME NEW i \in 1..Len(b)
      PROVE  /\ b[i] # h /\ b[i] # Null
             /\ l[dir][b[i]] = IF i = Len(b) THEN h ELSE b[i + 1]
  <2>1. b[i] # h /\ b[i] # Null
    BY <1>0, CellsAssumption DEF Cells
  <2> DEFINE j == Len(a) + i
  <2>2. /\ j \in 1..Len(a) + Len(b) /\ ~(j <= Len(a)) /\ j - Len(a) = i
        /\ (j = Len(D) <=> i = Len(b))
    BY <1>0, <1>1
  <2>3. i # Len(b) => /\ j + 1 \in 1..Len(a) + Len(b) /\ ~(j + 1 <= Len(a))
                      /\ (j + 1) - Len(a) = i + 1
    BY <1>0
  <2> HIDE DEF j
  <2>4. D[j] = b[i] /\ (i # Len(b) => D[j + 1] = b[i + 1])
    BY <1>1, <2>2, <2>3
  <2>5. l[dir][D[j]] = IF j = Len(D) THEN h ELSE D[j + 1]
    BY <1>1, <1>2, <2>2
  <2> QED
    BY <2>1, <2>2, <2>4, <2>5
<1> QED
  BY <1>3, <1>4, WalkIs

-----------------------------------------------------------------------------
(* What lies ahead of a walk.                                              *)

\* D is what the walk w leads through: a is behind it, c was on the list when
\* it began and is still to be visited, d came onto the list later.
Ahead(D, w, a, c, d) ==
    /\ a \in Seq(Entries) /\ c \in Seq(Entries) /\ d \in Seq(Entries)
    /\ D = a \o (c \o d)
    /\ w.n = First(c \o d, w.head)
    /\ c = RemoveFirst(w.todo, w.pos)
    /\ ~Contains(c, w.pos)
    /\ w.n # w.pos \/ w.n = w.head

\* Some parts are as Ahead wants them.
OnWay(D, w) == \E a, c, d : Ahead(D, w, a, c, d)

\* The first of a sequence that begins with e.
LEMMA FirstIs ==
    ASSUME NEW S, NEW e \in S, NEW t \in Seq(S), NEW h
    PROVE  First(<<e>> \o t, h) = e
<1>1. Len(<<e>> \o t) = 1 + Len(t) /\ (<<e>> \o t)[1] = e /\ <<e>> \o t \in Seq(S)
  OBVIOUS
<1>2. <<e>> \o t # <<>>
  BY <1>1, EmptySeq
<1> QED
  BY <1>1, <1>2 DEF First

\* The first of two sequences.
LEMMA FirstOf ==
    ASSUME NEW S, NEW s \in Seq(S), NEW t \in Seq(S), NEW h
    PROVE  /\ s # <<>> => First(s \o t, h) = First(s, h)
           /\ s \o t = <<>> => s = <<>> /\ t = <<>>
<1>1. /\ Len(s) \in Nat /\ Len(t) \in Nat /\ (s = <<>> <=> Len(s) = 0)
      /\ (t = <<>> <=> Len(t) = 0)
  BY EmptySeq
<1> DEFINE u == s \o t
<1>2. /\ u \in Seq(S) /\ Len(u) = Len(s) + Len(t)
      /\ \A i \in 1..Len(s) + Len(t) : u[i] = IF i <= Len(s) THEN s[i] ELSE t[i - Len(s)]
  BY ONLY s \in Seq(S), t \in Seq(S), ConcatProperties
<1> HIDE DEF u
<1>3. u = <<>> <=> Len(u) = 0
  BY <1>2, EmptySeq
<1>4. s # <<>> => First(u, h) = First(s, h)
  <2> SUFFICES ASSUME s # <<>> PROVE First(u, h) = First(s, h)
    OBVIOUS
  <2>1. u # <<>> /\ 1 \in 1..Len(s) + Len(t) /\ 1 <= Len(s)
    BY <1>1, <1>2, <1>3
  <2> QED
    BY <1>2, <2>1 DEF First
<1>5. u = <<>> => s = <<>> /\ t = <<>>
  BY <1>1, <1>2, <1>3
<1> QED
  BY <1>4, <1>5 DEF u

\* An entry that comes to the beginning of the way is behind the walk.
LEMMA AheadFront ==
    ASSUME NEW D, NEW w, OnWay(D, w), NEW e \in Entries
    PROVE  OnWay(<<e>> \o D, w)
<1>1. PICK a, c, d : Ahead(D, w, a, c, d)
  BY DEF OnWay
<1>2. a \in Seq(Entries) /\ c \in Seq(Entries) /\ d \in Seq(Entries) /\ D = a \o (c \o d)
  BY <1>1 DEF Ahead
<1>3. <<e>> \in Seq(Entries) /\ <<e>> \o a \in Seq(Entries) /\ c \o d \in Seq(Entries)
  BY <1>2
<1>4. (<<e>> \o a) \o (c \o d) = <<e>> \o (a \o (c \o d))
  BY <1>2, <1>3, ConcatAssociative
<1>5. <<e>> \o D = (<<e>> \o a) \o (c \o d)
  BY <1>2, <1>4, Zenon
<1>6. Ahead(<<e>> \o D, w, <<e>> \o a, c, d)
  BY <1>1, <1>3, <1>5, Zenon DEF Ahead
<1> QED
  BY <1>6 DEF OnWay

\* An entry that comes to its end is ahead, or behind a walk that is through.
LEMMA AheadBack ==
    ASSUME NEW D, NEW w, OnWay(D, w), NEW e \in Entries
    PROVE  OnWay(D \o <<e>>, w)
<1>1. PICK a, c, d : Ahead(D, w, a, c, d)
  BY DEF OnWay
<1>2. a \in Seq(Entries) /\ c \in Seq(Entries) /\ d \in Seq(Entries) /\ D = a \o (c \o d)
  BY <1>1 DEF Ahead
<1>3. /\ <<e>> \in Seq(Entries) /\ a \o <<e>> \in Seq(Entries) /\ d \o <<e>> \in Seq(Entries)
      /\ c \o d \in Seq(Entries)
  BY <1>2
<1>4. (a \o (c \o d)) \o <<e>> = a \o ((c \o d) \o <<e>>)
  BY <1>2, <1>3, ConcatAssociative
<1>5. (c \o d) \o <<e>> = c \o (d \o <<e>>)
  BY <1>2, <1>3, ConcatAssociative
<1>6. CASE c \o d # <<>>
  <2>1. First((c \o d) \o <<e>>, w.head) = First(c \o d, w.head)
    <3> DEFINE t == c \o d
               u == <<e>>
               h == w.head
    <3>1. t \in Seq(Entries) /\ u \in Seq(Entries) /\ t # <<>>
      BY <1>3, <1>6
    <3> HIDE DEF t, u, h
    <3>2. First(t \o u, h) = First(t, h)
      BY <3>1, FirstOf
    <3> QED
      BY <3>2 DEF t, u, h
  <2>2. D \o <<e>> = a \o (c \o (d \o <<e>>))
    BY <1>2, <1>4, <1>5, Zenon
  <2>3. w.n = First(c \o (d \o <<e>>), w.head)
    BY <1>1, <1>5, <2>1, Zenon DEF Ahead
  <2>4. Ahead(D \o <<e>>, w, a, c, d \o <<e>>)
    BY <1>1, <1>3, <2>2, <2>3, Zenon DEF Ahead
  <2> QED
    BY <2>4 DEF OnWay
<1>7. CASE c \o d = <<>>
  <2>1. a \o <<>> = a /\ (a \o <<e>>) \o <<>> = a \o <<e>>
    BY <1>2, <1>3, ConcatEmptySeq
  <2>2. D \o <<e>> = (a \o <<e>>) \o (c \o d)
    BY <1>2, <1>7, <2>1, Zenon
  <2>3. Ahead(D \o <<e>>, w, a \o <<e>>, c, d)
    BY <1>1, <1>3, <2>2, Zenon DEF Ahead
  <2> QED
    BY <2>3 DEF OnWay
<1> QED
  BY <1>6, <1>7

\* The body may take its own entry off.
LEMMA AheadWithout ==
    ASSUME NEW D, NEW w, OnWay(D, w), Inj(D), w.head \notin Entries, w.pos \in Entries
    PROVE  OnWay(RemoveFirst(D, w.pos), w)
<1> DEFINE e == w.pos
<1>1. PICK a, c, d : Ahead(D, w, a, c, d)
  BY DEF OnWay
<1>2. /\ a \in Seq(Entries) /\ c \in Seq(Entries) /\ d \in Seq(Entries) /\ D = a \o (c \o d)
      /\ w.n = First(c \o d, w.head) /\ ~Contains(c, e) /\ (w.n # e \/ w.n = w.head)
      /\ e \in Entries
  BY <1>1 DEF Ahead
<1>3. c \o d \in Seq(Entries) /\ <<e>> \in Seq(Entries)
  BY <1>2
<1>4. CASE ~Contains(D, e)
  BY <1>1, <1>4, RemoveNone DEF OnWay
<1>5. CASE Contains(a, e)
  <2>1. PICK p, q : Parted(Entries, a, p, e, q)
    BY <1>2, <1>5, SplitAt
  <2> DEFINE t == c \o d
  <2>2. p \in Seq(Entries) /\ q \in Seq(Entries) /\ a = p \o (<<e>> \o q) /\ t \in Seq(Entries)
    BY <1>3, <2>1 DEF Parted
  <2>3. <<e>> \o q \in Seq(Entries) /\ q \o t \in Seq(Entries) /\ p \o q \in Seq(Entries)
    BY <1>3, <2>2
  <2> HIDE DEF e, t
  <2>4. /\ (p \o (<<e>> \o q)) \o t = p \o ((<<e>> \o q) \o t)
        /\ (<<e>> \o q) \o t = <<e>> \o (q \o t)
        /\ (p \o q) \o t = p \o (q \o t)
    <3>1. (<<e>> \o q) \o t = <<e>> \o (q \o t)
      BY <1>3, <2>2, ConcatAssociative
    <3>2. (p \o q) \o t = p \o (q \o t)
      BY <2>2, ConcatAssociative
    <3> DEFINE x == <<e>> \o q
    <3>3. x \in Seq(Entries)
      BY <2>3
    <3> HIDE DEF x
    <3>4. (p \o x) \o t = p \o (x \o t)
      BY <2>2, <3>3, ConcatAssociative
    <3> QED
      BY <3>1, <3>2, <3>4, Zenon DEF x
  <2>5. D = p \o (<<e>> \o (q \o t))
    BY <1>2, <2>2, <2>4, Zenon DEF t
  <2>6. RemoveFirst(p \o (<<e>> \o (q \o t)), e) = p \o (q \o t)
    <3>1. Inj(p \o (<<e>> \o (q \o t)))
      BY <2>5, Zenon
    <3> QED
      BY <1>2, <2>2, <2>3, <3>1, RemoveAround
  <2>7. RemoveFirst(D, e) = (p \o q) \o (c \o d)
    BY <2>4, <2>5, <2>6, Zenon DEF t
  <2>8. Ahead(RemoveFirst(D, e), w, p \o q, c, d)
    BY <1>1, <2>3, <2>7, Zenon DEF Ahead
  <2> QED
    BY <2>8 DEF OnWay, e
<1>6. CASE Contains(d, e)
  <2>1. PICK p, q : Parted(Entries, d, p, e, q)
    BY <1>2, <1>6, SplitAt
  <2> DEFINE x == <<e>> \o q
             u == c \o p
  <2>2. p \in Seq(Entries) /\ q \in Seq(Entries) /\ d = p \o x
    BY <2>1 DEF Parted
  <2>3. /\ x \in Seq(Entries) /\ u \in Seq(Entries) /\ p \o q \in Seq(Entries)
        /\ a \o u \in Seq(Entries)
    BY <1>2, <1>3, <2>2
  <2>4. First(x, w.head) = e
    BY <1>3, <2>2, FirstIs, Zenon
  <2> HIDE DEF e, x
  <2>5. c \o (p \o x) = u \o x /\ c \o (p \o q) = u \o q
    <3>0. c \in Seq(Entries) /\ p \in Seq(Entries) /\ x \in Seq(Entries) /\ q \in Seq(Entries)
      BY <1>2, <2>2, <2>3
    <3>1. (c \o p) \o x = c \o (p \o x)
      BY ONLY <3>0, ConcatAssociative
    <3>2. (c \o p) \o q = c \o (p \o q)
      BY ONLY <3>0, ConcatAssociative
    <3> QED
      BY <3>1, <3>2, Zenon
  <2>6. u = <<>> => c = <<>> /\ p = <<>>
    BY <1>2, <2>2, FirstOf
  <2>7. /\ u # <<>> => First(u \o x, w.head) = First(u, w.head)
        /\ u # <<>> => First(u \o q, w.head) = First(u, w.head)
        /\ <<>> \o x = x
    <3> HIDE DEF u
    <3> QED
      BY <2>2, <2>3, FirstOf, ConcatEmptySeq
  <2> HIDE DEF u
  <2>8. a \o (u \o x) = (a \o u) \o x /\ a \o (u \o q) = (a \o u) \o q
    <3>0. a \in Seq(Entries) /\ u \in Seq(Entries) /\ x \in Seq(Entries) /\ q \in Seq(Entries)
      BY <1>2, <2>2, <2>3
    <3>1. (a \o u) \o x = a \o (u \o x)
      BY ONLY <3>0, ConcatAssociative
    <3>2. (a \o u) \o q = a \o (u \o q)
      BY ONLY <3>0, ConcatAssociative
    <3> QED
      BY <3>1, <3>2, Zenon
  <2>9. c \o d = u \o x /\ D = (a \o u) \o x
    BY <1>2, <2>2, <2>5, <2>8, Zenon
  <2>10. u # <<>>
    <3> SUFFICES ASSUME u = <<>> PROVE FALSE
      OBVIOUS
    <3>1. u \o x = x
      BY <2>7, Zenon
    <3>2. w.n = e
      BY <1>2, <2>4, <2>9, <3>1, Zenon
    <3> QED
      BY <1>2, <3>2
  <2>11. w.n = First(c \o (p \o q), w.head)
    BY <1>2, <2>5, <2>7, <2>9, <2>10, Zenon
  <2>12. RemoveFirst((a \o u) \o (<<e>> \o q), e) = (a \o u) \o q
    <3>1. Inj((a \o u) \o (<<e>> \o q))
      BY <2>9, Zenon DEF x
    <3> QED
      BY <1>2, <2>2, <2>3, <3>1, RemoveAround
  <2>13. RemoveFirst(D, e) = a \o (c \o (p \o q))
    BY <2>5, <2>8, <2>9, <2>12, Zenon DEF x
  <2>14. Ahead(RemoveFirst(D, e), w, a, c, p \o q)
    BY <1>1, <2>3, <2>11, <2>13, Zenon DEF Ahead
  <2> QED
    BY <2>14 DEF OnWay, e
<1>7. Contains(D, e) => Contains(a, e) \/ Contains(d, e)
  <2> HIDE DEF e
  <2>1. Contains(a \o (c \o d), e) <=> Contains(a, e) \/ Contains(c \o d, e)
    BY <1>2, <1>3, ContainsConcat
  <2>2. Contains(c \o d, e) <=> Contains(c, e) \/ Contains(d, e)
    BY <1>2, ContainsConcat
  <2> QED
    BY <1>2, <2>1, <2>2
<1> QED
  BY <1>4, <1>5, <1>6, <1>7

\* The first of a sequence taken off.
LEMMA FirstRemoved ==
    ASSUME NEW S, NEW b \in Seq(S), NEW e \in S, Inj(<<e>> \o b)
    PROVE  RemoveFirst(<<e>> \o b, e) = b /\ ~Contains(b, e)
<1> DEFINE t == <<e>> \o b
<1>1. <<>> \in Seq(S) /\ t \in Seq(S)
  BY EmptySeq
<1>2. <<>> \o t = t /\ <<>> \o b = b
  BY <1>1, ConcatEmptySeq
<1>3. Inj(<<>> \o (<<e>> \o b))
  BY <1>2, Zenon
<1>4. RemoveFirst(<<>> \o (<<e>> \o b), e) = <<>> \o b
  BY <1>1, <1>3, RemoveAround
<1>5. ~Contains(<<>> \o b, e)
  BY <1>1, <1>3, InjAround
<1> QED
  BY <1>2, <1>4, <1>5, Zenon

\* Where a walk stands that goes on to the entry e.
Passed(l, dir, h, D, a, e, b) ==
    /\ a \o <<e>> \in Seq(Entries)
    /\ D = (a \o <<e>>) \o b
    /\ l[dir][e] = First(b, h)
    /\ First(b, h) # e \/ First(b, h) = h

\* A walk that goes on to e reads the entry behind it, which is another one.
LEMMA EntryPassed ==
    ASSUME NEW l, NEW dir, NEW h, NEW D, NEW a, NEW b, NEW e \in Entries,
           Leads(l, dir, h, D), Parted(Entries, D, a, e, b)
    PROVE  Passed(l, dir, h, D, a, e, b)
<1>0. a \in Seq(Entries) /\ b \in Seq(Entries) /\ D = a \o (<<e>> \o b)
  BY DEF Parted
<1>1. <<e>> \in Seq(Entries) /\ a \o <<e>> \in Seq(Entries)
  BY <1>0
<1>2. a \o (<<e>> \o b) = (a \o <<e>>) \o b
  BY <1>0, <1>1, ConcatAssociative
<1>3. Leads(l, dir, h, a \o (<<e>> \o b)) /\ Inj(a \o (<<e>> \o b))
  BY <1>0, Zenon DEF Leads
<1>4. l[dir][e] = First(b, h)
  BY <1>0, <1>3, LedOn
<1>5. First(b, h) = h \/ Contains(b, First(b, h))
  BY <1>0, Place
<1>6. ~Contains(b, e)
  <2>1. ~Contains(a \o b, e)
    BY <1>0, <1>3, InjAround
  <2> QED
    BY <1>0, <2>1, ContainsConcat
<1>7. First(b, h) # e \/ First(b, h) = h
  BY <1>5, <1>6
<1>8. D = (a \o <<e>>) \o b
  BY <1>0, <1>2, Zenon
<1> QED
  BY <1>1, <1>4, <1>7, <1>8 DEF Passed

\* The step of the loop: the walk stands on what was next, and reads the new
\* next from there.
LEMMA AheadNext ==
    ASSUME NEW l, NEW dir, NEW D, NEW w, OnWay(D, w), Leads(l, dir, w.head, D),
           NEW x, x.head = w.head, x.pos = w.n, x.n = l[dir][w.n],
           x.todo = RemoveFirst(w.todo, w.pos)
    PROVE  OnWay(D, x)
<1> DEFINE h == w.head
           n == w.n
<1>1. PICK a, c, d : Ahead(D, w, a, c, d)
  BY DEF OnWay
<1>2. /\ a \in Seq(Entries) /\ c \in Seq(Entries) /\ d \in Seq(Entries) /\ D = a \o (c \o d)
      /\ n = First(c \o d, h) /\ x.todo = c
  BY <1>1 DEF Ahead
<1>3. /\ c \o d \in Seq(Entries) /\ <<>> \in Seq(Entries) /\ \A e : ~Contains(<<>>, e)
  BY <1>2, EmptySeq DEF Contains
<1>4. /\ Inj(D) /\ D \in Seq(Entries) /\ Leads(l, dir, h, D)
  BY DEF Leads
<1> HIDE DEF h, n
<1>5. x.head = h /\ x.pos = n /\ x.n = l[dir][n]
  BY DEF h, n
<1>6. CASE c # <<>>
  <2>1. PICK b \in Seq(Entries) : c = <<c[1]>> \o b
    BY <1>2, <1>6, SplitFirst
  <2>2. c[1] \in Entries /\ First(c, h) = c[1]
    BY <1>2, <1>6, EmptySeq DEF First
  <2>3. n = c[1]
    <3>1. First(c \o d, h) = First(c, h)
      BY <1>2, <1>6, FirstOf
    <3> QED
      BY <1>2, <2>2, <3>1, Zenon
  <2>4. c = <<n>> \o b /\ n \in Entries
    BY <2>1, <2>2, <2>3, Zenon
  <2> DEFINE t == b \o d
  <2>5. t \in Seq(Entries)
    BY <1>2
  <2>6. (<<n>> \o b) \o d = <<n>> \o t
    <3>1. <<n>> \in Seq(Entries)
      BY <2>4
    <3> QED
      BY <1>2, <3>1, ConcatAssociative
  <2> HIDE DEF t
  <2>7. Parted(Entries, D, a, n, t)
    BY <1>2, <2>4, <2>5, <2>6, Zenon DEF Parted
  <2>8. /\ a \o <<n>> \in Seq(Entries) /\ D = (a \o <<n>>) \o t
        /\ l[dir][n] = First(t, h)
        /\ First(t, h) # n \/ First(t, h) = h
    <3>1. Passed(l, dir, h, D, a, n, t)
      BY <1>4, <2>4, <2>7, EntryPassed
    <3> QED
      BY <3>1, Zenon DEF Passed
  <2>9. RemoveFirst(c, n) = b /\ ~Contains(b, n)
    <3>1. Inj(c)
      <4>1. Inj(a \o (c \o d))
        BY <1>2, <1>4, Zenon
      <4>2. Inj(c \o d)
        BY <1>2, <1>3, <4>1, InjConcat
      <4> QED
        BY <1>2, <4>2, InjConcat
    <3>2. Inj(<<n>> \o b)
      BY <2>4, <3>1, Zenon
    <3>3. RemoveFirst(<<n>> \o b, n) = b /\ ~Contains(b, n)
      BY <2>4, <3>2, FirstRemoved
    <3> QED
      BY <2>4, <3>3, Zenon
  <2>10. D = (a \o <<n>>) \o (b \o d) /\ x.n = First(b \o d, x.head)
    BY <1>5, <2>8, Zenon DEF t
  <2>11. b = RemoveFirst(x.todo, x.pos) /\ ~Contains(b, x.pos) /\ (x.n # x.pos \/ x.n = x.head)
    BY <1>2, <1>5, <2>8, <2>9, Zenon
  <2>12. Ahead(D, x, a \o <<n>>, b, d)
    BY <1>2, <2>8, <2>10, <2>11, Zenon DEF Ahead
  <2> QED
    BY <2>12 DEF OnWay
<1>7. CASE c = <<>> /\ d # <<>>
  <2>1. PICK b \in Seq(Entries) : d = <<d[1]>> \o b
    BY <1>2, <1>7, SplitFirst
  <2>2. d[1] \in Entries /\ First(d, h) = d[1]
    BY <1>2, <1>7, EmptySeq DEF First
  <2>3. c \o d = d /\ <<>> \o b = b
    BY <1>2, <1>7, <2>1, ConcatEmptySeq
  <2>4. d = <<n>> \o b /\ n \in Entries
    BY <1>2, <2>1, <2>2, <2>3, Zenon
  <2>5. Parted(Entries, D, a, n, b)
    BY <1>2, <2>1, <2>3, <2>4, Zenon DEF Parted
  <2>6. /\ a \o <<n>> \in Seq(Entries) /\ D = (a \o <<n>>) \o b
        /\ l[dir][n] = First(b, h)
        /\ First(b, h) # n \/ First(b, h) = h
    <3>1. Passed(l, dir, h, D, a, n, b)
      BY <1>4, <2>4, <2>5, EntryPassed
    <3> QED
      BY <3>1, Zenon DEF Passed
  <2>7. D = (a \o <<n>>) \o (<<>> \o b) /\ x.n = First(<<>> \o b, x.head)
    BY <1>5, <2>3, <2>6, Zenon
  <2>8. RemoveFirst(<<>>, n) = <<>>
    BY <1>3, RemoveNone
  <2>9. <<>> = RemoveFirst(x.todo, x.pos) /\ ~Contains(<<>>, x.pos) /\ (x.n # x.pos \/ x.n = x.head)
    BY <1>2, <1>3, <1>5, <1>7, <2>6, <2>8, Zenon
  <2>10. Ahead(D, x, a \o <<n>>, <<>>, b)
    BY <1>3, <2>1, <2>6, <2>7, <2>9, Zenon DEF Ahead
  <2> QED
    BY <2>10 DEF OnWay
<1>8. CASE c = <<>> /\ d = <<>>
  <2>1. c \o d = <<>>
    BY <1>2, <1>8, ConcatEmptySeq
  <2>2. n = h
    BY <1>2, <2>1 DEF First
  <2>3. l[dir][h] = First(D, h)
    BY LedFrom DEF h
  <2>4. <<>> \o (<<>> \o D) = D /\ <<>> \o D = D
    BY <1>4, ConcatEmptySeq
  <2>5. D = <<>> \o (<<>> \o D) /\ x.n = First(<<>> \o D, x.head)
    BY <1>5, <2>2, <2>3, <2>4, Zenon
  <2>6. x.n # x.pos \/ x.n = x.head
    BY <1>5, <2>2
  <2>7. RemoveFirst(<<>>, n) = <<>>
    BY <1>3, RemoveNone
  <2>8. <<>> = RemoveFirst(x.todo, x.pos) /\ ~Contains(<<>>, x.pos)
    BY <1>2, <1>3, <1>5, <1>8, <2>7, Zenon
  <2>9. Ahead(D, x, <<>>, <<>>, D)
    BY <1>3, <1>4, <2>5, <2>6, <2>8, Zenon DEF Ahead
  <2> QED
    BY <2>9 DEF OnWay
<1> QED
  BY <1>6, <1>7, <1>8

\* The beginning of a loop, at the head or behind an entry.
LEMMA AheadBegin ==
    ASSUME NEW l, NEW dir, NEW h, NEW D, Leads(l, dir, h, D),
           NEW from, from = h \/ Contains(D, from),
           NEW x, x.head = h, x.pos = l[dir][from], x.n = l[dir][x.pos],
           x.todo = From(l, dir, x.pos, h)
    PROVE  OnWay(D, x)
<1>1. /\ Inj(D) /\ D \in Seq(Entries) /\ <<>> \in Seq(Entries) /\ <<>> \o D = D
      /\ \A e : ~Contains(<<>>, e)
  BY EmptySeq, ConcatEmptySeq DEF Leads, Contains
<1>2. \E a, t \in Seq(Entries) : D = a \o t /\ x.pos = First(t, h)
  <2>1. CASE from = h
    <3>1. l[dir][h] = First(D, h)
      BY LedFrom
    <3> QED
      BY <1>1, <2>1, <3>1, Zenon
  <2>2. CASE Contains(D, from)
    <3>1. PICK p, q : Parted(Entries, D, p, from, q)
      BY <1>1, <2>2, SplitAt
    <3>2. p \in Seq(Entries) /\ q \in Seq(Entries) /\ D = p \o (<<from>> \o q)
      BY <3>1 DEF Parted
    <3>3. from \in Entries
      BY <1>1, <2>2 DEF Contains
    <3>4. Passed(l, dir, h, D, p, from, q)
      BY <3>1, <3>3, EntryPassed
    <3> QED
      BY <3>2, <3>4, Zenon DEF Passed
  <2> QED
    BY <2>1, <2>2
<1>3. PICK a \in Seq(Entries), t \in Seq(Entries) : D = a \o t /\ x.pos = First(t, h)
  BY <1>2, Zenon
<1>4. x.todo = t
  <2>1. Leads(l, dir, h, a \o t)
    BY <1>3, Zenon
  <2>2. From(l, dir, First(t, h), h) = t
    BY <2>1, LedWalk
  <2> QED
    BY <1>3, <2>2, Zenon
<1>5. CASE t = <<>>
  <2>1. x.pos = h
    BY <1>3, <1>5 DEF First
  <2>2. x.n = First(D, h)
    BY <2>1, LedFrom
  <2>3. RemoveFirst(<<>>, h) = <<>>
    BY <1>1, RemoveNone
  <2>4. D = <<>> \o (<<>> \o D) /\ x.n = First(<<>> \o D, x.head)
    BY <1>1, <2>2, Zenon
  <2>5. x.n # x.pos \/ x.n = x.head
    BY <2>1
  <2>6. <<>> = RemoveFirst(x.todo, x.pos) /\ ~Contains(<<>>, x.pos)
    BY <1>1, <1>4, <1>5, <2>1, <2>3, Zenon
  <2>7. Ahead(D, x, <<>>, <<>>, D)
    BY <1>1, <2>4, <2>5, <2>6, Zenon DEF Ahead
  <2> QED
    BY <2>7 DEF OnWay
<1>6. CASE t # <<>>
  <2> DEFINE e == t[1]
  <2>1. PICK b \in Seq(Entries) : t = <<t[1]>> \o b
    BY <1>6, SplitFirst
  <2>2. e \in Entries /\ x.pos = e
    BY <1>3, <1>6, EmptySeq DEF First
  <2>3. t = <<e>> \o b
    BY <2>1
  <2> HIDE DEF e
  <2>5. Parted(Entries, D, a, e, b)
    BY <1>3, <2>1, <2>3, Zenon DEF Parted
  <2>6. /\ a \o <<e>> \in Seq(Entries) /\ D = (a \o <<e>>) \o b
        /\ l[dir][e] = First(b, h)
        /\ First(b, h) # e \/ First(b, h) = h
    <3>1. Passed(l, dir, h, D, a, e, b)
      BY <2>2, <2>5, EntryPassed
    <3> QED
      BY <3>1, Zenon DEF Passed
  <2>7. RemoveFirst(t, e) = b /\ ~Contains(b, e)
    <3>1. Inj(a \o t)
      BY <1>1, <1>3, Zenon
    <3>2. Inj(t)
      BY <3>1, InjConcat
    <3>3. Inj(<<e>> \o b)
      BY <2>3, <3>2, Zenon
    <3>4. RemoveFirst(<<e>> \o b, e) = b /\ ~Contains(b, e)
      BY <2>1, <2>2, <3>3, FirstRemoved
    <3> QED
      BY <2>3, <3>4, Zenon
  <2>8. b \o <<>> = b
    BY <2>1, ConcatEmptySeq
  <2>9. D = (a \o <<e>>) \o (b \o <<>>) /\ x.n = First(b \o <<>>, x.head)
    BY <2>2, <2>6, <2>8, Zenon
  <2>10. b = RemoveFirst(x.todo, x.pos) /\ ~Contains(b, x.pos) /\ (x.n # x.pos \/ x.n = x.head)
    BY <1>4, <2>2, <2>6, <2>7, Zenon
  <2>11. Ahead(D, x, a \o <<e>>, b, <<>>)
    BY <1>1, <2>1, <2>6, <2>9, <2>10, Zenon DEF Ahead
  <2> QED
    BY <2>11 DEF OnWay
<1> QED
  BY <1>5, <1>6

\* A walk is on its way through the list, and knows what comes next.
WalkInv == Walking =>
    /\ walk = [head |-> walk.head, dir |-> walk.dir, pos |-> walk.pos, n |-> walk.n,
               todo |-> walk.todo]
    /\ walk.head \in Lists \cap ring /\ walk.dir \in Dirs
    /\ OnWay(Way(walk.dir, View[walk.head]), walk)

Loop(h, dir, pos, n, todo) ==
    [head |-> h, dir |-> dir, pos |-> pos, n |-> n, todo |-> todo]

LoopStep(w, pos, n, todo) == [w EXCEPT !.pos = pos, !.n = n, !.todo = todo]

\* What the step of a loop does to its variables.
LEMMA LoopChange ==
    ASSUME NEW h, NEW dir, NEW pos, NEW n, NEW todo, NEW p, NEW m, NEW t
    PROVE  LoopStep(Loop(h, dir, pos, n, todo), p, m, t) = Loop(h, dir, p, m, t)
<1> DEFINE w == Loop(h, dir, pos, n, todo)
           x == Loop(h, dir, p, n, todo)
           y == Loop(h, dir, p, m, todo)
           z == Loop(h, dir, p, m, t)
<1>1. [w EXCEPT !.pos = p] = x
  BY DEF Loop
<1>2. [x EXCEPT !.n = m] = y
  BY DEF Loop
<1>3. [y EXCEPT !.todo = t] = z
  BY DEF Loop
<1> HIDE DEF w, x, y, z
<1>4. [w EXCEPT !.pos = p, !.n = m, !.todo = t]
      = [[[w EXCEPT !.pos = p] EXCEPT !.n = m] EXCEPT !.todo = t]
  OBVIOUS
<1>5. [w EXCEPT !.pos = p, !.n = m, !.todo = t] = z
  BY <1>1, <1>2, <1>3, <1>4, Zenon
<1> QED
  BY <1>5 DEF w, z, LoopStep

\* The first of two sequences is a prefix of both.
LEMMA PrefixOf ==
    ASSUME NEW S, NEW c \in Seq(S), NEW d \in Seq(S)
    PROVE  IsPrefix(c, c \o d)
<1> DEFINE u == c \o d
<1>1. Len(c) \in Nat /\ Len(d) \in Nat
  OBVIOUS
<1>2. /\ u \in Seq(S) /\ Len(u) = Len(c) + Len(d)
      /\ \A i \in 1..Len(c) + Len(d) : u[i] = IF i <= Len(c) THEN c[i] ELSE d[i - Len(c)]
  BY ONLY c \in Seq(S), d \in Seq(S), ConcatProperties
<1> HIDE DEF u
<1>3. Len(c) <= Len(u)
  BY <1>1, <1>2
<1>4. SubSeq(c, 1, Len(c)) = c
  BY <1>1
<1> DEFINE t == SubSeq(u, 1, Len(c))
<1>5. t \in Seq(S) /\ Len(t) = Len(c) /\ \A i \in 1..Len(c) : t[i] = u[i]
  BY <1>1, <1>2
<1> HIDE DEF t
<1>6. t = c
  <2>1. \A i \in 1..Len(t) : t[i] = c[i]
    BY <1>1, <1>2, <1>5
  <2> QED
    BY <1>5, <2>1, SeqEqual
<1>7. SubSeq(c, 1, Len(c)) = SubSeq(u, 1, Len(c))
  BY <1>4, <1>6, Zenon DEF t
<1>8. IsPrefix(c, u)
  BY <1>3, <1>7, Zenon DEF IsPrefix
<1> QED
  BY <1>8 DEF u

\* What a walk knows of its way makes it safe.
LEMMA WalkInvSafe == Sequenced /\ WalkInv => WalkSafe
<1> SUFFICES ASSUME Sequenced, WalkInv, Walking
             PROVE  /\ walk.n \in ring
                    /\ IsPrefix(RemoveFirst(walk.todo, walk.pos),
                                From(links, walk.dir, walk.n, walk.head))
  BY DEF WalkSafe
<1> DEFINE h == walk.head
           dir == walk.dir
           s == View[h]
           D == Way(dir, s)
<1>1. h \in Lists \cap ring /\ dir \in Dirs /\ OnWay(D, walk)
  BY DEF WalkInv
<1>2. PICK a, c, d : Ahead(D, walk, a, c, d)
  BY <1>1 DEF OnWay
<1>3. /\ a \in Seq(Entries) /\ c \in Seq(Entries) /\ d \in Seq(Entries) /\ D = a \o (c \o d)
      /\ walk.n = First(c \o d, h) /\ RemoveFirst(walk.todo, walk.pos) = c
  BY <1>2 DEF Ahead
<1>4. Fits(links, ring, View)
  BY DEF Sequenced
<1> HIDE DEF h, dir
<1>5. Leads(links, dir, h, D)
  BY <1>1, <1>4, ListLeads
<1>6. \A x : Contains(s, x) => x \in ring
  BY <1>1, <1>4, ListFacts
<1>7. \A x : Contains(D, x) <=> Contains(s, x)
  <2>1. s \in Seq(Entries \cap ring)
    BY <1>1, <1>4, ListFacts
  <2>2. s \in Seq(Entries)
    BY <2>1
  <2> HIDE DEF s
  <2> QED
    BY <1>1, <2>2, WayProperties
<1> HIDE DEF D, s
<1> DEFINE t == c \o d
<1>8. t \in Seq(Entries)
  BY <1>3
<1>9. IsPrefix(c, t)
  BY <1>3, PrefixOf
<1> HIDE DEF t
<1>10. From(links, dir, First(t, h), h) = t
  <2>1. Leads(links, dir, h, a \o t)
    BY <1>3, <1>5, Zenon DEF t
  <2> QED
    BY <1>3, <1>8, <2>1, LedWalk
<1>11. walk.n \in ring
  <2>1. First(t, h) = h \/ Contains(t, First(t, h))
    BY <1>8, Place
  <2>2. \A x : Contains(t, x) => Contains(a \o t, x)
    BY <1>3, <1>8, ContainsConcat
  <2>3. D = a \o t /\ walk.n = First(t, h)
    BY <1>3, Zenon DEF t
  <2>4. \A x : Contains(t, x) => Contains(D, x)
    BY <2>2, <2>3, Zenon
  <2> QED
    BY <1>1, <1>6, <1>7, <2>1, <2>3, <2>4
<1> QED
  BY <1>3, <1>9, <1>10, <1>11, Zenon DEF t, h, dir

\* What the body of a loop may do to the list that is walked.
LEMMA WayKept ==
    ASSUME Sequenced, WalkInv, Walking
    PROVE  LET s == View[walk.head]
           IN  /\ walk.pos \in Entries =>
                      OnWay(Way(walk.dir, RemoveFirst(s, walk.pos)), walk)
               /\ \A e \in Entries : /\ OnWay(Way(walk.dir, <<e>> \o s), walk)
                                     /\ OnWay(Way(walk.dir, Append(s, e)), walk)
<1> DEFINE h == walk.head
           dir == walk.dir
           s == View[h]
           D == Way(dir, s)
<1>1. h \in Lists \cap ring /\ dir \in Dirs /\ OnWay(D, walk)
  BY DEF WalkInv
<1>2. s \in Seq(Entries) /\ Inj(s) /\ h \notin Entries
  <2>1. s \in Seq(Entries \cap ring) /\ Inj(s) /\ h \notin Entries
    BY <1>1, ListFacts DEF Sequenced
  <2> QED
    BY <2>1
<1> HIDE DEF dir, s
<1>3. Inj(D)
  BY <1>1, <1>2, WayProperties
<1>4. ASSUME walk.pos \in Entries PROVE OnWay(Way(dir, RemoveFirst(s, walk.pos)), walk)
  <2>1. Way(dir, RemoveFirst(s, walk.pos)) = RemoveFirst(D, walk.pos)
    BY <1>1, <1>2, <1>4, WayRemoved
  <2>2. OnWay(RemoveFirst(D, walk.pos), walk)
    BY <1>1, <1>2, <1>3, <1>4, AheadWithout
  <2> QED
    BY <2>1, <2>2, Zenon
<1>5. ASSUME NEW e \in Entries
      PROVE  OnWay(Way(dir, <<e>> \o s), walk) /\ OnWay(Way(dir, Append(s, e)), walk)
  <2>1. /\ Way(dir, <<e>> \o s) \in {<<e>> \o D, D \o <<e>>}
        /\ Way(dir, Append(s, e)) \in {<<e>> \o D, D \o <<e>>}
    BY <1>1, <1>2, WayAdded
  <2>2. OnWay(<<e>> \o D, walk)
    BY <1>1, AheadFront
  <2>3. OnWay(D \o <<e>>, walk)
    BY <1>1, AheadBack
  <2> HIDE DEF D
  <2> QED
    BY <2>1, <2>2, <2>3, Zenon
<1> QED
  BY <1>4, <1>5 DEF s, dir, h

\* The invariant after a step of the body, from the list it leaves.
LEMMA WalkInvNext ==
    ASSUME WalkInv, Walking, walk' = walk, walk.head \in ring',
           NEW t, View'[walk.head] = t, OnWay(Way(walk.dir, t), walk)
    PROVE  WalkInv'
<1>1. /\ walk = [head |-> walk.head, dir |-> walk.dir, pos |-> walk.pos, n |-> walk.n,
               todo |-> walk.todo]
      /\ walk.head \in Lists /\ walk.dir \in Dirs
  BY DEF WalkInv
<1>2. OnWay(Way(walk.dir, View'[walk.head]), walk)
  BY Zenon
<1>3. OnWay(Way(walk'.dir, View'[walk'.head]), walk')
  BY <1>2, Zenon
<1>4. /\ walk' = [head |-> walk'.head, dir |-> walk'.dir, pos |-> walk'.pos, n |-> walk'.n,
                  todo |-> walk'.todo]
      /\ walk'.head \in Lists \cap ring' /\ walk'.dir \in Dirs
  BY <1>1, Zenon
<1> QED
  BY <1>3, <1>4, Zenon DEF WalkInv

\* What happens while no loop runs.
LEMMA NoWalk == ~Walking' => WalkInv'
BY DEF WalkInv

\* Every step keeps what the walk knows.
LEMMA WalkInvKept == Sequenced /\ WalkInv /\ [Next]_vars => WalkInv'
<1> SUFFICES ASSUME Sequenced, WalkInv, [Next]_vars PROVE WalkInv'
  OBVIOUS
<1> DEFINE v == View
           k == walk.head
<1>0. Fits(links, ring, v) /\ SequenceStep /\ v \in [Lists -> Seq(Entries \cup {Null})]
  BY SequencedActs DEF Sequenced, Fits
<1>00. Walking => k \in Lists \cap ring /\ k \notin Entries
  BY CellsAssumption DEF WalkInv
<1> HIDE DEF v
<1>1. ASSUME walk' = walk, ~Walking PROVE WalkInv'
  BY <1>1, NoWalk DEF Walking
<1>2. ASSUME NEW e \in Entries, ListDel(e) \/ ListDelInit(e) PROVE WalkInv'
  <2>1. /\ walk' = walk /\ (Walking => e = walk.pos) /\ (k \in ring /\ k \notin Entries => k \in ring')
    BY <1>2 DEF ListDel, ListDelInit, MayTake
  <2>2. CASE Walking
    <3>1. View' = Without(v, e)
      BY <1>0, <1>2 DEF SequenceStep, v
    <3>2. View'[k] = RemoveFirst(v[k], walk.pos)
      BY <1>00, <2>1, <2>2, <3>1 DEF Without
    <3>3. OnWay(Way(walk.dir, RemoveFirst(v[k], walk.pos)), walk)
      BY <2>1, <2>2, WayKept DEF v
    <3>4. k \in ring'
      BY <1>00, <2>1, <2>2
    <3> QED
      BY <2>1, <2>2, <3>2, <3>3, <3>4, WalkInvNext
  <2> QED
    BY <1>1, <2>1, <2>2
<1>3. ASSUME NEW e \in Entries, NEW h \in Lists, ListAdd(e, h) \/ ListAddTail(e, h)
      PROVE  WalkInv'
  <2>1. walk' = walk /\ (k \in ring => k \in ring')
    BY <1>3 DEF ListAdd, ListAddTail
  <2>2. CASE Walking
    <3>1. View' \in {[v EXCEPT ![h] = <<e>> \o @], [v EXCEPT ![h] = Append(@, e)]}
      BY <1>0, <1>3 DEF SequenceStep, v
    <3>2. View'[k] \in {v[k], <<e>> \o v[k], Append(v[k], e)}
      BY <1>0, <1>00, <2>2, <3>1
    <3>3. \A t \in {v[k], <<e>> \o v[k], Append(v[k], e)} : OnWay(Way(walk.dir, t), walk)
      <4>1. OnWay(Way(walk.dir, v[k]), walk)
        BY <2>2 DEF WalkInv, v
      <4>2. OnWay(Way(walk.dir, <<e>> \o v[k]), walk) /\ OnWay(Way(walk.dir, Append(v[k], e)), walk)
        BY <2>2, WayKept DEF v
      <4> QED
        BY <4>1, <4>2, Zenon
    <3>4. OnWay(Way(walk.dir, View'[k]), walk)
      BY <3>2, <3>3, Zenon
    <3>5. k \in ring'
      BY <1>00, <2>1, <2>2
    <3> QED
      BY <2>1, <2>2, <3>4, <3>5, WalkInvNext
  <2> QED
    BY <1>1, <2>1, <2>2
<1>4. ASSUME NEW e \in Entries, NEW h \in Lists, ListMove(e, h) \/ ListMoveTail(e, h)
      PROVE  WalkInv'
  <2>1. walk' = walk /\ ring' = ring /\ h # k /\ (Walking => e = walk.pos)
    BY <1>4 DEF ListMove, ListMoveTail, MayTake
  <2>2. CASE Walking
    <3> DEFINE u == Without(v, e)
    <3>0. u \in [Lists -> {RemoveFirst(v[g], e) : g \in Lists}] /\ u[k] = RemoveFirst(v[k], e)
      BY <1>00, <2>2 DEF Without
    <3>1. View' \in {[u EXCEPT ![h] = <<e>> \o @], [u EXCEPT ![h] = Append(@, e)]}
      BY <1>0, <1>4 DEF SequenceStep, v
    <3> HIDE DEF u
    <3>2. View'[k] = u[k]
      BY <1>00, <2>1, <2>2, <3>0, <3>1
    <3>3. View'[k] = RemoveFirst(v[k], walk.pos)
      BY <2>1, <2>2, <3>0, <3>2
    <3>4. OnWay(Way(walk.dir, RemoveFirst(v[k], walk.pos)), walk)
      BY <2>1, <2>2, WayKept DEF v
    <3>5. k \in ring'
      BY <1>00, <2>1, <2>2
    <3> QED
      BY <2>1, <2>2, <3>3, <3>4, <3>5, WalkInvNext
  <2> QED
    BY <1>1, <2>1, <2>2
<1>5. ASSUME UNCHANGED <<links, ring>> PROVE View' = v
  <2>1. Fits(links', ring', v)
    BY <1>0, <1>5, Zenon
  <2> QED
    BY <2>1, FitsViewNext
<1>6. ASSUME NEW h \in Lists, NEW dir \in Dirs, NEW from \in Cells, WalkBegin(h, dir, from)
      PROVE  WalkInv'
  <2> DEFINE first == links[dir][from]
             x == [head |-> h, dir |-> dir, pos |-> first, n |-> links[dir][first],
                   todo |-> From(links, dir, first, h)]
             D == Way(dir, v[h])
  <2>1. /\ h \in Lists \cap ring /\ (from = h \/ from \in ToSet(On(h)))
        /\ walk' = x /\ UNCHANGED <<links, ring>>
    BY <1>6 DEF WalkBegin, Used
  <2>2. View' = v
    BY <1>5, <2>1
  <2>3. Leads(links, dir, h, D)
    BY <1>0, <2>1, ListLeads
  <2>4. from = h \/ Contains(D, from)
    <3> SUFFICES ASSUME from \in ToSet(On(h)) PROVE Contains(D, from)
      BY <2>1
    <3>1. On(h) = v[h]
      BY <1>0, <2>1, ListIs DEF On
    <3>2. v[h] \in Seq(Entries)
      <4>1. v[h] \in Seq(Entries \cap ring)
        BY <1>0, <2>1, ListFacts
      <4> QED
        BY <4>1
    <3>3. Contains(v[h], from)
      <4>1. from \in ToSet(v[h])
        BY <3>1, Zenon
      <4> QED
        BY <4>1 DEF ToSet, Contains
    <3> QED
      BY <3>2, <3>3, WayProperties
  <2>5. /\ x.head = h /\ x.dir = dir /\ x.pos = links[dir][from] /\ x.n = links[dir][x.pos]
        /\ x.todo = From(links, dir, x.pos, h)
        /\ x = [head |-> x.head, dir |-> x.dir, pos |-> x.pos, n |-> x.n, todo |-> x.todo]
    OBVIOUS
  <2> HIDE DEF x, first, D
  <2>6. OnWay(D, x)
    BY <2>3, <2>4, <2>5, AheadBegin
  <2>7. OnWay(Way(walk'.dir, View'[walk'.head]), walk')
    BY <2>1, <2>2, <2>5, <2>6, Zenon DEF D
  <2>8. /\ walk' = [head |-> walk'.head, dir |-> walk'.dir, pos |-> walk'.pos, n |-> walk'.n,
                    todo |-> walk'.todo]
        /\ walk'.head \in Lists \cap ring' /\ walk'.dir \in Dirs
    BY <2>1, <2>5, Zenon
  <2> QED
    BY <2>7, <2>8, Zenon DEF WalkInv
<1>7. ASSUME WalkNext PROVE WalkInv'
  <2> DEFINE x == [walk EXCEPT !.pos = walk.n, !.n = links[walk.dir][walk.n],
                               !.todo = RemoveFirst(@, walk.pos)]
             D == Way(walk.dir, v[k])
  <2>1. /\ Walking /\ walk' = x /\ UNCHANGED <<links, ring>>
    BY <1>7 DEF WalkNext
  <2>2. View' = v
    BY <1>5, <2>1
  <2>3. /\ walk = [head |-> walk.head, dir |-> walk.dir, pos |-> walk.pos, n |-> walk.n,
                   todo |-> walk.todo]
        /\ k \in Lists \cap ring /\ walk.dir \in Dirs /\ OnWay(D, walk)
    BY <2>1 DEF WalkInv, v
  <2>4. Leads(links, walk.dir, k, D)
    BY <1>0, <2>3, ListLeads
  <2>5. /\ x.head = walk.head /\ x.dir = walk.dir /\ x.pos = walk.n
        /\ x.n = links[walk.dir][walk.n] /\ x.todo = RemoveFirst(walk.todo, walk.pos)
        /\ x = [head |-> x.head, dir |-> x.dir, pos |-> x.pos, n |-> x.n, todo |-> x.todo]
    <3> DEFINE n == links[walk.dir][walk.n]
               t == RemoveFirst(walk.todo, walk.pos)
               y == [walk EXCEPT !.pos = walk.n, !.n = n, !.todo = t]
    <3>1. x = y
      OBVIOUS
    <3>2. walk = Loop(walk.head, walk.dir, walk.pos, walk.n, walk.todo)
      BY <2>3, Zenon DEF Loop
    <3> HIDE DEF n, t
    <3>3. LoopStep(Loop(walk.head, walk.dir, walk.pos, walk.n, walk.todo), walk.n, n, t)
          = Loop(walk.head, walk.dir, walk.n, n, t)
      BY LoopChange
    <3>4. y = Loop(walk.head, walk.dir, walk.n, n, t)
      BY <3>2, <3>3, Zenon DEF LoopStep
    <3> HIDE DEF x, y
    <3> QED
      BY <3>1, <3>4 DEF n, t, Loop
  <2> HIDE DEF x, D
  <2>6. OnWay(D, x)
    BY <2>3, <2>4, <2>5, AheadNext
  <2>7. OnWay(Way(walk'.dir, View'[walk'.head]), walk')
    BY <2>1, <2>2, <2>5, <2>6, Zenon DEF D
  <2>8. /\ walk' = [head |-> walk'.head, dir |-> walk'.dir, pos |-> walk'.pos, n |-> walk'.n,
                    todo |-> walk'.todo]
        /\ walk'.head \in Lists \cap ring' /\ walk'.dir \in Dirs
    BY <2>1, <2>3, <2>5, Zenon
  <2> QED
    BY <2>7, <2>8, Zenon DEF WalkInv
<1>8. ASSUME WalkEnd PROVE WalkInv'
  BY <1>8, NoWalk DEF WalkEnd, Walking, Idle
<1>9. ASSUME UNCHANGED vars PROVE WalkInv'
  <2>1. walk' = walk /\ UNCHANGED <<links, ring>>
    BY <1>9 DEF vars
  <2>2. View' = v
    BY <1>5, <2>1
  <2>3. CASE Walking
    <3>1. OnWay(Way(walk.dir, v[k]), walk)
      BY <2>3 DEF WalkInv, v
    <3>2. k \in ring' /\ View'[k] = v[k]
      BY <1>00, <2>1, <2>2, <2>3
    <3> QED
      BY <2>1, <2>3, <3>1, <3>2, WalkInvNext
  <2> QED
    BY <1>1, <2>1, <2>3
<1>10. ASSUME \/ \E h \in Lists : InitListHead(h) \/ ListRotateLeft(h)
              \/ \E c, d \in Cells, init \in BOOLEAN : ListReplace(c, d, init)
              \/ \E g, h \in Lists, c \in Cells : ListCutPosition(g, h, c)
              \/ \E g, h \in Lists, atEnd, init \in BOOLEAN : ListSplice(g, h, atEnd, init)
       PROVE  WalkInv'
  BY <1>1, <1>10 DEF InitListHead, ListRotateLeft, ListReplace, ListCutPosition, ListSplice
<1> QED
  BY <1>2, <1>3, <1>4, <1>6, <1>7, <1>8, <1>9, <1>10 DEF Next

\* A loop that is "safe against removal of list entry" is so: whatever its body
\* does to its own entry, and whatever it adds, what the loop reads next is in
\* use, and what it has yet to visit lies ahead of it in order.
THEOREM WalksAlwaysSafe == Spec => []WalkSafe
<1>1. Init => WalkInv
  BY DEF Init, WalkInv, Walking, Idle
<1>2. Sequenced /\ WalkInv /\ [Next]_vars => WalkInv'
  BY WalkInvKept
<1>3. Sequenced /\ WalkInv => WalkSafe
  BY WalkInvSafe
<1> QED
  BY <1>1, <1>2, <1>3, AlwaysSequenced, PTL DEF Spec

-----------------------------------------------------------------------------
(* The skip list.  A list has at most one node, as skl_insert into one     *)
(* that is not empty ends the process (see SkipList): Shape says so,       *)
(* pointer by pointer, and Statistics that the counts are of what is       *)
(* there.  What a walk or a search computes is a recursive function: each  *)
(* is shown to be defined by a table of its values, then read off from it. *)

\* The head when n is the only node and has h levels, and that node.
HeadOf(n, h) ==
    [key |-> NULL, height |-> MaxLevel, back |-> NULL,
     next |-> [i \in Level |-> IF i <= h THEN n ELSE NULL]]
NodeOf(k, h) ==
    [key |-> k, height |-> h, back |-> SklHead, next |-> [i \in Level |-> NULL]]

\* The list with no node, and the list with one.
Bare ==
    /\ heap = [c \in {SklHead} |-> HeadOf(NULL, 0)]
    /\ level = 0 /\ length = 0 /\ tail = SklHead

Single(n, k, h) ==
    /\ heap = [c \in {SklHead, n} |-> IF c = n THEN NodeOf(k, h) ELSE HeadOf(n, h)]
    /\ level = h /\ length = 1 /\ tail = n

Shape == Bare \/ \E n \in Nodes, k \in Key, h \in Height : Single(n, k, h)

\* How many nodes of a height there are.
Heights(i) == {c \in DOMAIN heap : heap[c].height = i}

Statistics == \A i \in Level :
    /\ atStart[i] \in Int /\ failed[i] \in Nat /\ IsFiniteSet(Heights(i))
    /\ lvlCnt[i] = atStart[i] + failed[i] + Cardinality(Heights(i))

SklInv ==
    /\ live \in BOOLEAN
    /\ lvlCnt \in [Level -> Int] /\ failed \in [Level -> Nat]
    /\ atStart \in [Level -> Int]
    /\ fault = "none" /\ ~live => \A i \in Level : failed[i] = 0
    /\ Ready => Shape /\ Statistics

-----------------------------------------------------------------------------
(* The walks through a list of one node.                                   *)

\* The cells of a list of one node.
LEMMA SingleCells ==
    ASSUME NEW n \in Nodes, NEW k \in Key, NEW h \in Height, Single(n, k, h)
    PROVE  /\ DOMAIN heap = {SklHead, n} /\ n # SklHead /\ n # NULL /\ SklHead # NULL
           /\ heap[SklHead].height = MaxLevel /\ heap[SklHead].back = NULL
           /\ heap[n].key = k /\ heap[n].height = h /\ heap[n].back = SklHead
           /\ \A i \in Level : /\ heap[n].next[i] = NULL
                               /\ heap[SklHead].next[i] = IF i <= h THEN n ELSE NULL
           /\ level = h /\ tail = n /\ h \in Level /\ h \in 1..MaxLevel
           /\ 1 \in Level /\ MaxLevel \in Level /\ MaxLevel \in Nat
           /\ \A i \in Level : i \in 1..MaxLevel
<1>1. n # SklHead /\ n # NULL /\ SklHead # NULL
  BY PointerAssumption
<1>2. DOMAIN heap = {SklHead, n} /\ heap[n] = NodeOf(k, h) /\ heap[SklHead] = HeadOf(n, h)
  BY <1>1 DEF Single
<1>3. MaxLevel \in Nat \ {0} /\ Level = 1..MaxLevel /\ Height = 1..MaxLevel
  BY LevelAssumption DEF Level, Height
<1> QED
  BY <1>1, <1>2, <1>3 DEF Single, NodeOf, HeadOf

\* The walk back from the tail meets the only node.
LEMMA SingleWalk ==
    ASSUME NEW n \in Nodes, NEW k \in Key, NEW h \in Height, Single(n, k, h)
    PROVE  MetFrom(tail) = {n}
<1>1. /\ DOMAIN heap = {SklHead, n} /\ n # SklHead /\ n # NULL /\ SklHead # NULL
      /\ heap[SklHead].back = NULL /\ heap[n].back = SklHead /\ tail = n
  BY SingleCells
<1> DEFINE Rec(f) == f = [b \in DOMAIN heap |->
          IF heap[b].back = NULL THEN {} ELSE {b} \cup f[heap[b].back]]
<1>2. Rec([b \in {SklHead, n} |-> IF b = SklHead THEN {} ELSE {n}])
  BY <1>1
<1>3. \A f : Rec(f) => f[n] = {n}
  BY <1>1
<1>4. Rec(CHOOSE f : Rec(f))
  BY <1>2
<1>5. MetFrom(tail) = (CHOOSE f : Rec(f))[tail]
  BY DEF MetFrom
<1> HIDE DEF Rec
<1> QED
  BY <1>1, <1>3, <1>4, <1>5

\* Behind the only node is the head, for all of its levels.
LEMMA SinglePred ==
    ASSUME NEW n \in Nodes, NEW k \in Key, NEW h \in Height, Single(n, k, h),
           NEW i \in Level
    PROVE  Pred(n, i) = SklHead
<1>1. /\ DOMAIN heap = {SklHead, n} /\ n # SklHead /\ heap[SklHead].height = MaxLevel
      /\ heap[n].height = h /\ heap[n].back = SklHead
      /\ MaxLevel \in Nat /\ i \in 1..MaxLevel
  BY SingleCells
<1> DEFINE Rec(f) == f = [b \in DOMAIN heap |->
        IF heap[b].height >= i THEN b ELSE f[heap[b].back]]
<1>2. Rec([b \in {SklHead, n} |-> IF b = n /\ h >= i THEN n ELSE SklHead])
  BY <1>1
<1>3. \A f : Rec(f) => f[SklHead] = SklHead
  BY <1>1
<1>4. Rec(CHOOSE f : Rec(f))
  BY <1>2
<1>5. Pred(n, i) = (CHOOSE f : Rec(f))[heap[n].back]
  BY DEF Pred
<1> HIDE DEF Rec
<1> QED
  BY <1>1, <1>3, <1>4, <1>5

-----------------------------------------------------------------------------
(* The search.                                                             *)

\* What skl_get_big_equal does at node c and level i, when f says what it finds
\* from the places it can go on to.
Step(f, c, i, x) ==
    LET n == heap[c].next[i]
    IN  IF n # NULL /\ x > heap[n].key THEN f[<<n, i>>]
        ELSE IF i = 1 THEN n ELSE f[<<c, i - 1>>]

\* f is a table for the places, and says what the search finds from each.
Found(f, D, L, x) ==
    /\ f = [at \in D \X L |-> f[at]]
    /\ \A c \in D : \A i \in L : f[<<c, i>>] = Step(f, c, i, x)

Start == <<SklHead, IF level = 0 THEN 1 ELSE level>>

\* Pairs of a node and a level.
LEMMA PairIn ==
    \A A, B : \A a \in A, b \in B :
        <<a, b>> \in A \X B /\ <<a, b>>[1] = a /\ <<a, b>>[2] = b
OBVIOUS

\* The parts of a pair.
LEMMA PairOf ==
    \A A, B : \A at \in A \X B : at[1] \in A /\ at[2] \in B /\ at = <<at[1], at[2]>>
OBVIOUS

\* A table of what is found from everywhere shows that the search is defined:
\* it goes on from place to place.
LEMMA SearchSteps ==
    ASSUME NEW x, NEW D, D = DOMAIN heap, NEW L, L = Level,
           NEW g, Found(g, D, L, x)
    PROVE  \E f : Found(f, D, L, x) /\ BigEqual(x) = f[Start]
<1> DEFINE Rec(f) == f = [at \in D \X L |-> Step(f, at[1], at[2], x)]
<1>1. Rec(g)
  <2>1. ASSUME NEW at \in D \X L PROVE g[at] = Step(g, at[1], at[2], x)
    <3>1. at[1] \in D /\ at[2] \in L /\ at = <<at[1], at[2]>>
      BY PairOf
    <3>2. g[<<at[1], at[2]>>] = Step(g, at[1], at[2], x)
      BY <3>1, Zenon DEF Found
    <3> QED
      BY <3>1, <3>2, Zenon
  <2>2. [at \in D \X L |-> g[at]]
        = [at \in D \X L |-> Step(g, at[1], at[2], x)]
    BY <2>1, Zenon
  <2> QED
    BY <2>2, Zenon DEF Found
<1>2. ASSUME NEW f, Rec(f), NEW c \in D, NEW i \in L
      PROVE  f[<<c, i>>] = Step(f, c, i, x)
  <2>1. <<c, i>> \in D \X L
    BY PairIn
  <2> DEFINE E(at) == Step(f, at[1], at[2], x)
  <2>2. E(<<c, i>>) = Step(f, c, i, x)
    <3>1. <<c, i>>[1] = c /\ <<c, i>>[2] = i
      BY PairIn
    <3> QED
      BY <3>1, Zenon
  <2>3. f = [at \in D \X L |-> E(at)]
    BY <1>2, Zenon
  <2> HIDE DEF E
  <2>4. f[<<c, i>>] = E(<<c, i>>)
    BY <2>1, <2>3, Zenon
  <2> QED
    BY <2>2, <2>4, Zenon
<1> DEFINE Search(f) == f = [at \in (DOMAIN heap) \X Level |->
        LET c == at[1]
            i == at[2]
            n == heap[c].next[i]
        IN  IF n # NULL /\ x > heap[n].key THEN f[<<n, i>>]
            ELSE IF i = 1 THEN n ELSE f[<<c, i - 1>>]]
<1>3. \A f : Search(f) <=> Rec(f)
  <2>1. \A f : Search(f) <=> f = [at \in (DOMAIN heap) \X Level |-> Step(f, at[1], at[2], x)]
    BY Zenon DEF Step
  <2>2. (DOMAIN heap) \X Level = D \X L
    BY Zenon
  <2>3. ASSUME NEW f PROVE [at \in (DOMAIN heap) \X Level |-> Step(f, at[1], at[2], x)]
                           = [at \in D \X L |-> Step(f, at[1], at[2], x)]
    BY <2>2, Zenon
  <2> HIDE DEF Search
  <2> QED
    BY <2>1, <2>3, Zenon
<1>4. BigEqual(x) = (CHOOSE f : Search(f))[Start]
  BY DEF BigEqual, Start
<1> HIDE DEF Rec, Search
<1>5. Search(CHOOSE f : Search(f))
  BY <1>1, <1>3, Zenon
<1>6. Rec(CHOOSE f : Search(f))
  BY <1>3, <1>5, Zenon
<1>7. Found(CHOOSE f : Search(f), D, L, x)
  <2> DEFINE s == CHOOSE f : Search(f)
  <2>1. s = [at \in D \X L |-> s[at]]
    <3> HIDE DEF s
    <3>1. s = [at \in D \X L |-> Step(s, at[1], at[2], x)]
      BY <1>6, Zenon DEF Rec, s
    <3> QED
      BY <3>1, Zenon
  <2> HIDE DEF s
  <2>2. \A c \in D : \A i \in L : s[<<c, i>>] = Step(s, c, i, x)
    BY <1>2, <1>6, Zenon DEF s
  <2> QED
    BY <2>1, <2>2, Zenon DEF Found, s
<1> QED
  BY <1>4, <1>7, Zenon

\* A search through no node finds none.
LEMMA BareSearch ==
    ASSUME Bare, NEW x
    PROVE  BigEqual(x) = NULL
<1>1. DOMAIN heap = {SklHead} /\ heap[SklHead] = HeadOf(NULL, 0) /\ level = 0
  BY DEF Bare
<1>2. \A i \in Level : heap[SklHead].next[i] = NULL
  BY <1>1 DEF HeadOf, Level
<1>3. 1 \in Level /\ \A i \in Level : i # 1 => i - 1 \in Level
  BY LevelAssumption DEF Level
<1> DEFINE D == DOMAIN heap
           L == Level
           g == [at \in D \X L |-> NULL]
<1> HIDE DEF D, L
<1>4. \A c \in D : \A i \in L : g[<<c, i>>] = NULL
  BY PairIn
<1>5. g = [at \in D \X L |-> g[at]]
  BY Zenon
<1> HIDE DEF g
<1>6. \A c \in D : \A i \in L : g[<<c, i>>] = Step(g, c, i, x)
  BY <1>1, <1>2, <1>3, <1>4 DEF Step, D, L
<1>7. PICK f : Found(f, D, L, x) /\ BigEqual(x) = f[Start]
  <2>1. D = DOMAIN heap /\ L = Level
    BY DEF D, L
  <2>2. Found(g, D, L, x)
    BY <1>5, <1>6, Zenon DEF Found
  <2> QED
    BY <2>1, <2>2, SearchSteps, Zenon
<1>8. f[<<SklHead, 1>>] = NULL
  BY <1>1, <1>2, <1>3, <1>7 DEF Step, Found, D, L
<1> QED
  BY <1>1, <1>7, <1>8 DEF Start

\* The search finds the only node if its key is not less than the one that is
\* looked for.
LEMMA SingleSearch ==
    ASSUME NEW n \in Nodes, NEW k \in Key, NEW h \in Height, Single(n, k, h),
           NEW x \in Key
    PROVE  BigEqual(x) = IF x > k THEN NULL ELSE n
<1>1. /\ DOMAIN heap = {SklHead, n} /\ n # SklHead /\ n # NULL /\ SklHead # NULL
      /\ heap[n].key = k /\ level = h /\ h \in 1..MaxLevel
      /\ \A i \in Level : /\ heap[n].next[i] = NULL
                          /\ heap[SklHead].next[i] = IF i <= h THEN n ELSE NULL
      /\ \A i \in Level : i \in 1..MaxLevel
      /\ h \in Level
  BY SingleCells
<1> DEFINE v == IF x > k THEN NULL ELSE n
<1>2. /\ MaxLevel \in Nat \ {0} /\ Level = 1..MaxLevel
      /\ \A i \in Level : i # 1 => i - 1 \in Level
  BY LevelAssumption DEF Level
<1> DEFINE D == DOMAIN heap
           L == Level
           g == [at \in D \X L |-> IF at[1] = n THEN NULL ELSE v]
<1> HIDE DEF D, L, v
<1>3. \A c \in D : \A i \in L : g[<<c, i>>] = IF c = n THEN NULL ELSE v
  BY PairIn
<1>4. g = [at \in D \X L |-> g[at]]
  BY Zenon
<1> HIDE DEF g
<1>4a. \A c \in D : \A i \in L : g[<<c, i>>] = Step(g, c, i, x)
  <2> SUFFICES ASSUME NEW c \in D, NEW i \in L
               PROVE  g[<<c, i>>] = Step(g, c, i, x)
    OBVIOUS
  <2>1. CASE c = n
    BY <1>1, <1>2, <1>3, <2>1 DEF Step, D, L, v
  <2>2. CASE c = SklHead
    BY <1>1, <1>2, <1>3, <2>2 DEF Step, D, L, v
  <2> QED
    BY <1>1, <2>1, <2>2 DEF D
<1>5. PICK f : Found(f, D, L, x) /\ BigEqual(x) = f[Start]
  <2>1. D = DOMAIN heap /\ L = Level
    BY DEF D, L
  <2>2. Found(g, D, L, x)
    BY <1>4, <1>4a, Zenon DEF Found
  <2> QED
    BY <2>1, <2>2, SearchSteps, Zenon
<1>6. \A i \in Level : f[<<n, i>>] = IF i = 1 THEN NULL ELSE f[<<n, i - 1>>]
  BY <1>1, <1>5 DEF Step, Found, D, L
<1>6a. \A i \in 1..h : f[<<SklHead, i>>] = IF x > k THEN f[<<n, i>>]
                                         ELSE IF i = 1 THEN n ELSE f[<<SklHead, i - 1>>]
  <2> SUFFICES ASSUME NEW i \in 1..h
               PROVE  f[<<SklHead, i>>] = IF x > k THEN f[<<n, i>>]
                                       ELSE IF i = 1 THEN n ELSE f[<<SklHead, i - 1>>]
    OBVIOUS
  <2>1. i \in L /\ SklHead \in D /\ heap[SklHead].next[i] = n
    BY <1>1, <1>2 DEF D, L
  <2>2. f[<<SklHead, i>>] = Step(f, SklHead, i, x)
    BY <1>5, <2>1 DEF Found
  <2> QED
    BY <1>1, <2>1, <2>2 DEF Step
<1> DEFINE N == {i \in Nat : i + 1 \in Level => f[<<n, i + 1>>] = NULL}
<1>7. Nat \subseteq N
  <2>1. 0 \in N
    <3>1. 1 \in Level => f[<<n, 1>>] = NULL
      BY <1>6
    <3> QED
      BY <3>1
  <2>2. ASSUME NEW i \in Nat, i \in N PROVE i + 1 \in N
    <3> SUFFICES ASSUME (i + 1) + 1 \in Level PROVE f[<<n, (i + 1) + 1>>] = NULL
      OBVIOUS
    <3>1. i + 1 \in Level /\ (i + 1) + 1 # 1 /\ ((i + 1) + 1) - 1 = i + 1
      BY <1>2
    <3>2. f[<<n, i + 1>>] = NULL
      BY <2>2, <3>1
    <3> QED
      BY <1>6, <3>1, <3>2
  <2> HIDE DEF N
  <2> QED
    BY <2>1, <2>2, Induction
<1>8. \A i \in Level : f[<<n, i>>] = NULL
  <2> SUFFICES ASSUME NEW i \in Level PROVE f[<<n, i>>] = NULL
    OBVIOUS
  <2>1. i - 1 \in Nat /\ (i - 1) + 1 = i
    BY <1>2
  <2>2. i - 1 \in N
    BY <1>7, <2>1
  <2> QED
    BY <2>1, <2>2
<1> DEFINE P == {i \in Nat : i + 1 \in 1..h => f[<<SklHead, i + 1>>] = v}
<1>9. Nat \subseteq P
  <2>1. 0 \in P
    <3> SUFFICES ASSUME 1 \in 1..h PROVE f[<<SklHead, 1>>] = v
      OBVIOUS
    <3>1. 1 \in Level
      BY <1>2
    <3> QED
      BY <1>6a, <1>8, <3>1 DEF v
  <2>2. ASSUME NEW i \in Nat, i \in P PROVE i + 1 \in P
    <3> SUFFICES ASSUME (i + 1) + 1 \in 1..h PROVE f[<<SklHead, (i + 1) + 1>>] = v
      OBVIOUS
    <3>1. i + 1 \in 1..h /\ (i + 1) + 1 \in Level /\ (i + 1) + 1 # 1 /\ ((i + 1) + 1) - 1 = i + 1
      BY <1>1, <1>2
    <3>2. f[<<SklHead, i + 1>>] = v
      BY <2>2, <3>1
    <3> DEFINE j == (i + 1) + 1
    <3>4. f[<<SklHead, j>>] = IF x > k THEN f[<<n, j>>] ELSE f[<<SklHead, j - 1>>]
      BY <1>6a, <3>1
    <3>5. f[<<n, j>>] = NULL
      BY <1>8, <3>1
    <3> QED
      BY <3>1, <3>2, <3>4, <3>5 DEF v
  <2> HIDE DEF P
  <2> QED
    BY <2>1, <2>2, Induction
<1>10. f[<<SklHead, h>>] = v
  <2>1. h - 1 \in Nat /\ (h - 1) + 1 = h /\ h \in 1..h
    BY <1>1, <1>2
  <2>2. h - 1 \in P
    BY <1>9, <2>1
  <2> QED
    BY <2>1, <2>2
<1>11. BigEqual(x) = f[<<SklHead, h>>]
  BY <1>1, <1>2, <1>5 DEF Start
<1> QED
  BY <1>10, <1>11 DEF v

-----------------------------------------------------------------------------
(* What the two shapes promise.                                            *)

\* The statistics as the property states them.
LEMMA StatisticsExact ==
    ASSUME Statistics
    PROVE  CountsExact
<1>1. ASSUME NEW i \in Level
      PROVE  lvlCnt[i] = atStart[i] + failed[i]
                         + Cardinality({c \in DOMAIN heap : heap[c].height = i})
  <2>1. lvlCnt[i] = atStart[i] + failed[i] + Cardinality(Heights(i))
    BY DEF Statistics
  <2> QED
    BY <2>1 DEF Heights
<1> QED
  BY <1>1 DEF CountsExact

-----------------------------------------------------------------------------
(* The steps.                                                              *)

\* What the counts are, they are numbers.
LEMMA StatisticsNumbers ==
    ASSUME Statistics', lvlCnt' = [i \in Level |-> lvlCnt'[i]]
    PROVE  lvlCnt' \in [Level -> Int]
<1>1. ASSUME NEW i \in Level PROVE lvlCnt'[i] \in Int
  <2>1. /\ atStart'[i] \in Int /\ failed'[i] \in Nat /\ IsFiniteSet(Heights(i)')
        /\ lvlCnt'[i] = atStart'[i] + failed'[i] + Cardinality(Heights(i)')
    BY DEF Statistics
  <2>2. Cardinality(Heights(i)') \in Nat
    BY <2>1, FS_CardinalityType
  <2> QED
    BY <2>1, <2>2
<1> QED
  BY <1>1

\* A node whose forward and backward pointers are both set anew.
Changed(r, y, z) == [r EXCEPT !.next = y, !.back = z]

\* The two pointers of a node, changed.
LEMMA NodeChange ==
    ASSUME NEW k, NEW h, NEW b, NEW x, NEW y, NEW z, NEW r,
           r = [key |-> k, height |-> h, back |-> b, next |-> x]
    PROVE  Changed(r, y, z)
           = [key |-> k, height |-> h, back |-> z, next |-> y]
<1>1. Changed(r, y, z) = [[r EXCEPT !.next = y] EXCEPT !.back = z]
  <2>1. \A q : [q EXCEPT !.next = y, !.back = z] = [[q EXCEPT !.next = y] EXCEPT !.back = z]
    OBVIOUS
  <2> QED
    BY <2>1, Zenon DEF Changed
<1>2. [r EXCEPT !.next = y] = [key |-> k, height |-> h, back |-> b, next |-> y]
  OBVIOUS
<1>3. [[key |-> k, height |-> h, back |-> b, next |-> y] EXCEPT !.back = z]
      = [key |-> k, height |-> h, back |-> z, next |-> y]
  OBVIOUS
<1> QED
  BY <1>1, <1>2, <1>3, Zenon

\* skl_create makes the head, and counts it.
LEMMA CreateMakesBare ==
    ASSUME SklInv, SklCreate
    PROVE  Bare' /\ Statistics'
<1>1. Bare'
  <2>1. [i \in Level |-> NULL] = [i \in Level |-> IF i <= 0 THEN NULL ELSE NULL]
    OBVIOUS
  <2>2. NewNode(NULL, MaxLevel) = HeadOf(NULL, 0)
    BY <2>1 DEF NewNode, HeadOf
  <2> QED
    BY <2>2 DEF Bare, SklCreate
<1>2. ASSUME NEW i \in Level
      PROVE  /\ atStart'[i] \in Int /\ failed'[i] \in Nat /\ IsFiniteSet(Heights(i)')
             /\ lvlCnt'[i] = atStart'[i] + failed'[i] + Cardinality(Heights(i)')
  <2>1. heap' = [c \in {SklHead} |-> HeadOf(NULL, 0)]
    BY <1>1 DEF Bare
  <2>2. Heights(i)' = IF i = MaxLevel THEN {SklHead} ELSE {}
    BY <2>1 DEF Heights, HeadOf
  <2>3. /\ failed'[i] = 0 /\ atStart'[i] \in Int
        /\ lvlCnt'[i] = IF i = MaxLevel THEN atStart'[i] + 1 ELSE atStart'[i]
    BY GarbageAssumption DEF SklInv, SklCreate
  <2>4. IsFiniteSet({SklHead}) /\ Cardinality({SklHead}) = 1 /\ IsFiniteSet({}) /\ Cardinality({}) = 0
    BY FS_EmptySet, FS_Singleton
  <2>5. IsFiniteSet(Heights(i)') /\ Cardinality(Heights(i)') = IF i = MaxLevel THEN 1 ELSE 0
    BY <2>2, <2>4
  <2> QED
    BY <2>3, <2>5
<1> QED
  BY <1>1, <1>2 DEF Statistics

\* skl_insert that does not end the process makes the only node.
LEMMA InsertMakesSingle ==
    ASSUME SklInv, NEW k \in Key, NEW h \in Height, NEW n \in Nodes,
           SklInsert(k, h, n)
    PROVE  Single(n, k, h)' /\ Statistics'
<1>0. MaxLevel \in Nat \ {0} /\ Level = 1..MaxLevel /\ Height = 1..MaxLevel /\ SklHead # NULL /\ n # SklHead /\ n # NULL
  BY LevelAssumption, PointerAssumption DEF Level, Height
<1>1. Bare /\ Statistics
  <2>1. Ready /\ level = 0
    BY DEF SklInsert
  <2>2. Shape /\ Statistics
    BY <2>1 DEF SklInv
  <2>3. ASSUME NEW m \in Nodes, NEW x \in Key, NEW j \in Height PROVE ~Single(m, x, j)
    <3>1. j # 0
      BY <1>0
    <3> QED
      BY <2>1, <3>1, Zenon DEF Single
  <2> QED
    BY <2>2, <2>3 DEF Shape
<1>2. DOMAIN heap = {SklHead} /\ heap[SklHead] = HeadOf(NULL, 0) /\ tail = SklHead /\ length = 0
  BY <1>1 DEF Bare
<1>3. /\ HeadOf(NULL, 0).next = [i \in Level |-> NULL]
      /\ HeadOf(NULL, 0).height = MaxLevel
  <2>1. [i \in Level |-> IF i <= 0 THEN NULL ELSE NULL] = [i \in Level |-> NULL]
    OBVIOUS
  <2> QED
    BY <2>1 DEF HeadOf
<1>4. 1 \in Level /\ heap[SklHead].next[1] = NULL
  BY <1>0, <1>2, <1>3
<1> DEFINE old == heap[SklHead].next
           new == [NewNode(k, h) EXCEPT
                !.next = [i \in Level |-> IF i <= h THEN old[i] ELSE NULL],
                !.back = tail]
<1>5. new = NodeOf(k, h)
  <2> DEFINE next == [i \in Level |-> IF i <= h THEN old[i] ELSE NULL]
             none == [i \in Level |-> NULL]
  <2>1. next = none
    BY <1>2, <1>3
  <2>2. new = Changed(NewNode(k, h), next, tail)
    BY DEF Changed
  <2>3. NewNode(k, h) = [key |-> k, height |-> h, back |-> NULL, next |-> none]
    BY DEF NewNode
  <2>4. NodeOf(k, h) = [key |-> k, height |-> h, back |-> SklHead, next |-> none]
    BY DEF NodeOf
  <2> HIDE DEF new, next, none
  <2>5. new = [key |-> k, height |-> h, back |-> tail, next |-> next]
    BY <2>2, <2>3, NodeChange
  <2> QED
    BY <1>2, <2>1, <2>4, <2>5, Zenon
<1>6. [heap[SklHead] EXCEPT !.next = [i \in Level |-> IF i <= h THEN n ELSE old[i]]]
      = HeadOf(n, h)
  <2>1. [i \in Level |-> IF i <= h THEN n ELSE old[i]]
        = [i \in Level |-> IF i <= h THEN n ELSE NULL]
    BY <1>2, <1>3
  <2> QED
    BY <1>2, <2>1 DEF HeadOf
<1>7. heap' = [c \in {SklHead, n} |-> IF c = n THEN NodeOf(k, h) ELSE HeadOf(n, h)]
  <2>1. heap' = [c \in DOMAIN heap \cup {n} |->
               IF c = n THEN new
               ELSE IF c = SklHead
               THEN [heap[c] EXCEPT !.next = [i \in Level |-> IF i <= h THEN n ELSE old[i]]]
               ELSE IF c = old[1] THEN [heap[c] EXCEPT !.back = n]
               ELSE heap[c]]
    BY <1>4 DEF SklInsert
  <2> HIDE DEF new
  <2>2. DOMAIN heap \cup {n} = {SklHead, n}
    BY <1>2
  <2> QED
    BY <1>5, <1>6, <2>1, <2>2
<1>8. Single(n, k, h)'
  <2>1. level' = h /\ length' = 1 /\ tail' = n
    BY <1>2, <1>4 DEF SklInsert
  <2> QED
    BY <1>7, <2>1 DEF Single
<1>9. ASSUME NEW i \in Level
      PROVE  /\ atStart'[i] \in Int /\ failed'[i] \in Nat /\ IsFiniteSet(Heights(i)')
             /\ lvlCnt'[i] = atStart'[i] + failed'[i] + Cardinality(Heights(i)')
  <2>1. /\ atStart[i] \in Int /\ failed[i] \in Nat /\ IsFiniteSet(Heights(i))
        /\ lvlCnt[i] = atStart[i] + failed[i] + Cardinality(Heights(i))
    BY <1>1 DEF Statistics
  <2>2. Heights(i) = IF i = MaxLevel THEN {SklHead} ELSE {}
    BY <1>2, <1>3 DEF Heights
  <2>3. Heights(i)' = Heights(i) \cup IF i = h THEN {n} ELSE {}
    <3>1. Heights(i)' = {c \in {SklHead, n} : heap'[c].height = i}
      BY <1>7 DEF Heights
    <3>2. heap'[n].height = h /\ heap'[SklHead].height = MaxLevel
      BY <1>0, <1>7 DEF NodeOf, HeadOf
    <3> QED
      BY <2>2, <3>1, <3>2
  <2>4. failed' = failed /\ atStart' = atStart /\ lvlCnt'[i] = IF i = h THEN lvlCnt[i] + 1 ELSE lvlCnt[i]
    BY DEF SklInv, SklInsert
  <2>5. n \notin Heights(i)
    BY <1>0, <2>2
  <2>6. CASE i = h
    <3>1. IsFiniteSet(Heights(i) \cup {n}) /\ Cardinality(Heights(i) \cup {n}) = Cardinality(Heights(i)) + 1
      BY <2>1, <2>5, FS_AddElement
    <3>2. Cardinality(Heights(i)) \in Nat
      BY <2>1, FS_CardinalityType
    <3>3. Heights(i)' = Heights(i) \cup {n}
      BY <2>3, <2>6
    <3>4. IsFiniteSet(Heights(i)') /\ Cardinality(Heights(i)') = Cardinality(Heights(i)) + 1
      BY <3>1, <3>3, Zenon
    <3> QED
      BY <2>1, <2>4, <2>6, <3>2, <3>4
  <2>7. CASE i # h
    <3>1. Heights(i)' = Heights(i)
      BY <2>3, <2>7
    <3>2. IsFiniteSet(Heights(i)') /\ Cardinality(Heights(i)') = Cardinality(Heights(i))
      BY <2>1, <3>1, Zenon
    <3> QED
      BY <2>1, <2>4, <2>7, <3>2
  <2> QED
    BY <2>6, <2>7
<1> QED
  BY <1>8, <1>9 DEF Statistics

\* A call that finds a node in the list meets the only one.
LEMMA RemovalMakesBare ==
    ASSUME SklInv, NEW x \in Key, SklFindGet(x)
    PROVE  Bare' /\ Statistics'
<1>0. MaxLevel \in Nat \ {0} /\ Level = 1..MaxLevel /\ Height = 1..MaxLevel
      /\ SklHead # NULL /\ Key \subseteq Int
  BY LevelAssumption, PointerAssumption, KeyAssumption DEF Level, Height
<1>1. SklContain(x) /\ Shape /\ Statistics
  BY DEF SklInv, SklFindGet
<1>2. ~Bare
  BY <1>1, BareSearch DEF SklContain
<1>3. PICK n \in Nodes, k \in Key, h \in Height : Single(n, k, h)
  BY <1>1, <1>2 DEF Shape
<1>4. /\ DOMAIN heap = {SklHead, n} /\ n # SklHead /\ n # NULL
      /\ heap[n].key = k /\ heap[n].height = h /\ heap[n].back = SklHead
      /\ \A i \in Level : /\ heap[n].next[i] = NULL
                          /\ heap[SklHead].next[i] = IF i <= h THEN n ELSE NULL
      /\ h \in Level /\ 1 \in Level /\ tail = n /\ level = h
  BY <1>3, SingleCells
<1>5. heap[SklHead] = HeadOf(n, h) /\ length = 1
  BY <1>3, <1>4 DEF Single
<1>6. BigEqual(x) = n /\ x = k
  <2>1. BigEqual(x) = IF x > k THEN NULL ELSE n
    BY <1>3, SingleSearch
  <2> QED
    BY <1>1, <1>4, <2>1 DEF SklContain
<1>7. \A i \in Level : Pred(n, i) = SklHead
  BY <1>3, SinglePred
<1> DEFINE unlinked == [c \in DOMAIN heap \ {n} |->
            [heap[c] EXCEPT
                !.next = [i \in Level |-> IF i <= h /\ Pred(n, i) = c
                                          THEN heap[n].next[i] ELSE heap[c].next[i]],
                !.back = IF c = heap[n].next[1] THEN heap[n].back ELSE heap[c].back]]
<1>8. unlinked = [c \in {SklHead} |-> HeadOf(NULL, 0)]
  <2> DEFINE next == [i \in Level |-> IF i <= h /\ Pred(n, i) = SklHead
                                      THEN heap[n].next[i] ELSE heap[SklHead].next[i]]
             back == IF SklHead = heap[n].next[1] THEN heap[n].back ELSE heap[SklHead].back
             none == [i \in Level |-> IF i <= 0 THEN NULL ELSE NULL]
  <2>1. next = none
    BY <1>4, <1>7
  <2>2. back = NULL
    BY <1>0, <1>4, <1>5 DEF HeadOf
  <2>3. DOMAIN heap \ {n} = {SklHead}
    BY <1>4
  <2>4. HeadOf(NULL, 0) = [key |-> NULL, height |-> MaxLevel, back |-> NULL, next |-> none]
    BY DEF HeadOf
  <2>5. Changed(heap[SklHead], next, back)
        = [key |-> NULL, height |-> MaxLevel, back |-> back, next |-> next]
    <3> HIDE DEF next, back
    <3>1. heap[SklHead] = [key |-> NULL, height |-> MaxLevel, back |-> NULL,
                        next |-> [i \in Level |-> IF i <= h THEN n ELSE NULL]]
      BY <1>5 DEF HeadOf
    <3> QED
      BY <3>1, NodeChange
  <2>6. Changed(heap[SklHead], next, back) = HeadOf(NULL, 0)
    <3> HIDE DEF next, back, none
    <3> QED
      BY <2>1, <2>2, <2>4, <2>5, Zenon
  <2> DEFINE Left(c) == [heap[c] EXCEPT
                !.next = [i \in Level |-> IF i <= h /\ Pred(n, i) = c
                                          THEN heap[n].next[i] ELSE heap[c].next[i]],
                !.back = IF c = heap[n].next[1] THEN heap[n].back ELSE heap[c].back]
  <2>7. Left(SklHead) = Changed(heap[SklHead], next, back)
    BY Zenon DEF Changed
  <2>8. unlinked = [c \in DOMAIN heap \ {n} |-> Left(c)]
    BY Zenon
  <2> HIDE DEF none, next, back, Left, unlinked
  <2>9. \A c \in {SklHead} : Left(c) = HeadOf(NULL, 0)
    BY <2>6, <2>7, Zenon
  <2> QED
    BY <2>3, <2>8, <2>9, Zenon
<1>9. heap' = unlinked /\ level' = LevelAfter(unlinked[SklHead].next)
      /\ tail' = (IF heap[n].next[1] = NULL THEN heap[n].back ELSE tail)
      /\ length' = length - 1 /\ lvlCnt' = [lvlCnt EXCEPT ![h] = @ - 1]
      /\ atStart' = atStart /\ failed' = failed
  <2>1. DeleteNode(n) /\ atStart' = atStart /\ failed' = failed
    BY <1>6 DEF SklFindGet
  <2> QED
    BY <1>4, <2>1, Zenon DEF DeleteNode
<1>10. heap' = [c \in {SklHead} |-> HeadOf(NULL, 0)]
  BY <1>8, <1>9, Zenon
<1>11. level' = 0
  <2>1. unlinked[SklHead] = HeadOf(NULL, 0)
    <3> HIDE DEF unlinked
    <3> QED
      BY <1>8
  <2> HIDE DEF unlinked
  <2>2. \A i \in Level : unlinked[SklHead].next[i] = NULL
    BY <2>1 DEF HeadOf
  <2>3. 1..level \subseteq Level
    BY <1>0, <1>4
  <2>4. {i \in 1..level : unlinked[SklHead].next[i] # NULL} = {}
    BY <2>2, <2>3
  <2>5. LevelAfter(unlinked[SklHead].next) = 0
    BY <2>4, Zenon DEF LevelAfter
  <2> QED
    BY <1>9, <2>5
<1> HIDE DEF unlinked
<1>12. Bare'
  <2>1. tail' = SklHead /\ length' = 0
    BY <1>4, <1>5, <1>6, <1>9
  <2> QED
    BY <1>10, <1>11, <2>1 DEF Bare
<1>13. ASSUME NEW i \in Level
       PROVE  /\ atStart'[i] \in Int /\ failed'[i] \in Nat /\ IsFiniteSet(Heights(i)')
              /\ lvlCnt'[i] = atStart'[i] + failed'[i] + Cardinality(Heights(i)')
  <2>1. /\ atStart[i] \in Int /\ failed[i] \in Nat /\ IsFiniteSet(Heights(i))
        /\ lvlCnt[i] = atStart[i] + failed[i] + Cardinality(Heights(i))
    BY <1>1 DEF Statistics
  <2>2. Heights(i)' = Heights(i) \ {n}
    <3>1. Heights(i)' = {c \in {SklHead} : heap'[c].height = i}
      BY <1>10 DEF Heights
    <3>2. heap'[SklHead].height = MaxLevel /\ heap[SklHead].height = MaxLevel
      BY <1>5, <1>10 DEF HeadOf
    <3> QED
      BY <1>4, <3>1, <3>2 DEF Heights
  <2>3. lvlCnt'[i] = IF i = h THEN lvlCnt[i] - 1 ELSE lvlCnt[i]
    BY <1>9 DEF SklInv
  <2>4. n \in Heights(i) <=> i = h
    BY <1>4 DEF Heights
  <2>5. IsFiniteSet(Heights(i)') /\ Cardinality(Heights(i)')
            = IF i = h THEN Cardinality(Heights(i)) - 1 ELSE Cardinality(Heights(i))
    <3>1. /\ IsFiniteSet(Heights(i) \ {n})
          /\ Cardinality(Heights(i) \ {n})
             = IF n \in Heights(i) THEN Cardinality(Heights(i)) - 1 ELSE Cardinality(Heights(i))
      BY <2>1, FS_RemoveElement
    <3> QED
      BY <2>2, <2>4, <3>1, Zenon
  <2>6. Cardinality(Heights(i)) \in Nat
    BY <2>1, FS_CardinalityType
  <2> HIDE DEF Heights
  <2> QED
    BY <1>9, <2>1, <2>3, <2>5, <2>6
<1> QED
  BY <1>12, <1>13 DEF Statistics

\* skl_flush_all leaves the head alone, and takes what it frees off the counts.
LEMMA FlushMakesBare ==
    ASSUME SklInv, SklFlushAll
    PROVE  Bare' /\ Statistics'
<1>0. MaxLevel \in Nat \ {0} /\ Level = 1..MaxLevel
  BY LevelAssumption DEF Level
<1>1. length > 0 /\ Shape /\ Statistics
  BY DEF SklInv, SklFlushAll
<1>2. ~Bare
  BY <1>1 DEF Bare
<1>3. PICK n \in Nodes, k \in Key, h \in Height : Single(n, k, h)
  BY <1>1, <1>2 DEF Shape
<1>4. DOMAIN heap = {SklHead, n} /\ n # SklHead /\ heap[n].height = h
  BY <1>3, SingleCells
<1>5. MetFrom(tail) = {n}
  BY <1>3, SingleWalk
<1>6. heap[SklHead] = HeadOf(n, h)
  BY <1>3, <1>4 DEF Single
<1>7. [heap[SklHead] EXCEPT !.next = [i \in Level |-> NULL]] = HeadOf(NULL, 0)
  <2>1. [i \in Level |-> NULL] = [i \in Level |-> IF i <= 0 THEN NULL ELSE NULL]
    OBVIOUS
  <2> QED
    BY <1>6, <2>1 DEF HeadOf
<1>8. heap' = [c \in {SklHead} |-> HeadOf(NULL, 0)]
  <2>1. heap' = [c \in DOMAIN heap \ {n} |->
            IF c = SklHead THEN [heap[c] EXCEPT !.next = [i \in Level |-> NULL]] ELSE heap[c]]
    BY <1>5 DEF SklFlushAll
  <2>2. DOMAIN heap \ {n} = {SklHead}
    BY <1>4
  <2> QED
    BY <1>7, <2>1, <2>2
<1>9. Bare'
  BY <1>8 DEF Bare, SklFlushAll
<1>10. ASSUME NEW i \in Level
       PROVE  /\ atStart'[i] \in Int /\ failed'[i] \in Nat /\ IsFiniteSet(Heights(i)')
              /\ lvlCnt'[i] = atStart'[i] + failed'[i] + Cardinality(Heights(i)')
  <2>1. /\ atStart[i] \in Int /\ failed[i] \in Nat /\ IsFiniteSet(Heights(i))
        /\ lvlCnt[i] = atStart[i] + failed[i] + Cardinality(Heights(i))
    BY <1>1 DEF Statistics
  <2>2. Heights(i)' = Heights(i) \ {n}
    <3>1. Heights(i)' = {c \in {SklHead} : heap'[c].height = i}
      BY <1>8 DEF Heights
    <3>2. heap'[SklHead].height = MaxLevel /\ heap[SklHead].height = MaxLevel
      BY <1>6, <1>8 DEF HeadOf
    <3> QED
      BY <1>4, <3>1, <3>2 DEF Heights
  <2>3. lvlCnt'[i] = lvlCnt[i] - (IF i = h THEN 1 ELSE 0)
    <3> DEFINE freed == {c \in MetFrom(tail) : heap[c].height = i}
    <3>1. freed = IF i = h THEN {n} ELSE {}
      BY <1>4, <1>5
    <3>2. Cardinality({n}) = 1 /\ Cardinality({}) = 0
      BY FS_EmptySet, FS_Singleton
    <3>3. Cardinality(freed) = IF i = h THEN 1 ELSE 0
      <4> HIDE DEF freed
      <4> QED
        BY <3>1, <3>2, Zenon
    <3>4. lvlCnt'[i] = lvlCnt[i] - Cardinality(freed)
      BY DEF SklFlushAll
    <3> HIDE DEF freed
    <3> QED
      BY <3>3, <3>4, Zenon
  <2>4. n \in Heights(i) <=> i = h
    BY <1>4 DEF Heights
  <2>5. IsFiniteSet(Heights(i)') /\ Cardinality(Heights(i)')
            = IF i = h THEN Cardinality(Heights(i)) - 1 ELSE Cardinality(Heights(i))
    <3>1. /\ IsFiniteSet(Heights(i) \ {n})
          /\ Cardinality(Heights(i) \ {n})
             = IF n \in Heights(i) THEN Cardinality(Heights(i)) - 1 ELSE Cardinality(Heights(i))
      BY <2>1, FS_RemoveElement
    <3> QED
      BY <2>2, <2>4, <3>1, Zenon
  <2>6. Cardinality(Heights(i)) \in Nat
    BY <2>1, FS_CardinalityType
  <2>7. failed' = failed /\ atStart' = atStart
    BY DEF SklFlushAll
  <2> HIDE DEF Heights
  <2> QED
    BY <2>1, <2>3, <2>5, <2>6, <2>7
<1> QED
  BY <1>9, <1>10 DEF Statistics

\* One of many integers is increased.
LEMMA OneMoreInt ==
    ASSUME NEW S, NEW f \in [S -> Int], NEW m
    PROVE  [f EXCEPT ![m] = f[m] + 1] \in [S -> Int]
<1>1. \A i \in S : [f EXCEPT ![m] = f[m] + 1][i] \in Int
  OBVIOUS
<1> QED
  BY <1>1

\* The invariant is inductive.
LEMMA SklInvKept ==
    ASSUME SklInv, [SklNext]_sklVars
    PROVE  SklInv'
<1> USE DEF Ready
<1>0. Height = Level
  BY DEF Height
<1>1. CASE SklCreate
  <2>1. Bare' /\ Statistics'
    BY <1>1, CreateMakesBare
  <2>2. live' = TRUE /\ failed' = failed /\ atStart' \in [Level -> Int]
    BY <1>1, GarbageAssumption DEF SklCreate
  <2>3. lvlCnt' \in [Level -> Int]
    <3>1. [atStart' EXCEPT ![MaxLevel] = (atStart')[MaxLevel] + 1] \in [Level -> Int]
      BY <2>2, OneMoreInt
    <3>2. lvlCnt' = [atStart' EXCEPT ![MaxLevel] = (atStart')[MaxLevel] + 1]
      BY <1>1, Zenon DEF SklCreate
    <3> QED
      BY <3>1, <3>2, Zenon
  <2> QED
    BY <2>1, <2>2, <2>3, Zenon DEF SklInv, Shape
<1>2. CASE \E k \in Key, h \in Height, n \in Nodes : SklInsert(k, h, n)
  <2>0. PICK k \in Key, h \in Height, n \in Nodes : SklInsert(k, h, n)
    BY <1>2
  <2>1. Single(n, k, h)' /\ Statistics'
    BY <2>0, InsertMakesSingle
  <2>2. live' = TRUE /\ failed' = failed /\ atStart' = atStart /\ lvlCnt' \in [Level -> Int]
    <3>1. live' = live /\ live = TRUE /\ failed' = failed /\ atStart' = atStart
      BY <2>0 DEF SklInsert, SklInv
    <3>2. lvlCnt' = [i \in Level |-> lvlCnt'[i]]
      BY <2>0 DEF SklInsert, SklInv
    <3> QED
      BY <2>1, <3>1, <3>2, StatisticsNumbers
  <2>3. Shape'
    BY <2>1 DEF Shape
  <2> QED
    BY <2>1, <2>2, <2>3, Zenon DEF SklInv
<1>3. CASE \E h \in Height : SklInsertFaults(h)
  <2>0. PICK h \in Height : SklInsertFaults(h)
    BY <1>3
  <2>1. fault' # "none" /\ live' = live /\ failed' = failed /\ atStart' = atStart
    BY <2>0 DEF SklInsertFaults
  <2>2. lvlCnt' \in [Level -> Int]
    BY <1>0, <2>0 DEF SklInsertFaults, SklInv
  <2> QED
    BY <2>1, <2>2, Zenon DEF SklInv
<1>4. CASE \E h \in Height : SklInsertFails(h)
  <2>0. PICK h \in Height : SklInsertFails(h)
    BY <1>4
  <2>1. /\ UNCHANGED <<fault, live, heap, level, length, tail, atStart>>
        /\ lvlCnt' = [lvlCnt EXCEPT ![h] = @ + 1] /\ failed' = [failed EXCEPT ![h] = @ + 1]
        /\ Ready
    BY <2>0 DEF SklInsertFails
  <2>2. lvlCnt' \in [Level -> Int] /\ failed' \in [Level -> Nat]
    BY <1>0, <2>1 DEF SklInv
  <2>3. Shape'
    BY <2>1 DEF SklInv, Shape, Bare, Single
  <2>4. Statistics'
    <3>1. ASSUME NEW i \in Level
          PROVE  /\ atStart'[i] \in Int /\ failed'[i] \in Nat /\ IsFiniteSet(Heights(i)')
                 /\ lvlCnt'[i] = atStart'[i] + failed'[i] + Cardinality(Heights(i)')
      <4>1. Heights(i)' = Heights(i)
        BY <2>1 DEF Heights
      <4>2. IsFiniteSet(Heights(i)) /\ lvlCnt[i] = atStart[i] + failed[i] + Cardinality(Heights(i))
        BY <2>1 DEF SklInv, Statistics
      <4>3. Cardinality(Heights(i)) \in Nat
        BY <4>2, FS_CardinalityType
      <4>4. IsFiniteSet(Heights(i)') /\ Cardinality(Heights(i)') = Cardinality(Heights(i))
        BY <4>1, <4>2, Zenon
      <4>5. failed[i] \in Nat /\ atStart[i] \in Int /\ atStart'[i] = atStart[i]
            /\ failed'[i] = (IF i = h THEN failed[i] + 1 ELSE failed[i])
            /\ lvlCnt'[i] = (IF i = h THEN lvlCnt[i] + 1 ELSE lvlCnt[i])
        BY <2>1 DEF SklInv
      <4> HIDE DEF Heights
      <4> QED
        BY <4>2, <4>3, <4>4, <4>5
    <3> QED
      BY <3>1 DEF Statistics
  <2> QED
    BY <2>1, <2>2, <2>3, <2>4 DEF SklInv
<1>5. CASE \E k \in Key : SklFindGet(k)
  <2>0. PICK k \in Key : SklFindGet(k)
    BY <1>5
  <2>1. Bare' /\ Statistics'
    BY <2>0, RemovalMakesBare
  <2>2. live' = live /\ failed' = failed /\ atStart' = atStart /\ live = TRUE
    BY <2>0 DEF SklFindGet, SklInv
  <2>3. lvlCnt' \in [Level -> Int]
    <3>1. lvlCnt' = [i \in Level |-> lvlCnt'[i]]
      BY <2>0 DEF SklFindGet, DeleteNode, SklInv
    <3> QED
      BY <2>1, <3>1, StatisticsNumbers
  <2> QED
    BY <2>1, <2>2, <2>3, Zenon DEF SklInv, Shape
<1>6. CASE SklFlushAll
  <2>1. Bare' /\ Statistics'
    BY <1>6, FlushMakesBare
  <2>2. live' = live /\ failed' = failed /\ atStart' = atStart /\ live = TRUE
    BY <1>6 DEF SklFlushAll, SklInv
  <2>3. lvlCnt' \in [Level -> Int]
    <3>1. lvlCnt' = [i \in Level |-> lvlCnt'[i]]
      BY <1>6 DEF SklFlushAll
    <3> QED
      BY <2>1, <3>1, StatisticsNumbers
  <2> QED
    BY <2>1, <2>2, <2>3, Zenon DEF SklInv, Shape
<1>7. CASE SklDestroy
  <2>1. fault' # "none" /\ live' = live /\ lvlCnt' = lvlCnt /\ failed' = failed
        /\ atStart' = atStart
    BY <1>7 DEF SklDestroy
  <2> QED
    BY <2>1, Zenon DEF SklInv
<1>8. CASE Restart
  <2>1. /\ live' = FALSE
        /\ lvlCnt' = [i \in Level |-> 0] /\ failed' = [i \in Level |-> 0]
        /\ atStart' = [i \in Level |-> 0]
    BY <1>8 DEF Restart
  <2>2. lvlCnt' \in [Level -> Int] /\ failed' \in [Level -> Nat]
        /\ atStart' \in [Level -> Int]
        /\ \A i \in Level : failed'[i] = 0
    BY <2>1
  <2> QED
    BY <2>1, <2>2, Zenon DEF SklInv
<1>9. CASE UNCHANGED sklVars
  <2>1. UNCHANGED <<fault, live, heap, level, length, tail, lvlCnt, failed, atStart>>
    BY <1>9 DEF sklVars
  <2>2. Shape' <=> Shape
    BY <2>1 DEF Shape, Bare, Single
  <2>3. Statistics' <=> Statistics
    <3>1. \A i : Heights(i)' = Heights(i)
      BY <2>1 DEF Heights
    <3> QED
      BY <2>1, <3>1, Zenon DEF Statistics
  <2> QED
    BY <2>1, <2>2, <2>3, Zenon DEF SklInv
<1> QED
  BY <1>1, <1>2, <1>3, <1>4, <1>5, <1>6, <1>7, <1>8, <1>9, Zenon DEF SklNext

\* The invariant holds of every state of the skip list.
LEMMA SklInvariant == SklSpec => []SklInv
<1>1. SklInit => SklInv
  <2> SUFFICES ASSUME SklInit PROVE SklInv
    OBVIOUS
  <2>1. /\ live = FALSE /\ lvlCnt = [i \in Level |-> 0] /\ failed = [i \in Level |-> 0]
        /\ atStart = [i \in Level |-> 0]
    BY DEF SklInit, NoList
  <2>2. lvlCnt \in [Level -> Int] /\ failed \in [Level -> Nat] /\ atStart \in [Level -> Int]
        /\ \A i \in Level : failed[i] = 0
    BY <2>1
  <2> QED
    BY <2>1, <2>2, Zenon DEF SklInv, Ready
<1>2. SklInv /\ [SklNext]_sklVars => SklInv'
  BY SklInvKept
<1> QED
  BY <1>1, <1>2, PTL DEF SklSpec

\* An insert into an empty skip list never ends the process, whatever was put into
\* it and taken out of it before: nothing of the levels it had is left.
THEOREM EmptyAlwaysTakesInserts == SklSpec => EmptyTakesInserts
<1> DEFINE A == fault = "none" /\ fault' = "insert" => length > 0
<1>1. SklInv /\ [SklNext]_sklVars => [A]_sklVars
  <2> SUFFICES ASSUME SklInv, SklNext, fault = "none", fault' = "insert"
               PROVE  length > 0
    OBVIOUS
  <2>1. PICK h \in Height : SklInsertFaults(h)
    <3>1. ~SklCreate /\ ~SklFlushAll /\ ~SklDestroy /\ ~Restart
      <4>1. ~SklCreate
        BY DEF SklCreate
      <4>2. ~SklFlushAll
        BY DEF SklFlushAll
      <4>3. ~SklDestroy
        BY DEF SklDestroy
      <4>4. ~Restart
        BY DEF Restart
      <4> QED
        BY <4>1, <4>2, <4>3, <4>4
    <3>2. ASSUME NEW k \in Key PROVE ~SklFindGet(k)
      BY DEF SklFindGet
    <3>3. ASSUME NEW k \in Key, NEW h \in Height, NEW n \in Nodes
          PROVE  ~SklInsert(k, h, n)
      BY DEF SklInsert
    <3>4. ASSUME NEW h \in Height PROVE ~SklInsertFails(h)
      BY DEF SklInsertFails
    <3> QED
      BY <3>1, <3>2, <3>3, <3>4, Zenon DEF SklNext
  <2>2. Shape /\ level > 0
    BY <2>1 DEF SklInv, SklInsertFaults
  <2>3. ~Bare
    BY <2>2 DEF Bare
  <2>4. PICK n \in Nodes, k \in Key, m \in Height : Single(n, k, m)
    BY <2>2, <2>3, Zenon DEF Shape
  <2>5. length = 1
    BY <2>4, Zenon DEF Single
  <2> QED
    BY <2>5
<1> QED
  BY <1>1, SklInvariant, PTL DEF SklSpec, EmptyTakesInserts

\* The statistics of the skip list count every node that is in use, on top of what
\* skl_create and the failed calls of scalloc leave in the counters.
THEOREM SkipListCountsExactly == SklSpec => []CountsExact
<1>1. SklInv => CountsExact
  <2>1. CASE Ready
    BY <2>1, StatisticsExact DEF SklInv
  <2>2. CASE ~Ready
    BY <2>2 DEF CountsExact
  <2> QED
    BY <2>1, <2>2
<1> QED
  BY <1>1, SklInvariant, PTL
=============================================================================
