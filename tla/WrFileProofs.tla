---------------------------- MODULE WrFileProofs ----------------------------
(***************************************************************************)
(* The file objects, for any number of objects, files and chunks.  The     *)
(* invariant of the proofs says which chunk may be where: what an object   *)
(* has in its buffer is its own, in the order of its calls, and younger    *)
(* than all that it has in files.  What a buffer makes of a file is a fold *)
(* over its entries, so the first lemmas are about folds.                  *)
(***************************************************************************)
EXTENDS WrFile, WellFoundedInduction, SequenceTheorems, TLAPS

-----------------------------------------------------------------------------
(* Numbers.                                                                *)

\* A set of numbers that is not empty has a least element.
LEMMA LeastNat ==
    ASSUME NEW T \in SUBSET Nat, T # {}
    PROVE  \E x \in T : \A y \in T : x <= y
<1> DEFINE R == OpToRel(<, Nat)
<1>1. IsWellFoundedOn(R, Nat)
  BY NatLessThanWellFounded
<1>2. \A x, y \in Nat : y < x => <<y, x>> \in R
  BY DEF OpToRel
<1> HIDE DEF R
<1>3. PICK x \in T : \A y \in T : ~(<<y, x>> \in R)
  BY <1>1, WFMin
<1>4. \A y \in T : ~(y < x)
  BY <1>2, <1>3
<1> QED
  BY <1>4

\* Induction, for a set.
LEMMA Induction ==
    ASSUME NEW S, 0 \in S, \A n \in Nat : n \in S => n + 1 \in S
    PROVE  Nat \subseteq S
<1> SUFFICES ASSUME Nat \ S # {} PROVE FALSE
  OBVIOUS
<1>1. PICK x \in Nat \ S : \A y \in Nat \ S : x <= y
  BY LeastNat
<1>2. x # 0 /\ x - 1 \in Nat
  BY <1>1
<1>3. x - 1 \in S
  BY <1>1, <1>2
<1> QED
  BY <1>1, <1>2, <1>3

\* Max is what it should be on the sets of positions.
LEMMA MaxIs ==
    ASSUME NEW S \in SUBSET Int, NEW x \in S, \A y \in S : y <= x
    PROVE  Max(S) = x
<1>1. \A y \in S : x >= y
  OBVIOUS
<1>2. \A z \in S : (\A y \in S : z >= y) => z = x
  OBVIOUS
<1> QED
  BY <1>1, <1>2 DEF Max

\* The largest of some positions is one of them.
LEMMA MaxIn ==
    ASSUME NEW n \in Nat, NEW S \in SUBSET (1..n), S # {}
    PROVE  Max(S) \in S /\ \A y \in S : y <= Max(S)
<1> DEFINE T == {n - x : x \in S}
<1>0. PICK z \in S : TRUE
  OBVIOUS
<1>1. T \in SUBSET Nat /\ n - z \in T
  BY <1>0
<1>2. PICK t \in T : \A y \in T : t <= y
  BY <1>1, LeastNat
<1>3. PICK x \in S : t = n - x
  BY <1>2
<1>4. ASSUME NEW y \in S PROVE y <= x
  <2>1. n - y \in T
    OBVIOUS
  <2>2. n - x <= n - y
    BY <2>1, <1>2, <1>3
  <2>3. x \in Int /\ y \in Int
    OBVIOUS
  <2> QED
    BY <2>2, <2>3
<1>5. Max(S) = x
  BY <1>4, MaxIs
<1> QED
  BY <1>4, <1>5

-----------------------------------------------------------------------------
(* What Drained does: its fold goes through the entries one by one.        *)

\* f is the fold over the entries of s, for every set of positions.
Folds(f, b, s) ==
    f = [t \in SUBSET DOMAIN s |->
           IF t = {} THEN b
           ELSE LET x == Max(t) IN Put(f[t \ {x}], s[x])]

\* FoldLeft is the value of such an f for all positions.
LEMMA FoldIs ==
    ASSUME NEW b, NEW s
    PROVE  FoldLeft(Put, b, s) = (CHOOSE f : Folds(f, b, s))[DOMAIN s]
BY DEF FoldLeft, MapThenFoldSet, Folds
\* There is such an f, over the first n entries.
FoldsTo(f, b, s, n) ==
    /\ f = [t \in SUBSET (1..n) |-> f[t]]
    /\ f[{}] = b
    /\ \A t \in SUBSET (1..n) : t # {} => f[t] = Put(f[t \ {Max(t)}], s[Max(t)])

\* Whatever is folded, such an f exists.
LEMMA FoldsOn ==
    ASSUME NEW b, NEW s
    PROVE  \A n \in Nat : \E f : FoldsTo(f, b, s, n)
<1> DEFINE S == {n \in Nat : \E f : FoldsTo(f, b, s, n)}
<1>1. 0 \in S
  <2> DEFINE f == [t \in SUBSET (1..0) |-> b]
  <2>1. 1..0 = {}
    OBVIOUS
  <2>2. FoldsTo(f, b, s, 0)
    BY <2>1 DEF FoldsTo
  <2> QED
    BY <2>2
<1>2. ASSUME NEW n \in Nat, n \in S PROVE n + 1 \in S
  <2>1. PICK f : FoldsTo(f, b, s, n)
    BY <1>2
  <2> DEFINE g == [t \in SUBSET (1..(n + 1)) |->
                     IF n + 1 \in t THEN Put(f[t \ {n + 1}], s[n + 1]) ELSE f[t]]
  <2>2. g = [t \in SUBSET (1..(n + 1)) |-> g[t]]
    OBVIOUS
  <2>3. g[{}] = b
    BY <2>1 DEF FoldsTo
  <2>4. ASSUME NEW t \in SUBSET (1..(n + 1)), t # {}
        PROVE  g[t] = Put(g[t \ {Max(t)}], s[Max(t)])
    <3>1. CASE n + 1 \in t
      <4>1. Max(t) = n + 1
        <5>1. t \in SUBSET Int /\ \A y \in t : y <= n + 1
          OBVIOUS
        <5> QED
          BY <3>1, <5>1, MaxIs
      <4>2. g[t] = Put(f[t \ {n + 1}], s[n + 1])
        BY <3>1
      <4>3. t \ {n + 1} \in SUBSET (1..(n + 1)) /\ n + 1 \notin t \ {n + 1}
        OBVIOUS
      <4>4. g[t \ {n + 1}] = f[t \ {n + 1}]
        BY <4>3
      <4> HIDE DEF g
      <4> QED
        BY <4>1, <4>2, <4>4
    <3>2. CASE n + 1 \notin t
      <4>1. t \in SUBSET (1..n)
        BY <3>2
      <4>2. Max(t) \in t
        BY <4>1, <2>4, MaxIn
      <4>3. t \ {Max(t)} \in SUBSET (1..(n + 1)) /\ n + 1 \notin t \ {Max(t)}
        BY <3>2
      <4>4. g[t] = f[t]
        BY <3>2
      <4>5. g[t \ {Max(t)}] = f[t \ {Max(t)}]
        BY <4>3
      <4>6. f[t] = Put(f[t \ {Max(t)}], s[Max(t)])
        BY <4>1, <2>1, <2>4 DEF FoldsTo
      <4> HIDE DEF g
      <4> QED
        BY <4>4, <4>5, <4>6
    <3> QED
      BY <3>1, <3>2
  <2> HIDE DEF g
  <2>5. FoldsTo(g, b, s, n + 1)
    BY <2>2, <2>3, <2>4 DEF FoldsTo
  <2> QED
    BY <2>5
<1> HIDE DEF S
<1>3. Nat \subseteq S
  BY <1>1, <1>2, Induction
<1> QED
  BY <1>3 DEF S

\* v is what n entries make of b, one after the other.
Through(v, b, s, n) == \E f :
    /\ v = f[1..n]
    /\ f[{}] = b
    /\ \A k \in 1..n : f[1..k] = Put(f[1..(k - 1)], s[k])

\* FoldLeft puts the entries one after the other.
LEMMA Folded ==
    ASSUME NEW b, NEW s, NEW n \in Nat, DOMAIN s = 1..n
    PROVE  Through(FoldLeft(Put, b, s), b, s, n)
<1> DEFINE f == CHOOSE g : Folds(g, b, s)
<1>1. PICK g : FoldsTo(g, b, s, n)
  BY FoldsOn
<1>2. Folds(g, b, s)
  <2>1. \A t \in SUBSET (1..n) : g[t] = IF t = {} THEN b ELSE Put(g[t \ {Max(t)}], s[Max(t)])
    BY <1>1 DEF FoldsTo
  <2>2. g = [t \in SUBSET (1..n) |-> g[t]]
    BY <1>1 DEF FoldsTo
  <2> QED
    BY <2>1, <2>2 DEF Folds
<1>3. Folds(f, b, s)
  BY <1>2
<1>4. FoldLeft(Put, b, s) = f[1..n]
  BY FoldIs
<1> HIDE DEF f
<1>5. f[{}] = b
  BY <1>3 DEF Folds
<1>6. ASSUME NEW k \in 1..n PROVE f[1..k] = Put(f[1..(k - 1)], s[k])
  <2>1. 1..k \in SUBSET (1..n) /\ 1..k # {} /\ k \in 1..k
    <3>1. k \in 1..k /\ \A i \in 1..k : i \in 1..n
      OBVIOUS
    <3> QED
      BY <3>1
  <2>2. Max(1..k) = k
    <3>1. 1..k \in SUBSET Int /\ \A y \in 1..k : y <= k
      OBVIOUS
    <3> QED
      BY <2>1, <3>1, MaxIs
  <2>3. (1..k) \ {k} = 1..(k - 1)
    OBVIOUS
  <2>4. f[1..k] = Put(f[(1..k) \ {Max(1..k)}], s[Max(1..k)])
    BY <1>3, <2>1 DEF Folds
  <2> QED
    BY <2>2, <2>3, <2>4
<1>7. \A k \in 1..n : f[1..k] = Put(f[1..(k - 1)], s[k])
  BY <1>6
<1> QED
  BY <1>4, <1>5, <1>7, Zenon DEF Through

\* No entry; one; any number of appends.
LEMMA FoldsNone ==
    ASSUME NEW b
    PROVE  FoldLeft(Put, b, <<>>) = b
<1>1. DOMAIN <<>> = 1..0 /\ 0 \in Nat
  OBVIOUS
<1>2. Through(FoldLeft(Put, b, <<>>), b, <<>>, 0)
  BY <1>1, Folded, Zenon
<1>3. 1..0 = {}
  OBVIOUS
<1> QED
  BY <1>2, <1>3, Zenon DEF Through

LEMMA FoldsOne ==
    ASSUME NEW b, NEW e
    PROVE  FoldLeft(Put, b, <<e>>) = Put(b, e)
<1>1. DOMAIN <<e>> = 1..1 /\ 1 \in Nat /\ 1 \in 1..1
  OBVIOUS
<1>2. Through(FoldLeft(Put, b, <<e>>), b, <<e>>, 1)
  BY <1>1, Folded, Zenon
<1>3. PICK f : /\ FoldLeft(Put, b, <<e>>) = f[1..1]
               /\ f[{}] = b
               /\ f[1..1] = Put(f[1..(1 - 1)], <<e>>[1])
  BY <1>1, <1>2, Zenon DEF Through
<1>4. 1..(1 - 1) = {} /\ <<e>>[1] = e
  OBVIOUS
<1> QED
  BY <1>3, <1>4, Zenon

ChunksOf(s) == [k \in 1..Len(s) |-> s[k].chunk]

\* Appends are put behind what is there.
LEMMA FoldsAppends ==
    ASSUME NEW b \in Seq(Chunk \cup {Hole}), NEW s \in Seq(Entry),
           \A k \in DOMAIN s : s[k].at = AtEnd
    PROVE  FoldLeft(Put, b, s) = b \o ChunksOf(s)
<1>1. DOMAIN s = 1..Len(s) /\ Len(s) \in Nat
  OBVIOUS
<1>0. Through(FoldLeft(Put, b, s), b, s, Len(s))
  BY <1>1, Folded, Zenon
<1>2. PICK f : /\ FoldLeft(Put, b, s) = f[1..Len(s)]
               /\ f[{}] = b
               /\ \A k \in 1..Len(s) : f[1..k] = Put(f[1..(k - 1)], s[k])
  BY <1>0, Zenon DEF Through
<1> DEFINE c(k) == [i \in 1..k |-> s[i].chunk]
<1> DEFINE Upto(k) == f[1..k] = b \o c(k)
<1> DEFINE S == {k \in Nat : k <= Len(s) => Upto(k)}
<1>3. 0 \in S
  <2>1. 1..0 = {} /\ c(0) = <<>>
    OBVIOUS
  <2>2. b \o <<>> = b
    OBVIOUS
  <2> QED
    BY <2>1, <2>2, <1>2
<1>4. ASSUME NEW k \in Nat, k \in S PROVE k + 1 \in S
  <2> SUFFICES ASSUME k + 1 <= Len(s) PROVE Upto(k + 1)
    <3> HIDE DEF Upto
    <3> QED
      OBVIOUS
  <2>1. k + 1 \in 1..Len(s) /\ (k + 1) - 1 = k
    OBVIOUS
  <2>2. f[1..(k + 1)] = Put(f[1..k], s[k + 1])
    BY <2>1, <1>2
  <2>3. f[1..k] = b \o c(k)
    BY <1>4
  <2>4. Put(f[1..k], s[k + 1]) = Append(b \o c(k), s[k + 1].chunk)
    BY <2>1, <2>3, <1>1 DEF Put
  <2>5. ASSUME NEW i \in 1..Len(s) PROVE s[i].chunk \in Chunk
    <3>1. s[i] \in Entry
      BY <1>1
    <3> QED
      BY <3>1 DEF Entry
  <2>6. c(k) \in Seq(Chunk) /\ c(k + 1) \in Seq(Chunk) /\ s[k + 1].chunk \in Chunk
    BY <2>1, <2>5
  <2>7. c(k + 1) = Append(c(k), s[k + 1].chunk)
    OBVIOUS
  <2> HIDE DEF c
  <2>8. ASSUME NEW x \in Seq(Chunk), NEW y \in Chunk
        PROVE  Append(b \o x, y) = b \o Append(x, y)
    <3> DEFINE T == Chunk \cup {Hole}
    <3>1. x \in Seq(T) /\ <<y>> \in Seq(T) /\ b \o x \in Seq(T) /\ y \in T
      OBVIOUS
    <3> HIDE DEF T
    <3>2. Append(b \o x, y) = (b \o x) \o <<y>> /\ Append(x, y) = x \o <<y>>
      BY <3>1, AppendIsConcat
    <3>3. (b \o x) \o <<y>> = b \o (x \o <<y>>)
      BY <3>1, ConcatAssociative DEF T
    <3> QED
      BY <3>2, <3>3
  <2>9. Append(b \o c(k), s[k + 1].chunk) = b \o Append(c(k), s[k + 1].chunk)
    BY <2>6, <2>8
  <2> QED
    BY <2>2, <2>4, <2>7, <2>9
<1> HIDE DEF S
<1>5. Nat \subseteq S
  BY <1>3, <1>4, Induction
<1>6. f[1..Len(s)] = b \o c(Len(s))
  BY <1>5, <1>1 DEF S
<1> QED
  BY <1>2, <1>6 DEF ChunksOf
-----------------------------------------------------------------------------
(* The invariant.                                                          *)

Chunks == Seq(Chunk \cup {Hole})

\* The files hold chunks that were made.
Numbered(d, a) == \A i \in Inode : \A p \in DOMAIN d[i] : d[i][p] \in 0..Len(a)

\* AppendedInOrder, of any files d and authors a.
InOrder(d, a) ==
    \A i \in Inode : \A p, q \in DOMAIN d[i] :
        (p < q /\ Hole \notin {d[i][p], d[i][q]} /\ a[d[i][p]] = a[d[i][q]]
            /\ kind[a[d[i][p]]] = "append") => d[i][p] < d[i][q]

\* A buffer holds chunks of its own object, in the order in which they were
\* made: any number of them at the end, or one at a position.
Buffered(b, a) == \A h \in Handle :
    /\ \A k \in DOMAIN b[h] : b[h][k].chunk \in 1..Len(a) /\ a[b[h][k].chunk] = h
    /\ \A k, l \in DOMAIN b[h] : k < l => b[h][k].chunk < b[h][l].chunk
    /\ kind[h] = "append" => \A k \in DOMAIN b[h] : b[h][k].at = AtEnd
    /\ kind[h] = "write" => Len(b[h]) <= 1 /\ \A k \in DOMAIN b[h] : b[h][k].at \in Nat
    /\ kind[h] = "read" => b[h] = <<>>

\* What an object has in a buffer was made after all that it has in files.
Later(d, b, a) == \A h \in Handle : \A k \in DOMAIN b[h] :
    \A i \in Inode : \A p \in DOMAIN d[i] :
        d[i][p] # Hole /\ a[d[i][p]] = h => d[i][p] < b[h][k].chunk

Sound(d, b, a) ==
    /\ d \in [Inode -> Chunks]
    /\ b \in [Handle -> Seq(Entry)]
    /\ Numbered(d, a) /\ InOrder(d, a) /\ Buffered(b, a) /\ Later(d, b, a)

\* Put at a position.
LEMMA PutAt ==
    ASSUME NEW b \in Chunks, NEW e \in Entry, e.at \in Nat
    PROVE  /\ Put(b, e) \in Chunks
           /\ \A p \in DOMAIN Put(b, e) :
                 \/ Put(b, e)[p] \in {Hole, e.chunk}
                 \/ p \in DOMAIN b /\ Put(b, e)[p] = b[p]
           /\ \A p \in DOMAIN b : p \in DOMAIN Put(b, e)
                                /\ (p # e.at + 1 => Put(b, e)[p] = b[p])
           /\ e.at + 1 \in DOMAIN Put(b, e) /\ Put(b, e)[e.at + 1] = e.chunk
<1> DEFINE n == Max({Len(b), e.at + 1})
<1>1. Len(b) \in Nat /\ e.at + 1 \in Nat /\ e.at # AtEnd
  BY DEF Chunks, AtEnd
<1>2. n \in Nat /\ Len(b) <= n /\ e.at + 1 <= n
  <2>1. {Len(b), e.at + 1} \in SUBSET Int
    BY <1>1
  <2> DEFINE S == {Len(b), e.at + 1}
  <2>2. \E x \in S : \A y \in S : y <= x
    <3>1. CASE Len(b) <= e.at + 1
      BY <1>1, <3>1
    <3>2. CASE ~(Len(b) <= e.at + 1)
      <4>1. e.at + 1 <= Len(b)
        BY <1>1, <3>2
      <4> QED
        BY <1>1, <4>1
    <3> QED
      BY <3>1, <3>2
  <2>3. S \in SUBSET Nat
    BY <1>1
  <2> HIDE DEF S
  <2>4. Max(S) \in Nat /\ \A y \in S : y <= Max(S)
    BY <2>1, <2>2, <2>3, MaxIs DEF S
  <2> QED
    BY <2>4 DEF n, S
<1> HIDE DEF n
<1> DEFINE v(i) == CASE i = e.at + 1 -> e.chunk
                     [] i # e.at + 1 /\ i <= Len(b) -> b[i]
                     [] OTHER -> Hole
<1>3. Put(b, e) = [i \in 1..n |-> v(i)]
  BY <1>1 DEF Put, n
<1>4. e.chunk \in Chunk
  BY DEF Entry
<1>5. ASSUME NEW i \in 1..n
      PROVE  /\ v(i) \in Chunk \cup {Hole}
             /\ v(i) \in {Hole, e.chunk} \/ (i \in DOMAIN b /\ v(i) = b[i])
  BY <1>1, <1>4 DEF Chunks
<1> HIDE DEF v
<1>6. DOMAIN Put(b, e) = 1..n /\ \A i \in 1..n : Put(b, e)[i] = v(i)
  BY <1>3
<1>7. Put(b, e) \in Chunks
  BY <1>2, <1>3, <1>5 DEF Chunks
<1>8. ASSUME NEW p \in DOMAIN b
      PROVE  p \in DOMAIN Put(b, e) /\ (p # e.at + 1 => Put(b, e)[p] = b[p])
  <2>1. p \in 1..Len(b) /\ p \in 1..n
    BY <1>1, <1>2 DEF Chunks
  <2> QED
    BY <1>6, <2>1 DEF v
<1>9. e.at + 1 \in DOMAIN Put(b, e) /\ Put(b, e)[e.at + 1] = e.chunk
  <2>1. e.at + 1 \in 1..n
    BY <1>1, <1>2
  <2> QED
    BY <1>6, <2>1 DEF v
<1> QED
  BY <1>5, <1>6, <1>7, <1>8, <1>9

\* What a file holds when a buffer was written out: what it held, behind it in
\* order what was appended, and somewhere what was written.
LEMMA DrainedPositions ==
    ASSUME TypeOK, Sound(data, buf, author), NEW h \in Handle, file[h] # NULL
    PROVE  /\ Drained(h) \in Chunks
           /\ \A p \in DOMAIN Drained(h) :
                 \/ Drained(h)[p] = Hole
                 \/ /\ p \in DOMAIN data[file[h]]
                    /\ Drained(h)[p] = data[file[h]][p]
                 \/ \E k \in DOMAIN buf[h] :
                       /\ Drained(h)[p] = buf[h][k].chunk
                       /\ kind[h] = "append" => p = Len(data[file[h]]) + k
<1> DEFINE b == data[file[h]]
<1> DEFINE s == buf[h]
<1>1. b \in Chunks /\ s \in Seq(Entry) /\ file[h] \in Inode
  BY DEF TypeOK, Sound
<1>2. Drained(h) = FoldLeft(Put, b, s)
  BY Zenon DEF Drained
<1> HIDE DEF b
<1>3. CASE s = <<>>
  <2>1. Drained(h) = b
    BY <1>2, <1>3, FoldsNone, Zenon
  <2> QED
    BY <1>1, <2>1 DEF b
<1>4. CASE kind[h] = "append"
  <2>1. \A k \in DOMAIN s : s[k].at = AtEnd
    BY <1>4 DEF Sound, Buffered
  <2>2. b \in Seq(Chunk \cup {Hole})
    BY <1>1 DEF Chunks
  <2> HIDE DEF s
  <2>3. Drained(h) = b \o ChunksOf(s)
    BY <1>1, <1>2, <2>1, <2>2, FoldsAppends, Zenon
  <2>4. DOMAIN s = 1..Len(s) /\ Len(s) \in Nat
    BY <1>1
  <2>5. ASSUME NEW k \in 1..Len(s) PROVE s[k].chunk \in Chunk
    <3>1. s[k] \in Entry
      BY <1>1, <2>4
    <3> QED
      BY <3>1 DEF Entry
  <2>6. ChunksOf(s) \in Seq(Chunk) /\ Len(ChunksOf(s)) = Len(s)
        /\ \A k \in 1..Len(s) : ChunksOf(s)[k] = s[k].chunk
    BY <2>4, <2>5 DEF ChunksOf
  <2>9. ChunksOf(s) \in Chunks
    BY <2>6 DEF Chunks
  <2>7. Drained(h) \in Chunks /\ DOMAIN Drained(h) = 1..(Len(b) + Len(s))
    <3>1. ASSUME NEW c \in Chunks
          PROVE  b \o c \in Chunks /\ DOMAIN (b \o c) = 1..(Len(b) + Len(c))
      BY <1>1 DEF Chunks
    <3> QED
      BY <2>3, <2>6, <2>9, <3>1
  <2>8. ASSUME NEW p \in 1..(Len(b) + Len(s))
        PROVE  \/ p \in DOMAIN b /\ Drained(h)[p] = b[p]
               \/ \E k \in DOMAIN s : Drained(h)[p] = s[k].chunk /\ p = Len(b) + k
    <3>1. CASE p <= Len(b)
      BY <2>2, <2>3, <2>6, <3>1
    <3>2. CASE p > Len(b)
      <4>1. p - Len(b) \in 1..Len(s) /\ p = Len(b) + (p - Len(b))
        BY <2>2, <2>4, <3>2
      <4>2. Drained(h)[p] = ChunksOf(s)[p - Len(b)]
        BY <2>2, <2>3, <2>6, <2>4, <3>2
      <4> QED
        BY <4>1, <4>2, <2>6, <2>4
    <3> QED
      BY <3>1, <3>2, <2>2
  <2> QED
    BY <2>7, <2>8 DEF b, s
<1>5. CASE kind[h] = "write" /\ s # <<>>
  <2>1. Len(s) <= 1 /\ \A k \in DOMAIN s : s[k].at \in Nat
    BY <1>5 DEF Sound, Buffered
  <2>2. DOMAIN s = {1} /\ s = <<s[1]>> /\ s[1] \in Entry
    BY <1>1, <1>5, <2>1
  <2>3. Drained(h) = Put(b, s[1])
    BY <1>2, <2>2, FoldsOne, Zenon
  <2> QED
    BY <1>1, <1>5, <2>1, <2>2, <2>3, PutAt DEF b
<1>6. kind[h] = "append" \/ kind[h] = "write" \/ s = <<>>
  BY DEF TypeOK, Kind, Sound, Buffered
<1> QED
  BY <1>3, <1>4, <1>5, <1>6
\* Writing a buffer out keeps files and buffers sound.
LEMMA DrainSound ==
    ASSUME TypeOK, Sound(data, buf, author), NEW h \in Handle, file[h] # NULL
    PROVE  Sound([data EXCEPT ![file[h]] = Drained(h)], [buf EXCEPT ![h] = <<>>], author)
<1> DEFINE f == file[h]
<1> DEFINE d == [data EXCEPT ![f] = Drained(h)]
<1> DEFINE b == [buf EXCEPT ![h] = <<>>]
<1>1. f \in Inode
  BY DEF TypeOK
<1>2. Drained(h) \in Chunks
  BY DrainedPositions
<1>3. d \in [Inode -> Chunks] /\ b \in [Handle -> Seq(Entry)]
  <2>1. d \in [Inode -> Chunks]
    BY <1>2 DEF Sound
  <2>2. b \in [Handle -> Seq(Entry)]
    <3>1. <<>> \in Seq(Entry)
      OBVIOUS
    <3> QED
      BY <3>1 DEF Sound
  <2> QED
    BY <2>1, <2>2
\* Where a chunk of d comes from.
<1>4. ASSUME NEW i \in Inode, NEW p \in DOMAIN d[i]
      PROVE  \/ d[i][p] = Hole
             \/ p \in DOMAIN data[i] /\ d[i][p] = data[i][p]
             \/ /\ i = f
                /\ \E k \in DOMAIN buf[h] :
                      /\ d[i][p] = buf[h][k].chunk
                      /\ kind[h] = "append" => p = Len(data[f]) + k
  <2>1. CASE i = f
    <3>1. d[i] = Drained(h)
      BY <1>1, <2>1 DEF Sound
    <3> QED
      BY <2>1, <3>1, DrainedPositions
  <2>2. CASE i # f
    <3>1. d[i] = data[i]
      BY <2>2 DEF Sound
    <3> QED
      BY <3>1
  <2> QED
    BY <2>1, <2>2
<1>5. \A g \in Handle : b[g] = IF g = h THEN <<>> ELSE buf[g]
  BY DEF Sound
<1>6. \A i \in Inode : \A p \in DOMAIN data[i] : data[i][p] \in 0..Len(author)
  BY DEF Sound, Numbered
<1>7. \A k \in DOMAIN buf[h] : buf[h][k].chunk \in 1..Len(author) /\ author[buf[h][k].chunk] = h
  BY DEF Sound, Buffered
<1>l. Len(author) \in Nat /\ Len(data[f]) \in Nat /\ DOMAIN data[f] = 1..Len(data[f])
  BY <1>1 DEF TypeOK
<1>t. DOMAIN buf[h] \subseteq Nat
  BY DEF TypeOK
<1> HIDE DEF d, b, f
<1>8. Numbered(d, author)
  <2> SUFFICES ASSUME NEW i \in Inode, NEW p \in DOMAIN d[i] PROVE d[i][p] \in 0..Len(author)
    BY DEF Numbered
  <2>1. CASE d[i][p] = Hole
    BY <2>1, <1>l DEF Hole
  <2>2. CASE p \in DOMAIN data[i] /\ d[i][p] = data[i][p]
    BY <2>2, <1>6
  <2>3. CASE \E k \in DOMAIN buf[h] : d[i][p] = buf[h][k].chunk
    BY <2>3, <1>7, <1>l
  <2> QED
    BY <1>4, <2>1, <2>2, <2>3
<1>9. InOrder(d, author)
  <2> SUFFICES ASSUME NEW i \in Inode, NEW p \in DOMAIN d[i], NEW q \in DOMAIN d[i],
                      p < q, Hole \notin {d[i][p], d[i][q]},
                      author[d[i][p]] = author[d[i][q]], kind[author[d[i][p]]] = "append"
               PROVE  d[i][p] < d[i][q]
    BY DEF InOrder
  <2>1. CASE /\ p \in DOMAIN data[i] /\ d[i][p] = data[i][p]
             /\ q \in DOMAIN data[i] /\ d[i][q] = data[i][q]
    BY <2>1 DEF Sound, InOrder
  <2>2. CASE p \in DOMAIN data[i] /\ d[i][p] = data[i][p]
             /\ \E k \in DOMAIN buf[h] : d[i][q] = buf[h][k].chunk
    <3>1. PICK k \in DOMAIN buf[h] : d[i][q] = buf[h][k].chunk
      BY <2>2
    <3>2. author[data[i][p]] = h /\ data[i][p] # Hole
      BY <2>2, <3>1, <1>7
    <3> QED
      BY <2>2, <3>1, <3>2 DEF Sound, Later
  <2>3. CASE i = f /\ \E k \in DOMAIN buf[h] :
                         /\ d[i][p] = buf[h][k].chunk
                         /\ kind[h] = "append" => p = Len(data[f]) + k
    <3>1. PICK k \in DOMAIN buf[h] : /\ d[i][p] = buf[h][k].chunk
                                     /\ kind[h] = "append" => p = Len(data[f]) + k
      BY <2>3
    <3>2. kind[h] = "append" /\ p = Len(data[f]) + k
      BY <3>1, <1>7
    <3>3. q \notin DOMAIN data[i]
      BY <2>3, <3>2, <1>l, <1>t
    <3>4. PICK l \in DOMAIN buf[h] : /\ d[i][q] = buf[h][l].chunk
                                     /\ kind[h] = "append" => q = Len(data[f]) + l
      BY <3>3, <1>4
    <3>5. k < l
      BY <3>2, <3>4, <1>l, <1>t
    <3> QED
      BY <3>1, <3>4, <3>5 DEF Sound, Buffered
  <2> QED
    BY <1>4, <2>1, <2>2, <2>3
<1>10. Buffered(b, author)
  BY <1>5 DEF Sound, Buffered
<1>11. Later(d, b, author)
  <2> SUFFICES ASSUME NEW g \in Handle, NEW k \in DOMAIN b[g],
                      NEW i \in Inode, NEW p \in DOMAIN d[i],
                      d[i][p] # Hole, author[d[i][p]] = g
               PROVE  d[i][p] < b[g][k].chunk
    BY DEF Later
  <2>1. g # h /\ b[g] = buf[g]
    BY <1>5
  <2>2. p \in DOMAIN data[i] /\ d[i][p] = data[i][p]
    BY <1>4, <1>7, <2>1
  <2> QED
    BY <2>1, <2>2 DEF Sound, Later
<1> QED
  BY <1>3, <1>8, <1>9, <1>10, <1>11 DEF Sound, d, b, f

\* So does a chunk that is put in a buffer: behind others that were appended,
\* or into one that is empty.
LEMMA AddSound ==
    ASSUME NEW d, NEW b, NEW a \in Seq(Handle), Sound(d, b, a), Len(a) < MaxChunks,
           NEW h \in Handle, NEW at \in Nat \cup {AtEnd},
           \/ kind[h] = "append" /\ at = AtEnd
           \/ kind[h] = "write" /\ at \in Nat /\ b[h] = <<>>
    PROVE  Sound(d, [b EXCEPT ![h] = Append(@, [at |-> at, chunk |-> Len(a) + 1])],
                 Append(a, h))
<1> DEFINE n == Len(a) + 1
<1> DEFINE e == [at |-> at, chunk |-> n]
<1> DEFINE c == [b EXCEPT ![h] = Append(@, e)]
<1> DEFINE z == Append(a, h)
<1> USE OffsetAssumption
<1>1. n \in Chunk /\ n \in Nat /\ Len(a) \in Nat /\ Len(a) = n - 1
  BY DEF Chunk
<1>2. e \in Entry
  BY <1>1 DEF Entry
<1>3. z \in Seq(Handle) /\ Len(z) = n /\ z[n] = h /\ \A i \in 1..(n - 1) : z[i] = a[i]
  OBVIOUS
<1>4. b \in [Handle -> Seq(Entry)]
  BY DEF Sound
<1>5. c \in [Handle -> Seq(Entry)]
  BY <1>2, <1>4
<1>6. \A g \in Handle \ {h} : c[g] = b[g]
  BY <1>4
<1>7. /\ c[h] = Append(b[h], e) /\ Len(b[h]) \in Nat /\ DOMAIN b[h] = 1..Len(b[h])
      /\ DOMAIN c[h] = 1..(Len(b[h]) + 1)
      /\ \A k \in DOMAIN b[h] : c[h][k] = b[h][k]
      /\ c[h][Len(b[h]) + 1] = e
  BY <1>2, <1>4
<1>8. e.at = at /\ e.chunk = n
  OBVIOUS
<1> HIDE DEF n, e, c, z
<1>9. Numbered(d, z)
  BY <1>1, <1>3 DEF Sound, Numbered
<1>10. \A i \in Inode : \A p \in DOMAIN d[i] : d[i][p] # Hole => d[i][p] \in 1..(n - 1)
  BY <1>1 DEF Sound, Numbered, Hole
<1>11. InOrder(d, z)
  <2> SUFFICES ASSUME NEW i \in Inode, NEW p \in DOMAIN d[i], NEW q \in DOMAIN d[i],
                      p < q, Hole \notin {d[i][p], d[i][q]},
                      z[d[i][p]] = z[d[i][q]], kind[z[d[i][p]]] = "append"
               PROVE  d[i][p] < d[i][q]
    BY DEF InOrder
  <2>1. z[d[i][p]] = a[d[i][p]] /\ z[d[i][q]] = a[d[i][q]]
    BY <1>3, <1>10
  <2> QED
    BY <2>1 DEF Sound, InOrder
<1>12. Buffered(c, z)
  <2> SUFFICES ASSUME NEW g \in Handle
               PROVE  /\ \A k \in DOMAIN c[g] : c[g][k].chunk \in 1..Len(z) /\ z[c[g][k].chunk] = g
                      /\ \A k, l \in DOMAIN c[g] : k < l => c[g][k].chunk < c[g][l].chunk
                      /\ kind[g] = "append" => \A k \in DOMAIN c[g] : c[g][k].at = AtEnd
                      /\ kind[g] = "write" => Len(c[g]) <= 1 /\ \A k \in DOMAIN c[g] : c[g][k].at \in Nat
                      /\ kind[g] = "read" => c[g] = <<>>
    BY DEF Buffered
  <2>1. /\ \A k \in DOMAIN b[g] : b[g][k].chunk \in 1..(n - 1) /\ a[b[g][k].chunk] = g
        /\ \A k, l \in DOMAIN b[g] : k < l => b[g][k].chunk < b[g][l].chunk
        /\ kind[g] = "append" => \A k \in DOMAIN b[g] : b[g][k].at = AtEnd
        /\ kind[g] = "write" => Len(b[g]) <= 1 /\ \A k \in DOMAIN b[g] : b[g][k].at \in Nat
        /\ kind[g] = "read" => b[g] = <<>>
    BY <1>1 DEF Sound, Buffered
  <2>2. \A k \in DOMAIN b[g] : b[g][k].chunk \in 1..n /\ z[b[g][k].chunk] = g
    BY <2>1, <1>1, <1>3
  <2>3. CASE g # h
    BY <2>1, <2>2, <2>3, <1>3, <1>6
  <2>4. CASE g = h
    <3>1. \A k \in DOMAIN c[g] : c[g][k].chunk \in 1..Len(z) /\ z[c[g][k].chunk] = g
      BY <2>2, <2>4, <1>1, <1>3, <1>7, <1>8
    <3>2. ASSUME NEW k \in DOMAIN c[g], NEW l \in DOMAIN c[g], k < l
          PROVE  c[g][k].chunk < c[g][l].chunk
      <4>1. k \in DOMAIN b[h]
        BY <3>2, <2>4, <1>7
      <4>2. CASE l = Len(b[h]) + 1
        BY <4>1, <4>2, <2>1, <2>4, <1>1, <1>7, <1>8
      <4>3. CASE l \in DOMAIN b[h]
        BY <4>1, <4>3, <3>2, <2>1, <2>4, <1>7
      <4> QED
        BY <4>2, <4>3, <2>4, <1>7
    <3>3. kind[g] = "append" => \A k \in DOMAIN c[g] : c[g][k].at = AtEnd
      BY <2>1, <2>4, <1>7, <1>8
    <3>4. kind[g] = "write" => Len(c[g]) <= 1 /\ \A k \in DOMAIN c[g] : c[g][k].at \in Nat
      <4> SUFFICES ASSUME kind[g] = "write" PROVE Len(c[g]) <= 1 /\ \A k \in DOMAIN c[g] : c[g][k].at \in Nat
        OBVIOUS
      <4>1. b[h] = <<>> /\ at \in Nat
        BY <2>4
      <4>2. Len(b[h]) = 0
        BY <4>1
      <4>3. Len(c[h]) = 1
        BY <4>2, <1>7, <1>5
      <4> QED
        BY <4>1, <4>2, <4>3, <2>4, <1>7, <1>8
    <3> QED
      BY <3>1, <3>2, <3>3, <3>4, <2>4
  <2> QED
    BY <2>3, <2>4
<1>13. Later(d, c, z)
  <2> SUFFICES ASSUME NEW g \in Handle, NEW k \in DOMAIN c[g],
                      NEW i \in Inode, NEW p \in DOMAIN d[i],
                      d[i][p] # Hole, z[d[i][p]] = g
               PROVE  d[i][p] < c[g][k].chunk
    BY DEF Later
  <2>1. d[i][p] \in 1..(n - 1) /\ a[d[i][p]] = g
    BY <1>3, <1>10
  <2>2. CASE k \in DOMAIN b[g] /\ c[g][k] = b[g][k]
    BY <2>1, <2>2 DEF Sound, Later
  <2>3. CASE c[g][k] = e
    BY <2>1, <2>3, <1>1, <1>8
  <2>4. CASE g # h
    BY <2>2, <2>4, <1>6
  <2>5. CASE g = h
    BY <2>2, <2>3, <2>5, <1>7
  <2> QED
    BY <2>4, <2>5
<1> QED
  BY <1>5, <1>9, <1>11, <1>12, <1>13 DEF Sound, n, e, c, z
\* A stream is there only between calls, a buffer only with a stream, and an
\* object that is gone was not opened.
Streams == \A h \in Handle :
    /\ file[h] # NULL => state[h] = "idle"
    /\ state[h] = "none" => h \notin opened
    /\ buf[h] # <<>> => file[h] # NULL

\* Who is about to empty a file that is there, lost a race.
Races == \A h \in Handle : state[h] = "create" /\ path # NULL => h \in raced

IInv ==
    /\ TypeOK
    /\ Sound(data, buf, author)
    /\ Streams
    /\ Races
    /\ OpenedNeverFaults

\* The invariant holds at first.
LEMMA InitInv == Init => IInv
<1> SUFFICES ASSUME Init PROVE IInv
  OBVIOUS
<1> USE DEF Init
<1>1. <<>> \in Chunks /\ <<>> \in Seq(Entry) /\ <<>> \in Seq(Handle) /\ Len(<<>>) = 0
  BY DEF Chunks
<1>2. TypeOK
  BY <1>1, OffsetAssumption DEF TypeOK, Chunks
<1>3. Sound(data, buf, author)
  BY <1>1 DEF Sound, Numbered, InOrder, Buffered, Later
<1>4. Streams /\ Races /\ OpenedNeverFaults
  BY DEF Streams, Races, OpenedNeverFaults
<1> QED
  BY <1>2, <1>3, <1>4 DEF IInv

\* Nobody changes what an object is for.
LEMMA KindStays == Next => kind' = kind
BY DEF Next, Unlink, CreateFile, DestroyOpen, DestroyClosed, Access, FopenW,
       FopenWFails, OpenStream, OpenFails, CloseFile, Write, AppendTo, Flush,
       ReadUnopened, Spill, Crash

\* As kind stays, Sound may be shown of the new values with the old kind.
LEMMA SoundNext ==
    ASSUME kind' = kind, Sound(data', buf', author')
    PROVE  Sound(data, buf, author)'
BY DEF Sound, Numbered, InOrder, Buffered, Later

\* The buffer of h is written out, or h has no stream.
LEMMA DrainStep ==
    ASSUME IInv, NEW h \in Handle, Drain(h)
    PROVE  /\ Sound(data', buf', author)
           /\ buf' = [buf EXCEPT ![h] = <<>>]
<1>1. CASE file[h] = NULL
  <2>1. data' = data /\ buf[h] = <<>> /\ buf' = [buf EXCEPT ![h] = <<>>]
    BY <1>1 DEF Drain, IInv, Streams
  <2>2. buf' = buf
    BY <2>1 DEF IInv, TypeOK
  <2> QED
    BY <2>1, <2>2 DEF IInv
<1>2. CASE file[h] # NULL
  <2>1. /\ data' = [data EXCEPT ![file[h]] = Drained(h)]
        /\ buf' = [buf EXCEPT ![h] = <<>>]
    BY <1>2 DEF Drain
  <2> QED
    BY <1>2, <2>1, DrainSound DEF IInv
<1> QED
  BY <1>1, <1>2

\* Dropping a buffer, or emptying a file, leaves what is there sound.
LEMMA LessSound ==
    ASSUME NEW d, NEW b, NEW a, Sound(d, b, a)
    PROVE  /\ \A h \in Handle : Sound(d, [b EXCEPT ![h] = <<>>], a)
           /\ \A i \in Inode : Sound([d EXCEPT ![i] = <<>>], b, a)
<1>1. <<>> \in Chunks /\ <<>> \in Seq(Entry) /\ DOMAIN <<>> = {} /\ Len(<<>>) = 0
  BY DEF Chunks
<1>2. ASSUME NEW h \in Handle PROVE Sound(d, [b EXCEPT ![h] = <<>>], a)
  BY <1>1 DEF Sound, Numbered, InOrder, Buffered, Later
<1>3. ASSUME NEW i \in Inode PROVE Sound([d EXCEPT ![i] = <<>>], b, a)
  BY <1>1 DEF Sound, Numbered, InOrder, Buffered, Later
<1> QED
  BY <1>2, <1>3

\* Files and buffers stay sound.
LEMMA StepSound ==
    ASSUME IInv, Next
    PROVE  Sound(data, buf, author)'
<1> SUFFICES Sound(data', buf', author')
  BY KindStays, SoundNext
<1>0. Sound(data, buf, author)
  BY DEF IInv
<1>1. CASE Unlink
  BY <1>0, <1>1 DEF Unlink, stream, history
<1>2. ASSUME NEW h \in Handle, CreateFile(h) \/ ReadUnopened(h) \/ DestroyClosed(h) \/ Access(h)
                  \/ FopenWFails(h) \/ OpenStream(h) \/ OpenFails(h)
      PROVE  data' = data /\ buf' = buf /\ author' = author
  BY <1>2 DEF CreateFile, ReadUnopened, DestroyClosed, Access, FopenWFails,
              OpenStream, OpenFails, disk, stream, history
<1>3. ASSUME NEW h \in Handle, Flush(h) \/ Spill(h) PROVE Sound(data', buf', author')
  BY <1>3, DrainStep DEF Flush, Spill, history
<1>4. ASSUME NEW h \in Handle, CloseFile(h) \/ DestroyOpen(h) PROVE Sound(data', buf', author')
  <2>1. author' = author /\ (Drain(h) \/ (data' = data /\ buf' = buf))
    BY <1>4 DEF CloseFile, DestroyOpen, Fclose, history, stream
  <2> QED
    BY <1>0, <2>1, DrainStep
<1>5. ASSUME NEW h \in Handle, Crash(h) PROVE Sound(data', buf', author')
  BY <1>0, <1>5, LessSound DEF Crash, disk
<1>6. ASSUME NEW h \in Handle, FopenW(h) PROVE Sound(data', buf', author')
  <2>1. buf' = buf /\ author' = author
    BY <1>6 DEF FopenW, stream
  <2>2. data' = data \/ (path \in Inode /\ data' = [data EXCEPT ![path] = <<>>])
    BY <1>6 DEF FopenW, IInv, TypeOK
  <2> QED
    BY <1>0, <2>1, <2>2, LessSound
<1>7. ASSUME NEW h \in Handle, AppendTo(h) PROVE Sound(data', buf', author')
  <2> DEFINE e == [at |-> AtEnd, chunk |-> Len(author) + 1]
  <2>1. /\ kind[h] = "append" /\ Len(author) < MaxChunks /\ author \in Seq(Handle)
        /\ data' = data /\ author' = Append(author, h)
    BY <1>7 DEF AppendTo, Writable, disk, IInv, TypeOK
  <2>2. Len(author') = Len(author) + 1
    BY <2>1
  <2>3. buf' = [buf EXCEPT ![h] = Append(@, e)]
    BY <1>7, <2>2 DEF AppendTo, AppendAt
  <2> QED
    BY <1>0, <2>1, <2>3, AddSound
<1>8. ASSUME NEW h \in Handle, NEW off \in Offsets, Write(h, off)
      PROVE  Sound(data', buf', author')
  <2> DEFINE d == [data EXCEPT ![file[h]] = Drained(h)]
  <2> DEFINE b == [buf EXCEPT ![h] = <<>>]
  <2> DEFINE e == [at |-> Seek(h, off), chunk |-> Len(author) + 1]
  <2>1. /\ kind[h] = "write" /\ Len(author) < MaxChunks /\ author \in Seq(Handle)
        /\ file[h] # NULL /\ data' = d /\ author' = Append(author, h)
    BY <1>8 DEF Write, Writable, IInv, TypeOK
  <2>2. Sound(d, b, author)
    BY <2>1, DrainSound DEF IInv
  <2>3. Seek(h, off) \in Nat
    <3>1. Drained(h) \in Chunks
      BY <2>1, DrainedPositions DEF IInv
    <3>2. Len(Drained(h)) \in Nat
      BY <3>1 DEF Chunks
    <3>3. Seek(h, off) \in Int
      BY <3>2, OffsetAssumption DEF Seek
    <3> QED
      BY <1>8, <3>3 DEF Write
  <2>4. Len(author') = Len(author) + 1
    BY <2>1
  <2>5. buf' = [buf EXCEPT ![h] = <<e>>]
    BY <1>8, <2>4 DEF Write
  <2>6. b[h] = <<>>
    BY DEF IInv, TypeOK
  <2>7. buf' = [b EXCEPT ![h] = Append(@, e)]
    <3>1. <<e>> = Append(<<>>, e)
      OBVIOUS
    <3> HIDE DEF e
    <3>2. buf \in [Handle -> Seq(Entry)]
      BY DEF IInv, TypeOK
    <3>3. [b EXCEPT ![h] = Append(@, e)] = [buf EXCEPT ![h] = Append(<<>>, e)]
      BY <3>2, <2>6
    <3> QED
      BY <2>5, <3>1, <3>3
  <2> HIDE DEF d, b
  <2>8. Sound(d, [b EXCEPT ![h] = Append(@, e)], Append(author, h))
    BY <2>1, <2>2, <2>3, <2>6, AddSound
  <2> QED
    BY <2>1, <2>7, <2>8
<1> QED
  BY <1>0, <1>1, <1>2, <1>3, <1>4, <1>5, <1>6, <1>7, <1>8 DEF Next
\* data and buf of TypeOK are Sound's; the rest moves with the control.
Control ==
    /\ path \in Inode \cup {NULL}
    /\ unused \in SUBSET Inode
    /\ state \in [Handle -> {"none", "idle", "create", "open", "nofile", "fault"}]
    /\ kind \in [Handle -> Kind]
    /\ file \in [Handle -> Inode \cup {NULL}]
    /\ fd \in [Handle -> {-1, 0, 1}]
    /\ opened \in SUBSET Handle
    /\ raced \in SUBSET Handle
    /\ Races
    /\ OpenedNeverFaults
    /\ \A h \in Handle : file[h] # NULL => state[h] = "idle"
    /\ \A h \in Handle : state[h] = "none" => h \notin opened

\* The control of a step, action by action.
LEMMA StepControl ==
    ASSUME Control, Next
    PROVE  Control'
<1> USE NullAssumption DEF Control, Races, OpenedNeverFaults
<1>1. CASE Unlink
  BY <1>1 DEF Unlink, stream, history
<1>2. ASSUME NEW h \in Handle, CreateFile(h) PROVE Control'
  BY <1>2 DEF CreateFile, Goes, disk, history
<1>3. ASSUME NEW h \in Handle, DestroyOpen(h) PROVE Control'
  BY <1>3 DEF DestroyOpen, Ready, Goes, stream
<1>4. ASSUME NEW h \in Handle, DestroyClosed(h) PROVE Control'
  BY <1>4 DEF DestroyClosed, Ready, Goes, disk, stream
<1>5. ASSUME NEW h \in Handle, Access(h) PROVE Control'
  BY <1>5 DEF Access, Ready, Goes, disk, stream, history
<1>6. ASSUME NEW h \in Handle, FopenW(h) PROVE Control'
  BY <1>6 DEF FopenW, Goes, stream
<1>7. ASSUME NEW h \in Handle, FopenWFails(h) PROVE Control'
  BY <1>7 DEF FopenWFails, Goes, disk, stream, history
<1>8. ASSUME NEW h \in Handle, OpenStream(h) PROVE Control'
  BY <1>8 DEF OpenStream, Goes
<1>9. ASSUME NEW h \in Handle, OpenFails(h) PROVE Control'
  BY <1>9 DEF OpenFails, Goes, disk, stream, history
<1>10. ASSUME NEW h \in Handle, CloseFile(h) PROVE Control'
  BY <1>10 DEF CloseFile, ClosesStream, Fclose, Ready, Goes, stream, history, Kind
<1>11. ASSUME NEW h \in Handle, NEW off \in Offsets, Write(h, off) PROVE Control'
  BY <1>11 DEF Write
<1>12. ASSUME NEW h \in Handle, AppendTo(h) PROVE Control'
  BY <1>12 DEF AppendTo, disk
<1>13. ASSUME NEW h \in Handle, Flush(h) \/ Spill(h) PROVE Control'
  BY <1>13 DEF Flush, Spill, history
<1>14. ASSUME NEW h \in Handle, ReadUnopened(h) PROVE Control'
  BY <1>14 DEF ReadUnopened, Ready, Goes, disk, stream, history, Kind
<1>15. ASSUME NEW h \in Handle, Crash(h) PROVE Control'
  BY <1>15 DEF Crash, disk
<1> QED
  BY <1>1, <1>2, <1>3, <1>4, <1>5, <1>6, <1>7, <1>8, <1>9, <1>10, <1>11, <1>12,
     <1>13, <1>14, <1>15 DEF Next

\* A buffer is filled only through a stream, and is empty when that is closed.
LEMMA StepBuffers ==
    ASSUME IInv, Next, Control'
    PROVE  /\ \A h \in Handle : buf'[h] # <<>> => file'[h] # NULL
           /\ author' \in Seq(Handle) /\ Len(author') <= MaxChunks
<1> USE DEF IInv, TypeOK, Streams
<1>1. CASE Unlink
  BY <1>1 DEF Unlink, stream, history
<1>2. ASSUME NEW g \in Handle,
             CreateFile(g) \/ ReadUnopened(g) \/ DestroyClosed(g) \/ Access(g)
                 \/ FopenWFails(g) \/ OpenFails(g) \/ FopenW(g)
      PROVE  buf' = buf /\ file' = file /\ author' = author
  BY <1>2 DEF CreateFile, ReadUnopened, DestroyClosed, Access, FopenWFails,
              FopenW, OpenFails, disk, stream, history
<1>3. ASSUME NEW g \in Handle, OpenStream(g)
      PROVE  buf' = buf /\ author' = author /\ file' = [file EXCEPT ![g] = path'] /\ path' # NULL
  BY <1>3, NullAssumption DEF OpenStream
<1>4. ASSUME NEW g \in Handle, Flush(g) \/ Spill(g)
      PROVE  buf' = [buf EXCEPT ![g] = <<>>] /\ author' = author /\ file' = file
  BY <1>4 DEF Flush, Spill, Drain, history
<1>5. ASSUME NEW g \in Handle, CloseFile(g) \/ DestroyOpen(g) \/ Crash(g)
      PROVE  /\ author' = author
             /\ \/ buf' = buf /\ file' = file
                \/ buf' = [buf EXCEPT ![g] = <<>>] /\ file' = [file EXCEPT ![g] = NULL]
  BY <1>5 DEF CloseFile, DestroyOpen, Crash, Fclose, Drain, history, stream
<1>6. ASSUME NEW g \in Handle, AppendTo(g) \/ \E off \in Offsets : Write(g, off)
      PROVE  /\ file' = file /\ file[g] # NULL /\ \A h \in Handle \ {g} : buf'[h] = buf[h]
             /\ author' = Append(author, g) /\ Len(author) < MaxChunks
  BY <1>6 DEF AppendTo, Write, Writable
<1>7. ASSUME NEW g \in Handle, author' = Append(author, g), Len(author) < MaxChunks
      PROVE  author' \in Seq(Handle) /\ Len(author') <= MaxChunks
  BY <1>7, OffsetAssumption
<1> QED
  BY <1>1, <1>2, <1>3, <1>4, <1>5, <1>6, <1>7 DEF Next

\* The invariant is inductive.
LEMMA StepInv == ASSUME IInv, [Next]_vars PROVE IInv'
<1>1. CASE UNCHANGED vars
  BY <1>1 DEF vars, disk, stream, history, IInv, TypeOK, Sound, Numbered, InOrder,
              Buffered, Later, Streams, Races, OpenedNeverFaults
<1>2. CASE Next
  <2>1. Sound(data, buf, author)'
    BY <1>2, StepSound
  <2>2. Control'
    BY <1>2, StepControl DEF IInv, TypeOK, Streams, Control
  <2>3. /\ \A h \in Handle : buf'[h] # <<>> => file'[h] # NULL
        /\ author' \in Seq(Handle) /\ Len(author') <= MaxChunks
    BY <1>2, <2>2, StepBuffers
  <2>4. TypeOK'
    BY <2>1, <2>2, <2>3 DEF Control, Sound, TypeOK, Chunks
  <2> QED
    BY <2>1, <2>2, <2>3, <2>4 DEF Control, Streams, IInv
<1> QED
  BY <1>1, <1>2

\* So it always holds.
LEMMA AlwaysInv == Spec => []IInv
BY InitInv, StepInv, PTL DEF Spec

\* The variables keep their types, for any objects, files and offsets.
THEOREM TypeCorrect == Spec => []TypeOK
<1>1. IInv => TypeOK
  BY DEF IInv
<1> QED
  BY <1>1, AlwaysInv, PTL

\* After its first open no object uses a NULL stream, in whatever order it is
\* opened and closed, but for _rf_close called twice.
THEOREM OpenedNeverFault == Spec => []OpenedNeverFaults
<1>1. IInv => OpenedNeverFaults
  BY DEF IInv
<1> QED
  BY <1>1, AlwaysInv, PTL

\* What an object appends is in the file in the order of its calls, each chunk
\* once, for any number of objects, files and chunks.
THEOREM AppendsAlwaysInOrder == Spec => []AppendedInOrder
<1>1. IInv => AppendedInOrder
  BY DEF IInv, Sound, InOrder, AppendedInOrder
<1> QED
  BY <1>1, AlwaysInv, PTL
-----------------------------------------------------------------------------
(* What was accepted stays.                                                *)

\* c is in file i, or on its way to it.
Has(d, b, f, i, c) ==
    \/ c # Hole /\ \E p \in DOMAIN d[i] : d[i][p] = c
    \/ \E h \in Handle : f[h] = i /\ \E k \in DOMAIN b[h] : b[h][k].chunk = c

\* On says the same of a state and of its successor.
LEMMA OnHas ==
    ASSUME NEW i \in Inode, NEW c
    PROVE  /\ c \in On(i) <=> Has(data, buf, file, i, c)
           /\ c \in On(i)' <=> Has(data', buf', file', i, c)
BY DEF On, Has, Range

\* A buffer of appended chunks, or an empty one, is written out without a loss.
LEMMA DrainedKeeps ==
    ASSUME IInv, NEW h \in Handle, file[h] # NULL, kind[h] # "write" \/ buf[h] = <<>>
    PROVE  /\ \A p \in DOMAIN data[file[h]] :
                  p \in DOMAIN Drained(h) /\ Drained(h)[p] = data[file[h]][p]
           /\ \A k \in DOMAIN buf[h] : \E p \in DOMAIN Drained(h) :
                  Drained(h)[p] = buf[h][k].chunk
<1> DEFINE b == data[file[h]]
<1> DEFINE s == buf[h]
<1>1. b \in Seq(Chunk \cup {Hole}) /\ s \in Seq(Entry)
  BY DEF IInv, TypeOK
<1>2. Drained(h) = FoldLeft(Put, b, s)
  BY Zenon DEF Drained
<1> HIDE DEF b
<1>3. CASE s = <<>>
  <2>1. Drained(h) = b
    BY <1>2, <1>3, FoldsNone, Zenon
  <2> QED
    BY <1>3, <2>1 DEF b
<1>4. CASE s # <<>>
  <2>1. \A k \in DOMAIN s : s[k].at = AtEnd
    BY <1>4 DEF IInv, TypeOK, Kind, Sound, Buffered
  <2> HIDE DEF s
  <2>2. Drained(h) = b \o ChunksOf(s)
    BY <1>1, <1>2, <2>1, FoldsAppends, Zenon
  <2>3. DOMAIN s = 1..Len(s) /\ Len(s) \in Nat
    BY <1>1
  <2>4. ASSUME NEW k \in 1..Len(s) PROVE s[k].chunk \in Chunk
    <3>1. s[k] \in Entry
      BY <1>1, <2>3
    <3> QED
      BY <3>1 DEF Entry
  <2>5. ChunksOf(s) \in Seq(Chunk \cup {Hole}) /\ Len(ChunksOf(s)) = Len(s)
        /\ \A k \in 1..Len(s) : ChunksOf(s)[k] = s[k].chunk
    BY <2>3, <2>4 DEF ChunksOf
  <2>6. ASSUME NEW c \in Seq(Chunk \cup {Hole})
        PROVE  /\ \A p \in DOMAIN b : p \in DOMAIN (b \o c) /\ (b \o c)[p] = b[p]
               /\ \A k \in 1..Len(c) : Len(b) + k \in DOMAIN (b \o c) /\ (b \o c)[Len(b) + k] = c[k]
    BY <1>1
  <2>7. \A p \in DOMAIN b : p \in DOMAIN Drained(h) /\ Drained(h)[p] = b[p]
    BY <2>2, <2>5, <2>6
  <2>8. ASSUME NEW k \in DOMAIN s
        PROVE  \E p \in DOMAIN Drained(h) : Drained(h)[p] = s[k].chunk
    <3>1. Len(b) + k \in DOMAIN Drained(h) /\ Drained(h)[Len(b) + k] = ChunksOf(s)[k]
      BY <2>2, <2>3, <2>5, <2>6
    <3> QED
      BY <3>1, <2>3, <2>5
  <2> QED
    BY <2>7, <2>8 DEF b, s
<1> QED
  BY <1>3, <1>4

\* A written chunk takes one position, and leaves the others alone.
LEMMA DrainedAt ==
    ASSUME IInv, NEW h \in Handle, file[h] # NULL, kind[h] = "write", buf[h] # <<>>
    PROVE  /\ DOMAIN buf[h] = {1}
           /\ \A p \in DOMAIN data[file[h]] :
                  p # buf[h][1].at + 1 =>
                      p \in DOMAIN Drained(h) /\ Drained(h)[p] = data[file[h]][p]
           /\ \E p \in DOMAIN Drained(h) : Drained(h)[p] = buf[h][1].chunk
<1> DEFINE b == data[file[h]]
<1> DEFINE s == buf[h]
<1>1. b \in Chunks /\ s \in Seq(Entry)
  BY DEF IInv, TypeOK, Chunks
<1>2. Drained(h) = FoldLeft(Put, b, s)
  BY Zenon DEF Drained
<1> HIDE DEF b
<1>3. Len(s) <= 1 /\ \A k \in DOMAIN s : s[k].at \in Nat
  BY DEF IInv, Sound, Buffered
<1>4. DOMAIN s = {1} /\ s = <<s[1]>> /\ s[1] \in Entry
  BY <1>1, <1>3
<1>5. Drained(h) = Put(b, s[1])
  BY <1>2, <1>4, FoldsOne, Zenon
<1> HIDE DEF s
<1>6. /\ \A p \in DOMAIN b : p # s[1].at + 1 =>
             p \in DOMAIN Put(b, s[1]) /\ Put(b, s[1])[p] = b[p]
      /\ \E p \in DOMAIN Put(b, s[1]) : Put(b, s[1])[p] = s[1].chunk
  BY <1>1, <1>3, <1>4, PutAt
<1> QED
  BY <1>4, <1>5, <1>6 DEF b, s

\* What is gone after it was in the place of the chunk that was written.
LEMMA LosesOver ==
    ASSUME IInv, NEW h \in Handle, kind[h] = "write", buf[h] # <<>>,
           data'[file[h]] = Drained(h),
           NEW f, \A g \in Handle \ {h} : buf'[g] = buf[g] /\ f[g] = file[g],
           file[h] \in Inode,
           NEW c, Has(data, buf, file, file[h], c), ~Has(data', buf', f, file[h], c)
    PROVE  Overwrites(h, c)
<1> DEFINE d == data[file[h]]
<1>1. /\ DOMAIN buf[h] = {1}
      /\ \A p \in DOMAIN d : p # buf[h][1].at + 1 =>
             p \in DOMAIN Drained(h) /\ Drained(h)[p] = d[p]
      /\ \E p \in DOMAIN Drained(h) : Drained(h)[p] = buf[h][1].chunk
  BY NullAssumption, DrainedAt, Zenon
<1>2. buf[h][1].chunk # Hole
  BY <1>1 DEF IInv, Sound, Buffered, Hole
<1>3. \A p \in DOMAIN Drained(h) : c # Hole => Drained(h)[p] # c
  BY DEF Has
<1>4. buf[h][1].chunk # c
  BY <1>1, <1>2, <1>3
<1>5. PICK p \in DOMAIN d : d[p] = c /\ c # Hole
  <2>1. \A g \in Handle : file[g] = file[h] => \A k \in DOMAIN buf[g] : buf[g][k].chunk # c
    BY <1>1, <1>4 DEF Has
  <2> QED
    BY <2>1 DEF Has
<1>6. p = buf[h][1].at + 1
  BY <1>1, <1>3, <1>5
<1>7. buf[h][1] \in Range(buf[h])
  BY <1>1 DEF Range
<1> QED
  BY <1>5, <1>6, <1>7 DEF Overwrites

\* Only a chunk that is written over is lost when a buffer is written out.
LEMMA DrainLoses ==
    ASSUME IInv, NEW h \in Handle, Drain(h), NEW f, f \in {file, [file EXCEPT ![h] = NULL]},
           NEW i \in Inode, NEW c, Has(data, buf, file, i, c), ~Has(data', buf', f, i, c)
    PROVE  file[h] = i /\ buf'[h] # buf[h] /\ Overwrites(h, c)
<1>h. Has(data, buf, file, i, c) /\ ~Has(data', buf', f, i, c)
  OBVIOUS
<1>0. /\ data \in [Inode -> Chunks] /\ buf \in [Handle -> Seq(Entry)]
      /\ file \in [Handle -> Inode \cup {NULL}]
  BY DEF IInv, TypeOK, Chunks
<1>1. buf' = [buf EXCEPT ![h] = <<>>]
  BY DEF Drain
<1>2. \A g \in Handle \ {h} : buf'[g] = buf[g] /\ f[g] = file[g]
  BY <1>0, <1>1
<1>3. file[h] # NULL
  <2> SUFFICES ASSUME file[h] = NULL PROVE FALSE
    OBVIOUS
  <2>1. data' = data /\ buf[h] = <<>>
    BY DEF Drain, IInv, Streams
  <2> QED
    BY <1>2, <2>1 DEF Has
<1>4. data' = [data EXCEPT ![file[h]] = Drained(h)]
  BY <1>3 DEF Drain
<1>5. file[h] = i
  <2> SUFFICES ASSUME file[h] # i PROVE FALSE
    OBVIOUS
  <2>1. data'[i] = data[i]
    BY <1>0, <1>4
  <2> QED
    BY <1>2, <2>1 DEF Has
<1>6. data'[i] = Drained(h)
  BY <1>0, <1>4, <1>5
<1>7. kind[h] = "write" /\ buf[h] # <<>>
  <2> SUFFICES ASSUME kind[h] # "write" \/ buf[h] = <<>> PROVE FALSE
    OBVIOUS
  <2>1. \A p \in DOMAIN data[i] : \E q \in DOMAIN data'[i] : data'[i][q] = data[i][p]
    BY <1>3, <1>5, <1>6, DrainedKeeps
  <2>2. \A k \in DOMAIN buf[h] : /\ buf[h][k].chunk # Hole
                                 /\ \E p \in DOMAIN data'[i] : data'[i][p] = buf[h][k].chunk
    <3>1. \A k \in DOMAIN buf[h] : buf[h][k].chunk # Hole
      BY DEF IInv, Sound, Buffered, Hole
    <3> QED
      BY <3>1, <1>3, <1>5, <1>6, DrainedKeeps
  <2> QED
    BY <1>2, <2>1, <2>2 DEF Has
<1>8. Overwrites(h, c)
  BY <1>2, <1>5, <1>6, <1>7, <1>h, LosesOver
<1> QED
  BY <1>0, <1>1, <1>5, <1>7, <1>8

\* A step loses a chunk only in the ways that ChunksStay names.
LEMMA StepStays ==
    ASSUME IInv, Next, NEW i \in Inode, NEW c \in On(i) \ On(i)'
    PROVE  \/ \E h \in Handle : file[h] = i /\ buf'[h] # buf[h] /\ Overwrites(h, c)
           \/ state'[author[c]] = "none" /\ c \notin Range(data[i])
           \/ \E h \in raced : i = path /\ state[h] = "create" /\ state'[h] = "open"
<1>0. /\ data \in [Inode -> Chunks] /\ buf \in [Handle -> Seq(Entry)]
      /\ file \in [Handle -> Inode \cup {NULL}] /\ author \in Seq(Handle)
      /\ state \in [Handle -> {"none", "idle", "create", "open", "nofile", "fault"}]
  BY DEF IInv, TypeOK, Chunks
<1>h. Has(data, buf, file, i, c) /\ ~Has(data', buf', file', i, c)
  BY OnHas
<1>1. CASE Unlink
  BY <1>1, <1>h DEF Unlink, stream, history
<1>2. ASSUME NEW h \in Handle, CreateFile(h) \/ ReadUnopened(h) \/ DestroyClosed(h) \/ Access(h)
                  \/ FopenWFails(h) \/ OpenFails(h)
      PROVE  FALSE
  <2>1. data' = data /\ buf' = buf /\ file' = file
    BY <1>2 DEF CreateFile, ReadUnopened, DestroyClosed, Access, FopenWFails,
                OpenFails, disk, stream, history
  <2> QED
    BY <1>h, <2>1
<1>3. ASSUME NEW h \in Handle, Flush(h) \/ Spill(h)
      PROVE  file[h] = i /\ buf'[h] # buf[h] /\ Overwrites(h, c)
  <2>1. Drain(h) /\ file' = file
    BY <1>3 DEF Flush, Spill
  <2> QED
    BY <1>h, <2>1, DrainLoses
<1>4. ASSUME NEW h \in Handle, CloseFile(h) \/ DestroyOpen(h)
      PROVE  file[h] = i /\ buf'[h] # buf[h] /\ Overwrites(h, c)
  <2>1. \/ Drain(h) /\ file' = [file EXCEPT ![h] = NULL]
        \/ data' = data /\ buf' = buf /\ file' = file
    BY <1>4 DEF CloseFile, DestroyOpen, Fclose, stream
  <2> QED
    BY <1>h, <2>1, DrainLoses
<1>5. ASSUME NEW h \in Handle, Crash(h)
      PROVE  state'[author[c]] = "none" /\ c \notin Range(data[i])
  <2>1. /\ data' = data /\ buf' = [buf EXCEPT ![h] = <<>>] /\ state' = [state EXCEPT ![h] = "none"]
        /\ file' = [file EXCEPT ![h] = NULL]
    BY <1>5 DEF Crash, disk
  <2>2. \A g \in Handle \ {h} : buf'[g] = buf[g] /\ file'[g] = file[g]
    BY <1>0, <2>1
  <2>3. ~(c # Hole /\ \E p \in DOMAIN data[i] : data[i][p] = c)
    BY <1>h, <2>1 DEF Has
  <2>4. PICK k \in DOMAIN buf[h] : buf[h][k].chunk = c
    BY <1>h, <2>2, <2>3 DEF Has
  <2>5. author[c] = h /\ c # Hole
    BY <2>4 DEF IInv, Sound, Buffered, Hole
  <2> QED
    BY <1>0, <2>1, <2>3, <2>5 DEF Range
<1>6. ASSUME NEW h \in Handle, FopenW(h)
      PROVE  h \in raced /\ i = path /\ state[h] = "create" /\ state'[h] = "open"
  <2>1. buf' = buf /\ file' = file /\ state[h] = "create" /\ state'[h] = "open"
    BY <1>0, <1>6 DEF FopenW, stream, Goes
  <2>2. path # NULL
    BY <1>6, <1>h, <2>1 DEF FopenW
  <2>3. i = path
    <3> SUFFICES ASSUME i # path PROVE FALSE
      OBVIOUS
    <3>1. data'[i] = data[i]
      BY <1>0, <1>6, <2>2 DEF FopenW
    <3> QED
      BY <1>h, <2>1, <3>1 DEF Has
  <2> QED
    BY <2>1, <2>2, <2>3 DEF IInv, Races
<1>7. ASSUME NEW h \in Handle, OpenStream(h) PROVE FALSE
  <2>1. data' = data /\ buf' = buf /\ file[h] = NULL /\ file' = [file EXCEPT ![h] = path']
    BY <1>7 DEF OpenStream, IInv, Streams
  <2>2. \A g \in Handle : file[g] = i => file'[g] = i
    BY <1>0, <2>1, NullAssumption
  <2> QED
    BY <1>h, <2>1, <2>2 DEF Has
<1>8. ASSUME NEW h \in Handle, AppendTo(h) PROVE FALSE
  <2>1. data' = data /\ file' = file
    BY <1>8 DEF AppendTo, disk
  <2>2. PICK e : buf' = [buf EXCEPT ![h] = Append(@, e)]
    BY <1>8 DEF AppendTo
  <2>3. \A g \in Handle : \A k \in DOMAIN buf[g] : k \in DOMAIN buf'[g] /\ buf'[g][k] = buf[g][k]
    BY <1>0, <2>2
  <2> QED
    BY <1>h, <2>1, <2>3 DEF Has
<1>9. ASSUME NEW h \in Handle, NEW off \in Offsets, Write(h, off)
      PROVE  file[h] = i /\ buf'[h] # buf[h] /\ Overwrites(h, c)
  <2>1. /\ kind[h] = "write" /\ file[h] # NULL /\ file' = file
        /\ data' = [data EXCEPT ![file[h]] = Drained(h)]
    BY <1>9 DEF Write, Writable
  <2>2. PICK e : buf' = [buf EXCEPT ![h] = <<e>>] /\ e.chunk = Len(author) + 1
    <3> DEFINE e == [at |-> Seek(h, off), chunk |-> Len(author) + 1]
    <3>1. Len(author') = Len(author) + 1
      BY <1>0, <1>9 DEF Write
    <3>2. buf' = [buf EXCEPT ![h] = <<e>>]
      BY <1>9, <3>1 DEF Write
    <3>3. e.chunk = Len(author) + 1
      OBVIOUS
    <3> HIDE DEF e
    <3> QED
      BY <3>2, <3>3
  <2>3. \A g \in Handle \ {h} : buf'[g] = buf[g]
    BY <1>0, <2>2
  <2>4. buf'[h] = <<e>> /\ buf'[h] # buf[h]
    <3>1. \A k \in DOMAIN buf[h] : buf[h][k].chunk <= Len(author)
      BY <1>0 DEF IInv, Sound, Buffered
    <3>2. buf'[h] = <<e>> /\ Len(author) \in Nat
      BY <1>0, <2>2
    <3>3. 1 \in DOMAIN <<e>> /\ <<e>>[1].chunk = Len(author) + 1
      BY <2>2
    <3> QED
      BY <3>1, <3>2, <3>3
  <2>5. file[h] = i
    <3> SUFFICES ASSUME file[h] # i PROVE FALSE
      OBVIOUS
    <3>1. data'[i] = data[i]
      BY <1>0, <2>1
    <3> QED
      BY <1>h, <2>1, <2>3, <3>1 DEF Has
  <2>6. buf[h] # <<>>
    <3> SUFFICES ASSUME buf[h] = <<>> PROVE FALSE
      OBVIOUS
    <3>1. data'[i] = Drained(h)
      BY <1>0, <2>1, <2>5
    <3>2. \A p \in DOMAIN data[i] : p \in DOMAIN data'[i] /\ data'[i][p] = data[i][p]
      BY <2>1, <2>5, <3>1, DrainedKeeps
    <3> QED
      BY <1>h, <2>1, <2>3, <3>2 DEF Has
  <2>7. data'[file[h]] = Drained(h) /\ file[h] \in Inode
    BY <1>0, <2>1, <2>5
  <2>8. Overwrites(h, c)
    BY <1>h, <2>1, <2>3, <2>5, <2>6, <2>7, LosesOver
  <2> QED
    BY <2>4, <2>5, <2>8
<1> QED
  BY <1>1, <1>h, <1>2, <1>3, <1>4, <1>5, <1>6, <1>7, <1>8, <1>9 DEF Next

\* What was accepted goes to the file and stays there, for any number of objects
\* in any processes, unless a random write is for its own position, its process
\* ends before it was flushed, or file_open lost the race and empties the file.
THEOREM ChunksAlwaysStay == Spec => ChunksStay
<1>1. IInv /\ [Next]_vars =>
        [\A i \in Inode : \A c \in On(i) \ On(i)' :
            \/ \E h \in Handle : file[h] = i /\ buf'[h] # buf[h] /\ Overwrites(h, c)
            \/ state'[author[c]] = "none" /\ c \notin Range(data[i])
            \/ \E h \in raced : i = path /\ state[h] = "create" /\ state'[h] = "open"]_vars
  BY StepStays
<1> QED
  BY <1>1, AlwaysInv, PTL DEF Spec, ChunksStay
=============================================================================
