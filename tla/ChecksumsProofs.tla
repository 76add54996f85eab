-------------------------- MODULE ChecksumsProofs --------------------------
(***************************************************************************)
(* The properties of Checksums hold for every set of bytes, every bound on *)
(* the message, and every size of a block and of a word of the counter.    *)
(* The checksum: eight bits of the reference are linear in the word, so    *)
(* that a table look-up per byte, and four look-ups per aligned word, do   *)
(* the same; what is then left is that one pass along the bytes does not   *)
(* depend on where it is cut.  The digest: SHA1Update keeps the context of *)
(* the message so far (Ctx), whether a piece fills the block or not, and   *)
(* SHA1Final only feeds it further pieces.                                 *)
(***************************************************************************)
EXTENDS Checksums, WellFoundedInduction, SequenceTheorems, TLAPS

-----------------------------------------------------------------------------
(* Numbers.                                                                *)

\* A set of numbers that is not empty has a least element.
LEMMA LeastNat ==
    ASSUME NEW T \in SUBSET Nat, T # {}
    PROVE  \E x \in T : \A y \in T : x <= y
<1> DEFINE R == OpToRel(<, Nat)
<1>1. IsWellFoundedOn(R, Nat)
  BY NatLessThanWellFounded
<1>2. \A x, y \in Nat : y < x => <<y, x>> \in R
  BY DEF OpToRel
<1> HIDE DEF R
<1>3. PICK x \in T : \A y \in T : ~(<<y, x>> \in R)
  BY <1>1, WFMin
<1>4. \A y \in T : ~(y < x)
  BY <1>2, <1>3
<1> QED
  BY <1>4

\* Induction, for a set.
LEMMA Induction ==
    ASSUME NEW S, 0 \in S, \A n \in Nat : n \in S => n + 1 \in S
    PROVE  Nat \subseteq S
<1> SUFFICES ASSUME Nat \ S # {} PROVE FALSE
  OBVIOUS
<1>1. PICK x \in Nat \ S : \A y \in Nat \ S : x <= y
  BY LeastNat
<1>2. x # 0 /\ x - 1 \in Nat
  BY <1>1
<1>3. x - 1 \in S
  BY <1>1, <1>2
<1> QED
  BY <1>1, <1>2, <1>3

\* Max is what it should be on the sets of positions.
LEMMA MaxIs ==
    ASSUME NEW S \in SUBSET Int, NEW x \in S, \A y \in S : y <= x
    PROVE  Max(S) = x
<1>1. \A y \in S : x >= y
  OBVIOUS
<1>2. \A z \in S : (\A y \in S : z >= y) => z = x
  OBVIOUS
<1> QED
  BY <1>1, <1>2 DEF Max

\* The largest of some positions is one of them.
LEMMA MaxIn ==
    ASSUME NEW n \in Nat, NEW S \in SUBSET (1..n), S # {}
    PROVE  Max(S) \in S /\ \A y \in S : y <= Max(S)
<1> DEFINE T == {n - x : x \in S}
<1>0. PICK z \in S : TRUE
  OBVIOUS
<1>1. T \in SUBSET Nat /\ n - z \in T
  BY <1>0
<1>2. PICK t \in T : \A y \in T : t <= y
  BY <1>1, LeastNat
<1>3. PICK x \in S : t = n - x
  BY <1>2
<1>4. ASSUME NEW y \in S PROVE y <= x
  <2>1. n - y \in T
    OBVIOUS
  <2>2. n - x <= n - y
    BY <2>1, <1>2, <1>3
  <2>3. x \in Int /\ y \in Int
    OBVIOUS
  <2> QED
    BY <2>2, <2>3
<1>5. Max(S) = x
  BY <1>4, MaxIs
<1> QED
  BY <1>4, <1>5

-----------------------------------------------------------------------------
(* Folds.  A table g has what an operator makes of a value in W and an      *)
(* element in E.                                                            *)

\* y is what g makes of x along s, from behind position p up to position q.
Along(g, s, p, x, q, y) == \E r :
    /\ r[p] = x /\ r[q] = y
    /\ \A k \in (p + 1)..q : r[k] = g[<<r[k - 1], s[k]>>]

\* f has for every set of positions up to n what g makes of b there.
FoldsTo(f, W, g, b, s, n) ==
    /\ f \in [SUBSET (1..n) -> W]
    /\ f[{}] = b
    /\ \A t \in SUBSET (1..n) : t # {} => f[t] = g[<<f[t \ {Max(t)}], s[Max(t)]>>]

\* Whatever is folded, such an f exists.
LEMMA FoldExists ==
    ASSUME NEW W, NEW E, NEW g \in [W \X E -> W], NEW b \in W, NEW m \in Nat,
           NEW s \in [1..m -> E]
    PROVE  \E f : FoldsTo(f, W, g, b, s, m)
<1> DEFINE S == {n \in Nat : n <= m => \E f : FoldsTo(f, W, g, b, s, n)}
<1>1. 0 \in S
  <2> DEFINE f == [t \in SUBSET (1..0) |-> b]
  <2>1. 1..0 = {}
    OBVIOUS
  <2>2. FoldsTo(f, W, g, b, s, 0)
    BY <2>1 DEF FoldsTo
  <2> QED
    BY <2>2
<1>2. ASSUME NEW n \in Nat, n \in S PROVE n + 1 \in S
  <2> SUFFICES ASSUME n + 1 <= m PROVE \E f : FoldsTo(f, W, g, b, s, n + 1)
    OBVIOUS
  <2>1. PICK f : FoldsTo(f, W, g, b, s, n)
    BY <1>2
  <2> DEFINE h == [t \in SUBSET (1..(n + 1)) |->
                     IF n + 1 \in t THEN g[<<f[t \ {n + 1}], s[n + 1]>>] ELSE f[t]]
  <2>0. f \in [SUBSET (1..n) -> W] /\ f[{}] = b
    BY <2>1 DEF FoldsTo
  <2>2. h \in [SUBSET (1..(n + 1)) -> W]
    <3> SUFFICES ASSUME NEW t \in SUBSET (1..(n + 1))
                 PROVE  (IF n + 1 \in t THEN g[<<f[t \ {n + 1}], s[n + 1]>>] ELSE f[t]) \in W
      OBVIOUS
    <3>1. t \ {n + 1} \in SUBSET (1..n) /\ s[n + 1] \in E
      OBVIOUS
    <3>2. f[t \ {n + 1}] \in W
      BY <3>1, <2>0
    <3>3. n + 1 \notin t => t \in SUBSET (1..n)
      OBVIOUS
    <3> QED
      BY <2>0, <3>1, <3>2, <3>3
  <2>3. h[{}] = b
    BY <2>0
  <2>4. ASSUME NEW t \in SUBSET (1..(n + 1)), t # {}
        PROVE  h[t] = g[<<h[t \ {Max(t)}], s[Max(t)]>>]
    <3>1. CASE n + 1 \in t
      <4>1. Max(t) = n + 1
        <5>1. t \in SUBSET Int /\ \A y \in t : y <= n + 1
          OBVIOUS
        <5> QED
          BY <3>1, <5>1, MaxIs
      <4>2. h[t] = g[<<f[t \ {n + 1}], s[n + 1]>>]
        BY <3>1
      <4>3. t \ {n + 1} \in SUBSET (1..(n + 1)) /\ n + 1 \notin t \ {n + 1}
        OBVIOUS
      <4>4. h[t \ {n + 1}] = f[t \ {n + 1}]
        BY <4>3
      <4> HIDE DEF h
      <4> QED
        BY <4>1, <4>2, <4>4, Zenon
    <3>2. CASE n + 1 \notin t
      <4>1. t \in SUBSET (1..n)
        BY <3>2
      <4>2. t \ {Max(t)} \in SUBSET (1..(n + 1)) /\ n + 1 \notin t \ {Max(t)}
        BY <3>2
      <4>3. h[t] = f[t]
        BY <3>2
      <4>4. h[t \ {Max(t)}] = f[t \ {Max(t)}]
        BY <4>2
      <4>5. f[t] = g[<<f[t \ {Max(t)}], s[Max(t)]>>]
        BY <4>1, <2>1, <2>4, Zenon DEF FoldsTo
      <4> HIDE DEF h
      <4> QED
        BY <4>3, <4>4, <4>5, Zenon
    <3> QED
      BY <3>1, <3>2
  <2> HIDE DEF h
  <2>5. FoldsTo(h, W, g, b, s, n + 1)
    BY <2>2, <2>3, <2>4, Zenon DEF FoldsTo
  <2> QED
    BY <2>5
<1> HIDE DEF S
<1>3. m \in S
  BY <1>1, <1>2, Induction
<1> QED
  BY <1>3 DEF S

\* The first k positions are those up to k - 1, and k.
LEMMA Initial ==
    ASSUME NEW n \in Nat, NEW k \in 1..n
    PROVE  /\ 1..k \in SUBSET (1..n) /\ 1..k # {}
           /\ Max(1..k) = k /\ (1..k) \ {k} = 1..(k - 1)
<1>1. k \in 1..k /\ \A i \in 1..k : i \in 1..n
  OBVIOUS
<1>2. 1..k \in SUBSET Int /\ \A y \in 1..k : y <= k
  OBVIOUS
<1>3. Max(1..k) = k
  BY <1>1, <1>2, MaxIs
<1>4. (1..k) \ {k} = 1..(k - 1)
  OBVIOUS
<1> QED
  BY <1>1, <1>3, <1>4

\* y is all that g can make.
Only(y, g, s, p, x, q) == \A z : Along(g, s, p, x, q, z) => y = z

\* What g makes is in W, and there is but one value it can make.
LEMMA AlongOnce ==
    ASSUME NEW W, NEW E, NEW g \in [W \X E -> W], NEW s, NEW p \in Nat, NEW q \in Nat, p <= q,
           \A k \in (p + 1)..q : s[k] \in E, NEW x \in W, NEW y, Along(g, s, p, x, q, y)
    PROVE  y \in W /\ Only(y, g, s, p, x, q)
<1> SUFFICES ASSUME NEW z, Along(g, s, p, x, q, z) PROVE y \in W /\ y = z
  BY Zenon DEF Only
<1>1. PICK r : /\ r[p] = x /\ r[q] = y
               /\ \A k \in (p + 1)..q : r[k] = g[<<r[k - 1], s[k]>>]
  BY DEF Along
<1>2. PICK t : /\ t[p] = x /\ t[q] = z
               /\ \A k \in (p + 1)..q : t[k] = g[<<t[k - 1], s[k]>>]
  BY DEF Along
<1> DEFINE S == {n \in Nat : p + n <= q => r[p + n] \in W /\ r[p + n] = t[p + n]}
<1>3. 0 \in S
  BY <1>1, <1>2
<1>4. ASSUME NEW n \in Nat, n \in S PROVE n + 1 \in S
  <2> SUFFICES ASSUME p + (n + 1) <= q
               PROVE  r[p + (n + 1)] \in W /\ r[p + (n + 1)] = t[p + (n + 1)]
    OBVIOUS
  <2>1. r[p + n] \in W /\ r[p + n] = t[p + n]
    BY <1>4
  <2> DEFINE k == p + (n + 1)
  <2>2. k \in (p + 1)..q /\ k - 1 = p + n
    OBVIOUS
  <2> HIDE DEF k
  <2>3. r[k] = g[<<r[p + n], s[k]>>] /\ t[k] = g[<<t[p + n], s[k]>>] /\ s[k] \in E
    BY <1>1, <1>2, <2>2
  <2>4. r[k] \in W /\ r[k] = t[k]
    BY <2>1, <2>3
  <2> QED
    BY <2>4 DEF k
<1> HIDE DEF S
<1>5. q - p \in S
  BY <1>3, <1>4, Induction
<1>6. p + (q - p) = q /\ p + (q - p) <= q
  OBVIOUS
<1> QED
  BY <1>1, <1>2, <1>5, <1>6 DEF S

\* From p to q and on to n.
LEMMA AlongJoin ==
    ASSUME NEW g, NEW s, NEW p \in Nat, NEW q \in Nat, NEW n \in Nat, p <= q, q <= n,
           NEW x, NEW y, NEW z, Along(g, s, p, x, q, y), Along(g, s, q, y, n, z)
    PROVE  Along(g, s, p, x, n, z)
<1>1. PICK r : /\ r[p] = x /\ r[q] = y
               /\ \A k \in (p + 1)..q : r[k] = g[<<r[k - 1], s[k]>>]
  BY DEF Along
<1>2. PICK t : /\ t[q] = y /\ t[n] = z
               /\ \A k \in (q + 1)..n : t[k] = g[<<t[k - 1], s[k]>>]
  BY DEF Along
<1> DEFINE u == [k \in p..n |-> IF k <= q THEN r[k] ELSE t[k]]
<1>3. u[p] = x
  BY <1>1
<1>4. u[n] = z
  BY <1>1, <1>2
<1>5. ASSUME NEW k \in (p + 1)..n PROVE u[k] = g[<<u[k - 1], s[k]>>]
  <2>1. CASE k <= q
    BY <1>1, <2>1
  <2>2. CASE k = q + 1
    <3>1. u[k - 1] = t[k - 1]
      BY <1>1, <1>2, <2>2
    <3>2. u[k] = t[k]
      BY <2>2
    <3> HIDE DEF u
    <3> QED
      BY <1>2, <2>2, <3>1, <3>2
  <2>3. CASE k > q + 1
    BY <1>2, <2>3
  <2> QED
    BY <2>1, <2>2, <2>3
<1> HIDE DEF u
<1> QED
  BY <1>3, <1>4, <1>5, Zenon DEF Along

\* Along another sequence with the same elements.
LEMMA AlongShift ==
    ASSUME NEW g, NEW s, NEW t, NEW p \in Nat, NEW q \in Nat, NEW n \in Nat, NEW x, NEW y,
           Along(g, t, p, x, p + n, y), \A k \in 1..n : s[q + k] = t[p + k]
    PROVE  Along(g, s, q, x, q + n, y)
<1>1. PICK r : /\ r[p] = x /\ r[p + n] = y
               /\ \A k \in (p + 1)..(p + n) : r[k] = g[<<r[k - 1], t[k]>>]
  BY DEF Along
<1> DEFINE u == [k \in q..(q + n) |-> r[p + (k - q)]]
<1>2. u[q] = x /\ u[q + n] = y
  <2>1. q \in q..(q + n) /\ q + n \in q..(q + n) /\ p + (q - q) = p /\ p + (q + n - q) = p + n
    OBVIOUS
  <2> QED
    BY <1>1, <2>1
<1>3. ASSUME NEW k \in (q + 1)..(q + n) PROVE u[k] = g[<<u[k - 1], s[k]>>]
  <2> DEFINE i == k - q
  <2>1. i \in 1..n /\ k = q + i /\ p + i \in (p + 1)..(p + n) /\ (p + i) - 1 = p + (i - 1)
    OBVIOUS
  <2>2. u[k] = r[p + i]
    OBVIOUS
  <2>3. u[k - 1] = r[p + (i - 1)]
    <3>1. k - 1 \in q..(q + n) /\ (k - 1) - q = i - 1
      OBVIOUS
    <3> QED
      BY <3>1
  <2> HIDE DEF u, i
  <2>4. r[p + i] = g[<<r[p + (i - 1)], t[p + i]>>]
    BY <1>1, <2>1
  <2>5. s[k] = t[p + i]
    BY <2>1
  <2> QED
    BY <2>2, <2>3, <2>4, <2>5
<1> HIDE DEF u
<1> QED
  BY <1>2, <1>3, Zenon DEF Along

\* What a fold f has for the positions up to n is what g makes along s.
LEMMA AlongFold ==
    ASSUME NEW W, NEW E, NEW g \in [W \X E -> W], NEW b \in W, NEW n \in Nat,
           NEW s \in [1..n -> E], NEW f, f[{}] = b,
           \A k \in 1..n : f[1..(k - 1)] \in W => f[1..k] = g[<<f[1..(k - 1)], s[k]>>]
    PROVE  Along(g, s, 0, b, n, f[1..n])
<1> DEFINE r == [k \in 0..n |-> f[1..k]]
<1>0. 1..0 = {}
  OBVIOUS
<1>1. r[0] = b /\ r[n] = f[1..n]
  BY <1>0
<1> DEFINE S == {k \in Nat : k <= n => f[1..k] \in W}
<1>2. 0 \in S
  BY <1>0
<1>3. ASSUME NEW k \in Nat, k \in S PROVE k + 1 \in S
  <2> SUFFICES ASSUME k + 1 <= n PROVE f[1..(k + 1)] \in W
    OBVIOUS
  <2>1. f[1..k] \in W
    BY <1>3
  <2>2. k + 1 \in 1..n /\ (k + 1) - 1 = k
    OBVIOUS
  <2>3. f[1..(k + 1)] = g[<<f[1..k], s[k + 1]>>]
    BY <2>1, <2>2
  <2>4. <<f[1..k], s[k + 1]>> \in W \X E
    BY <2>1, <2>2
  <2> QED
    BY <2>3, <2>4
<1>4. \A k \in 0..n : f[1..k] \in W
  <2> HIDE DEF S
  <2>1. Nat \subseteq S
    BY <1>2, <1>3, Induction
  <2> QED
    BY <2>1 DEF S
<1>5. ASSUME NEW k \in (0 + 1)..n PROVE r[k] = g[<<r[k - 1], s[k]>>]
  <2>1. k \in 1..n /\ k - 1 \in 0..n /\ k \in 0..n
    OBVIOUS
  <2>2. f[1..k] = g[<<f[1..(k - 1)], s[k]>>]
    BY <1>4, <2>1
  <2>3. r[k] = f[1..k] /\ r[k - 1] = f[1..(k - 1)]
    BY <2>1
  <2> HIDE DEF r
  <2> QED
    BY <2>2, <2>3
<1> HIDE DEF r
<1> QED
  BY <1>1, <1>5, Zenon DEF Along

-----------------------------------------------------------------------------
(* Words, as sets of bits.                                                 *)

Word == SUBSET (0..31)
Bits8 == SUBSET (0..7)

\* The bits of what is shifted.
LEMMA ShrBit == \A l, n, x : x \in Shr(l, n) <=> \E j \in l : j >= n /\ x = j - n
BY DEF Shr
\* And of what is shifted up.
LEMMA ShlBit == \A l, n, x : x \in Shl(l, n) <=> \E j \in l : x = j + n
BY DEF Shl

\* Numbers of bits: shifted down, bit x was bit x + n.
LEMMA ShrIs ==
    ASSUME NEW l \in SUBSET Nat, NEW n \in Nat
    PROVE  Shr(l, n) \in SUBSET Nat /\ \A x \in Nat : x \in Shr(l, n) <=> x + n \in l
<1>1. ASSUME NEW x \in Shr(l, n) PROVE x \in Nat /\ x + n \in l
  <2>1. PICK j \in l : j >= n /\ x = j - n
    BY <1>1 DEF Shr
  <2> QED
    BY <2>1
<1>2. ASSUME NEW x \in Nat, x + n \in l PROVE x \in Shr(l, n)
  <2>1. x + n >= n /\ x = (x + n) - n
    OBVIOUS
  <2> QED
    BY <1>2, <2>1, ShrBit
<1> QED
  BY <1>1, <1>2

\* Shifted up, bit x was bit x - n, if there was one.
LEMMA ShlIs ==
    ASSUME NEW l \in SUBSET Nat, NEW n \in Nat
    PROVE  /\ Shl(l, n) \in SUBSET Nat
           /\ \A x \in Nat : x \in Shl(l, n) <=> x >= n /\ x - n \in l
<1>1. ASSUME NEW x \in Shl(l, n) PROVE x \in Nat /\ x >= n /\ x - n \in l
  <2>1. PICK j \in l : x = j + n
    BY <1>1 DEF Shl
  <2> QED
    BY <2>1
<1>2. ASSUME NEW x \in Nat, x >= n, x - n \in l PROVE x \in Shl(l, n)
  <2>1. x = (x - n) + n
    OBVIOUS
  <2> QED
    BY <1>2, <2>1, ShlBit
<1> QED
  BY <1>1, <1>2

\* Xor is a sum.
LEMMA XorSum ==
    /\ \A a, b : Xor(a, b) = Xor(b, a)
    /\ \A a, b, c : Xor(Xor(a, b), c) = Xor(a, Xor(b, c))
    /\ \A a : Xor(a, a) = {} /\ Xor(a, {}) = a /\ Xor({}, a) = a
    /\ \A S : \A a, b \in SUBSET S : Xor(a, b) \in SUBSET S
BY DEF Xor

\* Shifts go through it, and one after the other.
LEMMA ShrXor ==
    ASSUME NEW a \in SUBSET Nat, NEW b \in SUBSET Nat, NEW n \in Nat
    PROVE  Shr(Xor(a, b), n) = Xor(Shr(a, n), Shr(b, n))
<1>1. Xor(a, b) \in SUBSET Nat
  BY DEF Xor
<1>2. Shr(Xor(a, b), n) \in SUBSET Nat /\ Xor(Shr(a, n), Shr(b, n)) \in SUBSET Nat
  BY <1>1, ShrIs DEF Xor
<1>3. ASSUME NEW x \in Nat
      PROVE  x \in Shr(Xor(a, b), n) <=> x \in Xor(Shr(a, n), Shr(b, n))
  BY <1>1, ShrIs DEF Xor
<1> QED
  BY <1>2, <1>3

\* Two shifts down are one.
LEMMA ShrShr ==
    ASSUME NEW a \in SUBSET Nat, NEW m \in Nat, NEW n \in Nat
    PROVE  Shr(Shr(a, m), n) = Shr(a, m + n)
<1>1. Shr(a, m) \in SUBSET Nat /\ Shr(Shr(a, m), n) \in SUBSET Nat /\ Shr(a, m + n) \in SUBSET Nat
  BY ShrIs
<1>2. ASSUME NEW x \in Nat PROVE x \in Shr(Shr(a, m), n) <=> x \in Shr(a, m + n)
  <2>1. x \in Shr(Shr(a, m), n) <=> x + n \in Shr(a, m)
    BY <1>1, ShrIs
  <2>2. x + n \in Shr(a, m) <=> (x + n) + m \in a
    <3>1. x + n \in Nat
      OBVIOUS
    <3> QED
      BY <3>1, ShrIs, Zenon
  <2>3. x \in Shr(a, m + n) <=> x + (m + n) \in a
    <3>1. m + n \in Nat
      OBVIOUS
    <3> QED
      BY <3>1, ShrIs, Zenon
  <2>4. (x + n) + m = x + (m + n)
    OBVIOUS
  <2> QED
    BY <2>1, <2>2, <2>3, <2>4
<1> QED
  BY <1>1, <1>2

\* Up and down again.
LEMMA ShrShl ==
    ASSUME NEW a \in SUBSET Nat, NEW n \in Nat
    PROVE  Shr(Shl(a, n), n) = a
<1>1. Shl(a, n) \in SUBSET Nat /\ Shr(Shl(a, n), n) \in SUBSET Nat
  BY ShlIs, ShrIs
<1>2. ASSUME NEW x \in Nat PROVE x \in Shr(Shl(a, n), n) <=> x \in a
  <2>1. x \in Shr(Shl(a, n), n) <=> x + n \in Shl(a, n)
    BY <1>1, ShrIs
  <2>2. x + n \in Shl(a, n) <=> x + n >= n /\ (x + n) - n \in a
    BY ShlIs
  <2>3. x + n >= n /\ (x + n) - n = x
    OBVIOUS
  <2> QED
    BY <2>1, <2>2, <2>3
<1> QED
  BY <1>1, <1>2

\* Two shifts up are one.
LEMMA ShlShl ==
    ASSUME NEW a \in SUBSET Nat, NEW m \in Nat, NEW n \in Nat
    PROVE  Shl(Shl(a, m), n) = Shl(a, m + n)
<1>1. Shl(a, m) \in SUBSET Nat /\ Shl(Shl(a, m), n) \in SUBSET Nat /\ Shl(a, m + n) \in SUBSET Nat
  BY ShlIs
<1>2. ASSUME NEW x \in Nat PROVE x \in Shl(Shl(a, m), n) <=> x \in Shl(a, m + n)
  <2>1. x \in Shl(Shl(a, m), n) <=> x >= n /\ x - n \in Shl(a, m)
    BY <1>1, ShlIs
  <2>2. x >= n => (x - n \in Shl(a, m) <=> x - n >= m /\ (x - n) - m \in a)
    BY ShlIs
  <2>3. x \in Shl(a, m + n) <=> x >= m + n /\ x - (m + n) \in a
    BY ShlIs
  <2>4. (x - n) - m = x - (m + n) /\ (x >= m + n <=> x >= n /\ x - n >= m)
    OBVIOUS
  <2> QED
    BY <2>1, <2>2, <2>3, <2>4
<1> QED
  BY <1>1, <1>2

\* A shift up goes through Xor as well.
LEMMA ShlXor ==
    ASSUME NEW a \in SUBSET Nat, NEW b \in SUBSET Nat, NEW n \in Nat
    PROVE  Shl(Xor(a, b), n) = Xor(Shl(a, n), Shl(b, n))
<1>1. Xor(a, b) \in SUBSET Nat
  BY DEF Xor
<1>2. Shl(Xor(a, b), n) \in SUBSET Nat /\ Xor(Shl(a, n), Shl(b, n)) \in SUBSET Nat
  BY <1>1, ShlIs DEF Xor
<1>3. ASSUME NEW x \in Nat
      PROVE  x \in Shl(Xor(a, b), n) <=> x \in Xor(Shl(a, n), Shl(b, n))
  <2>1. x \in Shl(Xor(a, b), n) <=> x >= n /\ x - n \in Xor(a, b)
    BY <1>1, ShlIs
  <2>2. /\ x \in Shl(a, n) <=> x >= n /\ x - n \in a
        /\ x \in Shl(b, n) <=> x >= n /\ x - n \in b
    BY ShlIs
  <2> QED
    BY <2>1, <2>2 DEF Xor
<1> QED
  BY <1>2, <1>3

\* What fits in n + m bits fits in n when it is shifted by m, and the reverse.
LEMMA ShrFits ==
    ASSUME NEW n \in Nat, NEW m \in Nat, NEW a \in SUBSET (0..(n + m))
    PROVE  Shr(a, m) \in SUBSET (0..n)
<1>1. ASSUME NEW x \in Shr(a, m) PROVE x \in 0..n
  <2>1. PICK j \in a : j >= m /\ x = j - m
    BY <1>1 DEF Shr
  <2> QED
    BY <2>1
<1> QED
  BY <1>1

\* What is shifted up needs as many more bits.
LEMMA ShlFits ==
    ASSUME NEW n \in Nat, NEW m \in Nat, NEW a \in SUBSET (0..n)
    PROVE  Shl(a, m) \in SUBSET (0..(n + m))
<1>1. ASSUME NEW x \in Shl(a, m) PROVE x \in 0..(n + m)
  <2>1. PICK j \in a : x = j + m
    BY <1>1 DEF Shl
  <2> QED
    BY <2>1
<1> QED
  BY <1>1

-----------------------------------------------------------------------------
(* CRC-32: a byte, and four.  Eight bits of the reference are linear        *)
(* (EightXor), and only shift what has no low bits (EightHigh); the tables  *)
(* hold what eight, sixteen, ... bits make of a byte.                       *)

Eight(l) ==
    BitStep(BitStep(BitStep(BitStep(BitStep(BitStep(BitStep(BitStep(l))))))))

\* What the operators make of words are words.
LEMMA Words ==
    /\ Word \subseteq SUBSET Nat /\ Bits8 \subseteq Word /\ Ones \in Word /\ {} \in Bits8
    /\ \A a, b \in Word : Xor(a, b) \in Word
    /\ \A a \in Word : Low8(a) \in Bits8
    /\ \A a \in Word, n \in Nat : Shr(a, n) \in Word
<1>1. \A a, b \in Word : Xor(a, b) \in Word
  BY DEF Xor, Word
<1>2. \A a \in Word : Low8(a) \in Bits8
  BY DEF Low8, Word, Bits8
<1>3. ASSUME NEW a \in Word, NEW n \in Nat PROVE Shr(a, n) \in Word
  <2>1. a \in SUBSET (0..(31 + n)) /\ 31 \in Nat
    BY DEF Word
  <2> QED
    BY <2>1, ShrFits DEF Word
<1> QED
  BY <1>1, <1>2, <1>3 DEF Word, Bits8, Ones

\* A bit of the reference is linear.
LEMMA BitXor ==
    ASSUME NEW a \in Word, NEW b \in Word
    PROVE  BitStep(a) \in Word /\ BitStep(Xor(a, b)) = Xor(BitStep(a), BitStep(b))
<1> DEFINE A == Shr(a, 1)
           B == Shr(b, 1)
           C == Shr(Xor(a, b), 1)
<1>1. A \in Word /\ B \in Word /\ Poly \in Word
  BY Words DEF Poly, Word
<1>2. C = Xor(A, B)
  BY Words, ShrXor
<1>3. 0 \in Xor(a, b) <=> ~(0 \in a <=> 0 \in b)
  BY DEF Xor
<1>4. /\ BitStep(a) = IF 0 \in a THEN Xor(A, Poly) ELSE A
      /\ BitStep(b) = IF 0 \in b THEN Xor(B, Poly) ELSE B
      /\ BitStep(Xor(a, b)) = IF 0 \in Xor(a, b) THEN Xor(C, Poly) ELSE C
  BY Zenon DEF BitStep
<1> HIDE DEF A, B, C
<1>5. BitStep(a) \in Word
  BY <1>1, <1>4, Words
<1> DEFINE P == Poly
<1> HIDE DEF P
<1>6. /\ Xor(Xor(A, B), P) = Xor(Xor(A, P), B)
      /\ Xor(Xor(A, B), P) = Xor(A, Xor(B, P))
      /\ Xor(A, B) = Xor(Xor(A, P), Xor(B, P))
  BY DEF Xor
<1>7. BitStep(Xor(a, b)) = Xor(BitStep(a), BitStep(b))
  <2>1. CASE 0 \in a /\ 0 \in b
    BY <1>2, <1>3, <1>4, <1>6, <2>1, Zenon DEF P
  <2>2. CASE 0 \in a /\ ~(0 \in b)
    BY <1>2, <1>3, <1>4, <1>6, <2>2, Zenon DEF P
  <2>3. CASE ~(0 \in a) /\ 0 \in b
    BY <1>2, <1>3, <1>4, <1>6, <2>3, Zenon DEF P
  <2>4. CASE ~(0 \in a) /\ ~(0 \in b)
    BY <1>2, <1>3, <1>4, <2>4, Zenon
  <2> QED
    BY <2>1, <2>2, <2>3, <2>4, Zenon
<1> QED
  BY <1>5, <1>7

\* So are eight.
LEMMA EightXor ==
    ASSUME NEW a \in Word, NEW b \in Word
    PROVE  Eight(a) \in Word /\ Eight(Xor(a, b)) = Xor(Eight(a), Eight(b))
<1> DEFINE a1 == BitStep(a)   b1 == BitStep(b)
           a2 == BitStep(a1)  b2 == BitStep(b1)
           a3 == BitStep(a2)  b3 == BitStep(b2)
           a4 == BitStep(a3)  b4 == BitStep(b3)
           a5 == BitStep(a4)  b5 == BitStep(b4)
           a6 == BitStep(a5)  b6 == BitStep(b5)
           a7 == BitStep(a6)  b7 == BitStep(b6)
           a8 == BitStep(a7)  b8 == BitStep(b7)
<1>0. Eight(a) = a8 /\ Eight(b) = b8
  BY DEF Eight
<1>1. a1 \in Word /\ b1 \in Word /\ BitStep(Xor(a, b)) = Xor(a1, b1)
  BY BitXor, Zenon
<1> HIDE DEF a1, b1
<1>2. a2 \in Word /\ b2 \in Word /\ BitStep(Xor(a1, b1)) = Xor(a2, b2)
  BY <1>1, BitXor, Zenon
<1> HIDE DEF a2, b2
<1>3. a3 \in Word /\ b3 \in Word /\ BitStep(Xor(a2, b2)) = Xor(a3, b3)
  BY <1>2, BitXor, Zenon
<1> HIDE DEF a3, b3
<1>4. a4 \in Word /\ b4 \in Word /\ BitStep(Xor(a3, b3)) = Xor(a4, b4)
  BY <1>3, BitXor, Zenon
<1> HIDE DEF a4, b4
<1>5. a5 \in Word /\ b5 \in Word /\ BitStep(Xor(a4, b4)) = Xor(a5, b5)
  BY <1>4, BitXor, Zenon
<1> HIDE DEF a5, b5
<1>6. a6 \in Word /\ b6 \in Word /\ BitStep(Xor(a5, b5)) = Xor(a6, b6)
  BY <1>5, BitXor, Zenon
<1> HIDE DEF a6, b6
<1>7. a7 \in Word /\ b7 \in Word /\ BitStep(Xor(a6, b6)) = Xor(a7, b7)
  BY <1>6, BitXor, Zenon
<1> HIDE DEF a7, b7
<1>8. a8 \in Word /\ b8 \in Word /\ BitStep(Xor(a7, b7)) = Xor(a8, b8)
  BY <1>7, BitXor, Zenon
<1> HIDE DEF a8, b8
<1>9. Eight(Xor(a, b)) = Xor(a8, b8)
  BY <1>1, <1>2, <1>3, <1>4, <1>5, <1>6, <1>7, <1>8, Zenon DEF Eight
<1> QED
  BY <1>0, <1>8, <1>9, Zenon

\* Bits that are not among the lowest eight only move.
LEMMA EightHigh ==
    ASSUME NEW a \in SUBSET Nat, \A i \in 0..7 : i \notin a
    PROVE  Eight(a) = Shr(a, 8)
<1>1. ASSUME NEW n \in 0..7 PROVE BitStep(Shr(a, n)) = Shr(a, n + 1)
  <2>1. n \in Nat /\ 0 \in Nat /\ 1 \in Nat /\ 0 + n = n
    OBVIOUS
  <2>2. ~(0 \in Shr(a, n))
    BY <2>1, ShrIs
  <2>3. BitStep(Shr(a, n)) = Shr(Shr(a, n), 1)
    BY <2>2, Zenon DEF BitStep
  <2> QED
    BY <2>1, <2>3, ShrShr, Zenon
<1>2. Shr(a, 0) = a
  <2>1. Shr(a, 0) \in SUBSET Nat /\ \A x \in Nat : x \in Shr(a, 0) <=> x + 0 \in a
    BY ShrIs
  <2>2. \A x \in Nat : x \in Shr(a, 0) <=> x \in a
    BY <2>1
  <2> QED
    BY <2>1, <2>2
<1>3. /\ BitStep(a) = Shr(a, 1)
      /\ BitStep(Shr(a, 1)) = Shr(a, 2) /\ BitStep(Shr(a, 2)) = Shr(a, 3)
      /\ BitStep(Shr(a, 3)) = Shr(a, 4) /\ BitStep(Shr(a, 4)) = Shr(a, 5)
      /\ BitStep(Shr(a, 5)) = Shr(a, 6) /\ BitStep(Shr(a, 6)) = Shr(a, 7)
      /\ BitStep(Shr(a, 7)) = Shr(a, 8)
  <2>1. BitStep(Shr(a, 0)) = Shr(a, 0 + 1)
    BY <1>1
  <2>2. \A n \in 1..7 : BitStep(Shr(a, n)) = Shr(a, n + 1)
    BY <1>1
  <2> QED
    BY <1>2, <2>1, <2>2
<1> QED
  BY <1>3, Zenon DEF Eight

\* Of a word, eight bits are done with its low byte; the others move down.
LEMMA EightSplit ==
    ASSUME NEW l \in Word
    PROVE  Eight(l) = Xor(Eight(Low8(l)), Shr(l, 8))
<1> DEFINE high == l \ (0..7)
<1>1. high \in Word /\ Low8(l) \in Word /\ l = Xor(Low8(l), high)
  BY DEF Word, Low8, Xor
<1>2. \A i \in 0..7 : i \notin high
  OBVIOUS
<1>3. Eight(high) = Shr(high, 8)
  BY <1>1, <1>2, Words, EightHigh
<1>4. Shr(high, 8) = Shr(l, 8)
  <2>1. high \in SUBSET Nat /\ l \in SUBSET Nat /\ 8 \in Nat
    BY DEF Word
  <2>2. /\ Shr(high, 8) \in SUBSET Nat /\ Shr(l, 8) \in SUBSET Nat
        /\ \A x \in Nat : x \in Shr(high, 8) <=> x + 8 \in high
        /\ \A x \in Nat : x \in Shr(l, 8) <=> x + 8 \in l
    BY <2>1, ShrIs, Zenon
  <2>3. \A x \in Nat : x + 8 \in high <=> x + 8 \in l
    OBVIOUS
  <2> QED
    BY <2>2, <2>3
<1> HIDE DEF high
<1>5. Eight(Xor(Low8(l), high)) = Xor(Eight(Low8(l)), Eight(high))
  BY <1>1, EightXor, Zenon
<1> QED
  BY <1>1, <1>3, <1>4, <1>5, Zenon

\* A byte that was shifted into the next word comes through.
LEMMA EightNext ==
    ASSUME NEW l \in Word, NEW y \in SUBSET (0..23)
    PROVE  Eight(Xor(l, Shl(y, 8))) = Xor(Eight(l), y)
<1> DEFINE h == Shl(y, 8)
<1>1. h \in Word /\ y \in SUBSET Nat /\ 8 \in Nat /\ 23 \in Nat
  <2>1. 8 \in Nat /\ 23 \in Nat /\ 23 + 8 = 31 /\ y \in SUBSET Nat
    OBVIOUS
  <2>2. h \in SUBSET (0..(23 + 8))
    BY <2>1, ShlFits, Zenon
  <2> QED
    BY <2>1, <2>2, Zenon DEF Word
<1>2. \A i \in 0..7 : i \notin h
  BY <1>1, ShlIs
<1>3. Shr(h, 8) = y
  BY <1>1, ShrShl, Zenon
<1>4. Eight(h) = Shr(h, 8)
  BY <1>1, <1>2, Words, EightHigh
<1> HIDE DEF h
<1>5. Eight(Xor(l, h)) = Xor(Eight(l), Eight(h))
  BY <1>1, EightXor, Zenon
<1> QED
  BY <1>3, <1>4, <1>5, Zenon DEF h

\* One byte at a time is what the reference does.
LEMMA ByteStepIs ==
    ASSUME NEW l, NEW b
    PROVE  ByteStep(l, b) = Eight(Xor(l, b))
<1> DEFINE x == Xor(l, b)
           Rec(f) == f = [k \in 0..8 |-> IF k = 0 THEN Xor(l, b) ELSE BitStep(f[k - 1])]
           a1 == BitStep(x)   a2 == BitStep(a1)  a3 == BitStep(a2)  a4 == BitStep(a3)
           a5 == BitStep(a4)  a6 == BitStep(a5)  a7 == BitStep(a6)  a8 == BitStep(a7)
           g == [k \in 0..8 |-> IF k = 0 THEN x ELSE IF k = 1 THEN a1 ELSE IF k = 2 THEN a2
                 ELSE IF k = 3 THEN a3 ELSE IF k = 4 THEN a4 ELSE IF k = 5 THEN a5
                 ELSE IF k = 6 THEN a6 ELSE IF k = 7 THEN a7 ELSE a8]
<1>1. /\ g[0] = x /\ g[1] = a1 /\ g[2] = a2 /\ g[3] = a3 /\ g[4] = a4
      /\ g[5] = a5 /\ g[6] = a6 /\ g[7] = a7 /\ g[8] = a8 /\ g = [k \in 0..8 |-> g[k]]
  <2> HIDE DEF x, a1, a2, a3, a4, a5, a6, a7, a8
  <2> QED
    OBVIOUS
<1>2. /\ a1 = BitStep(x) /\ a2 = BitStep(a1) /\ a3 = BitStep(a2) /\ a4 = BitStep(a3)
      /\ a5 = BitStep(a4) /\ a6 = BitStep(a5) /\ a7 = BitStep(a6) /\ a8 = BitStep(a7)
      /\ x = Xor(l, b)
  OBVIOUS
<1>3. a8 = Eight(Xor(l, b))
  BY Zenon DEF Eight
<1> HIDE DEF x, a1, a2, a3, a4, a5, a6, a7, a8, g
<1>4. Rec(g)
  <2>1. \A k \in 0..8 : g[k] = IF k = 0 THEN Xor(l, b) ELSE BitStep(g[k - 1])
    BY <1>1, <1>2
  <2> QED
    BY <1>1, <2>1
<1>5. ASSUME NEW f, Rec(f) PROVE f[8] = a8
  <2>1. \A k \in 0..8 : f[k] = IF k = 0 THEN Xor(l, b) ELSE BitStep(f[k - 1])
    BY <1>5
  <2>2. f[0] = x /\ f[1] = BitStep(f[0]) /\ f[2] = BitStep(f[1]) /\ f[3] = BitStep(f[2])
    BY <1>2, <2>1
  <2>3. f[4] = BitStep(f[3]) /\ f[5] = BitStep(f[4]) /\ f[6] = BitStep(f[5])
    BY <2>1
  <2>4. f[7] = BitStep(f[6]) /\ f[8] = BitStep(f[7])
    BY <2>1
  <2> QED
    BY <1>2, <2>2, <2>3, <2>4, Zenon
<1>6. ByteStep(l, b) = (CHOOSE f : Rec(f))[8]
  BY DEF ByteStep
<1> HIDE DEF Rec
<1>7. Rec(CHOOSE f : Rec(f))
  BY <1>4, Zenon
<1> QED
  BY <1>3, <1>5, <1>6, <1>7, Zenon

\* What the tables hold.
LEMMA Tables ==
    ASSUME NEW b \in Bits8
    PROVE  /\ Table0[b] = Eight(b)
           /\ Table1[b] = Eight(Eight(b))
           /\ Table2[b] = Eight(Eight(Eight(b)))
           /\ Table3[b] = Eight(Eight(Eight(Eight(b))))
<1>0. \A c \in Bits8 : Table0[c] = Eight(c)
  <2> TAKE c \in Bits8
  <2>1. Table0[c] = ByteStep({}, c)
    BY DEF Table0, Bits8
  <2>2. Xor({}, c) = c
    BY XorSum
  <2> QED
    BY <2>1, <2>2, ByteStepIs, Zenon
<1>1. ASSUME NEW t, NEW v \in Word, t[b] = v PROVE Behind(t)[b] = Eight(v)
  <2>1. Behind(t)[b] = Xor(Table0[Low8(t[b])], Shr(t[b], 8))
    BY DEF Behind, Bits8
  <2>2. Low8(v) \in Bits8
    BY Words
  <2>3. Table0[Low8(v)] = Eight(Low8(v))
    BY <1>0, <2>2
  <2> QED
    BY <1>1, <2>1, <2>3, EightSplit, Zenon
<1> DEFINE e1 == Eight(b)
           e2 == Eight(e1)
           e3 == Eight(e2)
<1>2. b \in Word /\ Table0[b] = e1
  BY <1>0, Words
<1>3. e1 \in Word /\ e2 \in Word /\ e3 \in Word
  BY <1>2, EightXor, Zenon
<1> HIDE DEF e1, e2, e3
<1>4. Table1[b] = Eight(e1)
  BY <1>1, <1>2, <1>3, Zenon DEF Table1
<1>5. Table2[b] = Eight(e2)
  BY <1>1, <1>3, <1>4, Zenon DEF Table2, e2
<1>6. Table3[b] = Eight(e3)
  BY <1>1, <1>3, <1>5, Zenon DEF Table3, e3
<1> QED
  BY <1>2, <1>4, <1>5, <1>6, Zenon DEF e1, e2, e3

\* STEP1 is a byte of the reference.
LEMMA Step1Is ==
    ASSUME NEW l \in Word, NEW b \in Bits8
    PROVE  ByteStep(l, b) \in Word /\ Step1(l, b) = ByteStep(l, b)
<1> DEFINE x == Xor(l, b)
<1>1. b \in Word /\ x \in Word /\ Low8(x) \in Bits8 /\ 8 \in Nat /\ l \in SUBSET Nat
      /\ b \in SUBSET Nat
  BY Words
<1>2. Shr(x, 8) = Shr(l, 8)
  <2>1. Shr(x, 8) = Xor(Shr(l, 8), Shr(b, 8))
    BY <1>1, ShrXor, Zenon
  <2>2. Shr(b, 8) = {}
    <3>1. \A j \in b : ~(j >= 8)
      BY DEF Bits8
    <3> QED
      BY <3>1, ShrBit
  <2>3. Xor(Shr(l, 8), {}) = Shr(l, 8)
    BY XorSum, Zenon
  <2> QED
    BY <2>1, <2>2, <2>3, Zenon
<1>3. Table0[Low8(x)] = Eight(Low8(x))
  BY <1>1, Tables, Zenon
<1>4. Step1(l, b) = Xor(Table0[Low8(x)], Shr(l, 8))
  BY Zenon DEF Step1
<1>5. ByteStep(l, b) = Eight(x)
  BY ByteStepIs, Zenon
<1> HIDE DEF x
<1>6. Eight(x) \in Word /\ Eight(x) = Xor(Eight(Low8(x)), Shr(x, 8))
  BY <1>1, EightXor, EightSplit, Zenon
<1> QED
  BY <1>2, <1>3, <1>4, <1>5, <1>6, Zenon

Quad == [1..4 -> Bits8]

\* Instances of this sum.
LEMMA XorAssoc ==
    ASSUME NEW a, NEW b, NEW c
    PROVE  Xor(Xor(a, b), c) = Xor(a, Xor(b, c))
BY DEF Xor

\* What has no bits in common is added.
LEMMA XorApart ==
    ASSUME NEW a, NEW b, \A i \in a : i \notin b
    PROVE  a \cup b = Xor(a, b)
BY DEF Xor

\* Xor stays within the bits there are.
LEMMA XorWithin ==
    ASSUME NEW S, NEW a \in SUBSET S, NEW b \in SUBSET S
    PROVE  Xor(a, b) \in SUBSET S
BY DEF Xor

\* STEP4's look-ups are 32 bits of the reference.
LEMMA LookUps ==
    ASSUME NEW c \in Word
    PROVE  Xor(Xor(Table3[Low8(c)], Table2[Low8(Shr(c, 8))]),
               Xor(Table1[Low8(Shr(c, 16))], Table0[Shr(c, 24)]))
           = Eight(Eight(Eight(Eight(c))))
<1> DEFINE c1 == Shr(c, 8)
           c2 == Shr(c, 16)
           c3 == Shr(c, 24)
           b0 == Low8(c)
           b1 == Low8(c1)
           b2 == Low8(c2)
<1>1. c1 \in Word /\ c2 \in Word /\ c3 \in Bits8
  <2>1. c1 \in Word /\ c2 \in Word
    BY Words
  <2>2. c3 \in SUBSET (0..7)
    <3>1. c \in SUBSET (0..(7 + 24)) /\ 7 \in Nat /\ 24 \in Nat
      BY DEF Word
    <3> QED
      BY <3>1, ShrFits, Zenon
  <2> QED
    BY <2>1, <2>2 DEF Bits8
<1>2. c2 = Shr(c1, 8) /\ c3 = Shr(c2, 8)
  <2>1. 8 \in Nat /\ 16 \in Nat /\ 8 + 8 = 16 /\ 16 + 8 = 24 /\ c \in SUBSET Nat
    BY Words
  <2> QED
    BY <2>1, ShrShr, Zenon
<1>3. b0 \in Bits8 /\ b1 \in Bits8 /\ b2 \in Bits8
  BY <1>1, Words
<1>4. /\ Eight(c) = Xor(Eight(b0), c1)
      /\ Eight(c1) = Xor(Eight(b1), c2)
      /\ Eight(c2) = Xor(Eight(b2), c3)
  BY <1>1, <1>2, EightSplit, Zenon
<1> HIDE DEF c1, c2, c3, b0, b1, b2
<1>5. b0 \in Word /\ b1 \in Word /\ b2 \in Word /\ c3 \in Word
  BY <1>1, <1>3, Words
<1>a. \A u, v \in Word : Eight(Xor(u, v)) = Xor(Eight(u), Eight(v))
  BY EightXor, Zenon
<1>b. \A u \in Word : Eight(u) \in Word
  BY EightXor, Zenon
<1>c. \A u, v \in Word : Xor(u, v) \in Word
  BY Words, Zenon
<1> DEFINE p1 == Eight(b0)
           p2 == Eight(p1)
           p3 == Eight(p2)
           p4 == Eight(p3)
           q1 == Eight(b1)
           q2 == Eight(q1)
           q3 == Eight(q2)
           r1 == Eight(b2)
           r2 == Eight(r1)
           s1 == Eight(c3)
<1>6. /\ p1 \in Word /\ p2 \in Word /\ p3 \in Word /\ p4 \in Word
      /\ q1 \in Word /\ q2 \in Word /\ q3 \in Word
      /\ r1 \in Word /\ r2 \in Word /\ s1 \in Word
  BY <1>5, EightXor, Zenon
<1>7. /\ Table3[b0] = p4 /\ Table2[b1] = q3 /\ Table1[b2] = r2 /\ Table0[c3] = s1
  BY <1>1, <1>3, Tables, Zenon
<1>8. /\ Eight(c) = Xor(p1, c1) /\ Eight(c1) = Xor(q1, c2) /\ Eight(c2) = Xor(r1, c3)
      /\ Eight(c3) = s1 /\ Eight(p1) = p2 /\ Eight(p2) = p3 /\ Eight(p3) = p4
      /\ Eight(q1) = q2 /\ Eight(q2) = q3 /\ Eight(r1) = r2
  BY <1>4, Zenon
<1> HIDE DEF p1, p2, p3, p4, q1, q2, q3, r1, r2, s1
<1> DEFINE v == Xor(r1, c3)
           u == Xor(q1, c2)
           t == Xor(q2, v)
           z == Xor(r2, s1)
<1>9. v \in Word /\ u \in Word /\ t \in Word /\ z \in Word
  <2>1. v \in Word /\ u \in Word /\ z \in Word
    BY <1>c, <1>1, <1>5, <1>6, Zenon
  <2> HIDE DEF v
  <2> QED
    BY <1>c, <1>6, <2>1, Zenon
<1>10. Eight(Eight(c)) = Xor(p2, u)
  BY <1>a, <1>1, <1>6, <1>8
<1>11. Eight(u) = t
  BY <1>a, <1>1, <1>6, <1>8
<1>12. Eight(v) = z
  BY <1>a, <1>5, <1>6, <1>8, Zenon
<1> HIDE DEF u, v
<1>13. Eight(Xor(p2, u)) = Xor(p3, t)
  BY <1>a, <1>6, <1>8, <1>9, <1>11
<1>14. Eight(t) = Xor(q3, z)
  BY <1>a, <1>6, <1>8, <1>9, <1>12
<1> HIDE DEF t
<1>15. Eight(Xor(p3, t)) = Xor(p4, Xor(q3, z))
  BY <1>a, <1>6, <1>8, <1>9, <1>14
<1>16. Xor(Xor(p4, q3), z) = Xor(p4, Xor(q3, z))
  BY XorAssoc
<1>17. Eight(Eight(Eight(Eight(c)))) = Xor(Xor(p4, q3), Xor(r2, s1))
  BY <1>10, <1>13, <1>15, <1>16, Zenon DEF z
<1> HIDE DEF z
<1> QED
  BY <1>7, <1>17, Zenon DEF c1, c2, c3, b0, b1, b2

\* load_le_uint, inside out.
LEMMA LoadIs ==
    ASSUME NEW w \in Quad
    PROVE  LET y2 == Xor(w[3], Shl(w[4], 8))
               y1 == Xor(w[2], Shl(y2, 8))
           IN  /\ LoadLE(w) = Xor(w[1], Shl(y1, 8))
               /\ y2 \in SUBSET (0..15) /\ y1 \in SUBSET (0..23) /\ LoadLE(w) \in Word
<1> DEFINE a == w[1]
           b == w[2]
           c == w[3]
           d == w[4]
           y2 == Xor(c, Shl(d, 8))
           y1 == Xor(b, Shl(y2, 8))
<1>1. /\ a \in SUBSET (0..7) /\ b \in SUBSET (0..7)
      /\ c \in SUBSET (0..7) /\ d \in SUBSET (0..7)
  BY DEF Quad, Bits8
<1> HIDE DEF a, b, c, d
<1>2. Shl(d, 8) \in SUBSET (0..15) /\ Shl(d, 24) \in SUBSET (0..31)
      /\ Shl(c, 8) \in SUBSET (0..15) /\ Shl(c, 16) \in SUBSET (0..23)
      /\ Shl(b, 8) \in SUBSET (0..15)
  <2>1. /\ 7 \in Nat /\ 8 \in Nat /\ 16 \in Nat /\ 24 \in Nat
        /\ 7 + 8 = 15 /\ 7 + 16 = 23 /\ 7 + 24 = 31
    OBVIOUS
  <2> QED
    BY <1>1, <2>1, ShlFits, Zenon
<1>3. y2 \in SUBSET (0..15)
  <2> DEFINE S == 0..15
             h == Shl(d, 8)
  <2>1. c \in SUBSET S /\ h \in SUBSET S
    BY <1>1, <1>2
  <2> HIDE DEF S, h
  <2>2. Xor(c, h) \in SUBSET S
    BY <2>1, XorWithin
  <2> QED
    BY <2>2 DEF S, h
<1> HIDE DEF y2
<1>4. Shl(y2, 8) \in SUBSET (0..23)
  <2>1. 15 \in Nat /\ 8 \in Nat /\ 15 + 8 = 23
    OBVIOUS
  <2> QED
    BY <1>3, <2>1, ShlFits, Zenon
<1>5. y1 \in SUBSET (0..23)
  <2> DEFINE S == 0..23
             h == Shl(y2, 8)
  <2>1. b \in SUBSET S /\ h \in SUBSET S
    BY <1>1, <1>4
  <2> HIDE DEF S, h
  <2>2. Xor(b, h) \in SUBSET S
    BY <2>1, XorWithin
  <2> QED
    BY <2>2 DEF S, h
<1> HIDE DEF y1
<1>6. Shl(y1, 8) = Xor(Shl(b, 8), Shl(Shl(y2, 8), 8))
  <2>1. b \in SUBSET Nat /\ Shl(y2, 8) \in SUBSET Nat /\ 8 \in Nat
    BY <1>1, <1>4
  <2> QED
    BY <2>1, ShlXor, Zenon DEF y1
<1>7. Shl(Shl(y2, 8), 8) = Shl(y2, 16)
  <2>1. y2 \in SUBSET Nat /\ 8 \in Nat /\ 8 + 8 = 16
    BY <1>3
  <2> QED
    BY <2>1, ShlShl, Zenon
<1>8. Shl(y2, 16) = Xor(Shl(c, 16), Shl(Shl(d, 8), 16))
  <2>1. c \in SUBSET Nat /\ Shl(d, 8) \in SUBSET Nat /\ 16 \in Nat
    BY <1>1, <1>2
  <2> QED
    BY <2>1, ShlXor, Zenon DEF y2
<1>9. Shl(Shl(d, 8), 16) = Shl(d, 24)
  <2>1. d \in SUBSET Nat /\ 8 \in Nat /\ 16 \in Nat /\ 8 + 16 = 24
    BY <1>1
  <2> QED
    BY <2>1, ShlShl, Zenon
<1> DEFINE B == Shl(b, 8)
           C == Shl(c, 16)
           D == Shl(d, 24)
<1>10. Xor(a, Shl(y1, 8)) = Xor(a, Xor(B, Xor(C, D)))
  BY <1>6, <1>7, <1>8, <1>9, Zenon
<1>11. /\ \A i \in a : i < 8
       /\ \A i \in B : i >= 8 /\ i < 16
       /\ \A i \in C : i >= 16 /\ i < 24
       /\ \A i \in D : i >= 24 /\ i <= 31
  <2>1. /\ b \in SUBSET Nat /\ c \in SUBSET Nat /\ d \in SUBSET Nat
        /\ 8 \in Nat /\ 16 \in Nat /\ 24 \in Nat
    BY <1>1
  <2>2. \A i \in Nat : i \in B <=> i >= 8 /\ i - 8 \in b
    BY <2>1, ShlIs, Zenon
  <2>3. \A i \in Nat : i \in C <=> i >= 16 /\ i - 16 \in c
    BY <2>1, ShlIs, Zenon
  <2>4. \A i \in Nat : i \in D <=> i >= 24 /\ i - 24 \in d
    BY <2>1, ShlIs, Zenon
  <2>5. B \in SUBSET Nat /\ C \in SUBSET Nat /\ D \in SUBSET Nat
    BY <2>1, ShlIs, Zenon
  <2> HIDE DEF B, C, D
  <2> QED
    BY <1>1, <2>2, <2>3, <2>4, <2>5
<1>12. /\ a \in SUBSET Nat /\ B \in SUBSET Nat /\ C \in SUBSET Nat /\ D \in SUBSET Nat
  BY <1>1, <1>2
<1>13. LoadLE(w) = ((a \cup B) \cup C) \cup D
  BY Zenon DEF LoadLE, a, b, c, d
<1> HIDE DEF B, C, D
<1>14. ((a \cup B) \cup C) \cup D = Xor(a, Xor(B, Xor(C, D)))
  <2>1. \A i \in C : i \notin D
    BY <1>11, <1>12
  <2>2. \A i \in B : i \notin C \cup D
    BY <1>11, <1>12
  <2>3. \A i \in a : i \notin B \cup (C \cup D)
    BY <1>11, <1>12
  <2>4. C \cup D = Xor(C, D)
    BY <2>1, XorApart, Zenon
  <2>5. B \cup (C \cup D) = Xor(B, C \cup D)
    BY <2>2, XorApart, Zenon
  <2>6. a \cup (B \cup (C \cup D)) = Xor(a, B \cup (C \cup D))
    BY <2>3, XorApart, Zenon
  <2>7. ((a \cup B) \cup C) \cup D = a \cup (B \cup (C \cup D))
    OBVIOUS
  <2> QED
    BY <2>4, <2>5, <2>6, <2>7, Zenon
<1>15. LoadLE(w) \in Word
  BY <1>11, <1>12, <1>13 DEF Word
<1>16. LoadLE(w) = Xor(a, Shl(y1, 8))
  BY <1>10, <1>13, <1>14, Zenon
<1> QED
  BY <1>3, <1>5, <1>15, <1>16, Zenon DEF a, b, c, d, y1, y2

\* STEP4 is four bytes of the reference.
LEMMA Step4Is ==
    ASSUME NEW l \in Word, NEW w \in Quad
    PROVE  Step4(l, w) = ByteStep(ByteStep(ByteStep(ByteStep(l, w[1]), w[2]), w[3]), w[4])
<1> DEFINE y2 == Xor(w[3], Shl(w[4], 8))
           y1 == Xor(w[2], Shl(y2, 8))
           load == LoadLE(w)
           c == Xor(l, load)
           l1 == ByteStep(l, w[1])
           l2 == ByteStep(l1, w[2])
           l3 == ByteStep(l2, w[3])
           l4 == ByteStep(l3, w[4])
<1>1. load = Xor(w[1], Shl(y1, 8)) /\ y2 \in SUBSET (0..15) /\ y1 \in SUBSET (0..23) /\ load \in Word
  BY LoadIs, Zenon
<1>2. /\ w[1] \in Bits8 /\ w[2] \in Bits8 /\ w[3] \in Bits8 /\ w[4] \in Bits8
  BY DEF Quad
<1>3. /\ w[1] \in Word /\ w[2] \in Word /\ w[3] \in Word
      /\ y2 \in SUBSET (0..23) /\ w[4] \in SUBSET (0..23)
  <2>1. /\ w[1] \in Word /\ w[2] \in Word /\ w[3] \in Word
    BY <1>2, Words
  <2> HIDE DEF y2
  <2> QED
    BY <1>1, <1>2, <2>1 DEF Bits8
<1>4. l1 \in Word /\ l2 \in Word /\ l3 \in Word
  BY <1>2, Step1Is, Zenon
<1>5. c \in Word /\ Step4(l, w) = Eight(Eight(Eight(Eight(c))))
  <2>1. c \in Word
    BY <1>1, Words, Zenon
  <2> QED
    BY <2>1, LookUps, Zenon DEF Step4
<1> HIDE DEF load, c, y1, y2, l1, l2, l3, l4
<1>6. /\ Xor(l, w[1]) \in Word /\ Xor(l1, w[2]) \in Word /\ Xor(l2, w[3]) \in Word
  BY <1>3, <1>4, Words, Zenon
<1>7. c = Xor(Xor(l, w[1]), Shl(y1, 8))
  BY <1>1, XorAssoc DEF c
<1>8. Eight(c) = Xor(l1, y1)
  <2>1. Eight(Xor(Xor(l, w[1]), Shl(y1, 8))) = Xor(Eight(Xor(l, w[1])), y1)
    BY <1>1, <1>6, EightNext, Zenon
  <2> QED
    BY <1>7, <2>1, ByteStepIs, Zenon DEF l1
<1>9. Xor(l1, y1) = Xor(Xor(l1, w[2]), Shl(y2, 8))
  BY XorAssoc DEF y1
<1>10. Eight(Xor(l1, y1)) = Xor(l2, y2)
  <2>1. Eight(Xor(Xor(l1, w[2]), Shl(y2, 8))) = Xor(Eight(Xor(l1, w[2])), y2)
    BY <1>3, <1>6, EightNext, Zenon
  <2> QED
    BY <1>9, <2>1, ByteStepIs, Zenon DEF l2
<1>11. Xor(l2, y2) = Xor(Xor(l2, w[3]), Shl(w[4], 8))
  BY XorAssoc DEF y2
<1>12. Eight(Xor(l2, y2)) = Xor(l3, w[4])
  <2>1. Eight(Xor(Xor(l2, w[3]), Shl(w[4], 8))) = Xor(Eight(Xor(l2, w[3])), w[4])
    BY <1>3, <1>6, EightNext, Zenon
  <2> QED
    BY <1>11, <2>1, ByteStepIs, Zenon DEF l3
<1>13. Eight(Xor(l3, w[4])) = l4
  BY ByteStepIs, Zenon DEF l4
<1> QED
  BY <1>5, <1>8, <1>10, <1>12, <1>13, Zenon DEF l1, l2, l3, l4

-----------------------------------------------------------------------------
(* CRC-32: a message.                                                      *)

\* What the reference makes of a byte, and STEP4 of four.
ByteTable == [p \in Word \X Bits8 |-> ByteStep(p[1], p[2])]
QuadTable == [p \in Word \X Quad |-> Step4(p[1], p[2])]

\* STEP4 keeps a word.
LEMMA Step4Word ==
    ASSUME NEW l \in Word, NEW w \in Quad
    PROVE  Step4(l, w) \in Word
<1>1. w[1] \in Bits8 /\ w[2] \in Bits8 /\ w[3] \in Bits8 /\ w[4] \in Bits8
  BY DEF Quad
<1>2. ByteStep(l, w[1]) \in Word
  BY <1>1, Step1Is
<1>3. ByteStep(ByteStep(l, w[1]), w[2]) \in Word
  BY <1>1, <1>2, Step1Is
<1>4. ByteStep(ByteStep(ByteStep(l, w[1]), w[2]), w[3]) \in Word
  BY <1>1, <1>3, Step1Is
<1>5. ByteStep(ByteStep(ByteStep(ByteStep(l, w[1]), w[2]), w[3]), w[4]) \in Word
  BY <1>1, <1>4, Step1Is
<1> QED
  BY <1>5, Step4Is, Zenon

\* The folds that get_crc32 and its reference are made of.
LEMMA FoldByte ==
    ASSUME NEW n \in Nat, NEW s \in [1..n -> Bits8], NEW b \in Word
    PROVE  Along(ByteTable, s, 0, b, n, FoldLeft(ByteStep, b, s))
<1> DEFINE Rec(f) == f = [t \in SUBSET (1..n) |->
                            IF t = {} THEN b ELSE ByteStep(f[t \ {Max(t)}], s[Max(t)])]
           fold == CHOOSE f : Rec(f)
<1>1. FoldLeft(ByteStep, b, s) = fold[1..n]
  BY DOMAIN s = 1..n DEF FoldLeft, MapThenFoldSet
<1>2. ByteTable \in [Word \X Bits8 -> Word]
      /\ \A x \in Word, y \in Bits8 : ByteTable[<<x, y>>] = ByteStep(x, y)
  <2>1. \A x \in Word, y \in Bits8 : ByteStep(x, y) \in Word
    BY Step1Is
  <2> QED
    BY <2>1 DEF ByteTable
<1>3. PICK f : FoldsTo(f, Word, ByteTable, b, s, n)
  BY <1>2, FoldExists
<1>4. Rec(f)
  <2>1. f \in [SUBSET (1..n) -> Word] /\ f[{}] = b
    BY <1>3, Zenon DEF FoldsTo
  <2>2. ASSUME NEW t \in SUBSET (1..n), t # {}
        PROVE  f[t] = ByteStep(f[t \ {Max(t)}], s[Max(t)])
    <3>1. Max(t) \in 1..n
      BY <2>2, MaxIn
    <3>2. t \ {Max(t)} \in SUBSET (1..n)
      BY <2>2
    <3>3. f[t \ {Max(t)}] \in Word /\ s[Max(t)] \in Bits8
      BY <2>1, <3>1, <3>2, Zenon
    <3>4. f[t] = ByteTable[<<f[t \ {Max(t)}], s[Max(t)]>>]
      BY <1>3, <2>2, Zenon DEF FoldsTo
    <3> QED
      BY <1>2, <3>3, <3>4, Zenon
  <2>3. f = [t \in SUBSET (1..n) |-> f[t]]
    BY <2>1, Zenon
  <2>4. \A t \in SUBSET (1..n) :
           f[t] = IF t = {} THEN b ELSE ByteStep(f[t \ {Max(t)}], s[Max(t)])
    BY <2>1, <2>2, Zenon
  <2> QED
    BY <2>3, <2>4, Zenon
<1>5. Rec(fold)
  <2> HIDE DEF Rec
  <2> QED
    BY <1>4, Zenon
<1> HIDE DEF fold
<1>6. \A t \in SUBSET (1..n) :
        fold[t] = IF t = {} THEN b ELSE ByteStep(fold[t \ {Max(t)}], s[Max(t)])
  <2> DEFINE r == [t \in SUBSET (1..n) |->
                    IF t = {} THEN b ELSE ByteStep(fold[t \ {Max(t)}], s[Max(t)])]
  <2>1. fold = r
    BY <1>5
  <2>2. \A t \in SUBSET (1..n) :
          r[t] = IF t = {} THEN b ELSE ByteStep(fold[t \ {Max(t)}], s[Max(t)])
    BY Zenon
  <2> HIDE DEF r
  <2> QED
    BY <2>1, <2>2, Zenon
<1>7. fold[{}] = b
  BY <1>6, Zenon
<1>8. ASSUME NEW k \in 1..n, fold[1..(k - 1)] \in Word
      PROVE  fold[1..k] = ByteTable[<<fold[1..(k - 1)], s[k]>>]
  <2>1. /\ 1..k \in SUBSET (1..n) /\ 1..k # {}
        /\ Max(1..k) = k /\ (1..k) \ {k} = 1..(k - 1)
    BY Initial
  <2>2. fold[1..k] = ByteStep(fold[1..(k - 1)], s[k])
    BY <1>6, <2>1, Zenon
  <2>3. s[k] \in Bits8
    OBVIOUS
  <2> QED
    BY <1>2, <1>8, <2>2, <2>3, Zenon
<1>9. Along(ByteTable, s, 0, b, n, fold[1..n])
  BY <1>2, <1>7, <1>8, AlongFold
<1> QED
  BY <1>1, <1>9, Zenon

\* The same for STEP1, which makes the same of a byte.
LEMMA FoldStep1 ==
    ASSUME NEW n \in Nat, NEW s \in [1..n -> Bits8], NEW b \in Word
    PROVE  Along(ByteTable, s, 0, b, n, FoldLeft(Step1, b, s))
<1> DEFINE Rec(f) == f = [t \in SUBSET (1..n) |->
                            IF t = {} THEN b ELSE Step1(f[t \ {Max(t)}], s[Max(t)])]
           fold == CHOOSE f : Rec(f)
<1>1. FoldLeft(Step1, b, s) = fold[1..n]
  BY DOMAIN s = 1..n DEF FoldLeft, MapThenFoldSet
<1>2. ByteTable \in [Word \X Bits8 -> Word]
      /\ \A x \in Word, y \in Bits8 : ByteTable[<<x, y>>] = Step1(x, y)
  <2>1. \A x \in Word, y \in Bits8 : ByteStep(x, y) \in Word /\ Step1(x, y) = ByteStep(x, y)
    BY Step1Is
  <2> QED
    BY <2>1 DEF ByteTable
<1>3. PICK f : FoldsTo(f, Word, ByteTable, b, s, n)
  BY <1>2, FoldExists
<1>4. Rec(f)
  <2>1. f \in [SUBSET (1..n) -> Word] /\ f[{}] = b
    BY <1>3, Zenon DEF FoldsTo
  <2>2. ASSUME NEW t \in SUBSET (1..n), t # {}
        PROVE  f[t] = Step1(f[t \ {Max(t)}], s[Max(t)])
    <3>1. Max(t) \in 1..n
      BY <2>2, MaxIn
    <3>2. t \ {Max(t)} \in SUBSET (1..n)
      BY <2>2
    <3>3. f[t \ {Max(t)}] \in Word /\ s[Max(t)] \in Bits8
      BY <2>1, <3>1, <3>2, Zenon
    <3>4. f[t] = ByteTable[<<f[t \ {Max(t)}], s[Max(t)]>>]
      BY <1>3, <2>2, Zenon DEF FoldsTo
    <3> QED
      BY <1>2, <3>3, <3>4, Zenon
  <2>3. f = [t \in SUBSET (1..n) |-> f[t]]
    BY <2>1, Zenon
  <2>4. \A t \in SUBSET (1..n) :
           f[t] = IF t = {} THEN b ELSE Step1(f[t \ {Max(t)}], s[Max(t)])
    BY <2>1, <2>2, Zenon
  <2> QED
    BY <2>3, <2>4, Zenon
<1>5. Rec(fold)
  <2> HIDE DEF Rec
  <2> QED
    BY <1>4, Zenon
<1> HIDE DEF fold
<1>6. \A t \in SUBSET (1..n) :
        fold[t] = IF t = {} THEN b ELSE Step1(fold[t \ {Max(t)}], s[Max(t)])
  <2> DEFINE r == [t \in SUBSET (1..n) |->
                    IF t = {} THEN b ELSE Step1(fold[t \ {Max(t)}], s[Max(t)])]
  <2>1. fold = r
    BY <1>5
  <2>2. \A t \in SUBSET (1..n) :
          r[t] = IF t = {} THEN b ELSE Step1(fold[t \ {Max(t)}], s[Max(t)])
    BY Zenon
  <2> HIDE DEF r
  <2> QED
    BY <2>1, <2>2, Zenon
<1>7. fold[{}] = b
  BY <1>6, Zenon
<1>8. ASSUME NEW k \in 1..n, fold[1..(k - 1)] \in Word
      PROVE  fold[1..k] = ByteTable[<<fold[1..(k - 1)], s[k]>>]
  <2>1. /\ 1..k \in SUBSET (1..n) /\ 1..k # {}
        /\ Max(1..k) = k /\ (1..k) \ {k} = 1..(k - 1)
    BY Initial
  <2>2. fold[1..k] = Step1(fold[1..(k - 1)], s[k])
    BY <1>6, <2>1, Zenon
  <2>3. s[k] \in Bits8
    OBVIOUS
  <2> QED
    BY <1>2, <1>8, <2>2, <2>3, Zenon
<1>9. Along(ByteTable, s, 0, b, n, fold[1..n])
  BY <1>2, <1>7, <1>8, AlongFold
<1> QED
  BY <1>1, <1>9, Zenon

\* And for STEP4 and words.
LEMMA FoldStep4 ==
    ASSUME NEW n \in Nat, NEW s \in [1..n -> Quad], NEW b \in Word
    PROVE  Along(QuadTable, s, 0, b, n, FoldLeft(Step4, b, s))
<1> DEFINE Rec(f) == f = [t \in SUBSET (1..n) |->
                            IF t = {} THEN b ELSE Step4(f[t \ {Max(t)}], s[Max(t)])]
           fold == CHOOSE f : Rec(f)
<1>1. FoldLeft(Step4, b, s) = fold[1..n]
  BY DOMAIN s = 1..n DEF FoldLeft, MapThenFoldSet
<1>2. QuadTable \in [Word \X Quad -> Word]
      /\ \A x \in Word, y \in Quad : QuadTable[<<x, y>>] = Step4(x, y)
  <2>1. \A x \in Word, y \in Quad : Step4(x, y) \in Word
    BY Step4Word
  <2> QED
    BY <2>1 DEF QuadTable
<1>3. PICK f : FoldsTo(f, Word, QuadTable, b, s, n)
  BY <1>2, FoldExists
<1>4. Rec(f)
  <2>1. f \in [SUBSET (1..n) -> Word] /\ f[{}] = b
    BY <1>3, Zenon DEF FoldsTo
  <2>2. ASSUME NEW t \in SUBSET (1..n), t # {}
        PROVE  f[t] = Step4(f[t \ {Max(t)}], s[Max(t)])
    <3>1. Max(t) \in 1..n
      BY <2>2, MaxIn
    <3>2. t \ {Max(t)} \in SUBSET (1..n)
      BY <2>2
    <3>3. f[t \ {Max(t)}] \in Word /\ s[Max(t)] \in Quad
      BY <2>1, <3>1, <3>2, Zenon
    <3>4. f[t] = QuadTable[<<f[t \ {Max(t)}], s[Max(t)]>>]
      BY <1>3, <2>2, Zenon DEF FoldsTo
    <3> QED
      BY <1>2, <3>3, <3>4, Zenon
  <2>3. f = [t \in SUBSET (1..n) |-> f[t]]
    BY <2>1, Zenon
  <2>4. \A t \in SUBSET (1..n) :
           f[t] = IF t = {} THEN b ELSE Step4(f[t \ {Max(t)}], s[Max(t)])
    BY <2>1, <2>2, Zenon
  <2> QED
    BY <2>3, <2>4, Zenon
<1>5. Rec(fold)
  <2> HIDE DEF Rec
  <2> QED
    BY <1>4, Zenon
<1> HIDE DEF fold
<1>6. \A t \in SUBSET (1..n) :
        fold[t] = IF t = {} THEN b ELSE Step4(fold[t \ {Max(t)}], s[Max(t)])
  <2> DEFINE r == [t \in SUBSET (1..n) |->
                    IF t = {} THEN b ELSE Step4(fold[t \ {Max(t)}], s[Max(t)])]
  <2>1. fold = r
    BY <1>5
  <2>2. \A t \in SUBSET (1..n) :
          r[t] = IF t = {} THEN b ELSE Step4(fold[t \ {Max(t)}], s[Max(t)])
    BY Zenon
  <2> HIDE DEF r
  <2> QED
    BY <2>1, <2>2, Zenon
<1>7. fold[{}] = b
  BY <1>6, Zenon
<1>8. ASSUME NEW k \in 1..n, fold[1..(k - 1)] \in Word
      PROVE  fold[1..k] = QuadTable[<<fold[1..(k - 1)], s[k]>>]
  <2>1. /\ 1..k \in SUBSET (1..n) /\ 1..k # {}
        /\ Max(1..k) = k /\ (1..k) \ {k} = 1..(k - 1)
    BY Initial
  <2>2. fold[1..k] = Step4(fold[1..(k - 1)], s[k])
    BY <1>6, <2>1, Zenon
  <2>3. s[k] \in Quad
    OBVIOUS
  <2> QED
    BY <1>2, <1>8, <2>2, <2>3, Zenon
<1>9. Along(QuadTable, s, 0, b, n, fold[1..n])
  BY <1>2, <1>7, <1>8, AlongFold
<1> QED
  BY <1>1, <1>9, Zenon

\* STEP4 of a word is four steps along its bytes.
LEMMA FourBytes ==
    ASSUME NEW p \in Nat, NEW l \in Word, NEW w \in Quad, NEW s,
           \A j \in 1..4 : s[p + j] = w[j]
    PROVE  Along(ByteTable, s, p, l, p + 4, Step4(l, w))
<1> DEFINE l1 == ByteStep(l, w[1])
           l2 == ByteStep(l1, w[2])
           l3 == ByteStep(l2, w[3])
           l4 == ByteStep(l3, w[4])
           r == [k \in p..(p + 4) |-> IF k = p THEN l ELSE IF k = p + 1 THEN l1
                  ELSE IF k = p + 2 THEN l2 ELSE IF k = p + 3 THEN l3 ELSE l4]
<1>1. w[1] \in Bits8 /\ w[2] \in Bits8 /\ w[3] \in Bits8 /\ w[4] \in Bits8
  BY DEF Quad
<1>2. l1 \in Word /\ l2 \in Word /\ l3 \in Word
  BY <1>1, Step1Is, Zenon
<1>3. Step4(l, w) = l4
  BY Step4Is, Zenon
<1>4. /\ ByteTable[<<l, w[1]>>] = l1 /\ ByteTable[<<l1, w[2]>>] = l2
      /\ ByteTable[<<l2, w[3]>>] = l3 /\ ByteTable[<<l3, w[4]>>] = l4
  <2>1. \A x \in Word, b \in Bits8 : ByteTable[<<x, b>>] = ByteStep(x, b)
    BY DEF ByteTable
  <2> QED
    BY <1>1, <1>2, <2>1, Zenon
<1> HIDE DEF l1, l2, l3, l4
<1>5. /\ r[p] = l /\ r[p + 1] = l1 /\ r[p + 2] = l2 /\ r[p + 3] = l3 /\ r[p + 4] = l4
  OBVIOUS
<1> HIDE DEF r
<1>6. ASSUME NEW k \in (p + 1)..(p + 4) PROVE r[k] = ByteTable[<<r[k - 1], s[k]>>]
  <2>1. s[p + 1] = w[1] /\ s[p + 2] = w[2] /\ s[p + 3] = w[3] /\ s[p + 4] = w[4]
    OBVIOUS
  <2>2. CASE k = p + 1
    <3>1. k - 1 = p
      BY <2>2
    <3> QED
      BY <1>4, <1>5, <2>1, <2>2, <3>1, Zenon
  <2>3. CASE k = p + 2
    <3>1. k - 1 = p + 1
      BY <2>3
    <3> QED
      BY <1>4, <1>5, <2>1, <2>3, <3>1, Zenon
  <2>4. CASE k = p + 3
    <3>1. k - 1 = p + 2
      BY <2>4
    <3> QED
      BY <1>4, <1>5, <2>1, <2>4, <3>1, Zenon
  <2>5. CASE k = p + 4
    <3>1. k - 1 = p + 3
      BY <2>5
    <3> QED
      BY <1>4, <1>5, <2>1, <2>5, <3>1, Zenon
  <2> QED
    BY <2>2, <2>3, <2>4, <2>5
<1> QED
  BY <1>3, <1>5, <1>6, Zenon DEF Along

\* And of the words of a buffer, steps along its bytes.
LEMMA Grouped ==
    ASSUME NEW words \in Nat, NEW first \in Nat, NEW s, NEW groups \in [1..words -> Quad],
           \A i \in 1..words : \A j \in 1..4 : groups[i][j] = s[first + 4 * (i - 1) + j],
           NEW x \in Word, NEW y, Along(QuadTable, groups, 0, x, words, y)
    PROVE  Along(ByteTable, s, first, x, first + 4 * words, y)
<1>1. PICK r : /\ r[0] = x /\ r[words] = y
               /\ \A k \in (0 + 1)..words : r[k] = QuadTable[<<r[k - 1], groups[k]>>]
  BY Zenon DEF Along
<1> DEFINE S == {n \in Nat : n <= words =>
                   r[n] \in Word /\ Along(ByteTable, s, first, x, first + 4 * n, r[n])}
<1>2. 0 \in S
  <2>1. first + 4 * 0 = first /\ \A k \in (first + 1)..first : FALSE
    OBVIOUS
  <2> DEFINE t == [k \in {first} |-> x]
  <2>2. t[first] = x
    OBVIOUS
  <2> HIDE DEF t
  <2>3. Along(ByteTable, s, first, x, first, x)
    BY <2>1, <2>2, Zenon DEF Along
  <2> QED
    BY <1>1, <2>1, <2>3
<1>3. ASSUME NEW n \in Nat, n \in S PROVE n + 1 \in S
  <2> SUFFICES ASSUME n + 1 <= words
               PROVE  /\ r[n + 1] \in Word
                      /\ Along(ByteTable, s, first, x, first + 4 * (n + 1), r[n + 1])
    OBVIOUS
  <2> DEFINE p == first + 4 * n
             w == groups[n + 1]
  <2>1. r[n] \in Word /\ Along(ByteTable, s, first, x, p, r[n])
    BY <1>3
  <2>2. /\ n + 1 \in (0 + 1)..words /\ n + 1 \in 1..words /\ (n + 1) - 1 = n
        /\ p \in Nat /\ p + 4 \in Nat /\ first <= p /\ p <= p + 4
        /\ first + 4 * (n + 1) = p + 4
    OBVIOUS
  <2>3. w \in Quad /\ \A j \in 1..4 : s[p + j] = w[j]
    BY <2>2
  <2>4. r[n + 1] = QuadTable[<<r[n], w>>]
    BY <1>1, <2>2, Zenon
  <2>5. QuadTable[<<r[n], w>>] = Step4(r[n], w)
    BY <2>1, <2>3 DEF QuadTable
  <2> HIDE DEF p, w
  <2>6. Along(ByteTable, s, p, r[n], p + 4, r[n + 1])
    BY <2>1, <2>2, <2>3, <2>4, <2>5, FourBytes, Zenon
  <2>7. r[n + 1] \in Word
    BY <2>1, <2>3, <2>4, <2>5, Step4Word, Zenon
  <2>8. Along(ByteTable, s, first, x, p + 4, r[n + 1])
    BY <2>1, <2>2, <2>6, AlongJoin
  <2> QED
    BY <2>2, <2>7, <2>8, Zenon
<1> HIDE DEF S
<1>4. words \in S
  BY <1>2, <1>3, Induction
<1> QED
  BY <1>1, <1>4 DEF S

\* get_crc32 is steps along the bytes of its buffer, wherever that lies.
LEMMA GetCrc32Is ==
    ASSUME NEW start \in Word, NEW address \in 0..3, NEW buf \in Seq(Bits8)
    PROVE  \E y \in Word : /\ Along(ByteTable, buf, 0, Xor(start, Ones), Len(buf), y)
                           /\ GetCrc32(start, address, buf) = Xor(y, Ones)
<1> DEFINE n == Len(buf)
           x == (4 - address) % 4
           first == IF x <= n THEN x ELSE 0
           words == (n - first) \div 4
           last == first + 4 * words
           s1 == SubSeq(buf, 1, first)
           s2 == [i \in 1..words |-> SubSeq(buf, first + 4 * i - 3, first + 4 * i)]
           s3 == SubSeq(buf, last + 1, n)
           b == Xor(start, Ones)
           head == FoldLeft(Step1, b, s1)
           mid == FoldLeft(Step4, head, s2)
           tail == FoldLeft(Step1, mid, s3)
<1>1. GetCrc32(start, address, buf) = Xor(tail, Ones)
  BY Zenon DEF GetCrc32
<1>2. /\ n \in Nat /\ buf \in [1..n -> Bits8]
  OBVIOUS
<1>3. first \in 0..n
  BY <1>2
<1>4. b \in Word
  BY Words, Zenon
<1> HIDE DEF n, x, first
<1>5. /\ words \in Nat /\ last \in Nat /\ first \in Nat /\ last <= n /\ first <= last
      /\ n - last \in Nat
  <2>1. n - first \in Nat
    BY <1>2, <1>3
  <2> DEFINE m == n - first
  <2> HIDE DEF m
  <2>2. m \div 4 \in Nat /\ 4 * (m \div 4) <= m
    BY <2>1 DEF m
  <2> QED
    BY <1>2, <1>3, <2>2 DEF m
<1> HIDE DEF words
<1>6. /\ s1 \in [1..first -> Bits8]
      /\ \A k \in 1..first : buf[k] = s1[k]
  <2>1. 1 \in Int /\ first \in Int /\ 1..first = 1..(1 + first - 1)
    BY <1>3
  <2>2. s1 = [k \in 1..first |-> buf[k]]
    BY <1>2, <2>1
  <2>3. \A k \in 1..first : buf[k] \in Bits8
    BY <1>2, <1>3
  <2> HIDE DEF s1
  <2> QED
    BY <2>2, <2>3
<1>7. /\ s2 \in [1..words -> Quad]
      /\ \A i \in 1..words : \A j \in 1..4 : s2[i][j] = buf[first + 4 * (i - 1) + j]
  <2>1. ASSUME NEW i \in 1..words
        PROVE  /\ s2[i] \in Quad
               /\ \A j \in 1..4 : s2[i][j] = buf[first + 4 * (i - 1) + j]
    <3> DEFINE lo == first + 4 * i - 3
               hi == first + 4 * i
               q == SubSeq(buf, lo, hi)
    <3>1. /\ lo \in 1..n /\ hi \in 1..n /\ hi = lo + 3
          /\ \A j \in 1..4 : first + 4 * (i - 1) + j = lo + j - 1
      BY <1>2, <1>3, <1>5
    <3>2. s2[i] = q
      OBVIOUS
    <3> HIDE DEF lo, hi
    <3>3. q = [j \in 1..4 |-> buf[lo + j - 1]]
      BY <1>2, <3>1
    <3>4. \A j \in 1..4 : lo + j - 1 \in 1..n
      BY <1>2, <3>1
    <3>5. q \in Quad
      BY <1>2, <3>3, <3>4 DEF Quad
    <3> QED
      BY <3>1, <3>2, <3>3, <3>5
  <2>2. s2 = [i \in 1..words |-> s2[i]]
    OBVIOUS
  <2> HIDE DEF s2
  <2> QED
    BY <2>1, <2>2
<1>8. /\ s3 \in [1..(n - last) -> Bits8]
      /\ \A k \in 1..(n - last) : buf[last + k] = s3[k]
  <2> HIDE DEF last
  <2>1. s3 = [k \in 1..(n - last) |-> buf[last + k]]
    BY <1>2, <1>5
  <2>2. \A k \in 1..(n - last) : buf[last + k] \in Bits8
    BY <1>2, <1>5
  <2> HIDE DEF s3
  <2> QED
    BY <2>1, <2>2
<1> HIDE DEF s1, s2, s3, b
<1>9. Along(ByteTable, s1, 0, b, first, head)
  BY <1>4, <1>5, <1>6, FoldStep1, Zenon
<1>10. 0 + first = first /\ 0 <= first /\ 0 \in Nat /\ \A k \in 1..first : buf[0 + k] = s1[0 + k]
  BY <1>5, <1>6
<1>11. Along(ByteTable, buf, 0, b, first, head)
  BY <1>5, <1>9, <1>10, AlongShift
<1>0. ByteTable \in [Word \X Bits8 -> Word]
  <2>1. \A v \in Word, y \in Bits8 : ByteStep(v, y) \in Word
    BY Step1Is
  <2> QED
    BY <2>1 DEF ByteTable
<1> HIDE DEF head
<1>a. \A k \in 1..n : buf[k] \in Bits8
  BY <1>2
<1>12. head \in Word
  <2>1. \A k \in (0 + 1)..first : buf[k] \in Bits8
    BY <1>2, <1>3
  <2> QED
    BY <1>0, <1>4, <1>5, <1>10, <1>11, <2>1, AlongOnce, Zenon
<1>13. Along(QuadTable, s2, 0, head, words, mid)
  BY <1>5, <1>7, <1>12, FoldStep4, Zenon
<1> HIDE DEF mid
<1>14. Along(ByteTable, buf, first, head, last, mid)
  BY <1>5, <1>7, <1>12, <1>13, Grouped, Zenon
<1> HIDE DEF last
<1>15. mid \in Word
  <2>1. \A k \in (first + 1)..last : buf[k] \in Bits8
    BY <1>2, <1>3, <1>5
  <2> QED
    BY <1>0, <1>5, <1>12, <1>14, <2>1, AlongOnce, Zenon
<1>16. Along(ByteTable, s3, 0, mid, n - last, tail)
  BY <1>5, <1>8, <1>15, FoldStep1, Zenon
<1> HIDE DEF tail
<1>17. 0 + (n - last) = n - last /\ last + (n - last) = n
       /\ \A k \in 1..(n - last) : buf[last + k] = s3[0 + k]
  BY <1>2, <1>5, <1>8
<1>18. Along(ByteTable, buf, last, mid, n, tail)
  BY <1>5, <1>10, <1>16, <1>17, AlongShift
<1>19. Along(ByteTable, buf, 0, b, last, mid)
  BY <1>5, <1>10, <1>11, <1>14, AlongJoin, Zenon
<1>20. Along(ByteTable, buf, 0, b, n, tail)
  <2>1. 0 <= last
    BY <1>5
  <2> QED
    BY <1>2, <1>5, <1>10, <1>18, <1>19, <2>1, AlongJoin, Zenon
<1>21. tail \in Word
  <2>1. \A k \in (0 + 1)..n : buf[k] \in Bits8
    BY <1>2
  <2>2. 0 <= n
    BY <1>2
  <2> QED
    BY <1>0, <1>2, <1>4, <1>10, <1>20, <2>1, <2>2, AlongOnce, Zenon
<1> QED
  BY <1>1, <1>20, <1>21, Zenon DEF b, n

\* The reference, too.
LEMMA ReferenceIs ==
    ASSUME NEW m \in Seq(Bits8), NEW y, Along(ByteTable, m, 0, Ones, Len(m), y)
    PROVE  y \in Word /\ Reference(m) = Xor(y, Ones)
<1> DEFINE n == Len(m)
           f == FoldLeft(ByteStep, Ones, m)
<1>1. n \in Nat /\ m \in [1..n -> Bits8] /\ 0 \in Nat /\ 0 <= n /\ Ones \in Word
  BY Words
<1>2. Along(ByteTable, m, 0, Ones, n, f)
  BY <1>1, FoldByte, Zenon
<1>3. ByteTable \in [Word \X Bits8 -> Word]
  <2>1. \A v \in Word, b \in Bits8 : ByteStep(v, b) \in Word
    BY Step1Is
  <2> QED
    BY <2>1 DEF ByteTable
<1>4. \A k \in (0 + 1)..n : m[k] \in Bits8
  BY <1>1
<1> HIDE DEF n, f
<1>5. Along(ByteTable, m, 0, Ones, n, y)
  BY Zenon DEF n
<1>6. y \in Word /\ Only(y, ByteTable, m, 0, Ones, n)
  BY <1>1, <1>3, <1>4, <1>5, AlongOnce, Zenon
<1>8. y = f
  BY <1>2, <1>6, Zenon DEF Only
<1> QED
  BY <1>6, <1>8, Zenon DEF Reference, f

\* One more piece, at any address.
LEMMA CrcOfPieces ==
    ASSUME NEW m \in Seq(Bits8), NEW piece \in Seq(Bits8), NEW address \in 0..3
    PROVE  Reference(m) \in Word
           /\ GetCrc32(Reference(m), address, piece) = Reference(m \o piece)
<1> DEFINE n == Len(m)
           k == Len(piece)
           s == m \o piece
           y == FoldLeft(ByteStep, Ones, m)
<1>1. /\ n \in Nat /\ m \in [1..n -> Bits8] /\ k \in Nat /\ s \in Seq(Bits8) /\ Len(s) = n + k
      /\ \A i \in 1..n : s[i] = m[i]
      /\ \A i \in 1..k : s[n + i] = piece[i]
  OBVIOUS
<1>2. /\ 0 \in Nat /\ 0 + n = n /\ 0 + k = k /\ n + k \in Nat /\ 0 <= n /\ n <= n + k
      /\ \A i \in 1..n : s[0 + i] = m[0 + i]
      /\ \A i \in 1..k : s[n + i] = piece[0 + i]
  <2> HIDE DEF s, n, k
  <2> QED
    BY <1>1
<1>3. Ones \in Word
  BY Words
<1>4. Along(ByteTable, m, 0, Ones, n, y)
  BY <1>1, <1>3, FoldByte, Zenon
<1> HIDE DEF y
<1>5. y \in Word /\ Reference(m) = Xor(y, Ones)
  BY <1>4, ReferenceIs, Zenon
<1>6. Reference(m) \in Word
  BY <1>3, <1>5, Words, Zenon
<1>7. PICK z \in Word : /\ Along(ByteTable, piece, 0, Xor(Reference(m), Ones), k, z)
                        /\ GetCrc32(Reference(m), address, piece) = Xor(z, Ones)
  BY <1>6, GetCrc32Is
<1>8. Xor(Reference(m), Ones) = y
  <2>1. Xor(Xor(y, Ones), Ones) = y
    BY DEF Xor
  <2> QED
    BY <1>5, <2>1, Zenon
<1> HIDE DEF s, n, k
<1>9. Along(ByteTable, s, 0, Ones, n, y)
  BY <1>1, <1>2, <1>4, AlongShift
<1>10. Along(ByteTable, s, n, y, n + k, z)
  <2>1. Along(ByteTable, piece, 0, y, k, z)
    BY <1>7, <1>8, Zenon
  <2>2. /\ 0 \in Nat /\ n \in Nat /\ k \in Nat /\ \A i \in 1..k : s[n + i] = piece[0 + i]
        /\ Along(ByteTable, piece, 0, y, 0 + k, z)
    BY <1>1, <1>2, <2>1, Zenon
  <2> QED
    BY <2>2, AlongShift, Zenon
<1>11. Along(ByteTable, s, 0, Ones, n + k, z)
  BY <1>1, <1>2, <1>9, <1>10, AlongJoin, Zenon
<1>12. Reference(s) = Xor(z, Ones)
  BY <1>1, <1>11, ReferenceIs, Zenon
<1> QED
  BY <1>6, <1>7, <1>12, Zenon DEF s

\* Of no bytes.
LEMMA CrcOfNothing == Reference(<<>>) = {}
<1>1. <<>> \in Seq(Bits8) /\ Len(<<>>) = 0 /\ Ones \in Word
  BY Words
<1> DEFINE r == [k \in {0} |-> Ones]
<1>2. r[0] = Ones /\ \A k \in (0 + 1)..0 : FALSE
  OBVIOUS
<1> HIDE DEF r
<1>3. Along(ByteTable, <<>>, 0, Ones, 0, Ones)
  BY <1>2, Zenon DEF Along
<1>4. Reference(<<>>) = Xor(Ones, Ones)
  BY <1>1, <1>3, ReferenceIs, Zenon
<1>5. Xor(Ones, Ones) = {}
  BY XorSum, Zenon
<1> QED
  BY <1>4, <1>5, Zenon

\* The message consists of bytes.
BytesInv == message \in Seq(Byte) /\ CrcOfMessage

\* It is inductive.
LEMMA BytesInitNext == (SumInit => BytesInv) /\ (BytesInv /\ [SumNext]_sumVars => BytesInv')
<1>1. Byte \subseteq Bits8
  BY SizeAssumption DEF Bits8
<1>2. SumInit => BytesInv
  BY CrcOfNothing DEF SumInit, BytesInv, CrcOfMessage
<1>3. ASSUME BytesInv, NEW len \in 0..(MaxMessage - Len(message)), NEW piece \in [1..len -> Byte],
             NEW a \in 0..3, Feed(piece, a)
      PROVE  BytesInv'
  <2>1. message \in Seq(Byte) /\ piece \in Seq(Byte) /\ crc = Reference(message)
    <3>1. len \in Nat
      BY <1>3, SizeAssumption DEF BytesInv
    <3> QED
      BY <1>3, <3>1 DEF BytesInv, CrcOfMessage
  <2>2. message \in Seq(Bits8) /\ piece \in Seq(Bits8)
    BY <1>1, <2>1
  <2>3. message' = message \o piece /\ crc' = GetCrc32(crc, a, piece)
    BY <1>3 DEF Feed
  <2>4. GetCrc32(Reference(message), a, piece) = Reference(message \o piece)
    BY <1>3, <2>2, CrcOfPieces, Zenon
  <2>5. message \o piece \in Seq(Byte)
    BY <2>1
  <2>6. crc' = Reference(message')
    BY <2>1, <2>3, <2>4, Zenon
  <2> QED
    BY <2>3, <2>5, <2>6, Zenon DEF BytesInv, CrcOfMessage
<1>4. ASSUME BytesInv, Finish PROVE BytesInv'
  BY <1>4 DEF BytesInv, CrcOfMessage, Finish
<1>5. ASSUME BytesInv, Again PROVE BytesInv'
  BY <1>5, CrcOfNothing DEF BytesInv, CrcOfMessage, Again
<1>6. ASSUME BytesInv, UNCHANGED sumVars PROVE BytesInv'
  BY <1>6 DEF BytesInv, CrcOfMessage, sumVars
<1> QED
  BY <1>2, <1>3, <1>4, <1>5, <1>6, Zenon DEF SumNext

\* get_crc32 of a message fed in pieces of any length, each at any address, is what
\* the bits of the whole message give one by one: slicing by four, and the bytes
\* before and after the aligned words, change nothing.
THEOREM CrcIsOfMessage == SumSpec => []CrcOfMessage
<1>1. BytesInv => CrcOfMessage
  BY DEF BytesInv
<1> QED
  BY <1>1, BytesInitNext, PTL DEF SumSpec

-----------------------------------------------------------------------------
(* SHA-1: counting.                                                        *)

\* Products are monotone.
LEMMA Times ==
    ASSUME NEW x \in Nat, NEW y \in Nat, NEW b \in Nat, x <= y
    PROVE  x * b \in Nat /\ y * b \in Nat /\ x * b <= y * b
<1> DEFINE d == y - x
<1>1. d \in Nat /\ y = x + d
  OBVIOUS
<1> HIDE DEF d
<1>2. (x + d) * b = x * b + d * b
  BY <1>1
<1>3. x * b \in Nat /\ d * b \in Nat
  BY <1>1
<1> QED
  BY <1>1, <1>2, <1>3

\* Quotient and remainder, and that there are no others.
LEMMA DivModOf ==
    ASSUME NEW a \in Nat, NEW b \in Nat \ {0}
    PROVE  /\ a \div b \in Nat /\ a % b \in 0..(b - 1)
           /\ (a \div b) * b \in Nat /\ a = (a \div b) * b + (a % b)
OBVIOUS

\* There is one quotient and one remainder.
LEMMA OneDivMod ==
    ASSUME NEW b \in Nat \ {0}, NEW p \in Nat, NEW q \in Nat, NEW r \in 0..(b - 1),
           NEW s \in 0..(b - 1), p * b + r = q * b + s
    PROVE  p = q /\ r = s
<1>1. ASSUME NEW x \in Nat, NEW y \in Nat, NEW u \in 0..(b - 1), NEW v \in 0..(b - 1),
             x * b + u = y * b + v, x < y
      PROVE  FALSE
  <2>1. (x + 1) * b <= y * b /\ y * b \in Nat
    BY <1>1, Times
  <2>2. (x + 1) * b = x * b + b /\ x * b \in Nat
    OBVIOUS
  <2> QED
    BY <1>1, <2>1, <2>2
<1>2. ~(p < q)
  BY <1>1
<1>3. ~(q < p)
  BY <1>1
<1>4. p = q
  BY <1>2, <1>3
<1>5. p * b \in Nat /\ p * b = q * b
  BY <1>4
<1> QED
  BY <1>4, <1>5

\* So the quotient and the remainder are known from a product.
LEMMA DivMod ==
    ASSUME NEW b \in Nat \ {0}, NEW q \in Nat, NEW r \in 0..(b - 1), NEW a, a = q * b + r
    PROVE  a \in Nat /\ a \div b = q /\ a % b = r
<1>1. q * b \in Nat
  OBVIOUS
<1>2. a \in Nat
  BY <1>1
<1>3. a \div b \in Nat /\ a % b \in 0..(b - 1) /\ a = (a \div b) * b + (a % b)
  BY <1>2, DivModOf
<1>4. a \div b = q /\ a % b = r
  BY <1>3, OneDivMod
<1> QED
  BY <1>2, <1>4

\* A number below b is its own remainder.
LEMMA ModSmall ==
    ASSUME NEW b \in Nat \ {0}, NEW r \in 0..(b - 1)
    PROVE  r % b = r
<1> DEFINE q == r \div b
<1>0. r \in Nat
  OBVIOUS
<1>1. q \in Nat /\ r % b \in 0..(b - 1) /\ q * b \in Nat /\ r = q * b + (r % b)
  BY <1>0, DivModOf, Zenon
<1> HIDE DEF q
<1>2. q = 0
  <2> SUFFICES ASSUME 1 <= q PROVE FALSE
    BY <1>1
  <2>1. 1 * b <= q * b
    BY <1>1, Times
  <2> QED
    BY <1>0, <1>1, <2>1
<1>3. q * b = 0
  BY <1>2
<1> QED
  BY <1>0, <1>1, <1>3

\* The low word wraps after a whole number of blocks, and is not the only one.
LEMMA Sizes ==
    /\ Block \in Nat \ {0} /\ Block >= 3 /\ WordSize \in Nat \ {0} /\ WordSize >= 24
    /\ MaxMessage \in Nat
    /\ \E q \in Nat : WordSize = 8 * (q * Block)
<1>1. /\ Block \in Nat \ {0} /\ Block >= 3 /\ WordSize \in Nat \ {0} /\ MaxMessage \in Nat
  BY SizeAssumption, PieceAssumption
<1> DEFINE b == 8 * Block
<1>2. b \in Nat \ {0} /\ WordSize % b = 0 /\ b >= 24
  BY <1>1, SizeAssumption
<1> HIDE DEF b
<1> DEFINE q == WordSize \div b
<1>3. q \in Nat /\ q * b \in Nat /\ WordSize = q * b
  BY <1>1, <1>2, DivModOf
<1> HIDE DEF q
<1>4. q >= 1
  BY <1>1, <1>2, <1>3
<1>5. 1 * b <= q * b
  BY <1>2, <1>3, <1>4, Times
<1>6. WordSize >= 24
  BY <1>2, <1>3, <1>5
<1>7. q * b = 8 * (q * Block)
  BY <1>1, <1>3 DEF b
<1> QED
  BY <1>1, <1>3, <1>6, <1>7

\* The two words count len bits.
Counts(count, len) ==
    /\ count[1] \in 0..(WordSize - 1) /\ count[2] \in 0..(WordSize - 1)
    /\ count[2] * WordSize + count[1] = 8 * len

\* The offset in the block is that of the message.
LEMMA OffsetIs ==
    ASSUME NEW count, NEW len \in Nat, Counts(count, len)
    PROVE  (count[1] \div 8) % Block = len % Block
<1> DEFINE low == count[1]
           high == count[2]
           W == WordSize
<1>1. low \in Nat /\ high \in Nat /\ high * W + low = 8 * len
  BY DEF Counts
<1>2. PICK q \in Nat : W = 8 * (q * Block)
  BY Sizes
<1>3. Block \in Nat \ {0} /\ W \in Nat
  BY Sizes
<1> HIDE DEF low, high, W
<1> DEFINE t == high * (q * Block)
<1>4. t \in Nat /\ high * W = 8 * t
  BY <1>1, <1>2, <1>3
<1>5. t = (high * q) * Block /\ high * q \in Nat
  BY <1>1, <1>2, <1>3
<1> HIDE DEF t
<1>6. low = 8 * (len - t) /\ len - t \in Nat
  BY <1>1, <1>4
<1> DEFINE e == len - t
<1>7. e \in Nat /\ len = t + e /\ low \div 8 = e
  BY <1>1, <1>4, <1>6
<1> HIDE DEF e
<1> DEFINE x == e \div Block
           y == e % Block
           z == high * q
<1>8. x \in Nat /\ y \in 0..(Block - 1) /\ x * Block \in Nat /\ e = x * Block + y
  BY <1>3, <1>7, DivModOf
<1>9. z \in Nat /\ t = z * Block
  BY <1>5
<1> HIDE DEF x, y, z
<1>10. (z + x) * Block = z * Block + x * Block /\ z + x \in Nat /\ z * Block \in Nat
  BY <1>3, <1>8, <1>9
<1>11. len = (z + x) * Block + y
  BY <1>7, <1>8, <1>9, <1>10
<1>12. len % Block = y
  BY <1>3, <1>8, <1>10, <1>11, DivMod
<1> QED
  BY <1>7, <1>12, Zenon DEF y, low

\* The carry is right, however much is added, until the high word is full.
LEMMA CountedIs ==
    ASSUME NEW count, NEW len \in Nat, NEW n \in Nat, Counts(count, len),
           8 * (len + n) < WordSize * WordSize
    PROVE  Counts(Counted(count, n), len + n)
<1> DEFINE low == count[1]
           high == count[2]
           W == WordSize
           a == (8 * n) \div W
           b == (8 * n) % W
           sum == low + 8 * n
           new == sum % W
           carry == IF new < low THEN 1 ELSE 0
           top == high + carry + a
<1>1. low \in 0..(W - 1) /\ high \in 0..(W - 1) /\ high * W + low = 8 * len
  BY DEF Counts
<1>2. W \in Nat \ {0} /\ 8 * n \in Nat /\ 8 * (len + n) < W * W
  BY Sizes
<1>3. Counted(count, n) = <<new, top % W>>
  BY Zenon DEF Counted
<1> HIDE DEF W, low, high
<1>4. a \in Nat /\ b \in 0..(W - 1) /\ a * W \in Nat /\ 8 * n = a * W + b
  BY <1>2, DivModOf
<1> HIDE DEF a, b
<1>5. new \in 0..(W - 1) /\ carry \in {0, 1} /\ (carry + a) * W + new = sum
  <2>1. CASE low + b < W
    <3> DEFINE v == low + b
    <3>1. sum = a * W + v /\ v \in 0..(W - 1)
      BY <1>1, <1>2, <1>4, <2>1
    <3> HIDE DEF v, sum
    <3>2. new = v
      BY <1>2, <1>4, <3>1, DivMod
    <3>0. new = low + b
      BY <3>2 DEF v
    <3> HIDE DEF new
    <3>3. carry = 0
      BY <1>1, <1>2, <1>4, <3>0
    <3>4. 0 + a = a
      BY <1>4
    <3> QED
      BY <3>1, <3>2, <3>3, <3>4
  <2>2. CASE low + b >= W
    <3>0. (1 + a) * W = W + a * W /\ 1 + a \in Nat
      BY <1>2, <1>4
    <3>1. sum = (1 + a) * W + (low + b - W) /\ low + b - W \in 0..(W - 1) /\ low + b - W < low
      BY <1>1, <1>2, <1>4, <2>2, <3>0
    <3>2. new = low + b - W
      BY <1>2, <3>0, <3>1, DivMod
    <3> HIDE DEF new, sum
    <3>3. carry = 1
      BY <3>1, <3>2
    <3> QED
      BY <3>1, <3>2, <3>3
  <2>3. low + b < W \/ low + b >= W
    BY <1>1, <1>2, <1>4
  <2> QED
    BY <2>1, <2>2, <2>3, Zenon
<1>6. sum = low + 8 * n
  OBVIOUS
<1> HIDE DEF new, carry, sum
<1>7. top \in Nat /\ top * W \in Nat /\ top * W + new = 8 * (len + n)
  <2> DEFINE h == carry + a
  <2>1. h \in Nat /\ top = high + h
    BY <1>1, <1>4, <1>5
  <2>2. h * W + new = sum
    BY <1>5
  <2> HIDE DEF h, top
  <2>3. (high + h) * W = high * W + h * W /\ high * W \in Nat /\ h * W \in Nat /\ high + h \in Nat
    BY <1>1, <1>2, <2>1
  <2>4. new \in Nat /\ low \in Nat /\ sum \in Nat
    BY <1>1, <1>2, <1>5, <1>6
  <2> QED
    BY <1>1, <1>6, <2>1, <2>2, <2>3, <2>4
<1> HIDE DEF top
<1>8. top < W
  <2> SUFFICES ASSUME W <= top PROVE FALSE
    BY <1>2, <1>7
  <2>1. W * W <= top * W /\ W * W \in Nat
    BY <1>2, <1>7, Times
  <2> QED
    BY <1>2, <1>5, <1>7, <2>1
<1>9. top % W = top
  <2>1. top \in 0..(W - 1)
    BY <1>2, <1>7, <1>8
  <2> QED
    BY <1>2, <2>1, ModSmall
<1>10. top \in 0..(W - 1)
  BY <1>2, <1>7, <1>8
<1> QED
  BY <1>3, <1>5, <1>7, <1>9, <1>10 DEF Counts, W

-----------------------------------------------------------------------------
(* SHA-1: blocks.                                                          *)

Data == SUBSET Nat
Blocks == [1..Block -> Data]
TransformTable == [p \in Seq(Blocks) \X Blocks |-> SHA1Transform(p[1], p[2])]

\* SHA1Transform of one block after the other.
LEMMA FoldTransform ==
    ASSUME NEW n \in Nat, NEW s \in [1..n -> Blocks], NEW b \in Seq(Blocks)
    PROVE  Along(TransformTable, s, 0, b, n, FoldLeft(SHA1Transform, b, s))
<1> DEFINE Rec(f) == f = [t \in SUBSET (1..n) |->
                            IF t = {} THEN b ELSE SHA1Transform(f[t \ {Max(t)}], s[Max(t)])]
           fold == CHOOSE f : Rec(f)
<1>1. FoldLeft(SHA1Transform, b, s) = fold[1..n]
  BY DOMAIN s = 1..n DEF FoldLeft, MapThenFoldSet
<1>2. TransformTable \in [Seq(Blocks) \X Blocks -> Seq(Blocks)]
      /\ \A x \in Seq(Blocks), y \in Blocks : TransformTable[<<x, y>>] = SHA1Transform(x, y)
  BY DEF TransformTable, SHA1Transform
<1>3. PICK f : FoldsTo(f, Seq(Blocks), TransformTable, b, s, n)
  BY <1>2, FoldExists
<1>4. Rec(f)
  <2>1. f \in [SUBSET (1..n) -> Seq(Blocks)] /\ f[{}] = b
    BY <1>3, Zenon DEF FoldsTo
  <2>2. ASSUME NEW t \in SUBSET (1..n), t # {}
        PROVE  f[t] = SHA1Transform(f[t \ {Max(t)}], s[Max(t)])
    <3>1. Max(t) \in 1..n
      BY <2>2, MaxIn
    <3>2. t \ {Max(t)} \in SUBSET (1..n)
      BY <2>2
    <3>3. f[t \ {Max(t)}] \in Seq(Blocks) /\ s[Max(t)] \in Blocks
      BY <2>1, <3>1, <3>2, Zenon
    <3>4. f[t] = TransformTable[<<f[t \ {Max(t)}], s[Max(t)]>>]
      BY <1>3, <2>2, Zenon DEF FoldsTo
    <3> QED
      BY <1>2, <3>3, <3>4, Zenon
  <2>3. f = [t \in SUBSET (1..n) |-> f[t]]
    BY <2>1, Zenon
  <2>4. \A t \in SUBSET (1..n) :
           f[t] = IF t = {} THEN b ELSE SHA1Transform(f[t \ {Max(t)}], s[Max(t)])
    BY <2>1, <2>2, Zenon
  <2> QED
    BY <2>3, <2>4, Zenon
<1>5. Rec(fold)
  <2> HIDE DEF Rec
  <2> QED
    BY <1>4, Zenon
<1> HIDE DEF fold
<1>6. \A t \in SUBSET (1..n) :
        fold[t] = IF t = {} THEN b ELSE SHA1Transform(fold[t \ {Max(t)}], s[Max(t)])
  <2> DEFINE r == [t \in SUBSET (1..n) |->
                    IF t = {} THEN b ELSE SHA1Transform(fold[t \ {Max(t)}], s[Max(t)])]
  <2>1. fold = r
    BY <1>5
  <2>2. \A t \in SUBSET (1..n) :
          r[t] = IF t = {} THEN b ELSE SHA1Transform(fold[t \ {Max(t)}], s[Max(t)])
    BY Zenon
  <2> HIDE DEF r
  <2> QED
    BY <2>1, <2>2, Zenon
<1>7. fold[{}] = b
  BY <1>6, Zenon
<1>8. ASSUME NEW k \in 1..n, fold[1..(k - 1)] \in Seq(Blocks)
      PROVE  fold[1..k] = TransformTable[<<fold[1..(k - 1)], s[k]>>]
  <2>1. /\ 1..k \in SUBSET (1..n) /\ 1..k # {}
        /\ Max(1..k) = k /\ (1..k) \ {k} = 1..(k - 1)
    BY Initial
  <2>2. fold[1..k] = SHA1Transform(fold[1..(k - 1)], s[k])
    BY <1>6, <2>1, Zenon
  <2>3. s[k] \in Blocks
    OBVIOUS
  <2> QED
    BY <1>2, <1>8, <2>2, <2>3, Zenon
<1>9. Along(TransformTable, s, 0, b, n, fold[1..n])
  BY <1>2, <1>7, <1>8, AlongFold
<1> QED
  BY <1>1, <1>9, Zenon

\* It appends them.
LEMMA Compressed ==
    ASSUME NEW n \in Nat, NEW s \in [1..n -> Blocks], NEW b \in Seq(Blocks)
    PROVE  LET y == FoldLeft(SHA1Transform, b, s)
           IN  /\ y \in Seq(Blocks) /\ Len(y) = Len(b) + n
               /\ \A i \in 1..Len(b) : y[i] = b[i]
               /\ \A i \in 1..n : y[Len(b) + i] = s[i]
<1> DEFINE y == FoldLeft(SHA1Transform, b, s)
<1>1. Along(TransformTable, s, 0, b, n, y)
  BY FoldTransform, Zenon
<1> HIDE DEF y
<1>2. PICK r : /\ r[0] = b /\ r[n] = y
               /\ \A k \in (0 + 1)..n : r[k] = TransformTable[<<r[k - 1], s[k]>>]
  BY <1>1, Zenon DEF Along
<1> DEFINE P(k) == /\ r[k] \in Seq(Blocks) /\ Len(r[k]) = Len(b) + k
                   /\ \A i \in 1..Len(b) : r[k][i] = b[i]
                   /\ \A i \in 1..k : r[k][Len(b) + i] = s[i]
           S == {k \in Nat : k <= n => P(k)}
<1>3. 0 \in S
  BY <1>2
<1>4. ASSUME NEW k \in Nat, k \in S PROVE k + 1 \in S
  <2> SUFFICES ASSUME k + 1 <= n PROVE P(k + 1)
    OBVIOUS
  <2> DEFINE z == r[k]
             e == s[k + 1]
  <2>1. /\ z \in Seq(Blocks) /\ Len(z) = Len(b) + k
        /\ \A i \in 1..Len(b) : z[i] = b[i]
        /\ \A i \in 1..k : z[Len(b) + i] = s[i]
    BY <1>4
  <2>2. k + 1 \in (0 + 1)..n /\ (k + 1) - 1 = k /\ e \in Blocks /\ k + 1 \in Nat
    OBVIOUS
  <2>3. r[k + 1] = TransformTable[<<z, e>>]
    BY <1>2, <2>2, Zenon
  <2> HIDE DEF z
  <2>4. r[k + 1] = Append(z, e)
    BY <2>1, <2>2, <2>3 DEF TransformTable, SHA1Transform
  <2> HIDE DEF e
  <2>5. /\ Append(z, e) \in Seq(Blocks) /\ Len(Append(z, e)) = Len(z) + 1
        /\ \A i \in 1..Len(z) : Append(z, e)[i] = z[i]
        /\ Append(z, e)[Len(z) + 1] = e
    BY <2>1, <2>2
  <2> DEFINE a == Append(z, e)
             l == Len(b)
  <2>6. l \in Nat
    OBVIOUS
  <2> HIDE DEF a, l
  <2>7. /\ a \in Seq(Blocks) /\ Len(a) = l + (k + 1)
        /\ \A i \in 1..l : a[i] = b[i]
        /\ \A i \in 1..(k + 1) : a[l + i] = s[i]
    <3>1. /\ a \in Seq(Blocks) /\ Len(a) = l + (k + 1)
      BY <2>1, <2>5, <2>6 DEF a, l
    <3>2. ASSUME NEW i \in 1..l PROVE a[i] = b[i]
      BY <2>1, <2>5, <2>6 DEF a, l
    <3>3. ASSUME NEW i \in 1..k PROVE a[l + i] = s[i]
      <4>1. l + i \in 1..Len(z)
        BY <2>1, <2>6 DEF l
      <4> QED
        BY <2>1, <2>5, <4>1 DEF a, l
    <3>4. a[l + (k + 1)] = s[k + 1]
      <4>1. l + (k + 1) = Len(z) + 1
        BY <2>1, <2>6 DEF l
      <4> QED
        BY <2>5, <4>1 DEF a, e
    <3> QED
      BY <3>1, <3>2, <3>3, <3>4
  <2> QED
    BY <2>4, <2>7, Zenon DEF a, l
<1> HIDE DEF P
<1>5. n \in S
  <2> HIDE DEF S
  <2> QED
    BY <1>3, <1>4, Induction
<1>6. P(n)
  BY <1>5
<1> QED
  BY <1>2, <1>6, Zenon DEF P, y

\* Element i of chunk k.
LEMMA ChunksAre ==
    ASSUME NEW m \in Seq(Data)
    PROVE  /\ Chunks(m) \in Seq(Blocks) /\ Len(Chunks(m)) = Len(m) \div Block
           /\ \A k \in 1..(Len(m) \div Block) : \A i \in 1..Block :
                 Chunks(m)[k][i] = m[(k - 1) * Block + i]
<1> DEFINE n == Len(m)
           q == n \div Block
<1>1. n \in Nat /\ Block \in Nat \ {0}
  BY Sizes
<1>2. q \in Nat /\ n % Block \in 0..(Block - 1) /\ q * Block \in Nat /\ n = q * Block + (n % Block)
  BY <1>1, DivModOf, Zenon
<1>3. Chunks(m) = [k \in 1..q |-> SubSeq(m, (k - 1) * Block + 1, k * Block)]
  BY Zenon DEF Chunks
<1> HIDE DEF q
<1>4. ASSUME NEW k \in 1..q
      PROVE  /\ Chunks(m)[k] \in Blocks
             /\ \A i \in 1..Block : Chunks(m)[k][i] = m[(k - 1) * Block + i]
  <2> DEFINE lo == (k - 1) * Block
             hi == k * Block
             w == SubSeq(m, lo + 1, hi)
  <2>1. /\ k - 1 \in Nat /\ k \in Nat /\ lo \in Nat /\ hi \in Nat /\ hi = lo + Block
    BY <1>1
  <2>2. hi <= n
    <3>1. hi <= q * Block
      BY <1>1, <1>2, <2>1, Times
    <3> HIDE DEF hi, n
    <3> QED
      BY <1>1, <1>2, <2>1, <3>1
  <2>3. Chunks(m)[k] = w
    BY <1>3
  <2> HIDE DEF lo, hi
  <2>4. w = [i \in 1..Block |-> m[lo + i]]
    BY <1>1, <2>1, <2>2
  <2> HIDE DEF w
  <2>5. \A i \in 1..Block : m[lo + i] \in Data
    BY <1>1, <2>1, <2>2
  <2>6. w \in Blocks /\ \A i \in 1..Block : w[i] = m[lo + i]
    BY <2>4, <2>5 DEF Blocks
  <2> QED
    BY <2>3, <2>6 DEF lo
<1>5. Chunks(m) \in [1..q -> Blocks]
  <2> DEFINE f == Chunks(m)
  <2>1. f = [k \in 1..q |-> f[k]]
    BY <1>3
  <2> HIDE DEF f
  <2>2. \A k \in 1..q : f[k] \in Blocks
    BY <1>4 DEF f
  <2> QED
    BY <2>1, <2>2 DEF f
<1>6. Chunks(m) \in Seq(Blocks) /\ Len(Chunks(m)) = q
  <2> DEFINE f == Chunks(m)
  <2> HIDE DEF f
  <2>1. f \in [1..q -> Blocks]
    BY <1>5 DEF f
  <2>2. f \in Seq(Blocks) /\ Len(f) = q
    BY <1>2, <2>1
  <2> QED
    BY <2>2 DEF f
<1> QED
  BY <1>4, <1>6, Zenon DEF q

\* There is but one sequence like that.
LEMMA ChunksOnly ==
    ASSUME NEW m \in Seq(Data), NEW y \in Seq(Blocks), Len(y) = Len(m) \div Block,
           \A k \in 1..(Len(m) \div Block) : \A i \in 1..Block :
               y[k][i] = m[(k - 1) * Block + i]
    PROVE  y = Chunks(m)
<1> DEFINE q == Len(m) \div Block
           z == Chunks(m)
<1>1. /\ z \in Seq(Blocks) /\ Len(z) = q
      /\ \A k \in 1..q : \A i \in 1..Block : z[k][i] = m[(k - 1) * Block + i]
  BY ChunksAre, Zenon
<1>2. \A k \in 1..q : \A i \in 1..Block : y[k][i] = z[k][i]
  BY <1>1, Zenon
<1>3. Len(y) = q
  OBVIOUS
<1> HIDE DEF q, z
<1>4. \A k \in 1..q : y[k] = z[k]
  <2> SUFFICES ASSUME NEW k \in 1..q PROVE y[k] = z[k]
    OBVIOUS
  <2>1. y[k] \in Blocks /\ z[k] \in Blocks
    BY <1>1, <1>3
  <2> DEFINE u == y[k]
             v == z[k]
  <2>2. \A i \in 1..Block : u[i] = v[i]
    BY <1>2, Zenon
  <2>3. u \in [1..Block -> Data] /\ v \in [1..Block -> Data]
    BY <2>1, Zenon DEF Blocks
  <2> HIDE DEF u, v
  <2>4. u = [i \in 1..Block |-> u[i]] /\ v = [i \in 1..Block |-> v[i]]
    BY <2>3
  <2>5. [i \in 1..Block |-> u[i]] = [i \in 1..Block |-> v[i]]
    BY <2>2
  <2>6. u = v
    BY <2>4, <2>5, Zenon
  <2> QED
    BY <2>6 DEF u, v
<1>5. y = z
  BY <1>1, <1>3, <1>4, SeqEqual
<1> QED
  BY <1>5 DEF z

-----------------------------------------------------------------------------
(* SHA-1: pieces.                                                          *)

\* c is the context of message m.
Ctx(c, m) ==
    /\ DOMAIN c = {"state", "count", "buffer"}
    /\ c = [state |-> c.state, count |-> c.count, buffer |-> c.buffer]
    /\ c.state = Chunks(m)
    /\ Counts(c.count, Len(m))
    /\ \A i \in 1..(Len(m) % Block) : c.buffer[i] = m[(Len(m) \div Block) * Block + i]

\* A piece that fills the block: whole blocks go to SHA1Transform.
LEMMA UpdateFull ==
    ASSUME NEW c, NEW m \in Seq(Data), NEW d \in Seq(Data), Ctx(c, m),
           8 * (Len(m) + Len(d)) < WordSize * WordSize,
           (Len(m) % Block) + Len(d) > Block - 1
    PROVE  Ctx(SHA1Update(c, d), m \o d)
<1> DEFINE L == Len(m)
           n == Len(d)
           r == L % Block
           Q == L \div Block
           s == m \o d
           j == (c.count[1] \div 8) % Block
           i == Block - j
           x == (n - i) \div Block
           rest == i + x * Block
           full == Copied(c.buffer, j, SubSeq(d, 1, i))
           whole == [k \in 1..x |-> SubSeq(d, i + (k - 1) * Block + 1, i + k * Block)]
           left == SubSeq(d, rest + 1, n)
           st == FoldLeft(SHA1Transform, SHA1Transform(c.state, full), whole)
           buf == Copied(full, 0, left)
           new == [count |-> Counted(c.count, n), state |-> st, buffer |-> buf]
<1>1. /\ c.state = Chunks(m) /\ Counts(c.count, L)
      /\ \A k \in 1..r : c.buffer[k] = m[Q * Block + k]
  BY Zenon DEF Ctx
<1>2. /\ L \in Nat /\ n \in Nat /\ s \in Seq(Data) /\ Len(s) = L + n
      /\ \A k \in 1..L : s[k] = m[k]
      /\ \A k \in 1..n : s[L + k] = d[k]
      /\ 8 * (L + n) < WordSize * WordSize /\ r + n > Block - 1
  OBVIOUS
<1>3. Block \in Nat \ {0}
  BY Sizes
<1>4. j = r
  BY <1>1, <1>2, OffsetIs, Zenon
<1>5. Counts(Counted(c.count, n), L + n)
  BY <1>1, <1>2, CountedIs, Zenon
<1>6. SHA1Update(c, d) = new
  <2>1. j + n > Block - 1
    BY <1>2, <1>4, Zenon
  <2> QED
    BY <2>1, Zenon DEF SHA1Update
<1>7. Q \in Nat /\ r \in 0..(Block - 1) /\ Q * Block \in Nat /\ L = Q * Block + r
  BY <1>2, <1>3, DivModOf, Zenon
<1> HIDE DEF L, n, r, Q, s, j
<1> DEFINE t == (n - i) % Block
<1>8. /\ i \in 1..Block /\ i = Block - r /\ n - i \in Nat
  BY <1>2, <1>3, <1>4, <1>7
<1>9. /\ x \in Nat /\ t \in 0..(Block - 1) /\ x * Block \in Nat /\ n - i = x * Block + t
  BY <1>3, <1>8, DivModOf, Zenon
<1> HIDE DEF x, t, i
<1>10. /\ rest \in Nat /\ rest + t = n /\ rest = i + x * Block
       /\ L + i = Q * Block + Block
  <2> DEFINE A == Q * Block
             X == x * Block
  <2>1. /\ A \in Nat /\ X \in Nat /\ L = A + r /\ n - i = X + t /\ rest = i + X
    BY <1>7, <1>9, Zenon
  <2>2. i \in Nat /\ r \in Nat /\ t \in Nat /\ i = Block - r
    BY <1>3, <1>7, <1>8, <1>9
  <2> HIDE DEF A, X, rest
  <2>3. rest \in Nat /\ rest + t = n /\ rest = i + X /\ L + i = A + Block
    BY <1>2, <1>3, <2>1, <2>2
  <2> QED
    BY <2>3, Zenon DEF A, X
<1> HIDE DEF rest
<1> DEFINE A == Q * Block
           X == x * Block
<1>a. /\ A \in Nat /\ X \in Nat /\ L = A + r /\ n - i = X + t /\ rest = i + X
  BY <1>7, <1>9, <1>10, Zenon
<1> HIDE DEF A, X
<1>b. /\ L = A + r /\ n = i + X + t /\ r + i = Block /\ rest = i + X
      /\ i \in Nat /\ r \in Nat /\ t \in Nat
  BY <1>2, <1>3, <1>7, <1>8, <1>9, <1>a
<1>11. (L + n) \div Block = Q + 1 + x /\ (L + n) % Block = t
  <2> DEFINE q == Q + 1 + x
  <2>1. q \in Nat /\ q * Block = A + Block + X
    BY <1>3, <1>7, <1>9 DEF A, X
  <2> DEFINE len == L + n
  <2> HIDE DEF q
  <2>2. len = q * Block + t
    BY <1>3, <1>a, <1>b, <2>1
  <2> HIDE DEF len
  <2>4. len \div Block = q /\ len % Block = t
    BY <1>3, <1>9, <2>1, <2>2, DivMod
  <2>3. (L + n) \div Block = q /\ (L + n) % Block = t
    BY <2>4, Zenon DEF len
  <2> QED
    BY <2>3 DEF q
<1>12. full \in Blocks /\ \A k \in 1..Block : full[k] = s[Q * Block + k]
  <2> DEFINE p == SubSeq(d, 1, i)
  <2>1. p = [k \in 1..i |-> d[k]] /\ Len(p) = i
    BY <1>2, <1>8 DEF n
  <2> HIDE DEF p
  <2>2. full = [k \in 1..Block |-> IF k \in (r + 1)..(r + i) THEN p[k - r] ELSE c.buffer[k]]
    BY <1>4, <2>1, Zenon DEF Copied, p
  <2> HIDE DEF full
  <2>3. ASSUME NEW k \in 1..Block
        PROVE  full[k] = s[Q * Block + k] /\ full[k] \in Data
    <3>1. CASE k > r
      <4>1. k \in (r + 1)..(r + i) /\ k - r \in 1..i /\ k - r \in 1..n
        BY <1>2, <1>3, <1>7, <1>8, <3>1
      <4>2. full[k] = p[k - r]
        BY <2>2, <4>1
      <4>3. p[k - r] = d[k - r]
        BY <2>1, <4>1
      <4>4. s[L + (k - r)] = d[k - r]
        BY <1>2, <4>1
      <4>5. L + (k - r) = Q * Block + k
        BY <1>2, <1>3, <1>7
      <4>6. d[k - r] \in Data
        BY <4>1 DEF n
      <4> QED
        BY <4>2, <4>3, <4>4, <4>5, <4>6, Zenon
    <3>2. CASE k <= r
      <4>1. k \notin (r + 1)..(r + i) /\ k \in 1..r /\ Q * Block + k \in 1..L
        <5>1. k \in 1..r /\ k \notin (r + 1)..(r + i)
          BY <1>3, <1>7, <1>8, <3>2
        <5>2. Q * Block + k \in 1..L
          BY <1>3, <1>7, <3>2
        <5> QED
          BY <5>1, <5>2
      <4>2. full[k] = c.buffer[k]
        BY <2>2, <4>1
      <4>3. c.buffer[k] = m[Q * Block + k]
        BY <1>1, <4>1
      <4>4. s[Q * Block + k] = m[Q * Block + k]
        BY <1>2, <4>1
      <4>5. m[Q * Block + k] \in Data
        BY <4>1 DEF L
      <4> QED
        BY <4>2, <4>3, <4>4, <4>5, Zenon
    <3>3. k > r \/ k <= r
      BY <1>7
    <3> QED
      BY <3>1, <3>2, <3>3, Zenon
  <2>4. full = [k \in 1..Block |-> full[k]]
    BY <2>2
  <2> QED
    BY <2>3, <2>4 DEF Blocks
<1>13. /\ whole \in [1..x -> Blocks]
       /\ \A k \in 1..x : \A e \in 1..Block : whole[k][e] = s[(Q + k) * Block + e]
  <2>1. ASSUME NEW k \in 1..x
        PROVE  /\ whole[k] \in Blocks
               /\ \A e \in 1..Block : whole[k][e] = s[(Q + k) * Block + e]
    <3> DEFINE lo == i + (k - 1) * Block
               hi == i + k * Block
               w == SubSeq(d, lo + 1, hi)
    <3>1. /\ k \in Nat /\ k * Block \in Nat /\ lo \in Nat /\ hi \in Nat /\ hi = lo + Block
          /\ hi = i + k * Block
      <4> DEFINE K == k * Block
                 J == (k - 1) * Block
      <4>1. k \in Nat /\ k - 1 \in Nat
        OBVIOUS
      <4>2. K \in Nat /\ J \in Nat /\ K = J + Block
        BY <1>3, <4>1
      <4>3. lo = i + J /\ hi = i + K
        OBVIOUS
      <4> HIDE DEF K, J, lo, hi
      <4>4. K \in Nat /\ lo \in Nat /\ hi \in Nat /\ hi = lo + Block
        <5>1. Block \in Nat /\ i \in Nat
          BY <1>3, <1>b
        <5> QED
          BY <4>2, <4>3, <5>1
      <4> QED
        BY <4>1, <4>3, <4>4, Zenon DEF K
    <3>2. k * Block <= x * Block
      BY <1>3, <1>9, <3>1, Times
    <3>3. whole[k] = w
      OBVIOUS
    <3> HIDE DEF lo, hi, whole
    <3>4. hi <= n
      <4> DEFINE K == k * Block
      <4>1. hi = i + K /\ K \in Nat /\ K <= X
        BY <3>1, <3>2 DEF X
      <4> HIDE DEF K
      <4> QED
        BY <1>a, <1>b, <4>1
    <3>5. w = [e \in 1..Block |-> d[lo + e]]
      <4>1. w = [e \in 1..(hi - (lo + 1) + 1) |-> d[e + (lo + 1) - 1]]
        BY <1>3, <3>1
      <4>2. hi - (lo + 1) + 1 = Block /\ \A e \in 1..Block : e + (lo + 1) - 1 = lo + e
        BY <1>3, <3>1
      <4> HIDE DEF w
      <4> QED
        BY <4>1, <4>2
    <3> HIDE DEF w
    <3>6. \A e \in 1..Block : lo + e \in 1..n
      BY <1>2, <1>3, <3>1, <3>4
    <3>7. \A e \in 1..Block : d[lo + e] \in Data
      BY <3>6 DEF n
    <3>8. L + lo = (Q + k) * Block
      <4>1. (Q + k) * Block = Q * Block + k * Block
        BY <1>3, <1>7, <3>1
      <4> QED
        BY <1>2, <1>3, <1>7, <1>8, <1>10, <3>1, <4>1
    <3>9. ASSUME NEW e \in 1..Block PROVE w[e] = s[(Q + k) * Block + e]
      <4>1. s[L + (lo + e)] = d[lo + e]
        BY <1>2, <3>6
      <4>2. L + (lo + e) = (L + lo) + e
        BY <1>2, <1>3, <3>1
      <4>3. w[e] = d[lo + e]
        BY <3>5
      <4> QED
        BY <3>8, <4>1, <4>2, <4>3, Zenon
    <3>10. w \in Blocks
      BY <3>5, <3>7 DEF Blocks
    <3> QED
      BY <3>3, <3>9, <3>10, Zenon
  <2>2. whole = [k \in 1..x |-> whole[k]]
    OBVIOUS
  <2> HIDE DEF whole
  <2> QED
    BY <2>1, <2>2
<1> HIDE DEF full, whole
<1>14. st = Chunks(s)
  <2> DEFINE b == Chunks(m)
             a == SHA1Transform(c.state, full)
  <2>1. /\ b \in Seq(Blocks) /\ Len(b) = Q
        /\ \A k \in 1..Q : \A e \in 1..Block : b[k][e] = m[(k - 1) * Block + e]
    BY ChunksAre, Zenon DEF L, Q
  <2>2. a = Append(b, full)
    BY <1>1, Zenon DEF SHA1Transform
  <2> HIDE DEF b, a
  <2>3. /\ a \in Seq(Blocks) /\ Len(a) = Q + 1 /\ a[Q + 1] = full
        /\ \A k \in 1..Q : a[k] = b[k]
    BY <1>12, <2>1, <2>2
  <2>4. /\ st \in Seq(Blocks) /\ Len(st) = Q + 1 + x
        /\ \A k \in 1..(Q + 1) : st[k] = a[k]
        /\ \A k \in 1..x : st[Q + 1 + k] = whole[k]
    <3>1. LET y == FoldLeft(SHA1Transform, a, whole)
          IN  /\ y \in Seq(Blocks) /\ Len(y) = Len(a) + x
              /\ \A k \in 1..Len(a) : y[k] = a[k]
              /\ \A k \in 1..x : y[Len(a) + k] = whole[k]
      BY <1>9, <1>13, <2>3, Compressed, Zenon
    <3> QED
      BY <2>3, <3>1, Zenon DEF a
  <2> HIDE DEF st
  <2>5. ASSUME NEW k \in 1..(Q + 1 + x), NEW e \in 1..Block
        PROVE  st[k][e] = s[(k - 1) * Block + e]
    <3>1. CASE k <= Q
      <4>1. k \in 1..Q /\ k \in 1..(Q + 1)
        BY <1>7, <3>1
      <4>2. st[k][e] = m[(k - 1) * Block + e]
        BY <2>1, <2>3, <2>4, <4>1
      <4>3. (k - 1) * Block + e \in 1..L
        <5>1. k \in Nat /\ (k - 1) * Block \in Nat /\ (k - 1) * Block = k * Block - Block
          BY <1>3, <4>1
        <5>2. k * Block <= Q * Block /\ k * Block \in Nat
          BY <1>3, <1>7, <3>1, <5>1, Times
        <5>3. (k - 1) * Block + e >= 1 /\ (k - 1) * Block + e \in Nat
          BY <1>3, <5>1
        <5>4. (k - 1) * Block + e <= k * Block
          BY <1>3, <5>1
        <5>5. (k - 1) * Block + e <= L
          <6> DEFINE K == k * Block
                     u == (k - 1) * Block + e
          <6>1. K \in Nat /\ K <= A /\ u \in Nat /\ u <= K
            BY <5>2, <5>3, <5>4 DEF A
          <6> HIDE DEF K, u
          <6>2. u <= L
            BY <1>a, <1>b, <6>1
          <6> QED
            BY <6>2 DEF u
        <5> QED
          BY <1>2, <5>3, <5>5
      <4> QED
        BY <1>2, <4>2, <4>3
    <3>2. CASE k = Q + 1
      <4>1. k \in 1..(Q + 1) /\ k - 1 = Q
        BY <1>7, <3>2
      <4> QED
        BY <1>12, <2>3, <2>4, <3>2, <4>1, Zenon
    <3>3. CASE k > Q + 1
      <4> DEFINE h == k - (Q + 1)
      <4>1. h \in 1..x /\ k = Q + 1 + h /\ k - 1 = Q + h
        BY <1>7, <1>9, <3>3
      <4> HIDE DEF h
      <4> QED
        BY <1>13, <2>4, <4>1, Zenon
    <3>4. k <= Q \/ k = Q + 1 \/ k > Q + 1
      BY <1>7, <1>9
    <3> QED
      BY <3>1, <3>2, <3>3, <3>4, Zenon
  <2>6. Len(s) \div Block = Q + 1 + x
    BY <1>2, <1>11, Zenon
  <2> QED
    BY <1>2, <2>4, <2>5, <2>6, ChunksOnly, Zenon
<1>15. \A k \in 1..t : buf[k] = s[(Q + 1 + x) * Block + k]
  <2>1. left = [k \in 1..t |-> d[rest + k]] /\ Len(left) = t
    <3>5. rest \in Nat /\ t \in Nat /\ n = rest + t
      BY <1>10, <1>b, Zenon
    <3>1. n - (rest + 1) + 1 = t /\ t \in Nat /\ \A k \in 1..t : k + (rest + 1) - 1 = rest + k
      BY <3>5
    <3>4. rest \in Int /\ n \in Int
      BY <1>2, <1>10
    <3>2. left = [k \in 1..(n - (rest + 1) + 1) |-> d[k + (rest + 1) - 1]]
      BY <3>4
    <3> HIDE DEF left
    <3>3. left = [k \in 1..t |-> d[rest + k]]
      BY <3>1, <3>2
    <3> QED
      BY <3>1, <3>3
  <2> HIDE DEF left
  <2>2. buf = [k \in 1..Block |->
                 IF k \in (0 + 1)..(0 + Len(left)) THEN left[k - 0] ELSE full[k]]
    BY Zenon DEF Copied
  <2> HIDE DEF buf
  <2> SUFFICES ASSUME NEW k \in 1..t PROVE buf[k] = s[(Q + 1 + x) * Block + k]
    OBVIOUS
  <2>3. k \in 1..Block /\ k \in (0 + 1)..(0 + Len(left)) /\ k - 0 = k
    BY <1>3, <1>9, <2>1
  <2>4. buf[k] = left[k]
    BY <2>2, <2>3
  <2>5. left[k] = d[rest + k]
    BY <2>1
  <2>6. rest + k \in 1..n
    BY <1>a, <1>b
  <2>7. s[L + (rest + k)] = d[rest + k]
    BY <1>2, <2>6
  <2>8. (Q + 1 + x) * Block = Q * Block + Block + x * Block
    BY <1>3, <1>7, <1>9
  <2>9. L + (rest + k) = (Q + 1 + x) * Block + k
    BY <1>2, <1>3, <1>7, <1>8, <1>9, <1>10, <2>8
  <2> QED
    BY <2>4, <2>5, <2>7, <2>9, Zenon
<1> HIDE DEF st, buf
<1>16. /\ DOMAIN new = {"state", "count", "buffer"}
       /\ new = [state |-> new.state, count |-> new.count, buffer |-> new.buffer]
       /\ new.state = st /\ new.count = Counted(c.count, n) /\ new.buffer = buf
  OBVIOUS
<1> HIDE DEF new
<1>17. Ctx(new, s)
  BY <1>2, <1>5, <1>11, <1>14, <1>15, <1>16, Zenon DEF Ctx
<1> QED
  BY <1>6, <1>17, Zenon DEF s

\* A piece that leaves room in the block is copied there.
LEMMA UpdatePart ==
    ASSUME NEW c, NEW m \in Seq(Data), NEW d \in Seq(Data), Ctx(c, m),
           8 * (Len(m) + Len(d)) < WordSize * WordSize,
           (Len(m) % Block) + Len(d) <= Block - 1
    PROVE  Ctx(SHA1Update(c, d), m \o d)
<1> DEFINE L == Len(m)
           n == Len(d)
           r == L % Block
           Q == L \div Block
           s == m \o d
           j == (c.count[1] \div 8) % Block
           buf == Copied(c.buffer, j, d)
           new == [c EXCEPT !.count = Counted(@, n), !.buffer = Copied(@, j, d)]
<1>1. /\ c.state = Chunks(m) /\ Counts(c.count, L)
      /\ \A k \in 1..r : c.buffer[k] = m[Q * Block + k]
      /\ DOMAIN c = {"state", "count", "buffer"}
      /\ c = [state |-> c.state, count |-> c.count, buffer |-> c.buffer]
  BY Zenon DEF Ctx
<1>2. /\ L \in Nat /\ n \in Nat /\ s \in Seq(Data) /\ Len(s) = L + n
      /\ \A k \in 1..L : s[k] = m[k]
      /\ \A k \in 1..n : s[L + k] = d[k]
      /\ 8 * (L + n) < WordSize * WordSize
  OBVIOUS
<1>3. Block \in Nat \ {0}
  BY Sizes
<1>4. j = r
  BY <1>1, <1>2, OffsetIs, Zenon
<1>5. Counts(Counted(c.count, n), L + n)
  BY <1>1, <1>2, CountedIs, Zenon
<1>7. Q \in Nat /\ r \in 0..(Block - 1) /\ Q * Block \in Nat /\ L = Q * Block + r
  BY <1>2, <1>3, DivModOf, Zenon
<1>8. r + n <= Block - 1
  OBVIOUS
<1> HIDE DEF L, n, r, Q, s, j
<1>6. SHA1Update(c, d) = new
  <2>1. ~(j + n > Block - 1)
    BY <1>2, <1>3, <1>4, <1>7, <1>8
  <2> QED
    BY <2>1, Zenon DEF SHA1Update, j, n
<1>11. (L + n) \div Block = Q /\ (L + n) % Block = r + n
  <2> DEFINE len == L + n
             t == r + n
  <2>1. t \in 0..(Block - 1)
    BY <1>2, <1>3, <1>7, <1>8
  <2>2. len = Q * Block + t
    BY <1>2, <1>3, <1>7
  <2> HIDE DEF len, t
  <2>3. len \div Block = Q /\ len % Block = t
    BY <1>3, <1>7, <2>1, <2>2, DivMod
  <2> QED
    BY <2>3, Zenon DEF len, t
<1>14. Chunks(m) = Chunks(s)
  <2> DEFINE b == Chunks(m)
  <2>1. /\ b \in Seq(Blocks) /\ Len(b) = Q
        /\ \A k \in 1..Q : \A e \in 1..Block : b[k][e] = m[(k - 1) * Block + e]
    BY ChunksAre, Zenon DEF L, Q
  <2> HIDE DEF b
  <2>2. ASSUME NEW k \in 1..Q, NEW e \in 1..Block
        PROVE  b[k][e] = s[(k - 1) * Block + e]
    <3> DEFINE K == k * Block
               u == (k - 1) * Block + e
               A == Q * Block
    <3>1. k \in Nat /\ K \in Nat /\ (k - 1) * Block = K - Block
      BY <1>3
    <3>2. K <= A
      BY <1>3, <1>7, <3>1, Times
    <3>3. u = K - Block + e
      BY <3>1
    <3>4. K - Block \in Nat
      BY <1>3, <3>1
    <3>5. A \in Nat /\ L = A + r
      BY <1>7
    <3> HIDE DEF K, A, u
    <3>6. u \in 1..L
      BY <1>3, <1>7, <3>1, <3>2, <3>3, <3>4, <3>5
    <3>7. s[u] = m[u]
      BY <1>2, <3>6
    <3>8. b[k][e] = m[u]
      BY <2>1, Zenon DEF u
    <3> QED
      BY <3>7, <3>8, Zenon DEF u
  <2>3. Len(s) \div Block = Q
    BY <1>2, <1>11, Zenon
  <2> QED
    BY <1>2, <2>1, <2>2, <2>3, ChunksOnly, Zenon DEF b
<1>15. \A k \in 1..(r + n) : buf[k] = s[Q * Block + k]
  <2>1. buf = [k \in 1..Block |->
                 IF k \in (j + 1)..(j + Len(d)) THEN d[k - j] ELSE c.buffer[k]]
    BY Zenon DEF Copied
  <2> HIDE DEF buf
  <2>2. buf = [k \in 1..Block |->
                 IF k \in (r + 1)..(r + n) THEN d[k - r] ELSE c.buffer[k]]
    BY <1>4, <2>1, Zenon DEF n
  <2> SUFFICES ASSUME NEW k \in 1..(r + n) PROVE buf[k] = s[Q * Block + k]
    OBVIOUS
  <2>3. k \in 1..Block
    BY <1>2, <1>3, <1>7, <1>8
  <2>4. CASE k > r
    <3>1. k \in (r + 1)..(r + n) /\ k - r \in 1..n
      BY <1>2, <1>3, <1>7, <2>4
    <3>2. buf[k] = d[k - r]
      BY <2>2, <2>3, <3>1
    <3>3. s[L + (k - r)] = d[k - r]
      BY <1>2, <3>1
    <3>4. L + (k - r) = Q * Block + k
      BY <1>2, <1>3, <1>7
    <3> QED
      BY <3>2, <3>3, <3>4, Zenon
  <2>5. CASE k <= r
    <3>1. k \in 1..r /\ k \notin (r + 1)..(r + n)
      BY <1>2, <1>3, <1>7, <2>5
    <3>2. buf[k] = c.buffer[k]
      BY <2>2, <2>3, <3>1
    <3>3. Q * Block + k \in 1..L
      BY <1>3, <1>7, <2>5
    <3>4. s[Q * Block + k] = m[Q * Block + k]
      BY <1>2, <3>3
    <3> QED
      BY <1>1, <3>1, <3>2, <3>4, Zenon
  <2>6. k > r \/ k <= r
    BY <1>7
  <2> QED
    BY <2>4, <2>5, <2>6, Zenon
<1>16. /\ DOMAIN new = {"state", "count", "buffer"}
       /\ new = [state |-> new.state, count |-> new.count, buffer |-> new.buffer]
       /\ new.state = c.state /\ new.count = Counted(c.count, n) /\ new.buffer = buf
  <2> DEFINE u == [state |-> c.state, count |-> Counted(c.count, n), buffer |-> buf]
  <2>1. new = u
    <3> HIDE DEF buf
    <3>1. new = [c EXCEPT !.count = Counted(c.count, n), !.buffer = buf]
      BY <1>1 DEF buf
    <3> HIDE DEF new
    <3> DEFINE a == c.state
               b == c.count
               e == c.buffer
               h == Counted(c.count, n)
    <3>2. c = [state |-> a, count |-> b, buffer |-> e]
      BY <1>1
    <3>3. new = [c EXCEPT !.count = h, !.buffer = buf]
      BY <3>1
    <3> HIDE DEF a, b, e, h
    <3>4. new = [state |-> a, count |-> h, buffer |-> buf]
      BY <3>2, <3>3
    <3> QED
      BY <3>4 DEF a, h
  <2> HIDE DEF new, buf
  <2>2. /\ DOMAIN u = {"state", "count", "buffer"}
        /\ u = [state |-> u.state, count |-> u.count, buffer |-> u.buffer]
        /\ u.state = c.state /\ u.count = Counted(c.count, n) /\ u.buffer = buf
    OBVIOUS
  <2> HIDE DEF u
  <2> QED
    BY <2>1, <2>2, Zenon
<1> HIDE DEF new, buf
<1>17. Ctx(new, s)
  BY <1>1, <1>2, <1>5, <1>11, <1>14, <1>15, <1>16, Zenon DEF Ctx
<1> QED
  BY <1>6, <1>17, Zenon DEF s

\* SHA1Update makes the context of the longer message.
LEMMA UpdateIs ==
    ASSUME NEW c, NEW m \in Seq(Data), NEW d \in Seq(Data), Ctx(c, m),
           8 * (Len(m) + Len(d)) < WordSize * WordSize
    PROVE  Ctx(SHA1Update(c, d), m \o d) /\ m \o d \in Seq(Data)
<1>1. Block \in Nat \ {0} /\ Len(m) \in Nat /\ Len(d) \in Nat
  BY Sizes
<1>2. Len(m) % Block \in Nat
  BY <1>1, DivModOf
<1>3. (Len(m) % Block) + Len(d) > Block - 1 \/ (Len(m) % Block) + Len(d) <= Block - 1
  BY <1>1, <1>2
<1>4. m \o d \in Seq(Data)
  OBVIOUS
<1> QED
  BY <1>3, <1>4, UpdateFull, UpdatePart, Zenon

-----------------------------------------------------------------------------
(* SHA-1: the padding.                                                     *)

Padding(m, z) == m \o << {7} >> \o [i \in 1..z |-> {}]

\* There is room in the counter.
LEMMA Room ==
    ASSUME NEW n \in Nat, n <= MaxMessage + Block + 3
    PROVE  8 * n < WordSize * WordSize
<1> DEFINE W == WordSize
<1>1. W \in Nat /\ W >= 24 /\ MaxMessage + Block <= W /\ MaxMessage \in Nat /\ Block \in Nat
  BY Sizes, PieceAssumption
<1> HIDE DEF W
<1>2. 24 * W <= W * W /\ W * W \in Nat
  BY <1>1, Times
<1>3. 8 * n < 24 * W
  BY <1>1
<1> QED
  BY <1>1, <1>2, <1>3 DEF W

\* The padding grows by a zero at its end.
LEMMA PaddingIs ==
    ASSUME NEW m \in Seq(Data), NEW z \in Nat
    PROVE  /\ Padding(m, z) \in Seq(Data) /\ Len(Padding(m, z)) = Len(m) + 1 + z
           /\ Padding(m, 0) = m \o << {7} >>
           /\ Padding(m, z + 1) = Padding(m, z) \o << {} >>
<1> DEFINE Zeros(n) == [i \in 1..n |-> {}]
           a == m \o << {7} >>
           y == Zeros(z)
           x == Zeros(z + 1)
           e == << {} >>
<1>1. a \in Seq(Data) /\ Len(a) = Len(m) + 1
  BY DEF Data
<1>2. /\ y \in Seq(Data) /\ Len(y) = z /\ x \in Seq(Data) /\ Len(x) = z + 1
      /\ e \in Seq(Data) /\ Len(e) = 1
  BY DEF Data
<1>3. x = y \o e
  <2>1. /\ y \o e \in Seq(Data) /\ Len(y \o e) = z + 1
        /\ \A i \in 1..z : (y \o e)[i] = {}
        /\ (y \o e)[z + 1] = {}
    BY <1>2
  <2>2. \A i \in 1..(z + 1) : x[i] = {}
    OBVIOUS
  <2> DEFINE w == y \o e
  <2> HIDE DEF x, w
  <2>3. \A i \in 1..(z + 1) : x[i] = w[i]
    <3> SUFFICES ASSUME NEW i \in 1..(z + 1) PROVE w[i] = {}
      BY <2>2
    <3>1. i \in 1..z \/ i = z + 1
      OBVIOUS
    <3> QED
      BY <2>1, <3>1, Zenon DEF w
  <2>4. w \in Seq(Data) /\ Len(w) = z + 1
    BY <2>1 DEF w
  <2>5. x = w
    BY <1>2, <2>3, <2>4, SeqEqual
  <2> QED
    BY <2>5 DEF w
<1>4. Zeros(0) = <<>>
  OBVIOUS
<1>5. /\ Padding(m, z) = a \o y /\ Padding(m, z + 1) = a \o x /\ Padding(m, 0) = a \o Zeros(0)
  BY Zenon DEF Padding
<1> HIDE DEF x, y, e, a, Zeros
<1>6. a \o <<>> = a
  BY <1>1
<1>0. a \in Seq(Data) /\ y \in Seq(Data) /\ e \in Seq(Data) /\ Len(y) = z
  BY <1>1, <1>2
<1>7. a \o y \in Seq(Data) /\ Len(a \o y) = Len(a) + z
  BY ONLY <1>0, ConcatProperties
<1>8. a \o (y \o e) = (a \o y) \o e
  <2>1. (a \o y) \o e = a \o (y \o e)
    <3> DEFINE A == Data
    <3>1. a \in Seq(A) /\ y \in Seq(A) /\ e \in Seq(A)
      BY <1>0
    <3> HIDE DEF A
    <3> QED
      BY ONLY <3>1, ConcatAssociative, SMTT(30)
  <2> QED
    BY <2>1
<1>9. Len(a \o y) = Len(m) + 1 + z
  BY <1>1, <1>7
<1> QED
  BY <1>3, <1>4, <1>5, <1>6, <1>7, <1>8, <1>9, Zenon DEF a, e

\* The padding ends before the block is through.
LEMMA RoomIsFound ==
    ASSUME NEW n \in Nat
    PROVE  \E z \in 0..(Block - 1) : (n + z) % Block = Block - 2
<1> DEFINE q == n \div Block
           r == n % Block
<1>1. Block \in Nat \ {0} /\ Block >= 3
  BY Sizes
<1>2. q \in Nat /\ r \in 0..(Block - 1) /\ q * Block \in Nat /\ n = q * Block + r
  BY <1>1, DivModOf, Zenon
<1> HIDE DEF q, r
<1> DEFINE b == Block - 2
<1>3. b \in 0..(Block - 1) /\ b = Block - 2
  BY <1>1
<1> HIDE DEF b
<1>4. CASE r <= Block - 2
  <2> DEFINE z == Block - 2 - r
             len == n + z
  <2>1. z \in 0..(Block - 1) /\ len = q * Block + b
    BY <1>1, <1>2, <1>3, <1>4
  <2> HIDE DEF len
  <2>3. len = q * Block + b /\ b \in 0..(Block - 1)
    BY <1>3, <2>1, Zenon
  <2>2. len % Block = b
    BY <1>1, <1>2, <2>3, DivMod
  <2> QED
    BY <1>3, <2>1, <2>2, Zenon DEF len
<1>5. CASE r > Block - 2
  <2> DEFINE z == Block - 1
             len == n + z
             p == q + 1
  <2>1. p \in Nat /\ p * Block = q * Block + Block
    BY <1>1, <1>2
  <2> HIDE DEF p
  <2>2. r = Block - 1
    BY <1>1, <1>2, <1>5
  <2>3. z \in 0..(Block - 1) /\ len = p * Block + b
    BY <1>1, <1>2, <1>3, <2>1, <2>2
  <2> HIDE DEF len
  <2>5. len = p * Block + b /\ b \in 0..(Block - 1)
    BY <1>3, <2>3, Zenon
  <2>4. len % Block = b
    BY <1>1, <2>1, <2>5, DivMod
  <2> QED
    BY <1>3, <2>3, <2>4, Zenon DEF len
<1>6. r <= Block - 2 \/ r > Block - 2
  BY <1>1, <1>2
<1> QED
  BY <1>4, <1>5, <1>6, Zenon

\* The loop of SHA1Final has its result after a block's length of rounds.
FinalLoop(f, c) ==
    f = [k \in 0..Block |-> IF k = 0 THEN SHA1Update(c, << {7} >>)
                            ELSE IF Padded(f[k - 1]) THEN f[k - 1]
                            ELSE SHA1Update(f[k - 1], << {} >>)]

\* That function exists, and SHA1Final has its last value.
LEMMA LoopIs ==
    ASSUME NEW c
    PROVE  \E f : /\ f[0] = SHA1Update(c, << {7} >>)
                  /\ \A k \in 1..Block : f[k] = IF Padded(f[k - 1]) THEN f[k - 1]
                                                ELSE SHA1Update(f[k - 1], << {} >>)
                  /\ SHA1Final(c) = SHA1Update(f[Block], Finalcount(c.count)).state
<1> DEFINE F0 == SHA1Update(c, << {7} >>)
           G(x) == IF Padded(x) THEN x ELSE SHA1Update(x, << {} >>)
           Upto(f, n) == /\ DOMAIN f = 0..n /\ f = [k \in 0..n |-> f[k]] /\ f[0] = F0
                         /\ \A k \in 1..n : f[k] = G(f[k - 1])
           S == {n \in Nat : \E f : Upto(f, n)}
<1>0. Block \in Nat
  BY Sizes
<1> HIDE DEF F0, G
<1>1. 0 \in S
  <2> DEFINE f == [k \in 0..0 |-> F0]
  <2>1. Upto(f, 0)
    OBVIOUS
  <2> QED
    BY <2>1
<1>2. ASSUME NEW n \in Nat, n \in S PROVE n + 1 \in S
  <2>1. PICK f : Upto(f, n)
    BY <1>2
  <2> DEFINE h == [k \in 0..(n + 1) |-> IF k = n + 1 THEN G(f[n]) ELSE f[k]]
  <2>2. DOMAIN h = 0..(n + 1) /\ h = [k \in 0..(n + 1) |-> h[k]] /\ h[0] = f[0]
    OBVIOUS
  <2>3. ASSUME NEW k \in 1..(n + 1) PROVE h[k] = G(h[k - 1])
    <3>1. CASE k = n + 1
      <4>1. h[k] = G(f[n]) /\ k - 1 = n
        BY <3>1
      <4>2. h[n] = f[n]
        OBVIOUS
      <4> HIDE DEF h
      <4> QED
        BY <4>1, <4>2, Zenon
    <3>2. CASE k # n + 1
      <4>1. k \in 1..n /\ k - 1 \in 0..n
        BY <3>2
      <4>2. h[k] = f[k] /\ h[k - 1] = f[k - 1]
        BY <4>1
      <4> HIDE DEF h
      <4> QED
        BY <2>1, <4>1, <4>2, Zenon
    <3> QED
      BY <3>1, <3>2
  <2> HIDE DEF h
  <2>4. Upto(h, n + 1)
    BY <2>1, <2>2, <2>3, Zenon
  <2> HIDE DEF Upto
  <2> QED
    BY <2>4
<1>3. PICK f : Upto(f, Block)
  <2> HIDE DEF S
  <2>1. Block \in S
    BY <1>0, <1>1, <1>2, Induction
  <2> HIDE DEF Upto
  <2> QED
    BY <2>1, Zenon DEF S
<1> DEFINE Body(h) == [k \in 0..Block |-> IF k = 0 THEN F0 ELSE G(h[k - 1])]
<1>4. \A e : FinalLoop(e, c) <=> e = Body(e)
  BY Zenon DEF FinalLoop, F0, G
<1>5. FinalLoop(f, c)
  <2>1. \A k \in 0..Block : f[k] = IF k = 0 THEN F0 ELSE G(f[k - 1])
    <3> SUFFICES ASSUME NEW k \in 0..Block, k # 0 PROVE f[k] = G(f[k - 1])
      BY <1>3, Zenon
    <3>1. k \in 1..Block
      OBVIOUS
    <3> QED
      BY <1>3, <3>1, Zenon
  <2>2. f = Body(f)
    BY <1>3, <2>1, Zenon
  <2> HIDE DEF Body
  <2> QED
    BY <1>4, <2>2, Zenon
<1> DEFINE g == CHOOSE e : FinalLoop(e, c)
<1>6. FinalLoop(g, c)
  BY <1>5, Zenon
<1>7. SHA1Final(c) = SHA1Update(g[Block], Finalcount(c.count)).state
  BY Zenon DEF SHA1Final, FinalLoop
<1> HIDE DEF g
<1>8. \A k \in 0..Block : g[k] = IF k = 0 THEN F0 ELSE G(g[k - 1])
  <2> DEFINE h == Body(g)
  <2>1. g = h
    BY <1>4, <1>6, Zenon
  <2>2. \A k \in 0..Block : h[k] = IF k = 0 THEN F0 ELSE G(g[k - 1])
    BY Zenon
  <2> HIDE DEF h
  <2> QED
    BY <2>1, <2>2, Zenon
<1>9. g[0] = F0 /\ \A k \in 1..Block : g[k] = G(g[k - 1])
  BY <1>0, <1>8
<1> QED
  BY <1>7, <1>9, Zenon DEF F0, G

\* The loop stops at the first length that leaves room.
LEMMA FinalIs ==
    ASSUME NEW c, NEW m \in Seq(Data), Ctx(c, m), Len(m) <= MaxMessage
    PROVE  \E z \in 0..(Block - 1) :
             /\ Len(Padding(m, z)) % Block = Block - 2
             /\ SHA1Final(c) = Chunks(Padding(m, z) \o Finalcount(c.count))
<1> DEFINE n == Len(m)
           e == << {} >>
           F == Finalcount(c.count)
<1>1. PICK f : /\ f[0] = SHA1Update(c, << {7} >>)
               /\ \A k \in 1..Block : f[k] = IF Padded(f[k - 1]) THEN f[k - 1]
                                             ELSE SHA1Update(f[k - 1], e)
               /\ SHA1Final(c) = SHA1Update(f[Block], F).state
  BY LoopIs, Zenon
<1>2. /\ n \in Nat /\ n <= MaxMessage /\ MaxMessage \in Nat /\ Block \in Nat /\ Block >= 3
  BY Sizes
<1>3. ASSUME NEW x, NEW z \in Nat, Ctx(x, Padding(m, z))
      PROVE  Padded(x) <=> (n + 1 + z) % Block = Block - 2
  <2>1. Len(Padding(m, z)) = n + 1 + z /\ n + 1 + z \in Nat
    BY <1>2, PaddingIs
  <2>2. Counts(x.count, n + 1 + z)
    BY <1>3, <2>1, Zenon DEF Ctx
  <2>3. (x.count[1] \div 8) % Block = (n + 1 + z) % Block
    BY <2>1, <2>2, OffsetIs, Zenon
  <2> QED
    BY <2>3, Zenon DEF Padded
<1>4. /\ e \in Seq(Data) /\ Len(e) = 1
      /\ << {7} >> \in Seq(Data) /\ Len(<< {7} >>) = 1
      /\ F \in Seq(Data) /\ Len(F) = 2
  <2>1. c.count[1] \in Nat /\ c.count[2] \in Nat
    BY Sizes DEF Ctx, Counts
  <2> QED
    BY <2>1 DEF Data, Finalcount
<1> HIDE DEF n, e, F
<1> DEFINE P(k) == \E z \in 0..k :
             /\ Ctx(f[k], Padding(m, z))
             /\ (n + 1 + z) % Block = Block - 2 \/ z = k
             /\ \A i \in 0..(z - 1) : (n + 1 + i) % Block # Block - 2
           S == {k \in Nat : k <= Block => P(k)}
<1>5. 0 \in S
  <2> DEFINE one == << {7} >>
             l == Len(m) + Len(one)
  <2>0. one \in Seq(Data) /\ f[0] = SHA1Update(c, one)
    BY <1>1, <1>4
  <2>1. 8 * (Len(m) + Len(one)) < WordSize * WordSize
    <3>1. l \in Nat /\ l <= MaxMessage + Block + 3
      BY <1>2, <1>4 DEF n
    <3> HIDE DEF l
    <3>2. 8 * l < WordSize * WordSize
      BY <3>1, Room
    <3> QED
      BY <3>2 DEF l
  <2> HIDE DEF one
  <2>6. Ctx(SHA1Update(c, one), m \o one)
    BY <2>0, <2>1, UpdateIs, Zenon
  <2>2. Ctx(f[0], m \o << {7} >>)
    BY <2>0, <2>6, Zenon DEF one
  <2>3. Ctx(f[0], Padding(m, 0))
    <3>1. 0 \in Nat
      OBVIOUS
    <3> QED
      BY <2>2, <3>1, PaddingIs, Zenon
  <2>4. 0 \in 0..0 /\ \A i \in 0..(0 - 1) : FALSE
    OBVIOUS
  <2>5. P(0)
    BY <2>3, <2>4, Zenon
  <2> HIDE DEF P
  <2> QED
    BY <2>5
<1>6. ASSUME NEW k \in Nat, k \in S PROVE k + 1 \in S
  <2> SUFFICES ASSUME k + 1 <= Block PROVE P(k + 1)
    OBVIOUS
  <2>1. PICK z \in 0..k :
             /\ Ctx(f[k], Padding(m, z))
             /\ (n + 1 + z) % Block = Block - 2 \/ z = k
             /\ \A i \in 0..(z - 1) : (n + 1 + i) % Block # Block - 2
    BY <1>6, <1>2
  <2>2. /\ k + 1 \in 1..Block /\ (k + 1) - 1 = k /\ z \in Nat /\ z \in 0..(k + 1)
    BY <1>2
  <2>3. f[k + 1] = IF Padded(f[k]) THEN f[k] ELSE SHA1Update(f[k], e)
    BY <1>1, <2>2, Zenon
  <2>4. CASE Padded(f[k])
    <3>1. (n + 1 + z) % Block = Block - 2
      BY <1>3, <2>1, <2>2, <2>4, Zenon
    <3>2. f[k + 1] = f[k]
      BY <2>3, <2>4, Zenon
    <3> QED
      BY <2>1, <2>2, <3>1, <3>2, Zenon
  <2>5. CASE ~Padded(f[k])
    <3>1. (n + 1 + z) % Block # Block - 2
      BY <1>3, <2>1, <2>2, <2>5, Zenon
    <3>2. z = k
      BY <2>1, <3>1, Zenon
    <3>3. f[k + 1] = SHA1Update(f[k], e)
      BY <2>3, <2>5, Zenon
    <3> DEFINE p == Padding(m, z)
    <3>4. p \in Seq(Data) /\ Len(p) = n + 1 + z /\ Padding(m, z + 1) = p \o e
      BY <2>2, PaddingIs, Zenon DEF n, e
    <3>5. 8 * (Len(p) + Len(e)) < WordSize * WordSize
      <4> DEFINE l == Len(p) + Len(e)
      <4>1. l \in Nat /\ l <= MaxMessage + Block + 3
        <5>1. z < Block
          BY <1>2, <3>2
        <5> HIDE DEF p
        <5> QED
          BY <1>2, <1>4, <2>2, <3>4, <5>1
      <4> HIDE DEF l
      <4>2. 8 * l < WordSize * WordSize
        BY <4>1, Room
      <4> QED
        BY <4>2 DEF l
    <3>6. Ctx(f[k], p)
      BY <2>1
    <3> HIDE DEF p
    <3> DEFINE x == f[k]
    <3> HIDE DEF x
    <3>10. Ctx(x, p) /\ f[k + 1] = SHA1Update(x, e)
      BY <3>3, <3>6, Zenon DEF x
    <3>11. Ctx(SHA1Update(x, e), p \o e)
      BY <1>4, <3>4, <3>5, <3>10, UpdateIs, Zenon
    <3>7. Ctx(f[k + 1], p \o e)
      BY <3>10, <3>11, Zenon
    <3>8. \A i \in 0..((k + 1) - 1) : (n + 1 + i) % Block # Block - 2
      <4> SUFFICES ASSUME NEW i \in 0..k PROVE (n + 1 + i) % Block # Block - 2
        BY <2>2, Zenon
      <4>1. i \in 0..(z - 1) \/ i = z
        BY <3>2
      <4> QED
        BY <2>1, <3>1, <4>1, Zenon
    <3>12. Ctx(f[k + 1], Padding(m, k + 1))
      BY <3>2, <3>4, <3>7, Zenon
    <3>9. Ctx(f[k + 1], Padding(m, k + 1)) /\ k + 1 \in 0..(k + 1)
      BY <3>12
    <3> QED
      BY <3>8, <3>9, Zenon
  <2> QED
    BY <2>4, <2>5, Zenon
<1>7. P(Block)
  <2> HIDE DEF P
  <2>1. Block \in S
    <3> HIDE DEF S
    <3> QED
      BY <1>2, <1>5, <1>6, Induction
  <2> QED
    BY <1>2, <2>1
<1>8. PICK z \in 0..Block :
             /\ Ctx(f[Block], Padding(m, z))
             /\ (n + 1 + z) % Block = Block - 2 \/ z = Block
             /\ \A i \in 0..(z - 1) : (n + 1 + i) % Block # Block - 2
  BY <1>7
<1>9. z \in 0..(Block - 1)
  <2> SUFFICES ASSUME z = Block PROVE FALSE
    BY <1>2
  <2>1. n + 1 \in Nat
    BY <1>2
  <2>2. PICK i \in 0..(Block - 1) : ((n + 1) + i) % Block = Block - 2
    BY <2>1, RoomIsFound
  <2>3. i \in 0..(z - 1)
    OBVIOUS
  <2> QED
    BY <1>8, <2>2, <2>3
<1>10. (n + 1 + z) % Block = Block - 2
  <2>1. z # Block
    BY <1>2, <1>9
  <2> QED
    BY <1>8, <2>1, Zenon
<1> DEFINE p == Padding(m, z)
<1>11. p \in Seq(Data) /\ Len(p) = n + 1 + z
  <2>1. z \in Nat
    OBVIOUS
  <2> QED
    BY <2>1, PaddingIs, Zenon DEF n
<1>12. Ctx(f[Block], p)
  BY <1>8
<1> HIDE DEF p
<1>13. 8 * (Len(p) + Len(F)) < WordSize * WordSize
  <2> DEFINE l == Len(p) + Len(F)
  <2>1. l \in Nat /\ l <= MaxMessage + Block + 3
    BY <1>2, <1>4, <1>9, <1>11
  <2> HIDE DEF l
  <2>2. 8 * l < WordSize * WordSize
    BY <2>1, Room
  <2> QED
    BY <2>2 DEF l
<1>14. Ctx(SHA1Update(f[Block], F), p \o F)
  BY <1>4, <1>11, <1>12, <1>13, UpdateIs, Zenon
<1>15. SHA1Final(c) = Chunks(p \o F)
  BY <1>1, <1>14, Zenon DEF Ctx
<1>16. Len(p) % Block = Block - 2
  BY <1>10, <1>11, Zenon
<1> QED
  BY <1>9, <1>15, <1>16, Zenon DEF p, F

-----------------------------------------------------------------------------
(* SHA-1: the specification.                                               *)

\* The context is that of the message, and so is the digest.
SHA1Inv ==
    /\ message \in Seq(Data) /\ Len(message) <= MaxMessage
    /\ Ctx(ctx, message) /\ DigestOfPadded

\* It is inductive.
LEMMA SHA1InitNext == (SumInit => SHA1Inv) /\ (SHA1Inv /\ [SumNext]_sumVars => SHA1Inv')
<1>1. Byte \subseteq Data
  BY SizeAssumption DEF Data
<1>2. Ctx(SHA1Init, <<>>) /\ <<>> \in Seq(Data) /\ Len(<<>>) = 0 /\ 0 <= MaxMessage
  <2>1. Block \in Nat \ {0} /\ WordSize \in Nat \ {0} /\ MaxMessage \in Nat
    BY Sizes
  <2>2. /\ DOMAIN SHA1Init = {"state", "count", "buffer"}
        /\ SHA1Init = [state |-> SHA1Init.state, count |-> SHA1Init.count,
                       buffer |-> SHA1Init.buffer]
        /\ SHA1Init.state = <<>> /\ SHA1Init.count = <<0, 0>>
    BY DEF SHA1Init
  <2>3. 0 = 0 * Block + 0 /\ 0 \in 0..(Block - 1) /\ 0 \in Nat
    BY <2>1
  <2>4. 0 \div Block = 0 /\ 0 % Block = 0
    BY <2>1, <2>3, DivMod
  <2>5. <<>> \in Seq(Data) /\ Len(<<>>) = 0 /\ <<>> \in Seq(Blocks)
    OBVIOUS
  <2>6. <<>> = Chunks(<<>>)
    <3>1. \A k \in 1..0 : FALSE
      OBVIOUS
    <3> QED
      BY <2>4, <2>5, <3>1, ChunksOnly, Zenon
  <2>7. Counts(<<0, 0>>, 0)
    BY <2>1 DEF Counts
  <2>8. \A i \in 1..0 : FALSE
    OBVIOUS
  <2> QED
    BY <2>1, <2>2, <2>4, <2>5, <2>6, <2>7, <2>8 DEF Ctx
<1>3. SumInit => SHA1Inv
  BY <1>2 DEF SumInit, SHA1Inv, DigestOfPadded
<1>4. ASSUME SHA1Inv, NEW len \in 0..(MaxMessage - Len(message)), NEW piece \in [1..len -> Byte],
             NEW a \in 0..3, Feed(piece, a)
      PROVE  SHA1Inv'
  <2>1. /\ message \in Seq(Data) /\ Len(message) \in Nat /\ Ctx(ctx, message)
    BY <1>4 DEF SHA1Inv
  <2>2. piece \in Seq(Data) /\ Len(piece) \in Nat
    <3>1. len \in Nat
      BY <1>4, <2>1, Sizes
    <3> QED
      BY <1>1, <1>4, <3>1
  <2>3. /\ message' = message \o piece /\ ctx' = SHA1Update(ctx, piece)
        /\ digest = <<>> /\ digest' = digest /\ Len(message) + Len(piece) <= MaxMessage
    BY <1>4 DEF Feed
  <2>4. 8 * (Len(message) + Len(piece)) < WordSize * WordSize
    <3> DEFINE l == Len(message) + Len(piece)
    <3>1. l \in Nat /\ l <= MaxMessage + Block + 3
      BY <2>1, <2>2, <2>3, Sizes
    <3> HIDE DEF l
    <3>2. 8 * l < WordSize * WordSize
      BY <3>1, Room
    <3> QED
      BY <3>2 DEF l
  <2>5. Ctx(ctx', message') /\ message' \in Seq(Data)
    BY <2>1, <2>2, <2>3, <2>4, UpdateIs, Zenon
  <2>6. Len(message') <= MaxMessage
    BY <2>1, <2>2, <2>3
  <2> QED
    BY <2>3, <2>5, <2>6, Zenon DEF SHA1Inv, DigestOfPadded
<1>5. ASSUME SHA1Inv, Finish PROVE SHA1Inv'
  <2>1. /\ message \in Seq(Data) /\ Len(message) <= MaxMessage /\ Ctx(ctx, message)
    BY <1>5 DEF SHA1Inv
  <2>2. /\ message' = message /\ ctx' = ctx /\ digest' = SHA1Final(ctx)
    BY <1>5 DEF Finish
  <2>3. DigestOfPadded'
    <3>1. PICK z \in 0..(Block - 1) :
             /\ Len(Padding(message, z)) % Block = Block - 2
             /\ SHA1Final(ctx) = Chunks(Padding(message, z) \o Finalcount(ctx.count))
      BY <2>1, FinalIs
    <3>2. \E zeros \in 0..(Block - 1) :
             LET padded == message' \o << {7} >> \o [i \in 1..zeros |-> {}]
             IN  /\ Len(padded) % Block = Block - 2
                 /\ digest' = Chunks(padded \o Finalcount(ctx'.count))
      BY <2>2, <3>1, Zenon DEF Padding
    <3> QED
      BY <3>2, Zenon DEF DigestOfPadded
  <2> QED
    BY <2>1, <2>2, <2>3, Zenon DEF SHA1Inv
<1>6. ASSUME SHA1Inv, Again PROVE SHA1Inv'
  <2>1. message' = <<>> /\ ctx' = SHA1Init /\ digest' = <<>>
    BY <1>6 DEF Again
  <2>2. message' \in Seq(Data) /\ Len(message') <= MaxMessage
    BY <1>2, <2>1
  <2>3. Ctx(ctx', message')
    BY <1>2, <2>1, Zenon
  <2>4. DigestOfPadded'
    BY <2>1 DEF DigestOfPadded
  <2> QED
    BY <2>2, <2>3, <2>4, Zenon DEF SHA1Inv
<1>7. ASSUME SHA1Inv, UNCHANGED sumVars PROVE SHA1Inv'
  <2>1. message' = message /\ ctx' = ctx /\ digest' = digest
    BY <1>7 DEF sumVars
  <2> QED
    BY <1>7, <2>1, Zenon DEF SHA1Inv, DigestOfPadded
<1> QED
  BY <1>3, <1>4, <1>5, <1>6, <1>7, Zenon DEF SumNext

\* What the context keeps, in the words of the property.
LEMMA BlocksFromCtx == SHA1Inv => BlocksOfMessage
<1> SUFFICES ASSUME SHA1Inv PROVE BlocksOfMessage
  OBVIOUS
<1> DEFINE n == Len(message)
           q == n \div Block
           rest == n % Block
           u == SubSeq(ctx.buffer, 1, rest)
           v == SubSeq(message, n - rest + 1, n)
<1>1. /\ message \in Seq(Data) /\ n \in Nat /\ Block \in Nat \ {0}
      /\ ctx.state = Chunks(message) /\ Counts(ctx.count, n)
      /\ \A i \in 1..rest : ctx.buffer[i] = message[q * Block + i]
  BY Sizes DEF SHA1Inv, Ctx
<1>2. q \in Nat /\ rest \in 0..(Block - 1) /\ q * Block \in Nat /\ n = q * Block + rest
  BY <1>1, DivModOf, Zenon
<1> HIDE DEF n, q, rest
<1>3. u = [i \in 1..rest |-> ctx.buffer[i]]
  <2>1. rest \in Int /\ 1 \in Int /\ rest - 1 + 1 = rest
    BY <1>1, <1>2
  <2>2. u = [i \in 1..(rest - 1 + 1) |-> ctx.buffer[i + 1 - 1]]
    BY <2>1
  <2> HIDE DEF u
  <2> QED
    BY <2>1, <2>2
<1>4. v = [i \in 1..rest |-> message[q * Block + i]]
  <2> DEFINE lo == n - rest + 1
  <2>1. lo \in Int /\ n \in Int /\ n - lo + 1 = rest
        /\ \A i \in 1..rest : i + lo - 1 = q * Block + i
    BY <1>1, <1>2
  <2> HIDE DEF lo
  <2>2. SubSeq(message, lo, n) = [i \in 1..(n - lo + 1) |-> message[i + lo - 1]]
    BY <2>1
  <2>3. SubSeq(message, lo, n) = [i \in 1..rest |-> message[q * Block + i]]
    BY <2>1, <2>2
  <2> QED
    BY <2>3 DEF lo
<1> HIDE DEF u, v
<1>5. u = v
  BY <1>1, <1>3, <1>4
<1>6. ctx.count[2] * WordSize + ctx.count[1] = 8 * n
  BY <1>1 DEF Counts
<1> QED
  BY <1>1, <1>5, <1>6, Zenon DEF BlocksOfMessage, u, v, n, rest

\* However a message is cut into pieces, SHA1Update has compressed each of its whole
\* blocks once and in order, keeps the rest at the start of the buffer, and its two
\* words, carry included, count its bits.
THEOREM BlocksAlwaysOfMessage == SumSpec => []BlocksOfMessage
BY SHA1InitNext, BlocksFromCtx, PTL DEF SumSpec

\* SHA1Final compresses the message with its padding: the one bit, the fewest zeros
\* that leave room, and the counter as it was before; its loop ends within a block.
THEOREM DigestAlwaysOfPadded == SumSpec => []DigestOfPadded
<1>1. SHA1Inv => DigestOfPadded
  BY DEF SHA1Inv
<1> QED
  BY <1>1, SHA1InitNext, PTL DEF SumSpec

=============================================================================
