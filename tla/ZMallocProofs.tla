--------------------------- MODULE ZMallocProofs ---------------------------
(***************************************************************************)
(* What is proved of the two counters that threads share: used_memory of   *)
(* zmalloc.c, and the reference count of spg_ref.h at the end.             *)
(*                                                                         *)
(* For used_memory the invariant says that there is a function c, what is  *)
(* counted for each block, whose sum (modulo the range of size_t) is       *)
(* used_memory.  For a block that no call works on c is zmalloc_size or 0; *)
(* for the block of a call it is what the updates to come will complete.   *)
(* Every update changes c at the block of its call only, and leaves it     *)
(* between 0 and the most that a block can count for.  That needs one      *)
(* property of the padding: a word may be added before it or after it.     *)
(* The facts about sums over finite sets that this takes come first.       *)
(***************************************************************************)
EXTENDS ZMalloc, FiniteSetTheorems, WellFoundedInduction, TLAPS

CONSTANT Reference
VARIABLES ref, held, putting, freed

Ref == INSTANCE SpgRef

-----------------------------------------------------------------------------
(* Numbers.                                                                *)

\* A set of numbers that is not empty has a least element.
LEMMA LeastNat ==
    ASSUME NEW T, T \subseteq Nat, T # {}
    PROVE  \E x \in T : \A y \in T : x <= y
<1> DEFINE R == OpToRel(<, Nat)
<1>1. IsWellFoundedOn(R, Nat)
  BY NatLessThanWellFounded
<1>2. \A x, y \in Nat : y < x => <<y, x>> \in R
  BY DEF OpToRel
<1> HIDE DEF R
<1>3. PICK x \in T : \A y \in T : ~(<<y, x>> \in R)
  BY <1>1, WFMin
<1>4. \A y \in T : ~(y < x)
  BY <1>2, <1>3
<1> QED
  BY <1>4

\* Induction, for a set.
LEMMA Induction ==
    ASSUME NEW S, 0 \in S, \A n \in Nat : n \in S => n + 1 \in S
    PROVE  Nat \subseteq S
<1> SUFFICES ASSUME Nat \ S # {} PROVE FALSE
  OBVIOUS
<1>1. PICK x \in Nat \ S : \A y \in Nat \ S : x <= y
  BY LeastNat
<1>2. x # 0 /\ x - 1 \in Nat
  BY <1>1
<1>3. x - 1 \in S
  BY <1>1, <1>2
<1> QED
  BY <1>1, <1>2, <1>3

-----------------------------------------------------------------------------
(* Sums over finite sets.                                                  *)

Any(t) == CHOOSE x \in t : TRUE

\* g is the fold that SumFunctionOnSet makes, for every set of U.
Sums(g, f, U) ==
    g = [t \in U |-> IF t = {} THEN 0 ELSE f[Any(t)] + g[t \ {Any(t)}]]

\* SumFunctionOnSet(f, S) is the value of such a g for S.
LEMMA SumIs ==
    ASSUME NEW f, NEW S
    PROVE  SumFunctionOnSet(f, S) = (CHOOSE g : Sums(g, f, SUBSET S))[S]
BY Zenon DEF SumFunctionOnSet, FoldFunctionOnSet, MapThenFoldSet, Sums, Any

LEMMA AnyIn == ASSUME NEW t, t # {} PROVE Any(t) \in t
BY DEF Any

\* A finite set that loses an element gets smaller.
LEMMA Smaller ==
    ASSUME NEW t, IsFiniteSet(t), t # {}, NEW x \in t
    PROVE  /\ IsFiniteSet(t \ {x})
           /\ Cardinality(t \ {x}) \in Nat /\ Cardinality(t) \in Nat
           /\ Cardinality(t) = Cardinality(t \ {x}) + 1
<1>1. IsFiniteSet(t \ {x}) /\ Cardinality(t \ {x}) = Cardinality(t) - 1
  BY FS_RemoveElement
<1>2. Cardinality(t \ {x}) \in Nat /\ Cardinality(t) \in Nat
  BY <1>1, FS_CardinalityType
<1> QED
  BY <1>1, <1>2

\* The subsets of S with at most n elements.
UpTo(S, n) == {t \in SUBSET S : Cardinality(t) <= n}

LEMMA SumsUpTo ==
    ASSUME NEW f, NEW S, IsFiniteSet(S)
    PROVE  \A n \in Nat : \E g : Sums(g, f, UpTo(S, n))
<1> DEFINE N == {n \in Nat : \E g : Sums(g, f, UpTo(S, n))}
<1>f. \A t \in SUBSET S : IsFiniteSet(t) /\ Cardinality(t) \in Nat
  BY FS_Subset, FS_CardinalityType
<1>1. 0 \in N
  <2>1. UpTo(S, 0) = {{}}
    <3>1. \A t \in SUBSET S : Cardinality(t) <= 0 <=> t = {}
      BY <1>f, FS_EmptySet
    <3> QED
      BY <3>1 DEF UpTo
  <2> DEFINE g == [t \in UpTo(S, 0) |-> 0]
  <2>2. Sums(g, f, UpTo(S, 0))
    BY <2>1 DEF Sums
  <2> QED
    BY <2>2
<1>2. ASSUME NEW n \in Nat, n \in N PROVE n + 1 \in N
  <2>1. PICK g : Sums(g, f, UpTo(S, n))
    BY <1>2
  <2> DEFINE h == [t \in UpTo(S, n + 1) |->
                     IF t \in UpTo(S, n) THEN g[t] ELSE f[Any(t)] + g[t \ {Any(t)}]]
  <2>2. UpTo(S, n) \subseteq UpTo(S, n + 1)
    BY <1>f DEF UpTo
  <2>3. ASSUME NEW t \in UpTo(S, n + 1), t # {}
        PROVE  t \ {Any(t)} \in UpTo(S, n)
    BY <1>f, <2>3, AnyIn, Smaller DEF UpTo
  <2>4. {} \in UpTo(S, n)
    BY FS_EmptySet DEF UpTo
  <2>5. ASSUME NEW t \in UpTo(S, n + 1)
        PROVE  h[t] = IF t = {} THEN 0 ELSE f[Any(t)] + h[t \ {Any(t)}]
    <3>1. CASE t = {}
      BY <2>1, <2>2, <2>4, <3>1 DEF Sums
    <3>2. CASE t # {}
      <4>1. h[t \ {Any(t)}] = g[t \ {Any(t)}]
        BY <2>2, <2>3, <3>2
      <4>2. h[t] = f[Any(t)] + g[t \ {Any(t)}]
        <5>1. CASE t \in UpTo(S, n)
          <6>1. h[t] = g[t]
            BY <5>1, <2>2
          <6> HIDE DEF h
          <6> QED
            BY <5>1, <6>1, <2>1, <3>2 DEF Sums
        <5>2. CASE t \notin UpTo(S, n)
          BY <5>2
        <5> QED
          BY <5>1, <5>2
      <4> HIDE DEF h
      <4> QED
        BY <3>2, <4>1, <4>2
    <3> QED
      BY <3>1, <3>2
  <2>6. h = [t \in UpTo(S, n + 1) |-> h[t]]
    OBVIOUS
  <2> HIDE DEF h
  <2>7. Sums(h, f, UpTo(S, n + 1))
    BY <2>5, <2>6 DEF Sums
  <2> QED
    BY <2>7
<1> HIDE DEF N
<1>3. Nat \subseteq N
  BY <1>1, <1>2, Induction
<1> QED
  BY <1>3 DEF N

LEMMA SumsOn ==
    ASSUME NEW f, NEW S, IsFiniteSet(S)
    PROVE  \E g : Sums(g, f, SUBSET S) /\ SumFunctionOnSet(f, S) = g[S]
<1>1. Cardinality(S) \in Nat
  BY FS_CardinalityType
<1>2. UpTo(S, Cardinality(S)) = SUBSET S
  BY FS_Subset DEF UpTo
<1>3. \E g : Sums(g, f, SUBSET S)
  <2>1. \A n \in Nat : \E g : Sums(g, f, UpTo(S, n))
    BY SumsUpTo
  <2> QED
    BY <1>1, <1>2, <2>1
<1> DEFINE g == CHOOSE h : Sums(h, f, SUBSET S)
<1>4. Sums(g, f, SUBSET S)
  BY <1>3
<1>5. SumFunctionOnSet(f, S) = g[S]
  BY SumIs, Zenon
<1> HIDE DEF g
<1> QED
  BY <1>4, <1>5

\* Induction over the subsets of a finite set, for a set P of them.
LEMMA SubsetInduction ==
    ASSUME NEW U, IsFiniteSet(U), NEW P,
           \A t \in SUBSET U : (\A x \in t : t \ {x} \in P) => t \in P
    PROVE  SUBSET U \subseteq P
<1> DEFINE N == {n \in Nat : \A t \in SUBSET U : Cardinality(t) = n => t \in P}
<1>f. \A t \in SUBSET U : IsFiniteSet(t) /\ Cardinality(t) \in Nat
  BY FS_Subset, FS_CardinalityType
<1>1. 0 \in N
  <2>1. \A t \in SUBSET U : Cardinality(t) = 0 => t = {}
    BY <1>f, FS_EmptySet
  <2> QED
    BY <2>1
<1>2. ASSUME NEW n \in Nat, n \in N PROVE n + 1 \in N
  <2> SUFFICES ASSUME NEW t \in SUBSET U, Cardinality(t) = n + 1 PROVE t \in P
    OBVIOUS
  <2>1. ASSUME NEW x \in t PROVE t \ {x} \in P
    <3>1. IsFiniteSet(t)
      BY <1>f
    <3>2. Cardinality(t) = Cardinality(t \ {x}) + 1 /\ Cardinality(t \ {x}) \in Nat
      BY <3>1, Smaller
    <3>3. Cardinality(t \ {x}) = n
      BY <3>2
    <3> QED
      BY <1>2, <3>3
  <2> QED
    BY <2>1
<1> HIDE DEF N
<1>3. Nat \subseteq N
  BY <1>1, <1>2, Induction
<1> QED
  BY <1>f, <1>3 DEF N

Sum(f, S) == SumFunctionOnSet(f, S)

LEMMA SumEmpty == ASSUME NEW f PROVE Sum(f, {}) = 0
<1>1. PICK g : Sums(g, f, SUBSET {}) /\ Sum(f, {}) = g[{}]
  BY SumsOn, FS_EmptySet DEF Sum
<1>2. g[{}] = 0
  BY <1>1 DEF Sums
<1> QED
  BY <1>1, <1>2

LEMMA SumPick ==
    ASSUME NEW f, NEW S, IsFiniteSet(S), S # {}
    PROVE  Sum(f, S) = f[Any(S)] + Sum(f, S \ {Any(S)})
<1> DEFINE T == S \ {Any(S)}
<1>1. IsFiniteSet(T)
  BY FS_RemoveElement
<1>2. PICK g : Sums(g, f, SUBSET S) /\ Sum(f, S) = g[S]
  BY SumsOn DEF Sum
<1>3. PICK h : Sums(h, f, SUBSET T) /\ Sum(f, T) = h[T]
  BY <1>1, SumsOn DEF Sum
<1>4. T \in SUBSET S
  OBVIOUS
<1>5. g[S] = f[Any(S)] + g[T]
  BY <1>2 DEF Sums
<1> HIDE DEF T
<1>6. g[T] = h[T]
  <2> DEFINE P == {t \in SUBSET T : g[t] = h[t]}
  <2>1. ASSUME NEW t \in SUBSET T, \A x \in t : t \ {x} \in P
        PROVE  t \in P
    <3>1. t \in SUBSET S
      BY <1>4
    <3>2. CASE t = {}
      BY <1>2, <1>3, <3>1, <3>2 DEF Sums
    <3>3. CASE t # {}
      <4>1. g[t \ {Any(t)}] = h[t \ {Any(t)}]
        BY <2>1, <3>3, AnyIn
      <4>2. g[t] = f[Any(t)] + g[t \ {Any(t)}]
        BY <1>2, <3>1, <3>3 DEF Sums
      <4>3. h[t] = f[Any(t)] + h[t \ {Any(t)}]
        BY <1>3, <3>3 DEF Sums
      <4> QED
        BY <4>1, <4>2, <4>3
    <3> QED
      BY <3>2, <3>3
  <2> HIDE DEF P
  <2>2. SUBSET T \subseteq P
    BY <1>1, <2>1, SubsetInduction
  <2>3. T \in P
    BY <2>2
  <2> QED
    BY <2>3 DEF P
<1> QED
  BY <1>2, <1>3, <1>5, <1>6 DEF T

LEMMA SumInt ==
    ASSUME NEW S, IsFiniteSet(S), NEW f, \A x \in S : f[x] \in Int
    PROVE  \A t \in SUBSET S : Sum(f, t) \in Int
<1> DEFINE P == {t \in SUBSET S : Sum(f, t) \in Int}
<1>1. ASSUME NEW t \in SUBSET S, \A x \in t : t \ {x} \in P
      PROVE  t \in P
  <2>1. CASE t = {}
    BY <2>1, SumEmpty
  <2>2. CASE t # {}
    <3>1. IsFiniteSet(t) /\ Any(t) \in t
      BY <2>2, FS_Subset, AnyIn
    <3>2. Sum(f, t) = f[Any(t)] + Sum(f, t \ {Any(t)})
      BY <2>2, <3>1, SumPick
    <3>3. Sum(f, t \ {Any(t)}) \in Int
      BY <1>1, <3>1
    <3> QED
      BY <3>1, <3>2, <3>3
  <2> QED
    BY <2>1, <2>2
<1> HIDE DEF P
<1>2. SUBSET S \subseteq P
  BY <1>1, SubsetInduction
<1> QED
  BY <1>2 DEF P

\* In whatever order a sum is taken.
LEMMA SumAdd ==
    ASSUME NEW S, IsFiniteSet(S), NEW f, \A x \in S : f[x] \in Int
    PROVE  \A t \in SUBSET S : \A x \in t : Sum(f, t) = f[x] + Sum(f, t \ {x})
<1> DEFINE Apart(t) == \A x \in t : Sum(f, t) = f[x] + Sum(f, t \ {x})
<1> DEFINE P == {t \in SUBSET S : Apart(t)}
<1>1. ASSUME NEW t \in SUBSET S, \A x \in t : t \ {x} \in P
      PROVE  Apart(t)
  <2> SUFFICES ASSUME NEW x \in t PROVE Sum(f, t) = f[x] + Sum(f, t \ {x})
    OBVIOUS
  <2> DEFINE y == Any(t)
  <2>1. IsFiniteSet(t) /\ t # {} /\ y \in t
    BY FS_Subset, AnyIn
  <2>2. Sum(f, t) = f[y] + Sum(f, t \ {y})
    BY <2>1, SumPick
  <2> HIDE DEF y
  <2>3. CASE x = y
    BY <2>2, <2>3
  <2>4. CASE x # y
    <3>1. Apart(t \ {y}) /\ Apart(t \ {x})
      BY <1>1, <2>1
    <3>2. x \in t \ {y} /\ y \in t \ {x}
      BY <2>1, <2>4
    <3>3. Sum(f, t \ {y}) = f[x] + Sum(f, (t \ {y}) \ {x})
      BY <3>1, <3>2
    <3>4. Sum(f, t \ {x}) = f[y] + Sum(f, (t \ {x}) \ {y})
      BY <3>1, <3>2
    <3>5. (t \ {y}) \ {x} = (t \ {x}) \ {y}
      OBVIOUS
    <3>6. (t \ {y}) \ {x} \in SUBSET S
      OBVIOUS
    <3>7. Sum(f, (t \ {y}) \ {x}) \in Int
      BY <3>6, SumInt
    <3>8. f[x] \in Int /\ f[y] \in Int
      BY <2>1
    <3> DEFINE u == (t \ {y}) \ {x}
    <3>9. (t \ {x}) \ {y} = u
      BY <3>5
    <3>10. Sum(f, t \ {y}) = f[x] + Sum(f, u) /\ Sum(f, t \ {x}) = f[y] + Sum(f, u)
           /\ Sum(f, u) \in Int
      BY <3>3, <3>4, <3>7, <3>9
    <3> HIDE DEF Apart, u
    <3> QED
      BY <2>2, <3>8, <3>10
  <2> QED
    BY <2>3, <2>4
<1> HIDE DEF Apart
<1>2. \A t \in SUBSET S : (\A x \in t : t \ {x} \in P) => t \in P
  BY <1>1
<1> HIDE DEF P
<1>3. SUBSET S \subseteq P
  BY <1>2, SubsetInduction
<1> QED
  BY <1>3 DEF P, Apart

LEMMA SumMonotone ==
    ASSUME NEW S, IsFiniteSet(S), NEW f, NEW g,
           \A x \in S : f[x] \in Int /\ g[x] \in Int /\ f[x] <= g[x]
    PROVE  \A t \in SUBSET S : Sum(f, t) <= Sum(g, t)
<1> DEFINE P == {t \in SUBSET S : Sum(f, t) <= Sum(g, t)}
<1>0. \A t \in SUBSET S : Sum(f, t) \in Int /\ Sum(g, t) \in Int
  BY SumInt
<1>1. ASSUME NEW t \in SUBSET S, \A x \in t : t \ {x} \in P
      PROVE  t \in P
  <2>1. CASE t = {}
    BY <2>1, SumEmpty
  <2>2. CASE t # {}
    <3> DEFINE y == Any(t)
    <3>1. IsFiniteSet(t) /\ y \in t
      BY <2>2, FS_Subset, AnyIn
    <3>2. Sum(f, t) = f[y] + Sum(f, t \ {y}) /\ Sum(g, t) = g[y] + Sum(g, t \ {y})
      BY <2>2, <3>1, SumPick
    <3> HIDE DEF y
    <3>3. Sum(f, t \ {y}) <= Sum(g, t \ {y})
      BY <1>1, <3>1
    <3>4. t \ {y} \in SUBSET S
      OBVIOUS
    <3>5. Sum(f, t \ {y}) \in Int /\ Sum(g, t \ {y}) \in Int
      BY <1>0, <3>4
    <3>6. f[y] \in Int /\ g[y] \in Int /\ f[y] <= g[y]
      BY <3>1
    <3> QED
      BY <3>2, <3>3, <3>5, <3>6
  <2> QED
    BY <2>1, <2>2
<1> HIDE DEF P
<1>2. SUBSET S \subseteq P
  BY <1>1, SubsetInduction
<1> QED
  BY <1>2 DEF P

\* One value changes.
LEMMA SumChange ==
    ASSUME NEW S, IsFiniteSet(S), NEW f, NEW g, NEW b \in S,
           \A x \in S : f[x] \in Int /\ g[x] \in Int,
           \A x \in S \ {b} : f[x] = g[x]
    PROVE  Sum(g, S) = Sum(f, S) + (g[b] - f[b])
<1> DEFINE T == S \ {b}
<1>1. IsFiniteSet(T) /\ T \in SUBSET S /\ S \in SUBSET S
  BY FS_RemoveElement
<1>2. Sum(f, S) = f[b] + Sum(f, T) /\ Sum(g, S) = g[b] + Sum(g, T)
  BY <1>1, SumAdd
<1>3. Sum(f, T) \in Int /\ Sum(g, T) \in Int
  BY <1>1, SumInt
<1>4. \A x \in T : f[x] \in Int /\ g[x] \in Int /\ f[x] <= g[x] /\ g[x] <= f[x]
  OBVIOUS
<1>5. T \in SUBSET T
  OBVIOUS
<1> HIDE DEF T
<1>6. Sum(f, T) <= Sum(g, T) /\ Sum(g, T) <= Sum(f, T)
  BY <1>1, <1>4, <1>5, SumMonotone
<1> QED
  BY <1>2, <1>3, <1>6

\* What is zero may be left out.
LEMMA SumNonzero ==
    ASSUME NEW S, IsFiniteSet(S), NEW f, NEW g, NEW T \in SUBSET S,
           \A x \in S : f[x] \in Int,
           \A x \in S \ T : f[x] = 0,
           \A x \in T : g[x] = f[x]
    PROVE  Sum(f, S) = Sum(g, T)
<1> DEFINE P == {t \in SUBSET S : Sum(f, t) = Sum(g, t \cap T)}
<1>0. /\ IsFiniteSet(T)
      /\ \A t \in SUBSET S : Sum(f, t) \in Int
      /\ \A t \in SUBSET T : Sum(g, t) \in Int
  <2>1. IsFiniteSet(T) /\ \A x \in T : g[x] \in Int
    BY FS_Subset
  <2> QED
    BY <2>1, SumInt
<1>1. ASSUME NEW t \in SUBSET S, \A x \in t : t \ {x} \in P
      PROVE  t \in P
  <2>1. CASE t = {}
    BY <2>1, SumEmpty
  <2>2. CASE t # {}
    <3> DEFINE y == Any(t)
    <3>1. IsFiniteSet(t) /\ y \in t
      BY <2>2, FS_Subset, AnyIn
    <3>2. Sum(f, t) = f[y] + Sum(f, t \ {y})
      BY <2>2, <3>1, SumPick
    <3> HIDE DEF y
    <3>3. Sum(f, t \ {y}) = Sum(g, (t \ {y}) \cap T)
      BY <1>1, <3>1
    <3>4. CASE y \in T
      <4>1. t \cap T \in SUBSET T /\ y \in t \cap T /\ (t \cap T) \ {y} = (t \ {y}) \cap T
        BY <3>1, <3>4
      <4>2. \A x \in T : g[x] \in Int
        OBVIOUS
      <4>3. Sum(g, t \cap T) = g[y] + Sum(g, (t \cap T) \ {y})
        BY <1>0, <4>1, <4>2, SumAdd
      <4>4. Sum(f, t) = Sum(g, t \cap T)
        BY <3>2, <3>3, <3>4, <4>1, <4>3
      <4> QED
        BY <4>4
    <3>5. CASE y \notin T
      <4>1. (t \ {y}) \cap T = t \cap T /\ f[y] = 0 /\ t \cap T \in SUBSET T
        BY <3>1, <3>5
      <4>2. Sum(g, t \cap T) \in Int
        BY <1>0, <4>1
      <4>3. Sum(g, (t \ {y}) \cap T) = Sum(g, t \cap T)
        BY <4>1, Zenon
      <4>4. Sum(f, t) = Sum(g, t \cap T)
        BY <3>2, <3>3, <4>1, <4>2, <4>3
      <4> QED
        BY <4>4
    <3> QED
      BY <3>4, <3>5
  <2> QED
    BY <2>1, <2>2
<1> HIDE DEF P
<1>2. SUBSET S \subseteq P
  BY <1>1, SubsetInduction
<1>3. S \in SUBSET S /\ S \cap T = T
  OBVIOUS
<1> QED
  BY <1>2, <1>3 DEF P
\* A sum of natural numbers is one.
LEMMA SumNat ==
    ASSUME NEW S, IsFiniteSet(S), NEW f, \A x \in S : f[x] \in Nat
    PROVE  Sum(f, S) \in Nat
<1> DEFINE z == [x \in S |-> 0]
<1>1. S \in SUBSET S /\ {} \in SUBSET S
  OBVIOUS
<1>2. (\A x \in S : z[x] \in Int /\ f[x] \in Int /\ z[x] <= f[x])
      /\ (\A x \in S \ {} : z[x] = 0)
  OBVIOUS
<1> HIDE DEF z
<1>3. Sum(z, S) = Sum(z, {}) /\ Sum(z, {}) = 0
  BY <1>1, <1>2, SumNonzero, SumEmpty
<1>4. Sum(z, S) <= Sum(f, S) /\ Sum(f, S) \in Int
  BY <1>1, <1>2, SumInt, SumMonotone
<1> QED
  BY <1>3, <1>4

-----------------------------------------------------------------------------
(* Padding.                                                                *)

LEMMA DivMod ==
    ASSUME NEW m \in Nat \ {0}, NEW n \in Int
    PROVE  /\ n \div m \in Int /\ n % m \in 0..(m - 1)
           /\ n = m * (n \div m) + (n % m)
  OBVIOUS

\* A product that grows by less than a factor.
LEMMA NoMultipleBetween ==
    ASSUME NEW m \in Nat \ {0}, NEW a \in Int, NEW b \in Int, a < b
    PROVE  m * a + m <= m * b
<1>1. PICK d \in Nat : b = a + 1 + d
  <2>1. b - a - 1 \in Nat /\ b = a + 1 + (b - a - 1)
    OBVIOUS
  <2> QED
    BY <2>1
<1>2. m * b = m * a + m + m * d
  BY <1>1
<1>3. m * d \in Nat
  OBVIOUS
<1>4. m * a \in Int /\ m * b \in Int
  OBVIOUS
<1> QED
  BY <1>2, <1>3, <1>4

\* There is one way to write a number as a multiple and a rest.
LEMMA OneRest ==
    ASSUME NEW m \in Nat \ {0}, NEW a \in Int, NEW b \in Int,
           NEW r \in 0..(m - 1), NEW s \in 0..(m - 1), m * a + r = m * b + s
    PROVE  r = s
<1>1. m * a \in Int /\ m * b \in Int
  OBVIOUS
<1>2. CASE a < b
  <2>1. m * a + m <= m * b
    BY <1>2, NoMultipleBetween
  <2> QED
    BY <1>1, <2>1
<1>3. CASE b < a
  <2>1. m * b + m <= m * a
    BY <1>3, NoMultipleBetween
  <2> QED
    BY <1>1, <2>1
<1>4. CASE a = b
  <2>1. m * a = m * b
    BY <1>4
  <2> QED
    BY <1>1, <2>1
<1> QED
  BY <1>2, <1>3, <1>4

\* What was added before the remainder was taken counts as well.
LEMMA ModPlus ==
    ASSUME NEW m \in Nat \ {0}, NEW x \in Int, NEW y \in Int
    PROVE  ((x % m) + y) % m = (x + y) % m
<1> DEFINE z == (x % m) + y
<1> DEFINE q == x \div m
<1> DEFINE p == z \div m
<1> DEFINE k == (x + y) \div m
<1> DEFINE r == z % m
<1> DEFINE s == (x + y) % m
<1>1. q \in Int /\ x % m \in 0..(m - 1) /\ x = m * q + (x % m)
  BY DivMod
<1>2. z \in Int
  BY <1>1
<1> HIDE DEF z
<1>3. p \in Int /\ r \in 0..(m - 1) /\ z = m * p + r
  BY <1>2, DivMod
<1>4. k \in Int /\ s \in 0..(m - 1) /\ x + y = m * k + s
  <2>1. x + y \in Int
    OBVIOUS
  <2> QED
    BY <2>1, DivMod
<1> HIDE DEF q, p, k, r, s
<1>5. m * q \in Int /\ m * p \in Int /\ m * k \in Int
  BY <1>1, <1>3, <1>4
<1>6. m * (q + p) + r = m * k + s
  <2>1. x + y = m * q + z
    BY <1>1, <1>5 DEF z
  <2>2. m * (q + p) = m * q + m * p
    BY <1>1, <1>3
  <2> QED
    BY <1>3, <1>4, <1>5, <2>1, <2>2
<1>7. q + p \in Int
  BY <1>1, <1>3
<1>8. r = s
  BY <1>3, <1>4, <1>6, <1>7, OneRest
<1> QED
  BY <1>8 DEF r, s, z

\* A remainder is no more than the number.
LEMMA ModAtMost ==
    ASSUME NEW m \in Nat \ {0}, NEW x \in Nat
    PROVE  x % m <= x /\ (x < m => x % m = x)
  OBVIOUS

\* Aligned rounds up to a multiple of Word.
LEMMA PaddedValue ==
    ASSUME NEW n \in Nat
    PROVE  /\ Aligned(n) \in Nat /\ n <= Aligned(n) /\ Aligned(n) < n + Word
           /\ \E a \in Int : Aligned(n) = Word * a
<1> DEFINE q == n \div Word
<1> DEFINE r == n % Word
<1>1. Word \in Nat \ {0}
  BY WordAssumption
<1>2. q \in Int /\ r \in 0..(Word - 1) /\ n = Word * q + r
  BY <1>1, DivMod
<1>3. Aligned(n) = IF r # 0 THEN n + (Word - r) ELSE n
  BY DEF Aligned
<1> HIDE DEF q, r
<1>4. Word * q \in Int /\ Word * (q + 1) = Word * q + Word /\ q + 1 \in Int
  BY <1>1, <1>2
<1>5. CASE r # 0
  <2>1. Aligned(n) = Word * (q + 1)
    BY <1>1, <1>2, <1>3, <1>4, <1>5
  <2>2. Aligned(n) \in Nat /\ n <= Aligned(n) /\ Aligned(n) < n + Word
    BY <1>1, <1>2, <1>3, <1>5
  <2> QED
    BY <1>4, <2>1, <2>2
<1>6. CASE r = 0
  <2>1. Aligned(n) = Word * q
    BY <1>2, <1>3, <1>4, <1>6
  <2>2. Aligned(n) \in Nat /\ n <= Aligned(n) /\ Aligned(n) < n + Word
    BY <1>1, <1>3, <1>6
  <2> QED
    BY <1>2, <2>1, <2>2
<1> QED
  BY <1>5, <1>6

\* zmalloc adds what zfree and zmalloc_size reckon with: the prefix is a word,
\* and may be added before the padding or after it.
LEMMA PaddedPrefix ==
    ASSUME NEW n \in Nat
    PROVE  Aligned(n + PREFIX_SIZE) = Aligned(n) + PREFIX_SIZE
<1>1. Word \in Nat \ {0}
  BY WordAssumption
<1>2. (n + Word) % Word = n % Word
  <2> DEFINE q == n \div Word
  <2> DEFINE r == n % Word
  <2> DEFINE p == (n + Word) \div Word
  <2> DEFINE s == (n + Word) % Word
  <2>1. q \in Int /\ r \in 0..(Word - 1) /\ n = Word * q + r
    BY <1>1, DivMod
  <2>2. p \in Int /\ s \in 0..(Word - 1) /\ n + Word = Word * p + s
    <3>1. n + Word \in Int
      BY <1>1
    <3> QED
      BY <1>1, <3>1, DivMod
  <2> HIDE DEF q, r, p, s
  <2>3. /\ Word * q \in Int /\ Word * p \in Int /\ q + 1 \in Int
        /\ Word * (q + 1) = Word * q + Word
    BY <1>1, <2>1, <2>2
  <2>4. Word * (q + 1) + r = Word * p + s
    BY <1>1, <2>1, <2>2, <2>3
  <2>5. r = s
    BY <1>1, <2>1, <2>2, <2>3, <2>4, OneRest
  <2> QED
    BY <2>5 DEF r, s
<1>3. n % Word \in 0..(Word - 1)
  BY <1>1, DivMod
<1> DEFINE r == n % Word
<1>4. /\ Aligned(n + Word) = IF r # 0 THEN (n + Word) + (Word - r) ELSE n + Word
      /\ Aligned(n) = IF r # 0 THEN n + (Word - r) ELSE n
      /\ r \in 0..(Word - 1)
  BY <1>2, <1>3 DEF Aligned
<1> HIDE DEF r
<1> QED
  BY <1>1, <1>4 DEF PREFIX_SIZE

LEMMA PaddedMonotone ==
    ASSUME NEW m \in Nat, NEW n \in Nat, m <= n
    PROVE  Aligned(m) <= Aligned(n)
<1>1. PICK a \in Int : Aligned(m) = Word * a
  BY PaddedValue
<1>2. PICK b \in Int : Aligned(n) = Word * b
  BY PaddedValue
<1>3. /\ Aligned(m) \in Nat /\ Aligned(n) \in Nat /\ Word \in Nat \ {0}
      /\ n <= Aligned(n) /\ Aligned(m) < m + Word
  BY PaddedValue, WordAssumption
<1>4. CASE a <= b
  <2>1. a = b \/ a < b
    BY <1>4
  <2>2. a < b => Word * a + Word <= Word * b
    BY <1>3, NoMultipleBetween
  <2> QED
    BY <1>1, <1>2, <1>3, <2>1, <2>2
<1>5. CASE b < a
  <2>1. Word * b + Word <= Word * a
    BY <1>3, <1>5, NoMultipleBetween
  <2> QED
    BY <1>1, <1>2, <1>3, <2>1
<1> QED
  BY <1>4, <1>5

\* The most that a block can count for.
Most == Aligned(CHOOSE n \in Sizes : \A m \in Sizes : m <= n) + PREFIX_SIZE

LEMMA MostValue ==
    /\ Most \in Nat
    /\ PREFIX_SIZE \in 0..Most
    /\ \A n \in Sizes : Aligned(n) + PREFIX_SIZE \in 0..Most
<1> DEFINE N == {Modulus - 1 - n : n \in Sizes}
<1>1. Modulus \in Nat \ {0} /\ Sizes \subseteq 0..(Modulus - 1) /\ Sizes # {}
  BY WordAssumption, SizesAssumption
<1>2. N \subseteq Nat /\ N # {}
  <2>1. \A n \in Sizes : n \in Int /\ n <= Modulus - 1
    BY <1>1
  <2>2. \A n \in Sizes : Modulus - 1 - n \in Nat
    BY <1>1, <2>1
  <2> QED
    BY <1>1, <2>2
<1>3. PICK x \in N : \A y \in N : x <= y
  BY <1>2, LeastNat
<1>4. PICK n \in Sizes : x = Modulus - 1 - n
  BY <1>3
<1>5. \A m \in Sizes : m <= n
  <2> SUFFICES ASSUME NEW m \in Sizes PROVE m <= n
    OBVIOUS
  <2>1. x <= Modulus - 1 - m
    BY <1>3
  <2> QED
    BY <1>1, <1>4, <2>1
<1> DEFINE k == CHOOSE i \in Sizes : \A m \in Sizes : m <= i
<1>6. k \in Sizes /\ \A m \in Sizes : m <= k
  BY <1>5
<1> HIDE DEF k
<1>7. Most = Aligned(k) + PREFIX_SIZE
  BY DEF Most, k
<1>8. PREFIX_SIZE \in Nat /\ k \in Nat /\ Aligned(k) \in Nat
  BY <1>1, <1>6, PaddedValue, WordAssumption DEF PREFIX_SIZE
<1>9. \A m \in Sizes : Aligned(m) \in Nat /\ Aligned(m) <= Aligned(k)
  BY <1>1, <1>6, PaddedValue, PaddedMonotone
<1> QED
  BY <1>7, <1>8, <1>9

-----------------------------------------------------------------------------
(* The invariant: what used_memory counts for every block.                 *)

\* What the updates of a call have still to add.
Left(s) == IF s = <<>> THEN 0 ELSE IF Len(s) = 1 THEN s[1] ELSE s[1] + s[2]

\* What will be counted for the block of a call when the call is through.
Due(t, b) == IF t \in freeing THEN 0 ELSE ZmallocSize(b)

\* c[b] is what used_memory counts for b: zmalloc_size for a block in use, and
\* what the updates to come leave of it for a block that a call works on.  The
\* first update of zrealloc leaves the prefix.
Counts(c) ==
    /\ used_memory = Sum(c, Blocks) % Modulus
    /\ \A b \in Unused : c[b] = IF b \in Allocated THEN ZmallocSize(b) ELSE 0
    /\ \A t \in Thread : \A b \in busy[t] :
        /\ b \in Allocated
        /\ c[b] + Left(todo[t]) = Due(t, b)
        /\ Len(todo[t]) = 2 => t \notin freeing /\ c[b] + todo[t][1] = PREFIX_SIZE

\* A call works on one block, and no block has two calls.
Calls ==
    /\ size \in [Blocks -> Sizes \cup {NotAllocated}]
    /\ \A t \in Thread :
        /\ Len(todo[t]) <= 2
        /\ IF NoCall(t) THEN busy[t] = {} ELSE \E b \in Blocks : busy[t] = {b}
    /\ \A t, u \in Thread : t # u => busy[t] \cap busy[u] = {}

\* Until thread safety is enabled only the first thread updates used_memory.
Alone ==
    /\ zmalloc_thread_safe => \A t \in Thread : loaded[t] = <<>>
    /\ ~zmalloc_thread_safe => \A t \in Thread \ {Main} : NoCall(t) /\ loaded[t] = <<>>
    /\ loaded[Main] # <<>> => loaded[Main] = <<used_memory>> /\ todo[Main] # <<>>

Counted == [Blocks -> 0..Most]

IInv == TypeOK /\ Calls /\ Alone /\ \E c \in Counted : Counts(c)

-----------------------------------------------------------------------------
LEMMA SumOfCounted ==
    ASSUME NEW c \in Counted
    PROVE  Sum(c, Blocks) \in Int
<1>1. \A b \in Blocks : c[b] \in Int
  BY MostValue DEF Counted
<1>2. Blocks \in SUBSET Blocks
  OBVIOUS
<1> QED
  BY <1>1, <1>2, SumInt, BlockAssumption

LEMMA SizesNat == \A n \in Sizes : n \in Nat
BY SizesAssumption, WordAssumption

LEMMA SizeValue ==
    ASSUME Calls, NEW b \in Allocated
    PROVE  /\ size[b] \in Sizes /\ size[b] \in Nat
           /\ Aligned(size[b]) \in Nat
           /\ ZmallocSize(b) \in 0..Most
           /\ ZmallocSize(b) = Aligned(size[b]) + PREFIX_SIZE
<1>1. size[b] \in Sizes
  BY DEF Calls, Allocated
<1>2. size[b] \in Nat
  BY <1>1, SizesNat
<1> QED
  BY <1>1, <1>2, MostValue, PaddedValue DEF ZmallocSize

LEMMA InitInv == ZmallocInit => IInv
<1> SUFFICES ASSUME ZmallocInit PROVE IInv
  OBVIOUS
<1> DEFINE c == [b \in Blocks |-> 0]
<1>1. Modulus \in Nat \ {0} /\ 0 \in SizeT /\ <<>> \in Seq(Int)
  BY WordAssumption DEF SizeT
<1>2. TypeOK
  BY <1>1 DEF ZmallocInit, TypeOK
<1>3. Calls
  BY DEF ZmallocInit, Calls, NoCall
<1>4. Alone
  BY ThreadAssumption DEF ZmallocInit, Alone, NoCall
<1>5. c \in Counted
  BY MostValue DEF Counted
<1>6. Sum(c, Blocks) = 0
  <2>1. {} \in SUBSET Blocks /\ (\A b \in Blocks : c[b] \in Int) /\ (\A b \in Blocks \ {} : c[b] = 0)
    OBVIOUS
  <2> HIDE DEF c
  <2>2. Sum(c, Blocks) = Sum(c, {})
    BY <2>1, SumNonzero, BlockAssumption
  <2> QED
    BY <2>2, SumEmpty
<1>7. used_memory = Sum(c, Blocks) % Modulus
  BY <1>1, <1>6 DEF ZmallocInit
<1>8. Counts(c)
  <2>1. \A b \in Unused : b \notin Allocated /\ c[b] = 0
    BY DEF ZmallocInit, Unused, Allocated
  <2>2. \A t \in Thread : busy[t] = {}
    BY DEF ZmallocInit
  <2> HIDE DEF c
  <2> QED
    BY <1>7, <2>1, <2>2 DEF Counts
<1> HIDE DEF c
<1> QED
  BY <1>2, <1>3, <1>4, <1>5, <1>8 DEF IInv

LEMMA SomeUpdates ==
    ASSUME NEW ns \in Seq(Int), Len(ns) = 1 \/ Len(ns) = 2
    PROVE  ns # <<>> /\ Len(ns) <= 2
<1>1. Len(<<>>) = 0
  OBVIOUS
<1>2. \A k : k = 1 \/ k = 2 => k # 0 /\ k <= 2
  OBVIOUS
<1>3. Len(ns) # 0 /\ Len(ns) <= 2
  BY <1>2, Zenon
<1> QED
  BY <1>1, <1>3, Zenon

\* A call begins: its updates will make of what is counted for its block what
\* is due.
LEMMA BeginsCall ==
    ASSUME IInv, ~StartsEarly, NEW t \in Thread, NEW b \in Blocks,
           NEW ns \in Seq(Int), (Len(ns) = 1 \/ Len(ns) = 2), Begin(t, b, ns),
           size' \in [Blocks -> Sizes \cup {NotAllocated}],
           size'[b] # NotAllocated,
           \A x \in Blocks \ {b} : size'[x] = size[x],
           freeing' \in {freeing, freeing \cup {t}},
           NEW c \in Counted, Counts(c),
           (c[b] + Left(ns) = Due(t, b))',
           Len(ns) = 2 => t \notin freeing' /\ c[b] + ns[1] = PREFIX_SIZE
    PROVE  IInv'
<1>0. /\ TypeOK /\ Calls /\ Alone /\ Runs(t) /\ NoCall(t) /\ b \in Unused
      /\ busy' = [busy EXCEPT ![t] = {b}] /\ todo' = [todo EXCEPT ![t] = ns]
      /\ used_memory' = used_memory /\ loaded' = loaded
      /\ zmalloc_thread_safe' = zmalloc_thread_safe
  BY DEF IInv, Begin
<1>1. /\ todo'[t] = ns /\ busy'[t] = {b} /\ ns # <<>>
      /\ \A u \in Thread \ {t} :
            /\ todo'[u] = todo[u] /\ busy'[u] = busy[u]
            /\ u \in freeing' <=> u \in freeing
            /\ NoCall(u)' <=> NoCall(u)
      /\ ~NoCall(t)'
  <2>1. busy \in [Thread -> SUBSET Blocks] /\ todo \in [Thread -> Seq(Int)]
    BY <1>0 DEF TypeOK
  <2>2. ns # <<>>
    BY SomeUpdates, Zenon
  <2> QED
    BY <1>0, <2>1, <2>2 DEF NoCall
<1>2. TypeOK'
  <2>1. Sizes \cup {NotAllocated} \subseteq Nat \cup {NotAllocated}
    BY SizesNat
  <2>2. size' \in [Blocks -> Nat \cup {NotAllocated}]
    BY <2>1
  <2> QED
    BY <1>0, <2>2 DEF TypeOK
<1>3. Calls'
  <2>1. \A u \in Thread : Len(todo'[u]) <= 2
    <3>1. \A u \in Thread \ {t} : Len(todo'[u]) <= 2
      BY <1>0, <1>1 DEF Calls
    <3>2. Len(ns) <= 2
      BY SomeUpdates, Zenon
    <3>3. Len(todo'[t]) <= 2
      BY <1>1, <3>2, Zenon
    <3> QED
      BY <3>1, <3>3
  <2>2. \A u \in Thread :
            IF NoCall(u)' THEN busy'[u] = {} ELSE \E x \in Blocks : busy'[u] = {x}
    BY <1>0, <1>1 DEF Calls
  <2>3. \A u \in Thread : b \notin busy[u]
    BY <1>0 DEF Unused
  <2>4. \A u, v \in Thread : u # v => busy'[u] \cap busy'[v] = {}
    <3> SUFFICES ASSUME NEW u \in Thread, NEW v \in Thread, u # v
                 PROVE  busy'[u] \cap busy'[v] = {}
      OBVIOUS
    <3>1. busy[u] \cap busy[v] = {}
      BY <1>0 DEF Calls
    <3> QED
      BY <1>1, <2>3, <3>1
  <2> QED
    BY <2>1, <2>2, <2>4 DEF Calls
<1>4. Alone'
  BY <1>0, <1>1 DEF Alone, Runs, NoCall
<1>5. Counts(c)'
  <2>1. used_memory' = Sum(c, Blocks) % Modulus
    BY <1>0 DEF Counts
  <2>2. \A x \in Blocks \ {b} : /\ x \in Allocated' <=> x \in Allocated
                              /\ ZmallocSize(x)' = ZmallocSize(x)
    BY DEF Allocated, ZmallocSize
  <2>3. b \in Allocated'
    BY DEF Allocated
  <2>4. ASSUME NEW x \in Unused'
        PROVE  c[x] = IF x \in Allocated' THEN ZmallocSize(x)' ELSE 0
    <3>1. x \in Blocks /\ x # b
      BY <1>1, <2>4 DEF Unused
    <3>2. busy[t] = {}
      BY <1>0 DEF Calls
    <3>3. x \in Unused
      BY <1>1, <2>4, <3>1, <3>2 DEF Unused
    <3>4. c[x] = IF x \in Allocated THEN ZmallocSize(x) ELSE 0
      BY <3>3 DEF Counts
    <3> QED
      BY <2>2, <3>1, <3>4
  <2>5. ASSUME NEW u \in Thread \ {t}, NEW x \in busy'[u]
        PROVE  /\ x \in Allocated'
               /\ c[x] + Left(todo'[u]) = Due(u, x)'
               /\ Len(todo'[u]) = 2 => u \notin freeing' /\ c[x] + todo'[u][1] = PREFIX_SIZE
    <3>1. x \in busy[u] /\ x \in Blocks
      BY <1>0, <1>1, <2>5 DEF TypeOK
    <3>2. x # b
      BY <1>0, <3>1 DEF Unused
    <3>3. /\ x \in Allocated
          /\ c[x] + Left(todo[u]) = Due(u, x)
          /\ Len(todo[u]) = 2 => u \notin freeing /\ c[x] + todo[u][1] = PREFIX_SIZE
      BY <3>1 DEF Counts
    <3>4. Due(u, x)' = Due(u, x)
      BY <1>1, <2>2, <3>1, <3>2 DEF Due
    <3> QED
      BY <1>1, <2>2, <3>1, <3>2, <3>3, <3>4
  <2>6. c[b] + Left(todo'[t]) = Due(t, b)'
    BY <1>1
  <2>7. Len(todo'[t]) = 2 => t \notin freeing' /\ c[b] + todo'[t][1] = PREFIX_SIZE
    BY <1>1
  <2>8. \A u \in Thread : \A x \in busy'[u] :
            /\ x \in Allocated'
            /\ c[x] + Left(todo'[u]) = Due(u, x)'
            /\ Len(todo'[u]) = 2 => u \notin freeing' /\ c[x] + todo'[u][1] = PREFIX_SIZE
    BY <1>1, <2>3, <2>5, <2>6, <2>7
  <2> QED
    BY <2>1, <2>4, <2>8 DEF Counts
<1> QED
  BY <1>2, <1>3, <1>4, <1>5 DEF IInv

LEMMA ZmallocKeeps ==
    ASSUME IInv, ~StartsEarly, NEW t \in Thread, NEW b \in Blocks, NEW n \in Sizes,
           Zmalloc(t, b, n)
    PROVE  IInv'
<1>1. PICK c \in Counted : Counts(c)
  BY DEF IInv
<1>2. /\ Calls /\ b \notin Allocated /\ Begin(t, b, OfMalloc(n))
      /\ size' = [size EXCEPT ![b] = n] /\ freeing' = freeing /\ b \in Unused /\ NoCall(t)
  BY DEF IInv, Zmalloc, Begin
<1>3. n \in Nat /\ n # NotAllocated
  BY SizesAssumption, WordAssumption DEF NotAllocated
<1>4. /\ size' \in [Blocks -> Sizes \cup {NotAllocated}] /\ size'[b] = n
      /\ \A x \in Blocks \ {b} : size'[x] = size[x]
  BY <1>2 DEF Calls
<1>5. c[b] = 0 /\ t \notin freeing'
  BY <1>1, <1>2 DEF Counts, NoCall
<1> DEFINE p == Aligned(n + PREFIX_SIZE)
<1>6. p = Aligned(n) + PREFIX_SIZE /\ p \in Int
  BY <1>3, PaddedPrefix, MostValue
<1>7. Due(t, b)' = p
  BY <1>4, <1>5, <1>6 DEF Due, ZmallocSize
<1>8. OfMalloc(n) = <<p>>
  BY DEF OfMalloc
<1> HIDE DEF p
<1> DEFINE ns == <<p>>
<1>9. ns \in Seq(Int) /\ Len(ns) = 1 /\ Left(ns) = p
  BY <1>6 DEF Left
<1>10. c[b] + Left(ns) = Due(t, b)' /\ Begin(t, b, ns)
  BY <1>2, <1>5, <1>6, <1>7, <1>8, <1>9
<1> HIDE DEF ns
<1>11. size'[b] # NotAllocated /\ (Len(ns) = 1 \/ Len(ns) = 2) /\ (Len(ns) = 2 => FALSE)
       /\ freeing' \in {freeing, freeing \cup {t}}
  BY <1>2, <1>3, <1>4, <1>9
<1> QED
  BY <1>1, <1>4, <1>9, <1>10, <1>11, BeginsCall

LEMMA ZreallocKeeps ==
    ASSUME IInv, ~StartsEarly, NEW t \in Thread, NEW b \in Blocks, NEW n \in Sizes,
           Zrealloc(t, b, n)
    PROVE  IInv'
<1>1. PICK c \in Counted : Counts(c)
  BY DEF IInv
<1>2. /\ Calls /\ b \in Allocated /\ Begin(t, b, OfRealloc(size[b], n))
      /\ size' = [size EXCEPT ![b] = n] /\ freeing' = freeing /\ b \in Unused /\ NoCall(t)
  BY DEF IInv, Zrealloc, Begin
<1>3. n \in Nat /\ n # NotAllocated
  BY SizesAssumption, WordAssumption DEF NotAllocated
<1>4. /\ size' \in [Blocks -> Sizes \cup {NotAllocated}] /\ size'[b] = n
      /\ \A x \in Blocks \ {b} : size'[x] = size[x]
  BY <1>2 DEF Calls
<1> DEFINE o == Aligned(size[b])
<1> DEFINE p == Aligned(n)
<1>5. c[b] = o + PREFIX_SIZE /\ t \notin freeing'
  BY <1>1, <1>2, SizeValue DEF Counts, NoCall
<1>6. p \in Int /\ o \in Int /\ PREFIX_SIZE \in Int
  BY <1>2, <1>3, PaddedValue, SizeValue, MostValue
<1>7. Due(t, b)' = p + PREFIX_SIZE
  BY <1>4, <1>5 DEF Due, ZmallocSize
<1>8. OfRealloc(size[b], n) = <<-o, p>>
  BY DEF OfRealloc
<1> HIDE DEF p, o
<1> DEFINE ns == <<-o, p>>
<1>9. ns \in Seq(Int) /\ Len(ns) = 2 /\ Left(ns) = -o + p /\ ns[1] = -o
  <2>1. -o \in Int
    BY <1>6
  <2> QED
    BY <1>6, <2>1 DEF Left
<1>10. c[b] + Left(ns) = Due(t, b)' /\ Begin(t, b, ns) /\ c[b] + ns[1] = PREFIX_SIZE
  BY <1>2, <1>5, <1>6, <1>7, <1>8, <1>9
<1> HIDE DEF ns
<1>11. size'[b] # NotAllocated /\ (Len(ns) = 1 \/ Len(ns) = 2)
       /\ freeing' \in {freeing, freeing \cup {t}}
  BY <1>2, <1>3, <1>4, <1>9
<1> QED
  BY <1>1, <1>4, <1>5, <1>9, <1>10, <1>11, BeginsCall

LEMMA ZfreeKeeps ==
    ASSUME IInv, ~StartsEarly, NEW t \in Thread, NEW b \in Blocks, Zfree(t, b)
    PROVE  IInv'
<1>1. PICK c \in Counted : Counts(c)
  BY DEF IInv
<1>2. /\ Calls /\ b \in Allocated /\ Begin(t, b, OfFree(size[b]))
      /\ size' = size /\ freeing' = freeing \cup {t} /\ b \in Unused
  BY DEF IInv, Zfree, Begin
<1>4. /\ size' \in [Blocks -> Sizes \cup {NotAllocated}] /\ size'[b] # NotAllocated
      /\ \A x \in Blocks \ {b} : size'[x] = size[x]
  BY <1>2 DEF Calls, Allocated
<1> DEFINE o == Aligned(size[b] + PREFIX_SIZE)
<1>5. c[b] = o /\ t \in freeing'
  BY <1>1, <1>2, SizeValue, PaddedPrefix DEF Counts
<1>6. o \in Int
  BY <1>2, SizeValue, PaddedPrefix, MostValue
<1>7. Due(t, b)' = 0
  BY <1>5 DEF Due
<1>8. OfFree(size[b]) = <<-o>>
  BY DEF OfFree
<1> HIDE DEF o
<1> DEFINE ns == <<-o>>
<1>9. ns \in Seq(Int) /\ Len(ns) = 1 /\ Left(ns) = -o
  <2>1. -o \in Int
    BY <1>6
  <2> QED
    BY <2>1 DEF Left
<1>10. c[b] + Left(ns) = Due(t, b)' /\ Begin(t, b, ns)
  BY <1>2, <1>5, <1>6, <1>7, <1>8, <1>9
<1> HIDE DEF ns
<1>11. (Len(ns) = 1 \/ Len(ns) = 2) /\ (Len(ns) = 2 => FALSE)
       /\ freeing' \in {freeing, freeing \cup {t}}
  BY <1>2, <1>9
<1> QED
  BY <1>1, <1>4, <1>9, <1>10, <1>11, BeginsCall

\* What the first update leaves of the updates of a call.
LEMMA FirstUpdate ==
    ASSUME NEW s \in Seq(Int), s # <<>>, Len(s) <= 2
    PROVE  /\ Head(s) \in Int /\ Tail(s) \in Seq(Int)
           /\ Left(s) \in Int /\ Left(Tail(s)) \in Int
           /\ Left(s) = Head(s) + Left(Tail(s))
           /\ Len(s) = 1 \/ Len(s) = 2
           /\ Len(s) = 1 => Tail(s) = <<>> /\ Left(s) = Head(s)
           /\ Len(s) = 2 => Tail(s) # <<>> /\ Head(s) = s[1]
           /\ Len(Tail(s)) <= 2 /\ Len(Tail(s)) # 2
<1> DEFINE k == Len(s)
<1>1. k \in Nat
  OBVIOUS
<1>2. k # 0
  OBVIOUS
<1>3. k <= 2
  OBVIOUS
<1> HIDE DEF k
<1>4. k = 1 \/ k = 2
  BY <1>1, <1>2, <1>3
<1>5. CASE k = 1
  <2>1. PICK a \in Int : s = <<a>>
    BY <1>5 DEF k
  <2>2. Head(s) = a /\ Tail(s) = <<>> /\ Len(s) = 1 /\ s[1] = a /\ Len(<<>>) = 0
    BY <2>1
  <2> QED
    BY <2>1, <2>2, <1>5 DEF Left
<1>6. CASE k = 2
  <2>1. Len(s) = 2
    BY <1>6 DEF k
  <2>2. s[1] \in Int /\ s[2] \in Int /\ Head(s) = s[1]
    BY <2>1
  <2>3. Tail(s) \in Seq(Int) /\ Len(Tail(s)) = 1 /\ Tail(s)[1] = s[2]
    BY <2>1, SMTT(60)
  <2>n. \A n : n = 1 => n # 0 /\ n # 2 /\ n <= 2
    OBVIOUS
  <2>l. Len(Tail(s)) # 0 /\ Len(Tail(s)) # 2 /\ Len(Tail(s)) <= 2 /\ Len(<<>>) = 0
    <3>1. Len(<<>>) = 0
      OBVIOUS
    <3> QED
      BY <2>n, <2>3, <3>1, Zenon
  <2>4. Tail(s) # <<>>
    BY <2>l, Zenon
  <2>5. Left(Tail(s)) = s[2]
    BY <2>3, <2>4 DEF Left
  <2>6. Left(s) = s[1] + s[2]
    BY <2>1 DEF Left
  <2>7. /\ Head(s) \in Int /\ Left(s) \in Int /\ Left(Tail(s)) \in Int
        /\ Left(s) = Head(s) + Left(Tail(s))
    BY <2>2, <2>5, <2>6
  <2>8. Len(s) # 1
    BY <2>1
  <2> QED
    BY <2>1, <2>2, <2>3, <2>4, <2>l, <2>7, <2>8, Zenon
<1> QED
  BY <1>4, <1>5, <1>6

\* An update: what is counted for the block of the call changes as much as
\* used_memory, and is nowhere below zero or above what the block can count for.
LEMMA UpdateCounts ==
    ASSUME IInv, NEW t \in Thread, todo[t] # <<>>, Updated(t),
           used_memory' = (used_memory + Head(todo[t])) % Modulus,
           size' = size, freeing' = freeing
    PROVE  /\ used_memory' \in SizeT
           /\ todo' \in [Thread -> Seq(Int)] /\ busy' \in [Thread -> SUBSET Blocks]
           /\ Calls'
           /\ \E c \in Counted : Counts(c)'
<1>0. TypeOK /\ Calls /\ ~NoCall(t) /\ PREFIX_SIZE \in 0..Most /\ Most \in Nat
  BY MostValue DEF IInv, NoCall
<1>1. PICK c \in Counted : Counts(c)
  BY DEF IInv
<1>2. PICK b \in Blocks : busy[t] = {b}
  BY <1>0 DEF Calls
<1> DEFINE s == todo[t]
<1> DEFINE h == Head(s)
<1>3. s \in Seq(Int) /\ s # <<>> /\ Len(s) <= 2
  BY <1>0 DEF TypeOK, Calls
<1>4. /\ todo' = [todo EXCEPT ![t] = Tail(s)]
      /\ busy' = IF t \notin freeing /\ Len(s) = 1 THEN [busy EXCEPT ![t] = {}] ELSE busy
      /\ used_memory' = (used_memory + h) % Modulus
  BY DEF Updated
<1> HIDE DEF s
<1>5. /\ h \in Int /\ Tail(s) \in Seq(Int)
      /\ Left(s) \in Int /\ Left(Tail(s)) \in Int
      /\ Left(s) = h + Left(Tail(s))
      /\ Len(s) = 1 \/ Len(s) = 2
      /\ Len(s) = 1 => Tail(s) = <<>> /\ Left(s) = h
      /\ Len(s) = 2 => Tail(s) # <<>> /\ h = s[1]
      /\ Len(Tail(s)) <= 2 /\ Len(Tail(s)) # 2
  BY <1>3, FirstUpdate
<1> HIDE DEF h
<1>6. /\ b \in Allocated
      /\ c[b] + Left(s) = Due(t, b)
      /\ Len(s) = 2 => t \notin freeing /\ c[b] + s[1] = PREFIX_SIZE
  BY <1>1, <1>2 DEF Counts, s
<1>7. Due(t, b) \in 0..Most /\ c[b] \in 0..Most
  BY <1>0, <1>1, <1>6, SizeValue DEF Due, Counted
<1>8. c[b] + h \in 0..Most
  <2>1. CASE Len(s) = 1
    BY <1>5, <1>6, <1>7, <2>1
  <2>2. CASE Len(s) = 2
    BY <1>0, <1>5, <1>6, <2>2
  <2> QED
    BY <1>5, <2>1, <2>2
<1>9. PICK d \in Counted : d[b] = c[b] + h /\ \A x \in Blocks \ {b} : d[x] = c[x]
  <2>1. [c EXCEPT ![b] = c[b] + h] \in Counted
    BY <1>1, <1>8 DEF Counted
  <2>2. /\ [c EXCEPT ![b] = c[b] + h][b] = c[b] + h
        /\ \A x \in Blocks \ {b} : [c EXCEPT ![b] = c[b] + h][x] = c[x]
    BY <1>1 DEF Counted
  <2> QED
    BY <2>1, <2>2
<1>10. used_memory' = Sum(d, Blocks) % Modulus
  <2>1. \A x \in Blocks : c[x] \in Int /\ d[x] \in Int
    BY <1>0, <1>1, <1>9 DEF Counted
  <2>2. Sum(d, Blocks) = Sum(c, Blocks) + (d[b] - c[b])
    <3>1. \A x \in Blocks \ {b} : c[x] = d[x]
      BY <1>9
    <3>2. IsFiniteSet(Blocks)
      BY BlockAssumption
    <3> QED
      BY <2>1, <3>1, <3>2, SumChange
  <2>3. d[b] - c[b] = h
    BY <1>5, <1>7, <1>9
  <2>4. used_memory = Sum(c, Blocks) % Modulus
    BY <1>1 DEF Counts
  <2> DEFINE m == Sum(c, Blocks)
  <2>5. m \in Int
    BY <1>1, SumOfCounted
  <2>6. Sum(d, Blocks) = m + h
    BY <2>2, <2>3
  <2>7. used_memory' = ((m % Modulus) + h) % Modulus
    BY <1>4, <2>4
  <2> HIDE DEF m
  <2>8. ((m % Modulus) + h) % Modulus = (m + h) % Modulus
    BY <1>5, <2>5, ModPlus, WordAssumption
  <2> QED
    BY <2>6, <2>7, <2>8
<1>11. used_memory' \in SizeT
  <2>1. Sum(d, Blocks) \in Int
    BY <1>9, SumOfCounted
  <2> QED
    BY <1>10, <2>1, DivMod, WordAssumption DEF SizeT
<1>12. \A u \in Thread \ {t} : todo'[u] = todo[u] /\ busy'[u] = busy[u]
  BY <1>0, <1>4 DEF TypeOK
<1>16. \A u \in Thread \ {t} : NoCall(u)' <=> NoCall(u)
  BY <1>12 DEF NoCall
<1>17. \A u \in Thread \ {t} : b \notin busy[u]
  BY <1>0, <1>2 DEF Calls
<1>18. todo'[t] = Tail(s) /\ busy'[t] = IF t \notin freeing /\ Len(s) = 1 THEN {} ELSE {b}
  BY <1>0, <1>2, <1>4 DEF TypeOK
<1>19. NoCall(t)' <=> t \notin freeing /\ Len(s) = 1
  <2>1. Tail(s) = <<>> <=> Len(s) = 1
    <3>1. CASE Len(s) = 1
      BY <1>5, <3>1
    <3>2. CASE Len(s) = 2
      BY <1>5, <3>2
    <3> QED
      BY <1>5, <3>1, <3>2
  <2> QED
    BY <1>18, <2>1 DEF NoCall
<1>13. todo' \in [Thread -> Seq(Int)] /\ busy' \in [Thread -> SUBSET Blocks]
  BY <1>0, <1>4, <1>5 DEF TypeOK
<1>14. Calls'
  <2>1. \A u \in Thread : Len(todo'[u]) <= 2
    <3>1. \A u \in Thread \ {t} : Len(todo'[u]) <= 2
      BY <1>0, <1>12 DEF Calls
    <3>2. Len(todo'[t]) <= 2
      BY <1>5, <1>18
    <3> QED
      BY <3>1, <3>2
  <2>2. ASSUME NEW u \in Thread
        PROVE  IF NoCall(u)' THEN busy'[u] = {} ELSE \E x \in Blocks : busy'[u] = {x}
    <3>1. CASE u = t
      BY <1>18, <1>19, <3>1
    <3>2. CASE u # t
      <4>1. IF NoCall(u) THEN busy[u] = {} ELSE \E x \in Blocks : busy[u] = {x}
        BY <1>0 DEF Calls
      <4>2. busy'[u] = busy[u] /\ (NoCall(u)' <=> NoCall(u))
        BY <1>12, <1>16, <3>2
      <4> QED
        BY <4>1, <4>2
    <3> QED
      BY <3>1, <3>2
  <2>3. ASSUME NEW u \in Thread, NEW v \in Thread, u # v
        PROVE  busy'[u] \cap busy'[v] = {}
    <3>1. \A w \in Thread : busy'[w] \subseteq busy[w]
      BY <1>2, <1>12, <1>18
    <3>2. busy[u] \cap busy[v] = {}
      BY <1>0, <2>3 DEF Calls
    <3> QED
      BY <3>1, <3>2
  <2>4. size' \in [Blocks -> Sizes \cup {NotAllocated}]
    BY <1>0 DEF Calls
  <2> QED
    BY <2>1, <2>2, <2>3, <2>4 DEF Calls
<1>15. Counts(d)'
  <2>1. \A x \in Blocks : /\ x \in Allocated' <=> x \in Allocated
                        /\ ZmallocSize(x)' = ZmallocSize(x)
    BY DEF Allocated, ZmallocSize
  <2>2. \A u \in Thread : \A x \in Blocks : Due(u, x)' = Due(u, x)
    BY <2>1 DEF Due
  <2>3. ASSUME NEW x \in Unused'
        PROVE  d[x] = IF x \in Allocated' THEN ZmallocSize(x)' ELSE 0
    <3>1. x \in Blocks /\ \A u \in Thread : x \notin busy'[u]
      BY <2>3 DEF Unused
    <3>2. CASE x = b
      <4>1. t \notin freeing /\ Len(s) = 1
        BY <1>18, <3>1, <3>2
      <4>2. d[b] = ZmallocSize(b)
        BY <1>5, <1>6, <1>9, <4>1 DEF Due
      <4> QED
        BY <1>6, <2>1, <3>2, <4>2
    <3>3. CASE x # b
      <4>1. x \in Unused
        <5>1. ASSUME NEW u \in Thread PROVE x \notin busy[u]
          <6>1. CASE u = t
            BY <1>2, <3>3, <6>1
          <6>2. CASE u # t
            BY <1>12, <3>1, <6>2
          <6> QED
            BY <6>1, <6>2
        <5> QED
          BY <3>1, <5>1 DEF Unused
      <4>2. c[x] = IF x \in Allocated THEN ZmallocSize(x) ELSE 0
        BY <1>1, <4>1 DEF Counts
      <4> QED
        BY <1>9, <2>1, <3>1, <3>3, <4>2
    <3> QED
      BY <3>2, <3>3
  <2>4. ASSUME NEW u \in Thread, NEW x \in busy'[u]
        PROVE  /\ x \in Allocated'
               /\ d[x] + Left(todo'[u]) = Due(u, x)'
               /\ Len(todo'[u]) = 2 => u \notin freeing' /\ d[x] + todo'[u][1] = PREFIX_SIZE
    <3>1. CASE u = t
      <4>1. x = b /\ todo'[u] = Tail(s)
        BY <1>18, <2>4, <3>1
      <4>2. (c[b] + h) + Left(Tail(s)) = Due(t, b)
        BY <1>5, <1>6, <1>7
      <4> QED
        BY <1>5, <1>6, <1>9, <2>1, <2>2, <3>1, <4>1, <4>2
    <3>2. CASE u # t
      <4>1. x \in busy[u] /\ x # b /\ x \in Blocks /\ todo'[u] = todo[u]
        <5>1. u \in Thread \ {t}
          BY <3>2
        <5>2. busy'[u] = busy[u] /\ todo'[u] = todo[u] /\ b \notin busy[u]
          BY <1>12, <1>17, <5>1
        <5>3. busy[u] \subseteq Blocks
          BY <1>0 DEF TypeOK
        <5> QED
          BY <2>4, <5>2, <5>3
      <4>2. /\ x \in Allocated
            /\ c[x] + Left(todo[u]) = Due(u, x)
            /\ Len(todo[u]) = 2 => u \notin freeing /\ c[x] + todo[u][1] = PREFIX_SIZE
        BY <1>1, <4>1 DEF Counts
      <4>3. d[x] = c[x] /\ Due(u, x)' = Due(u, x)
        BY <1>9, <2>2, <4>1
      <4> QED
        BY <2>1, <4>1, <4>2, <4>3
    <3> QED
      BY <3>1, <3>2
  <2>5. (used_memory = Sum(d, Blocks) % Modulus)'
    BY <1>10
  <2> QED
    BY <2>3, <2>4, <2>5 DEF Counts
<1>20. \E e \in Counted : Counts(e)'
  BY <1>9, <1>15
<1> QED
  BY <1>11, <1>13, <1>14, <1>20

LEMMA UpdateKeeps ==
    ASSUME IInv, NEW t \in Thread, Update(t)
    PROVE  IInv'
<1>1. /\ todo[t] # <<>> /\ zmalloc_thread_safe /\ Updated(t)
      /\ used_memory' = (used_memory + Head(todo[t])) % Modulus
      /\ size' = size /\ freeing' = freeing /\ loaded' = loaded
      /\ zmalloc_thread_safe' = zmalloc_thread_safe
  BY DEF Update
<1>2. /\ used_memory' \in SizeT
      /\ todo' \in [Thread -> Seq(Int)] /\ busy' \in [Thread -> SUBSET Blocks]
      /\ Calls' /\ \E c \in Counted : Counts(c)'
  BY <1>1, UpdateCounts
<1>3. TypeOK'
  BY <1>1, <1>2 DEF IInv, TypeOK
<1>4. Alone'
  BY <1>1, ThreadAssumption DEF IInv, Alone
<1> QED
  BY <1>2, <1>3, <1>4 DEF IInv

\* The thread that stores has not been overtaken since it loaded.
LEMMA StoreKeeps ==
    ASSUME IInv, NEW t \in Thread, Store(t)
    PROVE  IInv'
<1>0. TypeOK /\ Alone /\ loaded[t] # <<>>
  BY DEF IInv, Store
<1>1. /\ ~zmalloc_thread_safe /\ t = Main
      /\ loaded[t] = <<used_memory>> /\ todo[t] # <<>>
  BY <1>0 DEF Alone
<1>2. /\ Updated(t) /\ size' = size /\ freeing' = freeing
      /\ used_memory' = (Head(loaded[t]) + Head(todo[t])) % Modulus
      /\ loaded' = [loaded EXCEPT ![t] = <<>>]
      /\ zmalloc_thread_safe' = zmalloc_thread_safe
  BY DEF Store
<1>3. Head(loaded[t]) = used_memory
  BY <1>1
<1>4. /\ used_memory' \in SizeT
      /\ todo' \in [Thread -> Seq(Int)] /\ busy' \in [Thread -> SUBSET Blocks]
      /\ Calls' /\ \E c \in Counted : Counts(c)'
  BY <1>1, <1>2, <1>3, UpdateCounts
<1>5. loaded' \in [Thread -> {<<>>} \cup {<<n>> : n \in SizeT}] /\ loaded'[t] = <<>>
      /\ \A u \in Thread \ {t} : loaded'[u] = loaded[u]
  BY <1>0, <1>2 DEF TypeOK
<1>6. TypeOK'
  BY <1>0, <1>2, <1>4, <1>5 DEF TypeOK
<1>7. \A u \in Thread \ {t} : NoCall(u)'
  <2>1. \A u \in Thread \ {t} : NoCall(u) /\ todo'[u] = todo[u]
    BY <1>0, <1>1, <1>2 DEF Alone, Updated, TypeOK
  <2> QED
    BY <1>2, <2>1 DEF NoCall
<1>8. Alone'
  BY <1>0, <1>1, <1>2, <1>5, <1>7 DEF Alone
<1> QED
  BY <1>4, <1>6, <1>8 DEF IInv

LEMMA LoadKeeps ==
    ASSUME IInv, NEW t \in Thread, Load(t)
    PROVE  IInv'
<1>0. /\ TypeOK /\ Calls /\ Alone /\ ~zmalloc_thread_safe /\ todo[t] # <<>>
      /\ loaded' = [loaded EXCEPT ![t] = <<used_memory>>]
      /\ UNCHANGED <<size, used_memory, zmalloc_thread_safe, todo, busy, freeing>>
  BY DEF IInv, Load
<1>1. PICK c \in Counted : Counts(c)
  BY DEF IInv
<1>2. t = Main
  BY <1>0 DEF Alone, NoCall
<1>3. TypeOK'
  BY <1>0 DEF TypeOK
<1>4. Calls'
  BY <1>0 DEF Calls, NoCall
<1>5. Alone'
  <2>1. /\ loaded'[Main] = <<used_memory>>
        /\ \A u \in Thread \ {Main} : loaded'[u] = loaded[u]
    BY <1>0, <1>2 DEF TypeOK
  <2>2. \A u \in Thread : NoCall(u)' <=> NoCall(u)
    BY <1>0 DEF NoCall
  <2> QED
    BY <1>0, <1>2, <2>1, <2>2 DEF Alone
<1>6. Counts(c)'
  BY <1>0, <1>1 DEF Counts, Unused, Allocated, Due, ZmallocSize
<1> QED
  BY <1>3, <1>4, <1>5, <1>6 DEF IInv

LEMMA FreeKeeps ==
    ASSUME IInv, NEW t \in Thread, Free(t)
    PROVE  IInv'
<1>0. /\ TypeOK /\ Calls /\ Alone /\ t \in freeing /\ todo[t] = <<>> /\ ~NoCall(t)
      /\ size' = [x \in Blocks |-> IF x \in busy[t] THEN NotAllocated ELSE size[x]]
      /\ freeing' = freeing \ {t}
      /\ busy' = [busy EXCEPT ![t] = {}]
      /\ UNCHANGED <<used_memory, zmalloc_thread_safe, todo, loaded>>
  BY DEF IInv, Free, NoCall
<1>1. PICK c \in Counted : Counts(c)
  BY DEF IInv
<1>2. PICK b \in Blocks : busy[t] = {b}
  BY <1>0 DEF Calls
<1>3. c[b] = 0
  <2>1. c[b] + Left(todo[t]) = Due(t, b)
    BY <1>1, <1>2 DEF Counts
  <2>2. c[b] + 0 = 0
    BY <1>0, <2>1 DEF Left, Due
  <2>3. c[b] \in Int
    BY <1>1, MostValue DEF Counted
  <2> QED
    BY <2>2, <2>3
<1>4. /\ busy'[t] = {} /\ NoCall(t)'
      /\ \A u \in Thread \ {t} : busy'[u] = busy[u] /\ b \notin busy[u]
                                /\ (u \in freeing' <=> u \in freeing)
  <2>1. \A u \in Thread \ {t} : b \notin busy[u]
    BY <1>0, <1>2 DEF Calls
  <2> QED
    BY <1>0, <2>1 DEF TypeOK, NoCall
<1>5. \A u \in Thread \ {t} : NoCall(u)' <=> NoCall(u)
  BY <1>0, <1>4 DEF NoCall
<1>6. size'[b] = NotAllocated /\ \A x \in Blocks \ {b} : size'[x] = size[x]
  BY <1>0, <1>2
<1>7. TypeOK'
  BY <1>0 DEF TypeOK
<1>8. Calls'
  <2>1. \A u \in Thread : Len(todo'[u]) <= 2
    BY <1>0 DEF Calls
  <2>2. ASSUME NEW u \in Thread
        PROVE  IF NoCall(u)' THEN busy'[u] = {} ELSE \E x \in Blocks : busy'[u] = {x}
    <3>1. CASE u = t
      BY <1>4, <3>1
    <3>2. CASE u # t
      <4>1. IF NoCall(u) THEN busy[u] = {} ELSE \E x \in Blocks : busy[u] = {x}
        BY <1>0 DEF Calls
      <4>2. busy'[u] = busy[u] /\ (NoCall(u)' <=> NoCall(u))
        BY <1>4, <1>5, <3>2
      <4> QED
        BY <4>1, <4>2
    <3> QED
      BY <3>1, <3>2
  <2>3. ASSUME NEW u \in Thread, NEW v \in Thread, u # v
        PROVE  busy'[u] \cap busy'[v] = {}
    <3>1. \A w \in Thread : busy'[w] \subseteq busy[w]
      BY <1>4
    <3>2. busy[u] \cap busy[v] = {}
      BY <1>0, <2>3 DEF Calls
    <3> QED
      BY <3>1, <3>2
  <2>4. size' \in [Blocks -> Sizes \cup {NotAllocated}]
    BY <1>0 DEF Calls
  <2> QED
    BY <2>1, <2>2, <2>3, <2>4 DEF Calls
<1>9. Alone'
  <2>1. \A u \in Thread : NoCall(u) => NoCall(u)'
    BY <1>4, <1>5
  <2> QED
    BY <1>0, <2>1 DEF Alone
<1>10. Counts(c)'
  <2>1. \A x \in Blocks \ {b} : /\ x \in Allocated' <=> x \in Allocated
                              /\ ZmallocSize(x)' = ZmallocSize(x)
    BY <1>6 DEF Allocated, ZmallocSize
  <2>2. b \notin Allocated'
    BY <1>6 DEF Allocated
  <2>3. ASSUME NEW x \in Unused'
        PROVE  c[x] = IF x \in Allocated' THEN ZmallocSize(x)' ELSE 0
    <3>1. x \in Blocks /\ \A u \in Thread : x \notin busy'[u]
      BY <2>3 DEF Unused
    <3>2. CASE x = b
      BY <1>3, <2>2, <3>2
    <3>3. CASE x # b
      <4>1. \A u \in Thread : x \notin busy[u]
        BY <1>2, <1>4, <3>1, <3>3
      <4>2. x \in Unused
        BY <3>1, <4>1 DEF Unused
      <4>3. c[x] = IF x \in Allocated THEN ZmallocSize(x) ELSE 0
        BY <1>1, <4>2 DEF Counts
      <4> QED
        BY <2>1, <3>1, <3>3, <4>3
    <3> QED
      BY <3>2, <3>3
  <2>4. ASSUME NEW u \in Thread, NEW x \in busy'[u]
        PROVE  /\ x \in Allocated'
               /\ c[x] + Left(todo'[u]) = Due(u, x)'
               /\ Len(todo'[u]) = 2 => u \notin freeing' /\ c[x] + todo'[u][1] = PREFIX_SIZE
    <3>1. u \in Thread \ {t}
      BY <1>4, <2>4
    <3>2. x \in busy[u] /\ x # b /\ (u \in freeing' <=> u \in freeing) /\ todo'[u] = todo[u]
      BY <1>0, <1>4, <2>4, <3>1
    <3>3. x \in Blocks
      BY <1>0, <3>2 DEF TypeOK
    <3>4. /\ x \in Allocated
          /\ c[x] + Left(todo[u]) = Due(u, x)
          /\ Len(todo[u]) = 2 => u \notin freeing /\ c[x] + todo[u][1] = PREFIX_SIZE
      BY <1>1, <3>2 DEF Counts
    <3>5. Due(u, x)' = Due(u, x)
      BY <2>1, <3>2, <3>3 DEF Due
    <3> QED
      BY <2>1, <3>2, <3>3, <3>4, <3>5
  <2>5. (used_memory = Sum(c, Blocks) % Modulus)'
    BY <1>0, <1>1 DEF Counts
  <2> QED
    BY <2>3, <2>4, <2>5 DEF Counts
<1> QED
  BY <1>7, <1>8, <1>9, <1>10 DEF IInv

LEMMA EnableKeeps ==
    ASSUME IInv, EnableThreadSafeness
    PROVE  IInv'
<1>0. /\ TypeOK /\ Calls /\ Alone /\ ~zmalloc_thread_safe /\ NoCall(Main)
      /\ zmalloc_thread_safe' = TRUE
      /\ UNCHANGED <<size, used_memory, todo, loaded, busy, freeing>>
  BY DEF IInv, EnableThreadSafeness
<1>1. PICK c \in Counted : Counts(c)
  BY DEF IInv
<1>2. \A u \in Thread : loaded[u] = <<>>
  BY <1>0 DEF Alone, NoCall
<1>3. TypeOK' /\ Calls' /\ Alone'
  BY <1>0, <1>2, ThreadAssumption DEF TypeOK, Calls, Alone, NoCall
<1>4. Counts(c)'
  BY <1>0, <1>1 DEF Counts, Unused, Allocated, Due, ZmallocSize
<1> QED
  BY <1>3, <1>4 DEF IInv

LEMMA StepKeeps ==
    ASSUME IInv, ~StartsEarly, [ZmallocNext]_zmallocVars
    PROVE  IInv'
<1>1. CASE UNCHANGED zmallocVars
  <2>1. PICK c \in Counted : Counts(c)
    BY DEF IInv
  <2>2. TypeOK' /\ Calls' /\ Alone'
    BY <1>1 DEF IInv, TypeOK, Calls, Alone, NoCall, zmallocVars
  <2>3. Counts(c)'
    BY <1>1, <2>1 DEF Counts, Unused, Allocated, Due, ZmallocSize, zmallocVars
  <2> QED
    BY <2>2, <2>3 DEF IInv
<1>2. CASE EnableThreadSafeness
  BY <1>2, EnableKeeps
<1>3. ASSUME NEW t \in Thread, NEW b \in Blocks, NEW n \in Sizes, Zmalloc(t, b, n)
      PROVE  IInv'
  BY <1>3, ZmallocKeeps
<1>4. ASSUME NEW t \in Thread, NEW b \in Blocks, NEW n \in Sizes, Zrealloc(t, b, n)
      PROVE  IInv'
  BY <1>4, ZreallocKeeps
<1>5. ASSUME NEW t \in Thread, NEW b \in Blocks, Zfree(t, b) PROVE IInv'
  BY <1>5, ZfreeKeeps
<1>6. ASSUME NEW t \in Thread, Update(t) PROVE IInv'
  BY <1>6, UpdateKeeps
<1>7. ASSUME NEW t \in Thread, Load(t) PROVE IInv'
  BY <1>7, LoadKeeps
<1>8. ASSUME NEW t \in Thread, Store(t) PROVE IInv'
  BY <1>8, StoreKeeps
<1>9. ASSUME NEW t \in Thread, Free(t) PROVE IInv'
  BY <1>9, FreeKeeps
<1> QED
  BY <1>1, <1>2, <1>3, <1>4, <1>5, <1>6, <1>7, <1>8, <1>9 DEF ZmallocNext

LEMMA AlwaysInv == ASSUME ~StartsEarly PROVE ZmallocSpec => []IInv
BY InitInv, StepKeeps, PTL DEF ZmallocSpec

\* The model stays within its types: a size_t for used_memory and for what a
\* thread has loaded of it.
THEOREM TypeCorrect == ASSUME ~StartsEarly PROVE ZmallocSpec => []TypeOK
<1>1. IInv => TypeOK
  BY DEF IInv
<1> QED
  BY <1>1, AlwaysInv, PTL

LEMMA InvNeverWraps == ASSUME IInv PROVE NeverWraps
<1>1. PICK c \in Counted : Counts(c)
  BY DEF IInv
<1>2. \A b \in Blocks : c[b] \in Nat /\ c[b] <= MostFor[b] /\ MostFor[b] \in Nat
  BY <1>1, MostValue DEF Counted, MostFor, Most
<1> DEFINE m == Sum(c, Blocks)
<1> DEFINE n == Sum(MostFor, Blocks)
<1>3. Blocks \in SUBSET Blocks
  OBVIOUS
<1>4. m \in Int /\ n \in Int /\ m <= n
  BY <1>2, <1>3, SumInt, SumMonotone, BlockAssumption
<1>5. m \in Nat
  BY <1>2, SumNat, BlockAssumption
<1>6. used_memory = m % Modulus
  BY <1>1 DEF Counts
<1>7. NeverWraps <=> used_memory <= n
  BY DEF NeverWraps, Sum
<1> HIDE DEF m, n
<1>8. m % Modulus <= m /\ m % Modulus \in Int
  BY <1>4, <1>5, ModAtMost, DivMod, WordAssumption
<1> QED
  BY <1>4, <1>6, <1>7, <1>8

\* used_memory is never more than all the blocks can count for, whatever calls
\* are in progress: nothing is subtracted that was not added before, and nothing
\* is added twice.  The modulus plays no part.
THEOREM MemoryNeverWraps == ASSUME ~StartsEarly PROVE ZmallocSpec => []NeverWraps
<1>1. IInv => NeverWraps
  BY InvNeverWraps
<1> QED
  BY <1>1, AlwaysInv, PTL

\* What the blocks in use take up, by zmalloc_size.
InUse == SumFunctionOnSet(SizeOf, Allocated)

LEMMA InvUsedExact == ASSUME IInv, InUse < Modulus PROVE UsedExact
<1> SUFFICES ASSUME \A t \in Thread : NoCall(t) PROVE used_memory = InUse
  BY DEF UsedExact, InUse
<1>0. Calls
  BY DEF IInv
<1>1. PICK c \in Counted : Counts(c)
  BY DEF IInv
<1>2. \A b \in Blocks : b \in Unused
  BY <1>0 DEF Calls, Unused
<1>3. \A b \in Blocks : c[b] \in Nat
  BY <1>1, MostValue DEF Counted
<1>4. \A b \in Blocks \ Allocated : c[b] = 0
  BY <1>1, <1>2 DEF Counts
<1>5. Allocated \in SUBSET Blocks
  BY DEF Allocated
<1>6. \A b \in Allocated : SizeOf[b] = c[b]
  BY <1>1, <1>2, <1>5 DEF Counts, SizeOf
<1> DEFINE m == Sum(c, Blocks)
<1>7. Sum(c, Blocks) = Sum(SizeOf, Allocated)
  <2>1. \A b \in Blocks : c[b] \in Int
    BY <1>3
  <2> QED
    BY <1>4, <1>5, <1>6, <2>1, SumNonzero, BlockAssumption
<1>8. m = InUse /\ used_memory = m % Modulus
  BY <1>1, <1>7 DEF InUse, Sum, Counts
<1>9. m \in Nat
  BY <1>3, SumNat, BlockAssumption
<1> HIDE DEF m
<1> QED
  BY <1>8, <1>9, ModAtMost, WordAssumption

\* As long as what is in use fits in a size_t, zmalloc_used_memory between calls
\* is exactly the sum of zmalloc_size over the blocks in use, for any number of
\* threads, blocks and sizes.
THEOREM MemoryIsExact == ASSUME ~StartsEarly PROVE ZmallocSpec => [](InUse < Modulus => UsedExact)
<1>1. IInv => (InUse < Modulus => UsedExact)
  BY InvUsedExact
<1> QED
  BY <1>1, AlwaysInv, PTL

-----------------------------------------------------------------------------
(* The reference count, for every set of references.                       *)

LEMMA SameFinite == \A S : Ref!IsFiniteSet(S) <=> IsFiniteSet(S)
BY DEF IsFiniteSet, Ref!IsFiniteSet

LEMMA SameCardinality == \A S : Ref!Cardinality(S) = Cardinality(S)
BY Zenon DEF Cardinality, Ref!Cardinality, IsFiniteSet, Ref!IsFiniteSet

\* The count, with the operators that the facts of the library are about.
Exact == IsFiniteSet(held) /\ ref = Cardinality(held)

LEMMA ExactIsCountExact == Exact <=> Ref!CountExact
BY SameFinite, SameCardinality DEF Exact, Ref!CountExact

LEMMA RefStepCounts == ASSUME Exact, [Ref!Next]_Ref!vars PROVE Exact'
<1> USE DEF Exact
<1>1. CASE UNCHANGED Ref!vars
  BY <1>1 DEF Ref!vars
<1>2. ASSUME NEW r \in Reference, Ref!RefInit(r) PROVE Exact'
  BY <1>2, FS_Singleton DEF Ref!RefInit
<1>3. ASSUME NEW r \in Reference, NEW n \in Reference, Ref!RefGet(r, n)
      PROVE  Exact'
  BY <1>3, FS_AddElement, FS_CardinalityType DEF Ref!RefGet
<1>4. ASSUME NEW r \in Reference, Ref!Decrement(r) PROVE Exact'
  BY <1>4, FS_RemoveElement DEF Ref!Decrement
<1>5. ASSUME NEW r \in Reference, Ref!Returns(r) PROVE Exact'
  BY <1>5 DEF Ref!Returns
<1> QED
  BY <1>1, <1>2, <1>3, <1>4, <1>5 DEF Ref!Next

LEMMA AlwaysCount == Ref!Spec => []Exact
<1>1. Ref!Init => Exact
  BY FS_EmptySet DEF Ref!Init, Exact
<1> QED
  BY <1>1, RefStepCounts, PTL DEF Ref!Spec

\* The counter is the number of references, for every interleaving of gets and
\* puts of any number of holders.
THEOREM AlwaysCounts == Ref!Spec => []Ref!CountExact
BY AlwaysCount, ExactIsCountExact, PTL

\* ref_put releases the object exactly when it has left one reference to it: the
\* object is removed under its last holder, whose own put removes nothing.
THEOREM RemovesUnderLastHolder == Ref!Spec => Ref!LastButOneReleases
<1>1. ASSUME Exact, Exact', [Ref!Next]_Ref!vars, NEW r \in Reference, Ref!Decrement(r)
      PROVE Ref!Releases(putting'[r]) <=> Ref!Cardinality(held') = 1
  <2>1. putting'[r] = ref' /\ ref' = Cardinality(held')
    BY <1>1 DEF Exact, Ref!Decrement
  <2> QED
    BY <2>1, SameCardinality, Zenon DEF Ref!Releases
<1>2. Exact /\ Exact' /\ [Ref!Next]_Ref!vars =>
        [\A r \in Reference : Ref!Decrement(r) =>
            (Ref!Releases(putting'[r]) <=> Ref!Cardinality(held') = 1)]_Ref!vars
  BY <1>1
<1> QED
  BY <1>2, AlwaysCount, PTL DEF Ref!Spec, Ref!LastButOneReleases
=============================================================================
