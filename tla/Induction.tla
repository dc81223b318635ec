----------------------------- MODULE Induction -----------------------------
(***************************************************************************)
(* Induction over naturals and finite sets, and what recursive functions   *)
(* and sums over finite sets compute.  The induction principles are stated *)
(* over sets: to prove something of all naturals, put those of which it    *)
(* holds in a set T.  They follow from the order of the naturals being     *)
(* well founded.                                                           *)
(***************************************************************************)
EXTENDS Integers, FiniteSets, Functions, FiniteSetTheorems, WellFoundedInduction, TLAPS

\* The order of the naturals is well founded.
LEMMA NatOrder ==
    \E R : IsWellFoundedOn(R, Nat) /\ \A a, b \in Nat : a < b => <<a, b>> \in R
<1>1. \A a, b \in Nat : a < b => <<a, b>> \in OpToRel(<, Nat)
    BY DEF OpToRel
<1>. QED  BY <1>1, NatLessThanWellFounded, Zenon

\* A set of naturals that is not empty has a least one.
LEMMA LeastNatural ==
    ASSUME NEW T \in SUBSET Nat, T # {}
    PROVE  \E m \in T : \A n \in T : m <= n
<1>1. PICK R : IsWellFoundedOn(R, Nat) /\ \A a, b \in Nat : a < b => <<a, b>> \in R
    BY NatOrder, Zenon
<1>2. PICK m \in T : \A n \in T : ~(<<n, m>> \in R)
    <2>1. IsWellFoundedOn(R, Nat) /\ T \subseteq Nat
        BY <1>1
    <2>. QED  BY <2>1, WFMin
<1>3. \A n \in T : ~(n < m)
    BY <1>1, <1>2
<1>. QED  BY <1>3

\* A set with zero and with every successor holds all naturals.
LEMMA SetInduction ==
    ASSUME NEW T, 0 \in T, \A n \in Nat : n \in T => n + 1 \in T
    PROVE  Nat \subseteq T
<1>. SUFFICES ASSUME Nat \ T # {} PROVE FALSE
    OBVIOUS
<1>1. PICK m \in Nat \ T : \A n \in Nat \ T : m <= n
    BY LeastNatural
<1>2. m - 1 \in Nat /\ m - 1 \in T
    BY <1>1
<1>. QED  BY <1>1, <1>2

\* The parts of a finite set are finite and no larger, and lose one element at a
\* time.
LEMMA SizeFacts ==
    ASSUME NEW S, IsFiniteSet(S), NEW s \in SUBSET S
    PROVE  /\ IsFiniteSet(s) /\ Cardinality(s) \in Nat /\ Cardinality(s) <= Cardinality(S)
           /\ Cardinality(s) = 0 <=> s = {}
           /\ \A x \in s : s \ {x} \in SUBSET S /\ Cardinality(s \ {x}) = Cardinality(s) - 1
<1>1. IsFiniteSet(s) /\ Cardinality(s) \in Nat /\ Cardinality(s) <= Cardinality(S)
    BY FS_Subset, FS_CardinalityType
<1>. QED  BY <1>1, FS_RemoveElement, FS_EmptySet

\* A set of sets that holds the empty one, and every part of S of which it holds
\* all parts with one element less, holds all parts of S.
LEMMA FiniteSetInduction ==
    ASSUME NEW S, IsFiniteSet(S), NEW T, {} \in T,
           \A s \in SUBSET S : s # {} /\ (\A x \in s : s \ {x} \in T) => s \in T
    PROVE  SUBSET S \subseteq T
<1>. DEFINE N == {n \in Nat : \A s \in SUBSET S : Cardinality(s) = n => s \in T}
<1>1. 0 \in N
    BY SizeFacts
<1>2. ASSUME NEW n \in Nat, n \in N
      PROVE  n + 1 \in N
    <2>. SUFFICES ASSUME NEW s \in SUBSET S, Cardinality(s) = n + 1
                  PROVE  s \in T
        OBVIOUS
    <2>1. \A x \in s : s \ {x} \in T
        BY <1>2, SizeFacts
    <2>2. s # {}
        BY SizeFacts
    <2>. QED  BY <2>1, <2>2
<1>. HIDE DEF N
<1>3. Nat \subseteq N
    BY <1>1, <1>2, SetInduction
<1>. QED  BY <1>3, SizeFacts DEF N

\* Step k of n takes values of V to values of V.
Steps(step, n, V) == step \in [1..n -> [V -> V]]

\* g holds the values after each of the n steps.
Iterates(g, n, V, base, step) ==
    /\ g \in [0..n -> V]
    /\ g[0] = base
    /\ \A k \in 1..n : g[k] = step[k][g[k - 1]]

\* A list of steps can be carried out from any base.
LEMMA Recursion ==
    ASSUME NEW V, NEW base \in V, NEW n \in Nat, NEW step, Steps(step, n, V)
    PROVE  \E g : Iterates(g, n, V, base, step)
<1>. USE DEF Steps
<1>. DEFINE Good(g, m) == g[0] = base /\ \A k \in 1..m : g[k] = step[k][g[k - 1]]
            M == {m \in Nat : m <= n => \E g \in [0..m -> V] : Good(g, m)}
<1>1. 0 \in M
    <2>1. [k \in 0..0 |-> base] \in [0..0 -> V] /\ Good([k \in 0..0 |-> base], 0)
        OBVIOUS
    <2>. QED  BY <2>1
<1>2. ASSUME NEW m \in Nat, m \in M
      PROVE  m + 1 \in M
    <2>. SUFFICES ASSUME m + 1 <= n
                  PROVE  \E g \in [0..(m + 1) -> V] : Good(g, m + 1)
        OBVIOUS
    <2>1. PICK g \in [0..m -> V] : Good(g, m)
        BY <1>2
    <2>. DEFINE h == [k \in 0..(m + 1) |-> IF k <= m THEN g[k] ELSE step[k][g[k - 1]]]
    <2>2. step[m + 1] \in [V -> V] /\ g[m] \in V
        OBVIOUS
    <2>3. h \in [0..(m + 1) -> V]
        BY <2>2
    <2>4. Good(h, m + 1)
        BY <2>1
    <2>. QED  BY <2>3, <2>4
<1>. HIDE DEF M
<1>3. n \in M
    BY <1>1, <1>2, SetInduction
<1>. QED  BY <1>3 DEF M, Iterates

-----------------------------------------------------------------------------
\* The element that a fold over a set takes first, the elements left, and the sum
\* of f over s by the sums g over what is left.
Pick(s) == CHOOSE x \in s : TRUE

Rest(s) == s \ {Pick(s)}
Total(g, f, s) == IF s = {} THEN 0 ELSE f[Pick(s)] + g[Rest(s)]

\* g is a table of the sums of f over all parts of S.
Sums(g, f, S) == g \in [SUBSET S -> Nat] /\ \A s \in SUBSET S : g[s] = Total(g, f, s)

\* What is left of a set without the picked element.
LEMMA PickFacts ==
    ASSUME NEW S, IsFiniteSet(S), NEW s \in SUBSET S, s # {}
    PROVE  /\ Pick(s) \in s /\ Pick(s) \in S
           /\ Rest(s) \in SUBSET S /\ Rest(s) = s \ {Pick(s)}
           /\ Cardinality(Rest(s)) = Cardinality(s) - 1
<1>1. Pick(s) \in s
    BY Zenon DEF Pick
<1>. QED  BY <1>1, SizeFacts DEF Rest

\* What a table of sums holds.
LEMMA SumsFacts ==
    ASSUME NEW S, IsFiniteSet(S), NEW f \in [S -> Nat], NEW g, Sums(g, f, S)
    PROVE  /\ \A s \in SUBSET S : g[s] \in Nat
           /\ g[{}] = 0
           /\ \A s \in SUBSET S : s # {} => g[s] = f[Pick(s)] + g[Rest(s)]
<1>1. {} \in SUBSET S
    OBVIOUS
<1>. QED  BY <1>1 DEF Sums, Total

\* There is a table of sums for every function on a finite set.
LEMMA SumExists ==
    ASSUME NEW S, IsFiniteSet(S), NEW f \in [S -> Nat]
    PROVE  \E g : Sums(g, f, S)
<1>. DEFINE UpTo(g, m) == \A s \in SUBSET S : Cardinality(s) <= m => g[s] = Total(g, f, s)
            M == {m \in Nat : \E g \in [SUBSET S -> Nat] : UpTo(g, m)}
<1>1. 0 \in M
    <2>. DEFINE z == [s \in SUBSET S |-> 0]
    <2>1. z \in [SUBSET S -> Nat] /\ \A s \in SUBSET S : z[s] = 0
        OBVIOUS
    <2>2. \A s \in SUBSET S : Cardinality(s) <= 0 => s = {}
        BY SizeFacts
    <2>3. UpTo(z, 0)
        BY <2>1, <2>2 DEF Total
    <2>. QED  BY <2>1, <2>3
<1>2. ASSUME NEW m \in Nat, m \in M
      PROVE  m + 1 \in M
    <2>1. PICK g \in [SUBSET S -> Nat] : UpTo(g, m)
        BY <1>2
    <2>. DEFINE h == [s \in SUBSET S |-> IF Cardinality(s) <= m THEN g[s] ELSE Total(g, f, s)]
    <2>2. ASSUME NEW s \in SUBSET S
          PROVE  Total(g, f, s) \in Nat
        <3>1. CASE s = {}
            BY <3>1 DEF Total
        <3>2. CASE s # {}
            <4>1. f[Pick(s)] \in Nat /\ g[Rest(s)] \in Nat
                BY <3>2, PickFacts
            <4>. QED  BY <3>2, <4>1 DEF Total
        <3>. QED  BY <3>1, <3>2
    <2>3. h \in [SUBSET S -> Nat]
        BY <2>2
    <2>4. ASSUME NEW s \in SUBSET S, Cardinality(s) <= m + 1
          PROVE  h[s] = Total(h, f, s)
        <3>1. h[s] = Total(g, f, s)
            BY <2>1
        <3>2. ASSUME s # {}
              PROVE  h[Rest(s)] = g[Rest(s)]
            <4>1. Cardinality(s) \in Nat
                BY SizeFacts
            <4>2. Rest(s) \in SUBSET S /\ Cardinality(Rest(s)) <= m
                BY <2>4, <3>2, <4>1, PickFacts
            <4>. QED  BY <4>2
        <3>. QED  BY <3>1, <3>2 DEF Total
    <2>. HIDE DEF h
    <2>5. UpTo(h, m + 1)
        BY <2>4
    <2>. HIDE DEF UpTo
    <2>. QED  BY <2>3, <2>5
<1>. HIDE DEF M
<1>3. Cardinality(S) \in M
    BY <1>1, <1>2, SetInduction, SizeFacts
<1>4. PICK g \in [SUBSET S -> Nat] : UpTo(g, Cardinality(S))
    BY <1>3 DEF M
<1>5. \A s \in SUBSET S : g[s] = Total(g, f, s)
    BY <1>4, SizeFacts
<1>. QED  BY <1>5 DEF Sums

\* SumFunction is the last entry of such a table.
LEMMA SumEquation ==
    ASSUME NEW S, IsFiniteSet(S), NEW f \in [S -> Nat]
    PROVE  \E g : Sums(g, f, S) /\ SumFunction(f) = g[S]
<1>. DEFINE Eq(g) == g = [s \in SUBSET S |-> Total(g, f, s)]
            sum == CHOOSE g : Eq(g)
<1>1. SumFunction(f) = sum[S]
    BY DEF SumFunction, SumFunctionOnSet, FoldFunctionOnSet, MapThenFoldSet, Pick, Rest, Total
<1>2. PICK g : Sums(g, f, S)
    BY SumExists
<1>3. Eq(g)
    BY <1>2 DEF Sums
<1>4. Eq(sum)
    BY <1>3, Zenon
<1>. HIDE DEF sum
<1>5. \A s \in SUBSET S : sum[s] = Total(sum, f, s)
    BY <1>4, Zenon
<1>6. sum \in [SUBSET S -> Nat]
    <2>. DEFINE T == {s \in SUBSET S : sum[s] \in Nat}
    <2>1. {} \in T
        <3>1. {} \in SUBSET S
            OBVIOUS
        <3>2. sum[{}] = 0
            BY <1>5, <3>1 DEF Total
        <3>. QED  BY <3>1, <3>2
    <2>2. ASSUME NEW s \in SUBSET S, s # {}, \A x \in s : s \ {x} \in T
          PROVE  s \in T
        <3>1. sum[Rest(s)] \in Nat /\ f[Pick(s)] \in Nat
            BY <2>2, PickFacts
        <3>2. sum[s] = f[Pick(s)] + sum[Rest(s)]
            BY <1>5, <2>2 DEF Total
        <3>. QED  BY <3>1, <3>2
    <2>. HIDE DEF T
    <2>3. SUBSET S \subseteq T
        BY <2>1, <2>2, FiniteSetInduction
    <2>4. \A s \in SUBSET S : sum[s] \in Nat
        BY <2>3 DEF T
    <2>5. sum = [s \in SUBSET S |-> Total(sum, f, s)]
        BY <1>4
    <2>. QED  BY <1>5, <2>4, <2>5
<1>. QED  BY <1>1, <1>5, <1>6 DEF Sums

\* A function that is nowhere greater has no greater sum.
LEMMA SumMonotone ==
    ASSUME NEW S, IsFiniteSet(S), NEW f \in [S -> Nat], NEW g \in [S -> Nat],
           \A x \in S : f[x] <= g[x]
    PROVE  SumFunction(f) <= SumFunction(g) /\ SumFunction(f) \in Nat
<1>1. PICK a : Sums(a, f, S) /\ SumFunction(f) = a[S]
    BY SumEquation
<1>2. PICK b : Sums(b, g, S) /\ SumFunction(g) = b[S]
    BY SumEquation
<1>. DEFINE T == {s \in SUBSET S : a[s] <= b[s]}
<1>3. {} \in T
    BY <1>1, <1>2, SumsFacts
<1>4. ASSUME NEW s \in SUBSET S, s # {}, \A x \in s : s \ {x} \in T
      PROVE  s \in T
    <2>1. /\ Pick(s) \in S /\ Rest(s) \in SUBSET S /\ a[Rest(s)] <= b[Rest(s)]
          /\ f[Pick(s)] \in Nat /\ g[Pick(s)] \in Nat
        BY <1>4, PickFacts
    <2>2. /\ a[s] = f[Pick(s)] + a[Rest(s)] /\ a[Rest(s)] \in Nat
          /\ b[s] = g[Pick(s)] + b[Rest(s)] /\ b[Rest(s)] \in Nat
        BY <1>1, <1>2, <1>4, <2>1, SumsFacts
    <2>. QED  BY <2>1, <2>2
<1>. HIDE DEF T
<1>5. S \in T
    BY <1>3, <1>4, FiniteSetInduction
<1>. QED  BY <1>1, <1>2, <1>5, SumsFacts DEF T

\* The sum of zeros is zero.
LEMMA SumZero ==
    ASSUME NEW S, IsFiniteSet(S)
    PROVE  SumFunction([x \in S |-> 0]) = 0
<1>. DEFINE f == [x \in S |-> 0]
<1>0. f \in [S -> Nat] /\ \A x \in S : f[x] = 0
    OBVIOUS
<1>. HIDE DEF f
<1>1. PICK a : Sums(a, f, S) /\ SumFunction(f) = a[S]
    BY <1>0, SumEquation
<1>. DEFINE T == {s \in SUBSET S : a[s] = 0}
<1>3. {} \in T
    BY <1>0, <1>1, SumsFacts
<1>4. ASSUME NEW s \in SUBSET S, s # {}, \A x \in s : s \ {x} \in T
      PROVE  s \in T
    <2>1. Pick(s) \in S /\ Rest(s) \in SUBSET S /\ a[Rest(s)] = 0
        BY <1>4, PickFacts
    <2>. QED  BY <1>0, <1>1, <1>4, <2>1, SumsFacts
<1>. HIDE DEF T
<1>5. S \in T
    BY <1>3, <1>4, FiniteSetInduction
<1>. QED  BY <1>1, <1>5 DEF T, f
=============================================================================
