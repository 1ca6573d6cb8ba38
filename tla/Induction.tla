------------------------------ MODULE Induction -------------------------------
(***************************************************************************)
(* Induction over the natural numbers, by the least counterexample, for a  *)
(* set of numbers, and what follows from it for a bounded loop.            *)
(***************************************************************************)
EXTENDS Integers, FiniteSetsExt, FiniteSetTheorems, TLAPS

\* A set with 0 and with the successor of each of its numbers holds all of them.
LEMMA NatSetInduction ==
    ASSUME NEW S, 0 \in S, \A n \in S : n \in Nat => n + 1 \in S
    PROVE  Nat \subseteq S
<1> SUFFICES ASSUME NEW m \in Nat, m \notin S PROVE FALSE
  OBVIOUS
<1> DEFINE T == {0..k : k \in Nat \ S}
<1>1. T \subseteq FiniteSubsetsOf(Nat) /\ T # {}
  <2>1. \A k \in Nat : 0..k \in FiniteSubsetsOf(Nat)
    <3> TAKE k \in Nat
    <3>1. 0..k \subseteq Nat
      OBVIOUS
    <3>2. IsFiniteSet(0..k)
      BY FS_Interval
    <3> QED BY <3>1, <3>2 DEF FiniteSubsetsOf
  <2>2. 0..m \in T
    OBVIOUS
  <2> QED BY <2>1, <2>2
<1>2. IsWellFoundedOn(StrictSubsetOrdering(Nat), FiniteSubsetsOf(Nat))
  BY FS_StrictSubsetOrderingWellFounded
<1>3. PICK x \in T : \A y \in T : ~(<<y, x>> \in StrictSubsetOrdering(Nat))
  <2> HIDE DEF T
  <2> QED BY <1>1, <1>2, WFMin
<1>4. PICK k \in Nat \ S : x = 0..k
  OBVIOUS
<1>5. k # 0
  BY <1>4
<1>6. k - 1 \in Nat /\ (k - 1) + 1 = k
  BY <1>4, <1>5
<1>7. k - 1 \notin S
  BY <1>4, <1>6
<1>8. 0..(k-1) \in T
  BY <1>6, <1>7
<1>9. <<0..(k-1), x>> \in StrictSubsetOrdering(Nat)
  BY <1>4, <1>5 DEF StrictSubsetOrdering
<1> QED BY <1>3, <1>8, <1>9

\* Min finds the least number of a set.
LEMMA MinOfSet ==
    ASSUME NEW S \in SUBSET Nat, S # {}
    PROVE  Min(S) \in S /\ \A y \in S : Min(S) <= y
<1>1. SUFFICES \E x \in S : \A y \in S : x <= y
  BY DEF Min
<1>2. SUFFICES ASSUME \A x \in S : \E y \in S : ~(x <= y) PROVE FALSE
  OBVIOUS
<1> DEFINE Below == {n \in Nat : \A x \in S : n <= x}
<1>3. 0 \in Below
  OBVIOUS
<1>4. \A n \in Below : n \in Nat => n + 1 \in Below
  BY <1>2
<1>5. Nat \subseteq Below
  <2> HIDE DEF Below
  <2> QED BY <1>3, <1>4, NatSetInduction
<1>6. PICK x \in S : TRUE
  OBVIOUS
<1>7. x + 1 \in Below
  BY <1>5
<1> QED BY <1>7

\* What holds at first, and at each number if at the one before it, holds up to N.
LEMMA BoundedInduction ==
    ASSUME NEW N \in Nat, NEW S, NEW g, g[0] \in S,
           \A i \in 1..N : g[i - 1] \in S => g[i] \in S
    PROVE  \A i \in 0..N : g[i] \in S
<1> DEFINE T == {n \in Nat : n <= N => g[n] \in S}
<1>1. 0 \in T
  OBVIOUS
<1>2. ASSUME NEW n \in T PROVE n + 1 \in T
  <2> SUFFICES ASSUME n + 1 <= N PROVE g[n + 1] \in S
    OBVIOUS
  <2>1. n \in Nat /\ g[n] \in S
    OBVIOUS
  <2>2. PICK m \in 1..N : m = n + 1 /\ m - 1 = n
    BY <2>1
  <2> QED BY <2>1, <2>2
<1>3. Nat \subseteq T
  <2> HIDE DEF T
  <2> QED BY <1>1, <1>2, NatSetInduction
<1> QED BY <1>3

\* What goes on, from values in S to values in S, for up to N steps; and a
\* function that starts with a and goes on like that.
Steps(S, N) == [S \X (1..N) -> S]

Recursion(f, N, S, a, step) ==
    /\ f \in [0..N -> S]
    /\ f[0] = a
    /\ \A i \in 1..N : f[i] = step[<<f[i - 1], i>>]

\* There is such a function.
LEMMA RecursionExists ==
    ASSUME NEW N \in Nat, NEW S, NEW a \in S, NEW step \in Steps(S, N)
    PROVE  \E f : Recursion(f, N, S, a, step)
<1> USE DEF Steps
<1> DEFINE Is(f, n) ==
               /\ f \in [0..n -> S]
               /\ f[0] = a
               /\ \A i \in 1..n : f[i] = step[<<f[i - 1], i>>]
           T == {n \in Nat : n <= N => \E f : Is(f, n)}
<1>1. 0 \in T
  <2> DEFINE f == [i \in 0..0 |-> a]
  <2>1. f \in [0..0 -> S]
    OBVIOUS
  <2>3. Is(f, 0)
    BY <2>1
  <2> HIDE DEF Is, f
  <2> QED BY <2>3
<1>2. ASSUME NEW n \in T PROVE n + 1 \in T
  <2> SUFFICES ASSUME n + 1 <= N PROVE \E g : Is(g, n + 1)
    OBVIOUS
  <2>1. n \in Nat /\ \E f : Is(f, n)
    OBVIOUS
  <2>2. PICK f : Is(f, n)
    BY <2>1
  <2> DEFINE more == step[<<f[n], n + 1>>]
             g    == [i \in 0..(n + 1) |-> IF i = n + 1 THEN more ELSE f[i]]
  <2>3. f[n] \in S /\ n + 1 \in 1..N
    BY <2>1, <2>2
  <2>4. more \in S
    BY <2>3
  <2>5. g \in [0..(n + 1) -> S]
    <3> HIDE DEF more
    <3>1. ASSUME NEW i \in 0..(n + 1), i # n + 1 PROVE f[i] \in S
      <4>1. i \in 0..n
        BY <2>1, <3>1
      <4> QED BY <2>2, <4>1
    <3> QED BY <2>4, <3>1
  <2>6. ASSUME NEW i \in 1..(n + 1) PROVE g[i] = step[<<g[i - 1], i>>]
    <3>1. CASE i = n + 1
      <4>1. g[i] = more /\ g[i - 1] = f[n]
        BY <2>1, <3>1
      <4> QED BY <3>1, <4>1
    <3>2. CASE i # n + 1
      <4>1. i \in 1..n /\ g[i] = f[i] /\ g[i - 1] = f[i - 1]
        BY <2>1, <3>2
      <4>2. f[i] = step[<<f[i - 1], i>>]
        BY <2>2, <4>1
      <4> HIDE DEF g, Is, T
      <4> QED BY <4>1, <4>2
    <3> QED BY <3>1, <3>2
  <2>7. g[0] = a
    BY <2>1, <2>2
  <2>8. Is(g, n + 1)
    <3> HIDE DEF g
    <3> QED BY <2>5, <2>6, <2>7
  <2> HIDE DEF Is, g
  <2> QED BY <2>8
<1>3. Nat \subseteq T
  <2> HIDE DEF T
  <2> QED BY <1>1, <1>2, NatSetInduction
<1>4. PICK f : Is(f, N)
  <2> HIDE DEF Is
  <2> QED BY <1>3
<1> QED BY <1>4 DEF Recursion

-----------------------------------------------------------------------------
(* Sums over finite sets.                                                  *)

First(s) == CHOOSE x \in s : TRUE

Numeric(f, B) == \A x \in B : f[x] \in Int

\* g holds the sum of f over each set of elements of B.
Adds(f, B, g) ==
    g = [s \in SUBSET B |-> IF s = {} THEN 0 ELSE f[First(s)] + g[s \ {First(s)}]]

LEMMA FirstIsIn ==
    ASSUME NEW s, s # {}
    PROVE  First(s) \in s
<1> QED BY DEF First

LEMMA SmallerSet ==
    ASSUME NEW s, IsFiniteSet(s), NEW x \in s
    PROVE  /\ IsFiniteSet(s \ {x})
           /\ Cardinality(s) \in Nat /\ Cardinality(s \ {x}) \in Nat
           /\ Cardinality(s) = Cardinality(s \ {x}) + 1
<1>1. Cardinality(s) \in Nat
  BY FS_CardinalityType
<1>2. IsFiniteSet(s \ {x}) /\ Cardinality(s \ {x}) = Cardinality(s) - 1
  BY FS_RemoveElement
<1>3. Cardinality(s \ {x}) \in Nat
  BY <1>2, FS_CardinalityType
<1> QED BY <1>1, <1>2, <1>3

LEMMA SumExists ==
    ASSUME NEW B, IsFiniteSet(B), NEW f, Numeric(f, B)
    PROVE  \E g \in [SUBSET B -> Int] : Adds(f, B, g)
<1> DEFINE Sub(n) == {s \in SUBSET B : Cardinality(s) <= n}
           Is(g, n) == /\ g \in [Sub(n) -> Int]
                       /\ \A s \in Sub(n) :
                             g[s] = IF s = {} THEN 0 ELSE f[First(s)] + g[s \ {First(s)}]
           Good == {n \in Nat : \E g : Is(g, n)}
<1>1. 0 \in Good
  <2>1. \A s \in Sub(0) : s = {}
    <3> SUFFICES ASSUME NEW s \in SUBSET B, Cardinality(s) <= 0 PROVE s = {}
      OBVIOUS
    <3>1. IsFiniteSet(s)
      BY FS_Subset
    <3>2. Cardinality(s) \in Nat
      BY <3>1, FS_CardinalityType
    <3>3. Cardinality(s) = 0
      BY <3>2
    <3> QED BY <3>1, <3>3, FS_EmptySet
  <2>2. Is([s \in Sub(0) |-> 0], 0)
    <3> HIDE DEF Sub
    <3> QED BY <2>1
  <2> HIDE DEF Is
  <2> QED BY <2>2
<1>2. ASSUME NEW n \in Good PROVE n + 1 \in Good
  <2>1. PICK g : Is(g, n)
    OBVIOUS
  <2> DEFINE h == [s \in Sub(n + 1) |->
                     IF s \in Sub(n) THEN g[s] ELSE f[First(s)] + g[s \ {First(s)}]]
  <2>2. n \in Nat /\ Sub(n) \subseteq Sub(n + 1)
    <3>1. \A s \in SUBSET B : Cardinality(s) \in Nat
      BY FS_Subset, FS_CardinalityType
    <3> QED BY <3>1
  <2>3. ASSUME NEW s \in Sub(n + 1), s # {}
        PROVE  s \ {First(s)} \in Sub(n) /\ First(s) \in B
    <3>1. First(s) \in s
      BY <2>3, FirstIsIn
    <3>2. PICK S \in SUBSET B, x \in s : S = s /\ x = First(s) /\ Cardinality(S) <= n + 1
      BY <3>1
    <3>3. S \ {x} \in SUBSET B /\ Cardinality(S) = Cardinality(S \ {x}) + 1
          /\ Cardinality(S \ {x}) \in Nat
      <4>1. IsFiniteSet(S) /\ x \in S
        BY <3>2, FS_Subset
      <4> QED BY <4>1, SmallerSet
    <3>4. Cardinality(S \ {x}) <= n
      BY <2>2, <3>2, <3>3
    <3> QED BY <3>1, <3>2, <3>3, <3>4
  <2>4. {} \in Sub(n)
    BY <2>2, FS_EmptySet
  <2>5. g \in [Sub(n) -> Int] /\ \A s \in Sub(n) :
             g[s] = IF s = {} THEN 0 ELSE f[First(s)] + g[s \ {First(s)}]
    BY <2>1
  <2> HIDE DEF Sub
  <2>6. h \in [Sub(n + 1) -> Int]
    <3> SUFFICES ASSUME NEW s \in Sub(n + 1)
                 PROVE  (IF s \in Sub(n) THEN g[s] ELSE f[First(s)] + g[s \ {First(s)}]) \in Int
      OBVIOUS
    <3>1. CASE s \in Sub(n)
      BY <2>5, <3>1
    <3>2. CASE s \notin Sub(n)
      <4>1. s # {}
        BY <2>4, <3>2
      <4>2. f[First(s)] \in Int /\ g[s \ {First(s)}] \in Int
        BY <2>3, <2>5, <4>1 DEF Numeric
      <4> QED BY <3>2, <4>2
    <3> QED BY <3>1, <3>2
  <2>7. ASSUME NEW s \in Sub(n + 1)
        PROVE  h[s] = IF s = {} THEN 0 ELSE f[First(s)] + h[s \ {First(s)}]
    <3>1. CASE s = {}
      BY <2>2, <2>4, <2>5, <3>1
    <3>2. CASE s # {}
      <4>1. s \ {First(s)} \in Sub(n)
        BY <2>3, <3>2
      <4>2. h[s \ {First(s)}] = g[s \ {First(s)}]
        BY <2>2, <4>1
      <4>3. h[s] = f[First(s)] + g[s \ {First(s)}]
        BY <2>5, <3>2
      <4> QED BY <3>2, <4>2, <4>3
    <3> QED BY <3>1, <3>2
  <2>8. Is(h, n + 1)
    <3> HIDE DEF h
    <3> QED BY <2>6, <2>7
  <2> HIDE DEF Is, h
  <2> QED BY <2>2, <2>8
<1>3. Nat \subseteq Good
  <2> HIDE DEF Good
  <2> QED BY <1>1, <1>2, NatSetInduction
<1>4. Cardinality(B) \in Nat
  BY FS_CardinalityType
<1>5. PICK g : Is(g, Cardinality(B))
  <2> HIDE DEF Is
  <2> QED BY <1>3, <1>4
<1>6. Sub(Cardinality(B)) = SUBSET B
  BY FS_Subset
<1>7. g \in [SUBSET B -> Int] /\ \A s \in SUBSET B :
           g[s] = IF s = {} THEN 0 ELSE f[First(s)] + g[s \ {First(s)}]
  BY <1>5, <1>6
<1>8. Adds(f, B, g)
  BY <1>7 DEF Adds
<1> QED BY <1>7, <1>8

\* The fold of Functions is one such function, at the whole set.
LEMMA SumUnfolds ==
    ASSUME NEW B, IsFiniteSet(B), NEW f, Numeric(f, B)
    PROVE  \E g : Adds(f, B, g) /\ g[B] = SumFunctionOnSet(f, B)
<1>1. \E g : g = [s \in SUBSET B |-> IF s = {} THEN 0
                                    ELSE f[CHOOSE x \in s : TRUE]
                                            + g[s \ {CHOOSE x \in s : TRUE}]]
  <2>1. PICK g : Adds(f, B, g)
    BY SumExists
  <2> QED BY <2>1 DEF Adds, First
<1>2. PICK g : /\ g = [s \in SUBSET B |-> IF s = {} THEN 0
                                    ELSE f[CHOOSE x \in s : TRUE]
                                            + g[s \ {CHOOSE x \in s : TRUE}]]
               /\ g[B] = SumFunctionOnSet(f, B)
  BY <1>1 DEF SumFunctionOnSet, FoldFunctionOnSet, MapThenFoldSet
<1>3. Adds(f, B, g)
  BY <1>2 DEF Adds, First
<1> QED BY <1>2, <1>3

\* The same, whichever element is added last.
AddsAny(f, B, g) ==
    /\ g \in [SUBSET B -> Int] /\ g[{}] = 0
    /\ \A s \in SUBSET B : \A x \in s : g[s] = f[x] + g[s \ {x}]

\* Any such function adds each element, whichever comes first.
LEMMA AddsUp ==
    ASSUME NEW B, IsFiniteSet(B), NEW f, Numeric(f, B), NEW g, Adds(f, B, g)
    PROVE  AddsAny(f, B, g)
<1> DEFINE Holds(s) == /\ g[s] \in Int
                       /\ \A x \in s : g[s] = f[x] + g[s \ {x}]
           Good == {n \in Nat : \A s \in SUBSET B : Cardinality(s) <= n => Holds(s)}
<1>1. \A s \in SUBSET B : g[s] = IF s = {} THEN 0 ELSE f[First(s)] + g[s \ {First(s)}]
  BY DEF Adds
<1>2. {} \in SUBSET B /\ g[{}] = 0
  BY <1>1
<1>3. 0 \in Good
  <2> SUFFICES ASSUME NEW s \in SUBSET B, Cardinality(s) <= 0 PROVE Holds(s)
    OBVIOUS
  <2>1. IsFiniteSet(s) /\ Cardinality(s) \in Nat
    BY FS_Subset, FS_CardinalityType
  <2>3. Cardinality(s) = 0
    BY <2>1
  <2>2. s = {}
    BY <2>1, <2>3, FS_EmptySet
  <2> QED BY <1>2, <2>2
<1>4. ASSUME NEW n \in Good PROVE n + 1 \in Good
  <2>1. n \in Nat
    OBVIOUS
  <2>2. \A s \in SUBSET B : Cardinality(s) <= n => Holds(s)
    OBVIOUS
  <2> SUFFICES ASSUME NEW s \in SUBSET B, Cardinality(s) <= n + 1, s # {} PROVE Holds(s)
    <3>1. Holds({})
      BY <1>2
    <3> HIDE DEF Holds
    <3> QED BY <2>1, <3>1
  <2>3. s # {}
    OBVIOUS
  <2>4. PICK y \in s : y = First(s)
    BY <2>3, FirstIsIn
  <2>5. ASSUME NEW x \in s
        PROVE  /\ s \ {x} \in SUBSET B /\ Cardinality(s \ {x}) <= n /\ f[x] \in Int
               /\ Holds(s \ {x})
    <3>1. s \ {x} \in SUBSET B /\ Cardinality(s) = Cardinality(s \ {x}) + 1
          /\ Cardinality(s \ {x}) \in Nat
      <4>1. IsFiniteSet(s)
        BY FS_Subset
      <4> QED BY <4>1, SmallerSet
    <3>2. Cardinality(s \ {x}) <= n
      BY <2>1, <3>1
    <3> HIDE DEF Holds
    <3> QED BY <2>2, <3>1, <3>2 DEF Numeric
  <2>6. g[s] = f[y] + g[s \ {y}] /\ g[s \ {y}] \in Int /\ f[y] \in Int
    BY <1>1, <2>3, <2>4, <2>5
  <2>7. ASSUME NEW x \in s, x # y PROVE g[s] = f[x] + g[s \ {x}]
    <3>1. PICK u : u = (s \ {y}) \ {x} /\ u = (s \ {x}) \ {y}
      OBVIOUS
    <3>2. x \in s \ {y} /\ y \in s \ {x}
      BY <2>7
    <3>3. g[s \ {y}] = f[x] + g[u]
      BY <2>5, <3>1, <3>2
    <3>4. g[s \ {x}] = f[y] + g[u] /\ g[s \ {x}] \in Int /\ f[x] \in Int
      BY <2>5, <3>1, <3>2
    <3>5. g[u] \in Int
      <4>1. u \in SUBSET B /\ x \in s \ {y}
        BY <3>1, <3>2
      <4>2. PICK v \in SUBSET B : v = s \ {y} /\ Cardinality(v) <= n
        BY <2>5
      <4>3. u = v \ {x} /\ x \in v
        BY <3>1, <3>2, <4>2
      <4>4. Cardinality(u) <= n
        <5>1. Cardinality(v) = Cardinality(v \ {x}) + 1 /\ Cardinality(v \ {x}) \in Nat
          <6>1. IsFiniteSet(v)
            BY FS_Subset
          <6> QED BY <4>3, <6>1, SmallerSet
        <5> QED BY <2>1, <4>2, <4>3, <5>1
      <4> HIDE DEF Holds
      <4>5. Holds(u)
        BY <2>2, <4>1, <4>4
      <4> USE DEF Holds
      <4> QED BY <4>5
    <3> QED BY <2>6, <3>3, <3>4, <3>5
  <2>8. ASSUME NEW x \in s PROVE g[s] = f[x] + g[s \ {x}]
    <3>1. CASE x = y
      BY <2>6, <3>1
    <3>2. CASE x # y
      BY <2>7, <3>2
    <3> QED BY <3>1, <3>2
  <2>9. g[s] \in Int
    BY <2>6
  <2> QED BY <2>8, <2>9
<1>5. Nat \subseteq Good
  <2> HIDE DEF Good
  <2> QED BY <1>3, <1>4, NatSetInduction
<1>6. ASSUME NEW s \in SUBSET B PROVE Holds(s)
  <2>1. Cardinality(s) \in Nat
    BY FS_Subset, FS_CardinalityType
  <2>2. Cardinality(s) \in Good
    <3> HIDE DEF Good
    <3> QED BY <1>5, <2>1
  <2> QED BY <2>2
<1>7. g \in [SUBSET B -> Int]
  BY <1>6 DEF Adds
<1> QED BY <1>2, <1>6, <1>7 DEF AddsAny

LEMMA SameSums ==
    ASSUME NEW B, IsFiniteSet(B), NEW f, Numeric(f, B), NEW g, Adds(f, B, g),
           NEW C \in SUBSET B, NEW k, Adds(f, C, k)
    PROVE  \A s \in SUBSET C : g[s] = k[s]
<1> DEFINE Good == {n \in Nat : \A s \in SUBSET C : Cardinality(s) <= n => g[s] = k[s]}
<1>1. IsFiniteSet(C) /\ Numeric(f, C) /\ \A s \in SUBSET C : s \in SUBSET B /\ IsFiniteSet(s)
  BY FS_Subset DEF Numeric
<1>2. /\ g[{}] = 0 /\ k[{}] = 0
      /\ \A s \in SUBSET C : \A x \in s : g[s] = f[x] + g[s \ {x}] /\ k[s] = f[x] + k[s \ {x}]
  <2>1. k[{}] = 0 /\ \A s \in SUBSET C : \A x \in s : k[s] = f[x] + k[s \ {x}]
    <3>1. AddsAny(f, C, k)
      BY <1>1, AddsUp
    <3> QED BY <3>1 DEF AddsAny
  <2>2. g[{}] = 0 /\ \A s \in SUBSET B : \A x \in s : g[s] = f[x] + g[s \ {x}]
    <3>1. AddsAny(f, B, g)
      BY AddsUp
    <3> QED BY <3>1 DEF AddsAny
  <2> QED BY <1>1, <2>1, <2>2
<1>3. 0 \in Good
  <2> SUFFICES ASSUME NEW s \in SUBSET C, Cardinality(s) <= 0 PROVE g[s] = k[s]
    OBVIOUS
  <2>1. IsFiniteSet(s) /\ Cardinality(s) \in Nat
    BY <1>1, FS_CardinalityType
  <2>2. Cardinality(s) = 0
    BY <2>1
  <2>3. s = {}
    BY <2>1, <2>2, FS_EmptySet
  <2> QED BY <1>2, <2>3
<1>4. ASSUME NEW n \in Good PROVE n + 1 \in Good
  <2>1. n \in Nat /\ \A s \in SUBSET C : Cardinality(s) <= n => g[s] = k[s]
    OBVIOUS
  <2> SUFFICES ASSUME NEW s \in SUBSET C, Cardinality(s) <= n + 1, s # {} PROVE g[s] = k[s]
    <3>1. g[{}] = k[{}]
      BY <1>2
    <3> QED BY <2>1, <3>1
  <2>2. PICK x \in s : TRUE
    OBVIOUS
  <2>3. s \ {x} \in SUBSET C /\ Cardinality(s) = Cardinality(s \ {x}) + 1
        /\ Cardinality(s \ {x}) \in Nat
    BY <1>1, SmallerSet
  <2>4. g[s \ {x}] = k[s \ {x}]
    BY <2>1, <2>3
  <2> QED BY <1>2, <2>4
<1>5. Nat \subseteq Good
  <2> HIDE DEF Good
  <2> QED BY <1>3, <1>4, NatSetInduction
<1> SUFFICES ASSUME NEW s \in SUBSET C PROVE g[s] = k[s]
  OBVIOUS
<1>6. Cardinality(s) \in Nat
  BY <1>1, FS_CardinalityType
<1> QED BY <1>5, <1>6

Sums(f, B, g) ==
    AddsAny(f, B, g) /\ \A s \in SUBSET B : g[s] = SumFunctionOnSet(f, s)

\* One function holds the sums over all parts of a set.
LEMMA SumsOfParts ==
    ASSUME NEW B, IsFiniteSet(B), NEW f, Numeric(f, B)
    PROVE  \E g : Sums(f, B, g)
<1>1. PICK g : Adds(f, B, g)
  BY SumExists
<1>2. AddsAny(f, B, g)
  BY <1>1, AddsUp
<1>3. ASSUME NEW s \in SUBSET B PROVE g[s] = SumFunctionOnSet(f, s)
  <2>1. IsFiniteSet(s) /\ Numeric(f, s)
    BY FS_Subset DEF Numeric
  <2>2. PICK k : Adds(f, s, k) /\ k[s] = SumFunctionOnSet(f, s)
    BY <2>1, SumUnfolds
  <2>3. g[s] = k[s]
    BY <1>1, <2>2, SameSums
  <2> QED BY <2>2, <2>3
<1> QED BY <1>2, <1>3 DEF Sums

LEMMA SumEmpty == \A f : SumFunctionOnSet(f, {}) = 0
<1> TAKE f
<1>1. IsFiniteSet({}) /\ Numeric(f, {})
  BY FS_EmptySet DEF Numeric
<1> QED BY <1>1, SumsOfParts DEF Sums, AddsAny

LEMMA SumTake ==
    ASSUME NEW B, IsFiniteSet(B), NEW f, Numeric(f, B), NEW x \in B
    PROVE  /\ SumFunctionOnSet(f, B) = f[x] + SumFunctionOnSet(f, B \ {x})
           /\ SumFunctionOnSet(f, B) \in Int /\ SumFunctionOnSet(f, B \ {x}) \in Int
<1>1. PICK g : Sums(f, B, g)
  BY SumsOfParts
<1>2. B \in SUBSET B /\ B \ {x} \in SUBSET B
  OBVIOUS
<1> QED BY <1>1, <1>2 DEF Sums, AddsAny

LEMMA SumIsInt ==
    ASSUME NEW B, IsFiniteSet(B), NEW f, Numeric(f, B)
    PROVE  SumFunctionOnSet(f, B) \in Int
<1>1. CASE B = {}
  BY <1>1, SumEmpty
<1>2. CASE B # {}
  BY <1>2, SumTake
<1> QED BY <1>1, <1>2

LEMMA SumPut ==
    ASSUME NEW B, IsFiniteSet(B), NEW x, x \notin B, NEW f, Numeric(f, B \cup {x})
    PROVE  SumFunctionOnSet(f, B \cup {x}) = SumFunctionOnSet(f, B) + f[x]
<1>1. PICK C : C = B \cup {x}
  OBVIOUS
<1>2. IsFiniteSet(C) /\ x \in C /\ Numeric(f, C) /\ C \ {x} = B /\ f[x] \in Int
  BY <1>1, FS_AddElement DEF Numeric
<1> QED BY <1>1, <1>2, SumTake

\* A larger function has the larger sum.
LEMMA SumBelow ==
    ASSUME NEW B, IsFiniteSet(B), NEW f, Numeric(f, B), NEW h, Numeric(h, B),
           \A x \in B : f[x] <= h[x]
    PROVE  SumFunctionOnSet(f, B) <= SumFunctionOnSet(h, B)
<1>1. PICK g : /\ g \in [SUBSET B -> Int] /\ g[{}] = 0
               /\ \A s \in SUBSET B : /\ g[s] = SumFunctionOnSet(f, s)
                                      /\ \A y \in s : g[s] = f[y] + g[s \ {y}]
  <2>1. PICK g : Sums(f, B, g)
    BY SumsOfParts
  <2> QED BY <2>1 DEF Sums, AddsAny
<1>2. PICK k : /\ k \in [SUBSET B -> Int] /\ k[{}] = 0
               /\ \A s \in SUBSET B : /\ k[s] = SumFunctionOnSet(h, s)
                                      /\ \A y \in s : k[s] = h[y] + k[s \ {y}]
  <2>1. PICK k : Sums(h, B, k)
    BY SumsOfParts
  <2> QED BY <2>1 DEF Sums, AddsAny
<1> DEFINE Good == {n \in Nat : \A s \in SUBSET B : Cardinality(s) <= n => g[s] <= k[s]}
<1>3. \A s \in SUBSET B : IsFiniteSet(s) /\ Cardinality(s) \in Nat
  BY FS_Subset, FS_CardinalityType
<1>4. 0 \in Good
  <2> SUFFICES ASSUME NEW s \in SUBSET B, Cardinality(s) <= 0 PROVE g[s] <= k[s]
    OBVIOUS
  <2>1. Cardinality(s) = 0
    BY <1>3
  <2>2. s = {}
    BY <1>3, <2>1, FS_EmptySet
  <2> QED BY <1>1, <1>2, <2>2
<1>5. ASSUME NEW n \in Good PROVE n + 1 \in Good
  <2>1. n \in Nat /\ \A s \in SUBSET B : Cardinality(s) <= n => g[s] <= k[s]
    OBVIOUS
  <2> SUFFICES ASSUME NEW s \in SUBSET B, Cardinality(s) <= n + 1, s # {} PROVE g[s] <= k[s]
    <3>1. g[{}] <= k[{}]
      BY <1>1, <1>2
    <3> QED BY <2>1, <3>1
  <2>2. PICK x \in s : TRUE
    OBVIOUS
  <2>3. s \ {x} \in SUBSET B /\ Cardinality(s) = Cardinality(s \ {x}) + 1
        /\ Cardinality(s \ {x}) \in Nat
    BY <1>3, SmallerSet
  <2>4. g[s \ {x}] <= k[s \ {x}]
    BY <2>1, <2>3
  <2>5. g[s] = f[x] + g[s \ {x}] /\ k[s] = h[x] + k[s \ {x}]
    BY <1>1, <1>2
  <2>6. f[x] \in Int /\ h[x] \in Int /\ f[x] <= h[x] /\ g[s \ {x}] \in Int /\ k[s \ {x}] \in Int
    BY <1>1, <1>2, <2>3 DEF Numeric
  <2> QED BY <2>4, <2>5, <2>6
<1>6. Nat \subseteq Good
  <2> HIDE DEF Good
  <2> QED BY <1>4, <1>5, NatSetInduction
<1>7. g[B] <= k[B]
  <2>1. Cardinality(B) \in Good /\ B \in SUBSET B
    <3> HIDE DEF Good
    <3> QED BY <1>3, <1>6
  <2> QED BY <1>3, <2>1
<1> QED BY <1>1, <1>2, <1>7

LEMMA SumSame ==
    ASSUME NEW B, IsFiniteSet(B), NEW f, Numeric(f, B), NEW h, \A x \in B : f[x] = h[x]
    PROVE  SumFunctionOnSet(f, B) = SumFunctionOnSet(h, B)
<1>1. Numeric(h, B) /\ (\A x \in B : f[x] <= h[x]) /\ (\A x \in B : h[x] <= f[x])
  BY DEF Numeric
<1>2. /\ SumFunctionOnSet(f, B) <= SumFunctionOnSet(h, B)
      /\ SumFunctionOnSet(h, B) <= SumFunctionOnSet(f, B)
  BY <1>1, SumBelow
<1>3. SumFunctionOnSet(f, B) \in Int /\ SumFunctionOnSet(h, B) \in Int
  BY <1>1, SumIsInt
<1> QED BY <1>2, <1>3

\* Of numbers that are not negative fewer have the smaller sum.
LEMMA SumOfFewer ==
    ASSUME NEW B, IsFiniteSet(B), NEW f, \A x \in B : f[x] \in Nat, NEW C \in SUBSET B
    PROVE  /\ SumFunctionOnSet(f, B) \in Nat /\ SumFunctionOnSet(f, C) \in Nat
           /\ SumFunctionOnSet(f, C) <= SumFunctionOnSet(f, B)
<1>1. Numeric(f, B)
  BY DEF Numeric
<1>2. PICK g : /\ g \in [SUBSET B -> Int] /\ g[{}] = 0
               /\ \A s \in SUBSET B : /\ g[s] = SumFunctionOnSet(f, s)
                                      /\ \A y \in s : g[s] = f[y] + g[s \ {y}]
  <2>1. PICK g : Sums(f, B, g)
    BY <1>1, SumsOfParts
  <2> QED BY <2>1 DEF Sums, AddsAny
<1> DEFINE Good == {n \in Nat : \A s \in SUBSET B : Cardinality(s) <= n =>
                       g[s] >= 0 /\ g[s \cap C] >= 0 /\ g[s \cap C] <= g[s]}
<1>3. \A s \in SUBSET B : IsFiniteSet(s) /\ Cardinality(s) \in Nat
  BY FS_Subset, FS_CardinalityType
<1>4. {} \cap C = {}
  OBVIOUS
<1>5. 0 \in Good
  <2> SUFFICES ASSUME NEW s \in SUBSET B, Cardinality(s) <= 0
               PROVE g[s] >= 0 /\ g[s \cap C] >= 0 /\ g[s \cap C] <= g[s]
    OBVIOUS
  <2>1. Cardinality(s) = 0
    BY <1>3
  <2>2. s = {}
    BY <1>3, <2>1, FS_EmptySet
  <2> QED BY <1>2, <1>4, <2>2
<1>6. ASSUME NEW n \in Good PROVE n + 1 \in Good
  <2>1. n \in Nat /\ \A s \in SUBSET B : Cardinality(s) <= n =>
                       g[s] >= 0 /\ g[s \cap C] >= 0 /\ g[s \cap C] <= g[s]
    OBVIOUS
  <2> SUFFICES ASSUME NEW s \in SUBSET B, Cardinality(s) <= n + 1, s # {}
               PROVE g[s] >= 0 /\ g[s \cap C] >= 0 /\ g[s \cap C] <= g[s]
    <3>1. g[{}] >= 0 /\ g[{} \cap C] >= 0 /\ g[{} \cap C] <= g[{}]
      BY <1>2, <1>4
    <3> QED BY <2>1, <3>1
  <2>2. PICK x \in s : TRUE
    OBVIOUS
  <2>3. PICK u \in SUBSET B : /\ u = s \ {x} /\ Cardinality(s) = Cardinality(u) + 1
                             /\ Cardinality(u) \in Nat
    BY <1>3, SmallerSet
  <2>4. g[u] >= 0 /\ g[u \cap C] >= 0 /\ g[u \cap C] <= g[u]
    BY <2>1, <2>3
  <2>5. g[s] = f[x] + g[u] /\ f[x] \in Nat /\ g[u] \in Int
    BY <1>2, <2>3
  <2>6. CASE x \in C
    <3>1. (s \cap C) \ {x} = u \cap C /\ x \in s \cap C /\ s \cap C \in SUBSET B /\ u \cap C \in SUBSET B
      BY <2>3, <2>6
    <3>2. g[s \cap C] = f[x] + g[(s \cap C) \ {x}]
      BY <1>2, <3>1
    <3>3. g[s \cap C] = f[x] + g[u \cap C] /\ g[u \cap C] \in Int
      BY <1>2, <3>1, <3>2
    <3> QED BY <2>4, <2>5, <3>3
  <2>7. CASE x \notin C
    <3>1. s \cap C = u \cap C /\ u \cap C \in SUBSET B
      BY <2>3, <2>7
    <3>2. g[s \cap C] = g[u \cap C] /\ g[u \cap C] \in Int
      BY <1>2, <3>1
    <3> QED BY <2>4, <2>5, <3>2
  <2> QED BY <2>6, <2>7
<1>7. Nat \subseteq Good
  <2> HIDE DEF Good
  <2> QED BY <1>5, <1>6, NatSetInduction
<1>8. g[B] >= 0 /\ g[B \cap C] >= 0 /\ g[B \cap C] <= g[B]
  <2>1. Cardinality(B) \in Good /\ B \in SUBSET B
    <3> HIDE DEF Good
    <3> QED BY <1>3, <1>7
  <2> QED BY <1>3, <2>1
<1>9. B \cap C = C
  OBVIOUS
<1>10. /\ g[B] = SumFunctionOnSet(f, B) /\ g[C] = SumFunctionOnSet(f, C)
       /\ g[B] \in Int /\ g[C] \in Int
  BY <1>2
<1> QED BY <1>8, <1>9, <1>10

\* Zeros may be left out of a sum.
LEMMA SumOfZeros ==
    ASSUME NEW B, IsFiniteSet(B), NEW f, Numeric(f, B), NEW C \in SUBSET B,
           \A x \in B \ C : f[x] = 0
    PROVE  SumFunctionOnSet(f, B) = SumFunctionOnSet(f, C)
<1>1. PICK g : /\ g \in [SUBSET B -> Int] /\ g[{}] = 0
               /\ \A s \in SUBSET B : /\ g[s] = SumFunctionOnSet(f, s)
                                      /\ \A y \in s : g[s] = f[y] + g[s \ {y}]
  <2>1. PICK g : Sums(f, B, g)
    BY SumsOfParts
  <2>2. AddsAny(f, B, g) /\ \A s \in SUBSET B : g[s] = SumFunctionOnSet(f, s)
    BY <2>1 DEF Sums
  <2>3. /\ g \in [SUBSET B -> Int] /\ g[{}] = 0
        /\ \A s \in SUBSET B : \A y \in s : g[s] = f[y] + g[s \ {y}]
    BY <2>2 DEF AddsAny
  <2>4. /\ g \in [SUBSET B -> Int] /\ g[{}] = 0
        /\ \A s \in SUBSET B : /\ g[s] = SumFunctionOnSet(f, s)
                               /\ \A y \in s : g[s] = f[y] + g[s \ {y}]
    BY <2>2, <2>3
  <2> QED BY <2>4
<1> DEFINE Good == {n \in Nat : \A s \in SUBSET B : Cardinality(s) <= n => g[s] = g[s \cap C]}
<1>2. \A s \in SUBSET B : IsFiniteSet(s) /\ Cardinality(s) \in Nat
  BY FS_Subset, FS_CardinalityType
<1>3. 0 \in Good
  <2> SUFFICES ASSUME NEW s \in SUBSET B, Cardinality(s) <= 0 PROVE g[s] = g[s \cap C]
    OBVIOUS
  <2>1. Cardinality(s) = 0
    BY <1>2
  <2>2. s = {}
    BY <1>2, <2>1, FS_EmptySet
  <2>3. s \cap C = s
    BY <2>2
  <2> QED BY <2>3
<1>4. ASSUME NEW n \in Good PROVE n + 1 \in Good
  <2>1. n \in Nat /\ \A s \in SUBSET B : Cardinality(s) <= n => g[s] = g[s \cap C]
    OBVIOUS
  <2> SUFFICES ASSUME NEW s \in SUBSET B, Cardinality(s) <= n + 1, s # {}
               PROVE g[s] = g[s \cap C]
    <3>1. {} \cap C = {}
      OBVIOUS
    <3>2. g[{}] = g[{} \cap C]
      BY <3>1
    <3> QED BY <2>1, <3>2
  <2>2. PICK x \in s : TRUE
    OBVIOUS
  <2>3. PICK u \in SUBSET B : /\ u = s \ {x} /\ Cardinality(s) = Cardinality(u) + 1
                             /\ Cardinality(u) \in Nat
    BY <1>2, SmallerSet
  <2>4. g[u] = g[u \cap C]
    BY <2>1, <2>3
  <2>5. g[s] = f[x] + g[u] /\ f[x] \in Int /\ g[u] \in Int
    BY <1>1, <2>3 DEF Numeric
  <2>6. CASE x \in C
    <3>1. (s \cap C) \ {x} = u \cap C /\ x \in s \cap C /\ s \cap C \in SUBSET B
      BY <2>3, <2>6
    <3>2. g[s \cap C] = f[x] + g[(s \cap C) \ {x}]
      BY <1>1, <3>1
    <3> QED BY <2>4, <2>5, <3>1, <3>2
  <2>7. CASE x \notin C
    <3>1. s \cap C = u \cap C /\ x \in B \ C
      BY <2>3, <2>7
    <3>2. f[x] = 0
      BY <3>1
    <3>3. g[s \cap C] = g[u \cap C]
      BY <3>1
    <3>4. g[s] = g[u]
      BY <2>5, <3>2
    <3> QED BY <2>4, <3>3, <3>4
  <2> QED BY <2>6, <2>7
<1>5. Nat \subseteq Good
  <2> HIDE DEF Good
  <2> QED BY <1>3, <1>4, NatSetInduction
<1>6. g[B] = g[B \cap C]
  <2>1. Cardinality(B) \in Good /\ B \in SUBSET B
    <3> HIDE DEF Good
    <3> QED BY <1>2, <1>5
  <2> QED BY <1>2, <2>1
<1>7. B \cap C = C
  OBVIOUS
<1> QED BY <1>1, <1>6, <1>7

\* Max finds the largest number of a set that is bounded.
LEMMA MaxOfSet ==
    ASSUME NEW S \in SUBSET Nat, S # {}, NEW n \in Nat, \A x \in S : x <= n
    PROVE  Max(S) \in S /\ \A y \in S : y <= Max(S)
<1> DEFINE T == {n - x : x \in S}
<1>1. T \in SUBSET Nat /\ T # {}
  <2>1. \A x \in S : n - x \in Nat
    OBVIOUS
  <2> QED BY <2>1
<1>2. PICK m \in T : \A y \in T : m <= y
  <2> HIDE DEF T
  <2> QED BY <1>1, MinOfSet
<1>3. PICK x \in S : m = n - x
  OBVIOUS
<1>4. ASSUME NEW y \in S PROVE x >= y
  <2>1. n - y \in T
    OBVIOUS
  <2>2. m <= n - y
    BY <1>2, <2>1
  <2>3. x \in Int /\ y \in Int
    OBVIOUS
  <2> QED BY <1>3, <2>2, <2>3
<1>5. \E z \in S : \A y \in S : z >= y
  BY <1>4
<1> QED BY <1>5 DEF Max

\* A set of subsets with the empty set, and with each set of which it has the
\* rest, has them all.
LEMMA SubsetInduction ==
    ASSUME NEW B, IsFiniteSet(B), NEW P, {} \in P,
           \A s \in SUBSET B : \A x \in s : s \ {x} \in P => s \in P
    PROVE  B \in P
<1> DEFINE Good == {n \in Nat : \A s \in SUBSET B : Cardinality(s) <= n => s \in P}
<1>1. \A s \in SUBSET B : IsFiniteSet(s) /\ Cardinality(s) \in Nat
  BY FS_Subset, FS_CardinalityType
<1>2. 0 \in Good
  <2> SUFFICES ASSUME NEW s \in SUBSET B, Cardinality(s) <= 0 PROVE s \in P
    OBVIOUS
  <2>1. Cardinality(s) = 0
    BY <1>1
  <2> QED BY <1>1, <2>1, FS_EmptySet
<1>3. ASSUME NEW n \in Good PROVE n + 1 \in Good
  <2>1. n \in Nat /\ \A s \in SUBSET B : Cardinality(s) <= n => s \in P
    OBVIOUS
  <2> SUFFICES ASSUME NEW s \in SUBSET B, Cardinality(s) <= n + 1, s # {} PROVE s \in P
    BY <2>1
  <2>2. PICK x \in s : TRUE
    OBVIOUS
  <2>3. s \ {x} \in SUBSET B /\ Cardinality(s) = Cardinality(s \ {x}) + 1
        /\ Cardinality(s \ {x}) \in Nat
    BY <1>1, SmallerSet
  <2> QED BY <2>1, <2>3
<1>4. Nat \subseteq Good
  <2> HIDE DEF Good
  <2> QED BY <1>2, <1>3, NatSetInduction
<1>5. Cardinality(B) \in Good /\ B \in SUBSET B
  <2> HIDE DEF Good
  <2> QED BY <1>1, <1>4
<1> QED BY <1>1, <1>5

\* The sums over the parts of a set, as one function.
PartSum(f, B, g) ==
    /\ g \in [SUBSET B -> Int] /\ g[{}] = 0
    /\ \A s \in SUBSET B : g[s] = SumFunctionOnSet(f, s)
    /\ \A s \in SUBSET B : \A y \in s : g[s] = f[y] + g[s \ {y}]

LEMMA PartSums ==
    ASSUME NEW B, IsFiniteSet(B), NEW f, Numeric(f, B)
    PROVE  \E g : PartSum(f, B, g)
<1>1. PICK g : Sums(f, B, g)
  BY SumsOfParts
<1>2. AddsAny(f, B, g) /\ \A s \in SUBSET B : g[s] = SumFunctionOnSet(f, s)
  BY <1>1 DEF Sums
<1>3. /\ g \in [SUBSET B -> Int] /\ g[{}] = 0
      /\ \A s \in SUBSET B : \A y \in s : g[s] = f[y] + g[s \ {y}]
  BY <1>2 DEF AddsAny
<1> QED BY <1>2, <1>3 DEF PartSum

\* Proportions carry over from the parts to the sum.
LEMMA SumInProportion ==
    ASSUME NEW B, IsFiniteSet(B), NEW f, Numeric(f, B), NEW h, Numeric(h, B),
           NEW a \in Int, NEW b \in Int, \A x \in B : a * f[x] <= b * h[x]
    PROVE  a * SumFunctionOnSet(f, B) <= b * SumFunctionOnSet(h, B)
<1>1. PICK g : PartSum(f, B, g)
  BY PartSums
<1>2. PICK k : PartSum(h, B, k)
  BY PartSums
<1> DEFINE P == {s \in SUBSET B : a * g[s] <= b * k[s]}
<1>3. {} \in P
  <2>1. a * 0 = 0 /\ b * 0 = 0
    OBVIOUS
  <2> QED BY <1>1, <1>2, <2>1 DEF PartSum
<1>4. ASSUME NEW s \in SUBSET B, NEW x \in s, s \ {x} \in P PROVE s \in P
  <2>1. PICK u \in Int, v \in Int, m \in Int, n \in Int :
           /\ u = g[s \ {x}] /\ v = k[s \ {x}] /\ m = f[x] /\ n = h[x]
           /\ g[s] = m + u /\ k[s] = n + v
    <3>1. s \ {x} \in SUBSET B /\ x \in B
      OBVIOUS
    <3>2. f[x] \in Int /\ h[x] \in Int
      BY <3>1 DEF Numeric
    <3>3. g[s \ {x}] \in Int /\ g[s] = f[x] + g[s \ {x}]
      BY <1>1, <3>1 DEF PartSum
    <3>4. k[s \ {x}] \in Int /\ k[s] = h[x] + k[s \ {x}]
      BY <1>2, <3>1 DEF PartSum
    <3> QED BY <3>2, <3>3, <3>4
  <2>2. a * u <= b * v /\ a * m <= b * n
    BY <1>4, <2>1
  <2>3. a * (m + u) = a * m + a * u /\ b * (n + v) = b * n + b * v
    OBVIOUS
  <2>4. a * (m + u) <= b * (n + v)
    BY <2>2, <2>3
  <2> QED BY <2>1, <2>4
<1>5. B \in P
  <2> HIDE DEF P
  <2> QED BY <1>3, <1>4, SubsetInduction
<1>6. B \in SUBSET B
  OBVIOUS
<1> QED BY <1>1, <1>2, <1>5, <1>6 DEF PartSum

\* A sum of equal numbers.
LEMMA SumOfEquals ==
    ASSUME NEW B, IsFiniteSet(B), NEW c \in Int, NEW f, \A x \in B : f[x] = c
    PROVE  SumFunctionOnSet(f, B) = c * Cardinality(B)
<1>1. Numeric(f, B)
  BY DEF Numeric
<1>2. PICK g : PartSum(f, B, g)
  BY <1>1, PartSums
<1> DEFINE P == {s \in SUBSET B : g[s] = c * Cardinality(s)}
<1>3. {} \in P
  <2>1. c * 0 = 0 /\ Cardinality({}) = 0
    BY FS_EmptySet
  <2> QED BY <1>2, <2>1 DEF PartSum
<1>4. ASSUME NEW s \in SUBSET B, NEW x \in s, s \ {x} \in P PROVE s \in P
  <2>1. IsFiniteSet(s) /\ Cardinality(s) \in Nat
    BY FS_Subset, FS_CardinalityType
  <2>2. PICK u \in SUBSET B, n \in Nat :
           u = s \ {x} /\ n = Cardinality(u) /\ Cardinality(s) = n + 1
    BY <2>1, SmallerSet
  <2>3. g[s] = c + g[u] /\ g[u] = c * n
    BY <1>2, <1>4, <2>2 DEF PartSum
  <2>4. c * (n + 1) = c + c * n
    OBVIOUS
  <2> QED BY <2>2, <2>3, <2>4
<1>5. B \in P
  <2> HIDE DEF P
  <2> QED BY <1>3, <1>4, SubsetInduction
<1>6. B \in SUBSET B
  OBVIOUS
<1> QED BY <1>2, <1>5, <1>6 DEF PartSum

\* A sum is that over a part and that over the rest.
LEMMA SumSplits ==
    ASSUME NEW B, IsFiniteSet(B), NEW f, Numeric(f, B), NEW C \in SUBSET B
    PROVE  SumFunctionOnSet(f, B) = SumFunctionOnSet(f, C) + SumFunctionOnSet(f, B \ C)
<1>1. PICK g : PartSum(f, B, g)
  BY PartSums
<1> DEFINE P == {s \in SUBSET B : g[s] = g[s \cap C] + g[s \ C]}
<1>2. {} \in P
  <2>1. {} \cap C = {} /\ {} \ C = {}
    OBVIOUS
  <2> QED BY <1>1, <2>1 DEF PartSum
<1>3. ASSUME NEW s \in SUBSET B, NEW x \in s, s \ {x} \in P PROVE s \in P
  <2>1. PICK u \in SUBSET B, v \in SUBSET B, w \in SUBSET B :
           u = s \ {x} /\ v = u \cap C /\ w = u \ C
    OBVIOUS
  <2>2. f[x] \in Int /\ g[u] \in Int /\ g[v] \in Int /\ g[w] \in Int
    BY <1>1 DEF Numeric, PartSum
  <2>3. g[u] = g[v] + g[w] /\ g[s] = f[x] + g[u]
    BY <1>1, <1>3, <2>1 DEF PartSum
  <2>4. CASE x \in C
    <3>1. (s \cap C) \ {x} = v /\ s \ C = w /\ s \cap C \in SUBSET B /\ x \in s \cap C
      BY <2>1, <2>4
    <3>2. g[s \cap C] = f[x] + g[v] /\ g[s \ C] = g[w]
      BY <1>1, <3>1 DEF PartSum
    <3>3. g[s] = g[s \cap C] + g[s \ C]
      BY <2>2, <2>3, <3>2
    <3> QED BY <3>3
  <2>5. CASE x \notin C
    <3>1. (s \ C) \ {x} = w /\ s \cap C = v /\ s \ C \in SUBSET B /\ x \in s \ C
      BY <2>1, <2>5
    <3>2. g[s \ C] = f[x] + g[w] /\ g[s \cap C] = g[v]
      BY <1>1, <3>1 DEF PartSum
    <3>3. g[s] = g[s \cap C] + g[s \ C]
      BY <2>2, <2>3, <3>2
    <3> QED BY <3>3
  <2> QED BY <2>4, <2>5
<1>4. B \in P
  <2> HIDE DEF P
  <2> QED BY <1>2, <1>3, SubsetInduction
<1>5. B \cap C = C /\ B \in SUBSET B /\ C \in SUBSET B /\ B \ C \in SUBSET B
  OBVIOUS
<1> QED BY <1>1, <1>4, <1>5 DEF PartSum

-----------------------------------------------------------------------------
(* Division.                                                               *)

\* The quotient is the only number between whose products n is.
LEMMA QuotientIs ==
    ASSUME NEW s \in Nat, s > 0, NEW n \in Int, NEW q \in Int, s * q <= n, n < s * (q + 1)
    PROVE  n \div s = q
<1>1. PICK d \in Int : d = n \div s /\ s * d <= n /\ n < s * (d + 1)
  OBVIOUS
<1>2. ASSUME NEW a \in Int, NEW b \in Int, s * a <= n, n < s * (b + 1) PROVE ~(b < a)
  <2>1. SUFFICES ASSUME b + 1 <= a PROVE FALSE
    OBVIOUS
  <2>2. s * (b + 1) <= s * a
    BY <2>1
  <2> QED BY <1>2, <2>2
<1>3. ~(d < q) /\ ~(q < d)
  BY <1>1, <1>2
<1> QED BY <1>1, <1>3

\* Division with remainder.
LEMMA DivisionIs ==
    ASSUME NEW s \in Nat, s > 0, NEW q \in Int, NEW r \in 0..(s - 1)
    PROVE  (s * q + r) \div s = q /\ (s * q + r) % s = r
<1>1. PICK n \in Int : n = s * q + r
  OBVIOUS
<1>2. s * q <= n /\ n < s * (q + 1)
  BY <1>1
<1>3. n \div s = q
  BY <1>2, QuotientIs
<1>4. n % s = n - s * (n \div s)
  OBVIOUS
<1>5. n % s = r
  BY <1>1, <1>3, <1>4
<1> QED BY <1>1, <1>3, <1>5

\* Every number is one.
LEMMA DivisionExists ==
    ASSUME NEW s \in Nat, s > 0, NEW n \in Int
    PROVE  \E q \in Int, r \in 0..(s - 1) :
              n = s * q + r /\ q = n \div s /\ r = n % s /\ (n \in Nat => q \in Nat)
<1>1. PICK q \in Int, r \in 0..(s - 1) : n = s * q + r /\ q = n \div s /\ r = n % s
  OBVIOUS
<1>2. n \in Nat => q \in Nat
  <2>1. SUFFICES ASSUME n >= 0, q <= -1 PROVE FALSE
    OBVIOUS
  <2>2. s * q <= s * (-1)
    BY <2>1
  <2> QED BY <1>1, <2>1, <2>2
<1> QED BY <1>1, <1>2
===============================================================================
