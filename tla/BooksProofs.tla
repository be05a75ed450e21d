---------------------------- MODULE BooksProofs -----------------------------
(***************************************************************************)
(* Proofs about the two modules that keep accounts: KvBudget, for any      *)
(* sessions, sizes and budget, and Metering, for any sessions, rates,      *)
(* ceiling and amounts.  Both are about sums over sets, so the first part  *)
(* is about SumFunctionOnSet of the community modules.                     *)
(***************************************************************************)
EXTENDS KvBudget, Metering, FiniteSetTheorems,
        WellFoundedInduction, TLAPS

-----------------------------------------------------------------------------
(* Sums over finite sets.  SumFunctionOnSet is a fold, whose recursion is  *)
(* on the subsets of the set.  What holds for every natural number is shown*)
(* by the least-number principle, which is WFMin for the order of the      *)
(* naturals: a set of naturals with no least element is empty.             *)

\* The least natural number of a set.
LEMMA LeastNat ==
  ASSUME NEW T, T \subseteq Nat, T # {}
  PROVE  \E n \in T : \A m \in T : n <= m
<1>. DEFINE R == {ss \in Nat \X Nat : ss[1] < ss[2]}
<1>1. IsWellFoundedOn(R, Nat)
  BY NatLessThanWellFounded, Zenon DEF OpToRel
<1>2. \E x \in T : \A y \in T : ~ (<<y, x>> \in R)
  <2>. HIDE DEF R
  <2>. QED BY <1>1, WFMin, Zenon
<1>3. PICK x \in T : \A y \in T : ~ (<<y, x>> \in R)
  BY <1>2, Zenon
<1>4. ASSUME NEW y \in T
      PROVE  x <= y
  <2>1. ~ (<<y, x>> \in R)
    BY <1>3, Zenon
  <2>2. x \in Nat /\ y \in Nat
    BY Zenon
  <2>. QED  BY <2>1, <2>2
<1>. QED  BY <1>4, Zenon

\* Induction over the natural numbers, as a fact about a set of them.
LEMMA AllNaturals ==
  ASSUME NEW T \in SUBSET Nat, 0 \in T, \A n \in T : n + 1 \in T
  PROVE  T = Nat
<1>. SUFFICES ASSUME Nat \ T # {} PROVE FALSE
  BY Zenon
<1>1. PICK n \in Nat \ T : \A m \in Nat \ T : n <= m
  BY LeastNat, Zenon
<1>2. n # 0 /\ n - 1 \in Nat
  OBVIOUS
<1>3. n - 1 \in T
  BY <1>1, <1>2
<1>. QED  BY <1>2, <1>3

\* The element a fold over a set takes first.
Pick(s) == CHOOSE x \in s : TRUE

\* The subsets of S with at most n elements.
UpTo(S, n) == {s \in SUBSET S : Cardinality(s) <= n}

\* The recursion of the fold, on a family of sets.
Adds(f, D, g) == g = [s \in D |-> IF s = {} THEN 0 ELSE f[Pick(s)] + g[s \ {Pick(s)}]]

\* Taking it leaves a smaller set.
LEMMA Smaller ==
  ASSUME NEW S, IsFiniteSet(S), NEW s \in SUBSET S, s # {}
  PROVE  /\ Pick(s) \in s /\ IsFiniteSet(s) /\ s \ {Pick(s)} \in SUBSET S
         /\ Cardinality(s) \in Nat /\ Cardinality(s \ {Pick(s)}) = Cardinality(s) - 1
<1>1. Pick(s) \in s
  BY Zenon DEF Pick
<1>2. IsFiniteSet(s)
  BY FS_Subset, Zenon
<1>. QED  BY <1>1, <1>2, FS_RemoveElement, FS_CardinalityType, Zenon

\* Such a function exists: one for the sets of at most n elements gives one
\* for those of n + 1.
LEMMA AddsExists ==
  ASSUME NEW f, NEW S, IsFiniteSet(S)
  PROVE  \E g : Adds(f, SUBSET S, g)
<1>. DEFINE T == {n \in Nat : \E g : Adds(f, UpTo(S, n), g)}
<1>1. 0 \in T
  <2>. DEFINE g == [s \in UpTo(S, 0) |-> 0]
  <2>1. \A s \in UpTo(S, 0) : s = {}
    BY FS_Subset, FS_EmptySet, FS_CardinalityType DEF UpTo
  <2>2. Adds(f, UpTo(S, 0), g)
    BY <2>1, Zenon DEF Adds
  <2>. QED  BY <2>2, Zenon
<1>2. ASSUME NEW n \in T PROVE n + 1 \in T
  <2>1. PICK g : Adds(f, UpTo(S, n), g)
    BY Zenon
  <2>. DEFINE h == [s \in UpTo(S, n + 1) |->
                      IF s = {} THEN 0 ELSE f[Pick(s)] + g[s \ {Pick(s)}]]
  <2>2. ASSUME NEW s \in UpTo(S, n + 1), s # {}
        PROVE  h[s] = f[Pick(s)] + h[s \ {Pick(s)}]
    <3>1. s \ {Pick(s)} \in UpTo(S, n)
      BY <2>2, Smaller DEF UpTo
    <3>2. s \ {Pick(s)} \in UpTo(S, n + 1)
      BY <3>1, FS_Subset, FS_CardinalityType DEF UpTo
    <3>3. h[s \ {Pick(s)}] = g[s \ {Pick(s)}]
      BY <2>1, <3>1, <3>2, Zenon DEF Adds
    <3>. QED  BY <2>2, <3>3, Zenon
  <2>3. Adds(f, UpTo(S, n + 1), h)
    BY <2>2, Zenon DEF Adds
  <2>. QED  BY <2>3
<1>3. T = Nat
  <2>. HIDE DEF T
  <2>. QED  BY <1>1, <1>2, AllNaturals, Zenon DEF T
<1>4. UpTo(S, Cardinality(S)) = SUBSET S
  BY FS_Subset, FS_CardinalityType, Zenon DEF UpTo
<1>5. Cardinality(S) \in T
  BY <1>3, FS_CardinalityType, Zenon
<1>6. \E g : Adds(f, UpTo(S, Cardinality(S)), g)
  BY <1>5, Zenon
<1>. QED  BY <1>4, <1>6, Zenon
\* What the fold computes is a function that satisfies its recursion.
LEMMA SumAdds ==
  ASSUME NEW f, NEW S, IsFiniteSet(S)
  PROVE  \E g : Adds(f, SUBSET S, g) /\ SumFunctionOnSet(f, S) = g[S]
<1>1. SumFunctionOnSet(f, S) = (CHOOSE g : Adds(f, SUBSET S, g))[S]
  BY Zenon DEF SumFunctionOnSet, FoldFunctionOnSet, MapThenFoldSet, Adds, Pick
<1>. QED  BY <1>1, AddsExists, Zenon

\* Induction over the subsets of a finite set.
LEMMA AllSubsets ==
  ASSUME NEW S, IsFiniteSet(S), NEW F,
         \A s \in SUBSET S : (\A t \in SUBSET s : t # s => t \in F) => s \in F
  PROVE  S \in F
<1>. DEFINE Bad == {s \in SUBSET S : s \notin F}
            T == {Cardinality(s) : s \in Bad}
<1>. SUFFICES ASSUME Bad # {} PROVE FALSE
  BY Zenon
<1>1. T \subseteq Nat /\ T # {}
  BY FS_Subset, FS_CardinalityType
<1>2. PICK n \in T : \A m \in T : n <= m
  <2>. HIDE DEF T
  <2>. QED  BY <1>1, LeastNat, Zenon
<1>3. PICK s \in Bad : n = Cardinality(s)
  BY Zenon
<1>4. ASSUME NEW t \in SUBSET s, t # s
      PROVE  t \in F
  <2>1. IsFiniteSet(s) /\ IsFiniteSet(t)
    BY FS_Subset, Zenon
  <2>2. Cardinality(t) < Cardinality(s) /\ Cardinality(t) \in Nat /\ Cardinality(s) \in Nat
    BY <1>4, <2>1, FS_Subset, FS_CardinalityType
  <2>3. Cardinality(t) \notin T
    BY <1>2, <1>3, <2>2
  <2>. QED  BY <2>3, Zenon
<1>. QED  BY <1>3, <1>4, Zenon

\* The recursion on the subsets of a part computes what the one on all
\* subsets computes.
LEMMA AddsAgree ==
  ASSUME NEW f, NEW S, NEW U \in SUBSET S, NEW g, NEW h, IsFiniteSet(S),
         Adds(f, SUBSET S, g), Adds(f, SUBSET U, h)
  PROVE  g[U] = h[U]
<1>. DEFINE F == {s \in SUBSET U : g[s] = h[s]}
<1>1. IsFiniteSet(U)
  BY FS_Subset, Zenon
<1>2. ASSUME NEW s \in SUBSET U, \A t \in SUBSET s : t # s => t \in F
      PROVE  s \in F
  <2>1. CASE s = {}
    BY <2>1, Zenon DEF Adds
  <2>2. CASE s # {}
    <3>1. Pick(s) \in s
      BY <2>2, Zenon DEF Pick
    <3>2. s \ {Pick(s)} \in F
      BY <1>2, <3>1, Zenon
    <3>3. /\ g[s] = f[Pick(s)] + g[s \ {Pick(s)}]
          /\ h[s] = f[Pick(s)] + h[s \ {Pick(s)}]
      BY <2>2, Zenon DEF Adds
    <3>. QED  BY <3>2, <3>3, Zenon
  <2>. QED  BY <2>1, <2>2, Zenon
<1>3. U \in F
  <2>. HIDE DEF F
  <2>. QED  BY <1>1, <1>2, AllSubsets, Zenon
<1>. QED  BY <1>3, Zenon

\* The sum over no element.
LEMMA SumEmpty ==
  ASSUME NEW f
  PROVE  SumFunctionOnSet(f, {}) = 0
<1>1. PICK g : Adds(f, SUBSET {}, g) /\ SumFunctionOnSet(f, {}) = g[{}]
  BY SumAdds, FS_EmptySet, Zenon
<1>. QED  BY <1>1, Zenon DEF Adds

\* The sum takes one element after another.
LEMMA SumPick ==
  ASSUME NEW f, NEW S, IsFiniteSet(S), S # {}
  PROVE  SumFunctionOnSet(f, S) = f[Pick(S)] + SumFunctionOnSet(f, S \ {Pick(S)})
<1>. DEFINE U == S \ {Pick(S)}
<1>1. PICK g : Adds(f, SUBSET S, g) /\ SumFunctionOnSet(f, S) = g[S]
  BY SumAdds, Zenon
<1>2. IsFiniteSet(U) /\ U \in SUBSET S
  BY FS_Subset, Zenon
<1>3. PICK h : Adds(f, SUBSET U, h) /\ SumFunctionOnSet(f, U) = h[U]
  BY <1>2, SumAdds, Zenon
<1>4. g[U] = h[U]
  <2>1. \A W \in SUBSET S : Adds(f, SUBSET W, h) => g[W] = h[W]
    BY <1>1, AddsAgree
  <2>. HIDE DEF U
  <2>. QED  BY <1>2, <1>3, <2>1, Zenon
<1>5. g[S] = f[Pick(S)] + g[U]
  BY <1>1, Zenon DEF Adds
<1>. QED  BY <1>1, <1>3, <1>4, <1>5, Zenon

\* Sums of integers, and of natural numbers, are such numbers.
LEMMA SumInt ==
  ASSUME NEW f, NEW S, IsFiniteSet(S), \A x \in S : f[x] \in Int
  PROVE  SumFunctionOnSet(f, S) \in Int
<1>. DEFINE F == {s \in SUBSET S : SumFunctionOnSet(f, s) \in Int}
<1>1. ASSUME NEW s \in SUBSET S, \A t \in SUBSET s : t # s => t \in F
      PROVE  s \in F
  <2>1. CASE s = {}
    BY <2>1, SumEmpty
  <2>2. CASE s # {}
    <3>1. Pick(s) \in s /\ IsFiniteSet(s)
      BY <2>2, FS_Subset, Zenon DEF Pick
    <3>2. s \ {Pick(s)} \in F
      BY <1>1, <3>1, Zenon
    <3>. QED  BY <2>2, <3>1, <3>2, SumPick
  <2>. QED  BY <2>1, <2>2, Zenon
<1>2. S \in F
  <2>. HIDE DEF F
  <2>. QED  BY <1>1, AllSubsets, Zenon
<1>. QED  BY <1>2, Zenon

\* A sum over a set is any of its terms plus the sum over the others.
LEMMA SumStep ==
  ASSUME NEW f, NEW S, IsFiniteSet(S), \A x \in S : f[x] \in Int, NEW x \in S
  PROVE  SumFunctionOnSet(f, S) = f[x] + SumFunctionOnSet(f, S \ {x})
<1>. DEFINE Sum(s) == SumFunctionOnSet(f, s)
            F == {s \in SUBSET S : \A y \in s : Sum(s) = f[y] + Sum(s \ {y})}
<1>1. ASSUME NEW s \in SUBSET S, \A t \in SUBSET s : t # s => t \in F,
             NEW y \in s
      PROVE  Sum(s) = f[y] + Sum(s \ {y})
  <2>. DEFINE p == Pick(s)
  <2>1. p \in s /\ IsFiniteSet(s)
    BY FS_Subset, Zenon DEF Pick
  <2>2. Sum(s) = f[p] + Sum(s \ {p})
    BY <2>1, SumPick, Zenon
  <2>3. CASE y # p
    <3>1. s \ {p} \in F /\ y \in s \ {p} /\ s \ {y} \in F /\ p \in s \ {y}
      BY <1>1, <2>1, <2>3, Zenon
    <3>2. /\ Sum(s \ {p}) = f[y] + Sum((s \ {p}) \ {y})
          /\ Sum(s \ {y}) = f[p] + Sum((s \ {y}) \ {p})
      BY <3>1, Zenon
    <3>3. (s \ {p}) \ {y} = (s \ {y}) \ {p} /\ IsFiniteSet((s \ {y}) \ {p})
      BY <2>1, FS_Subset, Zenon
    <3>4. Sum((s \ {y}) \ {p}) \in Int
      BY <3>3, SumInt, Zenon
    <3>5. f[p] \in Int /\ f[y] \in Int
      BY <2>1, Zenon
    <3>6. Sum(s \ {p}) = f[y] + Sum((s \ {y}) \ {p})
      BY <3>2, <3>3, Zenon
    <3>7. \A a, b, z \in Int : a + (b + z) = b + (a + z)
      OBVIOUS
    <3>8. f[p] + (f[y] + Sum((s \ {y}) \ {p})) = f[y] + (f[p] + Sum((s \ {y}) \ {p}))
      BY <3>4, <3>5, <3>7, Zenon
    <3>. QED  BY <2>2, <3>2, <3>6, <3>8, Zenon
  <2>. QED  BY <2>2, <2>3, Zenon
<1>2. S \in F
  <2>1. \A s \in SUBSET S : (\A t \in SUBSET s : t # s => t \in F) => s \in F
    BY <1>1, Zenon
  <2>. HIDE DEF F
  <2>. QED  BY <2>1, AllSubsets, Zenon
<1>. QED  BY <1>2, Zenon

\* A sum of natural numbers is one.
LEMMA SumNat ==
  ASSUME NEW f, NEW S, IsFiniteSet(S), \A x \in S : f[x] \in Nat
  PROVE  SumFunctionOnSet(f, S) \in Nat
<1>. DEFINE F == {s \in SUBSET S : SumFunctionOnSet(f, s) \in Nat}
<1>1. ASSUME NEW s \in SUBSET S, \A t \in SUBSET s : t # s => t \in F
      PROVE  s \in F
  <2>1. CASE s = {}
    BY <2>1, SumEmpty
  <2>2. CASE s # {}
    <3>1. Pick(s) \in s /\ IsFiniteSet(s)
      BY <2>2, FS_Subset, Zenon DEF Pick
    <3>2. s \ {Pick(s)} \in F
      BY <1>1, <3>1, Zenon
    <3>. QED  BY <2>2, <3>1, <3>2, SumPick
  <2>. QED  BY <2>1, <2>2, Zenon
<1>2. S \in F
  <2>. HIDE DEF F
  <2>. QED  BY <1>1, AllSubsets, Zenon
<1>. QED  BY <1>2, Zenon

\* Only the terms of the set count.
LEMMA SumSame ==
  ASSUME NEW f, NEW g, NEW S, IsFiniteSet(S), \A x \in S : f[x] = g[x]
  PROVE  SumFunctionOnSet(f, S) = SumFunctionOnSet(g, S)
<1>. DEFINE F == {s \in SUBSET S : SumFunctionOnSet(f, s) = SumFunctionOnSet(g, s)}
<1>1. ASSUME NEW s \in SUBSET S, \A t \in SUBSET s : t # s => t \in F
      PROVE  s \in F
  <2>1. CASE s = {}
    BY <2>1, SumEmpty, Zenon
  <2>2. CASE s # {}
    <3>1. Pick(s) \in s /\ IsFiniteSet(s)
      BY <2>2, FS_Subset, Zenon DEF Pick
    <3>2. s \ {Pick(s)} \in F
      BY <1>1, <3>1, Zenon
    <3>. QED  BY <2>2, <3>1, <3>2, SumPick
  <2>. QED  BY <2>1, <2>2, Zenon
<1>2. S \in F
  <2>. HIDE DEF F
  <2>. QED  BY <1>1, AllSubsets, Zenon
<1>. QED  BY <1>2, Zenon

\* A sum of nothing but zeros.
LEMMA SumZero ==
  ASSUME NEW f, NEW S, IsFiniteSet(S), \A x \in S : f[x] = 0
  PROVE  SumFunctionOnSet(f, S) = 0
<1>. DEFINE F == {s \in SUBSET S : SumFunctionOnSet(f, s) = 0}
<1>1. ASSUME NEW s \in SUBSET S, \A t \in SUBSET s : t # s => t \in F
      PROVE  s \in F
  <2>1. CASE s = {}
    BY <2>1, SumEmpty, Zenon
  <2>2. CASE s # {}
    <3>1. Pick(s) \in s /\ IsFiniteSet(s)
      BY <2>2, FS_Subset, Zenon DEF Pick
    <3>2. s \ {Pick(s)} \in F
      BY <1>1, <3>1, Zenon
    <3>. QED  BY <2>2, <3>1, <3>2, SumPick
  <2>. QED  BY <2>1, <2>2, Zenon
<1>2. S \in F
  <2>. HIDE DEF F
  <2>. QED  BY <1>1, AllSubsets, Zenon
<1>. QED  BY <1>2, Zenon

\* The sum over a set is the sum over a part of it and the sum over the rest.
LEMMA SumParts ==
  ASSUME NEW f, NEW S, NEW V \in SUBSET S, IsFiniteSet(S), \A x \in S : f[x] \in Int
  PROVE  SumFunctionOnSet(f, S) = SumFunctionOnSet(f, V) + SumFunctionOnSet(f, S \ V)
<1>. DEFINE Sum(s) == SumFunctionOnSet(f, s)
            F == {s \in SUBSET V : Sum(S \ (V \ s)) = Sum(s) + Sum(S \ V)}
<1>0. IsFiniteSet(V) /\ IsFiniteSet(S \ V) /\ Sum(S \ V) \in Int
  BY FS_Subset, SumInt, Zenon
<1>1. ASSUME NEW s \in SUBSET V, \A t \in SUBSET s : t # s => t \in F
      PROVE  Sum(S \ (V \ s)) = Sum(s) + Sum(S \ V)
  <2>1. CASE s = {}
    <3>1. S \ (V \ s) = S \ V /\ Sum(s) = 0
      BY <2>1, SumEmpty, Zenon
    <3>2. 0 + Sum(S \ V) = Sum(S \ V)
      BY <1>0
    <3>. QED  BY <3>1, <3>2, Zenon
  <2>2. CASE s # {}
    <3>1. PICK x : x \in s
      BY <2>2, Zenon
    <3>. DEFINE r == s \ {x}
                B == S \ (V \ s)
    <3>2. /\ B \ {x} = S \ (V \ r) /\ x \in B /\ r \in F
          /\ IsFiniteSet(B) /\ IsFiniteSet(s) /\ IsFiniteSet(r)
      <4>1. B \ {x} = S \ (V \ r) /\ x \in B
        BY <1>1, <3>1, Zenon
      <4>2. r \in SUBSET s /\ r # s
        BY <3>1, Zenon
      <4>3. r \in F
        BY <1>1, <4>2, Zenon
      <4>4. IsFiniteSet(B) /\ IsFiniteSet(s)
        BY FS_Subset, Zenon
      <4>. QED  BY <4>1, <4>2, <4>3, <4>4, FS_Subset, Zenon
    <3>3. Sum(B) = f[x] + Sum(S \ (V \ r))
      <4>1. Sum(B) = f[x] + Sum(B \ {x})
        BY <3>2, SumStep
      <4>. QED  BY <3>2, <4>1, Zenon
    <3>4. Sum(s) = f[x] + Sum(r)
      BY <3>1, <3>2, SumStep
    <3>5. Sum(S \ (V \ r)) = Sum(r) + Sum(S \ V)
      BY <3>2, Zenon
    <3>6. Sum(r) \in Int /\ f[x] \in Int
      BY <3>1, <3>2, SumInt, Zenon
    <3>. HIDE DEF Sum, r, B
    <3>7. \A a, b, c \in Int : a + (b + c) = (a + b) + c
      OBVIOUS
    <3>8. f[x] + (Sum(r) + Sum(S \ V)) = (f[x] + Sum(r)) + Sum(S \ V)
      BY <1>0, <3>6, <3>7, Zenon
    <3>9. Sum(B) = Sum(s) + Sum(S \ V)
      BY <3>3, <3>4, <3>5, <3>8, Zenon
    <3>. QED  BY <3>9, Zenon DEF B
  <2>. QED  BY <2>1, <2>2, Zenon
<1>2. V \in F
  <2>1. \A s \in SUBSET V : (\A t \in SUBSET s : t # s => t \in F) => s \in F
    BY <1>1, Zenon
  <2>. HIDE DEF F
  <2>. QED  BY <1>0, <2>1, AllSubsets, Zenon
<1>3. S \ (V \ V) = S
  BY Zenon
<1>. QED  BY <1>2, <1>3, Zenon

\* A part of a sum of natural numbers is no more than the whole,
LEMMA SumMonotone ==
  ASSUME NEW f, NEW S, NEW V \in SUBSET S, IsFiniteSet(S), \A x \in S : f[x] \in Nat
  PROVE  SumFunctionOnSet(f, V) <= SumFunctionOnSet(f, S)
<1>1. /\ IsFiniteSet(V) /\ IsFiniteSet(S \ V)
      /\ \A x \in S : f[x] \in Int
  BY FS_Subset
<1>2. SumFunctionOnSet(f, S) = SumFunctionOnSet(f, V) + SumFunctionOnSet(f, S \ V)
  BY <1>1, SumParts
<1>3. SumFunctionOnSet(f, V) \in Nat /\ SumFunctionOnSet(f, S \ V) \in Nat
  BY <1>1, SumNat, Zenon
<1>. QED  BY <1>2, <1>3

\* and neither is one of its terms.
LEMMA SumTerm ==
  ASSUME NEW f, NEW S, NEW x \in S, IsFiniteSet(S), \A y \in S : f[y] \in Nat
  PROVE  f[x] <= SumFunctionOnSet(f, S)
<1>1. IsFiniteSet(S \ {x}) /\ \A y \in S : f[y] \in Int
  BY FS_Subset
<1>2. SumFunctionOnSet(f, S) = f[x] + SumFunctionOnSet(f, S \ {x})
  BY <1>1, SumStep
<1>3. SumFunctionOnSet(f, S \ {x}) \in Nat /\ f[x] \in Nat
  BY <1>1, SumNat, Zenon
<1>. QED  BY <1>2, <1>3

-----------------------------------------------------------------------------
(* KvBudget.  The sum is right only while entries that are gone count for  *)
(* nothing and no entry is negative (KvBooks); the order of eviction only  *)
(* while older is an order of all entries (Orders); and a session with a   *)
(* request in flight is safe only because its entry is marked.             *)

\* The types the arguments use, that no bytes are without an entry, and what a
\* reservation leaves.
KvBooks ==
  /\ phase \in [Caches -> Phases]
  /\ kv \subseteq Caches
  /\ bytes \in [Caches -> Nat] /\ \A t \in Caches \ kv : bytes[t] = 0
  /\ active \subseteq kv
  /\ kv_used \in Nat
  /\ to_drop \in [Caches -> SUBSET Caches]
  /\ to_tell \in [Caches -> SUBSET Caches]
  /\ cached \subseteq Caches
  /\ lost \subseteq Caches
  /\ FlightIsMarked

\* What a reservation takes: idle entries of other sessions.
LEMMA VictimsAreIdle ==
  ASSUME NEW s \in Caches, NEW n \in Sizes
  PROVE  Victims(s, n) \subseteq kv /\ Victims(s, n) \cap active = {} /\ s \notin Victims(s, n)
BY Zenon DEF Victims, Plan, Candidates

\* There are finitely many sessions (the entries of State::kv).
LEMMA CachesFinite == IsFiniteSet(Caches)
BY KvClassesAssumption, FS_Union, Zenon DEF Caches

\* What the sums of entries are: a part of the entries never adds up to more
\* than kv_used.
LEMMA PartOfUsed ==
  ASSUME KvBooks, KvAccounting, NEW V \in SUBSET Caches
  PROVE  /\ SumFunctionOnSet(bytes, V) \in Nat /\ SumFunctionOnSet(bytes, V) <= kv_used
         /\ saturating_sub(kv_used, SumFunctionOnSet(bytes, V))
              = kv_used - SumFunctionOnSet(bytes, V)
<1>1. \A x \in Caches : bytes[x] \in Nat
  BY Zenon DEF KvBooks
<1>2. IsFiniteSet(V) /\ IsFiniteSet(Caches)
  BY CachesFinite, FS_Subset, Zenon
<1>3. SumFunctionOnSet(bytes, V) \in Nat
  BY <1>1, <1>2, SumNat, Zenon
<1>4. SumFunctionOnSet(bytes, V) <= SumFunctionOnSet(bytes, Caches)
  BY <1>1, <1>2, SumMonotone, Zenon
<1>5. kv_used \in Nat /\ kv_used = SumFunctionOnSet(bytes, Caches)
  BY Zenon DEF KvBooks, KvAccounting
<1>. QED  BY <1>3, <1>4, <1>5 DEF saturating_sub

\* A larger set of victims makes at least as much room.
LEMMA MoreIsEnough ==
  ASSUME KvBooks, KvAccounting, NEW V \in SUBSET Caches, NEW W \in SUBSET V,
         NEW extra \in Nat, Enough(W, extra)
  PROVE  Enough(V, extra)
<1>1. W \in SUBSET Caches /\ IsFiniteSet(V) /\ \A x \in V : bytes[x] \in Nat
  BY CachesFinite, FS_Subset, Zenon DEF KvBooks
<1>2. SumFunctionOnSet(bytes, W) <= SumFunctionOnSet(bytes, V)
  BY <1>1, SumMonotone, Zenon
<1>3. /\ SumFunctionOnSet(bytes, W) \in Nat /\ SumFunctionOnSet(bytes, V) \in Nat
      /\ saturating_sub(kv_used, SumFunctionOnSet(bytes, W)) = kv_used - SumFunctionOnSet(bytes, W)
      /\ saturating_sub(kv_used, SumFunctionOnSet(bytes, V)) = kv_used - SumFunctionOnSet(bytes, V)
  BY <1>1, PartOfUsed, Zenon
<1>4. kv_used \in Nat /\ Budget \in Nat
  BY KvSizesAssumption, Zenon DEF KvBooks
<1>5. kv_used - SumFunctionOnSet(bytes, W) + extra <= Budget
  BY <1>3, Zenon DEF Enough
<1>6. kv_used - SumFunctionOnSet(bytes, V) + extra <= Budget
  BY <1>2, <1>3, <1>4, <1>5
<1>. QED  BY <1>3, <1>6, Zenon DEF Enough

\* A change of the entries of V to nothing and of s to n bytes.
LEMMA SumAfter ==
  ASSUME KvBooks, NEW V \in SUBSET Caches, NEW s \in Caches \ V, NEW n \in Nat
  PROVE  SumFunctionOnSet([t \in Caches |-> IF t = s THEN n ELSE IF t \in V THEN 0 ELSE bytes[t]], Caches)
           = SumFunctionOnSet(bytes, Caches) - SumFunctionOnSet(bytes, V) - bytes[s] + n
<1>. DEFINE g == [t \in Caches |-> IF t = s THEN n ELSE IF t \in V THEN 0 ELSE bytes[t]]
            R == Caches \ V
            Q == R \ {s}
<1>1. /\ IsFiniteSet(Caches) /\ IsFiniteSet(R) /\ IsFiniteSet(V) /\ IsFiniteSet(Q)
      /\ s \in R /\ R \subseteq Caches /\ Q \subseteq Caches
  BY CachesFinite, FS_Subset, Zenon
<1>2. /\ \A x \in Caches : bytes[x] \in Int
      /\ \A x \in Caches : g[x] \in Int
      /\ \A x \in V : g[x] = 0
      /\ \A x \in Q : g[x] = bytes[x]
      /\ g[s] = n
  BY DEF KvBooks
<1>. HIDE DEF g
<1>3. SumFunctionOnSet(bytes, Caches) = SumFunctionOnSet(bytes, V) + SumFunctionOnSet(bytes, R)
  BY <1>1, <1>2, SumParts
<1>4. SumFunctionOnSet(bytes, R) = bytes[s] + SumFunctionOnSet(bytes, Q)
  BY <1>1, <1>2, SumStep
<1>5. SumFunctionOnSet(g, Caches) = SumFunctionOnSet(g, V) + SumFunctionOnSet(g, R)
  BY <1>1, <1>2, SumParts
<1>6. SumFunctionOnSet(g, R) = g[s] + SumFunctionOnSet(g, Q)
  BY <1>1, <1>2, SumStep
<1>7. SumFunctionOnSet(g, V) = 0
  BY <1>1, <1>2, SumZero, Zenon
<1>8. SumFunctionOnSet(g, Q) = SumFunctionOnSet(bytes, Q)
  BY <1>1, <1>2, SumSame
<1>9. /\ SumFunctionOnSet(bytes, V) \in Int /\ SumFunctionOnSet(bytes, Q) \in Int
      /\ bytes[s] \in Int
  BY <1>1, <1>2, SumInt, Zenon
<1>10. SumFunctionOnSet(g, Caches)
         = SumFunctionOnSet(bytes, Caches) - SumFunctionOnSet(bytes, V) - bytes[s] + n
  <2>. HIDE DEF R, Q
  <2>. QED  BY <1>2, <1>3, <1>4, <1>5, <1>6, <1>7, <1>8, <1>9
<1>. QED  BY <1>10, Zenon DEF g

-----------------------------------------------------------------------------
\* Forgetting entries and using one just now keep the entries in order.
LEMMA UsedNowOrders ==
  ASSUME Orders(older, kv), NEW K \in SUBSET kv, NEW s, s \notin K
  PROVE  Orders(Among(K), K) /\ Orders(UsedNow(K, s), K \cup {s})
<1>1. /\ \A t, u \in K : <<t, u>> \in Among(K) <=> <<t, u>> \in older
      /\ Among(K) \subseteq K \X K
  BY Zenon DEF Among
<1>2. Orders(Among(K), K)
  BY <1>1, Zenon DEF Orders
<1>3. /\ \A t, u \in K \cup {s} : <<t, u>> \in UsedNow(K, s) <=>
                                \/ t \in K /\ u \in K /\ <<t, u>> \in Among(K)
                                \/ t \in K /\ u = s
      /\ UsedNow(K, s) \subseteq (K \cup {s}) \X (K \cup {s})
  BY <1>1, Zenon DEF UsedNow
<1>4. \A t, u \in K \cup {s} : <<t, u>> \in UsedNow(K, s) <=> (t # u /\ <<u, t>> \notin UsedNow(K, s))
  BY <1>2, <1>3 DEF Orders
<1>5. ASSUME NEW t \in K \cup {s}, NEW u \in K \cup {s}, NEW v \in K \cup {s},
             <<t, u>> \in UsedNow(K, s), <<u, v>> \in UsedNow(K, s)
      PROVE  <<t, v>> \in UsedNow(K, s)
  BY <1>2, <1>3, <1>5, Zenon DEF Orders
<1>. QED  BY <1>2, <1>3, <1>4, <1>5, Zenon DEF Orders

\* Bringing s up to date keeps the order.
LEMMA TouchedOrders ==
  ASSUME Orders(older, kv), NEW s
  PROVE  Orders(IF s \in kv THEN Touched(s) ELSE older, kv)
<1>1. CASE s \in kv
  <2>1. kv \ {s} \in SUBSET kv /\ s \notin kv \ {s} /\ (kv \ {s}) \cup {s} = kv
    BY <1>1, Zenon
  <2>2. Orders(UsedNow(kv \ {s}, s), (kv \ {s}) \cup {s})
    BY <2>1, UsedNowOrders, Zenon
  <2>. QED  BY <1>1, <2>1, <2>2, Zenon DEF Touched
<1>. QED  BY <1>1, Zenon

\* What a granted reservation leaves on the books.
LEMMA ReserveAccounts ==
  ASSUME KvBooks, KvAccounting, NEW s \in Caches, NEW n \in Sizes, Fits(s, n)
  PROVE  /\ UsedAfter(s, n) \in Nat /\ UsedAfter(s, n) <= Budget
         /\ UsedAfter(s, n) = kv_used - SumFunctionOnSet(bytes, Victims(s, n)) - bytes[s] + n
<1>. DEFINE V == Victims(s, n)
<1>1. V \in SUBSET Caches /\ n \in Nat /\ Budget \in Nat /\ bytes[s] \in Nat /\ kv_used \in Nat
      /\ kv_used <= Budget
  BY VictimsAreIdle, KvSizesAssumption, Zenon DEF KvBooks, KvAccounting
<1>2. /\ SumFunctionOnSet(bytes, V) \in Nat /\ SumFunctionOnSet(bytes, V) <= kv_used
      /\ saturating_sub(kv_used, SumFunctionOnSet(bytes, V)) = kv_used - SumFunctionOnSet(bytes, V)
  BY <1>1, PartOfUsed, Zenon
<1>3. CASE n > bytes[s]
  <2>1. Extra(s, n) = n - bytes[s] /\ V = Plan(s, Extra(s, n))
    BY <1>1, <1>3, Zenon DEF Extra, saturating_sub, Victims
  <2>2. kv_used - SumFunctionOnSet(bytes, V) + Extra(s, n) <= Budget
    BY <1>2, <1>3, <2>1, Zenon DEF Fits, Enough
  <2>3. UsedAfter(s, n) = kv_used - SumFunctionOnSet(bytes, V) + Extra(s, n)
    BY <1>2, <1>3, Zenon DEF UsedAfter
  <2>. HIDE DEF V
  <2>4. UsedAfter(s, n) = kv_used - SumFunctionOnSet(bytes, V) - bytes[s] + n
    BY <1>1, <1>2, <2>1, <2>3
  <2>5. UsedAfter(s, n) \in Nat /\ UsedAfter(s, n) <= Budget
    BY <1>1, <1>2, <1>3, <2>1, <2>2, <2>3
  <2>. QED  BY <2>4, <2>5, Zenon DEF V
<1>4. CASE ~ (n > bytes[s])
  <2>1. V = {} /\ SumFunctionOnSet(bytes, V) = 0
    BY <1>4, SumEmpty, Zenon DEF Victims
  <2>2. bytes[s] <= kv_used
    <3>1. IsFiniteSet(Caches) /\ \A t \in Caches : bytes[t] \in Nat
      BY CachesFinite, Zenon DEF KvBooks
    <3>2. bytes[s] <= SumFunctionOnSet(bytes, Caches)
      BY <3>1, SumTerm, Zenon
    <3>. QED  BY <3>2, Zenon DEF KvAccounting
  <2>3. UsedAfter(s, n) = kv_used - (bytes[s] - n)
    BY <1>1, <1>4, <2>2 DEF UsedAfter, saturating_sub
  <2>. HIDE DEF V
  <2>4. UsedAfter(s, n) = kv_used - SumFunctionOnSet(bytes, V) - bytes[s] + n
    BY <1>1, <2>1, <2>3
  <2>5. UsedAfter(s, n) \in Nat /\ UsedAfter(s, n) <= Budget
    BY <1>1, <1>4, <2>2, <2>3
  <2>. QED  BY <2>4, <2>5, Zenon DEF V
<1>. QED  BY <1>3, <1>4, Zenon

-----------------------------------------------------------------------------
\* The inductive invariant.
KvBalance == KvBooks /\ Orders(older, kv) /\ KvAccounting /\ CachesAccounted

\* reserve_kv: the victims' bytes leave kv_used, the new ones enter it, and
\* the order of use stays an order in which the session is now the youngest.
LEMMA ReserveKeeps ==
  ASSUME KvBalance, NEW s \in Caches, NEW n \in Sizes, ReserveKv(s, n)
  PROVE  KvBalance'
<1>. DEFINE V == Victims(s, n)
<1>1. V \subseteq kv /\ V \cap active = {} /\ s \notin V /\ n \in Nat
  BY VictimsAreIdle, KvSizesAssumption, Zenon
<1>2. /\ phase[s] = "idle" /\ to_drop[s] = {} /\ cached' = cached /\ Fits(s, n)
      /\ kv' = (kv \ V) \cup {s} /\ active' = active \cup {s}
      /\ bytes' = [t \in Caches |-> IF t = s THEN n ELSE IF t \in V THEN 0 ELSE bytes[t]]
      /\ older' = UsedNow(kv \ (V \cup {s}), s) /\ kv_used' = UsedAfter(s, n)
      /\ to_drop' = [to_drop EXCEPT ![s] = V] /\ phase' = [phase EXCEPT ![s] = "reserved"]
      /\ to_tell' = [to_tell EXCEPT ![s] = V] /\ lost' = lost \cup V
  BY Zenon DEF ReserveKv, Rests, Enter
<1>3. Orders(older', kv')
  <2>1. /\ kv \ (V \cup {s}) \in SUBSET kv /\ s \notin kv \ (V \cup {s})
        /\ (kv \ (V \cup {s})) \cup {s} = kv'
    BY <1>1, <1>2, Zenon
  <2>2. Orders(UsedNow(kv \ (V \cup {s}), s), (kv \ (V \cup {s})) \cup {s})
    BY <2>1, UsedNowOrders, Zenon DEF KvBalance
  <2>. QED  BY <1>2, <2>1, <2>2, Zenon
<1>4. kv_used' \in Nat /\ KvAccounting'
  <2>1. /\ kv_used' \in Nat /\ kv_used' <= Budget
        /\ kv_used' = kv_used - SumFunctionOnSet(bytes, V) - bytes[s] + n
    BY <1>2, ReserveAccounts, Zenon DEF KvBalance
  <2>2. V \in SUBSET Caches /\ s \in Caches \ V
    BY <1>1, Zenon DEF KvBalance, KvBooks
  <2>3. SumFunctionOnSet(bytes', Caches)
          = SumFunctionOnSet(bytes, Caches) - SumFunctionOnSet(bytes, V) - bytes[s] + n
    <3>. HIDE DEF V
    <3>. QED  BY <1>1, <1>2, <2>2, SumAfter, Zenon DEF KvBalance
  <2>. QED  BY <2>1, <2>3, Zenon DEF KvBalance, KvAccounting
<1>. HIDE DEF V
<1>5. KvBooks'
  <2>1. /\ phase' \in [Caches -> Phases] /\ kv' \subseteq Caches /\ active' \subseteq kv'
        /\ to_drop' \in [Caches -> SUBSET Caches] /\ to_tell' \in [Caches -> SUBSET Caches]
        /\ cached' \subseteq Caches /\ lost' \subseteq Caches
    BY <1>1, <1>2, Zenon DEF KvBalance, KvBooks, Phases
  <2>2. bytes' \in [Caches -> Nat] /\ \A t \in Caches \ kv' : bytes'[t] = 0
    BY <1>1, <1>2, Zenon DEF KvBalance, KvBooks
  <2>3. FlightIsMarked'
    BY <1>1, <1>2, Zenon DEF KvBalance, KvBooks, FlightIsMarked
  <2>. QED  BY <1>4, <2>1, <2>2, <2>3, Zenon DEF KvBooks
<1>6. CachesAccounted'
  <2>1. /\ to_drop'[s] = V
        /\ \A t \in Caches : t # s => to_drop'[t] = to_drop[t] /\ phase'[t] = phase[t]
    BY <1>2, Zenon DEF KvBalance, KvBooks
  <2>. QED  BY <1>2, <2>1 DEF KvBalance, CachesAccounted
<1>. QED  BY <1>3, <1>4, <1>5, <1>6, Zenon DEF KvBalance

\* release_kv: the bytes go with the entry.
LEMMA ReleaseKeeps ==
  ASSUME KvBalance, NEW s \in Caches, ReleaseKv(s)
  PROVE  KvBalance'
<1>1. /\ phase[s] = "idle" /\ to_drop[s] = {} /\ cached' = cached
      /\ kv' = kv \ {s} /\ active' = active \ {s} /\ bytes' = [bytes EXCEPT ![s] = 0]
      /\ older' = Among(kv \ {s}) /\ kv_used' = saturating_sub(kv_used, bytes[s])
      /\ phase' = [phase EXCEPT ![s] = "retiring"] /\ lost' = lost \ {s}
      /\ to_drop' = to_drop /\ to_tell' = to_tell
  BY Zenon DEF ReleaseKv, Rests, Enter
<1>2. Orders(older', kv')
  <2>1. kv \ {s} \in SUBSET kv /\ s \notin kv \ {s}
    BY Zenon
  <2>. QED  BY <1>1, <2>1, UsedNowOrders, Zenon DEF KvBalance
<1>3. kv_used' \in Nat /\ KvAccounting'
  <2>1. /\ IsFiniteSet(Caches) /\ bytes \in [Caches -> Nat] /\ \A t \in Caches : bytes[t] \in Nat
        /\ kv_used \in Nat /\ kv_used = SumFunctionOnSet(bytes, Caches) /\ kv_used <= Budget
    BY CachesFinite, Zenon DEF KvBalance, KvBooks, KvAccounting
  <2>2. bytes[s] <= SumFunctionOnSet(bytes, Caches)
    BY <2>1, SumTerm, Zenon
  <2>3. kv_used' = kv_used - bytes[s] /\ kv_used' \in Nat
    BY <1>1, <2>1, <2>2 DEF saturating_sub
  <2>4. SumFunctionOnSet(bytes', Caches) = SumFunctionOnSet(bytes, Caches) - 0 - bytes[s] + 0
    <3>1. bytes' = [t \in Caches |-> IF t = s THEN 0 ELSE IF t \in {} THEN 0 ELSE bytes[t]]
      BY <1>1, <2>1, Zenon
    <3>2. SumFunctionOnSet(bytes, {}) = 0
      BY SumEmpty, Zenon
    <3>3. {} \in SUBSET Caches /\ s \in Caches \ {} /\ 0 \in Nat
      BY Zenon
    <3>4. SumFunctionOnSet(bytes', Caches)
            = SumFunctionOnSet(bytes, Caches) - SumFunctionOnSet(bytes, {}) - bytes[s] + 0
      BY <3>1, <3>3, SumAfter, Zenon DEF KvBalance
    <3>. QED  BY <3>2, <3>4, Zenon
  <2>5. Budget \in Nat
    BY KvSizesAssumption, Zenon
  <2>6. kv_used' = SumFunctionOnSet(bytes', Caches) /\ kv_used' <= Budget
    BY <2>1, <2>3, <2>4, <2>5
  <2>. QED  BY <2>3, <2>6, Zenon DEF KvAccounting
<1>4. KvBooks'
  <2>1. /\ phase' \in [Caches -> Phases] /\ kv' \subseteq Caches /\ active' \subseteq kv'
        /\ to_drop' \in [Caches -> SUBSET Caches] /\ to_tell' \in [Caches -> SUBSET Caches]
        /\ cached' \subseteq Caches /\ lost' \subseteq Caches
    BY <1>1, Zenon DEF KvBalance, KvBooks, Phases
  <2>2. bytes' \in [Caches -> Nat] /\ \A t \in Caches \ kv' : bytes'[t] = 0
    BY <1>1, Zenon DEF KvBalance, KvBooks
  <2>3. FlightIsMarked'
    BY <1>1, Zenon DEF KvBalance, KvBooks, FlightIsMarked
  <2>. QED  BY <1>3, <2>1, <2>2, <2>3, Zenon DEF KvBooks
<1>5. CachesAccounted'
  BY <1>1, Zenon DEF KvBalance, KvBooks, CachesAccounted
<1>. QED  BY <1>2, <1>3, <1>4, <1>5, Zenon DEF KvBalance

\* The steps that leave the entries and their sizes alone.
LEMMA OthersKeep ==
  ASSUME KvBalance, NEW s \in Caches,
         \/ \E n \in Sizes : ReserveFails(s, n)
         \/ DropCache(s) \/ Tell(s) \/ AbandonTurn(s) \/ Decode(s) \/ Token(s)
         \/ EndTurn(s) \/ Media(s) \/ RetireCache(s) \/ UNCHANGED kvVars
  PROVE  KvBalance' /\ kv' = kv
<1>1. UNCHANGED <<kv, bytes, kv_used>> /\ Orders(older', kv')
  <2>1. Orders(older, kv)
    BY Zenon DEF KvBalance
  <2>2. Orders(IF s \in kv THEN Touched(s) ELSE older, kv)
    BY <2>1, TouchedOrders, Zenon
  <2>3. UNCHANGED <<kv, bytes, kv_used>>
    BY Zenon DEF ReserveFails, kvVars, DropCache, accounting, Tell, AbandonTurn, Decode, Token,
       EndTurn,
           Media, MarkIdle, RetireCache
  <2>4. older' = older \/ older' = IF s \in kv THEN Touched(s) ELSE older
    BY Zenon DEF ReserveFails, kvVars, DropCache, accounting, Tell, AbandonTurn, Decode, Token,
       EndTurn,
           Media, MarkIdle, RetireCache
  <2>. QED  BY <2>1, <2>2, <2>3, <2>4, Zenon
<1>2. KvAccounting'
  BY <1>1, Zenon DEF KvBalance, KvAccounting
<1>3. KvBooks' /\ CachesAccounted'
  <2>0. KvBooks /\ CachesAccounted
    BY Zenon DEF KvBalance
  <2>1. ASSUME NEW n \in Sizes, ReserveFails(s, n)
        PROVE  KvBooks' /\ CachesAccounted'
    BY <2>0, <2>1, Zenon DEF ReserveFails, kvVars, KvBooks, FlightIsMarked, CachesAccounted
  <2>2. CASE UNCHANGED kvVars
    BY <2>0, <2>2, Zenon DEF kvVars, KvBooks, FlightIsMarked, CachesAccounted
  <2>3. CASE DropCache(s)
    <3>1. PICK v \in to_drop[s] : /\ cached' = cached \ {v}
                                  /\ to_drop' = [to_drop EXCEPT ![s] = @ \ {v}]
      BY <2>3, Zenon DEF DropCache
    <3>2. UNCHANGED <<phase, kv, bytes, active, kv_used, to_tell, lost>>
      BY <2>3, Zenon DEF DropCache, accounting
    <3>3. \A t \in Caches : to_drop[t] \ {v} \subseteq to_drop'[t] /\ to_drop'[t] \subseteq to_drop[t]
      BY <2>0, <3>1, Zenon DEF KvBooks
    <3>4. CachesAccounted'
      BY <2>0, <3>1, <3>2, <3>3, Zenon DEF CachesAccounted
    <3>. QED  BY <2>0, <3>1, <3>2, <3>4, Zenon DEF KvBooks, FlightIsMarked
  <2>4. CASE Tell(s)
    <3>1. /\ UNCHANGED <<phase, kv, bytes, active, kv_used, to_drop, cached>>
          /\ \E v \in to_tell[s] : to_tell' = [to_tell EXCEPT ![s] = @ \ {v}]
          /\ lost' \subseteq lost
      BY <2>4, Zenon DEF Tell, accounting
    <3>. QED  BY <2>0, <3>1 DEF KvBooks, FlightIsMarked, CachesAccounted
  <2>5. CASE Token(s)
    BY <2>0, <2>5, Zenon DEF Token, KvBooks, FlightIsMarked, CachesAccounted
  <2>6. CASE AbandonTurn(s)
    BY <2>0, <2>6, Zenon DEF AbandonTurn, Rests, Enter, accounting, KvBooks, FlightIsMarked,
       CachesAccounted, Phases
  <2>7. CASE Decode(s)
    <3>1. /\ UNCHANGED <<kv, bytes, active, kv_used, to_drop, to_tell, lost>>
          /\ phase[s] = "reserved" /\ phase' = [phase EXCEPT ![s] = "decoding"]
          /\ cached' = cached \cup {s}
      BY <2>7, Zenon DEF Decode, Rests, Enter, accounting
    <3>2. s \in kv
      BY <2>0, <3>1, Zenon DEF KvBooks, FlightIsMarked
    <3>3. CachesAccounted'
      BY <2>0, <3>1, <3>2, Zenon DEF KvBooks, CachesAccounted
    <3>. QED  BY <2>0, <3>1, <3>3, Zenon DEF KvBooks, FlightIsMarked, Phases
  <2>8. CASE EndTurn(s) \/ Media(s)
    <3>1. /\ active' = active \ {s} /\ UNCHANGED <<kv, bytes, kv_used, to_drop, to_tell, cached, lost>>
          /\ phase[s] # "retiring" /\ phase' = [phase EXCEPT ![s] = "idle"]
      BY <2>0, <2>8, Zenon DEF EndTurn, Media, MarkIdle, Rests, Enter, KvBooks
    <3>2. KvBooks'
      BY <2>0, <3>1, Zenon DEF KvBooks, FlightIsMarked, Phases
    <3>3. CachesAccounted'
      BY <2>0, <3>1, Zenon DEF KvBooks, CachesAccounted
    <3>. QED  BY <3>2, <3>3, Zenon
  <2>9. CASE RetireCache(s)
    BY <2>0, <2>9, Zenon DEF RetireCache, Rests, Enter, accounting, KvBooks, FlightIsMarked,
       CachesAccounted, Phases
  <2>. QED
    BY <2>1, <2>2, <2>3, <2>4, <2>5, <2>6, <2>7, <2>8, <2>9, Zenon
<1>. QED  BY <1>1, <1>2, <1>3, Zenon DEF KvBalance

\* Every step keeps the invariant.
LEMMA KvBalanceKept == ASSUME KvBalance, [KvNext]_kvVars PROVE KvBalance'
<1>1. CASE UNCHANGED kvVars
  BY <1>1, Zenon DEF kvVars, KvBalance, KvBooks, FlightIsMarked, KvAccounting, CachesAccounted
<1>2. ASSUME NEW s \in Caches, CacheStep(s) PROVE KvBalance'
  BY <1>2, ReserveKeeps, ReleaseKeeps, OthersKeep, Zenon DEF CacheStep
<1>. QED  BY <1>1, <1>2, Zenon DEF KvNext

\* So it holds always.
LEMMA KvBalanceHolds == KvSpec => []KvBalance
<1>1. KvInit => KvBalance
  <2>. SUFFICES ASSUME KvInit PROVE KvBalance
    BY Zenon
  <2>1. KvBooks /\ CachesAccounted
    BY Zenon DEF KvInit, KvBooks, FlightIsMarked, CachesAccounted, Phases
  <2>2. Orders(older, kv)
    BY Zenon DEF KvInit, Orders
  <2>3. SumFunctionOnSet(bytes, Caches) = 0
    <3>1. \A t \in Caches : bytes[t] = 0
      BY Zenon DEF KvInit
    <3>. QED  BY <3>1, CachesFinite, SumZero, Zenon
  <2>4. KvAccounting
    BY <2>3, KvSizesAssumption DEF KvInit, KvAccounting
  <2>. QED  BY <2>1, <2>2, <2>4, Zenon DEF KvBalance
<1>. QED  BY <1>1, KvBalanceKept, PTL DEF KvSpec

\* The accounting of KV memory (sched.rs, reserve_kv and release_kv): for any
\* sessions, sizes and budget, kv_used is exactly the sum of the entries and
\* never over the budget, a session with a request in flight has its entry
\* marked, and the backend holds no cache that neither the entries nor a
\* drop_cache on its way account for.
THEOREM KvInvHolds == KvSpec => []KvInv
<1>1. KvBalance => KvInv
  BY Zenon DEF KvBalance, KvBooks, KvInv, KvTypeOK
<1>. QED  BY <1>1, KvBalanceHolds, PTL

-----------------------------------------------------------------------------
\* The order of the plan is a strict total order on the candidates.
LEMMA PlanOrder ==
  ASSUME KvBalance
  PROVE  /\ \A t, u \in kv : t # u => GoesBefore(t, u) \/ GoesBefore(u, t)
         /\ \A t \in kv : ~ GoesBefore(t, t)
         /\ \A t, u, v \in kv : GoesBefore(t, u) /\ GoesBefore(u, v) => GoesBefore(t, v)
<1>1. Orders(older, kv) /\ kv \subseteq InteractiveCaches \cup BackgroundCaches
      /\ InteractiveCaches \cap BackgroundCaches = {}
  BY KvClassesAssumption, Zenon DEF KvBalance, KvBooks, Caches
<1>2. \A t, u \in kv : t # u => GoesBefore(t, u) \/ GoesBefore(u, t)
  BY <1>1, Zenon DEF GoesBefore, Orders
<1>3. \A t \in kv : ~ GoesBefore(t, t)
  BY <1>1, Zenon DEF GoesBefore, Orders
<1>4. ASSUME NEW t \in kv, NEW u \in kv, NEW v \in kv, GoesBefore(t, u), GoesBefore(u, v)
      PROVE  GoesBefore(t, v)
  BY <1>1, <1>4, Zenon DEF GoesBefore, Orders
<1>. QED  BY <1>2, <1>3, <1>4, Zenon

\* A plan takes, with a victim, every candidate that goes before it.
LEMMA PlanDownward ==
  ASSUME KvBalance, NEW s \in Caches, NEW extra \in Nat,
         NEW t \in Candidates(s), NEW v \in Plan(s, extra), GoesBefore(t, v)
  PROVE  t \in Plan(s, extra)
<1>. DEFINE Before(x) == {u \in Candidates(s) : GoesBefore(u, x)}
<1>1. Candidates(s) \subseteq kv /\ kv \subseteq Caches /\ v \in Candidates(s) /\ ~ Enough(Before(v), extra)
  BY Zenon DEF Candidates, Plan, KvBalance, KvBooks
<1>2. Before(t) \subseteq Before(v) /\ Before(v) \subseteq Caches
  BY <1>1, PlanOrder, Zenon
<1>. HIDE DEF Before
<1>3. ~ Enough(Before(t), extra)
  BY <1>1, <1>2, MoreIsEnough, Zenon DEF KvBalance
<1>. QED  BY <1>3, Zenon DEF Plan, Before

\* What one step may evict: nothing in flight, in the order of candidates,
\* and nothing it could do without.
LEMMA StepsEvictRight ==
  ASSUME KvBalance, [KvNext]_kvVars
  PROVE  [InFlightKept /\ EvictionOrder /\ NoNeedlessEviction]_kvVars
<1>. SUFFICES ASSUME NEW s \in Caches, CacheStep(s)
              PROVE  InFlightKept /\ EvictionOrder /\ NoNeedlessEviction
  BY Zenon DEF KvNext
<1>1. CASE kv' = kv
  BY <1>1, Zenon DEF InFlightKept, EvictionOrder, NoNeedlessEviction, Evicted
<1>2. CASE ReleaseKv(s)
  <2>1. kv' = kv \ {s} /\ phase[s] = "idle" /\ phase'[s] = "retiring"
    BY <1>2, Zenon DEF ReleaseKv, Rests, Enter, KvBalance, KvBooks
  <2>2. Evicted = {}
    BY <2>1, Zenon DEF Evicted
  <2>. QED  BY <2>1, <2>2, Zenon DEF InFlightKept, EvictionOrder, NoNeedlessEviction
<1>3. ASSUME NEW n \in Sizes, ReserveKv(s, n)
      PROVE  InFlightKept /\ EvictionOrder /\ NoNeedlessEviction
  <2>. DEFINE V == Victims(s, n)
              extra == Extra(s, n)
  <2>1. /\ V \subseteq kv /\ V \cap active = {} /\ s \notin V /\ kv' = (kv \ V) \cup {s}
        /\ active' = active \cup {s} /\ Fits(s, n) /\ kv_used' = UsedAfter(s, n)
        /\ kv \subseteq Caches
    BY <1>3, VictimsAreIdle, Zenon DEF ReserveKv, KvBalance, KvBooks
  <2>2. Evicted \subseteq V
    BY <2>1, Zenon DEF Evicted
  <2>3. InFlightKept
    BY <2>1, Zenon DEF KvBalance, KvBooks, FlightIsMarked, InFlightKept
  <2>4. ASSUME V # {}
        PROVE  V = Plan(s, extra) /\ n > bytes[s] /\ extra \in Nat /\ extra = n - bytes[s]
    <3>1. n \in Nat /\ bytes[s] \in Nat
      BY KvSizesAssumption, Zenon DEF KvBalance, KvBooks
    <3>. QED  BY <2>4, <3>1 DEF Victims, Extra, saturating_sub
  <2>5. Evicted = V
    <3>1. \A t \in Caches : t # s => phase'[t] = phase[t]
      BY <1>3, Zenon DEF ReserveKv, Enter, KvBalance, KvBooks
    <3>. QED  BY <2>1, <3>1, Zenon DEF Evicted
  <2>6. ASSUME NEW v \in V, NEW u \in (kv \cap kv') \ (active \cup active')
        PROVE  GoesBefore(v, u)
    <3>1. u \in Candidates(s) /\ u \notin V /\ u \in kv /\ v \in kv /\ u # v
      BY <2>1, <2>6, Zenon DEF Candidates
    <3>2. ~ GoesBefore(u, v)
      BY <2>4, <3>1, PlanDownward, Zenon
    <3>. QED  BY <3>1, <3>2, PlanOrder, Zenon
  <2>7. EvictionOrder
    <3>1. /\ \A t \in kv : t \in InteractiveCaches \/ t \in BackgroundCaches
          /\ InteractiveCaches \cap BackgroundCaches = {}
      BY <2>1, KvClassesAssumption, Zenon DEF Caches
    <3>2. ASSUME NEW v \in Evicted, NEW u \in (kv \cap kv') \ (active \cup active')
          PROVE  /\ v \in InteractiveCaches => u \in InteractiveCaches
                 /\ (v \in InteractiveCaches <=> u \in InteractiveCaches) => <<v, u>> \in older
      <4>1. v \in kv /\ u \in kv /\ GoesBefore(v, u)
        BY <2>1, <2>2, <2>6, Zenon
      <4>. QED  BY <3>1, <4>1, Zenon DEF GoesBefore
    <3>. QED  BY <3>2, Zenon DEF EvictionOrder
  <2>8. ASSUME NEW v \in V, \A u \in V : ~ GoesBefore(v, u)
        PROVE  kv_used' + bytes[v] > Budget
    <3>. DEFINE Before == {u \in Candidates(s) : GoesBefore(u, v)}
    <3>1. V = Plan(s, extra) /\ n > bytes[s] /\ extra \in Nat /\ extra = n - bytes[s]
      BY <2>4, Zenon
    <3>2. ~ Enough(Before, extra)
      BY <3>1, Zenon DEF Plan
    <3>3. Before = V \ {v}
      <4>1. Before \subseteq V \ {v}
        <5>1. \A u \in Before : u \in V
          BY <3>1, PlanDownward, Zenon
        <5>. QED  BY <2>1, <5>1, PlanOrder, Zenon
      <4>2. V \ {v} \subseteq Before
        <5>1. V \subseteq Candidates(s)
          BY <3>1, Zenon DEF Plan
        <5>. QED  BY <2>1, <2>8, <5>1, PlanOrder, Zenon
      <4>. QED  BY <4>1, <4>2, Zenon
    <3>4. /\ V \in SUBSET Caches /\ V \ {v} \in SUBSET Caches /\ IsFiniteSet(V)
          /\ \A t \in V : bytes[t] \in Int
      BY <2>1, CachesFinite, FS_Subset DEF KvBalance, KvBooks
    <3>. HIDE DEF V, extra, Before
    <3>5. SumFunctionOnSet(bytes, V) = bytes[v] + SumFunctionOnSet(bytes, V \ {v})
      BY <3>4, SumStep
    <3>6. /\ SumFunctionOnSet(bytes, V \ {v}) \in Nat
          /\ saturating_sub(kv_used, SumFunctionOnSet(bytes, V \ {v}))
               = kv_used - SumFunctionOnSet(bytes, V \ {v})
      BY <3>4, PartOfUsed, Zenon DEF KvBalance
    <3>7. ~ (kv_used - SumFunctionOnSet(bytes, V \ {v}) + extra <= Budget)
      BY <3>2, <3>3, <3>6, Zenon DEF Enough
    <3>8. kv_used' = kv_used - SumFunctionOnSet(bytes, V) - bytes[s] + n
      BY <2>1, ReserveAccounts, Zenon DEF KvBalance, V
    <3>9. kv_used \in Nat /\ Budget \in Nat /\ bytes[s] \in Nat /\ bytes[v] \in Nat /\ n \in Nat
      BY <2>1, KvSizesAssumption, Zenon DEF KvBalance, KvBooks
    <3>10. kv_used' = kv_used - (bytes[v] + SumFunctionOnSet(bytes, V \ {v})) - bytes[s] + n
      BY <3>5, <3>8, Zenon
    <3>11. ~ (kv_used - SumFunctionOnSet(bytes, V \ {v}) + (n - bytes[s]) <= Budget)
      BY <3>1, <3>7, Zenon
    <3>. QED  BY <3>6, <3>9, <3>10, <3>11
  <2>9. NoNeedlessEviction
    BY <2>5, <2>8, Zenon DEF NoNeedlessEviction
  <2>. QED  BY <2>3, <2>7, <2>9, Zenon
<1>. QED
  BY <1>1, <1>2, <1>3, OthersKeep, Zenon DEF CacheStep

\* Whatever reserve_kv evicts, for any sessions, sizes and budget: no session
\* has a request in flight, everything idle that is spared is of a class that
\* goes later or more recently used, and with the last victim left in place
\* the reservation would not have fitted.
THEOREM EvictionsAreRight == KvSpec => EvictionsRight
<1>1. KvSpec => [][InFlightKept /\ EvictionOrder /\ NoNeedlessEviction]_kvVars
  BY StepsEvictRight, KvBalanceHolds, PTL DEF KvSpec
<1>. QED  BY <1>1, Zenon DEF EvictionsRight

-----------------------------------------------------------------------------
(* Metering: the rates.  A bound on what was taken in an interval is       *)
(* preserved only with a bound on what is left: what was taken since any   *)
(* moment, and the tokens left, are within a full bucket and what has come *)
(* in since (Holds).                                                       *)

\* A record of charges: when, and how much.
Record == Seq(Nat \X Nat)

\* How much each entry charges.
Weight(record) == [k \in DOMAIN record |-> record[k][2]]

\* What is needed of products.
LEMMA Times ==
  /\ \A a, b, c \in Int : (a + b) * c = a * c + b * c
  /\ \A a, b \in Nat : a * b \in Nat
  OBVIOUS

\* The parts of a record.
LEMMA RecordFacts ==
  ASSUME NEW record \in Record
  PROVE  /\ Len(record) \in Nat /\ DOMAIN record = 1..Len(record)
         /\ IsFiniteSet(DOMAIN record)
         /\ \A k \in DOMAIN record : record[k][1] \in Nat /\ record[k][2] \in Nat
         /\ \A k \in DOMAIN record : Weight(record)[k] \in Nat
<1>1. Len(record) \in Nat /\ DOMAIN record = 1..Len(record)
  BY DEF Record
<1>2. \A k \in DOMAIN record : record[k] \in Nat \X Nat
  BY DEF Record
<1>3. IsFiniteSet(1..Len(record))
  BY <1>1, FS_Interval
<1>. QED  BY <1>1, <1>2, <1>3, Zenon DEF Weight

\* A total is a natural number,
LEMMA TotalNat ==
  ASSUME NEW record \in Record, NEW S \in SUBSET DOMAIN record
  PROVE  Total(record, S) \in Nat
<1>1. IsFiniteSet(S)
  BY RecordFacts, FS_Subset, Zenon
<1>2. \A k \in S : Weight(record)[k] \in Nat
  BY RecordFacts, Zenon
<1>3. Total(record, S) = SumFunctionOnSet(Weight(record), S)
  BY Zenon DEF Total, Weight
<1>. QED  BY <1>1, <1>2, <1>3, SumNat, Zenon

\* and grows with the entries.
LEMMA TotalMonotone ==
  ASSUME NEW record \in Record, NEW S \in SUBSET DOMAIN record, NEW V \in SUBSET S
  PROVE  Total(record, V) <= Total(record, S)
<1>1. IsFiniteSet(S)
  BY RecordFacts, FS_Subset, Zenon
<1>2. \A k \in S : Weight(record)[k] \in Nat
  BY RecordFacts, Zenon
<1>3. /\ Total(record, S) = SumFunctionOnSet(Weight(record), S)
      /\ Total(record, V) = SumFunctionOnSet(Weight(record), V)
  BY Zenon DEF Total, Weight
<1>. QED  BY <1>1, <1>2, <1>3, SumMonotone, Zenon

\* What one more entry adds to a record,
LEMMA OneMoreEntry ==
  ASSUME NEW record \in Record, NEW t \in Nat, NEW n \in Nat
  PROVE  /\ Append(record, <<t, n>>) \in Record
         /\ DOMAIN Append(record, <<t, n>>) = DOMAIN record \cup {Len(record) + 1}
         /\ Len(record) + 1 \notin DOMAIN record
         /\ \A k \in DOMAIN record : Append(record, <<t, n>>)[k] = record[k]
         /\ Append(record, <<t, n>>)[Len(record) + 1] = <<t, n>>
<1>. DEFINE e == <<t, n>>
<1>1. e \in Nat \X Nat
  BY Zenon
<1>. HIDE DEF e
<1>2. /\ Append(record, e) \in Record /\ Len(record) \in Nat
      /\ DOMAIN record = 1..Len(record) /\ DOMAIN Append(record, e) = 1..(Len(record) + 1)
      /\ \A k \in 1..Len(record) : Append(record, e)[k] = record[k]
      /\ Append(record, e)[Len(record) + 1] = e
  BY <1>1 DEF Record
<1>3. \A l \in Nat : 1..(l + 1) = (1..l) \cup {l + 1} /\ l + 1 \notin 1..l
  OBVIOUS
<1>. QED  BY <1>2, <1>3, Zenon DEF e

\* and to its totals.
LEMMA TotalAppend ==
  ASSUME NEW record \in Record, NEW t \in Nat, NEW n \in Nat,
         NEW S \in SUBSET DOMAIN record
  PROVE  /\ Total(Append(record, <<t, n>>), S) = Total(record, S)
         /\ Total(Append(record, <<t, n>>), S \cup {Len(record) + 1}) = Total(record, S) + n
<1>. DEFINE more == Append(record, <<t, n>>)
            f == Weight(more)
            x == Len(record) + 1
            U == S \cup {x}
<1>1. /\ more \in Record /\ DOMAIN more = DOMAIN record \cup {x} /\ x \notin DOMAIN record
      /\ \A k \in DOMAIN record : more[k] = record[k]
      /\ more[x] = <<t, n>>
  BY OneMoreEntry
<1>2. /\ \A k \in S : f[k] = Weight(record)[k]
      /\ f[x] = n
  BY <1>1 DEF Weight
<1>3. IsFiniteSet(DOMAIN more) /\ \A k \in DOMAIN more : f[k] \in Nat
  BY <1>1, RecordFacts, Zenon
<1>. HIDE DEF f, more, x
<1>4. U \subseteq DOMAIN more /\ U \ {x} = S /\ S \subseteq DOMAIN more /\ x \in U
  BY <1>1, Zenon
<1>5. IsFiniteSet(S) /\ IsFiniteSet(U)
  BY <1>3, <1>4, FS_Subset, Zenon
<1>6. SumFunctionOnSet(f, S) = SumFunctionOnSet(Weight(record), S)
  BY <1>2, <1>5, SumSame, Zenon
<1>7. \A k \in U : f[k] \in Int
  BY <1>3, <1>4
<1>8. SumFunctionOnSet(f, U) = f[x] + SumFunctionOnSet(f, U \ {x})
  <2>. HIDE DEF U
  <2>. QED BY <1>4, <1>5, <1>7, SumStep
<1>9. SumFunctionOnSet(Weight(record), S) \in Nat
  BY TotalNat, Zenon DEF Total, Weight
<1>10. \A a, b \in Nat : a + b = b + a
  OBVIOUS
<1>11. SumFunctionOnSet(f, U) = f[x] + SumFunctionOnSet(Weight(record), S)
  BY <1>4, <1>6, <1>8, Zenon
<1>12. SumFunctionOnSet(f, U) = SumFunctionOnSet(Weight(record), S) + n
  BY <1>2, <1>9, <1>10, <1>11, Zenon
<1>13. Total(more, S) = SumFunctionOnSet(f, S) /\ Total(more, U) = SumFunctionOnSet(f, U)
  BY Zenon DEF Total, Weight, f
<1>14. Total(record, S) = SumFunctionOnSet(Weight(record), S)
  BY Zenon DEF Total, Weight
<1>15. Total(more, S) = Total(record, S) /\ Total(more, U) = Total(record, S) + n
  BY <1>6, <1>12, <1>13, <1>14, Zenon
<1>. QED  BY <1>15, Zenon DEF more, x

-----------------------------------------------------------------------------
\* A bucket is never over its capacity (Bucket::refill's min).
BucketTyped(b) ==
  /\ b \in [tokens : Nat, capacity : Nat, per_tick : Nat, last : Nat]
  /\ b.tokens <= b.capacity

\* What was given since a moment, and what is left, fit the capacity and what
\* came in since.
Holds(b, record) ==
  \A from \in 0..b.last :
    b.tokens + Total(record, Between(record, from, b.last))
      <= b.capacity + (b.last - from) * b.per_tick

\* And so did what was given in any earlier interval.
Gave(b, record) ==
  \A from \in 0..b.last : \A to \in from..b.last :
    Total(record, Between(record, from, to)) <= b.capacity + (to - from) * b.per_tick

\* A bucket with the record of what was taken from it.
Accounts(b, record) ==
  /\ BucketTyped(b) /\ record \in Record
  /\ \A k \in DOMAIN record : record[k][1] <= b.last
  /\ Holds(b, record) /\ Gave(b, record)

\* The entries of an interval.
LEMMA BetweenPart ==
  ASSUME NEW record \in Record, NEW from \in Nat, NEW to \in Nat
  PROVE  /\ Between(record, from, to) \in SUBSET DOMAIN record
         /\ Total(record, Between(record, from, to)) \in Nat
<1>1. Between(record, from, to) \in SUBSET DOMAIN record
  BY Zenon DEF Between
<1>. QED  BY <1>1, TotalNat, Zenon

\* Nothing is recorded after the last refill.
LEMMA NoneLater ==
  ASSUME NEW record \in Record, NEW from \in Nat, NEW to \in Nat, NEW last \in Nat,
         \A k \in DOMAIN record : record[k][1] <= last
  PROVE  /\ to >= last => Between(record, from, to) = Between(record, from, last)
         /\ from > last => Between(record, from, to) = {}
<1>1. \A k \in DOMAIN record : record[k][1] \in Nat
  BY RecordFacts, Zenon
<1>. QED  BY <1>1 DEF Between

\* No entries, no total.
LEMMA TotalNone ==
  ASSUME NEW record
  PROVE  Total(record, {}) = 0
  BY SumEmpty, Zenon DEF Total

\* A refill gives at most what the elapsed time earns, so the bounds hold for
\* intervals that end later.
LEMMA LaterHolds ==
  ASSUME NEW b, NEW record, Accounts(b, record), NEW now \in Nat, b.last <= now,
         NEW tokens \in Nat, tokens <= b.capacity,
         tokens <= b.tokens + (now - b.last) * b.per_tick
  PROVE  /\ \A from \in 0..now :
              tokens + Total(record, Between(record, from, now))
                <= b.capacity + (now - from) * b.per_tick
         /\ \A from \in 0..now : \A to \in from..now :
              Total(record, Between(record, from, to))
                <= b.capacity + (to - from) * b.per_tick
<1>. DEFINE r == b.per_tick
            c == b.capacity
            l == b.last
            T(i, j) == Total(record, Between(record, i, j))
<1>1. /\ r \in Nat /\ c \in Nat /\ l \in Nat /\ b.tokens \in Nat /\ record \in Record
      /\ \A k \in DOMAIN record : record[k][1] <= l
  BY Zenon DEF Accounts, BucketTyped
<1>2. \A i, j \in Nat : T(i, j) \in Nat
  BY <1>1, BetweenPart, Zenon
<1>3. \A i, j \in Nat : /\ j >= l => T(i, j) = T(i, l)
                        /\ i > l => T(i, j) = 0
  <2>. SUFFICES ASSUME NEW i \in Nat, NEW j \in Nat
                PROVE  (j >= l => T(i, j) = T(i, l)) /\ (i > l => T(i, j) = 0)
    BY Zenon
  <2>1. /\ j >= l => Between(record, i, j) = Between(record, i, l)
        /\ i > l => Between(record, i, j) = {}
    <3>. HIDE DEF l
    <3>. QED  BY <1>1, NoneLater, Zenon
  <2>. QED  BY <2>1, TotalNone, Zenon
<1>4. /\ \A i \in 0..l : b.tokens + T(i, l) <= c + (l - i) * r
      /\ \A i \in 0..l : \A j \in i..l : T(i, j) <= c + (j - i) * r
  BY Zenon DEF Accounts, Holds, Gave
<1>5. /\ \A i, j, k \in Nat : (k - i) * r = (k - j) * r + (j - i) * r
      /\ \A i, j \in Nat : j >= i => (j - i) * r \in Nat
  BY <1>1
<1>. HIDE DEF T, r, c, l
<1>6. ASSUME NEW i \in 0..now PROVE tokens + T(i, now) <= c + (now - i) * r
  <2>3. i \in Nat /\ now >= i /\ now >= l
    BY DEF l
  <2>0. i \in Nat /\ now >= i /\ (now - i) * r \in Nat /\ now >= l
    BY <1>5, <2>3, Zenon
  <2>1. CASE i > l
    <3>1. T(i, now) = 0
      BY <1>3, <2>0, <2>1, Zenon
    <3>2. tokens <= c
      BY Zenon DEF c
    <3>. QED  BY <3>1, <3>2, <2>0, <1>1
  <2>2. CASE i <= l
    <3>1. T(i, now) = T(i, l)
      BY <1>1, <1>3, <2>0, Zenon
    <3>2. b.tokens + T(i, l) <= c + (l - i) * r
      BY <1>1, <1>4, <2>0, <2>2
    <3>3. (now - i) * r = (now - l) * r + (l - i) * r
      BY <1>1, <1>5, <2>0, Zenon
    <3>4. tokens <= b.tokens + (now - l) * r
      BY Zenon DEF l, r
    <3>5. T(i, l) \in Nat /\ (now - l) * r \in Nat /\ (l - i) * r \in Nat
      BY <1>1, <1>2, <1>5, <2>0, <2>2, Zenon
    <3>6. \A p, q, x, y, z, w \in Nat : p <= q + x /\ q + y <= w + z => p + y <= w + (x + z)
      OBVIOUS
    <3>. QED  BY <3>1, <3>2, <3>3, <3>4, <3>5, <3>6, <1>1
  <2>. QED  BY <2>1, <2>2, <2>0, <1>1
<1>7. ASSUME NEW i \in 0..now, NEW j \in i..now PROVE T(i, j) <= c + (j - i) * r
  <2>4. i \in Nat /\ j \in Nat /\ j >= i
    OBVIOUS
  <2>0. i \in Nat /\ j \in Nat /\ j >= i /\ (j - i) * r \in Nat
    BY <1>5, <2>4, Zenon
  <2>1. CASE i > l
    <3>1. T(i, j) = 0
      BY <1>3, <2>0, <2>1, Zenon
    <3>. QED  BY <3>1, <2>0, <1>1
  <2>2. CASE j <= l
    BY <1>1, <1>4, <2>0, <2>2
  <2>3. CASE i <= l /\ j > l
    <3>0. j >= l /\ l \in Nat
      BY <1>1, <2>4, <2>3
    <3>1. T(i, j) = T(i, l) /\ T(i, l) \in Nat
      BY <1>2, <1>3, <2>4, <3>0, Zenon
    <3>2. T(i, l) <= c + (l - i) * r
      BY <1>1, <1>4, <2>0, <2>3
    <3>3. (j - i) * r = (j - l) * r + (l - i) * r /\ (j - l) * r \in Nat /\ (l - i) * r \in Nat
      BY <1>1, <1>5, <2>0, <2>3
    <3>. QED  BY <3>1, <3>2, <3>3, <1>1
  <2>. QED  BY <2>1, <2>2, <2>3, <2>0, <1>1
<1>. QED  BY <1>6, <1>7, Zenon DEF T, r, c, l

\* The smaller and the larger of two numbers.
LEMMA TwoExtremes ==
  ASSUME NEW a \in Nat, NEW b \in Nat
  PROVE  /\ Min({a, b}) = IF a <= b THEN a ELSE b
         /\ Max({a, b}) = IF a <= b THEN b ELSE a
<1>1. /\ \A x \in {a, b} : (\A y \in {a, b} : x <= y) => x = IF a <= b THEN a ELSE b
      /\ \E x \in {a, b} : \A y \in {a, b} : x <= y
  OBVIOUS
<1>2. /\ \A x \in {a, b} : (\A y \in {a, b} : x >= y) => x = IF a <= b THEN b ELSE a
      /\ \E x \in {a, b} : \A y \in {a, b} : x >= y
  OBVIOUS
<1>. QED  BY <1>1, <1>2, Zenon DEF Min, Max

\* What Bucket::refill does to the bucket.
LEMMA RefillFacts ==
  ASSUME NEW b, BucketTyped(b), clock \in Nat, b.last <= clock
  PROVE  /\ BucketTyped(Refill(b))
         /\ Refill(b).capacity = b.capacity /\ Refill(b).per_tick = b.per_tick
         /\ Refill(b).last = clock
         /\ Refill(b).tokens <= b.tokens + (clock - b.last) * b.per_tick
<1>. DEFINE gain == (clock - b.last) * b.per_tick
            full == b.tokens + gain
            m == Min({full, b.capacity})
<1>1. b.tokens \in Nat /\ b.capacity \in Nat /\ b.per_tick \in Nat /\ b.last \in Nat
  BY Zenon DEF BucketTyped
<1>2. clock - b.last \in Nat
  BY <1>1
<1>3. gain \in Nat
  BY <1>1, <1>2, Times, Zenon
<1>. HIDE DEF gain
<1>4. full \in Nat
  BY <1>1, <1>3
<1>. HIDE DEF full
<1>5. m = IF full <= b.capacity THEN full ELSE b.capacity
  BY <1>1, <1>4, TwoExtremes, Zenon
<1>. HIDE DEF m
<1>6. m \in Nat /\ m <= b.capacity /\ m <= full
  BY <1>1, <1>4, <1>5
<1>7. Refill(b) = [b EXCEPT !.tokens = m, !.last = clock]
  BY Zenon DEF Refill, m, full, gain
<1>8. b = [tokens |-> b.tokens, capacity |-> b.capacity, per_tick |-> b.per_tick,
           last |-> b.last]
  BY Zenon DEF BucketTyped
<1>9. Refill(b) = [tokens |-> m, capacity |-> b.capacity, per_tick |-> b.per_tick,
                   last |-> clock]
  BY <1>7, <1>8, Zenon
<1>. QED  BY <1>1, <1>6, <1>9 DEF BucketTyped, full, gain

\* It keeps the accounts.
LEMMA RefillAccounts ==
  ASSUME NEW b, NEW record, Accounts(b, record), clock \in Nat, b.last <= clock
  PROVE  Accounts(Refill(b), record)
<1>. DEFINE f == Refill(b)
<1>1. /\ BucketTyped(f) /\ f.capacity = b.capacity /\ f.per_tick = b.per_tick
      /\ f.last = clock /\ f.tokens <= b.tokens + (clock - b.last) * b.per_tick
  BY RefillFacts, Zenon DEF Accounts
<1>. HIDE DEF f
<1>2. f.tokens \in Nat /\ f.tokens <= b.capacity
  BY <1>1, Zenon DEF BucketTyped
<1>3. /\ \A from \in 0..clock :
           f.tokens + Total(record, Between(record, from, clock))
             <= b.capacity + (clock - from) * b.per_tick
      /\ \A from \in 0..clock : \A to \in from..clock :
           Total(record, Between(record, from, to))
             <= b.capacity + (to - from) * b.per_tick
  BY <1>1, <1>2, LaterHolds, Zenon
<1>4. Holds(f, record) /\ Gave(f, record)
  BY <1>1, <1>3, Zenon DEF Holds, Gave
<1>5. record \in Record /\ \A k \in DOMAIN record : record[k][1] <= b.last
  BY Zenon DEF Accounts
<1>6. \A k \in DOMAIN record : record[k][1] <= clock
  <2>1. \A k \in DOMAIN record : record[k][1] \in Nat
    BY <1>5, RecordFacts, Zenon
  <2>2. b.last \in Nat
    BY Zenon DEF Accounts, BucketTyped
  <2>. QED  BY <1>5, <2>1, <2>2
<1>. QED  BY <1>1, <1>4, <1>5, <1>6, Zenon DEF Accounts, f

\* So does taking what is there.
LEMMA TakeAccounts ==
  ASSUME NEW b, NEW record, Accounts(b, record), NEW n \in Nat, n <= b.tokens
  PROVE  Accounts([b EXCEPT !.tokens = @ - n], Append(record, <<b.last, n>>))
<1>. DEFINE l == b.last
            t == [b EXCEPT !.tokens = @ - n]
            more == Append(record, <<l, n>>)
            x == Len(record) + 1
<1>1. /\ b.tokens \in Nat /\ b.capacity \in Nat /\ b.per_tick \in Nat /\ l \in Nat
      /\ b.tokens <= b.capacity /\ record \in Record
      /\ \A k \in DOMAIN record : record[k][1] <= l
      /\ b = [tokens |-> b.tokens, capacity |-> b.capacity, per_tick |-> b.per_tick,
              last |-> b.last]
  BY Zenon DEF Accounts, BucketTyped
<1>2. t = [tokens |-> b.tokens - n, capacity |-> b.capacity, per_tick |-> b.per_tick,
           last |-> l]
  BY <1>1
<1>3. BucketTyped(t)
  <2>1. b.tokens - n \in Nat /\ b.tokens - n <= b.capacity
    BY <1>1
  <2>. QED  BY <1>1, <1>2, <2>1, Zenon DEF BucketTyped
<1>4. /\ more \in Record /\ DOMAIN more = DOMAIN record \cup {x} /\ x \notin DOMAIN record
      /\ \A k \in DOMAIN record : more[k] = record[k]
      /\ more[x] = <<l, n>>
  BY <1>1, OneMoreEntry
<1>5. \A S \in SUBSET DOMAIN record : /\ Total(more, S) = Total(record, S)
                                      /\ Total(more, S \cup {x}) = Total(record, S) + n
  BY <1>1, TotalAppend
<1>. HIDE DEF t, more, x, l
<1>6. ASSUME NEW i \in 0..l, NEW j \in i..l
      PROVE  Between(more, i, j) =
               Between(record, i, j) \cup (IF j = l THEN {x} ELSE {})
  BY <1>1, <1>4 DEF Between
<1>7. ASSUME NEW i \in 0..l, NEW j \in i..l
      PROVE  /\ Total(more, Between(more, i, j)) =
                  Total(record, Between(record, i, j)) + (IF j = l THEN n ELSE 0)
             /\ Total(record, Between(record, i, j)) \in Nat
  <2>1. i \in Nat /\ j \in Nat
    BY <1>1
  <2>2. /\ Between(record, i, j) \in SUBSET DOMAIN record
        /\ Total(record, Between(record, i, j)) \in Nat
    BY <1>1, <2>1, BetweenPart, Zenon
  <2>3. CASE j = l
    <3>1. Between(more, i, j) = Between(record, i, j) \cup {x}
      BY <1>6, <2>3, Zenon
    <3>. QED  BY <1>5, <2>2, <2>3, <3>1, Zenon
  <2>4. CASE j # l
    <3>1. Between(more, i, j) = Between(record, i, j)
      BY <1>6, <2>4
    <3>2. Total(more, Between(more, i, j)) = Total(record, Between(record, i, j))
      BY <1>5, <2>2, <3>1, Zenon
    <3>. QED  BY <2>2, <2>4, <3>2
  <2>. QED  BY <2>3, <2>4, Zenon
<1>8. Holds(t, more)
  <2>1. ASSUME NEW i \in 0..l
        PROVE  b.tokens - n + Total(more, Between(more, i, l))
                 <= b.capacity + (l - i) * b.per_tick
    <3>1. l \in i..l
      BY <1>1
    <3>2. b.tokens + Total(record, Between(record, i, l)) <= b.capacity + (l - i) * b.per_tick
      BY Zenon DEF Accounts, Holds, l
    <3>3. /\ Total(more, Between(more, i, l)) = Total(record, Between(record, i, l)) + n
          /\ Total(record, Between(record, i, l)) \in Nat
      BY <1>7, <3>1, Zenon
    <3>4. \A p, q \in Nat : p - n + (q + n) = p + q
      OBVIOUS
    <3>. QED  BY <1>1, <3>2, <3>3, <3>4
  <2>. QED  BY <1>2, <2>1, Zenon DEF Holds
<1>9. Gave(t, more)
  <2>1. ASSUME NEW i \in 0..l, NEW j \in i..l
        PROVE  Total(more, Between(more, i, j)) <= b.capacity + (j - i) * b.per_tick
    <3>1. CASE j = l
      <4>1. Total(more, Between(more, i, l)) \in Int
        BY <1>7, <3>1
      <4>2. b.tokens - n + Total(more, Between(more, i, l)) <= b.capacity + (l - i) * b.per_tick
        BY <1>2, <1>8, Zenon DEF Holds
      <4>3. b.tokens - n \in Nat /\ (l - i) * b.per_tick \in Int
        BY <1>1
      <4>. QED  BY <1>1, <3>1, <4>1, <4>2, <4>3
    <3>2. CASE j # l
      <4>1. Total(more, Between(more, i, j)) = Total(record, Between(record, i, j))
        BY <1>7, <3>2
      <4>. QED  BY <4>1, Zenon DEF Accounts, Gave, l
    <3>. QED  BY <3>1, <3>2, Zenon
  <2>. QED  BY <1>2, <2>1, Zenon DEF Gave
<1>10. \A k \in DOMAIN more : more[k][1] <= t.last
  BY <1>1, <1>2, <1>4
<1>. QED  BY <1>3, <1>4, <1>8, <1>9, <1>10, Zenon DEF Accounts, t, more, l

\* Integer division is monotone.
LEMMA ShareGrows ==
  ASSUME NEW a \in Nat, NEW b \in Nat, NEW d \in Nat \ {0}, a <= b
  PROVE  a \div d \in Nat /\ b \div d \in Nat /\ a \div d <= b \div d
  OBVIOUS

\* What a bucket for this many tokens a minute earns in a tick.
Share(per_minute) == Capacity(per_minute) \div TicksPerMinute

\* A narrowed rate is no more than the identity's, in capacity and in income.
LEMMA Rates ==
  /\ Capacity(Rate) \in Nat /\ Capacity(NarrowRate) \in Nat
  /\ Capacity(NarrowRate) <= Capacity(Rate)
  /\ Share(Rate) \in Nat /\ Share(NarrowRate) \in Nat
  /\ Share(NarrowRate) <= Share(Rate)
<1>1. /\ Capacity(Rate) = IF Rate <= 1 THEN 1 ELSE Rate
      /\ Capacity(NarrowRate) = IF NarrowRate <= 1 THEN 1 ELSE NarrowRate
  BY MeteringAssumption, TwoExtremes, Zenon DEF Capacity
<1>2. /\ Capacity(Rate) \in Nat /\ Capacity(NarrowRate) \in Nat
      /\ Capacity(NarrowRate) <= Capacity(Rate)
  BY <1>1, MeteringAssumption
<1>3. TicksPerMinute \in Nat \ {0}
  BY MeteringAssumption, Zenon
<1>. QED  BY <1>2, <1>3, ShareGrows, Zenon DEF Share

\* A bucket that accounts for its record and is no larger than its rate allows.
FitsRate(b, record, per_minute) ==
  /\ Accounts(b, record) /\ b.last <= clock
  /\ b.capacity <= Capacity(per_minute) /\ b.per_tick <= Share(per_minute)

\* An admission (refill, then take or refuse) keeps it.
LEMMA TakenFits ==
  ASSUME NEW b, NEW record, NEW per_minute, NEW n \in Nat, clock \in Nat,
         FitsRate(b, record, per_minute)
  PROVE  FitsRate(Taken(b, n),
              IF Covers(b, n) THEN Append(record, <<clock, n>>) ELSE record, per_minute)
<1>. DEFINE f == Refill(b)
<1>1. /\ Accounts(f, record) /\ f.capacity = b.capacity /\ f.per_tick = b.per_tick
      /\ f.last = clock
  BY RefillAccounts, RefillFacts, Zenon DEF FitsRate, Accounts
<1>. HIDE DEF f
<1>2. /\ f.tokens \in Nat
      /\ f = [tokens |-> f.tokens, capacity |-> f.capacity, per_tick |-> f.per_tick,
              last |-> f.last]
  BY <1>1, Zenon DEF Accounts, BucketTyped
<1>3. CASE Covers(b, n)
  <2>. DEFINE t == [f EXCEPT !.tokens = @ - n]
  <2>1. n <= f.tokens
    BY <1>2, <1>3, Zenon DEF Covers, f
  <2>2. Accounts(t, Append(record, <<clock, n>>))
    BY <1>1, <2>1, TakeAccounts, Zenon
  <2>3. t.capacity = f.capacity /\ t.per_tick = f.per_tick /\ t.last = f.last
    BY <1>2, Zenon
  <2>4. Taken(b, n) = t
    BY <1>3, Zenon DEF Taken, f
  <2>. QED  BY <1>1, <1>3, <2>2, <2>3, <2>4 DEF FitsRate
<1>4. CASE ~Covers(b, n)
  <2>1. Taken(b, n) = f
    BY <1>4, Zenon DEF Taken, f
  <2>. QED  BY <1>1, <1>4, <2>1 DEF FitsRate
<1>. QED  BY <1>3, <1>4, Zenon

\* A new bucket starts within every rate it may be made for.
LEMMA NewFits ==
  ASSUME clock \in Nat, NEW of \in {Rate, NarrowRate}, NEW per_minute \in {Rate, of}
  PROVE  FitsRate(NewBucket(of), << >>, per_minute)
<1>. DEFINE b == NewBucket(of)
            c == Capacity(of)
            r == Share(of)
<1>1. c \in Nat /\ r \in Nat /\ c <= Capacity(per_minute) /\ r <= Share(per_minute)
  BY Rates
<1>2. b = [tokens |-> c, capacity |-> c, per_tick |-> r, last |-> clock]
  BY Zenon DEF NewBucket, Share
<1>. HIDE DEF b, c, r
<1>3. << >> \in Record /\ DOMAIN << >> = {} /\ \A i, j \in Nat : Between(<< >>, i, j) = {}
  BY DEF Record, Between
<1>4. \A i, j \in Nat : Total(<< >>, Between(<< >>, i, j)) = 0
  BY <1>3, TotalNone, Zenon
<1>5. \A i, j \in Nat : i <= j => (j - i) * r \in Nat
  BY <1>1
<1>7. Holds(b, << >>)
  <2>. SUFFICES ASSUME NEW from \in 0..clock
                PROVE  c + Total(<< >>, Between(<< >>, from, clock)) <= c + (clock - from) * r
    BY <1>2, Zenon DEF Holds
  <2>1. from \in Nat /\ from <= clock
    OBVIOUS
  <2>2. Total(<< >>, Between(<< >>, from, clock)) = 0 /\ (clock - from) * r \in Nat
    BY <1>4, <1>5, <2>1, Zenon
  <2>. QED  BY <1>1, <2>2
<1>8. Gave(b, << >>)
  <2>. SUFFICES ASSUME NEW from \in 0..clock, NEW to \in from..clock
                PROVE  Total(<< >>, Between(<< >>, from, to)) <= c + (to - from) * r
    BY <1>2, Zenon DEF Gave
  <2>1. from \in Nat /\ to \in Nat /\ from <= to
    OBVIOUS
  <2>2. Total(<< >>, Between(<< >>, from, to)) = 0 /\ (to - from) * r \in Nat
    BY <1>4, <1>5, <2>1, Zenon
  <2>. QED  BY <1>1, <2>2
<1>9. BucketTyped(b)
  BY <1>1, <1>2 DEF BucketTyped
<1>. QED  BY <1>1, <1>2, <1>3, <1>7, <1>8, <1>9 DEF FitsRate, Accounts, b, c, r

\* A bucket that fits a rate gave no more than the rate in any interval.
LEMMA FitsWithin ==
  ASSUME NEW b, NEW record, NEW per_minute \in {Rate, NarrowRate}, clock \in Nat,
         FitsRate(b, record, per_minute)
  PROVE  WithinRate(record, per_minute)
<1>. DEFINE c == Capacity(per_minute)
            r == Share(per_minute)
<1>1. c \in Nat /\ r \in Nat /\ b.capacity <= c /\ b.per_tick <= r
  BY Rates, Zenon DEF FitsRate
<1>2. /\ b.capacity \in Nat /\ b.per_tick \in Nat /\ b.tokens \in Nat /\ b.last \in Nat
      /\ b.tokens <= b.capacity /\ b.last <= clock /\ record \in Record
  BY Zenon DEF FitsRate, Accounts, BucketTyped
<1>3. b.tokens <= b.tokens + (clock - b.last) * b.per_tick
  <2>1. clock - b.last \in Nat
    BY <1>2
  <2>2. (clock - b.last) * b.per_tick \in Nat
    BY <1>2, <2>1, Times, Zenon
  <2>. QED  BY <1>2, <2>2
<1>4. \A from \in 0..clock : \A to \in from..clock :
        Total(record, Between(record, from, to)) <= b.capacity + (to - from) * b.per_tick
  BY <1>2, <1>3, LaterHolds, Zenon DEF FitsRate
<1>5. ASSUME NEW from \in 0..clock, NEW to \in from..clock
      PROVE  Total(record, Between(record, from, to)) <= c + (to - from) * r
  <2>1. from \in Nat /\ to \in Nat /\ to - from \in Nat
    OBVIOUS
  <2>2. Total(record, Between(record, from, to)) \in Nat
    BY <1>2, <2>1, BetweenPart, Zenon
  <2>3. \A d, p, q \in Nat : p <= q => d * p <= d * q
    OBVIOUS
  <2>. DEFINE p == (to - from) * b.per_tick
              q == (to - from) * r
  <2>. HIDE DEF r, c
  <2>4. p <= q
    BY <1>1, <1>2, <2>1, <2>3, Zenon
  <2>5. p \in Nat /\ q \in Nat
    BY <1>1, <1>2, <2>1, Times, Zenon
  <2>6. Total(record, Between(record, from, to)) <= b.capacity + p
    BY <1>4, Zenon
  <2>. HIDE DEF p, q
  <2>7. Total(record, Between(record, from, to)) <= c + q
    BY <1>1, <1>2, <2>2, <2>4, <2>5, <2>6
  <2>. QED  BY <2>7, Zenon DEF q
<1>. QED  BY <1>5, Zenon DEF WithinRate, Share, c, r

-----------------------------------------------------------------------------
\* The inductive invariant: the identity's bucket fits its rate, and each
\* narrowed session's its own.
BucketsFit ==
  /\ clock \in Nat /\ excess \in [Meters -> Nat]
  /\ IF bucket = NoBucket THEN taken = << >> ELSE FitsRate(bucket, taken, Rate)
  /\ budget = [s \in Narrowed |-> budget[s]] /\ own = [s \in Narrowed |-> own[s]]
  /\ \A s \in Narrowed : FitsRate(budget[s], own[s], NarrowRate)

\* The bucket a session finds, or makes, fits.
LEMMA NowFits ==
  ASSUME BucketsFit, NEW s \in Meters
  PROVE  FitsRate(Bucket(s), taken, Rate)
<1>1. CASE bucket = NoBucket
  <2>1. RateOf(s) \in {Rate, NarrowRate}
    BY Zenon DEF RateOf
  <2>2. FitsRate(NewBucket(RateOf(s)), << >>, Rate)
    BY <2>1, NewFits, Zenon DEF BucketsFit
  <2>. QED  BY <1>1, <2>2, Zenon DEF BucketsFit, Bucket
<1>2. CASE bucket # NoBucket
  BY <1>2, Zenon DEF BucketsFit, Bucket
<1>. QED  BY <1>1, <1>2, Zenon

\* A bucket that fits is one.
LEMMA FitsIsMade ==
  ASSUME NEW b, NEW record, NEW per_minute, FitsRate(b, record, per_minute)
  PROVE  b # NoBucket
  BY DEF FitsRate, Accounts, BucketTyped, NoBucket

\* Time alone changes nothing.
LEMMA FitsLater ==
  ASSUME NEW b, NEW record, NEW per_minute, FitsRate(b, record, per_minute),
         clock \in Nat, clock' \in Nat, clock <= clock'
  PROVE  FitsRate(b, record, per_minute)'
<1>1. b.last \in Nat /\ b.last <= clock
  BY Zenon DEF FitsRate, Accounts, BucketTyped
<1>. QED  BY <1>1 DEF FitsRate

\* What an admission or a settlement leaves in the identity's bucket fits.
LEMMA ChargeFits ==
  ASSUME BucketsFit, NEW s \in Meters, NEW n \in Nat, UNCHANGED clock,
         bucket' = Taken(Bucket(s), n),
         taken' = IF Covers(Bucket(s), n) THEN Append(taken, <<clock, n>>) ELSE taken
  PROVE  (IF bucket = NoBucket THEN taken = << >> ELSE FitsRate(bucket, taken, Rate))'
<1>1. FitsRate(Taken(Bucket(s), n),
           IF Covers(Bucket(s), n) THEN Append(taken, <<clock, n>>) ELSE taken, Rate)
  BY NowFits, TakenFits, Zenon DEF BucketsFit
<1>2. FitsRate(bucket', taken', Rate) /\ bucket' # NoBucket
  BY <1>1, FitsIsMade, Zenon
<1>. QED  BY <1>2, Zenon DEF FitsRate

\* Every step keeps the invariant.
LEMMA BucketsKept ==
  ASSUME BucketsFit, [MeterNext]_meterVars
  PROVE  BucketsFit'
<1>. USE DEF BucketsFit
<1>1. ASSUME NEW s \in Meters, SpendPermits(s) PROVE BucketsFit'
  BY <1>1, Zenon DEF SpendPermits, FitsRate
<1>2. ASSUME NEW s \in Meters, TakeSession(s) PROVE BucketsFit'
  <2>1. CASE s \in Narrowed
    <3>1. /\ budget' = [budget EXCEPT ![s] = Taken(@, Reserve)]
          /\ own' = IF Covers(budget[s], Reserve)
                      THEN [own EXCEPT ![s] = Append(@, <<clock, Reserve>>)] ELSE own
          /\ UNCHANGED <<clock, bucket, taken, excess>>
      BY <1>2, <2>1, Zenon DEF TakeSession
    <3>2. FitsRate(Taken(budget[s], Reserve),
               IF Covers(budget[s], Reserve) THEN Append(own[s], <<clock, Reserve>>)
                                             ELSE own[s], NarrowRate)
      BY <2>1, TakenFits, MeteringAssumption, Zenon
    <3>3. /\ budget' = [t \in Narrowed |-> budget'[t]] /\ own' = [t \in Narrowed |-> own'[t]]
          /\ \A t \in Narrowed : t # s => budget'[t] = budget[t] /\ own'[t] = own[t]
          /\ budget'[s] = Taken(budget[s], Reserve)
          /\ own'[s] = IF Covers(budget[s], Reserve) THEN Append(own[s], <<clock, Reserve>>)
                                                     ELSE own[s]
      BY <2>1, <3>1, Zenon
    <3>4. \A t \in Narrowed : FitsRate(budget'[t], own'[t], NarrowRate)
      BY <3>2, <3>3, Zenon
    <3>. QED  BY <3>1, <3>3, <3>4, Zenon DEF FitsRate
  <2>2. CASE s \notin Narrowed
    BY <1>2, <2>2, Zenon DEF TakeSession, FitsRate
  <2>. QED  BY <2>1, <2>2, Zenon
<1>3. ASSUME NEW s \in Meters, TakeIdentity(s) PROVE BucketsFit'
  <2>1. /\ bucket' = Taken(Bucket(s), Reserve)
        /\ taken' = IF Covers(Bucket(s), Reserve) THEN Append(taken, <<clock, Reserve>>)
                                                  ELSE taken
        /\ UNCHANGED <<clock, budget, own, excess>>
    BY <1>3, Zenon DEF TakeIdentity
  <2>2. (IF bucket = NoBucket THEN taken = << >> ELSE FitsRate(bucket, taken, Rate))'
    BY <2>1, ChargeFits, MeteringAssumption, Zenon
  <2>. QED  BY <2>1, <2>2, Zenon DEF FitsRate
<1>4. ASSUME NEW s \in Meters, TurnDone(s) \/ TurnFailed(s) PROVE BucketsFit'
  <2>1. /\ UNCHANGED <<clock, bucket, budget, taken, own>>
        /\ \E all \in Actuals : excess' = [excess EXCEPT ![s] = Over(all)]
    BY <1>4, Zenon DEF TurnDone, TurnFailed
  <2>2. \A all \in Actuals : Over(all) \in Nat
    BY MeteringAssumption DEF Over
  <2>. QED  BY <2>1, <2>2, Zenon DEF FitsRate
<1>5. ASSUME NEW s \in Meters, Settle(s) PROVE BucketsFit'
  <2>1. UNCHANGED <<clock, budget, own>> /\ excess' \in [Meters -> Nat]
    BY <1>5, Zenon DEF Settle
  <2>2. (IF bucket = NoBucket THEN taken = << >> ELSE FitsRate(bucket, taken, Rate))'
    <3>1. CASE excess[s] > 0
      BY <1>5, <3>1, ChargeFits, Zenon DEF Settle
    <3>2. CASE ~(excess[s] > 0)
      BY <1>5, <3>2, Zenon DEF Settle, FitsRate
    <3>. QED  BY <3>1, <3>2, Zenon
  <2>. QED  BY <2>1, <2>2, Zenon DEF FitsRate
<1>6. CASE RevokeBucket
  BY <1>6, Zenon DEF RevokeBucket, FitsRate
<1>7. CASE MeterTick
  <2>1. UNCHANGED <<bucket, budget, taken, own, excess>> /\ clock' = clock + 1
    BY <1>7, Zenon DEF MeterTick
  <2>2. clock' \in Nat /\ clock <= clock'
    BY <2>1
  <2>. QED  BY <2>1, <2>2, FitsLater, Zenon
<1>8. CASE UNCHANGED meterVars
  BY <1>8, Zenon DEF meterVars, FitsRate
<1>. QED  BY <1>1, <1>2, <1>3, <1>4, <1>5, <1>6, <1>7, <1>8 DEF MeterNext

\* Bucket::take (policy.rs): whatever an identity's sessions do at once, in
\* no stretch of time do they take more than a full bucket and what the rate
\* earns in it, and a narrowed session takes no more than its own rate
\* allows; for any rates, sessions and amounts.
THEOREM RatesHold == MeterSpec => []RateRespected
<1>1. MeterInit => BucketsFit
  <2>. SUFFICES ASSUME MeterInit PROVE BucketsFit
    BY Zenon
  <2>1. FitsRate(NewBucket(NarrowRate), << >>, NarrowRate)
    BY NewFits, Zenon DEF MeterInit
  <2>. QED  BY <2>1, Zenon DEF MeterInit, BucketsFit
<1>2. BucketsFit => RateRespected
  <2>. SUFFICES ASSUME BucketsFit PROVE RateRespected
    BY Zenon
  <2>1. WithinRate(taken, Rate)
    <3>1. CASE bucket = NoBucket
      BY <3>1, NewFits, FitsWithin, Zenon DEF BucketsFit
    <3>2. CASE bucket # NoBucket
      BY <3>2, FitsWithin, Zenon DEF BucketsFit
    <3>. QED  BY <3>1, <3>2, Zenon
  <2>2. \A s \in Narrowed : WithinRate(own[s], NarrowRate)
    BY FitsWithin, Zenon DEF BucketsFit
  <2>. QED  BY <2>1, <2>2, Zenon DEF RateRespected
<1>. QED  BY <1>1, <1>2, BucketsKept, PTL DEF MeterSpec

-----------------------------------------------------------------------------
(* Metering: the spend.  A turn is billed long after it was let through,   *)
(* so the bound has to count the turns under way (Room).                   *)

\* The entries still within the spend window.
Young(record) == {k \in DOMAIN record : record[k][1] + SpendWindow > clock}

\* A ledger holds every young entry of its record, and no other's.
Ledger(record, ledger) ==
  /\ record \in Record /\ ledger \subseteq DOMAIN record
  /\ \A k \in DOMAIN record : record[k][1] <= clock
  /\ Young(record) \subseteq ledger

\* Pruning (retain in spent_by) leaves exactly the young entries.
LEMMA RetainYoung ==
  ASSUME NEW record, NEW ledger, Ledger(record, ledger), clock \in Nat
  PROVE  Retain(record, ledger) = Young(record)
<1>1. \A k \in DOMAIN record : record[k][1] \in Nat
  BY RecordFacts, Zenon DEF Ledger
<1>2. SpendWindow \in Nat
  BY MeteringAssumption, Zenon
<1>. QED  BY <1>1, <1>2 DEF Retain, Ledger, Young

\* What was billed in the last window.
LEMMA LastWindowNat ==
  ASSUME NEW record \in Record
  PROVE  /\ Young(record) \in SUBSET DOMAIN record
         /\ LastWindow(record) = Total(record, Young(record)) /\ LastWindow(record) \in Nat
<1>1. Young(record) \in SUBSET DOMAIN record /\ LastWindow(record) = Total(record, Young(record))
  BY Zenon DEF Young, LastWindow
<1>. QED  BY <1>1, TotalNat, Zenon

\* A pruned ledger still holds all young entries.
LEMMA PrunedLedger ==
  ASSUME NEW record, NEW ledger, Ledger(record, ledger), clock \in Nat
  PROVE  Ledger(record, Retain(record, ledger))
  BY RetainYoung, LastWindowNat, Zenon DEF Ledger

\* Pushing an entry adds it to the ledger and its amount to the window.
LEMMA EntryKept ==
  ASSUME NEW record, NEW ledger, NEW n \in Nat, Ledger(record, ledger), clock \in Nat
  PROVE  /\ Ledger(Append(record, <<clock, n>>), Retain(record, ledger) \cup {Len(record) + 1})
         /\ LastWindow(Append(record, <<clock, n>>)) <= LastWindow(record) + n
<1>. DEFINE more == Append(record, <<clock, n>>)
            x == Len(record) + 1
<1>1. /\ more \in Record /\ DOMAIN more = DOMAIN record \cup {x} /\ x \notin DOMAIN record
      /\ \A k \in DOMAIN record : more[k] = record[k]
      /\ more[x] = <<clock, n>>
  BY OneMoreEntry DEF Ledger
<1>2. Retain(record, ledger) = Young(record) /\ Young(record) \in SUBSET DOMAIN record
  BY RetainYoung, LastWindowNat, Zenon DEF Ledger
<1>3. \A S \in SUBSET DOMAIN record : Total(more, S \cup {x}) = Total(record, S) + n
  BY TotalAppend DEF Ledger
<1>. HIDE DEF more, x
<1>4. Young(more) \subseteq Young(record) \cup {x}
  BY <1>1, Zenon DEF Young
<1>5. Ledger(more, Retain(record, ledger) \cup {x})
  BY <1>1, <1>2, <1>4 DEF Ledger
<1>6. Total(more, Young(more)) <= Total(more, Young(record) \cup {x})
  <2>1. Young(record) \cup {x} \in SUBSET DOMAIN more
    BY <1>1, <1>2, Zenon
  <2>. QED  BY <1>1, <1>4, <2>1, TotalMonotone, Zenon
<1>7. LastWindow(more) <= LastWindow(record) + n
  <2>1. LastWindow(more) = Total(more, Young(more))
    BY <1>1, LastWindowNat, Zenon
  <2>2. LastWindow(record) = Total(record, Young(record))
    BY LastWindowNat, Zenon DEF Ledger
  <2>3. Total(more, Young(record) \cup {x}) = Total(record, Young(record)) + n
    BY <1>2, <1>3, Zenon
  <2>. QED  BY <1>6, <2>1, <2>2, <2>3, Zenon
<1>. QED  BY <1>5, <1>7, Zenon DEF more, x

\* A tick takes entries out of the window and puts none in.
LEMMA LedgerLater ==
  ASSUME NEW record, NEW ledger, Ledger(record, ledger), clock \in Nat, clock' = clock + 1
  PROVE  Ledger(record, ledger)' /\ LastWindow(record)' <= LastWindow(record)
<1>1. \A k \in DOMAIN record : record[k][1] \in Nat
  BY RecordFacts, Zenon DEF Ledger
<1>2. SpendWindow \in Nat
  BY MeteringAssumption, Zenon
<1>3. Young(record)' \subseteq Young(record)
  BY <1>1, <1>2 DEF Young
<1>4. Ledger(record, ledger)'
  BY <1>1, <1>3 DEF Ledger
<1>5. Total(record, Young(record)') <= Total(record, Young(record))
  <2>1. record \in Record /\ Young(record) \in SUBSET DOMAIN record
    BY Zenon DEF Ledger, Young
  <2>. QED  BY <1>3, <2>1, TotalMonotone, Zenon
<1>. QED  BY <1>4, <1>5, Zenon DEF LastWindow, Young

-----------------------------------------------------------------------------
\* The sessions that pay: those of remote models.
Priced == Meters \ LocalModel

\* Turns let through that have yet to be billed.
Unbilled == {s \in Priced : gate[s] \in {"session", "identity", "running"}}

\* What is billed in the window, and what the turns let through may yet bill,
\* stay below the ceiling and one turn's cost for every paying session.
Room ==
  Ceiling > 0 =>
    LastWindow(bills) + Cardinality(Unbilled) * Max(Actuals)
      < Ceiling + Cardinality(Priced) * Max(Actuals)

\* The inductive invariant.
SpendInv ==
  /\ clock \in Nat
  /\ gate \in [Meters -> {"idle", "session", "identity", "running", "settle"}]
  /\ Ledger(bills, spend) /\ Ledger(work, usage)
  /\ Room

\* The largest cost of a turn.
LEMMA MostOfAll ==
  /\ Max(Actuals) \in Nat
  /\ \A n \in Actuals : n \in Nat /\ n <= Max(Actuals)
<1>1. Actuals \subseteq Nat /\ \E most \in Actuals : \A n \in Actuals : most >= n
  BY MeteringAssumption, Zenon
<1>2. Max(Actuals) \in Actuals /\ \A n \in Actuals : Max(Actuals) >= n
  BY <1>1, Zenon DEF Max
<1>. QED  BY <1>1, <1>2, Zenon

\* The turns under way can be counted.
LEMMA UnbilledFinite ==
  /\ IsFiniteSet(Priced) /\ IsFiniteSet(Unbilled)
  /\ Cardinality(Unbilled) \in Nat /\ Cardinality(Priced) \in Nat
  /\ Cardinality(Unbilled) <= Cardinality(Priced)
<1>1. IsFiniteSet(Priced)
  BY FS_Subset, MeteringAssumption, Zenon DEF Priced
<1>2. Unbilled \subseteq Priced
  BY Zenon DEF Unbilled
<1>. QED  BY <1>1, <1>2, FS_Subset, FS_CardinalityType, Zenon

\* Nothing billed and nobody let through: the room stays.
LEMMA RoomStays ==
  ASSUME Room, bills \in Record, bills' \in Record, Unbilled' \subseteq Unbilled,
         LastWindow(bills)' <= LastWindow(bills)
  PROVE  Room'
<1>. DEFINE M == Max(Actuals)
            u == Cardinality(Unbilled)
            v == Cardinality(Unbilled')
            p == Cardinality(Priced)
<1>1. M \in Nat /\ u \in Nat /\ v \in Nat /\ p \in Nat /\ v <= u
  BY MostOfAll, UnbilledFinite, FS_Subset, FS_CardinalityType, Zenon
<1>2. LastWindow(bills) \in Nat /\ LastWindow(bills)' \in Nat
  <2>. DEFINE now == Young(bills)'
  <2>1. now \in SUBSET DOMAIN bills' /\ LastWindow(bills)' = Total(bills', now)
    BY Zenon DEF Young, LastWindow
  <2>. HIDE DEF now
  <2>. QED BY <2>1, LastWindowNat, TotalNat, Zenon
<1>3. v * M <= u * M /\ v * M \in Nat /\ u * M \in Nat /\ p * M \in Nat
  <2>1. \A a, b, c \in Nat : a <= b => a * c <= b * c
    OBVIOUS
  <2>. HIDE DEF v, u, M, p
  <2>. QED  BY <1>1, <2>1, Times, Zenon
<1>4. Ceiling \in Nat /\ UNCHANGED Priced
  BY MeteringAssumption, Zenon DEF Priced
<1>5. Ceiling > 0 => LastWindow(bills) + u * M < Ceiling + p * M
  BY Zenon DEF Room
<1>6. Ceiling > 0 => LastWindow(bills)' + v * M < Ceiling + p * M
  <2>. HIDE DEF v, u, M, p
  <2>. DEFINE vm == v * M
              um == u * M
              pm == p * M
  <2>1. /\ vm <= um /\ vm \in Nat /\ um \in Nat /\ pm \in Nat
        /\ Ceiling > 0 => LastWindow(bills) + um < Ceiling + pm
    BY <1>3, <1>5, Zenon
  <2>. HIDE DEF vm, um, pm
  <2>2. Ceiling > 0 => LastWindow(bills)' + vm < Ceiling + pm
    BY <1>2, <1>4, <2>1
  <2>. QED  BY <2>2, Zenon DEF vm, pm
<1>. QED  BY <1>4, <1>6, Zenon DEF Room

\* A turn that is let through was within the ceiling, whatever else is running.
LEMMA RoomForOne ==
  ASSUME SpendInv, UNCHANGED <<clock, bills>>, LastWindow(bills) < Ceiling
  PROVE  Room'
<1>. DEFINE M == Max(Actuals)
            v == Cardinality(Unbilled')
            p == Cardinality(Priced)
<1>1. M \in Nat /\ v \in Nat /\ p \in Nat /\ v <= p
  <2>1. Unbilled' \subseteq Priced
    BY Zenon DEF Unbilled, Priced
  <2>. QED  BY <2>1, MostOfAll, UnbilledFinite, FS_Subset, FS_CardinalityType, Zenon
<1>2. LastWindow(bills) \in Nat /\ LastWindow(bills)' = LastWindow(bills)
  BY LastWindowNat, Zenon DEF SpendInv, Ledger, LastWindow
<1>3. v * M <= p * M /\ v * M \in Nat /\ p * M \in Nat
  <2>1. \A a, b, c \in Nat : a <= b => a * c <= b * c
    OBVIOUS
  <2>. HIDE DEF v, M, p
  <2>. QED  BY <1>1, <2>1, Times, Zenon
<1>4. Ceiling \in Nat /\ UNCHANGED Priced
  BY MeteringAssumption, Zenon DEF Priced
<1>5. LastWindow(bills)' + v * M < Ceiling + p * M
  <2>. HIDE DEF v, M, p
  <2>. QED  BY <1>2, <1>3, <1>4
<1>. QED  BY <1>4, <1>5, Zenon DEF Room

\* A turn that is billed is one fewer that may be.
LEMMA RoomBilled ==
  ASSUME SpendInv, NEW s \in Unbilled, NEW n \in Actuals, Unbilled' = Unbilled \ {s},
         UNCHANGED clock, bills' \in Record, LastWindow(bills)' <= LastWindow(bills) + n
  PROVE  Room'
<1>. DEFINE M == Max(Actuals)
            u == Cardinality(Unbilled)
            v == Cardinality(Unbilled')
            p == Cardinality(Priced)
<1>1. M \in Nat /\ u \in Nat /\ v \in Nat /\ p \in Nat /\ v + 1 = u
  <2>1. v = u - 1
    BY UnbilledFinite, FS_RemoveElement, Zenon
  <2>. QED  BY <2>1, MostOfAll, UnbilledFinite, FS_Subset, FS_CardinalityType
<1>2. LastWindow(bills) \in Nat /\ LastWindow(bills)' \in Nat /\ n \in Nat /\ n <= M
  <2>. DEFINE now == Young(bills)'
  <2>1. now \in SUBSET DOMAIN bills' /\ LastWindow(bills)' = Total(bills', now)
    BY Zenon DEF Young, LastWindow
  <2>. HIDE DEF now
  <2>. QED BY <2>1, LastWindowNat, TotalNat, MostOfAll, Zenon DEF SpendInv, Ledger
<1>3. u * M = v * M + M /\ v * M \in Nat /\ p * M \in Nat
  <2>1. \A a, b, c \in Nat : a + 1 = b => b * c = a * c + c
    OBVIOUS
  <2>. HIDE DEF v, u, M, p
  <2>. QED  BY <1>1, <2>1, Times, Zenon
<1>4. Ceiling \in Nat /\ UNCHANGED Priced
  BY MeteringAssumption, Zenon DEF Priced
<1>5. Ceiling > 0 => LastWindow(bills) + u * M < Ceiling + p * M
  BY Zenon DEF Room, SpendInv
<1>6. Ceiling > 0 => LastWindow(bills)' + v * M < Ceiling + p * M
  <2>. HIDE DEF v, u, M, p
  <2>. DEFINE vm == v * M
              pm == p * M
  <2>1. /\ vm \in Nat /\ pm \in Nat
        /\ Ceiling > 0 => LastWindow(bills) + (vm + M) < Ceiling + pm
    BY <1>3, <1>5, Zenon
  <2>. HIDE DEF vm, pm
  <2>2. Ceiling > 0 => LastWindow(bills)' + vm < Ceiling + pm
    BY <1>1, <1>2, <1>4, <2>1
  <2>. QED  BY <2>2, Zenon DEF vm, pm
<1>. QED  BY <1>4, <1>6, Zenon DEF Room

\* A thread that passes from one gate to the next.
LEMMA MovesOn ==
  ASSUME SpendInv, UNCHANGED <<clock, bills, work, usage>>, spend' \in {spend, Retain(bills, spend)},
         NEW s \in Meters, NEW to \in {"idle", "session", "identity", "running", "settle"},
         Go(s, to), to \in {"session", "identity", "running"} => s \in Unbilled \cup LocalModel
  PROVE  SpendInv'
<1>1. /\ gate' \in [Meters -> {"idle", "session", "identity", "running", "settle"}]
      /\ clock' \in Nat
  BY Zenon DEF SpendInv, Go
<1>2. Ledger(bills, Retain(bills, spend)) /\ Ledger(bills, spend) /\ Ledger(work, usage)
  BY PrunedLedger, Zenon DEF SpendInv
<1>3. Ledger(bills, spend)' /\ Ledger(work, usage)'
  BY <1>2, Zenon DEF Ledger, Young
<1>4. Unbilled' \subseteq Unbilled
  BY Zenon DEF SpendInv, Go, Unbilled, Priced
<1>5. LastWindow(bills)' <= LastWindow(bills)
  <2>1. LastWindow(bills) \in Nat
    BY <1>2, LastWindowNat, Zenon DEF Ledger
  <2>. QED  BY <2>1 DEF LastWindow
<1>6. Room'
  BY <1>2, <1>4, <1>5, RoomStays, Zenon DEF SpendInv, Ledger
<1>. QED  BY <1>1, <1>3, <1>6, Zenon DEF SpendInv

\* The spend gate lets a turn through only while the window is below the
\* ceiling.
LEMMA PermitKeeps ==
  ASSUME SpendInv, NEW s \in Meters, SpendPermits(s)
  PROVE  SpendInv'
<1>1. UNCHANGED <<clock, bills, work, usage>>
  BY Zenon DEF SpendPermits
<1>2. CASE s \in LocalModel
  <2>1. Price(s, 2) = 0
    BY <1>2, Zenon DEF Price
  <2>2. Go(s, "session") /\ UNCHANGED spend
    BY <2>1, Zenon DEF SpendPermits
  <2>. QED  BY <1>1, <1>2, <2>2, MovesOn, Zenon
<1>3. CASE s \notin LocalModel
  <2>1. Price(s, 2) # 0
    BY <1>3 DEF Price
  <2>2. Spent = LastWindow(bills) /\ LastWindow(bills) \in Nat
    BY RetainYoung, LastWindowNat, Zenon DEF Spent, SpendInv, Ledger
  <2>3. CASE Ceiling # 0 /\ Spent >= Ceiling
    <3>1. Go(s, "idle") /\ spend' = Retain(bills, spend)
      BY <2>1, <2>3, Zenon DEF SpendPermits
    <3>. QED  BY <1>1, <3>1, MovesOn, Zenon
  <2>4. CASE Ceiling = 0 \/ ~(Spent >= Ceiling)
    <3>1. Go(s, "session") /\ spend' \in {spend, Retain(bills, spend)}
      BY <2>1, <2>4, Zenon DEF SpendPermits
    <3>2. /\ gate' \in [Meters -> {"idle", "session", "identity", "running", "settle"}]
          /\ clock' \in Nat
      BY <1>1, <3>1, Zenon DEF SpendInv, Go
    <3>3. Ledger(bills, Retain(bills, spend)) /\ Ledger(bills, spend) /\ Ledger(work, usage)
      BY PrunedLedger, Zenon DEF SpendInv
    <3>4. Ledger(bills, spend)' /\ Ledger(work, usage)'
      BY <1>1, <3>1, <3>3, Zenon DEF Ledger, Young
    <3>5. Room'
      <4>1. CASE Ceiling = 0
        BY <4>1 DEF Room
      <4>2. CASE Ceiling # 0
        BY <1>1, <2>2, <2>4, <4>2, RoomForOne, MeteringAssumption
      <4>. QED  BY <4>1, <4>2, Zenon
    <3>. QED  BY <3>2, <3>4, <3>5, Zenon DEF SpendInv
  <2>. QED  BY <2>3, <2>4, Zenon
<1>. QED  BY <1>2, <1>3, Zenon

\* A turn that ends bills its actual tokens and is no longer under way.
LEMMA DoneKeeps ==
  ASSUME SpendInv, NEW s \in Meters, TurnDone(s)
  PROVE  SpendInv'
<1>1. PICK n \in Actuals : ChargeFor(s, n)
  BY Zenon DEF TurnDone
<1>2. UNCHANGED clock /\ Go(s, "settle") /\ gate[s] = "running"
  BY Zenon DEF TurnDone
<1>3. n \in Nat
  BY MostOfAll, Zenon
<1>4. /\ gate' \in [Meters -> {"idle", "session", "identity", "running", "settle"}]
      /\ clock' \in Nat
  BY <1>2, Zenon DEF SpendInv, Go
<1>5. /\ Unbilled' = Unbilled \ {s}
      /\ s \notin LocalModel => s \in Unbilled
  BY <1>2, Zenon DEF SpendInv, Go, Unbilled, Priced
<1>6. Ledger(work, usage)'
  <2>1. CASE n = 0
    BY <1>1, <1>2, <2>1, Zenon DEF ChargeFor, SpendInv, Ledger, Young
  <2>2. CASE n # 0
    <3>1. /\ usage' = Retain(work, usage) \cup {Len(work) + 1}
          /\ work' = Append(work, <<clock, n>>)
      BY <1>1, <2>2, Zenon DEF ChargeFor
    <3>2. Ledger(work', usage')
      BY <1>3, <3>1, EntryKept, Zenon DEF SpendInv
    <3>. QED  BY <1>2, <3>2, Zenon DEF Ledger, Young
  <2>. QED  BY <2>1, <2>2, Zenon
<1>7. Ledger(bills, spend)' /\ Room'
  <2>1. CASE Price(s, n) = 0
    <3>1. spend' \in {spend, Retain(bills, spend)} /\ UNCHANGED bills
      BY <1>1, <2>1, Zenon DEF ChargeFor
    <3>2. Ledger(bills, Retain(bills, spend)) /\ Ledger(bills, spend)
      BY PrunedLedger, Zenon DEF SpendInv
    <3>3. Ledger(bills, spend)'
      BY <1>2, <3>1, <3>2, Zenon DEF Ledger, Young
    <3>4. LastWindow(bills)' <= LastWindow(bills)
      <4>1. LastWindow(bills) \in Nat
        BY <3>2, LastWindowNat, Zenon DEF Ledger
      <4>. QED  BY <1>2, <3>1, <4>1 DEF LastWindow
    <3>5. Room'
      BY <1>5, <3>1, <3>2, <3>4, RoomStays DEF SpendInv, Ledger
    <3>. QED  BY <3>3, <3>5, Zenon
  <2>2. CASE Price(s, n) # 0
    <3>1. s \notin LocalModel /\ Price(s, n) = n
      BY <2>2, Zenon DEF Price
    <3>2. /\ spend' = Retain(bills, spend) \cup {Len(bills) + 1}
          /\ bills' = Append(bills, <<clock, n>>)
      BY <1>1, <2>2, <3>1, Zenon DEF ChargeFor
    <3>3. Ledger(bills', spend') /\ LastWindow(bills') <= LastWindow(bills) + n
      BY <1>3, <3>2, EntryKept, Zenon DEF SpendInv
    <3>4. LastWindow(bills)' = LastWindow(bills')
      BY <1>2, Zenon DEF LastWindow
    <3>5. Ledger(bills, spend)'
      BY <1>2, <3>3, Zenon DEF Ledger, Young
    <3>6. Room'
      BY <1>2, <1>5, <3>1, <3>3, <3>4, RoomBilled, Zenon DEF Ledger
    <3>. QED  BY <3>5, <3>6, Zenon
  <2>. QED  BY <2>1, <2>2, Zenon
<1>. QED  BY <1>4, <1>6, <1>7, Zenon DEF SpendInv

\* Every step keeps the invariant.
LEMMA SpendKept ==
  ASSUME SpendInv, [MeterNext]_meterVars
  PROVE  SpendInv'
<1>1. ASSUME NEW s \in Meters, SpendPermits(s) PROVE SpendInv'
  BY <1>1, PermitKeeps, Zenon
<1>2. ASSUME NEW s \in Meters, TakeSession(s) \/ TakeIdentity(s) PROVE SpendInv'
  <2>1. /\ UNCHANGED <<clock, bills, work, usage, spend>>
        /\ gate[s] \in {"session", "identity"}
        /\ \E to \in {"idle", "identity", "running"} : Go(s, to)
    BY <1>2, Zenon DEF TakeSession, TakeIdentity
  <2>2. s \in Unbilled \cup LocalModel
    BY <2>1, Zenon DEF Unbilled, Priced
  <2>. QED  BY <2>1, <2>2, MovesOn, Zenon
<1>3. ASSUME NEW s \in Meters, TurnDone(s) PROVE SpendInv'
  BY <1>3, DoneKeeps, Zenon
<1>4. ASSUME NEW s \in Meters, TurnFailed(s) PROVE SpendInv'
  <2>1. UNCHANGED <<clock, bills, work, usage, spend>> /\ Go(s, "settle")
    BY <1>4, Zenon DEF TurnFailed
  <2>. QED  BY <2>1, MovesOn, Zenon
<1>5. ASSUME NEW s \in Meters, Settle(s) PROVE SpendInv'
  <2>1. UNCHANGED <<clock, bills, work, usage, spend>> /\ Go(s, "idle")
    BY <1>5, Zenon DEF Settle
  <2>. QED  BY <2>1, MovesOn, Zenon
<1>6. CASE RevokeBucket \/ UNCHANGED meterVars
  <2>1. UNCHANGED <<clock, gate, bills, work, usage, spend>>
    BY <1>6, Zenon DEF RevokeBucket, meterVars
  <2>. QED  BY <2>1, Zenon DEF SpendInv, Room, Ledger, Young, LastWindow, Unbilled, Priced
<1>7. CASE MeterTick
  <2>1. UNCHANGED <<gate, bills, work, usage, spend>> /\ clock' = clock + 1
    BY <1>7, Zenon DEF MeterTick
  <2>2. /\ Ledger(bills, spend)' /\ LastWindow(bills)' <= LastWindow(bills)
        /\ Ledger(work, usage)'
    <3>1. \A r, l : Ledger(r, l) => Ledger(r, l)' /\ LastWindow(r)' <= LastWindow(r)
      BY <2>1, LedgerLater, Zenon DEF SpendInv
    <3>. QED  BY <2>1, <3>1 DEF SpendInv, Ledger, LastWindow, Young
  <2>3. Unbilled' = Unbilled
    BY <2>1, Zenon DEF Unbilled, Priced
  <2>4. Room'
    BY <2>1, <2>2, <2>3, RoomStays DEF SpendInv, Ledger
  <2>. QED  BY <2>1, <2>2, <2>4 DEF SpendInv
<1>. QED  BY <1>1, <1>2, <1>3, <1>4, <1>5, <1>6, <1>7 DEF MeterNext

\* charge_spend and spend_permits (policy.rs): the ledgers hold exactly the
\* entries of the last window, and since a turn is let through before it is
\* billed, the total passes the ceiling by less than one turn of every
\* session of a priced model; for any ceiling, window, sessions and amounts.
THEOREM SpendHolds == MeterSpec => []SpendBounded
<1>1. MeterInit => SpendInv
  <2>. SUFFICES ASSUME MeterInit PROVE SpendInv
    BY Zenon
  <2>1. << >> \in Record /\ DOMAIN << >> = {} /\ Young(<< >>) = {}
    BY DEF Record, Young
  <2>2. Ledger(bills, spend) /\ Ledger(work, usage)
    BY <2>1, Zenon DEF MeterInit, Ledger
  <2>3. LastWindow(bills) = 0
    BY <2>1, LastWindowNat, TotalNone, Zenon DEF MeterInit
  <2>4. Room
    <3>1. Unbilled = {}
      BY Zenon DEF MeterInit, Unbilled, Priced
    <3>2. Cardinality(Unbilled) = 0
      BY <3>1, FS_EmptySet, Zenon
    <3>3. Max(Actuals) \in Nat /\ Cardinality(Priced) \in Nat /\ Ceiling \in Nat
      BY MostOfAll, UnbilledFinite, MeteringAssumption, Zenon
    <3>4. Cardinality(Priced) * Max(Actuals) \in Nat /\ 0 * Max(Actuals) = 0
      BY <3>3
    <3>. QED  BY <2>3, <3>2, <3>3, <3>4 DEF Room
  <2>. QED  BY <2>2, <2>4, Zenon DEF MeterInit, SpendInv
<1>2. SpendInv => SpendBounded
  <2>. SUFFICES ASSUME SpendInv PROVE SpendBounded
    BY Zenon
  <2>1. /\ Spent = LastWindow(bills) /\ Total(work, Retain(work, usage)) = LastWindow(work)
        /\ Spent \in Nat
    BY RetainYoung, LastWindowNat, Zenon DEF SpendInv, Ledger, Spent
  <2>2. ASSUME Ceiling > 0 PROVE Spent < Ceiling + Cardinality(Priced) * Max(Actuals)
    <3>1. Cardinality(Unbilled) * Max(Actuals) \in Nat /\ Cardinality(Priced) * Max(Actuals) \in Nat
      BY MostOfAll, UnbilledFinite, Times, Zenon
    <3>. QED  BY <2>1, <2>2, <3>1, MeteringAssumption DEF SpendInv, Room
  <2>. QED  BY <2>1, <2>2, Zenon DEF SpendBounded, LedgersExact, OvershootBounded, Priced
<1>. QED  BY <1>1, <1>2, SpendKept, PTL DEF MeterSpec
=============================================================================
