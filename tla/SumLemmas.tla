------------------------------ MODULE SumLemmas ------------------------------
(***************************************************************************)
(* What SumFunction, a fold of the community modules, computes over any    *)
(* finite set: its type, when it is zero, and what a change at one place   *)
(* does to it.  The fold is a recursive function on the subsets of its     *)
(* domain; that it exists, and what it is, follow by induction on their    *)
(* sizes, written as the absence of a smallest counterexample.             *)
(***************************************************************************)
EXTENDS Functions, FiniteSetTheorems, WellFoundedInduction, TLAPS

\* A set of numbers that is not empty has a smallest one.
LEMMA Smallest ==
  ASSUME NEW T, T \subseteq Nat, T # {}
  PROVE  \E n \in T : \A m \in T : n <= m
<1>1. OpToRel(<, Nat) = {r \in Nat \X Nat : r[1] < r[2]}
  BY Zenon DEF OpToRel
<1>2. IsWellFoundedOn({r \in Nat \X Nat : r[1] < r[2]}, Nat)
  BY <1>1, NatLessThanWellFounded, Zenon
<1>3. PICK n \in T : \A m \in T : ~ (<<m, n>> \in {r \in Nat \X Nat : r[1] < r[2]})
  BY <1>2, WFMin
<1>4. ASSUME NEW m \in T PROVE n <= m
  <2>1. m \in Nat /\ n \in Nat
    OBVIOUS
  <2>2. ~ (m < n)
    BY <1>3, <2>1
  <2>3. QED
    BY <2>1, <2>2
<1>5. QED
  BY <1>4

\* The element the fold takes from a set first.
Pick(s) == CHOOSE x \in s : TRUE

\* One step of the fold: the sum over s from the sums g over smaller sets.
Folded(g, f, s) == IF s = {} THEN 0 ELSE f[Pick(s)] + g[s \ {Pick(s)}]

\* g gives the sum of f over each set of C.
Sums(g, f, C) == g = [s \in C |-> Folded(g, f, s)]

LEMMA PickFacts ==
  ASSUME NEW s, s # {}, IsFiniteSet(s)
  PROVE  /\ Pick(s) \in s
         /\ IsFiniteSet(s \ {Pick(s)})
         /\ Cardinality(s) \in Nat
         /\ Cardinality(s \ {Pick(s)}) \in Nat
         /\ Cardinality(s \ {Pick(s)}) = Cardinality(s) - 1
<1>1. Pick(s) \in s
  BY DEF Pick
<1>2. QED
  BY <1>1, FS_RemoveElement, FS_CardinalityType

(***************************************************************************)
(* Induction over the subsets of a finite set, for a property given as the *)
(* set G of the subsets that have it.                                      *)
(***************************************************************************)
LEMMA SubsetInduction ==
  ASSUME NEW S, IsFiniteSet(S), NEW G, {} \in G,
         \A s \in SUBSET S : s # {} /\ s \ {Pick(s)} \in G => s \in G
  PROVE  \A s \in SUBSET S : s \in G
<1> SUFFICES ASSUME NEW t \in SUBSET S, t \notin G PROVE FALSE
  OBVIOUS
<1> DEFINE Sizes == {n \in Nat : \E s \in SUBSET S : s \notin G /\ Cardinality(s) = n}
<1>1. \A s \in SUBSET S : IsFiniteSet(s) /\ Cardinality(s) \in Nat
  BY FS_Subset, FS_CardinalityType
<1>2. Sizes \in SUBSET Nat /\ Sizes # {}
  BY <1>1
<1> HIDE DEF Sizes
<1>3. PICK n \in Sizes : \A m \in Sizes : n <= m
  BY <1>2, Smallest
<1>4. PICK s \in SUBSET S : s \notin G /\ Cardinality(s) = n
  BY <1>3 DEF Sizes
<1>5. s # {}
  BY <1>4
<1>6. s \ {Pick(s)} \notin G
  BY <1>4, <1>5
<1>7. Cardinality(s \ {Pick(s)}) \in Sizes /\ Cardinality(s \ {Pick(s)}) = n - 1
  BY <1>1, <1>4, <1>5, <1>6, PickFacts DEF Sizes
<1>8. n \in Nat /\ n <= n - 1
  BY <1>2, <1>3, <1>7
<1>9. QED
  BY <1>8

\* The sums over the small subsets exist, up to any size.
LEMMA SumsOfSizeExist ==
  ASSUME NEW S, IsFiniteSet(S), NEW f
  PROVE  \A n \in Nat : \E g : Sums(g, f, {s \in SUBSET S : Cardinality(s) <= n})
<1> DEFINE Small(n) == {s \in SUBSET S : Cardinality(s) <= n}
           Bad == {n \in Nat : ~ \E g : Sums(g, f, Small(n))}
<1>1. SUFFICES ASSUME Bad # {} PROVE FALSE
  OBVIOUS
<1>2. PICK n \in Bad : \A m \in Bad : n <= m
  <2>1. Bad \in SUBSET Nat
    OBVIOUS
  <2> HIDE DEF Bad
  <2>2. QED
    BY <1>1, <2>1, Smallest
<1>3. \A s \in SUBSET S : IsFiniteSet(s) /\ Cardinality(s) \in Nat
  BY FS_Subset, FS_CardinalityType
<1>4. CASE n = 0
  <2> DEFINE g == [s \in Small(0) |-> 0]
  <2>1. \A s \in Small(0) : s = {}
    BY <1>3, FS_EmptySet
  <2>2. g = [s \in Small(0) |-> Folded(g, f, s)]
    BY <2>1 DEF Folded
  <2>3. \E h : Sums(h, f, Small(0))
    BY <2>2 DEF Sums
  <2>4. QED
    BY <1>2, <1>4, <2>3
<1>5. CASE n # 0
  <2>1. n \in Nat /\ n - 1 \in Nat
    BY <1>5
  <2>2. n - 1 \notin Bad
    <3> HIDE DEF Bad
    <3>1. QED
      BY <1>2, <2>1
  <2>3. PICK g : Sums(g, f, Small(n - 1))
    BY <2>1, <2>2
  <2> DEFINE h == [s \in Small(n) |-> Folded(g, f, s)]
  <2>4. ASSUME NEW s \in Small(n) PROVE Folded(g, f, s) = Folded(h, f, s)
    <3>1. CASE s = {}
      BY <3>1 DEF Folded
    <3>2. CASE s # {}
      <4> DEFINE t == s \ {Pick(s)}
      <4>1. Cardinality(s) <= n
        BY <2>4
      <4>2. t \in Small(n) /\ t \in Small(n - 1)
        BY <1>3, <2>1, <3>2, <4>1, PickFacts
      <4>3. g[t] = Folded(g, f, t)
        BY <2>3, <4>2 DEF Sums
      <4>4. h[t] = Folded(g, f, t)
        BY <4>2
      <4>5. g[t] = h[t]
        BY <4>3, <4>4
      <4>6. QED
        BY <4>5 DEF Folded
    <3>3. QED
      BY <3>1, <3>2
  <2>5. Sums(h, f, Small(n))
    BY <2>4 DEF Sums
  <2>6. QED
    BY <1>2, <2>5
<1>6. QED
  BY <1>4, <1>5

\* SumFunction is the whole of a table of sums.
LEMMA SumIsTabled ==
  ASSUME NEW S, IsFiniteSet(S), NEW f, DOMAIN f = S
  PROVE  \E g : Sums(g, f, SUBSET S) /\ SumFunction(f) = g[S]
<1> DEFINE G == CHOOSE g : g = [s \in SUBSET S |-> Folded(g, f, s)]
<1>1. SumFunction(f) = G[S]
  BY DEF SumFunction, SumFunctionOnSet, FoldFunctionOnSet, MapThenFoldSet, Folded, Pick
<1>2. {s \in SUBSET S : Cardinality(s) <= Cardinality(S)} = SUBSET S
  BY FS_Subset
<1>3. \E g : Sums(g, f, SUBSET S)
  <2>1. Cardinality(S) \in Nat
    BY FS_CardinalityType
  <2>2. \E g : Sums(g, f, {s \in SUBSET S : Cardinality(s) <= Cardinality(S)})
    BY <2>1, SumsOfSizeExist
  <2>3. QED
    BY <1>2, <2>2
<1>4. \E g : g = [s \in SUBSET S |-> Folded(g, f, s)]
  BY <1>3 DEF Sums
<1>5. G = [s \in SUBSET S |-> Folded(G, f, s)]
  BY <1>4
<1> HIDE DEF G
<1>6. QED
  BY <1>1, <1>5 DEF Sums

(***************************************************************************)
(* A function that differs from another at one place only: so do the sums. *)
(***************************************************************************)
LEMMA SumMoves ==
  ASSUME NEW S, IsFiniteSet(S), NEW f \in [S -> Nat], NEW h \in [S -> Nat],
         NEW x \in S, \A y \in S \ {x} : h[y] = f[y]
  PROVE  /\ SumFunction(f) \in Nat /\ SumFunction(h) \in Nat
         /\ SumFunction(h) + f[x] = SumFunction(f) + h[x]
<1>1. PICK g : Sums(g, f, SUBSET S) /\ SumFunction(f) = g[S]
  BY SumIsTabled
<1>2. PICK k : Sums(k, h, SUBSET S) /\ SumFunction(h) = k[S]
  BY SumIsTabled
<1> DEFINE Good == {s \in SUBSET S :
                      /\ g[s] \in Nat /\ k[s] \in Nat
                      /\ x \in s => k[s] + f[x] = g[s] + h[x]
                      /\ x \notin s => k[s] = g[s]}
<1>3. \A s \in SUBSET S : g[s] = Folded(g, f, s) /\ k[s] = Folded(k, h, s)
  BY <1>1, <1>2 DEF Sums
<1>4. {} \in Good
  <2>1. g[{}] = 0 /\ k[{}] = 0
    BY <1>3 DEF Folded
  <2>2. QED
    BY <2>1
<1>5. ASSUME NEW s \in SUBSET S, s # {}, s \ {Pick(s)} \in Good
      PROVE  s \in Good
  <2> DEFINE p == Pick(s)
             t == s \ {p}
  <2>1. p \in s /\ p \in S
    BY <1>5 DEF Pick
  <2>2. g[s] = f[p] + g[t] /\ k[s] = h[p] + k[t]
    BY <1>3, <1>5 DEF Folded
  <2>3. f[p] \in Nat /\ h[p] \in Nat /\ f[x] \in Nat /\ h[x] \in Nat
    BY <2>1
  <2>4. g[t] \in Nat /\ k[t] \in Nat
    BY <1>5
  <2> HIDE DEF p
  <2>5. CASE p = x
    <3>1. x \in s /\ k[t] = g[t]
      BY <1>5, <2>1, <2>5 DEF p
    <3>2. QED
      BY <2>2, <2>3, <2>4, <2>5, <3>1
  <2>6. CASE p # x
    <3>1. h[p] = f[p] /\ (x \in s <=> x \in t)
      BY <2>1, <2>6
    <3>2. /\ x \in t => k[t] + f[x] = g[t] + h[x]
          /\ x \notin t => k[t] = g[t]
      BY <1>5 DEF p
    <3>3. QED
      BY <2>2, <2>3, <2>4, <3>1, <3>2
  <2>7. QED
    BY <2>5, <2>6
<1>6. S \in Good
  <2> HIDE DEF Good
  <2>1. \A s \in SUBSET S : s \in Good
    BY <1>4, <1>5, SubsetInduction
  <2>2. QED
    BY <2>1
<1>7. QED
  BY <1>1, <1>2, <1>6

\* A sum is a number, and at least each of its terms.
LEMMA SumBounds ==
  ASSUME NEW S, IsFiniteSet(S), NEW f \in [S -> Nat]
  PROVE  SumFunction(f) \in Nat /\ \A x \in S : f[x] <= SumFunction(f)
<1>1. PICK g : Sums(g, f, SUBSET S) /\ SumFunction(f) = g[S]
  BY SumIsTabled
<1> DEFINE Good == {s \in SUBSET S : g[s] \in Nat /\ \A x \in s : f[x] <= g[s]}
<1>2. \A s \in SUBSET S : g[s] = Folded(g, f, s)
  BY <1>1 DEF Sums
<1>3. {} \in Good
  BY <1>2 DEF Folded
<1>4. ASSUME NEW s \in SUBSET S, s # {}, s \ {Pick(s)} \in Good
      PROVE  s \in Good
  <2> DEFINE p == Pick(s)
             t == s \ {p}
  <2>1. p \in s /\ p \in S /\ f[p] \in Nat
    BY <1>4 DEF Pick
  <2>2. g[s] = f[p] + g[t] /\ g[t] \in Nat
    BY <1>2, <1>4 DEF Folded
  <2> HIDE DEF p
  <2>3. ASSUME NEW x \in s PROVE f[x] <= g[s]
    <3>1. x = p \/ (x \in t /\ f[x] \in Nat /\ f[x] <= g[t])
      BY <1>4 DEF p
    <3>2. QED
      BY <2>1, <2>2, <3>1
  <2>4. QED
    BY <2>1, <2>2, <2>3
<1>5. S \in Good
  <2> HIDE DEF Good
  <2>1. \A s \in SUBSET S : s \in Good
    BY <1>3, <1>4, SubsetInduction
  <2>2. QED
    BY <2>1
<1>6. QED
  BY <1>1, <1>5

\* A sum is zero exactly if all its terms are.
LEMMA SumOfNothing ==
  ASSUME NEW S, IsFiniteSet(S), NEW f \in [S -> Nat]
  PROVE  SumFunction(f) = 0 <=> \A x \in S : f[x] = 0
<1>1. PICK g : Sums(g, f, SUBSET S) /\ SumFunction(f) = g[S]
  BY SumIsTabled
<1>2. ASSUME \A x \in S : f[x] = 0 PROVE SumFunction(f) = 0
  <2> DEFINE Good == {s \in SUBSET S : g[s] = 0}
  <2>1. \A s \in SUBSET S : g[s] = Folded(g, f, s)
    BY <1>1 DEF Sums
  <2>2. {} \in Good
    BY <2>1 DEF Folded
  <2>3. ASSUME NEW s \in SUBSET S, s # {}, s \ {Pick(s)} \in Good
        PROVE  s \in Good
    <3>1. Pick(s) \in S
      BY <2>3 DEF Pick
    <3>2. g[s] = f[Pick(s)] + g[s \ {Pick(s)}]
      BY <2>1, <2>3 DEF Folded
    <3>3. QED
      BY <1>2, <2>3, <3>1, <3>2
  <2>4. S \in Good
    <3> HIDE DEF Good
    <3>1. \A s \in SUBSET S : s \in Good
      BY <2>2, <2>3, SubsetInduction
    <3>2. QED
      BY <3>1
  <2>5. QED
    BY <1>1, <2>4
<1>3. ASSUME SumFunction(f) = 0 PROVE \A x \in S : f[x] = 0
  BY <1>3, SumBounds
<1>4. QED
  BY <1>2, <1>3

=============================================================================
