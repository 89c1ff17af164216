---------------------------- MODULE CountLemmas -----------------------------
(***************************************************************************)
(* Facts about worker counts that the proofs share: saturating arithmetic, *)
(* apply_step_limits for all counts and all fleets, sums over every finite *)
(* set, and the division of a total over hosts.  The library's induction   *)
(* theorems are stated over operators; here an induction is carried out    *)
(* over a set of naturals or of subsets, with WFMin.                       *)
(***************************************************************************)
EXTENDS Distribution, FiniteSetTheorems, WellFoundedInduction, TLAPS

-----------------------------------------------------------------------------
(* Saturating arithmetic and the step limits.                              *)
LEMMA SaturatingSubNat ==
  ASSUME NEW a \in Nat, NEW b \in Nat
  PROVE  SaturatingSub(a, b) \in Nat /\ SaturatingSub(a, b) <= a
BY DEF SaturatingSub

LEMMA MinMaxNat ==
  ASSUME NEW a \in Nat, NEW b \in Nat
  PROVE  /\ Min2(a, b) \in Nat /\ Min2(a, b) <= a /\ Min2(a, b) <= b
         /\ Max2(a, b) \in Nat /\ Max2(a, b) >= a /\ Max2(a, b) >= b
BY DEF Min2, Max2

LEMMA FleetFields ==
  ASSUME NEW fleet \in Fleets
  PROVE  /\ fleet.min_workers \in Nat /\ fleet.max_workers \in Nat
         /\ fleet.max_scale_up_per_cycle \in Nat
         /\ fleet.max_scale_down_per_cycle \in Nat
         /\ fleet.min_workers <= fleet.max_workers
BY DEF Fleets

LEMMA ClampRange ==
  ASSUME NEW n \in Nat, NEW low \in Nat, NEW high \in Nat, low <= high
  PROVE  Clamp(n, low, high) \in low .. high
BY DEF Clamp, Min2, Max2

(* controller.rs 994: the result of apply_step_limits is inside the fleet  *)
(* range wherever current lies, and from a current count inside the range  *)
(* it is at most one step away in either direction.                        *)
THEOREM StepLimitsHold ==
  ASSUME NEW desired \in Nat, NEW current \in Nat, NEW fleet \in Fleets
  PROVE  LET target == ApplyStepLimits(desired, current, fleet)
         IN  /\ target \in fleet.min_workers .. fleet.max_workers
             /\ current >= fleet.min_workers =>
                  target <= current + fleet.max_scale_up_per_cycle
             /\ current <= fleet.max_workers =>
                  target >= SaturatingSub(current, fleet.max_scale_down_per_cycle)
<1> DEFINE low == fleet.min_workers
           high == fleet.max_workers
           up == fleet.max_scale_up_per_cycle
           down == fleet.max_scale_down_per_cycle
<1>1. low \in Nat /\ high \in Nat /\ up \in Nat /\ down \in Nat /\ low <= high
  BY FleetFields
<1> HIDE DEF low, high, up, down
<1> QED BY <1>1 DEF ApplyStepLimits, Clamp, Min2, Max2, SaturatingSub, low, high, up, down

COROLLARY StepLimitsNat ==
  ASSUME NEW desired \in Nat, NEW current \in Nat, NEW fleet \in Fleets
  PROVE  ApplyStepLimits(desired, current, fleet) \in Nat
BY StepLimitsHold, FleetFields

-----------------------------------------------------------------------------
(* Induction, and sums.                                                    *)
(* Induction over the naturals, for membership in a set.                   *)
LEMMA NatSetInduction ==
  ASSUME NEW G, 0 \in G, \A n \in Nat : n \in G => n + 1 \in G
  PROVE  Nat \subseteq G
<1> DEFINE R == OpToRel(<, Nat)
           Bad == Nat \ G
<1>1. IsWellFoundedOn(R, Nat)
  BY NatLessThanWellFounded
<1>2. SUFFICES ASSUME Bad # {} PROVE FALSE
  OBVIOUS
<1>3. PICK n \in Bad : \A m \in Bad : <<m, n>> \notin R
  <2> HIDE DEF R
  <2>1. Bad \subseteq Nat
    OBVIOUS
  <2> HIDE DEF Bad
  <2> QED BY <1>1, <1>2, <2>1, WFMin
<1>4. n - 1 \in Nat /\ n - 1 \notin G
  <2>1. n \in Nat /\ n \notin G /\ n # 0
    BY <1>3
  <2>2. n - 1 \in Nat /\ (n - 1) + 1 = n
    BY <2>1
  <2> QED BY <2>1, <2>2
<1>5. <<n - 1, n>> \in R
  BY <1>4 DEF OpToRel
<1> QED BY <1>3, <1>4, <1>5

(* Every non-empty set of naturals has a least element.                    *)
LEMMA LeastNatural ==
  ASSUME NEW S \in SUBSET Nat, S # {}
  PROVE  \E n \in S : \A m \in S : n <= m
<1> DEFINE R == OpToRel(<, Nat)
<1>1. IsWellFoundedOn(R, Nat)
  BY NatLessThanWellFounded
<1>2. PICK n \in S : \A m \in S : <<m, n>> \notin R
  <2> HIDE DEF R
  <2> QED BY <1>1, WFMin
<1>3. \A m \in S : ~(m < n)
  BY <1>2 DEF OpToRel
<1> QED BY <1>3

(* The body of the recursive function behind SumOver.                      *)
Pick(s) == CHOOSE x \in s : TRUE
SumStep(f, g, s) == IF s = {} THEN 0 ELSE f[Pick(s)] + g[s \ {Pick(s)}]
SumsOver(f, S, g) == g = [s \in SUBSET S |-> SumStep(f, g, s)]

LEMMA PickElement ==
  ASSUME NEW s, s # {}
  PROVE  Pick(s) \in s
BY DEF Pick

(* What is left of a non-empty finite set without its picked element.      *)
LEMMA PickSmaller ==
  ASSUME NEW S, IsFiniteSet(S), NEW s \in SUBSET S, s # {}
  PROVE  /\ s \ {Pick(s)} \in SUBSET S
         /\ Cardinality(s) \in Nat
         /\ Cardinality(s \ {Pick(s)}) = Cardinality(s) - 1
         /\ Cardinality(s) # 0
<1>1. IsFiniteSet(s)
  BY FS_Subset
<1>2. Cardinality(s \ {Pick(s)}) = Cardinality(s) - 1
  BY <1>1, PickElement, FS_RemoveElement
<1> QED BY <1>1, <1>2, FS_CardinalityType, FS_EmptySet

(* The recursion has a solution: by induction on n there is a function     *)
(* that satisfies it on all subsets of at most n elements.                 *)
LEMMA SumsExist ==
  ASSUME NEW S, IsFiniteSet(S), NEW f, \A x \in S : f[x] \in Nat
  PROVE  \E g : SumsOver(f, S, g)
<1> DEFINE UpTo(g, n) == \A s \in SUBSET S : Cardinality(s) <= n => g[s] = SumStep(f, g, s)
           G == {n \in Nat : \E g \in [SUBSET S -> Nat] : UpTo(g, n)}
<1>0. \A s \in SUBSET S : Cardinality(s) \in Nat
  BY FS_Subset, FS_CardinalityType
<1>1. 0 \in G
  <2> DEFINE g == [s \in SUBSET S |-> 0]
  <2>1. UpTo(g, 0)
    BY <1>0, FS_Subset, FS_EmptySet DEF SumStep
  <2>2. g \in [SUBSET S -> Nat]
    OBVIOUS
  <2> QED BY <2>1, <2>2
<1>2. ASSUME NEW n \in Nat, n \in G
      PROVE  n + 1 \in G
  <2>1. PICK g \in [SUBSET S -> Nat] : UpTo(g, n)
    BY <1>2
  <2> DEFINE h == [s \in SUBSET S |-> IF Cardinality(s) <= n THEN g[s] ELSE SumStep(f, g, s)]
  <2>2. ASSUME NEW s \in SUBSET S
        PROVE  SumStep(f, g, s) \in Nat
    BY PickElement, PickSmaller DEF SumStep
  <2>3. h \in [SUBSET S -> Nat]
    BY <2>2
  <2>4. ASSUME NEW s \in SUBSET S, Cardinality(s) <= n + 1
        PROVE  h[s] = SumStep(f, h, s)
    <3>1. h[s] = SumStep(f, g, s)
      BY <2>1
    <3>2. CASE s = {}
      BY <3>1, <3>2 DEF SumStep
    <3>3. CASE s # {}
      <4>1. s \ {Pick(s)} \in SUBSET S /\ Cardinality(s \ {Pick(s)}) <= n
        BY <2>4, <3>3, <1>0, PickSmaller
      <4>2. h[s \ {Pick(s)}] = g[s \ {Pick(s)}]
        BY <4>1
      <4> HIDE DEF h
      <4> QED BY <3>1, <3>3, <4>2 DEF SumStep
    <3> QED BY <3>2, <3>3
  <2> HIDE DEF h
  <2> QED BY <2>3, <2>4
<1> HIDE DEF G
<1>3. Nat \subseteq G
  BY <1>1, <1>2, NatSetInduction
<1>4. Cardinality(S) \in G
  BY <1>0, <1>3
<1>5. PICK g \in [SUBSET S -> Nat] : UpTo(g, Cardinality(S))
  BY <1>4 DEF G
<1>6. \A s \in SUBSET S : Cardinality(s) <= Cardinality(S)
  BY FS_Subset
<1>7. \A s \in SUBSET S : g[s] = SumStep(f, g, s)
  BY <1>5, <1>6
<1>8. g = [s \in SUBSET S |-> SumStep(f, g, s)]
  BY <1>7
<1> QED BY <1>8 DEF SumsOver

(* Every solution has natural values.                                      *)
LEMMA SumsNat ==
  ASSUME NEW S, IsFiniteSet(S), NEW f, \A x \in S : f[x] \in Nat,
         NEW g, SumsOver(f, S, g)
  PROVE  \A s \in SUBSET S : g[s] \in Nat
<1> DEFINE G == {n \in Nat : \A s \in SUBSET S : Cardinality(s) = n => g[s] \in Nat}
<1>0. \A s \in SUBSET S : IsFiniteSet(s) /\ Cardinality(s) \in Nat
  BY FS_Subset, FS_CardinalityType
<1>1. \A s \in SUBSET S : g[s] = SumStep(f, g, s)
  BY DEF SumsOver
<1>2. 0 \in G
  <2>1. ASSUME NEW s \in SUBSET S, Cardinality(s) = 0
        PROVE  g[s] \in Nat
    <3>1. s = {}
      BY <1>0, <2>1, FS_EmptySet
    <3> QED BY <1>1, <3>1 DEF SumStep
  <2> QED BY <2>1
<1>3. ASSUME NEW n \in Nat, n \in G
      PROVE  n + 1 \in G
  <2>1. ASSUME NEW s \in SUBSET S, Cardinality(s) = n + 1
        PROVE  g[s] \in Nat
    <3>1. s # {}
      BY <2>1, FS_EmptySet
    <3>2. s \ {Pick(s)} \in SUBSET S /\ Cardinality(s \ {Pick(s)}) = n
      BY <2>1, <3>1, PickSmaller
    <3>3. g[s \ {Pick(s)}] \in Nat
      BY <1>3, <3>2
    <3>4. f[Pick(s)] \in Nat
      BY <3>1, PickElement
    <3>5. g[s] = f[Pick(s)] + g[s \ {Pick(s)}]
      BY <1>1, <3>1 DEF SumStep
    <3> QED BY <3>3, <3>4, <3>5
  <2> QED BY <2>1
<1> HIDE DEF G
<1>4. Nat \subseteq G
  BY <1>2, <1>3, NatSetInduction
<1> QED BY <1>0, <1>4 DEF G

(* A sum of naturals over a finite set is a natural.                       *)
LEMMA SumOverNat ==
  ASSUME NEW S, IsFiniteSet(S), NEW f, \A x \in S : f[x] \in Nat
  PROVE  SumOver(f, S) \in Nat
<1> DEFINE g == CHOOSE g : SumsOver(f, S, g)
<1>1. SumsOver(f, S, g)
  BY SumsExist
<1>2. SumOver(f, S) = g[S]
  BY DEF SumOver, MapThenSumSet, MapThenFoldSet, SumsOver, SumStep, Pick
<1> HIDE DEF g
<1> QED BY <1>1, <1>2, SumsNat

(* Induction over the subsets of a finite set.                             *)
LEMMA SubsetInduction ==
  ASSUME NEW U, IsFiniteSet(U), NEW G, {} \in G,
         \A T \in SUBSET U, x \in U : T \in G /\ x \notin T => T \cup {x} \in G
  PROVE  \A T \in SUBSET U : T \in G
<1> DEFINE N == {n \in Nat : \A T \in SUBSET U : Cardinality(T) = n => T \in G}
<1>0. \A T \in SUBSET U : IsFiniteSet(T) /\ Cardinality(T) \in Nat
  BY FS_Subset, FS_CardinalityType
<1>1. 0 \in N
  BY <1>0, FS_EmptySet
<1>2. ASSUME NEW n \in Nat, n \in N
      PROVE  n + 1 \in N
  <2>1. ASSUME NEW T \in SUBSET U, Cardinality(T) = n + 1
        PROVE  T \in G
    <3>1. T # {}
      BY <2>1, FS_EmptySet
    <3>2. PICK x \in T : TRUE
      BY <3>1
    <3>3. T \ {x} \in SUBSET U /\ Cardinality(T \ {x}) = n
      <4>1. Cardinality(T \ {x}) = Cardinality(T) - 1
        BY <1>0, FS_RemoveElement
      <4> QED BY <2>1, <4>1
    <3>4. T \ {x} \in G
      BY <1>2, <3>3
    <3>5. (T \ {x}) \cup {x} = T /\ x \in U /\ x \notin T \ {x}
      OBVIOUS
    <3> QED BY <3>3, <3>4, <3>5
  <2> QED BY <2>1
<1> HIDE DEF N
<1>3. Nat \subseteq N
  BY <1>1, <1>2, NatSetInduction
<1> QED BY <1>0, <1>3 DEF N

(* Every non-empty finite set of naturals has a greatest element.          *)
LEMMA GreatestNatural ==
  ASSUME NEW S \in SUBSET Nat, IsFiniteSet(S), S # {}
  PROVE  \E n \in S : \A m \in S : n >= m
<1> DEFINE G == {T \in SUBSET S : T # {} => \E n \in T : \A m \in T : n >= m}
<1>1. {} \in G
  OBVIOUS
<1>2. ASSUME NEW T \in SUBSET S, NEW x \in S, T \in G
      PROVE  T \cup {x} \in G
  <2>1. CASE T = {}
    BY <2>1
  <2>2. CASE T # {}
    <3>1. PICK n \in T : \A m \in T : n >= m
      BY <1>2, <2>2
    <3>2. CASE n >= x
      BY <3>1, <3>2
    <3>3. CASE ~(n >= x)
      <4>1. \A m \in T \cup {x} : x >= m
        BY <3>1, <3>3
      <4> QED BY <4>1
    <3> QED BY <3>2, <3>3
  <2> QED BY <2>1, <2>2
<1> HIDE DEF G
<1>3. \A T \in SUBSET S, x \in S : T \in G /\ x \notin T => T \cup {x} \in G
  BY <1>2
<1>4. \A T \in SUBSET S : T \in G
  BY <1>1, <1>3, SubsetInduction
<1>5. S \in G
  BY <1>4
<1> QED BY <1>5 DEF G

(* Two solutions agree wherever both are defined.                          *)
LEMMA SumsAgree ==
  ASSUME NEW S, IsFiniteSet(S), NEW T \in SUBSET S, NEW f,
         NEW g, SumsOver(f, S, g), NEW h, SumsOver(f, T, h)
  PROVE  g[T] = h[T]
<1> DEFINE N == {n \in Nat : \A s \in SUBSET T : Cardinality(s) = n => g[s] = h[s]}
<1>0. IsFiniteSet(T) /\ \A s \in SUBSET T : IsFiniteSet(s) /\ Cardinality(s) \in Nat
  BY FS_Subset, FS_CardinalityType
<1>1. \A s \in SUBSET T : g[s] = SumStep(f, g, s) /\ h[s] = SumStep(f, h, s)
  BY DEF SumsOver
<1>2. 0 \in N
  <2>1. ASSUME NEW s \in SUBSET T, Cardinality(s) = 0
        PROVE  g[s] = h[s]
    <3>1. s = {}
      BY <1>0, <2>1, FS_EmptySet
    <3> QED BY <1>1, <3>1 DEF SumStep
  <2> QED BY <2>1
<1>3. ASSUME NEW n \in Nat, n \in N
      PROVE  n + 1 \in N
  <2>1. ASSUME NEW s \in SUBSET T, Cardinality(s) = n + 1
        PROVE  g[s] = h[s]
    <3>1. s # {}
      BY <2>1, FS_EmptySet
    <3>2. s \ {Pick(s)} \in SUBSET T /\ Cardinality(s \ {Pick(s)}) = n
      BY <1>0, <2>1, <3>1, PickSmaller
    <3>3. g[s \ {Pick(s)}] = h[s \ {Pick(s)}]
      BY <1>3, <3>2
    <3> QED BY <1>1, <3>1, <3>3 DEF SumStep
  <2> QED BY <2>1
<1> HIDE DEF N
<1>4. Nat \subseteq N
  BY <1>2, <1>3, NatSetInduction
<1> QED BY <1>0, <1>4 DEF N

LEMMA SumUnfold ==
  ASSUME NEW S, IsFiniteSet(S), NEW f, \A x \in S : f[x] \in Nat
  PROVE  /\ S = {} => SumOver(f, S) = 0
         /\ S # {} => SumOver(f, S) = f[Pick(S)] + SumOver(f, S \ {Pick(S)})
<1> DEFINE g(T) == CHOOSE g : SumsOver(f, T, g)
<1>1. ASSUME NEW T \in SUBSET S
      PROVE  SumsOver(f, T, g(T)) /\ SumOver(f, T) = g(T)[T]
  <2>1. SumsOver(f, T, g(T))
    BY FS_Subset, SumsExist
  <2> QED BY <2>1 DEF SumOver, MapThenSumSet, MapThenFoldSet, SumsOver, SumStep, Pick
<1> HIDE DEF g
<1>2. g(S)[S] = SumStep(f, g(S), S) /\ SumOver(f, S) = g(S)[S]
  BY <1>1 DEF SumsOver
<1>3. CASE S = {}
  BY <1>2, <1>3 DEF SumStep
<1>4. CASE S # {}
  <2> DEFINE T == S \ {Pick(S)}
  <2>1. g(S)[T] = g(T)[T]
    BY <1>1, SumsAgree
  <2>2. SumOver(f, T) = g(T)[T]
    BY <1>1
  <2> QED BY <1>2, <1>4, <2>1, <2>2 DEF SumStep
<1> QED BY <1>3, <1>4

(* The order of summation does not matter: adding an element to a set adds *)
(* its value to the sum.                                                   *)
LEMMA SumAdd ==
  ASSUME NEW U, IsFiniteSet(U), NEW f, \A x \in U : f[x] \in Nat,
         NEW S \in SUBSET U, NEW x \in U \ S
  PROVE  SumOver(f, S \cup {x}) = SumOver(f, S) + f[x]
<1> DEFINE N == {n \in Nat : \A T \in SUBSET U, y \in U :
                   Cardinality(T) = n /\ y \notin T =>
                     SumOver(f, T \cup {y}) = SumOver(f, T) + f[y]}
<1>0. \A T \in SUBSET U : /\ IsFiniteSet(T) /\ Cardinality(T) \in Nat
                          /\ SumOver(f, T) \in Nat
  BY FS_Subset, FS_CardinalityType, SumOverNat
<1>1. 0 \in N
  <2>1. ASSUME NEW T \in SUBSET U, NEW y \in U, Cardinality(T) = 0
        PROVE  SumOver(f, T \cup {y}) = SumOver(f, T) + f[y]
    <3>1. T = {} /\ IsFiniteSet({y}) /\ {y} \in SUBSET U
      BY <1>0, <2>1, FS_EmptySet
    <3>2. Pick({y}) = y
      BY PickElement
    <3>3. SumOver(f, {}) = 0
      BY <1>0, SumUnfold
    <3>4. SumOver(f, {y}) = f[Pick({y})] + SumOver(f, {y} \ {Pick({y})})
      BY <3>1, SumUnfold
    <3>5. {y} \ {Pick({y})} = {} /\ T \cup {y} = {y}
      BY <3>1, <3>2
    <3> QED BY <3>1, <3>2, <3>3, <3>4, <3>5
  <2> QED BY <2>1
<1>2. ASSUME NEW n \in Nat, n \in N
      PROVE  n + 1 \in N
  <2>1. ASSUME NEW T \in SUBSET U, NEW y \in U, Cardinality(T) = n + 1, y \notin T
        PROVE  SumOver(f, T \cup {y}) = SumOver(f, T) + f[y]
    <3> DEFINE V == T \cup {y}
               p == Pick(V)
    <3>1. V \in SUBSET U /\ V # {} /\ IsFiniteSet(V)
      BY <1>0
    <3>2. p \in V
      BY <3>1, PickElement
    <3>3. SumOver(f, V) = f[p] + SumOver(f, V \ {p})
      BY <3>1, SumUnfold
    <3> HIDE DEF p
    <3>4. CASE p = y
      <4>1. V \ {p} = T
        BY <2>1, <3>4
      <4>2. SumOver(f, V \ {p}) = SumOver(f, T) /\ SumOver(f, T) \in Nat /\ f[y] \in Nat
        BY <1>0, <4>1
      <4> HIDE DEF V
      <4>3. SumOver(f, V) = SumOver(f, T) + f[y]
        BY <3>3, <3>4, <4>2
      <4> QED BY <4>3 DEF V
    <3>5. CASE p # y
      <4> DEFINE W == T \ {p}
      <4>1. p \in T /\ W \in SUBSET U /\ y \notin W /\ p \notin W
        BY <2>1, <3>2, <3>5
      <4>2. Cardinality(W) = n
        <5>1. Cardinality(T \ {p}) = Cardinality(T) - 1
          BY <1>0, <4>1, FS_RemoveElement
        <5> QED BY <2>1, <5>1
      <4>3. V \ {p} = W \cup {y} /\ T = W \cup {p}
        BY <3>5, <4>1
      <4> HIDE DEF W
      <4>4. SumOver(f, W \cup {y}) = SumOver(f, W) + f[y]
        BY <1>2, <4>1, <4>2
      <4>5. SumOver(f, W \cup {p}) = SumOver(f, W) + f[p]
        BY <1>2, <4>1, <4>2
      <4>6. SumOver(f, W) \in Nat /\ f[y] \in Nat /\ f[p] \in Nat
        BY <1>0, <4>1
      <4>7. /\ SumOver(f, V) = f[p] + SumOver(f, W \cup {y})
            /\ SumOver(f, T) = SumOver(f, W) + f[p]
        BY <3>3, <4>3, <4>5
      <4> HIDE DEF V
      <4>8. SumOver(f, V) = SumOver(f, T) + f[y]
        BY <4>4, <4>6, <4>7
      <4> QED BY <4>8 DEF V
    <3> QED BY <3>4, <3>5
  <2> QED BY <2>1
<1> HIDE DEF N
<1>3. Nat \subseteq N
  BY <1>1, <1>2, NatSetInduction
<1> QED BY <1>0, <1>3 DEF N

LEMMA SumEmpty ==
  ASSUME NEW f
  PROVE  SumOver(f, {}) = 0
BY SumUnfold, FS_EmptySet

(* Sums are monotonic in the summed function.                              *)
LEMMA SumMonotonic ==
  ASSUME NEW U, IsFiniteSet(U), NEW f, NEW g,
         \A x \in U : f[x] \in Nat /\ g[x] \in Nat /\ f[x] <= g[x]
  PROVE  SumOver(f, U) <= SumOver(g, U)
<1> DEFINE G == {T \in SUBSET U : SumOver(f, T) <= SumOver(g, T)}
<1>0. \A T \in SUBSET U : SumOver(f, T) \in Nat /\ SumOver(g, T) \in Nat
  BY FS_Subset, SumOverNat
<1>1. {} \in G
  BY SumEmpty
<1>2. ASSUME NEW T \in SUBSET U, NEW x \in U, T \in G, x \notin T
      PROVE  T \cup {x} \in G
  <2>1. /\ SumOver(f, T \cup {x}) = SumOver(f, T) + f[x]
        /\ SumOver(g, T \cup {x}) = SumOver(g, T) + g[x]
    BY <1>2, SumAdd
  <2>2. SumOver(f, T) <= SumOver(g, T) /\ f[x] <= g[x] /\ f[x] \in Nat /\ g[x] \in Nat
    BY <1>2
  <2>3. SumOver(f, T) + f[x] <= SumOver(g, T) + g[x]
    BY <1>0, <2>2
  <2> QED BY <2>1, <2>3
<1> HIDE DEF G
<1>3. U \in G
  BY <1>1, <1>2, SubsetInduction
<1> QED BY <1>3 DEF G

COROLLARY SumEqual ==
  ASSUME NEW U, IsFiniteSet(U), NEW f, NEW g,
         \A x \in U : f[x] \in Nat /\ f[x] = g[x]
  PROVE  SumOver(f, U) = SumOver(g, U)
<1>1. SumOver(f, U) \in Nat /\ SumOver(g, U) \in Nat
  BY SumOverNat
<1>2. SumOver(f, U) <= SumOver(g, U) /\ SumOver(g, U) <= SumOver(f, U)
  BY SumMonotonic
<1> QED BY <1>1, <1>2

LEMMA SumScaled ==
  ASSUME NEW U, IsFiniteSet(U), NEW f, \A x \in U : f[x] \in Nat, NEW c \in Nat
  PROVE  SumOver([x \in U |-> c * f[x]], U) = c * SumOver(f, U)
<1> DEFINE g == [x \in U |-> c * f[x]]
           G == {T \in SUBSET U : SumOver(g, T) = c * SumOver(f, T)}
<1>1. \A x \in U : g[x] \in Nat /\ g[x] = c * f[x]
  OBVIOUS
<1> HIDE DEF g
<1>0. \A T \in SUBSET U : SumOver(f, T) \in Nat /\ SumOver(g, T) \in Nat
  BY <1>1, FS_Subset, SumOverNat
<1>2. {} \in G
  BY SumEmpty
<1>3. ASSUME NEW T \in SUBSET U, NEW x \in U, T \in G, x \notin T
      PROVE  T \cup {x} \in G
  <2>1. /\ SumOver(f, T \cup {x}) = SumOver(f, T) + f[x]
        /\ SumOver(g, T \cup {x}) = SumOver(g, T) + g[x]
    BY <1>1, <1>3, SumAdd
  <2>2. SumOver(g, T) = c * SumOver(f, T)
    BY <1>3
  <2>3. c * SumOver(f, T) + c * f[x] = c * (SumOver(f, T) + f[x])
    BY <1>0
  <2> QED BY <1>1, <2>1, <2>2, <2>3
<1> HIDE DEF G
<1>4. U \in G
  BY <1>2, <1>3, SubsetInduction
<1> QED BY <1>4 DEF G, g

LEMMA SumUnion ==
  ASSUME NEW U, IsFiniteSet(U), NEW f, \A x \in U : f[x] \in Nat,
         NEW S \in SUBSET U
  PROVE  SumOver(f, U) = SumOver(f, S) + SumOver(f, U \ S)
<1> DEFINE V == U \ S
           G == {T \in SUBSET V : SumOver(f, S \cup T) = SumOver(f, S) + SumOver(f, T)}
<1>0. IsFiniteSet(V) /\ \A T \in SUBSET U : SumOver(f, T) \in Nat
  BY FS_Subset, SumOverNat
<1>1. {} \in G
  <2>1. S \cup {} = S
    OBVIOUS
  <2>2. SumOver(f, S \cup {}) = SumOver(f, S) /\ SumOver(f, S) \in Nat
    BY <1>0, <2>1
  <2> QED BY <2>2, SumEmpty
<1>2. ASSUME NEW T \in SUBSET V, NEW x \in V, T \in G, x \notin T
      PROVE  T \cup {x} \in G
  <2>1. /\ T \in SUBSET U /\ x \in U /\ S \cup T \in SUBSET U /\ x \notin S \cup T
        /\ S \cup (T \cup {x}) = (S \cup T) \cup {x}
    BY <1>2
  <2>2. SumOver(f, T \cup {x}) = SumOver(f, T) + f[x]
    BY <1>2, <2>1, SumAdd
  <2>3. SumOver(f, (S \cup T) \cup {x}) = SumOver(f, S \cup T) + f[x]
    <3>1. \A W \in SUBSET U : x \in U \ W => SumOver(f, W \cup {x}) = SumOver(f, W) + f[x]
      BY SumAdd
    <3>2. S \cup T \in SUBSET U /\ x \in U \ (S \cup T)
      BY <2>1
    <3> QED BY <3>1, <3>2
  <2>4. SumOver(f, S \cup T) = SumOver(f, S) + SumOver(f, T)
    BY <1>2
  <2>5. SumOver(f, S) \in Nat /\ SumOver(f, T) \in Nat /\ f[x] \in Nat
    BY <1>0, <2>1
  <2>6. SumOver(f, S \cup (T \cup {x})) = SumOver(f, (S \cup T) \cup {x})
    BY <2>1
  <2>7. SumOver(f, S \cup (T \cup {x})) = SumOver(f, S) + SumOver(f, T \cup {x})
    BY <2>2, <2>3, <2>4, <2>5, <2>6
  <2> QED BY <1>2, <2>7
<1> HIDE DEF G, V
<1>3. V \in G
  <2>1. IsFiniteSet(V)
    BY <1>0
  <2>2. \A T \in SUBSET V, x \in V : T \in G /\ x \notin T => T \cup {x} \in G
    BY <1>2
  <2>3. \A T \in SUBSET V : T \in G
    BY <1>1, <2>1, <2>2, SubsetInduction
  <2> QED BY <2>3
<1>4. SumOver(f, S \cup V) = SumOver(f, S) + SumOver(f, V)
  BY <1>3 DEF G
<1>5. S \cup V = U
  BY DEF V
<1> QED BY <1>4, <1>5 DEF V

COROLLARY SumSubset ==
  ASSUME NEW U, IsFiniteSet(U), NEW f, \A x \in U : f[x] \in Nat, NEW S \in SUBSET U
  PROVE  SumOver(f, S) \in Nat /\ SumOver(f, S) <= SumOver(f, U)
<1>1. SumOver(f, S) \in Nat /\ SumOver(f, U \ S) \in Nat
  BY FS_Subset, SumOverNat
<1> QED BY <1>1, SumUnion

LEMMA SumPlus ==
  ASSUME NEW U, IsFiniteSet(U), NEW f, NEW g, \A x \in U : f[x] \in Nat /\ g[x] \in Nat
  PROVE  SumOver([x \in U |-> f[x] + g[x]], U) = SumOver(f, U) + SumOver(g, U)
<1> DEFINE e == [x \in U |-> f[x] + g[x]]
           G == {T \in SUBSET U : SumOver(e, T) = SumOver(f, T) + SumOver(g, T)}
<1>1. \A x \in U : e[x] \in Nat /\ e[x] = f[x] + g[x]
  OBVIOUS
<1> HIDE DEF e
<1>0. \A T \in SUBSET U : SumOver(f, T) \in Nat /\ SumOver(g, T) \in Nat
  BY FS_Subset, SumOverNat
<1>2. {} \in G
  BY SumEmpty
<1>3. ASSUME NEW T \in SUBSET U, NEW x \in U, T \in G, x \notin T
      PROVE  T \cup {x} \in G
  <2>1. /\ SumOver(e, T \cup {x}) = SumOver(e, T) + e[x]
        /\ SumOver(f, T \cup {x}) = SumOver(f, T) + f[x]
        /\ SumOver(g, T \cup {x}) = SumOver(g, T) + g[x]
    BY <1>1, <1>3, SumAdd
  <2>2. SumOver(e, T) = SumOver(f, T) + SumOver(g, T)
    BY <1>3
  <2> QED BY <1>0, <1>1, <2>1, <2>2
<1> HIDE DEF G
<1>4. U \in G
  BY <1>2, <1>3, SubsetInduction
<1> QED BY <1>4 DEF G, e

(* One more worker on one host is one more in the sum.                     *)
LEMMA SumIncremented ==
  ASSUME NEW D, IsFiniteSet(D), NEW f \in [D -> Nat], NEW w \in D
  PROVE  SumOver([f EXCEPT ![w] = @ + 1], D) = SumOver(f, D) + 1
<1> DEFINE g == [f EXCEPT ![w] = @ + 1]
           R == D \ {w}
<1>1. /\ \A x \in D : f[x] \in Nat /\ g[x] \in Nat
      /\ g[w] = f[w] + 1 /\ \A x \in R : g[x] = f[x]
  OBVIOUS
<1>2. IsFiniteSet(R) /\ R \in SUBSET D /\ w \in D \ R /\ R \cup {w} = D
  BY FS_Subset
<1> HIDE DEF g, R
<1>3. SumOver(g, R) = SumOver(f, R) /\ SumOver(f, R) \in Nat
  BY <1>1, <1>2, SumEqual, SumOverNat
<1>4. SumOver(g, R \cup {w}) = SumOver(g, R) + g[w] /\ SumOver(f, R \cup {w}) = SumOver(f, R) + f[w]
  BY <1>1, <1>2, SumAdd
<1>5. SumOver(g, D) = SumOver(f, D) + 1
  <2>1. SumOver(g, D) = SumOver(g, R) + g[w] /\ SumOver(f, D) = SumOver(f, R) + f[w]
    BY <1>2, <1>4
  <2>2. f[w] \in Nat
    BY <1>1
  <2> QED BY <1>1, <1>3, <2>1, <2>2
<1> QED BY <1>5 DEF g

LEMMA SumZero ==
  ASSUME NEW U, IsFiniteSet(U), NEW f, \A x \in U : f[x] = 0
  PROVE  SumOver(f, U) = 0
<1>1. SumOver([x \in U |-> 0 * f[x]], U) = 0 * SumOver(f, U)
  BY SumScaled
<1>2. SumOver(f, U) \in Nat
  BY SumOverNat
<1>3. SumOver(f, U) = SumOver([x \in U |-> 0 * f[x]], U)
  <2> DEFINE g == [x \in U |-> 0 * f[x]]
  <2>1. \A x \in U : f[x] \in Nat /\ f[x] = g[x]
    OBVIOUS
  <2> HIDE DEF g
  <2>2. SumOver(f, U) = SumOver(g, U)
    BY <2>1, SumEqual
  <2> QED BY <2>2 DEF g
<1> QED BY <1>1, <1>2, <1>3

-----------------------------------------------------------------------------
(* The division of a budget over hosts.  First the arithmetic.             *)
LEMMA ProductMonotonic ==
  ASSUME NEW x \in Int, NEW y \in Int, NEW c \in Nat, x >= y
  PROVE  x * c >= y * c
OBVIOUS

LEMMA ProductStrict ==
  ASSUME NEW x \in Int, NEW y \in Int, NEW c \in Nat, c > 0, x > y
  PROVE  x * c > y * c
OBVIOUS

LEMMA ProductCancels ==
  ASSUME NEW x \in Int, NEW y \in Int, NEW c \in Nat, c > 0
  PROVE  /\ x * c >= y * c => x >= y
         /\ x * c > y * c => x > y
<1>1. y > x => y * c > x * c
  BY ProductStrict
<1>2. y >= x => y * c >= x * c
  BY ProductMonotonic
<1>3. x * c \in Int /\ y * c \in Int
  OBVIOUS
<1> QED BY <1>1, <1>2, <1>3

(* Quotients are compared by cross-multiplication; that is transitive.     *)
LEMMA QuotientsTransitive ==
  ASSUME NEW a \in Int, NEW b \in Int, NEW d \in Int,
         NEW p \in Nat, NEW q \in Nat, NEW r \in Nat, p > 0, q > 0, r > 0,
         a * q >= b * p, b * r >= d * q
  PROVE  /\ a * r >= d * p
         /\ a * q > b * p \/ b * r > d * q => a * r > d * p
<1>1. a * q \in Int /\ b * p \in Int /\ b * r \in Int /\ d * q \in Int /\ a * r \in Int /\ d * p \in Int
  OBVIOUS
<1>2. (a * q) * r >= (b * p) * r /\ (a * q > b * p => (a * q) * r > (b * p) * r)
  BY <1>1, ProductMonotonic, ProductStrict
<1>3. (b * r) * p >= (d * q) * p /\ (b * r > d * q => (b * r) * p > (d * q) * p)
  BY <1>1, ProductMonotonic, ProductStrict
<1>4. (a * q) * r = (a * r) * q /\ (b * p) * r = (b * r) * p /\ (d * q) * p = (d * p) * q
  OBVIOUS
<1>5. (a * r) * q \in Int /\ (b * r) * p \in Int /\ (d * p) * q \in Int
  BY <1>1
<1>6. (a * r) * q >= (d * p) * q
  BY <1>2, <1>3, <1>4, <1>5
<1>7. a * q > b * p \/ b * r > d * q => (a * r) * q > (d * p) * q
  BY <1>2, <1>3, <1>4, <1>5
<1> QED BY <1>1, <1>6, <1>7, ProductCancels

LEMMA DivisionFloor ==
  ASSUME NEW n \in Nat, NEW t \in Nat, t > 0
  PROVE  /\ n \div t \in Nat
         /\ t * (n \div t) <= n
         /\ n % t = 0 /\ n > 0 => n \div t > 0
OBVIOUS

LEMMA FloorShareBound ==
  ASSUME NEW budget \in Nat, NEW share \in Nat, NEW total \in Nat, NEW isShort
  PROVE  /\ FloorShare(budget, share, total, isShort) \in Nat
         /\ total * FloorShare(budget, share, total, isShort) <= budget * share
         /\ total = 0 => FloorShare(budget, share, total, isShort) = 0
<1> DEFINE n == budget * share
           q == n \div total
           floor == FloorShare(budget, share, total, isShort)
<1>1. n \in Nat
  OBVIOUS
<1>2. CASE total = 0 \/ n = 0
  <2>1. floor = 0
    BY <1>2 DEF FloorShare
  <2>2. total * 0 = 0
    OBVIOUS
  <2> QED BY <1>1, <2>1, <2>2
<1>3. CASE total > 0 /\ n > 0
  <2> HIDE DEF n
  <2>1. q \in Nat /\ total * q <= n /\ (n % total = 0 => q > 0)
    BY <1>1, <1>3, DivisionFloor
  <2>2. floor = q \/ (floor = q - 1 /\ q > 0)
    <3>1. floor = IF isShort /\ n % total = 0 THEN q - 1 ELSE q
      BY <1>1, <1>3 DEF FloorShare, n
    <3> QED BY <2>1, <3>1
  <2> HIDE DEF q, floor
  <2>3. floor \in Nat /\ floor <= q
    BY <2>1, <2>2
  <2>4. total * floor <= total * q /\ total * floor \in Nat /\ total * q \in Nat
    BY <2>1, <2>3, ProductMonotonic
  <2> QED BY <1>1, <1>3, <2>1, <2>3, <2>4 DEF n, floor
<1> QED BY <1>1, <1>2, <1>3

(* The inputs of distribute: finitely many hosts, with natural headrooms   *)
(* and caps.                                                               *)
Divisible(D, eligible, headroom, cap) ==
  /\ IsFiniteSet(D) /\ D \subseteq Nat
  /\ eligible \subseteq D
  /\ headroom \in [D -> Nat]
  /\ cap \in [D -> Nat]

(* What distribute keeps at every turn: nobody is above its cap, nobody    *)
(* but the eligible hosts has anything, and the budget is not exceeded.    *)
Within(D, budget, eligible, cap, placed) ==
  /\ placed \in [D -> Nat]
  /\ \A h \in D : IF h \in eligible THEN placed[h] <= cap[h] ELSE placed[h] = 0
  /\ SumOver(placed, D) <= budget

LEMMA FloorsWithin ==
  ASSUME NEW D, NEW budget \in Nat, NEW eligible, NEW headroom, NEW cap,
         Divisible(D, eligible, headroom, cap), NEW short
  PROVE  Within(D, budget, eligible, cap, Floors(budget, eligible, headroom, cap, short))
<1> DEFINE total == SumOver(headroom, eligible)
           floor(h) == FloorShare(budget, headroom[h], total, h \in short)
           F == Floors(budget, eligible, headroom, cap, short)
<1>0. /\ IsFiniteSet(D) /\ eligible \in SUBSET D /\ IsFiniteSet(eligible)
      /\ DOMAIN headroom = D
      /\ \A h \in D : headroom[h] \in Nat /\ cap[h] \in Nat
  BY FS_Subset DEF Divisible
<1>1. total \in Nat
  BY <1>0, SumOverNat
<1> HIDE DEF total
<1>2. \A h \in D : /\ floor(h) \in Nat /\ total * floor(h) <= budget * headroom[h]
                   /\ total = 0 => floor(h) = 0
  <2> TAKE h \in D
  <2> DEFINE isShort == h \in short
  <2>1. headroom[h] \in Nat
    BY <1>0
  <2> HIDE DEF isShort
  <2>2. /\ FloorShare(budget, headroom[h], total, isShort) \in Nat
        /\ total * FloorShare(budget, headroom[h], total, isShort) <= budget * headroom[h]
        /\ total = 0 => FloorShare(budget, headroom[h], total, isShort) = 0
    BY <1>1, <2>1, FloorShareBound
  <2> QED BY <2>2 DEF isShort
<1>3. F = [h \in D |-> IF h \in eligible THEN Min2(floor(h), cap[h]) ELSE 0]
  BY <1>0 DEF Floors, total
<1> HIDE DEF floor, F
<1>4. /\ F \in [D -> Nat]
      /\ \A h \in D : IF h \in eligible THEN F[h] <= cap[h] /\ F[h] <= floor(h) ELSE F[h] = 0
  <2>1. \A h \in D : /\ Min2(floor(h), cap[h]) \in Nat /\ Min2(floor(h), cap[h]) <= cap[h]
                     /\ Min2(floor(h), cap[h]) <= floor(h)
    BY <1>0, <1>2, MinMaxNat
  <2> QED BY <1>3, <2>1
<1>5. \A h \in D : F[h] \in Nat
  BY <1>4
<1>6. SumOver(F, D) = SumOver(F, eligible) /\ SumOver(F, eligible) \in Nat
  <2>1. SumOver(F, D) = SumOver(F, eligible) + SumOver(F, D \ eligible)
    BY <1>0, <1>5, SumUnion
  <2>2. SumOver(F, D \ eligible) = 0
    <3>1. \A h \in D \ eligible : F[h] = 0
      BY <1>4
    <3> QED BY <1>0, <3>1, SumZero, FS_Subset
  <2>3. SumOver(F, eligible) \in Nat
    BY <1>0, <1>5, SumOverNat
  <2> QED BY <2>1, <2>2, <2>3
<1>7. SumOver(F, eligible) <= budget
  <2>1. CASE total = 0
    <3>1. \A h \in eligible : F[h] = 0
      BY <1>0, <1>2, <1>4, <1>5, <2>1
    <3> QED BY <1>0, <3>1, SumZero
  <2>2. CASE total > 0
    <3> DEFINE scaledF == [h \in eligible |-> total * F[h]]
               scaledH == [h \in eligible |-> budget * headroom[h]]
    <3>1. ASSUME NEW h \in eligible
          PROVE  total * F[h] \in Nat /\ budget * headroom[h] \in Nat /\ total * F[h] <= budget * headroom[h]
      <4>1. /\ F[h] \in Nat /\ floor(h) \in Nat /\ F[h] <= floor(h) /\ headroom[h] \in Nat
            /\ total * floor(h) <= budget * headroom[h]
        BY <1>0, <1>2, <1>4, <1>5
      <4>2. F[h] * total <= floor(h) * total
        BY <1>1, <4>1, ProductMonotonic
      <4> QED BY <1>1, <4>1, <4>2
    <3>2. SumOver(scaledF, eligible) <= SumOver(scaledH, eligible)
      <4>1. \A h \in eligible : /\ scaledF[h] \in Nat /\ scaledH[h] \in Nat
                                /\ scaledF[h] <= scaledH[h]
        BY <3>1
      <4> HIDE DEF scaledF, scaledH
      <4> QED BY <1>0, <4>1, SumMonotonic
    <3>3. SumOver(scaledF, eligible) = total * SumOver(F, eligible)
      BY <1>0, <1>1, <1>5, SumScaled
    <3>4. SumOver(scaledH, eligible) = budget * total
      BY <1>0, SumScaled DEF total
    <3> HIDE DEF scaledF, scaledH
    <3>5. budget * total >= SumOver(F, eligible) * total
      BY <1>1, <1>6, <3>2, <3>3, <3>4
    <3> QED BY <1>1, <1>6, <2>2, <3>5, ProductCancels
  <2> QED BY <1>1, <2>1, <2>2
<1> QED BY <1>4, <1>6, <1>7 DEF Within, F

(* The eligible hosts below their cap.                                     *)
OpenHosts(eligible, cap, placed) == {h \in eligible : placed[h] < cap[h]}

(* Whom the fill prefers: a strict order on the hosts that are below their *)
(* cap, so there is a winner whenever there is one at all.                 *)
Leads(i, j, placed, headroom, cap, unit) ==
  \/ Outscores(i, j, placed, headroom, cap, unit)
  \/ i < j /\ ~Outscores(j, i, placed, headroom, cap, unit)

LEMMA LeadsTotal ==
  ASSUME NEW i \in Nat, NEW j \in Nat, i # j, NEW placed, NEW headroom, NEW cap, NEW unit
  PROVE  \/ Leads(i, j, placed, headroom, cap, unit)
         \/ Leads(j, i, placed, headroom, cap, unit)
BY DEF Leads

LEMMA LeadsTransitive ==
  ASSUME NEW D, NEW placed \in [D -> Nat], NEW headroom \in [D -> Nat], NEW cap \in [D -> Nat],
         NEW unit \in Nat, D \subseteq Nat,
         NEW i \in D, NEW j \in D, NEW k \in D, cap[i] > 0, cap[j] > 0, cap[k] > 0,
         Leads(i, j, placed, headroom, cap, unit), Leads(j, k, placed, headroom, cap, unit)
  PROVE  Leads(i, k, placed, headroom, cap, unit)
<1> DEFINE a(x) == headroom[x] * cap[x] - unit * placed[x]
<1>1. \A x \in D : a(x) \in Int /\ cap[x] \in Nat
  OBVIOUS
<1>2. \A x, y \in D : Outscores(x, y, placed, headroom, cap, unit) <=> a(x) * cap[y] > a(y) * cap[x]
  BY DEF Outscores
<1> HIDE DEF a
<1>3. \A x, y \in D : a(x) * cap[y] \in Int
  BY <1>1
<1>4. a(i) * cap[j] >= a(j) * cap[i] /\ a(j) * cap[k] >= a(k) * cap[j]
  BY <1>2, <1>3 DEF Leads
<1>5. /\ a(i) * cap[k] >= a(k) * cap[i]
      /\ \/ a(i) * cap[j] > a(j) * cap[i]
         \/ a(j) * cap[k] > a(k) * cap[j]
         => a(i) * cap[k] > a(k) * cap[i]
  BY <1>1, <1>4, QuotientsTransitive
<1>6. CASE Outscores(i, j, placed, headroom, cap, unit) \/ Outscores(j, k, placed, headroom, cap, unit)
  BY <1>2, <1>5, <1>6 DEF Leads
<1>7. CASE ~(Outscores(i, j, placed, headroom, cap, unit) \/ Outscores(j, k, placed, headroom, cap, unit))
  <2>1. i < k /\ i \in Nat /\ k \in Nat
    BY <1>7 DEF Leads
  <2>2. ~(a(k) * cap[i] > a(i) * cap[k])
    BY <1>3, <1>5
  <2> QED BY <1>2, <2>1, <2>2 DEF Leads
<1> QED BY <1>6, <1>7

LEMMA WinnerExists ==
  ASSUME NEW D, NEW eligible, NEW headroom, NEW cap, Divisible(D, eligible, headroom, cap),
         NEW placed \in [D -> Nat], NEW unit \in Nat, OpenHosts(eligible, cap, placed) # {}
  PROVE  Winner(OpenHosts(eligible, cap, placed), placed, headroom, cap, unit)
           \in OpenHosts(eligible, cap, placed)
<1> DEFINE open == OpenHosts(eligible, cap, placed)
<1>a. /\ IsFiniteSet(D) /\ D \subseteq Nat /\ headroom \in [D -> Nat] /\ cap \in [D -> Nat]
      /\ open \in SUBSET D /\ \A h \in open : placed[h] < cap[h]
  BY DEF Divisible, OpenHosts
<1> HIDE DEF open
<1> DEFINE beats(i, j) == Leads(i, j, placed, headroom, cap, unit)
           G == {T \in SUBSET open : T # {} => \E i \in T : \A j \in T \ {i} : beats(i, j)}
<1>0. IsFiniteSet(open) /\ \A h \in open : cap[h] > 0 /\ h \in Nat
  <2>1. IsFiniteSet(open)
    BY <1>a, FS_Subset
  <2>2. \A h \in open : placed[h] \in Nat /\ cap[h] \in Nat /\ h \in Nat
    BY <1>a
  <2> QED BY <1>a, <2>1, <2>2
<1>1. {} \in G
  OBVIOUS
<1>2. ASSUME NEW T \in SUBSET open, NEW x \in open, T \in G, x \notin T
      PROVE  T \cup {x} \in G
  <2> HIDE DEF beats
  <2>1. CASE T = {}
    BY <2>1
  <2>2. CASE T # {}
    <3>1. PICK i \in T : \A j \in T \ {i} : beats(i, j)
      BY <1>2, <2>2
    <3>2. CASE beats(i, x)
      BY <3>1, <3>2
    <3>3. CASE ~beats(i, x)
      <4>1. beats(x, i)
        BY <1>0, <1>2, <3>3, LeadsTotal DEF beats
      <4>2. ASSUME NEW j \in T \ {i}
            PROVE  beats(x, j)
        BY <1>a, <1>0, <3>1, <4>1, LeadsTransitive DEF beats
      <4>3. \A j \in (T \cup {x}) \ {x} : beats(x, j)
        BY <4>1, <4>2
      <4> QED BY <4>3
    <3> QED BY <3>2, <3>3
  <2> QED BY <2>1, <2>2
<1>3. open \in G
  <2> HIDE DEF G
  <2>1. \A T \in SUBSET open, x \in open : T \in G /\ x \notin T => T \cup {x} \in G
    BY <1>2
  <2>2. IsFiniteSet(open)
    BY <1>0
  <2>3. \A T \in SUBSET open : T \in G
    BY <1>1, <2>1, <2>2, SubsetInduction
  <2> QED BY <2>3
<1>4. \E i \in open : \A j \in open \ {i} : beats(i, j)
  BY <1>3 DEF open
<1>5. Winner(open, placed, headroom, cap, unit) \in open
  BY <1>4 DEF Winner, Leads
<1> QED BY <1>5 DEF open

(* One turn of the fill, and the body of its recursive function.           *)
Goes(D, budget, eligible, cap, placed) ==
  SumOver(placed, D) < budget /\ OpenHosts(eligible, cap, placed) # {}
Turn(eligible, headroom, cap, unit, placed) ==
  [placed EXCEPT ![Winner(OpenHosts(eligible, cap, placed), placed, headroom, cap, unit)] = @ + 1]
FillStep(D, budget, eligible, headroom, cap, unit, fill, placed) ==
  IF Goes(D, budget, eligible, cap, placed)
  THEN fill[Turn(eligible, headroom, cap, unit, placed)] ELSE placed
FillsAll(D, budget, eligible, headroom, cap, unit, fill) ==
  fill = [placed \in [D -> Nat] |-> FillStep(D, budget, eligible, headroom, cap, unit, fill, placed)]

(* What is left of the budget: a turn takes one of it.                     *)
Left(D, budget, placed) == SaturatingSub(budget, SumOver(placed, D))

LEMMA LeftNat ==
  ASSUME NEW D, IsFiniteSet(D), NEW budget \in Nat, NEW placed \in [D -> Nat]
  PROVE  /\ SumOver(placed, D) \in Nat
         /\ Left(D, budget, placed) \in Nat /\ Left(D, budget, placed) <= budget
<1>1. SumOver(placed, D) \in Nat
  BY SumOverNat
<1> QED BY <1>1 DEF Left, SaturatingSub

LEMMA TurnTakesOne ==
  ASSUME NEW D, NEW budget \in Nat, NEW eligible, NEW headroom, NEW cap,
         Divisible(D, eligible, headroom, cap), NEW unit \in Nat,
         NEW placed \in [D -> Nat], Goes(D, budget, eligible, cap, placed)
  PROVE  LET turn == Turn(eligible, headroom, cap, unit, placed)
         IN  /\ turn \in [D -> Nat]
             /\ SumOver(turn, D) <= budget
             /\ Left(D, budget, placed) > 0
             /\ Left(D, budget, turn) < Left(D, budget, placed)
             /\ \A h \in D : turn[h] = placed[h] \/ (h \in eligible /\ turn[h] <= cap[h])
<1> DEFINE open == OpenHosts(eligible, cap, placed)
           w == Winner(open, placed, headroom, cap, unit)
           turn == Turn(eligible, headroom, cap, unit, placed)
<1>1. open \in SUBSET D /\ open # {} /\ \A h \in open : h \in eligible /\ placed[h] < cap[h]
  BY DEF Divisible, Goes, OpenHosts
<1>2. IsFiniteSet(D)
  BY DEF Divisible
<1>3. w \in open
  BY <1>1, WinnerExists
<1> HIDE DEF open
<1>4. turn = [placed EXCEPT ![w] = @ + 1]
  BY DEF Turn, open
<1> HIDE DEF w, turn
<1>5. w \in D /\ w \in eligible /\ placed[w] < cap[w]
  BY <1>1, <1>3
<1>6. turn \in [D -> Nat]
  BY <1>4, <1>5
<1>7. SumOver(turn, D) = SumOver(placed, D) + 1
  BY <1>2, <1>4, <1>5, SumIncremented
<1>8. SumOver(placed, D) \in Nat /\ SumOver(placed, D) < budget
  BY <1>2, LeftNat DEF Goes
<1>9. Left(D, budget, placed) > 0 /\ Left(D, budget, turn) < Left(D, budget, placed)
  BY <1>7, <1>8 DEF Left, SaturatingSub
<1>10. SumOver(turn, D) <= budget
  BY <1>7, <1>8
<1>11. \A h \in D : turn[h] = placed[h] \/ (h \in eligible /\ turn[h] <= cap[h])
  <2>1. placed[w] \in Nat /\ cap[w] \in Nat
    BY <1>5 DEF Divisible
  <2> QED BY <1>4, <1>5, <2>1
<1> QED BY <1>6, <1>9, <1>10, <1>11 DEF turn

(* The fill ends: its recursion has a solution, by induction on what is    *)
(* left of the budget.                                                     *)
LEMMA FillExists ==
  ASSUME NEW D, NEW budget \in Nat, NEW eligible, NEW headroom, NEW cap,
         Divisible(D, eligible, headroom, cap), NEW unit \in Nat
  PROVE  \E fill : FillsAll(D, budget, eligible, headroom, cap, unit, fill)
<1> DEFINE P == [D -> Nat]
           goes(placed) == Goes(D, budget, eligible, cap, placed)
           turn(placed) == Turn(eligible, headroom, cap, unit, placed)
           left(placed) == Left(D, budget, placed)
           step(g, placed) == IF goes(placed) THEN g[turn(placed)] ELSE placed
           UpTo(g, n) == \A placed \in P : left(placed) <= n => g[placed] = step(g, placed)
           G == {n \in Nat : \E g \in [P -> P] : UpTo(g, n)}
<1>0. IsFiniteSet(D)
  BY DEF Divisible
<1>1. \A placed \in P : left(placed) \in Nat /\ left(placed) <= budget
  BY <1>0, LeftNat
<1>2. \A placed \in P : goes(placed) =>
        turn(placed) \in P /\ left(placed) > 0 /\ left(turn(placed)) < left(placed)
  <2> SUFFICES ASSUME NEW placed \in P, goes(placed)
               PROVE  turn(placed) \in P /\ left(placed) > 0 /\ left(turn(placed)) < left(placed)
    OBVIOUS
  <2>1. placed \in [D -> Nat] /\ Goes(D, budget, eligible, cap, placed)
    OBVIOUS
  <2> HIDE DEF goes, turn, left, P
  <2>2. Turn(eligible, headroom, cap, unit, placed) \in [D -> Nat]
    BY <2>1, TurnTakesOne
  <2>3. Left(D, budget, placed) > 0
    BY <2>1, TurnTakesOne
  <2>4. Left(D, budget, Turn(eligible, headroom, cap, unit, placed)) < Left(D, budget, placed)
    BY <2>1, TurnTakesOne
  <2> QED BY <2>2, <2>3, <2>4 DEF goes, turn, left, P
<1> HIDE DEF goes, turn, left, P
<1>3. 0 \in G
  <2> DEFINE g == [placed \in P |-> placed]
  <2>1. UpTo(g, 0)
    BY <1>1, <1>2
  <2>2. g \in [P -> P]
    OBVIOUS
  <2> QED BY <2>1, <2>2
<1>4. ASSUME NEW n \in Nat, n \in G
      PROVE  n + 1 \in G
  <2>1. PICK g \in [P -> P] : UpTo(g, n)
    BY <1>4
  <2> DEFINE h == [placed \in P |-> IF left(placed) <= n THEN g[placed] ELSE step(g, placed)]
  <2>2. h \in [P -> P]
    BY <1>2
  <2>3. ASSUME NEW placed \in P, left(placed) <= n + 1
        PROVE  h[placed] = step(h, placed)
    <3>1. h[placed] = step(g, placed)
      BY <2>1
    <3>2. CASE goes(placed)
      <4>1. turn(placed) \in P /\ left(turn(placed)) <= n
        BY <1>1, <1>2, <2>3, <3>2
      <4>2. h[turn(placed)] = g[turn(placed)]
        BY <4>1
      <4> QED BY <3>1, <3>2, <4>2
    <3>3. CASE ~goes(placed)
      BY <3>1, <3>3
    <3> QED BY <3>2, <3>3
  <2> HIDE DEF h
  <2> QED BY <2>2, <2>3
<1> HIDE DEF G
<1>5. budget \in G
  BY <1>3, <1>4, NatSetInduction
<1>6. PICK g \in [P -> P] : UpTo(g, budget)
  BY <1>5 DEF G
<1>7. \A placed \in P : g[placed] = step(g, placed)
  BY <1>1, <1>6
<1>8. g = [placed \in P |-> step(g, placed)]
  BY <1>7
<1>9. FillsAll(D, budget, eligible, headroom, cap, unit, g)
  BY <1>8 DEF FillsAll, FillStep, goes, turn, P
<1> QED BY <1>9

LEMMA TurnWithin ==
  ASSUME NEW D, NEW budget \in Nat, NEW eligible, NEW headroom, NEW cap,
         Divisible(D, eligible, headroom, cap), NEW unit \in Nat,
         NEW placed, Within(D, budget, eligible, cap, placed),
         Goes(D, budget, eligible, cap, placed)
  PROVE  Within(D, budget, eligible, cap, Turn(eligible, headroom, cap, unit, placed))
<1> DEFINE turn == Turn(eligible, headroom, cap, unit, placed)
<1>1. placed \in [D -> Nat]
  BY DEF Within
<1>2. turn \in [D -> Nat]
  BY <1>1, TurnTakesOne
<1>3. SumOver(turn, D) <= budget
  BY <1>1, TurnTakesOne
<1>4. \A h \in D : turn[h] = placed[h] \/ (h \in eligible /\ turn[h] <= cap[h])
  BY <1>1, TurnTakesOne
<1> HIDE DEF turn
<1>5. \A h \in D : IF h \in eligible THEN placed[h] <= cap[h] ELSE placed[h] = 0
  BY DEF Within
<1>6. \A h \in D : IF h \in eligible THEN turn[h] <= cap[h] ELSE turn[h] = 0
  BY <1>4, <1>5
<1> QED BY <1>2, <1>3, <1>6 DEF Within, turn

(* The fill keeps to caps and budget, and ends with the budget placed or   *)
(* every eligible host at its cap.                                         *)
LEMMA FillResult ==
  ASSUME NEW D, NEW budget \in Nat, NEW eligible, NEW headroom, NEW cap,
         Divisible(D, eligible, headroom, cap), NEW unit \in Nat,
         NEW fill, FillsAll(D, budget, eligible, headroom, cap, unit, fill),
         NEW start, Within(D, budget, eligible, cap, start)
  PROVE  /\ Within(D, budget, eligible, cap, fill[start])
         /\ ~Goes(D, budget, eligible, cap, fill[start])
<1> DEFINE within(placed) == Within(D, budget, eligible, cap, placed)
           goes(placed) == Goes(D, budget, eligible, cap, placed)
           turn(placed) == Turn(eligible, headroom, cap, unit, placed)
           left(placed) == Left(D, budget, placed)
           done(placed) == within(placed) /\ ~goes(placed)
           G == {n \in Nat : \A placed \in [D -> Nat] :
                   within(placed) /\ left(placed) <= n => done(fill[placed])}
<1>0. IsFiniteSet(D)
  BY DEF Divisible
<1>1. \A placed \in [D -> Nat] : left(placed) \in Nat /\ left(placed) <= budget
  BY <1>0, LeftNat
<1>2. ASSUME NEW placed \in [D -> Nat], goes(placed)
      PROVE  turn(placed) \in [D -> Nat] /\ left(placed) > 0 /\ left(turn(placed)) < left(placed)
  <2>1. turn(placed) \in [D -> Nat]
    BY <1>2, TurnTakesOne
  <2>2. left(placed) > 0
    BY <1>2, TurnTakesOne
  <2>3. left(turn(placed)) < left(placed)
    BY <1>2, TurnTakesOne
  <2> QED BY <2>1, <2>2, <2>3
<1>3. ASSUME NEW placed \in [D -> Nat]
      PROVE  fill[placed] = IF goes(placed) THEN fill[turn(placed)] ELSE placed
  BY DEF FillsAll, FillStep
<1>4. ASSUME NEW placed, within(placed), goes(placed)
      PROVE  within(turn(placed))
  BY <1>4, TurnWithin
<1>5. within(start) /\ start \in [D -> Nat]
  BY DEF Within
<1> HIDE DEF within, goes, turn, left
<1>6. 0 \in G
  BY <1>1, <1>2, <1>3
<1>7. ASSUME NEW n \in Nat, n \in G
      PROVE  n + 1 \in G
  <2>1. ASSUME NEW placed \in [D -> Nat], within(placed), left(placed) <= n + 1
        PROVE  done(fill[placed])
    <3>1. CASE goes(placed)
      <4>1. turn(placed) \in [D -> Nat] /\ within(turn(placed)) /\ left(turn(placed)) < left(placed)
        BY <1>2, <1>4, <2>1, <3>1
      <4>2. left(turn(placed)) <= n
        BY <1>1, <2>1, <4>1
      <4>3. done(fill[turn(placed)])
        BY <1>7, <4>1, <4>2
      <4> QED BY <1>3, <3>1, <4>3
    <3>2. CASE ~goes(placed)
      BY <1>3, <2>1, <3>2
    <3> QED BY <3>1, <3>2
  <2> QED BY <2>1
<1> HIDE DEF G
<1>8. budget \in G
  BY <1>6, <1>7, NatSetInduction
<1>9. done(fill[start])
  BY <1>1, <1>5, <1>8 DEF G
<1> QED BY <1>9 DEF within, goes

(* A division of the budget: within it, each host within its cap, and      *)
(* short of it only when every eligible host is at its cap.                *)
Divides(D, budget, eligible, cap, spread) ==
  /\ Within(D, budget, eligible, cap, spread)
  /\ \/ SumOver(spread, D) = budget
     \/ \A h \in eligible : spread[h] = cap[h]

(* placement.rs 253: distribute never exceeds the budget, no host passes   *)
(* its cap, hosts that may not receive workers get none, and it stops      *)
(* short of the budget only when every eligible host is at its cap; for    *)
(* all headrooms, caps and budgets, and however integral shares round.     *)
THEOREM DistributeDivides ==
  ASSUME NEW D, NEW budget \in Nat, NEW eligible, NEW headroom, NEW cap,
         Divisible(D, eligible, headroom, cap), NEW unit \in Nat, NEW short
  PROVE  Divides(D, budget, eligible, cap,
                 Distribute(budget, eligible, headroom, cap, unit, short))
<1> DEFINE fill == CHOOSE f : FillsAll(D, budget, eligible, headroom, cap, unit, f)
           start == Floors(budget, eligible, headroom, cap, short)
           spread == Distribute(budget, eligible, headroom, cap, unit, short)
<1>1. FillsAll(D, budget, eligible, headroom, cap, unit, fill)
  BY FillExists
<1>2. Within(D, budget, eligible, cap, start)
  BY FloorsWithin
<1>3. spread = fill[start]
  <2>1. DOMAIN headroom = D
    BY DEF Divisible
  <2>2. \A placed \in [D -> Nat] : DOMAIN placed = D
    OBVIOUS
  <2> QED BY <2>1, <2>2 DEF Distribute, FillsAll, FillStep, Goes, Turn, OpenHosts
<1> HIDE DEF fill, start, spread
<1>4. /\ Within(D, budget, eligible, cap, spread)
      /\ ~Goes(D, budget, eligible, cap, spread)
  BY <1>1, <1>2, <1>3, FillResult
<1>5. spread \in [D -> Nat] /\ SumOver(spread, D) <= budget /\ SumOver(spread, D) \in Nat
  BY <1>4, LeftNat DEF Within, Divisible
<1>6. \A h \in D : IF h \in eligible THEN spread[h] <= cap[h] ELSE spread[h] = 0
  BY <1>4 DEF Within
<1>7. SumOver(spread, D) = budget \/ \A h \in eligible : spread[h] = cap[h]
  <2>1. CASE SumOver(spread, D) < budget
    <3>1. \A h \in eligible : ~(spread[h] < cap[h])
      BY <1>4, <2>1 DEF Goes, OpenHosts
    <3>2. \A h \in eligible : spread[h] \in Nat /\ cap[h] \in Nat /\ spread[h] <= cap[h]
      BY <1>5, <1>6 DEF Divisible
    <3> QED BY <3>1, <3>2
  <2> QED BY <1>5, <2>1
<1> QED BY <1>4, <1>7 DEF spread, Divides
=============================================================================
