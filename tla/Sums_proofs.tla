------------------------------ MODULE Sums_proofs ------------------------------
(****************************************************************************)
(* Sums over the values of a function: SumFunction folds over the domain,   *)
(* taking one element of what is left at a time.                            *)
(****************************************************************************)
EXTENDS Integers, Functions, FiniteSetTheorems, WellFoundedInduction, TLAPS

Pick(s) == CHOOSE x \in s : TRUE

(* What g, of the subsets of the domain of f, must be at one of them.       *)
Follows(f, g, s) ==
  g[s] = IF s = {} THEN 0 ELSE f[Pick(s)] + g[s \ {Pick(s)}]

Fold(f) ==
  CHOOSE g : g = [s \in SUBSET DOMAIN f |->
                    IF s = {} THEN 0 ELSE f[Pick(s)] + g[s \ {Pick(s)}]]

(* The sum of a function is the fold over its whole domain.                 *)
LEMMA SumIsFold ==
  ASSUME NEW f
  PROVE  SumFunction(f) = Fold(f)[DOMAIN f]
  BY DEF SumFunction, SumFunctionOnSet, FoldFunctionOnSet, MapThenFoldSet, Fold, Pick

(* Of finite sets of natural numbers and of finite sets, a least one.       *)
LEMMA SmallestSubset ==
  ASSUME NEW S, IsFiniteSet(S), NEW B \in SUBSET SUBSET S, B # {}
  PROVE  \E s \in B : \A t \in B : t \subseteq s => t = s
  <1>1. B \subseteq FiniteSubsetsOf(S)
    BY FS_Subset DEF FiniteSubsetsOf
  <1>2. PICK s \in B : \A t \in B : ~(<<t, s>> \in StrictSubsetOrdering(S))
    BY <1>1, FS_StrictSubsetOrderingWellFounded, WFMin
  <1>3. ASSUME NEW t \in B, t \subseteq s, t # s
        PROVE  FALSE
    BY <1>2, <1>3 DEF StrictSubsetOrdering
  <1> QED  BY <1>3

(* Whatever holds of the empty set, and of a set if it holds of the set     *)
(* without its picked element, holds of every subset of a finite set.       *)
LEMMA SubsetsOneByOne ==
  ASSUME NEW S, IsFiniteSet(S), NEW P \in SUBSET SUBSET S, {} \in P,
         \A s \in SUBSET S : s # {} /\ s \ {Pick(s)} \in P => s \in P
  PROVE  P = SUBSET S
  <1> SUFFICES ASSUME P # SUBSET S
               PROVE  FALSE
    OBVIOUS
  <1> DEFINE B == (SUBSET S) \ P
  <1>1. B \in SUBSET SUBSET S /\ B # {}
    OBVIOUS
  <1>2. PICK s \in B : \A t \in B : t \subseteq s => t = s
    <2> HIDE DEF B
    <2> QED  BY <1>1, SmallestSubset
  <1>3. s \in SUBSET S /\ s # {} /\ s \notin P
    OBVIOUS
  <1>4. Pick(s) \in s
    BY <1>3 DEF Pick
  <1>5. s \ {Pick(s)} \in SUBSET S /\ s \ {Pick(s)} \subseteq s /\ s \ {Pick(s)} # s
    BY <1>3, <1>4
  <1>6. s \ {Pick(s)} \in P
    BY <1>2, <1>5
  <1> QED  BY <1>3, <1>6

(* The fold exists: agreement with the equation up to sets of n elements    *)
(* extends to sets of n + 1, and no subset has more elements than the       *)
(* domain.                                                                  *)
LEMMA FoldFollows ==
  ASSUME NEW f, IsFiniteSet(DOMAIN f)
  PROVE  \A s \in SUBSET DOMAIN f : Follows(f, Fold(f), s)
  <1> DEFINE S == DOMAIN f
             Up(g, n) == \A s \in SUBSET S : Cardinality(s) <= n => Follows(f, g, s)
             Good(n) == \E g : DOMAIN g = SUBSET S /\ Up(g, n)
             Bad == {n \in Nat : ~Good(n)}
  <1>0. IsFiniteSet(S)
    OBVIOUS
  <1> HIDE DEF S
  <1>1. \A s \in SUBSET S : IsFiniteSet(s) /\ Cardinality(s) \in Nat
                            /\ Cardinality(s) <= Cardinality(S)
    BY <1>0, FS_Subset, FS_CardinalityType
  <1>2. Good(0)
    <2> DEFINE g == [s \in SUBSET S |-> 0]
    <2>1. ASSUME NEW s \in SUBSET S, Cardinality(s) <= 0
          PROVE  Follows(f, g, s)
      <3>1. Cardinality(s) = 0
        BY <1>1, <2>1
      <3>2. s = {}
        BY <1>1, <3>1, FS_EmptySet
      <3> QED  BY <3>2 DEF Follows
    <2>2. DOMAIN g = SUBSET S
      OBVIOUS
    <2> HIDE DEF g
    <2> QED  BY <2>1, <2>2
  <1>3. ASSUME NEW n \in Nat, Good(n)
        PROVE  Good(n + 1)
    <2>1. PICK g : DOMAIN g = SUBSET S /\ Up(g, n)
      BY <1>3
    <2> DEFINE h == [s \in SUBSET S |->
                       IF Cardinality(s) <= n THEN g[s] ELSE f[Pick(s)] + g[s \ {Pick(s)}]]
    <2>2. ASSUME NEW s \in SUBSET S, Cardinality(s) <= n + 1
          PROVE  Follows(f, h, s)
      <3> DEFINE r == s \ {Pick(s)}
      <3>1. r \in SUBSET S
        OBVIOUS
      <3>2. s # {} => Cardinality(r) = Cardinality(s) - 1 /\ Cardinality(s) > 0
        <4> SUFFICES ASSUME s # {}
                     PROVE  Cardinality(r) = Cardinality(s) - 1 /\ Cardinality(s) > 0
          OBVIOUS
        <4>1. Pick(s) \in s
          BY DEF Pick
        <4>2. IsFiniteSet(s) /\ Cardinality(s) \in Nat
          BY <1>1
        <4>3. Cardinality(r) = Cardinality(s) - 1
          BY <4>1, <4>2, FS_RemoveElement
        <4>4. Cardinality(s) # 0
          BY <4>2, FS_EmptySet
        <4> QED  BY <4>2, <4>3, <4>4
      <3>3. Cardinality(s) \in Nat /\ Cardinality(r) \in Nat
        BY <1>1, <3>1
      <3>4. h[s] = IF Cardinality(s) <= n THEN g[s] ELSE f[Pick(s)] + g[r]
        OBVIOUS
      <3>5. h[r] = IF Cardinality(r) <= n THEN g[r] ELSE f[Pick(r)] + g[r \ {Pick(r)}]
        BY <3>1
      <3> HIDE DEF h, r
      <3>6. CASE s = {}
        <4>1. Cardinality(s) = 0
          BY <3>6, FS_EmptySet
        <4>2. Follows(f, g, s)
          BY <2>1, <3>3, <4>1
        <4> QED  BY <3>4, <3>6, <4>1, <4>2 DEF Follows
      <3>7. CASE s # {}
        <4>1. Cardinality(r) <= n /\ h[r] = g[r]
          BY <2>2, <3>2, <3>3, <3>5, <3>7
        <4>2. h[s] = f[Pick(s)] + g[r]
          <5>1. CASE Cardinality(s) <= n
            <6>1. Follows(f, g, s)
              BY <2>1, <5>1
            <6> QED  BY <3>4, <3>7, <5>1, <6>1 DEF Follows, r
          <5>2. CASE ~(Cardinality(s) <= n)
            BY <3>4, <5>2
          <5> QED  BY <5>1, <5>2
        <4> QED  BY <3>7, <4>1, <4>2 DEF Follows, r
      <3> QED  BY <3>6, <3>7
    <2>3. DOMAIN h = SUBSET S
      OBVIOUS
    <2> HIDE DEF h
    <2> QED  BY <2>2, <2>3
  <1>4. Bad = {}
    <2> SUFFICES ASSUME Bad # {}
                 PROVE  FALSE
      OBVIOUS
    <2>1. Bad \in SUBSET Nat
      OBVIOUS
    <2> HIDE DEF Good
    <2>2. PICK m \in Bad : \A k \in Bad : ~(<<k, m>> \in OpToRel(<, Nat))
      BY <2>1, NatLessThanWellFounded, WFMin
    <2>3. m \in Nat /\ ~Good(m)
      OBVIOUS
    <2>4. m # 0 /\ m - 1 \in Nat /\ m - 1 < m /\ m = (m - 1) + 1
      BY <1>2, <2>3
    <2>5. ~Good(m - 1)
      BY <1>3, <2>3, <2>4
    <2>6. m - 1 \in Bad
      BY <2>4, <2>5
    <2>7. <<m - 1, m>> \in OpToRel(<, Nat)
      BY <2>3, <2>4, Zenon DEF OpToRel
    <2> QED  BY <2>2, <2>6, <2>7
  <1>5. Good(Cardinality(S))
    <2>1. Cardinality(S) \in Nat
      BY <1>0, FS_CardinalityType
    <2> HIDE DEF Good
    <2> QED  BY <1>4, <2>1
  <1>6. PICK g : DOMAIN g = SUBSET S /\ Up(g, Cardinality(S))
    BY <1>5
  <1>7. \A s \in SUBSET S : Follows(f, g, s)
    BY <1>1, <1>6
  <1> DEFINE Body(q) == [s \in SUBSET S |-> IF s = {} THEN 0 ELSE f[Pick(s)] + q[s \ {Pick(s)}]]
  <1>8. \E q : q = Body(q)
    <2> SUFFICES [s \in SUBSET S |-> g[s]] = Body([s \in SUBSET S |-> g[s]])
      OBVIOUS
    <2> DEFINE q == [s \in SUBSET S |-> g[s]]
    <2>1. \A s \in SUBSET S : s \ {Pick(s)} \in SUBSET S /\ q[s \ {Pick(s)}] = g[s \ {Pick(s)}]
      OBVIOUS
    <2>2. \A s \in SUBSET S : g[s] = IF s = {} THEN 0 ELSE f[Pick(s)] + g[s \ {Pick(s)}]
      BY <1>7 DEF Follows
    <2> QED  BY <2>1, <2>2
  <1>9. Fold(f) = Body(Fold(f))
    BY <1>8 DEF Fold, S
  <1> QED  BY <1>9 DEF Follows, S

(* A sum of whole numbers is one.                                           *)
LEMMA FoldIsInt ==
  ASSUME NEW S, IsFiniteSet(S), NEW f \in [S -> Int]
  PROVE  \A s \in SUBSET S : Fold(f)[s] \in Int
  <1> DEFINE P == {s \in SUBSET S : Fold(f)[s] \in Int}
  <1>1. DOMAIN f = S /\ \A s \in SUBSET S : Follows(f, Fold(f), s)
    BY FoldFollows
  <1>2. {} \in P
    <2>1. Fold(f)[{}] = 0
      BY <1>1 DEF Follows
    <2> QED  BY <2>1
  <1>3. ASSUME NEW s \in SUBSET S, s # {}, s \ {Pick(s)} \in P
        PROVE  s \in P
    <2>1. Pick(s) \in S
      BY <1>3 DEF Pick
    <2>2. f[Pick(s)] \in Int /\ Fold(f)[s \ {Pick(s)}] \in Int
      BY <1>3, <2>1
    <2>3. Fold(f)[s] = f[Pick(s)] + Fold(f)[s \ {Pick(s)}]
      BY <1>1, <1>3 DEF Follows
    <2> QED  BY <2>2, <2>3
  <1>4. P = SUBSET S
    <2>1. P \in SUBSET SUBSET S
      OBVIOUS
    <2> HIDE DEF P
    <2> QED  BY <1>2, <1>3, <2>1, SubsetsOneByOne
  <1> QED  BY <1>4

LEMMA SumIsInt ==
  ASSUME NEW S, IsFiniteSet(S), NEW f \in [S -> Int]
  PROVE  SumFunction(f) \in Int
  BY FoldIsInt, SumIsFold

(* The sum of nothing.                                                      *)
LEMMA SumOfNone ==
  ASSUME NEW f, DOMAIN f = {}
  PROVE  SumFunction(f) = 0
  BY FoldFollows, SumIsFold, FS_EmptySet DEF Follows

(* A sum of sums is the sum of what they sum.                               *)
LEMMA SumsAdd ==
  ASSUME NEW S, IsFiniteSet(S),
         NEW a \in [S -> Int], NEW b \in [S -> Int], NEW c \in [S -> Int],
         \A i \in S : c[i] = a[i] + b[i]
  PROVE  SumFunction(c) = SumFunction(a) + SumFunction(b)
  <1> DEFINE Adds(s) == Fold(c)[s] = Fold(a)[s] + Fold(b)[s]
             P == {s \in SUBSET S : Adds(s)}
  <1>1. \A f \in {a, b, c} : \A s \in SUBSET S :
          Follows(f, Fold(f), s) /\ Fold(f)[s] \in Int
    BY FoldFollows, FoldIsInt
  <1>2. {} \in P
    <2>1. \A f \in {a, b, c} : Fold(f)[{}] = 0
      BY <1>1 DEF Follows
    <2> QED  BY <2>1
  <1>3. ASSUME NEW s \in SUBSET S, s # {}, s \ {Pick(s)} \in P
        PROVE  s \in P
    <2> DEFINE x == Pick(s)
               r == s \ {Pick(s)}
    <2>1. x \in S
      BY <1>3 DEF Pick
    <2>2. \A f \in {a, b, c} : Fold(f)[s] = f[x] + Fold(f)[r] /\ Fold(f)[r] \in Int
      BY <1>1, <1>3 DEF Follows
    <2>3. Adds(r) /\ c[x] = a[x] + b[x]
      BY <1>3, <2>1
    <2>4. a[x] \in Int /\ b[x] \in Int /\ c[x] \in Int
      BY <2>1
    <2> HIDE DEF x, r
    <2> QED  BY <2>2, <2>3, <2>4
  <1>4. P = SUBSET S
    <2>1. P \in SUBSET SUBSET S
      OBVIOUS
    <2> HIDE DEF P
    <2> QED  BY <1>2, <1>3, <2>1, SubsetsOneByOne
  <1> QED  BY <1>4, SumIsFold

(* Terms between 0 and m sum up to no more than m for each.                 *)
LEMMA SumIsBounded ==
  ASSUME NEW S, IsFiniteSet(S), NEW m \in Nat, NEW f \in [S -> 0..m]
  PROVE  SumFunction(f) \in 0..(m * Cardinality(S))
  <1> DEFINE P == {s \in SUBSET S : Fold(f)[s] \in 0..(m * Cardinality(s))}
  <1>1. \A s \in SUBSET S : Follows(f, Fold(f), s) /\ IsFiniteSet(s) /\ Cardinality(s) \in Nat
    BY FoldFollows, FS_Subset, FS_CardinalityType
  <1>2. {} \in P
    <2>1. Fold(f)[{}] = 0 /\ Cardinality({}) = 0
      BY <1>1, FS_EmptySet DEF Follows
    <2> QED  BY <2>1
  <1>3. ASSUME NEW s \in SUBSET S, s # {}, s \ {Pick(s)} \in P
        PROVE  s \in P
    <2> DEFINE x == Pick(s)
               r == s \ {Pick(s)}
    <2>1. x \in s /\ x \in S
      BY <1>3 DEF Pick
    <2>2. f[x] \in 0..m /\ r \in SUBSET S /\ Fold(f)[r] \in 0..(m * Cardinality(r))
      BY <1>3, <2>1
    <2>3. Fold(f)[s] = f[x] + Fold(f)[r]
      BY <1>1, <1>3 DEF Follows
    <2>4. Cardinality(r) = Cardinality(s) - 1 /\ Cardinality(s) \in Nat /\ Cardinality(r) \in Nat
      BY <1>1, <2>1, <2>2, FS_RemoveElement
    <2> HIDE DEF x, r, P
    <2>5. m * Cardinality(s) = m * Cardinality(r) + m
      BY <2>4
    <2>6. m * Cardinality(r) \in Nat
      BY <2>4
    <2>7. Fold(f)[s] \in 0..(m * Cardinality(s))
      BY <2>2, <2>3, <2>5, <2>6
    <2> QED  BY <2>7 DEF P
  <1>4. P = SUBSET S
    <2>1. P \in SUBSET SUBSET S
      OBVIOUS
    <2> HIDE DEF P
    <2> QED  BY <1>2, <1>3, <2>1, SubsetsOneByOne
  <1> QED  BY <1>4, SumIsFold

(* Terms within m of 0 sum up to something within m for each.               *)
LEMMA SumIsWithin ==
  ASSUME NEW S, IsFiniteSet(S), NEW m \in Nat, NEW f \in [S -> (-m)..m]
  PROVE  SumFunction(f) \in (-(m * Cardinality(S)))..(m * Cardinality(S))
  <1> DEFINE P == {s \in SUBSET S : Fold(f)[s] \in (-(m * Cardinality(s)))..(m * Cardinality(s))}
  <1>1. \A s \in SUBSET S : Follows(f, Fold(f), s) /\ IsFiniteSet(s) /\ Cardinality(s) \in Nat
    BY FoldFollows, FS_Subset, FS_CardinalityType
  <1>2. {} \in P
    <2>1. Fold(f)[{}] = 0 /\ Cardinality({}) = 0
      BY <1>1, FS_EmptySet DEF Follows
    <2> QED  BY <2>1
  <1>3. ASSUME NEW s \in SUBSET S, s # {}, s \ {Pick(s)} \in P
        PROVE  s \in P
    <2> DEFINE x == Pick(s)
               r == s \ {Pick(s)}
    <2>1. x \in s /\ x \in S
      BY <1>3 DEF Pick
    <2>2. f[x] \in (-m)..m /\ r \in SUBSET S /\ Fold(f)[r] \in (-(m * Cardinality(r)))..(m * Cardinality(r))
      BY <1>3, <2>1
    <2>3. Fold(f)[s] = f[x] + Fold(f)[r]
      BY <1>1, <1>3 DEF Follows
    <2>4. Cardinality(r) = Cardinality(s) - 1 /\ Cardinality(s) \in Nat /\ Cardinality(r) \in Nat
      BY <1>1, <2>1, <2>2, FS_RemoveElement
    <2> HIDE DEF x, r, P
    <2>5. m * Cardinality(s) = m * Cardinality(r) + m
      BY <2>4
    <2>6. m * Cardinality(r) \in Nat
      BY <2>4
    <2>7. Fold(f)[s] \in (-(m * Cardinality(s)))..(m * Cardinality(s))
      BY <2>2, <2>3, <2>5, <2>6
    <2> QED  BY <2>7 DEF P
  <1>4. P = SUBSET S
    <2>1. P \in SUBSET SUBSET S
      OBVIOUS
    <2> HIDE DEF P
    <2> QED  BY <1>2, <1>3, <2>1, SubsetsOneByOne
  <1> QED  BY <1>4, SumIsFold

(* A factor of every term is one of the sum.                                *)
LEMMA SumIsMultiple ==
  ASSUME NEW S, IsFiniteSet(S), NEW k \in Int, NEW a \in [S -> Int], NEW d \in [S -> Int],
         \A i \in S : d[i] = k * a[i]
  PROVE  SumFunction(d) = k * SumFunction(a)
  <1> DEFINE P == {s \in SUBSET S : Fold(d)[s] = k * Fold(a)[s]}
  <1>1. \A f \in {a, d} : \A s \in SUBSET S : Follows(f, Fold(f), s) /\ Fold(f)[s] \in Int
    BY FoldFollows, FoldIsInt
  <1>2. {} \in P
    <2>1. Fold(a)[{}] = 0 /\ Fold(d)[{}] = 0
      BY <1>1 DEF Follows
    <2> QED  BY <2>1
  <1>3. ASSUME NEW s \in SUBSET S, s # {}, s \ {Pick(s)} \in P
        PROVE  s \in P
    <2> DEFINE x == Pick(s)
               r == s \ {Pick(s)}
    <2>1. x \in S
      BY <1>3 DEF Pick
    <2>2. /\ Fold(a)[s] = a[x] + Fold(a)[r] /\ Fold(a)[r] \in Int
          /\ Fold(d)[s] = d[x] + Fold(d)[r]
      BY <1>1, <1>3 DEF Follows
    <2>3. Fold(d)[r] = k * Fold(a)[r] /\ d[x] = k * a[x] /\ a[x] \in Int
      BY <1>3, <2>1
    <2>4. Fold(d)[s] = k * Fold(a)[s]
      <3> HIDE DEF x, r
      <3> QED  BY <2>2, <2>3
    <2> QED  BY <2>4
  <1>4. P = SUBSET S
    <2>1. P \in SUBSET SUBSET S
      OBVIOUS
    <2> HIDE DEF P
    <2> QED  BY <1>2, <1>3, <2>1, SubsetsOneByOne
  <1> QED  BY <1>4, SumIsFold
================================================================================
