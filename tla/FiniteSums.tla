------------------------------ MODULE FiniteSums ------------------------------
(***************************************************************************)
(* Sums over finite sets, as the ledgers of this project need them: what   *)
(* one entry more, or one entry changed, does to the sum of all.           *)
(*                                                                         *)
(* Sums of the community modules are folds, hence recursive functions.     *)
(* Instead of an induction over a predicate, every proof here looks at a   *)
(* smallest set that would be a counterexample (SmallestSet), which exists *)
(* as inclusion of finite sets is well-founded.                            *)
(***************************************************************************)
EXTENDS Integers, FiniteSetsExt, FiniteSetTheorems, TLAPS

Total(f, S) == MapThenSumSet(LAMBDA x : f[x], S)

(* The element that the fold takes out of a set first.                     *)
Pick(s) == CHOOSE x \in s : TRUE

(* What the fold of f does at a set s, given its values at smaller ones.   *)
Fold(f, h, s) == IF s = {} THEN 0 ELSE f[Pick(s)] + h[s \ {Pick(s)}]

(* h is the function that computes the fold of f on the subsets of S.      *)
Solves(h, f, S) == h = [s \in SUBSET S |-> Fold(f, h, s)]

LEMMA PickIn == \A s : s # {} => Pick(s) \in s
BY DEF Pick

(* Every non-empty collection of subsets of a finite set has a member with *)
(* no proper subset in it.                                                 *)
LEMMA SmallestSet ==
  ASSUME NEW S, IsFiniteSet(S), NEW F \in SUBSET (SUBSET S), F # {}
  PROVE  \E T \in F : \A U \in F : ~ (U \subseteq T /\ U # T)
<1>1. IsWellFoundedOn(StrictSubsetOrdering(S), SUBSET S)
  BY FS_StrictSubsetOrderingWellFounded, FS_FiniteSubsetsOfFinite
<1>2. \E T \in F : \A U \in F : ~ (<<U, T>> \in StrictSubsetOrdering(S))
  BY <1>1, WFMin
<1> QED BY <1>2 DEF StrictSubsetOrdering

(* The recursion has a solution, set by set in the order of their sizes.   *)
LEMMA FoldExists ==
  ASSUME NEW f, NEW S, IsFiniteSet(S)
  PROVE  \E h : Solves(h, f, S)
<1> DEFINE Small(T) == {s \in SUBSET S : Cardinality(s) <= Cardinality(T)}
           Solved(T) == \E h : h = [s \in Small(T) |-> Fold(f, h, s)]
           F == {T \in SUBSET S : ~ Solved(T)}
<1>0. \A T \in SUBSET S : IsFiniteSet(T) /\ Cardinality(T) \in Nat
  BY FS_Subset, FS_CardinalityType
<1>1. ASSUME NEW T \in F, \A U \in F : ~ (U \subseteq T /\ U # T) PROVE FALSE
  <2>1. CASE T = {}
    <3> DEFINE h == [s \in Small(T) |-> 0]
    <3>1. ASSUME NEW s \in Small(T) PROVE s = {}
      <4>1. Cardinality(T) = 0
        BY <2>1, FS_EmptySet
      <4>2. s \in SUBSET S /\ Cardinality(s) <= 0
        BY <4>1
      <4>3. Cardinality(s) = 0
        BY <4>2, <1>0
      <4> QED BY <4>2, <4>3, <1>0, FS_EmptySet
    <3>2. h = [s \in Small(T) |-> Fold(f, h, s)]
      BY <3>1 DEF Fold
    <3> QED BY <3>2
  <2>2. CASE T # {}
    <3> DEFINE x == Pick(T)
               U == T \ {x}
    <3>1. x \in T
      BY <2>2, PickIn
    <3>2. Cardinality(U) = Cardinality(T) - 1
      BY <3>1, <1>0, FS_RemoveElement
    <3>3. Solved(U)
      <4>1. U \in SUBSET S /\ U \subseteq T /\ U # T
        BY <3>1
      <4> HIDE DEF U, Solved
      <4>2. U \notin F
        <5> HIDE DEF F
        <5> QED BY <1>1, <4>1
      <4> QED BY <4>1, <4>2
    <3> HIDE DEF x, U
    <3>4. PICK h : h = [s \in Small(U) |-> Fold(f, h, s)]
      BY <3>3
    <3> DEFINE k == [s \in Small(T) |-> Fold(f, h, s)]
    <3>5. ASSUME NEW s \in Small(T), s # {}
          PROVE  s \ {Pick(s)} \in Small(U)
      <4>1. s \in SUBSET S /\ Pick(s) \in s /\ Cardinality(s) <= Cardinality(T)
        BY <3>5, PickIn
      <4>2. Cardinality(s \ {Pick(s)}) = Cardinality(s) - 1
        BY <4>1, <1>0, FS_RemoveElement
      <4>3. Cardinality(s) \in Nat /\ Cardinality(T) \in Nat
        BY <1>0, <4>1
      <4> QED BY <4>1, <4>2, <4>3, <3>2
    <3>6. \A s \in Small(U) : s \in Small(T)
      BY <3>2, <1>0
    <3>7. \A s \in Small(U) : k[s] = h[s]
      BY <3>4, <3>6
    <3>8. \A s \in Small(T) : Fold(f, h, s) = Fold(f, k, s)
      BY <3>5, <3>7 DEF Fold
    <3>9. k = [s \in Small(T) |-> Fold(f, k, s)]
      BY <3>8
    <3> QED BY <3>9
  <2> QED BY <2>1, <2>2
<1>2. F = {}
  <2>1. F \in SUBSET (SUBSET S)
    BY DEF F
  <2> HIDE DEF F
  <2> QED BY <1>1, <2>1, SmallestSet
<1>3. Solved(S)
  <2> HIDE DEF Solved
  <2> QED BY <1>2
<1>4. Small(S) = SUBSET S
  BY FS_Subset
<1> QED BY <1>3, <1>4 DEF Solves

(* The sum is a solution of the recursion.                                 *)
LEMMA TotalFold ==
  ASSUME NEW f, NEW S, IsFiniteSet(S)
  PROVE  \E h : /\ Solves(h, f, S)
                /\ Total(f, S) = h[S]
<1> DEFINE h == CHOOSE h : h = [s \in SUBSET S |->
                  IF s = {} THEN 0 ELSE f[Pick(s)] + h[s \ {Pick(s)}]]
<1>1. Total(f, S) = h[S]
  BY DEF Total, MapThenSumSet, MapThenFoldSet, Pick
<1>2. h = [s \in SUBSET S |-> IF s = {} THEN 0 ELSE f[Pick(s)] + h[s \ {Pick(s)}]]
  <2>1. \E k : k = [s \in SUBSET S |-> Fold(f, k, s)]
    BY FoldExists DEF Solves
  <2>2. \E k : k = [s \in SUBSET S |->
                     IF s = {} THEN 0 ELSE f[Pick(s)] + k[s \ {Pick(s)}]]
    BY <2>1 DEF Fold
  <2> QED BY <2>2
<1> HIDE DEF h
<1> QED BY <1>1, <1>2 DEF Fold, Solves

(* ... and there is no other.                                              *)
LEMMA FoldUnique ==
  ASSUME NEW f, NEW S, IsFiniteSet(S), NEW T \in SUBSET S, NEW h, NEW k,
         Solves(h, f, S), Solves(k, f, T)
  PROVE  \A s \in SUBSET T : k[s] = h[s]
<1> DEFINE F == {s \in SUBSET T : k[s] # h[s]}
<1>1. ASSUME NEW s \in F, \A u \in F : ~ (u \subseteq s /\ u # s) PROVE FALSE
  <2>1. k[s] = Fold(f, k, s) /\ h[s] = Fold(f, h, s)
    BY <1>1 DEF Solves
  <2>2. CASE s = {}
    BY <1>1, <2>1, <2>2 DEF Fold
  <2>3. CASE s # {}
    <3>1. Pick(s) \in s
      BY <2>3, PickIn
    <3>2. k[s \ {Pick(s)}] = h[s \ {Pick(s)}]
      BY <1>1, <3>1
    <3> QED BY <1>1, <2>1, <2>3, <3>2 DEF Fold
  <2> QED BY <2>2, <2>3
<1>2. IsFiniteSet(T) /\ F \in SUBSET (SUBSET T)
  BY FS_Subset
<1>3. F = {}
  <2> HIDE DEF F
  <2> QED BY <1>1, <1>2, SmallestSet
<1> QED BY <1>3

(* The empty sum, and the sum of a set by its first element.               *)
LEMMA TotalStep ==
  ASSUME NEW f, NEW S, IsFiniteSet(S)
  PROVE  /\ S = {} => Total(f, S) = 0
         /\ S # {} => Total(f, S) = f[Pick(S)] + Total(f, S \ {Pick(S)})
<1>1. PICK h : /\ Solves(h, f, S)
               /\ Total(f, S) = h[S]
  BY TotalFold
<1>2. h[S] = Fold(f, h, S)
  BY <1>1 DEF Solves
<1>3. CASE S = {}
  BY <1>1, <1>2, <1>3 DEF Fold
<1>4. CASE S # {}
  <2> DEFINE U == S \ {Pick(S)}
  <2>1. U \in SUBSET S /\ IsFiniteSet(U)
    BY FS_Subset
  <2>2. PICK k : /\ Solves(k, f, U)
                 /\ Total(f, U) = k[U]
    BY <2>1, TotalFold
  <2>3. k[U] = h[U]
    <3> HIDE DEF U
    <3>1. \A s \in SUBSET U : k[s] = h[s]
      BY <1>1, <2>1, <2>2, FoldUnique
    <3> QED BY <3>1
  <2>4. h[S] = f[Pick(S)] + h[U]
    BY <1>2, <1>4 DEF Fold
  <2>5. Total(f, S) = f[Pick(S)] + Total(f, U)
    <3> HIDE DEF U
    <3> QED BY <1>1, <2>2, <2>3, <2>4
  <2> QED BY <1>4, <2>5
<1> QED BY <1>3, <1>4

LEMMA TotalEmpty == ASSUME NEW f PROVE Total(f, {}) = 0
BY TotalStep, FS_EmptySet

(***************************************************************************)
(* What the ledgers need.                                                  *)
(***************************************************************************)

(* A sum of naturals is a natural number.                                  *)
LEMMA TotalNat ==
  ASSUME NEW S, IsFiniteSet(S), NEW f, \A x \in S : f[x] \in Nat
  PROVE  Total(f, S) \in Nat
<1> DEFINE F == {T \in SUBSET S : Total(f, T) \notin Nat}
<1>1. ASSUME NEW T \in F, \A U \in F : ~ (U \subseteq T /\ U # T) PROVE FALSE
  <2>1. T \in SUBSET S /\ Total(f, T) \notin Nat /\ IsFiniteSet(T)
    BY FS_Subset
  <2>2. T # {}
    BY <2>1, TotalEmpty
  <2>3. Pick(T) \in T /\ Total(f, T) = f[Pick(T)] + Total(f, T \ {Pick(T)})
    BY <2>1, <2>2, TotalStep, PickIn
  <2>4. Total(f, T \ {Pick(T)}) \in Nat
    BY <1>1, <2>1, <2>3
  <2> QED BY <2>1, <2>3, <2>4
<1>2. F = {}
  <2>1. F \in SUBSET (SUBSET S)
    BY DEF F
  <2> HIDE DEF F
  <2> QED BY <1>1, <2>1, SmallestSet
<1> QED BY <1>2

(* A sum of nothings is nothing.                                           *)
LEMMA ZeroSum ==
  ASSUME NEW S, IsFiniteSet(S), NEW f, \A x \in S : f[x] = 0
  PROVE  Total(f, S) = 0
<1> DEFINE F == {T \in SUBSET S : Total(f, T) # 0}
<1>1. ASSUME NEW T \in F, \A U \in F : ~ (U \subseteq T /\ U # T) PROVE FALSE
  <2>1. T \in SUBSET S /\ Total(f, T) # 0 /\ IsFiniteSet(T)
    BY FS_Subset
  <2>2. T # {}
    BY <2>1, TotalEmpty
  <2>3. Pick(T) \in T /\ Total(f, T) = f[Pick(T)] + Total(f, T \ {Pick(T)})
    BY <2>1, <2>2, TotalStep, PickIn
  <2>4. Total(f, T \ {Pick(T)}) = 0
    BY <1>1, <2>1, <2>3
  <2> QED BY <2>1, <2>3, <2>4
<1>2. F = {}
  <2>1. F \in SUBSET (SUBSET S)
    BY DEF F
  <2> HIDE DEF F
  <2> QED BY <1>1, <2>1, SmallestSet
<1> QED BY <1>2

(* A sum depends only on the summands.                                     *)
LEMMA TotalSame ==
  ASSUME NEW S, IsFiniteSet(S), NEW f, NEW g, \A x \in S : f[x] = g[x]
  PROVE  Total(f, S) = Total(g, S)
<1> DEFINE F == {T \in SUBSET S : Total(f, T) # Total(g, T)}
<1>1. ASSUME NEW T \in F, \A U \in F : ~ (U \subseteq T /\ U # T) PROVE FALSE
  <2>1. T \in SUBSET S /\ Total(f, T) # Total(g, T) /\ IsFiniteSet(T)
    BY FS_Subset
  <2>2. T # {}
    BY <2>1, TotalEmpty
  <2>3. /\ Pick(T) \in T
        /\ Total(f, T) = f[Pick(T)] + Total(f, T \ {Pick(T)})
        /\ Total(g, T) = g[Pick(T)] + Total(g, T \ {Pick(T)})
    BY <2>1, <2>2, TotalStep, PickIn
  <2>4. Total(f, T \ {Pick(T)}) = Total(g, T \ {Pick(T)})
    BY <1>1, <2>1, <2>3
  <2> QED BY <2>1, <2>3, <2>4
<1>2. F = {}
  <2>1. F \in SUBSET (SUBSET S)
    BY DEF F
  <2> HIDE DEF F
  <2> QED BY <1>1, <2>1, SmallestSet
<1> QED BY <1>2

(* Any element may be taken out first.                                     *)
LEMMA TotalWithout ==
  ASSUME NEW S, IsFiniteSet(S), NEW f, \A x \in S : f[x] \in Nat
  PROVE  \A x \in S : Total(f, S) = f[x] + Total(f, S \ {x})
<1> DEFINE Free(T, x) == Total(f, T) = f[x] + Total(f, T \ {x})
           F == {T \in SUBSET S : \E x \in T : ~ Free(T, x)}
<1>0. \A T \in SUBSET S : IsFiniteSet(T) /\ Total(f, T) \in Nat
  BY FS_Subset, TotalNat
<1>1. ASSUME NEW T \in F, \A U \in F : ~ (U \subseteq T /\ U # T) PROVE FALSE
  <2>1. T \in SUBSET S
    BY DEF F
  <2>2. PICK x \in T : ~ Free(T, x)
    BY DEF F
  <2> DEFINE p == Pick(T)
  <2>3. p \in T /\ Total(f, T) = f[p] + Total(f, T \ {p})
    BY <1>0, <2>1, TotalStep, PickIn
  <2>4. p # x
    BY <2>2, <2>3
  <2> HIDE DEF p
  <2>5. T \ {p} \notin F /\ T \ {x} \notin F
    <3> HIDE DEF F
    <3> QED BY <1>1, <2>2, <2>3
  <2>6. Total(f, T \ {p}) = f[x] + Total(f, (T \ {p}) \ {x})
    BY <2>1, <2>2, <2>4, <2>5
  <2>7. Total(f, T \ {x}) = f[p] + Total(f, (T \ {x}) \ {p})
    BY <2>1, <2>3, <2>4, <2>5
  <2>8. (T \ {p}) \ {x} = (T \ {x}) \ {p}
    OBVIOUS
  <2> DEFINE rest == Total(f, (T \ {x}) \ {p})
  <2>9. rest \in Nat /\ f[x] \in Nat /\ f[p] \in Nat
    BY <1>0, <2>1, <2>3
  <2>10. Total(f, T \ {p}) = f[x] + rest
    BY <2>6, <2>8
  <2> HIDE DEF rest
  <2>11. Total(f, T) = f[x] + Total(f, T \ {x})
    <3>1. Total(f, T \ {x}) = f[p] + rest
      BY <2>7 DEF rest
    <3> QED BY <2>3, <2>9, <2>10, <3>1
  <2> QED BY <2>2, <2>11
<1>2. F = {}
  <2>1. F \in SUBSET (SUBSET S)
    BY DEF F
  <2> HIDE DEF F
  <2> QED BY <1>1, <2>1, SmallestSet
<1>3. S \in SUBSET S /\ S \notin F
  BY <1>2
<1> QED BY <1>3

(* f and g agree on S but at x.                                            *)
DiffersAt(x, f, g, S) == /\ \A y \in S : f[y] \in Nat /\ g[y] \in Nat
                         /\ \A y \in S \ {x} : g[y] = f[y]

(* One summand changes.                                                    *)
LEMMA TotalChange ==
  ASSUME NEW S, IsFiniteSet(S), NEW f, NEW g, NEW x \in S, DiffersAt(x, f, g, S)
  PROVE  Total(g, S) + f[x] = Total(f, S) + g[x]
<1> USE DEF DiffersAt
<1>1. IsFiniteSet(S \ {x})
  BY FS_RemoveElement
<1>2. Total(f, S \ {x}) = Total(g, S \ {x})
  BY <1>1, TotalSame
<1>3. Total(f, S) = f[x] + Total(f, S \ {x})
  BY TotalWithout
<1>4. Total(g, S) = g[x] + Total(g, S \ {x})
  BY TotalWithout
<1>5. Total(f, S \ {x}) \in Nat
  BY <1>1, TotalNat
<1> QED BY <1>2, <1>3, <1>4, <1>5
==============================================================================
