-------------------------------- MODULE Sums --------------------------------
(***************************************************************************)
(* Sums: what the proofs need to know of MapThenSumSet, with which the     *)
(* modules add up amounts.  The library's induction principles take an     *)
(* operator as a parameter, so the inductions here collect the cases for   *)
(* which the claim holds in a set.                                         *)
(***************************************************************************)
EXTENDS Integers, FiniteSetsExt, FiniteSetTheorems, NaturalsInduction, WellFoundedInduction, TLAPS

-----------------------------------------------------------------------------
(* The recursion behind MapThenSumSet *)

(* The function behind MapThenSumSet(LAMBDA x : f[x], S): what the elements
   of each subset of S add up to. *)
Pick(s) == CHOOSE x \in s : TRUE

Adding(f, it, s) == IF s = {} THEN 0 ELSE f[Pick(s)] + it[s \ {Pick(s)}]

Fold(f, S) == CHOOSE it : it = [s \in SUBSET S |-> Adding(f, it, s)]

(* Induction, for a set of numbers. *)
LEMMA SetInduction ==
  ASSUME NEW N \in SUBSET Nat, 0 \in N, \A n \in N : n + 1 \in N
  PROVE  N = Nat
<1> DEFINE T == Nat \ N
           R == OpToRel(<, Nat)
<1>1. SUFFICES ASSUME T # {} PROVE FALSE OBVIOUS
<1>2. IsWellFoundedOn(R, Nat) BY NatLessThanWellFounded
<1>3. \A x, y \in Nat : y < x => <<y, x>> \in R BY DEF OpToRel
<1> HIDE DEF R
<1>4. PICK x \in T : \A y \in T : ~ (<<y, x>> \in R) BY <1>1, <1>2, WFMin
<1>5. x # 0 OBVIOUS
<1>6. x - 1 \in Nat /\ x - 1 < x /\ (x - 1) + 1 = x BY <1>5
<1>7. x - 1 \in N BY <1>3, <1>4, <1>6
<1> QED BY <1>6, <1>7

(* Induction over the subsets of a finite set: Q collects the subsets that
   have the property. *)
LEMMA SubsetInduction ==
  ASSUME NEW S, IsFiniteSet(S), NEW Q \in SUBSET (SUBSET S),
         \A s \in SUBSET S : (\A x \in s : s \ {x} \in Q) => s \in Q
  PROVE  Q = SUBSET S
<1> DEFINE N == {n \in Nat : \A s \in SUBSET S : Cardinality(s) <= n => s \in Q}
<1>f. \A s \in SUBSET S : IsFiniteSet(s) /\ Cardinality(s) \in Nat
  BY FS_Subset, FS_CardinalityType
<1>e. \A s \in SUBSET S : Cardinality(s) = 0 => s = {}
  BY <1>f, FS_EmptySet
<1>r. \A s \in SUBSET S : \A x \in s : Cardinality(s \ {x}) = Cardinality(s) - 1
  BY <1>f, FS_RemoveElement
<1>1. 0 \in N
  <2> SUFFICES ASSUME NEW s \in SUBSET S, Cardinality(s) <= 0 PROVE s \in Q OBVIOUS
  <2>1. s = {} BY <1>f, <1>e
  <2> QED BY <2>1
<1>2. \A n \in N : n + 1 \in N
  <2> SUFFICES ASSUME NEW n \in N, NEW s \in SUBSET S, Cardinality(s) <= n + 1 PROVE s \in Q
    OBVIOUS
  <2>1. ASSUME NEW x \in s PROVE s \ {x} \in Q
    <3>1. Cardinality(s \ {x}) <= n BY <1>f, <1>r
    <3> QED BY <3>1
  <2> QED BY <2>1
<1>3. N = Nat BY <1>1, <1>2, SetInduction
<1> QED BY <1>3, <1>f

(* CHOOSE picks an element of a nonempty set. *)
LEMMA PickIn == ASSUME NEW s, s # {} PROVE Pick(s) \in s
BY DEF Pick

(* The recursion has a solution: one for the subsets of at most n elements
   extends to those of n + 1. *)
LEMMA FoldExists ==
  ASSUME NEW S, IsFiniteSet(S), NEW f, \A x \in S : f[x] \in Int
  PROVE  /\ Fold(f, S) \in [SUBSET S -> Int]
         /\ \A s \in SUBSET S : Fold(f, S)[s] = Adding(f, Fold(f, S), s)
<1> DEFINE Good(g, n) == \A s \in SUBSET S : Cardinality(s) <= n => g[s] = Adding(f, g, s)
           N == {n \in Nat : \E g \in [SUBSET S -> Int] : Good(g, n)}
<1>f. \A s \in SUBSET S : IsFiniteSet(s) /\ Cardinality(s) \in Nat
  BY FS_Subset, FS_CardinalityType
<1>e. \A s \in SUBSET S : Cardinality(s) = 0 => s = {}
  BY <1>f, FS_EmptySet
<1>r. \A s \in SUBSET S : s # {} => Cardinality(s \ {Pick(s)}) = Cardinality(s) - 1
  BY <1>f, FS_RemoveElement, PickIn
<1>p. \A s \in SUBSET S : s # {} => Pick(s) \in S /\ f[Pick(s)] \in Int BY PickIn
<1>1. 0 \in N
  <2> DEFINE g == [s \in SUBSET S |-> 0]
  <2>1. Good(g, 0) BY <1>f, <1>e DEF Adding
  <2>2. g \in [SUBSET S -> Int] OBVIOUS
  <2> QED BY <2>1, <2>2
<1>2. \A n \in N : n + 1 \in N
  <2> SUFFICES ASSUME NEW n \in N PROVE n + 1 \in N OBVIOUS
  <2>0. n \in Nat /\ n + 1 \in Nat OBVIOUS
  <2>g. PICK g \in [SUBSET S -> Int] : Good(g, n) OBVIOUS
  <2> DEFINE h == [s \in SUBSET S |-> IF Cardinality(s) <= n THEN g[s] ELSE Adding(f, g, s)]
  <2>1. \A s \in SUBSET S : Adding(f, g, s) \in Int BY <1>p DEF Adding
  <2>2. h \in [SUBSET S -> Int] BY <2>1
  <2>3. ASSUME NEW s \in SUBSET S, Cardinality(s) <= n + 1
        PROVE  h[s] = Adding(f, h, s)
    <3>1. s # {} => h[s \ {Pick(s)}] = g[s \ {Pick(s)}]
      BY <1>f, <1>r, <2>0, <2>3
    <3>2. Adding(f, h, s) = Adding(f, g, s) BY <3>1 DEF Adding
    <3>3. h[s] = Adding(f, g, s) BY <2>g
    <3> QED BY <3>2, <3>3
  <2> HIDE DEF h
  <2>4. Good(h, n + 1) BY <2>3
  <2> QED BY <2>0, <2>2, <2>4
<1>3. Cardinality(S) \in N
  <2> HIDE DEF N
  <2>1. N \in SUBSET Nat BY DEF N
  <2>2. N = Nat BY <1>1, <1>2, <2>1, SetInduction
  <2> QED BY <2>2, <1>f
<1>4. PICK g \in [SUBSET S -> Int] : Good(g, Cardinality(S)) BY <1>3
<1>5. \A s \in SUBSET S : g[s] = Adding(f, g, s)
  BY <1>4, FS_Subset
<1>6. g = [s \in SUBSET S |-> Adding(f, g, s)] BY <1>5
<1> DEFINE F == Fold(f, S)
<1>7. F = [s \in SUBSET S |-> Adding(f, F, s)] BY <1>6 DEF Fold
<1> HIDE DEF F
<1>8. \A s \in SUBSET S : F[s] = Adding(f, F, s) BY <1>7
<1>9. F \in [SUBSET S -> Int]
  <2> DEFINE Q == {s \in SUBSET S : F[s] \in Int}
  <2>1. \A s \in SUBSET S : (\A x \in s : s \ {x} \in Q) => s \in Q
    <3> SUFFICES ASSUME NEW s \in SUBSET S, \A x \in s : s \ {x} \in Q PROVE F[s] \in Int
      OBVIOUS
    <3>0. F[s] = Adding(f, F, s) BY <1>8
    <3>1. CASE s = {} BY <3>0, <3>1 DEF Adding
    <3>2. CASE s # {}
      <4>1. Pick(s) \in s BY <3>2, PickIn
      <4>2. F[s \ {Pick(s)}] \in Int /\ f[Pick(s)] \in Int BY <4>1, <1>p, <3>2
      <4> QED BY <3>0, <3>2, <4>2 DEF Adding
    <3> QED BY <3>1, <3>2
  <2> HIDE DEF Q
  <2>2. Q \in SUBSET (SUBSET S) BY DEF Q
  <2>3. Q = SUBSET S BY <2>1, <2>2, SubsetInduction
  <2> QED BY <1>7, <2>3 DEF Q
<1> QED BY <1>8, <1>9 DEF F

(* What a subset adds up to depends on nothing outside it. *)
LEMMA FoldSame ==
  ASSUME NEW S, IsFiniteSet(S), NEW f, \A x \in S : f[x] \in Int,
         NEW T, IsFiniteSet(T), NEW g, \A x \in T : g[x] \in Int,
         NEW U, U \subseteq S, U \subseteq T, \A x \in U : f[x] = g[x]
  PROVE  Fold(f, S)[U] = Fold(g, T)[U]
<1> DEFINE F == Fold(f, S)
           G == Fold(g, T)
           Q == {s \in SUBSET U : F[s] = G[s]}
<1>1. \A s \in SUBSET U : F[s] = Adding(f, F, s) /\ G[s] = Adding(g, G, s) BY ZenonT(40), FoldExists
<1>2. \A s \in SUBSET U : (\A x \in s : s \ {x} \in Q) => s \in Q
  <2> SUFFICES ASSUME NEW s \in SUBSET U, \A x \in s : s \ {x} \in Q PROVE F[s] = G[s]
    OBVIOUS
  <2> HIDE DEF F, G
  <2>0. F[s] = Adding(f, F, s) /\ G[s] = Adding(g, G, s) BY <1>1
  <2>1. CASE s = {} BY <2>0, <2>1 DEF Adding
  <2>2. CASE s # {}
    <3>1. Pick(s) \in s BY <2>2, PickIn
    <3>2. F[s \ {Pick(s)}] = G[s \ {Pick(s)}] /\ f[Pick(s)] = g[Pick(s)] BY <3>1
    <3> QED BY <2>0, <2>2, <3>2 DEF Adding
  <2> QED BY <2>1, <2>2
<1>3. IsFiniteSet(U) BY FS_Subset
<1> HIDE DEF Q, F, G
<1>4. Q \in SUBSET (SUBSET U) BY DEF Q
<1>5. Q = SUBSET U BY <1>2, <1>3, <1>4, SubsetInduction
<1>6. U \in Q BY <1>5
<1> QED BY <1>6 DEF Q, F, G

(* Any element may be taken out first. *)
LEMMA FoldRemove ==
  ASSUME NEW S, IsFiniteSet(S), NEW f, \A x \in S : f[x] \in Int,
         NEW x \in S
  PROVE  Fold(f, S)[S] = f[x] + Fold(f, S)[S \ {x}]
<1> DEFINE F == Fold(f, S)
           Q == {s \in SUBSET S : \A y \in s : F[s] = f[y] + F[s \ {y}]}
<1>1. F \in [SUBSET S -> Int] /\ \A s \in SUBSET S : F[s] = Adding(f, F, s) BY FoldExists
<1> HIDE DEF F
<1>2. \A s \in SUBSET S : (\A y \in s : s \ {y} \in Q) => s \in Q
  <2> SUFFICES ASSUME NEW s \in SUBSET S, \A y \in s : s \ {y} \in Q, NEW y \in s
               PROVE  F[s] = f[y] + F[s \ {y}]
    OBVIOUS
  <2> DEFINE c == Pick(s)
  <2>1. c \in s BY PickIn
  <2>2. F[s] = f[c] + F[s \ {c}] BY <1>1, <2>1 DEF Adding
  <2> HIDE DEF c
  <2>3. CASE y = c BY <2>2, <2>3
  <2>4. CASE y # c
    <3>1. y \in s \ {c} /\ s \ {c} \in Q BY <2>1, <2>4
    <3>2. F[s \ {c}] = f[y] + F[(s \ {c}) \ {y}] BY <3>1
    <3>3. c \in s \ {y} /\ s \ {y} \in Q BY <2>1, <2>4
    <3>4. F[s \ {y}] = f[c] + F[(s \ {y}) \ {c}] BY <3>3
    <3>5. (s \ {c}) \ {y} = (s \ {y}) \ {c} OBVIOUS
    <3> DEFINE a == F[(s \ {y}) \ {c}]
    <3>6. f[c] \in Int /\ f[y] \in Int /\ a \in Int BY <1>1, <2>1
    <3>7. F[s \ {c}] = f[y] + a BY <3>2, <3>5
    <3>8. F[s \ {y}] = f[c] + a BY <3>4
    <3> HIDE DEF a
    <3>9. F[s] = f[c] + (f[y] + a) BY <2>2, <3>7
    <3> QED BY <3>6, <3>8, <3>9
  <2> QED BY <2>3, <2>4
<1> HIDE DEF Q
<1>4. Q \in SUBSET (SUBSET S) BY DEF Q
<1>5. Q = SUBSET S BY <1>2, <1>4, SubsetInduction
<1>6. S \in Q BY <1>5
<1> QED BY <1>6 DEF Q, F

-----------------------------------------------------------------------------
(* Sums *)

(* The sum of f over S. *)
SumOver(f, S) == Fold(f, S)[S]

(* It is what MapThenSumSet computes. *)
LEMMA SumIs == ASSUME NEW f, NEW S PROVE MapThenSumSet(LAMBDA x : f[x], S) = SumOver(f, S)
BY DEF MapThenSumSet, MapThenFoldSet, SumOver, Fold, Adding, Pick

(* Integers add up to an integer, *)
LEMMA SumInt ==
  ASSUME NEW S, IsFiniteSet(S), NEW f, \A x \in S : f[x] \in Int
  PROVE  SumOver(f, S) \in Int
BY FoldExists DEF SumOver

(* nothing adds up to zero, *)
LEMMA SumEmpty == \A f : SumOver(f, {}) = 0
<1> TAKE f
<1>1. Fold(f, {})[{}] = Adding(f, Fold(f, {}), {}) BY FS_EmptySet, FoldExists
<1> QED BY <1>1 DEF SumOver, Adding

(* only the summands count, *)
LEMMA SumSame ==
  ASSUME NEW S, IsFiniteSet(S), NEW f, NEW g, \A x \in S : f[x] \in Int /\ g[x] = f[x]
  PROVE  SumOver(g, S) = SumOver(f, S)
BY FoldSame DEF SumOver

(* a new element adds its summand, *)
LEMMA SumAdd ==
  ASSUME NEW S, IsFiniteSet(S), NEW x, x \notin S, NEW f, \A y \in S \cup {x} : f[y] \in Int
  PROVE  SumOver(f, S \cup {x}) = SumOver(f, S) + f[x]
<1> DEFINE T == S \cup {x}
<1>1. IsFiniteSet(T) BY FS_AddElement
<1>2. T \ {x} = S OBVIOUS
<1>3. \A y \in T : f[y] \in Int OBVIOUS
<1>4. x \in T /\ S \subseteq T OBVIOUS
<1> HIDE DEF T
<1>5. Fold(f, T)[T] = f[x] + Fold(f, T)[S] BY <1>1, <1>2, <1>3, <1>4, FoldRemove
<1>6. Fold(f, T)[S] = Fold(f, S)[S] BY <1>1, <1>3, <1>4, FoldSame
<1>7. SumOver(f, S) \in Int /\ f[x] \in Int BY SumInt, <1>3, <1>4
<1>8. SumOver(f, T) = f[x] + SumOver(f, S) BY <1>5, <1>6 DEF SumOver
<1> QED BY <1>7, <1>8 DEF T

(* and naturals add up to a natural. *)
LEMMA SumNat ==
  ASSUME NEW S, IsFiniteSet(S), NEW f, \A x \in S : f[x] \in Nat
  PROVE  SumOver(f, S) \in Nat
<1> DEFINE F == Fold(f, S)
           Q == {s \in SUBSET S : F[s] \in Nat}
<1>0. \A x \in S : f[x] \in Int OBVIOUS
<1>1. F \in [SUBSET S -> Int] /\ \A s \in SUBSET S : F[s] = Adding(f, F, s) BY <1>0, FoldExists
<1> HIDE DEF F
<1>2. \A s \in SUBSET S : (\A y \in s : s \ {y} \in Q) => s \in Q
  <2> SUFFICES ASSUME NEW s \in SUBSET S, \A y \in s : s \ {y} \in Q PROVE F[s] \in Nat
    OBVIOUS
  <2>0. F[s] = Adding(f, F, s) BY <1>1
  <2>1. CASE s = {} BY <2>0, <2>1 DEF Adding
  <2>2. CASE s # {}
    <3>1. Pick(s) \in s BY <2>2, PickIn
    <3>2. F[s \ {Pick(s)}] \in Nat /\ f[Pick(s)] \in Nat BY <3>1
    <3> QED BY <2>0, <2>2, <3>2 DEF Adding
  <2> QED BY <2>1, <2>2
<1> HIDE DEF Q
<1>4. Q \in SUBSET (SUBSET S) BY DEF Q
<1>5. Q = SUBSET S BY <1>2, <1>4, SubsetInduction
<1>6. S \in Q BY <1>5
<1> QED BY <1>6 DEF Q, F, SumOver

(* Two disjoint sets add up to the sum of their sums. *)
LEMMA SumUnion ==
  ASSUME NEW S, NEW T, IsFiniteSet(S), IsFiniteSet(T), S \cap T = {},
         NEW f, \A x \in S \cup T : f[x] \in Int
  PROVE  SumOver(f, S \cup T) = SumOver(f, S) + SumOver(f, T)
<1> DEFINE Q == {U \in SUBSET T : SumOver(f, S \cup U) = SumOver(f, S) + SumOver(f, U)}
<1>1. \A U \in SUBSET T : (\A x \in U : U \ {x} \in Q) => U \in Q
  <2> SUFFICES ASSUME NEW U \in SUBSET T, \A x \in U : U \ {x} \in Q
               PROVE  SumOver(f, S \cup U) = SumOver(f, S) + SumOver(f, U)
    OBVIOUS
  <2>1. CASE U = {}
    <3>1. S \cup U = S BY <2>1
    <3>2. SumOver(f, U) = 0 BY <2>1, SumEmpty
    <3>3. SumOver(f, S) \in Int BY SumInt
    <3>4. SumOver(f, S \cup U) = SumOver(f, S) BY <3>1
    <3> QED BY <3>2, <3>3, <3>4
  <2>2. CASE U # {}
    <3>1. PICK x : x \in U BY <2>2
    <3> DEFINE V == U \ {x}
               W == S \cup V
    <3>2. SumOver(f, W) = SumOver(f, S) + SumOver(f, V) BY <3>1
    <3>3. IsFiniteSet(V) /\ IsFiniteSet(W) BY FS_Subset, FS_Union
    <3>4. U = V \cup {x} /\ S \cup U = W \cup {x} BY <3>1
    <3>5. x \notin V /\ x \notin W BY <3>1
    <3>a. \A y \in V \cup {x} : f[y] \in Int BY <3>1
    <3>b. \A y \in W \cup {x} : f[y] \in Int BY <3>1
    <3> HIDE DEF V, W
    <3>6. SumOver(f, S) \in Int BY SumInt
    <3>7. SumOver(f, V) \in Int /\ f[x] \in Int BY <3>3, <3>a, SumInt
    <3>8. SumOver(f, V \cup {x}) = SumOver(f, V) + f[x] BY <3>3, <3>5, <3>a, SumAdd
    <3>9. SumOver(f, W \cup {x}) = SumOver(f, W) + f[x] BY <3>3, <3>5, <3>b, SumAdd
    <3>10. SumOver(f, S \cup U) = SumOver(f, W \cup {x}) /\ SumOver(f, U) = SumOver(f, V \cup {x})
      BY <3>4
    <3> QED BY <3>2, <3>6, <3>7, <3>8, <3>9, <3>10
  <2> QED BY <2>1, <2>2
<1> HIDE DEF Q
<1>2. Q \in SUBSET (SUBSET T) BY DEF Q
<1>3. Q = SUBSET T BY <1>1, <1>2, SubsetInduction
<1>4. T \in Q BY <1>3
<1> QED BY <1>4 DEF Q

(* A sum is the same over any names of the summands. *)
Renames(b, S, T) ==
  /\ b \in [S -> T]
  /\ \A x, y \in S : b[x] = b[y] => x = y
  /\ \A z \in T : \E x \in S : b[x] = z

LEMMA SumRenamed ==
  ASSUME NEW S, NEW T, IsFiniteSet(S), NEW b, Renames(b, S, T),
         NEW f, NEW g, \A x \in S : g[x] = f[b[x]] /\ g[x] \in Int
  PROVE  IsFiniteSet(T) /\ SumOver(g, S) = SumOver(f, T)
<1> DEFINE I(U) == {b[x] : x \in U}
           Q == {U \in SUBSET S : IsFiniteSet(I(U)) /\ SumOver(g, U) = SumOver(f, I(U))}
<1>1. ASSUME NEW U \in SUBSET S, \A x \in U : U \ {x} \in Q PROVE U \in Q
  <2>1. CASE U = {}
    <3>1. I(U) = {} BY <2>1
    <3>2. SumOver(g, {}) = SumOver(f, {}) BY SumEmpty
    <3>3. IsFiniteSet(I(U)) /\ SumOver(g, U) = SumOver(f, I(U)) BY <2>1, <3>1, <3>2, FS_EmptySet
    <3> QED BY <3>3
  <2>2. CASE U # {}
    <3>1. PICK x : x \in U BY <2>2
    <3> DEFINE V == U \ {x}
    <3>2. IsFiniteSet(I(V)) /\ SumOver(g, V) = SumOver(f, I(V)) BY <1>1, <3>1
    <3>3. U = V \cup {x} /\ I(U) = I(V) \cup {b[x]} BY <3>1
    <3>4. x \notin V /\ IsFiniteSet(V) BY <3>1, FS_Subset
    <3>5. b[x] \notin I(V) BY <3>1 DEF Renames
    <3>6. \A w \in V \cup {x} : g[w] \in Int BY <3>1
    <3>7. \A w \in I(V) \cup {b[x]} : f[w] \in Int
      <4>1. \A w \in S : f[b[w]] \in Int OBVIOUS
      <4> QED BY <3>1, <4>1
    <3>8. g[x] = f[b[x]] BY <3>1
    <3> HIDE DEF I, V
    <3>9. IsFiniteSet(I(V) \cup {b[x]}) /\ SumOver(g, V \cup {x}) = SumOver(f, I(V) \cup {b[x]})
      <4>1. PICK W, z : W = I(V) /\ z = b[x] OBVIOUS
      <4>2. IsFiniteSet(W) /\ z \notin W /\ (\A w \in W \cup {z} : f[w] \in Int)
        BY <3>2, <3>5, <3>7, <4>1
      <4>3. SumOver(g, V) = SumOver(f, W) /\ g[x] = f[z] BY <3>2, <3>8, <4>1
      <4>4. IsFiniteSet(W \cup {z}) /\ SumOver(g, V \cup {x}) = SumOver(f, W \cup {z})
        <5>1. SumOver(g, V \cup {x}) = SumOver(g, V) + g[x] BY <3>4, <3>6, SumAdd
        <5>2. SumOver(f, W \cup {z}) = SumOver(f, W) + f[z] BY <4>2, SumAdd
        <5>3. IsFiniteSet(W \cup {z}) BY <4>2, FS_AddElement
        <5> QED BY <4>3, <5>1, <5>2, <5>3
      <4> QED BY <4>1, <4>4
    <3>10. IsFiniteSet(I(U)) /\ SumOver(g, U) = SumOver(f, I(U)) BY <3>3, <3>9
    <3> QED BY <3>10
  <2> QED BY <2>1, <2>2
<1>2. I(S) = T BY DEF Renames
<1> HIDE DEF Q, I
<1>3. Q \in SUBSET (SUBSET S) BY DEF Q
<1>4. Q = SUBSET S BY <1>1, <1>3, SubsetInduction
<1>5. S \in Q BY <1>4
<1> QED BY <1>2, <1>5 DEF Q

(* Adding up groups, by whatever they are grouped, adds up everything. *)
Having(D, key, c) == {d \in D : key[d] = c}

LEMMA SumGrouped ==
  ASSUME NEW D, IsFiniteSet(D), NEW key, NEW C, \A d \in D : key[d] \in C, IsFiniteSet(C),
         NEW f, \A d \in D : f[d] \in Int,
         NEW g, \A c \in C : g[c] = SumOver(f, Having(D, key, c))
  PROVE  SumOver(g, C) = SumOver(f, D)
<1> DEFINE In(K) == {d \in D : key[d] \in K}
           Q == {K \in SUBSET C : SumOver(g, K) = SumOver(f, In(K))}
<1>0. \A c \in C : g[c] \in Int
  <2> SUFFICES ASSUME NEW c \in C PROVE SumOver(f, Having(D, key, c)) \in Int OBVIOUS
  <2> DEFINE E == Having(D, key, c)
  <2>1. IsFiniteSet(E) /\ \A d \in E : f[d] \in Int BY FS_Subset DEF Having
  <2> HIDE DEF E
  <2>2. SumOver(f, E) \in Int BY <2>1, SumInt
  <2> QED BY <2>2 DEF E
<1>1. \A K \in SUBSET C : (\A c \in K : K \ {c} \in Q) => K \in Q
  <2> SUFFICES ASSUME NEW K \in SUBSET C, \A c \in K : K \ {c} \in Q
               PROVE  SumOver(g, K) = SumOver(f, In(K))
    OBVIOUS
  <2>1. CASE K = {}
    <3>1. In(K) = {} BY <2>1
    <3> HIDE DEF In
    <3> QED BY <2>1, <3>1, SumEmpty
  <2>2. CASE K # {}
    <3>1. PICK c : c \in K BY <2>2
    <3> DEFINE L == K \ {c}
               E == Having(D, key, c)
    <3>2. SumOver(g, L) = SumOver(f, In(L)) BY <3>1
    <3>a. K = L \cup {c} BY <3>1
    <3>3. c \notin L /\ IsFiniteSet(L) BY <3>1, FS_Subset
    <3>4. In(K) = In(L) \cup E /\ In(L) \cap E = {} BY <3>1 DEF Having
    <3>5. IsFiniteSet(In(L)) /\ IsFiniteSet(E) BY FS_Subset DEF Having
    <3>6. \A d \in In(L) \cup E : f[d] \in Int
      <4>1. \A d \in In(L) \cup E : d \in D BY DEF Having
      <4> QED BY <4>1
    <3>7. g[c] = SumOver(f, E) BY <3>1
    <3>8. \A x \in L \cup {c} : g[x] \in Int
      <4>1. \A x \in L \cup {c} : x \in C BY <3>1
      <4> QED BY <1>0, <4>1
    <3> HIDE DEF In, L, E
    <3>9. SumOver(g, L \cup {c}) = SumOver(g, L) + g[c] BY <3>3, <3>8, SumAdd
    <3>10. SumOver(f, In(L) \cup E) = SumOver(f, In(L)) + SumOver(f, E)
      BY <3>4, <3>5, <3>6, SumUnion
    <3>b. SumOver(g, K) = SumOver(g, L \cup {c}) /\ SumOver(f, In(K)) = SumOver(f, In(L) \cup E)
      BY <3>a, <3>4
    <3> QED BY <3>2, <3>7, <3>9, <3>10, <3>b
  <2> QED BY <2>1, <2>2
<1>2. In(C) = D OBVIOUS
<1> HIDE DEF Q, In
<1>3. Q \in SUBSET (SUBSET C) BY DEF Q
<1>4. Q = SUBSET C BY <1>1, <1>3, SubsetInduction
<1>5. C \in Q BY <1>4
<1> QED BY <1>2, <1>5 DEF Q

(* The sum of differences is the difference of the sums. *)
LEMMA SumMinus ==
  ASSUME NEW S, IsFiniteSet(S), NEW f, NEW g, NEW h,
         \A x \in S : f[x] \in Int /\ g[x] \in Int /\ h[x] = f[x] - g[x]
  PROVE  SumOver(h, S) = SumOver(f, S) - SumOver(g, S)
<1> DEFINE Q == {U \in SUBSET S : SumOver(h, U) = SumOver(f, U) - SumOver(g, U)}
<1>1. \A U \in SUBSET S : (\A x \in U : U \ {x} \in Q) => U \in Q
  <2> SUFFICES ASSUME NEW U \in SUBSET S, \A x \in U : U \ {x} \in Q
               PROVE  SumOver(h, U) = SumOver(f, U) - SumOver(g, U)
    OBVIOUS
  <2>1. CASE U = {} BY <2>1, SumEmpty
  <2>2. CASE U # {}
    <3>1. PICK x : x \in U BY <2>2
    <3> DEFINE V == U \ {x}
    <3>2. SumOver(h, V) = SumOver(f, V) - SumOver(g, V) BY <3>1
    <3>d. U = V \cup {x} BY <3>1
    <3>3. x \notin V /\ IsFiniteSet(V) BY <3>1, FS_Subset
    <3>4. \A y \in V \cup {x} : f[y] \in Int /\ g[y] \in Int /\ h[y] \in Int BY <3>1
    <3>5. h[x] = f[x] - g[x] /\ f[x] \in Int /\ g[x] \in Int BY <3>1
    <3> HIDE DEF V
    <3>a. \A y \in V \cup {x} : f[y] \in Int BY <3>4
    <3>b. \A y \in V \cup {x} : g[y] \in Int BY <3>4
    <3>c. \A y \in V \cup {x} : h[y] \in Int BY <3>4
    <3>6. SumOver(f, V) \in Int /\ SumOver(g, V) \in Int BY <3>3, <3>a, <3>b, SumInt
    <3>7. SumOver(h, V \cup {x}) = SumOver(h, V) + h[x] BY <3>3, <3>c, SumAdd
    <3>8. SumOver(f, V \cup {x}) = SumOver(f, V) + f[x] BY <3>3, <3>a, SumAdd
    <3>9. SumOver(g, V \cup {x}) = SumOver(g, V) + g[x] BY <3>3, <3>b, SumAdd
    <3>10. SumOver(h, V \cup {x}) = SumOver(f, V \cup {x}) - SumOver(g, V \cup {x})
      BY <3>2, <3>5, <3>6, <3>7, <3>8, <3>9
    <3> QED BY <3>10, <3>d
  <2> QED BY <2>1, <2>2
<1> HIDE DEF Q
<1>2. Q \in SUBSET (SUBSET S) BY DEF Q
<1>3. Q = SUBSET S BY <1>1, <1>2, SubsetInduction
<1>4. S \in Q BY <1>3
<1> QED BY <1>4 DEF Q

=============================================================================
