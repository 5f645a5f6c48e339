----------------------------- MODULE SetTheorems -----------------------------
(***************************************************************************)
(* What the proofs of Statement and Migrations need of sets of numbers and *)
(* of rows: least and greatest elements, and sums of the amt of rows, over *)
(* a set (MapThenSumSet) and along a sequence (FoldLeft).                  *)
(*                                                                         *)
(* Both folds are recursive functions on the subsets of a finite set, and  *)
(* differ in the element they remove next.  IsSum is that recursion with   *)
(* the values and the choices as functions, so that its lemmas are first   *)
(* order; each is proved from a smallest subset on which it would fail.    *)
(***************************************************************************)
EXTENDS Integers, Sequences, FiniteSets, FiniteSetsExt, SequencesExt, FiniteSetTheorems, TLAPS

(***************************************************************************)
(* A set of subsets of a finite set has a smallest member.                 *)
(***************************************************************************)
LEMMA SmallestSubset ==
  ASSUME NEW S, IsFiniteSet(S), NEW T, T \subseteq SUBSET S, T # {}
  PROVE  \E s \in T : \A t \in T : t \subseteq s => t = s
<1>1. IsWellFoundedOn(StrictSubsetOrdering(S), SUBSET S)
  BY FS_StrictSubsetOrderingWellFounded, FS_FiniteSubsetsOfFinite
<1>2. PICK s \in T : \A t \in T : ~(<<t, s>> \in StrictSubsetOrdering(S))
  BY <1>1, WFMin
<1>3. \A t \in T : t \subseteq s => t = s
  BY <1>2 DEF StrictSubsetOrdering
<1> QED
  BY <1>3

(***************************************************************************)
(* A finite set of naturals has a greatest element.                        *)
(***************************************************************************)
LEMMA Greatest ==
  ASSUME NEW G, G \subseteq Nat, IsFiniteSet(G), G # {}
  PROVE  \E a \in G : \A b \in G : b <= a
<1> DEFINE Over(a) == {b \in G : b > a}
           T == {Over(a) : a \in G}
<1>1. IsWellFoundedOn(StrictSubsetOrdering(G), FiniteSubsetsOf(G))
  BY FS_StrictSubsetOrderingWellFounded
<1>2. T \subseteq FiniteSubsetsOf(G)
  BY FS_FiniteSubsetsOfFinite
<1>3. T # {}
  OBVIOUS
<1> HIDE DEF T
<1>4. PICK x \in T : \A y \in T : ~(<<y, x>> \in StrictSubsetOrdering(G))
  BY <1>1, <1>2, <1>3, WFMin
<1>5. PICK a \in G : x = Over(a)
  BY <1>4 DEF T
<1>6. ASSUME NEW b \in G, b > a PROVE FALSE
  <2>1. Over(b) \in T
    BY DEF T
  <2>2. a \in Nat /\ b \in Nat /\ \A c \in G : c \in Nat
    BY <1>5, <1>6
  <2>3. \A c \in G : c > b => c > a
    BY <1>6, <2>2
  <2>4. Over(b) \subseteq Over(a) /\ b \in Over(a) /\ b \notin Over(b)
    <3>1. b > a /\ ~(b > b)
      BY <1>6, <2>2
    <3> QED
      BY <1>6, <2>3, <3>1, Zenon
  <2>5. <<Over(b), Over(a)>> \in StrictSubsetOrdering(G)
    BY <2>4 DEF StrictSubsetOrdering
  <2> QED
    BY <1>4, <1>5, <2>1, <2>5
<1> QED
  BY <1>6

(***************************************************************************)
(* Max and Min are attained.                                               *)
(***************************************************************************)
LEMMA MaxOf ==
  ASSUME NEW S, S \subseteq Nat, S # {}, IsFiniteSet(S)
  PROVE  Max(S) \in S /\ \A a \in S : a <= Max(S)
<1>1. PICK x \in S : \A y \in S : y <= x
  BY Greatest
<1>2. x >= x /\ \A y \in S : x >= y
  BY <1>1
<1>3. Max(S) \in S /\ \A y \in S : Max(S) >= y
  BY <1>2 DEF Max
<1> QED
  BY <1>3

LEMMA MinOf ==
  ASSUME NEW S, S \subseteq Nat, S # {}
  PROVE  Min(S) \in S /\ \A a \in S : Min(S) <= a
<1> DEFINE Less == OpToRel(<, Nat)
<1>1. PICK x \in S : \A y \in S : ~(<<y, x>> \in Less)
  BY NatLessThanWellFounded, WFMin
<1>2. ASSUME NEW y \in S PROVE x <= y
  <2>1. x \in Nat /\ y \in Nat /\ ~(y < x)
    BY <1>1 DEF OpToRel
  <2> QED
    BY <2>1
<1> QED
  BY <1>2 DEF Min

(***************************************************************************)
(* The image of a finite set is finite.                                    *)
(***************************************************************************)
LEMMA FiniteImage ==
  ASSUME NEW S, IsFiniteSet(S), NEW f
  PROVE  IsFiniteSet({f[x] : x \in S})
<1> DEFINE T == {f[x] : x \in S}
           g == [x \in S |-> f[x]]
<1>1. g \in Surjection(S, T)
  BY DEF Surjection
<1> HIDE DEF g, T
<1>2. IsFiniteSet(T)
  BY <1>1, FS_Surjection
<1> QED
  BY <1>2 DEF T

-----------------------------------------------------------------------------
IsPick(pick, S) == \A s \in SUBSET S : s # {} => pick[s] \in s

IsSum(F, val, pick, S) ==
  F = [s \in SUBSET S |-> IF s = {} THEN 0 ELSE val[pick[s]] + F[s \ {pick[s]}]]

(***************************************************************************)
(* One step of the recursion.                                              *)
(***************************************************************************)
LEMMA SumOfNone ==
  ASSUME NEW S, NEW val, NEW pick, NEW F, IsSum(F, val, pick, S)
  PROVE  F[{}] = 0
<1>1. F = [s \in SUBSET S |-> IF s = {} THEN 0 ELSE val[pick[s]] + F[s \ {pick[s]}]]
  BY DEF IsSum
<1>2. {} \in SUBSET S
  OBVIOUS
<1> QED
  BY <1>1, <1>2

LEMMA SumStep ==
  ASSUME NEW S, NEW val, NEW pick, NEW F, IsPick(pick, S), IsSum(F, val, pick, S),
         NEW s \in SUBSET S, s # {}
  PROVE  pick[s] \in s /\ F[s] = val[pick[s]] + F[s \ {pick[s]}]
<1>1. F = [u \in SUBSET S |-> IF u = {} THEN 0 ELSE val[pick[u]] + F[u \ {pick[u]}]]
  BY DEF IsSum
<1>2. F[s] = val[pick[s]] + F[s \ {pick[s]}]
  BY <1>1
<1> QED
  BY <1>2 DEF IsPick

(***************************************************************************)
(* Sums of integers are integers.                                          *)
(***************************************************************************)
LEMMA SumType ==
  ASSUME NEW S, IsFiniteSet(S), NEW val, \A x \in S : val[x] \in Int, NEW pick, NEW F,
         IsPick(pick, S), IsSum(F, val, pick, S)
  PROVE  \A s \in SUBSET S : F[s] \in Int
<1> DEFINE T == {s \in SUBSET S : F[s] \notin Int}
<1>1. SUFFICES ASSUME T # {} PROVE FALSE
  OBVIOUS
<1>2. PICK s \in T : \A t \in T : t \subseteq s => t = s
  <2>1. T \subseteq SUBSET S
    OBVIOUS
  <2> HIDE DEF T
  <2> QED
    BY <1>1, <2>1, SmallestSubset
<1>3. s # {} /\ pick[s] \in s /\ F[s] = val[pick[s]] + F[s \ {pick[s]}]
  <2>1. s \in SUBSET S /\ F[s] \notin Int
    BY <1>2
  <2>2. s # {}
    BY <2>1, SumOfNone
  <2> QED
    BY <2>1, <2>2, SumStep
<1>4. s \ {pick[s]} \notin T
  BY <1>2, <1>3
<1>5. F[s \ {pick[s]}] \in Int /\ val[pick[s]] \in Int
  BY <1>2, <1>3, <1>4
<1> QED
  BY <1>2, <1>3, <1>5

(***************************************************************************)
(* The order does not matter: any element can be taken out first.          *)
(***************************************************************************)
LEMMA SumSplit ==
  ASSUME NEW S, IsFiniteSet(S), NEW val, \A x \in S : val[x] \in Int, NEW pick, NEW F,
         IsPick(pick, S), IsSum(F, val, pick, S)
  PROVE  \A s \in SUBSET S : \A x \in s : F[s] = val[x] + F[s \ {x}]
<1> DEFINE T == {s \in SUBSET S : \E x \in s : F[s] # val[x] + F[s \ {x}]}
<1>1. SUFFICES ASSUME T # {} PROVE FALSE
  OBVIOUS
<1>2. PICK s \in T : \A t \in T : t \subseteq s => t = s
  <2>1. T \subseteq SUBSET S
    OBVIOUS
  <2> HIDE DEF T
  <2> QED
    BY <1>1, <2>1, SmallestSubset
<1>3. PICK x \in s : F[s] # val[x] + F[s \ {x}]
  BY <1>2
<1> DEFINE c == pick[s]
<1>4. c \in s /\ F[s] = val[c] + F[s \ {c}]
  <2>1. s \in SUBSET S /\ s # {}
    BY <1>2, <1>3
  <2> HIDE DEF T
  <2>2. pick[s] \in s /\ F[s] = val[pick[s]] + F[s \ {pick[s]}]
    BY <2>1, SumStep
  <2> QED
    BY <2>2
<1>5. c # x
  BY <1>3, <1>4
<1>6. s \ {c} \notin T /\ s \ {x} \notin T /\ s \in SUBSET S
  BY <1>2, <1>3, <1>4
<1>7. F[s \ {c}] = val[x] + F[(s \ {c}) \ {x}]
  BY <1>3, <1>4, <1>5, <1>6
<1>8. F[s \ {x}] = val[c] + F[(s \ {x}) \ {c}]
  BY <1>3, <1>4, <1>5, <1>6
<1>9. (s \ {x}) \ {c} = (s \ {c}) \ {x} /\ (s \ {x}) \ {c} \in SUBSET S
  BY <1>6
<1> DEFINE R == F[(s \ {x}) \ {c}]
<1>10. R \in Int /\ val[c] \in Int /\ val[x] \in Int
  BY <1>3, <1>4, <1>6, <1>9, SumType
<1>11. F[s] = val[c] + (val[x] + R) /\ F[s \ {x}] = val[c] + R
  BY <1>4, <1>7, <1>8, <1>9
<1> HIDE DEF R, c, T
<1> QED
  BY <1>3, <1>10, <1>11

(***************************************************************************)
(* A sum depends on the values of its elements only.                       *)
(***************************************************************************)
LEMMA SumsAgree ==
  ASSUME NEW S, IsFiniteSet(S), NEW val, \A x \in S : val[x] \in Int, NEW pick, NEW F,
         IsPick(pick, S), IsSum(F, val, pick, S),
         NEW U, IsFiniteSet(U), NEW wal, \A x \in U : wal[x] \in Int, NEW qick, NEW G,
         IsPick(qick, U), IsSum(G, wal, qick, U),
         \A x \in S \cap U : val[x] = wal[x]
  PROVE  \A s \in SUBSET (S \cap U) : F[s] = G[s]
<1> DEFINE T == {s \in SUBSET (S \cap U) : F[s] # G[s]}
<1>1. SUFFICES ASSUME T # {} PROVE FALSE
  OBVIOUS
<1>2. PICK s \in T : \A t \in T : t \subseteq s => t = s
  <2>1. T \subseteq SUBSET S
    OBVIOUS
  <2> HIDE DEF T
  <2> QED
    BY <1>1, <2>1, SmallestSubset
<1>3. F[{}] = 0 /\ G[{}] = 0
  BY SumOfNone
<1>4. PICK x : x \in s
  BY <1>2, <1>3
<1>5. s \in SUBSET S /\ s \in SUBSET U /\ s \ {x} \notin T
  BY <1>2, <1>4
<1>6. F[s] = val[x] + F[s \ {x}]
  BY <1>4, <1>5, SumSplit
<1>7. G[s] = wal[x] + G[s \ {x}]
  BY <1>4, <1>5, SumSplit
<1>8. F[s \ {x}] = G[s \ {x}] /\ val[x] = wal[x]
  BY <1>2, <1>4, <1>5
<1> QED
  BY <1>2, <1>6, <1>7, <1>8
(***************************************************************************)
(* The recursion has a solution.                                           *)
(***************************************************************************)
LEMMA SumExists ==
  ASSUME NEW S, IsFiniteSet(S), NEW val, \A x \in S : val[x] \in Int, NEW pick, IsPick(pick, S)
  PROVE  \E F : IsSum(F, val, pick, S)
<1> DEFINE T == {U \in SUBSET S : ~\E F : IsSum(F, val, pick, U)}
<1>1. SUFFICES ASSUME T # {} PROVE FALSE
  OBVIOUS
<1>2. PICK U \in T : \A t \in T : t \subseteq U => t = U
  <2>1. T \subseteq SUBSET S
    OBVIOUS
  <2> HIDE DEF T
  <2> QED
    BY <1>1, <2>1, SmallestSubset
<1>3. U \in SUBSET S /\ ~\E F : IsSum(F, val, pick, U)
  BY <1>2
<1> DEFINE G(V) == CHOOSE F : IsSum(F, val, pick, V)
           Less(s) == s \ {pick[s]}
           H == [s \in SUBSET U |-> IF s = {} THEN 0 ELSE val[pick[s]] + G(Less(s))[Less(s)]]
<1>4. ASSUME NEW V \in SUBSET U, V # U PROVE IsSum(G(V), val, pick, V)
  <2>1. V \notin T /\ V \in SUBSET S
    BY <1>2, <1>4
  <2>2. \E F : IsSum(F, val, pick, V)
    BY <2>1
  <2> QED
    BY <2>2
<1>5. ASSUME NEW V \in SUBSET U, V # U, NEW W \in SUBSET V PROVE G(V)[W] = G(W)[W]
  <2>1. IsFiniteSet(V) /\ IsFiniteSet(W) /\ V \in SUBSET S /\ W \in SUBSET S /\ W \in SUBSET U /\ W # U
    BY <1>3, <1>5, FS_Subset
  <2>2. IsSum(G(V), val, pick, V) /\ IsSum(G(W), val, pick, W)
    BY <1>4, <1>5, <2>1
  <2> HIDE DEF G
  <2>3. IsPick(pick, V) /\ IsPick(pick, W) /\ V \cap W = W
    BY <2>1, <1>5 DEF IsPick
  <2>4. (\A x \in V : val[x] \in Int) /\ (\A x \in W : val[x] \in Int)
    BY <2>1
  <2>5. \A s \in SUBSET (V \cap W) : G(V)[s] = G(W)[s]
    BY <2>1, <2>2, <2>3, <2>4, SumsAgree
  <2> QED
    BY <2>3, <2>5
<1>6. ASSUME NEW s \in SUBSET U, s # {} PROVE H[Less(s)] = G(Less(s))[Less(s)]
  <2>1. Less(s) \in SUBSET U /\ Less(s) # U /\ U \in SUBSET S
    BY <1>3, <1>6 DEF IsPick
  <2>2. IsSum(G(Less(s)), val, pick, Less(s)) /\ IsPick(pick, Less(s))
    BY <1>4, <2>1 DEF IsPick
  <2>3. CASE Less(s) = {}
    <3>1. G(Less(s))[{}] = 0
      BY <2>2, SumOfNone
    <3> QED
      BY <2>1, <2>3, <3>1
  <2>4. CASE Less(s) # {}
    <3> DEFINE W == Less(s)
    <3>1. Less(W) \in SUBSET W
      OBVIOUS
    <3>2. G(W)[W] = val[pick[W]] + G(W)[Less(W)]
      <4> HIDE DEF G
      <4>1. W \in SUBSET W /\ W # {} /\ IsSum(G(W), val, pick, W) /\ IsPick(pick, W)
        BY <2>2, <2>4
      <4> HIDE DEF W, G, H, T, Less
      <4>2. pick[W] \in W /\ G(W)[W] = val[pick[W]] + G(W)[W \ {pick[W]}]
        BY <4>1, SumStep
      <4> QED
        BY <4>2 DEF Less
    <3>3. G(W)[Less(W)] = G(Less(W))[Less(W)]
      BY <1>5, <2>1, <3>1
    <3>4. H[W] = val[pick[W]] + G(Less(W))[Less(W)]
      BY <2>1, <2>4
    <3> QED
      BY <3>2, <3>3, <3>4
  <2> QED
    BY <2>3, <2>4
<1>7. ASSUME NEW s \in SUBSET U
      PROVE  H[s] = IF s = {} THEN 0 ELSE val[pick[s]] + H[Less(s)]
  <2>1. H[s] = IF s = {} THEN 0 ELSE val[pick[s]] + G(Less(s))[Less(s)]
    OBVIOUS
  <2>2. s # {} => H[Less(s)] = G(Less(s))[Less(s)]
    BY <1>6
  <2> HIDE DEF H, G, Less
  <2> QED
    BY <2>1, <2>2
<1>8. H = [s \in SUBSET U |-> H[s]]
  OBVIOUS
<1> HIDE DEF H
<1>9. H = [s \in SUBSET U |-> IF s = {} THEN 0 ELSE val[pick[s]] + H[Less(s)]]
  BY <1>7, <1>8
<1>10. IsSum(H, val, pick, U)
  BY <1>9 DEF IsSum
<1> QED
  BY <1>3, <1>10
-----------------------------------------------------------------------------
AmtSum(S) == MapThenSumSet(LAMBDA r : r.amt, S)
AmtOf(S) == [r \in S |-> r.amt]
AnyOf(S) == [s \in SUBSET S |-> CHOOSE x \in s : TRUE]

(***************************************************************************)
(* MapThenSumSet is such a sum.                                            *)
(***************************************************************************)
LEMMA AmtSumIsSum ==
  ASSUME NEW S, IsFiniteSet(S), \A r \in S : r.amt \in Int
  PROVE  \E F : IsSum(F, AmtOf(S), AnyOf(S), S) /\ AmtSum(S) = F[S]
<1> DEFINE Eq(F) == F = [s \in SUBSET S |->
                          IF s = {} THEN 0
                          ELSE (CHOOSE x \in s : TRUE).amt + F[s \ {CHOOSE x \in s : TRUE}]]
           It == CHOOSE F : Eq(F)
<1>1. AmtSum(S) = It[S]
  BY DEF AmtSum, MapThenSumSet, MapThenFoldSet
<1>2. ASSUME NEW s \in SUBSET S, s # {}
      PROVE  (CHOOSE x \in s : TRUE) = AnyOf(S)[s] /\ AnyOf(S)[s] \in s
             /\ (CHOOSE x \in s : TRUE).amt = AmtOf(S)[AnyOf(S)[s]]
  <2>1. (CHOOSE x \in s : TRUE) \in s
    BY <1>2
  <2>2. AnyOf(S)[s] = CHOOSE x \in s : TRUE
    BY DEF AnyOf
  <2> QED
    BY <2>1, <2>2 DEF AmtOf
<1>3. ASSUME NEW F PROVE Eq(F) <=> IsSum(F, AmtOf(S), AnyOf(S), S)
  <2> DEFINE L(s) == IF s = {} THEN 0
                     ELSE (CHOOSE x \in s : TRUE).amt + F[s \ {CHOOSE x \in s : TRUE}]
             R(s) == IF s = {} THEN 0 ELSE AmtOf(S)[AnyOf(S)[s]] + F[s \ {AnyOf(S)[s]}]
  <2>1. ASSUME NEW s \in SUBSET S PROVE L(s) = R(s)
    <3>1. CASE s = {}
      BY <3>1
    <3>2. CASE s # {}
      <4>1. L(s) = (CHOOSE x \in s : TRUE).amt + F[s \ {CHOOSE x \in s : TRUE}]
        BY <3>2
      <4>2. R(s) = AmtOf(S)[AnyOf(S)[s]] + F[s \ {AnyOf(S)[s]}]
        BY <3>2
      <4> HIDE DEF L, R
      <4> QED
        BY <1>2, <3>2, <4>1, <4>2
    <3> QED
      BY <3>1, <3>2
  <2>2. Eq(F) <=> F = [s \in SUBSET S |-> L(s)]
    OBVIOUS
  <2>3. IsSum(F, AmtOf(S), AnyOf(S), S) <=> F = [s \in SUBSET S |-> R(s)]
    BY DEF IsSum
  <2> HIDE DEF L, R, Eq
  <2> QED
    BY <2>1, <2>2, <2>3
<1>4. IsPick(AnyOf(S), S) /\ \A r \in S : AmtOf(S)[r] \in Int
  BY <1>2 DEF IsPick, AmtOf
<1>5. \E F : Eq(F)
  <2>1. \E F : IsSum(F, AmtOf(S), AnyOf(S), S)
    BY <1>4, SumExists
  <2> HIDE DEF Eq
  <2> QED
    BY <1>3, <2>1
<1>6. Eq(It)
  <2> HIDE DEF Eq
  <2> QED
    BY <1>5
<1>7. IsSum(It, AmtOf(S), AnyOf(S), S)
  BY <1>3, <1>6
<1> HIDE DEF It
<1> QED
  BY <1>1, <1>7

LEMMA AnyPicks == ASSUME NEW S PROVE IsPick(AnyOf(S), S)
<1>1. ASSUME NEW s \in SUBSET S, s # {} PROVE AnyOf(S)[s] \in s
  <2>1. (CHOOSE x \in s : TRUE) \in s
    BY <1>1
  <2> QED
    BY <2>1 DEF AnyOf
<1> QED
  BY <1>1 DEF IsPick

(***************************************************************************)
(* What the proofs use of it: the empty sum, its type, one row more, and   *)
(* rows that change in everything but their amounts.                       *)
(***************************************************************************)
LEMMA AmtSumOfNone == AmtSum({}) = 0
<1>1. IsFiniteSet({}) /\ \A r \in {} : r.amt \in Int
  BY FS_EmptySet
<1>2. PICK F : IsSum(F, AmtOf({}), AnyOf({}), {}) /\ AmtSum({}) = F[{}]
  BY <1>1, AmtSumIsSum
<1> QED
  BY <1>2, SumOfNone

LEMMA AmtSumType ==
  ASSUME NEW S, IsFiniteSet(S), \A r \in S : r.amt \in Int
  PROVE  AmtSum(S) \in Int
<1>1. PICK F : IsSum(F, AmtOf(S), AnyOf(S), S) /\ AmtSum(S) = F[S]
  BY AmtSumIsSum
<1>2. IsPick(AnyOf(S), S) /\ \A r \in S : AmtOf(S)[r] \in Int
  BY AnyPicks DEF AmtOf
<1>3. \A s \in SUBSET S : F[s] \in Int
  BY <1>1, <1>2, SumType
<1> QED
  BY <1>1, <1>3

LEMMA AmtSumAdd ==
  ASSUME NEW S, IsFiniteSet(S), \A r \in S : r.amt \in Int,
         NEW x, x \notin S, x.amt \in Int
  PROVE  AmtSum(S \cup {x}) = AmtSum(S) + x.amt
<1> DEFINE U == S \cup {x}
<1>1. IsFiniteSet(U) /\ \A r \in U : r.amt \in Int
  BY FS_AddElement
<1> HIDE DEF U
<1>2. PICK F : IsSum(F, AmtOf(S), AnyOf(S), S) /\ AmtSum(S) = F[S]
  BY AmtSumIsSum
<1>3. PICK G : IsSum(G, AmtOf(U), AnyOf(U), U) /\ AmtSum(U) = G[U]
  BY <1>1, AmtSumIsSum
<1>4. /\ IsPick(AnyOf(S), S) /\ \A r \in S : AmtOf(S)[r] \in Int
      /\ IsPick(AnyOf(U), U) /\ \A r \in U : AmtOf(U)[r] \in Int
  BY <1>1, AnyPicks DEF AmtOf
<1>5. S \cap U = S /\ (\A r \in S \cap U : AmtOf(S)[r] = AmtOf(U)[r]) /\ AmtOf(U)[x] = x.amt
      /\ x \in U /\ U \ {x} = S
  BY DEF AmtOf, U
<1>6. \A s \in SUBSET (S \cap U) : F[s] = G[s]
  BY <1>1, <1>2, <1>3, <1>4, <1>5, SumsAgree
<1>7. G[U] = AmtOf(U)[x] + G[U \ {x}]
  <2>1. IsFiniteSet(U) /\ IsPick(AnyOf(U), U) /\ IsSum(G, AmtOf(U), AnyOf(U), U)
    BY <1>1, <1>3, <1>4
  <2>2. \A r \in U : AmtOf(U)[r] \in Int
    BY <1>4
  <2>3. U \in SUBSET U /\ x \in U
    BY <1>5
  <2> QED
    BY <2>1, <2>2, <2>3, SumSplit
<1>8. G[U] = x.amt + G[S]
  BY <1>5, <1>7
<1>9. F[S] = G[S] /\ AmtSum(S) \in Int
  BY <1>5, <1>6, AmtSumType
<1>10. AmtSum(U) = x.amt + AmtSum(S)
  BY <1>2, <1>3, <1>8, <1>9
<1>11. AmtSum(U) = AmtSum(S) + x.amt
  BY <1>9, <1>10
<1> QED
  BY <1>11 DEF U

LEMMA AmtSumRenamed ==
  ASSUME NEW S, IsFiniteSet(S), \A r \in S : r.amt \in Int,
         NEW f, \A r \in S : f[r].amt = r.amt,
         \A r, s \in S : f[r] = f[s] => r = s
  PROVE  AmtSum({f[r] : r \in S}) = AmtSum(S)
<1> DEFINE Im(s) == {f[r] : r \in s}
           T == {s \in SUBSET S : ~(IsFiniteSet(Im(s)) /\ AmtSum(Im(s)) = AmtSum(s))}
<1>1. SUFFICES ASSUME T # {} PROVE FALSE
  OBVIOUS
<1>2. PICK s \in T : \A t \in T : t \subseteq s => t = s
  <2>1. T \subseteq SUBSET S
    OBVIOUS
  <2> HIDE DEF T
  <2> QED
    BY <1>1, <2>1, SmallestSubset
<1>3. Im({}) = {}
  OBVIOUS
<1>4. s \in SUBSET S /\ ~(IsFiniteSet(Im(s)) /\ AmtSum(Im(s)) = AmtSum(s))
  BY <1>2
<1>5. s # {}
  <2> HIDE DEF Im
  <2> QED
    BY <1>3, <1>4, FS_EmptySet
<1>6. PICK x : x \in s
  BY <1>5
<1> DEFINE u == s \ {x}
<1>7. u \in SUBSET S /\ u \notin T /\ u \subseteq s /\ x \notin u
  BY <1>2, <1>4, <1>6
<1>8. IsFiniteSet(Im(u)) /\ AmtSum(Im(u)) = AmtSum(u)
  BY <1>7
<1>9. IsFiniteSet(u) /\ s = u \cup {x}
  BY <1>6, <1>7, FS_Subset
<1>10. Im(s) = Im(u) \cup {f[x]} /\ f[x] \notin Im(u)
  BY <1>4, <1>6
<1>11. /\ \A r \in u : r.amt \in Int
       /\ \A r \in Im(u) : r.amt \in Int
       /\ x.amt \in Int /\ f[x].amt = x.amt
  BY <1>4, <1>6, <1>7
<1> HIDE DEF Im, T, u
<1>12. AmtSum(s) = AmtSum(u) + x.amt
  BY <1>7, <1>9, <1>11, AmtSumAdd
<1>13. AmtSum(Im(u) \cup {f[x]}) = AmtSum(Im(u)) + f[x].amt
  BY <1>8, <1>10, <1>11, AmtSumAdd
<1>14. IsFiniteSet(Im(s))
  BY <1>8, <1>10, FS_AddElement
<1> QED
  BY <1>4, <1>8, <1>10, <1>11, <1>12, <1>13, <1>14
-----------------------------------------------------------------------------
AmtFold(s) == FoldLeft(LAMBDA x, r : x + r.amt, 0, s)
AmtAt(s) == [i \in DOMAIN s |-> s[i].amt]
MaxOfEach(S) == [s \in SUBSET S |-> Max(s)]

LEMMA MaxPicks == ASSUME NEW n \in Nat PROVE IsPick(MaxOfEach(1..n), 1..n)
<1>1. ASSUME NEW s \in SUBSET (1..n), s # {} PROVE MaxOfEach(1..n)[s] \in s
  <2>1. IsFiniteSet(s) /\ s \subseteq Nat
    <3>1. 1 \in Int /\ n \in Int
      OBVIOUS
    <3>2. IsFiniteSet(1..n)
      BY <3>1, FS_Interval
    <3>3. IsFiniteSet(s)
      BY <3>2, FS_Subset
    <3> QED
      BY <3>3
  <2>2. Max(s) \in s
    BY <1>1, <2>1, MaxOf
  <2> QED
    BY <2>2 DEF MaxOfEach
<1> QED
  BY <1>1 DEF IsPick

(***************************************************************************)
(* FoldLeft from 0 by the amounts is such a sum over the positions.        *)
(***************************************************************************)
LEMMA AmtFoldIsSum ==
  ASSUME NEW s, NEW n \in Nat, DOMAIN s = 1..n, \A i \in 1..n : s[i].amt \in Int
  PROVE  \E F : IsSum(F, AmtAt(s), MaxOfEach(1..n), 1..n) /\ AmtFold(s) = F[1..n]
<1>0. IsFiniteSet(1..n)
  <2>1. 1 \in Int /\ n \in Int
    OBVIOUS
  <2> QED
    BY <2>1, FS_Interval
<1> DEFINE D == 1..n
           L(F, u) == IF u = {} THEN 0 ELSE F[u \ {Max(u)}] + s[Max(u)].amt
           Eq(F) == F = [u \in SUBSET D |-> L(F, u)]
           It == CHOOSE F : Eq(F)
<1>1. AmtFold(s) = It[D]
  BY DEF AmtFold, FoldLeft, MapThenFoldSet
<1>2. IsFiniteSet(D) /\ IsPick(MaxOfEach(D), D)
  BY <1>0, MaxPicks
<1>3. \A i \in D : AmtAt(s)[i] = s[i].amt /\ AmtAt(s)[i] \in Int
  BY DEF AmtAt
<1>4. PICK F : IsSum(F, AmtAt(s), MaxOfEach(D), D)
  BY <1>2, <1>3, SumExists
<1>5. ASSUME NEW u \in SUBSET D, u # {}
      PROVE  MaxOfEach(D)[u] = Max(u) /\ Max(u) \in u
  BY <1>2, <1>5 DEF IsPick, MaxOfEach
<1>6. ASSUME NEW u \in SUBSET D PROVE F[u] = L(F, u)
  <2>1. CASE u = {}
    BY <1>4, <2>1, SumOfNone
  <2>2. CASE u # {}
    <3>1. F[u] = AmtAt(s)[Max(u)] + F[u \ {Max(u)}]
      <4>1. MaxOfEach(D)[u] \in u /\ F[u] = AmtAt(s)[MaxOfEach(D)[u]] + F[u \ {MaxOfEach(D)[u]}]
        <5> HIDE DEF D, L, Eq, It
        <5>1. F = [w \in SUBSET D |-> IF w = {} THEN 0
                                      ELSE AmtAt(s)[MaxOfEach(D)[w]] + F[w \ {MaxOfEach(D)[w]}]]
          BY <1>4 DEF IsSum
        <5> QED
          BY <1>2, <2>2, <5>1 DEF IsPick
      <4> QED
        BY <1>5, <2>2, <4>1
    <3>2. Max(u) \in D /\ u \ {Max(u)} \in SUBSET D
      BY <1>5, <2>2
    <3>3. F[u \ {Max(u)}] \in Int
      BY <1>2, <1>3, <1>4, <3>2, SumType
    <3>4. F[u] = F[u \ {Max(u)}] + s[Max(u)].amt
      BY <1>3, <3>1, <3>2, <3>3
    <3> QED
      BY <2>2, <3>4
  <2> QED
    BY <2>1, <2>2
<1>7. F = [u \in SUBSET D |-> F[u]]
  BY <1>4 DEF IsSum
<1>8. Eq(F)
  <2> HIDE DEF L
  <2> QED
    BY <1>6, <1>7
<1>9. Eq(It)
  <2> HIDE DEF Eq
  <2> QED
    BY <1>8
<1>10. \A u \in SUBSET D : It[u] = L(It, u)
  <2> HIDE DEF It, L
  <2> QED
    BY <1>9
<1>11. \A u \in SUBSET D : It[u] = F[u]
  <2> DEFINE T == {u \in SUBSET D : It[u] # F[u]}
  <2> HIDE DEF It
  <2>1. SUFFICES ASSUME T # {} PROVE FALSE
    OBVIOUS
  <2>2. PICK u \in T : \A t \in T : t \subseteq u => t = u
    <3>1. T \subseteq SUBSET D
      OBVIOUS
    <3> HIDE DEF T, D
    <3> QED
      BY <1>2, <2>1, <3>1, SmallestSubset
  <2>3. u \in SUBSET D /\ It[u] # F[u]
    BY <2>2
  <2>4. u # {}
    BY <1>6, <1>10, <2>3
  <2>5. u \ {Max(u)} \notin T /\ u \ {Max(u)} \in SUBSET D
    BY <1>5, <2>2, <2>3, <2>4
  <2>6. It[u \ {Max(u)}] = F[u \ {Max(u)}]
    BY <2>5
  <2> QED
    BY <1>6, <1>10, <2>3, <2>4, <2>6
<1> HIDE DEF It
<1> QED
  BY <1>1, <1>4, <1>11

(***************************************************************************)
(* What the proofs use of it: no row, its type, and one row more.          *)
(***************************************************************************)
LEMMA AmtFoldNone == ASSUME NEW s, DOMAIN s = 1..0 PROVE AmtFold(s) = 0
<1>1. PICK F : IsSum(F, AmtAt(s), MaxOfEach(1..0), 1..0) /\ AmtFold(s) = F[1..0]
  BY AmtFoldIsSum
<1>2. 1..0 = {}
  OBVIOUS
<1> QED
  BY <1>1, <1>2, SumOfNone

LEMMA AmtFoldType ==
  ASSUME NEW s, NEW n \in Nat, DOMAIN s = 1..n, \A i \in 1..n : s[i].amt \in Int
  PROVE  AmtFold(s) \in Int
<1>1. PICK F : IsSum(F, AmtAt(s), MaxOfEach(1..n), 1..n) /\ AmtFold(s) = F[1..n]
  BY AmtFoldIsSum
<1>2. IsFiniteSet(1..n)
  <2>1. 1 \in Int /\ n \in Int
    OBVIOUS
  <2> QED
    BY <2>1, FS_Interval
<1>3. IsPick(MaxOfEach(1..n), 1..n) /\ \A i \in 1..n : AmtAt(s)[i] \in Int
  BY MaxPicks DEF AmtAt
<1>4. 1..n \in SUBSET (1..n)
  OBVIOUS
<1> QED
  BY <1>1, <1>2, <1>3, <1>4, SumType

LEMMA AmtFoldNext ==
  ASSUME NEW n \in Nat, NEW s, DOMAIN s = 1..n, NEW t, DOMAIN t = 1..(n + 1),
         \A i \in 1..(n + 1) : t[i].amt \in Int,
         \A i \in 1..n : s[i] = t[i]
  PROVE  AmtFold(t) = AmtFold(s) + t[n + 1].amt
<1> DEFINE C == 1..n
           D == 1..(n + 1)
<1>1. C \cap D = C /\ D \ {n + 1} = C /\ n + 1 \in D /\ n + 1 \in Nat
  OBVIOUS
<1>2. \A i \in C : s[i].amt \in Int
  OBVIOUS
<1>3. PICK F : IsSum(F, AmtAt(s), MaxOfEach(C), C) /\ AmtFold(s) = F[C]
  BY <1>2, AmtFoldIsSum
<1>4. PICK G : IsSum(G, AmtAt(t), MaxOfEach(D), D) /\ AmtFold(t) = G[D]
  BY <1>1, AmtFoldIsSum
<1>5. IsFiniteSet(C) /\ IsPick(MaxOfEach(C), C) /\ IsFiniteSet(D) /\ IsPick(MaxOfEach(D), D)
  BY <1>1, FS_Interval, MaxPicks
<1>6. /\ \A i \in C : AmtAt(s)[i] \in Int
      /\ \A i \in D : AmtAt(t)[i] \in Int /\ AmtAt(t)[i] = t[i].amt
      /\ \A i \in C \cap D : AmtAt(s)[i] = AmtAt(t)[i]
  BY <1>2 DEF AmtAt
<1> HIDE DEF C, D
<1>7. \A u \in SUBSET (C \cap D) : F[u] = G[u]
  <2>1. (\A i \in C : AmtAt(s)[i] \in Int) /\ (\A i \in D : AmtAt(t)[i] \in Int)
    BY <1>6
  <2>2. \A i \in C \cap D : AmtAt(s)[i] = AmtAt(t)[i]
    BY <1>6
  <2> QED
    BY <1>3, <1>4, <1>5, <2>1, <2>2, SumsAgree
<1>8. G[D] = AmtAt(t)[n + 1] + G[D \ {n + 1}]
  <2>1. D \in SUBSET D /\ n + 1 \in D
    BY <1>1
  <2>2. \A i \in D : AmtAt(t)[i] \in Int
    BY <1>6
  <2> QED
    BY <1>4, <1>5, <2>1, <2>2, SumSplit
<1>9. F[C] = G[C] /\ F[C] \in Int
  BY <1>1, <1>3, <1>5, <1>6, <1>7, SumType
<1>10. AmtFold(t) = t[n + 1].amt + AmtFold(s) /\ AmtFold(s) \in Int /\ t[n + 1].amt \in Int
  BY <1>1, <1>3, <1>4, <1>6, <1>8, <1>9
<1> QED
  BY <1>10
=============================================================================
