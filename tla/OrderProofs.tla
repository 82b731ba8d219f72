----------------------------- MODULE OrderProofs -----------------------------
(***************************************************************************)
(* What the operators of Order return, for every finite set of numbers.    *)
(* Induction is by the least counterexample (LeastExists).                 *)
(***************************************************************************)
EXTENDS Order, Sequences, TLAPS, FiniteSetTheorems, WellFoundedInduction

\* Every set of natural numbers that is not empty has a least one.
LEMMA LeastExists ==
  ASSUME NEW T, T \subseteq Nat, T # {}
  PROVE  \E x \in T : \A y \in T : x <= y
<1> DEFINE R == {ss \in Nat \X Nat : ss[1] < ss[2]}
<1>1. IsWellFoundedOn(R, Nat)
  BY NatLessThanWellFounded DEF OpToRel
<1>2. PICK x \in T : \A y \in T : <<y, x>> \notin R
  <2> HIDE DEF R
  <2> QED BY <1>1, WFMin
<1>3. ASSUME NEW y \in T PROVE x <= y
  <2>1. <<y, x>> \in Nat \X Nat
    OBVIOUS
  <2>2. ~(y < x)
    BY <1>2, <2>1
  <2> QED BY <2>2
<1> QED BY <1>3

LEMMA LowerFinite ==
  ASSUME NEW S, IsFiniteSet(S), NEW n \in S, n \in Nat
  PROVE  /\ IsFiniteSet(Lower(S, n)) /\ Cardinality(Lower(S, n)) \in Nat
         /\ Cardinality(Lower(S, n)) < Cardinality(S) /\ Cardinality(S) \in Nat
<1>1. Lower(S, n) \subseteq S /\ n \notin Lower(S, n)
  BY DEF Lower
<1>2. IsFiniteSet(Lower(S, n)) /\ Cardinality(Lower(S, n)) <= Cardinality(S)
      /\ Cardinality(Lower(S, n)) # Cardinality(S)
  BY <1>1, FS_Subset
<1>3. Cardinality(Lower(S, n)) \in Nat /\ Cardinality(S) \in Nat
  BY <1>2, FS_CardinalityType
<1> QED BY <1>2, <1>3

\* A lower number has a lower rank.
LEMMA LowerRank ==
  ASSUME NEW S, \A x \in S : x \in Nat, IsFiniteSet(S), NEW m \in S, NEW n \in S, m < n
  PROVE  Cardinality(Lower(S, m)) < Cardinality(Lower(S, n))
<1> DEFINE L == Lower(S, n)
<1>1. m \in Nat /\ n \in Nat
  OBVIOUS
<1>2. \A x \in S : x < m => x < n
  BY <1>1
<1>3. Lower(S, m) = Lower(L, m) /\ m \in L
  BY <1>2 DEF Lower
<1>4. IsFiniteSet(L)
  BY <1>1, LowerFinite
<1>5. Cardinality(Lower(L, m)) < Cardinality(L)
  <2> HIDE DEF L
  <2> QED BY <1>1, <1>3, <1>4, LowerFinite
<1> QED BY <1>3, <1>5

\* There is a number of every rank.
LEMMA NthExists ==
  ASSUME NEW S, \A x \in S : x \in Nat, IsFiniteSet(S), NEW k \in Nat, k < Cardinality(S)
  PROVE  Nth(S, k) # {}
<1> DEFINE Missing == {j \in Nat : j < Cardinality(S) /\ Nth(S, j) = {}}
<1> SUFFICES Missing = {}
  OBVIOUS
<1> SUFFICES ASSUME Missing # {} PROVE FALSE
  OBVIOUS
<1>1. PICK j \in Missing : \A i \in Missing : j <= i
  <2>1. Missing \subseteq Nat
    OBVIOUS
  <2> HIDE DEF Missing
  <2> QED BY <2>1, LeastExists
<1>2. Cardinality(S) \in Nat /\ S \subseteq Nat
  BY FS_CardinalityType
<1>3. CASE j = 0
  <2>1. S # {}
    BY <1>1, <1>3, FS_EmptySet
  <2>2. PICK n \in S : \A m \in S : n <= m
    BY <1>2, <2>1, LeastExists
  <2>3. \A m \in S : ~(m < n)
    BY <1>2, <2>2
  <2>4. Lower(S, n) = {}
    BY <2>3 DEF Lower
  <2>5. n \in Nth(S, 0)
    BY <2>4, FS_EmptySet DEF Nth
  <2> QED BY <1>1, <1>3, <2>5
<1>4. CASE j # 0
  <2>1. j \in Nat /\ j - 1 \in Nat /\ j - 1 < Cardinality(S) /\ ~(j <= j - 1)
    BY <1>1, <1>2, <1>4
  <2>2. Nth(S, j - 1) # {}
    BY <1>1, <2>1
  <2>3. PICK n \in S : Cardinality(Lower(S, n)) = j - 1
    BY <2>2 DEF Nth
  <2> DEFINE Higher == {m \in S : n < m}
  <2>a. n \in Nat
    OBVIOUS
  <2>4. IsFiniteSet(Lower(S, n) \union {n}) /\ Cardinality(Lower(S, n) \union {n}) = j
    <3>1. n \notin Lower(S, n)
      BY <2>a DEF Lower
    <3>2. IsFiniteSet(Lower(S, n))
      BY <2>a, LowerFinite
    <3>3. Cardinality(Lower(S, n) \union {n}) = (j - 1) + 1
      BY <2>3, <3>1, <3>2, FS_AddElement
    <3> QED BY <2>1, <3>2, <3>3, FS_AddElement
  <2>5. Higher # {}
    <3>1. ASSUME Higher = {} PROVE FALSE
      <4>1. \A x \in S : x < n \/ x = n
        BY <2>a, <3>1
      <4>2. S = Lower(S, n) \union {n}
        BY <4>1 DEF Lower
      <4> QED BY <1>1, <2>4, <4>2
    <3> QED BY <3>1
  <2>6. PICK m \in Higher : \A x \in Higher : m <= x
    <3>1. Higher \subseteq Nat
      BY <1>2
    <3> HIDE DEF Higher
    <3> QED BY <2>5, <3>1, LeastExists
  <2>7. m \in S /\ m \in Nat /\ n < m
    BY <2>6
  <2>8. \A x \in S : x < m <=> (x < n \/ x = n)
    BY <2>a, <2>6, <2>7
  <2>9. Lower(S, m) = Lower(S, n) \union {n}
    BY <2>8 DEF Lower
  <2>10. m \in Nth(S, j)
    BY <2>4, <2>7, <2>9 DEF Nth
  <2> QED BY <1>1, <2>10
<1> QED BY <1>3, <1>4

\* And one only.
LEMMA NthUnique ==
  ASSUME NEW S, \A x \in S : x \in Nat, IsFiniteSet(S),
         NEW k, NEW m \in Nth(S, k), NEW n \in Nth(S, k)
  PROVE  m = n
<1>1. /\ m \in S /\ n \in S /\ m \in Nat /\ n \in Nat
      /\ Cardinality(Lower(S, m)) = Cardinality(Lower(S, n))
  BY DEF Nth
<1>2. Cardinality(Lower(S, m)) \in Nat
  BY <1>1, LowerFinite
<1>3. ASSUME m < n PROVE FALSE
  <2>1. Cardinality(Lower(S, m)) < Cardinality(Lower(S, n))
    BY <1>1, <1>3, LowerRank
  <2> QED BY <1>1, <1>2, <2>1
<1>4. ASSUME n < m PROVE FALSE
  <2>1. Cardinality(Lower(S, n)) < Cardinality(Lower(S, m))
    BY <1>1, <1>4, LowerRank
  <2> QED BY <1>1, <1>2, <2>1
<1> QED BY <1>1, <1>3, <1>4

(***************************************************************************)
(* InOrder lists a set, every element once, the lowest first.              *)
(***************************************************************************)
LEMMA InOrderLists ==
  ASSUME NEW S, \A x \in S : x \in Nat, IsFiniteSet(S)
  PROVE  /\ InOrder(S) \in Seq(S) /\ Len(InOrder(S)) = Cardinality(S)
         /\ Cardinality(S) \in Nat /\ DOMAIN InOrder(S) = 1..Cardinality(S)
         /\ \A i, j \in DOMAIN InOrder(S) : i < j => InOrder(S)[i] < InOrder(S)[j]
         /\ \A i, j \in DOMAIN InOrder(S) : InOrder(S)[i] = InOrder(S)[j] => i = j
         /\ \A n \in S : \E i \in DOMAIN InOrder(S) : InOrder(S)[i] = n
<1> DEFINE s == InOrder(S)
<1>1. Cardinality(S) \in Nat
  BY FS_CardinalityType
<1>2. DOMAIN s = 1..Cardinality(S)
  BY DEF InOrder
<1>3. ASSUME NEW i \in DOMAIN s
      PROVE  s[i] \in Nth(S, i - 1) /\ s[i] \in S /\ s[i] \in Nat /\ Cardinality(Lower(S, s[i])) = i - 1
  <2>1. i - 1 \in Nat /\ i - 1 < Cardinality(S)
    BY <1>1, <1>2
  <2>2. s[i] \in Nth(S, i - 1)
    BY <2>1, <1>2, NthExists DEF InOrder
  <2> QED BY <2>2 DEF Nth
<1>4. \A i \in DOMAIN s : i \in Nat
  BY <1>1, <1>2
<1>5. \A n \in S : \E i \in DOMAIN s : s[i] = n
  <2> SUFFICES ASSUME NEW n \in S PROVE \E i \in DOMAIN s : s[i] = n
    OBVIOUS
  <2> DEFINE k == Cardinality(Lower(S, n)) + 1
  <2>1. k \in DOMAIN s /\ k - 1 = Cardinality(Lower(S, n))
    BY <1>1, <1>2, LowerFinite
  <2>2. s[k] \in Nth(S, k - 1) /\ n \in Nth(S, k - 1)
    BY <1>3, <2>1 DEF Nth
  <2> HIDE DEF k, s
  <2> QED BY <2>1, <2>2, NthUnique
<1> HIDE DEF s
<1>6. \A i, j \in DOMAIN s : s[i] = s[j] => i = j
  <2> SUFFICES ASSUME NEW i \in DOMAIN s, NEW j \in DOMAIN s, s[i] = s[j] PROVE i = j
    OBVIOUS
  <2>1. i - 1 = j - 1
    BY <1>3
  <2> QED BY <1>4, <2>1
<1>7. \A i, j \in DOMAIN s : i < j => s[i] < s[j]
  <2> SUFFICES ASSUME NEW i \in DOMAIN s, NEW j \in DOMAIN s, i < j, ~(s[i] < s[j])
               PROVE  FALSE
    OBVIOUS
  <2>1. i \in Nat /\ j \in Nat /\ s[i] \in Nat /\ s[j] \in Nat /\ s[i] # s[j]
    BY <1>3, <1>4, <1>6
  <2>2. s[j] < s[i]
    BY <2>1
  <2>3. Cardinality(Lower(S, s[j])) < Cardinality(Lower(S, s[i]))
    BY <1>3, <2>2, LowerRank
  <2>4. j - 1 < i - 1
    BY <1>3, <2>3
  <2> QED BY <2>1, <2>4
<1>8. s \in Seq(S) /\ Len(s) = Cardinality(S)
  <2>1. s = [i \in 1..Cardinality(S) |-> s[i]]
    BY <1>2 DEF s, InOrder
  <2> QED BY <1>1, <1>2, <1>3, <2>1
<1> QED BY <1>1, <1>2, <1>5, <1>6, <1>7, <1>8 DEF s

\* A set that holds 0 and with each number the next holds all numbers.
LEMMA Induction ==
  ASSUME NEW T, 0 \in T, \A n \in T : n \in Nat => n + 1 \in T
  PROVE  \A n \in Nat : n \in T
<1> DEFINE Missing == {n \in Nat : n \notin T}
<1> SUFFICES ASSUME Missing # {} PROVE FALSE
  OBVIOUS
<1>1. Missing \subseteq Nat
  OBVIOUS
<1>2. PICK n \in Missing : \A m \in Missing : n <= m
  <2> HIDE DEF Missing
  <2> QED BY <1>1, LeastExists
<1>3. n \in Nat /\ n \notin T /\ n # 0
  OBVIOUS
<1>4. n - 1 \in Nat /\ ~(n <= n - 1) /\ (n - 1) + 1 = n
  BY <1>3
<1>5. n - 1 \in T
  BY <1>2, <1>4
<1> QED BY <1>3, <1>4, <1>5
=============================================================================
