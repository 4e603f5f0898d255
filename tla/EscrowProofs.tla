---------------------------- MODULE EscrowProofs ----------------------------
(***************************************************************************)
(* The money: the pools are the sums of the positions, the vault is what   *)
(* was staked less what was paid, and it always covers what is still owed. *)
(* The argument is by sums over the owners, hence the lemmas about SumUpTo *)
(* that come first.  The induction theorems of the library need a predicate *)
(* as a parameter; the inductions below are over the set of the numbers    *)
(* that satisfy it, and rest on < being well founded on Nat.               *)
(***************************************************************************)
EXTENDS TxsettleMarketProofs, WellFoundedInduction, FiniteSetTheorems

-----------------------------------------------------------------------------
(* Sums *)

(* A set of numbers that holds 0 and, with each number below n, the next,  *)
(* holds 0..n.                                                             *)
LEMMA SetInduction ==
    ASSUME NEW n \in Nat, NEW T, 0 \in T,
           \A m \in 0..(n-1) : m \in T => m + 1 \in T
    PROVE  \A m \in 0..n : m \in T
<1>. DEFINE F == {m \in 0..n : m \notin T}
           R == OpToRel(<, Nat)
<1>. SUFFICES ASSUME F # {} PROVE FALSE
    OBVIOUS
<1>1. F \subseteq Nat
    OBVIOUS
<1>2. PICK x \in F : \A y \in F : ~(<<y, x>> \in R)
    BY <1>1, WFMin, NatLessThanWellFounded
<1>3. x # 0 /\ x - 1 \in 0..(n-1)
    OBVIOUS
<1>4. <<x - 1, x>> \in R
    BY <1>1, <1>3 DEF OpToRel
<1>. HIDE DEF R
<1>5. x - 1 \in 0..n /\ x - 1 \notin F
    BY <1>2, <1>3, <1>4
<1>. QED
    BY <1>3, <1>5

(* The table of partial sums exists, *)
LEMMA PartialSumsExist ==
    ASSUME NEW n \in Nat, NEW a
    PROVE  \E S : IsPartialSums(S, a, n)
<1>. DEFINE T == {m \in 0..n : \E S : IsPartialSums(S, a, m)}
<1>1. 0 \in T
  <2>1. IsPartialSums([i \in 0..0 |-> 0], a, 0)
    BY DEF IsPartialSums
  <2>. QED BY <2>1
<1>2. ASSUME NEW m \in 0..(n-1), m \in T PROVE m + 1 \in T
  <2>1. PICK S : IsPartialSums(S, a, m)
    BY <1>2
  <2>. DEFINE U == [i \in 0..(m+1) |-> IF i = m + 1 THEN S[m] + a[m+1] ELSE S[i]]
  <2>2. ASSUME NEW i \in 0..(m+1)
        PROVE  U[i] = IF i = 0 THEN 0 ELSE U[i-1] + a[i]
    <3>1. CASE i = m + 1
      BY <3>1
    <3>2. CASE i # m + 1
      BY <2>1, <3>2 DEF IsPartialSums
    <3>. QED BY <3>1, <3>2
  <2>3. IsPartialSums(U, a, m + 1)
    BY <2>2 DEF IsPartialSums
  <2>. QED BY <2>3
<1>. HIDE DEF T
<1>3. \A m \in 0..n : m \in T
    BY <1>1, <1>2, SetInduction
<1>. QED
    BY <1>3 DEF T

(* and SumUpTo is its last entry. *)
LEMMA SumUpToIsPartialSum ==
    ASSUME NEW n \in Nat, NEW a
    PROVE  \E S : IsPartialSums(S, a, n) /\ SumUpTo(a, n) = S[n]
<1>. DEFINE P(S) == S = [i \in 0..n |-> IF i = 0 THEN 0 ELSE S[i-1] + a[i]]
           C == CHOOSE S : P(S)
<1>1. \E S : P(S)
    BY PartialSumsExist DEF IsPartialSums
<1>2. P(C)
    BY <1>1
<1>3. SumUpTo(a, n) = C[n]
    BY DEF SumUpTo
<1>. QED
    BY <1>2, <1>3 DEF IsPartialSums

(* Two tables agree wherever both are defined. *)
LEMMA PartialSumsAgree ==
    ASSUME NEW n \in Nat, NEW l \in Nat, NEW a, NEW S, NEW U,
           IsPartialSums(S, a, n), IsPartialSums(U, a, l), n <= l
    PROVE  \A i \in 0..n : S[i] = U[i]
<1>. DEFINE T == {m \in 0..n : S[m] = U[m]}
<1>1. 0 \in T
    BY DEF IsPartialSums
<1>2. ASSUME NEW m \in 0..(n-1), m \in T PROVE m + 1 \in T
    BY <1>2 DEF IsPartialSums
<1>. QED
    BY <1>1, <1>2, SetInduction

(* The recursive equations of SumUpTo. *)
LEMMA SumZero == ASSUME NEW a PROVE SumUpTo(a, 0) = 0
    BY SumUpToIsPartialSum DEF IsPartialSums

LEMMA SumStep ==
    ASSUME NEW a, NEW n \in Nat
    PROVE  SumUpTo(a, n + 1) = SumUpTo(a, n) + a[n+1]
<1>1. PICK S : IsPartialSums(S, a, n) /\ SumUpTo(a, n) = S[n]
    BY SumUpToIsPartialSum
<1>2. PICK U : IsPartialSums(U, a, n + 1) /\ SumUpTo(a, n + 1) = U[n + 1]
    BY SumUpToIsPartialSum
<1>3. S[n] = U[n]
    BY <1>1, <1>2, PartialSumsAgree
<1>4. U[n + 1] = U[n] + a[n+1]
    BY <1>2 DEF IsPartialSums
<1>. QED
    BY <1>1, <1>2, <1>3, <1>4

-----------------------------------------------------------------------------
(* Sums of naturals are naturals. *)
LEMMA SumType ==
    ASSUME NEW n \in Nat, NEW a, \A i \in 1..n : a[i] \in Nat
    PROVE  \A m \in 0..n : SumUpTo(a, m) \in Nat
<1>. DEFINE T == {m \in 0..n : SumUpTo(a, m) \in Nat}
<1>1. 0 \in T
    BY SumZero
<1>2. ASSUME NEW m \in 0..(n-1), m \in T PROVE m + 1 \in T
    BY <1>2, SumStep
<1>. HIDE DEF T
<1>3. \A m \in 0..n : m \in T
    BY <1>1, <1>2, SetInduction
<1>. QED
    BY <1>3 DEF T

LEMMA SumIsNat ==
    ASSUME NEW n \in Nat, NEW a, \A i \in 1..n : a[i] \in Nat
    PROVE  SumUpTo(a, n) \in Nat
<1>1. \A m \in 0..n : SumUpTo(a, m) \in Nat
    BY SumType
<1>. QED
    BY <1>1

(* Functions that agree on 1..n have the same sum. *)
LEMMA SumCongruence ==
    ASSUME NEW n \in Nat, NEW a, NEW b, \A i \in 1..n : a[i] = b[i]
    PROVE  SumUpTo(a, n) = SumUpTo(b, n)
<1>. DEFINE T == {m \in 0..n : SumUpTo(a, m) = SumUpTo(b, m)}
<1>1. 0 \in T
    BY SumZero
<1>2. ASSUME NEW m \in 0..(n-1), m \in T PROVE m + 1 \in T
    BY <1>2, SumStep
<1>. HIDE DEF T
<1>3. \A m \in 0..n : m \in T
    BY <1>1, <1>2, SetInduction
<1>. QED
    BY <1>3 DEF T

(* The sum of nothing but zeroes. *)
LEMMA SumOfZeroes ==
    ASSUME NEW n \in Nat, NEW a, \A i \in 1..n : a[i] = 0
    PROVE  SumUpTo(a, n) = 0
<1>. DEFINE T == {m \in 0..n : SumUpTo(a, m) = 0}
<1>1. 0 \in T
    BY SumZero
<1>2. ASSUME NEW m \in 0..(n-1), m \in T PROVE m + 1 \in T
    BY <1>2, SumStep
<1>. HIDE DEF T
<1>3. \A m \in 0..n : m \in T
    BY <1>1, <1>2, SetInduction
<1>. QED
    BY <1>3 DEF T

(* Changing one summand changes the sum by as much. *)
LEMMA SumUpdate ==
    ASSUME NEW n \in Nat, NEW a, NEW b, NEW j \in 1..n,
           \A i \in 1..n : a[i] \in Nat /\ b[i] \in Nat,
           \A i \in 1..n : i # j => a[i] = b[i]
    PROVE  SumUpTo(b, n) = SumUpTo(a, n) - a[j] + b[j]
<1>. DEFINE T == {m \in 0..n : SumUpTo(b, m) = IF m < j THEN SumUpTo(a, m)
                                               ELSE SumUpTo(a, m) - a[j] + b[j]}
<1>0. \A m \in 0..n : SumUpTo(a, m) \in Nat /\ SumUpTo(b, m) \in Nat
    BY SumType
<1>1. 0 \in T
    BY SumZero
<1>2. ASSUME NEW m \in 0..(n-1), m \in T PROVE m + 1 \in T
  <2>1. /\ SumUpTo(a, m + 1) = SumUpTo(a, m) + a[m+1]
        /\ SumUpTo(b, m + 1) = SumUpTo(b, m) + b[m+1]
    BY SumStep
  <2>2. m \in 0..n /\ m + 1 \in 0..n /\ m + 1 \in 1..n
    OBVIOUS
  <2>. QED
    BY <1>0, <1>2, <2>1, <2>2
<1>. HIDE DEF T
<1>3. \A m \in 0..n : m \in T
    BY <1>1, <1>2, SetInduction
<1>4. n \in T
    BY <1>3
<1>. QED
    BY <1>4 DEF T

(* No summand exceeds the sum. *)
LEMMA SummandBound ==
    ASSUME NEW n \in Nat, NEW a, NEW j \in 1..n, \A i \in 1..n : a[i] \in Nat
    PROVE  a[j] <= SumUpTo(a, n)
<1>. DEFINE b == [i \in 1..n |-> IF i = j THEN 0 ELSE a[i]]
<1>0. /\ \A i \in 1..n : a[i] \in Nat /\ b[i] \in Nat
      /\ \A i \in 1..n : i # j => a[i] = b[i]
      /\ b[j] = 0
    OBVIOUS
<1>. HIDE DEF b
<1>1. SumUpTo(b, n) = SumUpTo(a, n) - a[j] + b[j]
  <2>1. \A i \in 1..n : a[i] \in Nat /\ b[i] \in Nat
    BY <1>0
  <2>2. \A i \in 1..n : i # j => a[i] = b[i]
    BY <1>0
  <2>. QED
    BY <2>1, <2>2, SumUpdate, SMTT(30)
<1>2. SumUpTo(b, n) \in Nat
    BY <1>0, SumIsNat
<1>3. SumUpTo(a, n) \in Nat
    BY SumIsNat
<1>. QED
    BY <1>0, <1>1, <1>2, <1>3

(* Sums of sums, and of pointwise larger functions. *)
LEMMA SumAddition ==
    ASSUME NEW n \in Nat, NEW a, NEW b, NEW c,
           \A i \in 1..n : a[i] \in Nat /\ b[i] \in Nat /\ c[i] = a[i] + b[i]
    PROVE  SumUpTo(c, n) = SumUpTo(a, n) + SumUpTo(b, n)
<1>. DEFINE T == {m \in 0..n : SumUpTo(c, m) = SumUpTo(a, m) + SumUpTo(b, m)}
<1>0. \A m \in 0..n : /\ SumUpTo(a, m) \in Nat
                      /\ SumUpTo(b, m) \in Nat
  <2>1. \A i \in 1..n : a[i] \in Nat
    OBVIOUS
  <2>2. \A i \in 1..n : b[i] \in Nat
    OBVIOUS
  <2>3. \A m \in 0..n : SumUpTo(a, m) \in Nat
    BY <2>1, SumType
  <2>4. \A m \in 0..n : SumUpTo(b, m) \in Nat
    BY <2>2, SumType
  <2>. QED
    BY <2>3, <2>4
<1>1. 0 \in T
    BY SumZero
<1>2. ASSUME NEW m \in 0..(n-1), m \in T PROVE m + 1 \in T
  <2>1. /\ SumUpTo(a, m + 1) = SumUpTo(a, m) + a[m+1]
        /\ SumUpTo(b, m + 1) = SumUpTo(b, m) + b[m+1]
        /\ SumUpTo(c, m + 1) = SumUpTo(c, m) + c[m+1]
    BY SumStep
  <2>2. m \in 0..n /\ m + 1 \in 0..n /\ m + 1 \in 1..n
    OBVIOUS
  <2>. QED
    BY <1>0, <1>2, <2>1, <2>2
<1>. HIDE DEF T
<1>3. \A m \in 0..n : m \in T
    BY <1>1, <1>2, SetInduction
<1>4. n \in T
    BY <1>3
<1>. QED
    BY <1>4 DEF T

LEMMA SumMonotone ==
    ASSUME NEW n \in Nat, NEW a, NEW b,
           \A i \in 1..n : a[i] \in Nat /\ b[i] \in Nat /\ a[i] <= b[i]
    PROVE  SumUpTo(a, n) <= SumUpTo(b, n)
<1>. DEFINE d == [i \in 1..n |-> b[i] - a[i]]
<1>1. \A i \in 1..n : d[i] \in Nat /\ b[i] = a[i] + d[i]
    OBVIOUS
<1>. HIDE DEF d
<1>2. SumUpTo(b, n) = SumUpTo(a, n) + SumUpTo(d, n)
    BY <1>1, SumAddition
<1>3. \A i \in 1..n : a[i] \in Nat
    OBVIOUS
<1>4. SumUpTo(d, n) \in Nat
    BY <1>1, SumIsNat
<1>5. SumUpTo(a, n) \in Nat
    BY <1>3, SumIsNat
<1>. QED
    BY <1>2, <1>4, <1>5

(* Multiplying every summand multiplies the sum. *)
LEMMA SumScale ==
    ASSUME NEW n \in Nat, NEW a, NEW b, NEW t \in Nat,
           \A i \in 1..n : a[i] \in Nat /\ b[i] = a[i] * t
    PROVE  SumUpTo(b, n) = SumUpTo(a, n) * t
<1>. DEFINE T == {m \in 0..n : SumUpTo(b, m) = SumUpTo(a, m) * t}
<1>0. \A m \in 0..n : SumUpTo(a, m) \in Nat
    BY SumType
<1>1. 0 \in T
    BY SumZero
<1>2. ASSUME NEW m \in 0..(n-1), m \in T PROVE m + 1 \in T
  <2>1. /\ SumUpTo(a, m + 1) = SumUpTo(a, m) + a[m+1]
        /\ SumUpTo(b, m + 1) = SumUpTo(b, m) + b[m+1]
    BY SumStep
  <2>2. m \in 0..n /\ m + 1 \in 0..n /\ m + 1 \in 1..n
    OBVIOUS
  <2>3. b[m+1] = a[m+1] * t /\ a[m+1] \in Nat /\ SumUpTo(a, m) \in Nat
    BY <1>0, <2>2
  <2>4. (SumUpTo(a, m) + a[m+1]) * t = SumUpTo(a, m) * t + a[m+1] * t
    BY <2>3
  <2>. QED
    BY <1>2, <2>1, <2>2, <2>3, <2>4
<1>. HIDE DEF T
<1>3. \A m \in 0..n : m \in T
    BY <1>1, <1>2, SetInduction
<1>4. n \in T
    BY <1>3
<1>. QED
    BY <1>4 DEF T

(* What is paid out when a total t is shared in proportion to the stakes a *)
(* of the winners, every share rounded down: never more than t.            *)
THEOREM FloorSharesFit ==
    ASSUME NEW n \in Nat, NEW t \in Nat, NEW a, NEW c,
           \A i \in 1..n : a[i] \in Nat,
           SumUpTo(a, n) # 0,
           \A i \in 1..n : c[i] = (a[i] * t) \div SumUpTo(a, n)
    PROVE  /\ \A i \in 1..n : c[i] \in Nat
           /\ SumUpTo(c, n) <= t
<1>. DEFINE w == SumUpTo(a, n)
<1>1. w \in Nat \ {0}
    BY SumIsNat
<1>. HIDE DEF w
<1>2. ASSUME NEW x \in Nat PROVE x \div w \in Nat /\ (x \div w) * w <= x
    BY <1>1
<1>3. \A i \in 1..n : a[i] * t \in Nat
    OBVIOUS
<1>4. \A i \in 1..n : c[i] \in Nat /\ c[i] * w <= a[i] * t
    BY <1>2, <1>3 DEF w
<1>. DEFINE cw == [i \in 1..n |-> c[i] * w]
            at == [i \in 1..n |-> a[i] * t]
<1>5. \A i \in 1..n : cw[i] \in Nat /\ at[i] \in Nat /\ cw[i] <= at[i]
    BY <1>1, <1>3, <1>4
<1>6. SumUpTo(cw, n) = SumUpTo(c, n) * w
    BY <1>1, <1>4, SumScale
<1>7. SumUpTo(at, n) = w * t
    BY SumScale DEF w
<1>8. SumUpTo(cw, n) <= SumUpTo(at, n)
    BY <1>5, SumMonotone
<1>9. SumUpTo(c, n) \in Nat
  <2>. HIDE DEF cw, at
  <2>1. \A i \in 1..n : c[i] \in Nat
    BY <1>4
  <2>. QED
    BY <2>1, SumIsNat
<1>10. SumUpTo(c, n) * w <= w * t
    BY <1>6, <1>7, <1>8
<1>11. ASSUME NEW x \in Nat, x * w <= w * t PROVE x <= t
    BY <1>1, <1>11
<1>. QED
    BY <1>4, <1>9, <1>10, <1>11

-----------------------------------------------------------------------------
(* The sum of n times the same number. *)
LEMMA SumOfConstant ==
    ASSUME NEW n \in Nat, NEW a, NEW x \in Nat, \A i \in 1..n : a[i] = x
    PROVE  SumUpTo(a, n) = n * x
<1>. DEFINE T == {m \in 0..n : SumUpTo(a, m) = m * x}
<1>1. 0 \in T
    BY SumZero
<1>2. ASSUME NEW m \in 0..(n-1), m \in T PROVE m + 1 \in T
  <2>1. SumUpTo(a, m + 1) = SumUpTo(a, m) + a[m+1]
    BY SumStep
  <2>2. (m + 1) * x = m * x + x
    OBVIOUS
  <2>3. m + 1 \in 0..n /\ a[m+1] = x /\ SumUpTo(a, m) = m * x
    BY <1>2
  <2>. QED
    BY <2>1, <2>2, <2>3
<1>. HIDE DEF T
<1>3. \A m \in 0..n : m \in T
    BY <1>1, <1>2, SetInduction
<1>4. n \in T
    BY <1>3
<1>. QED
    BY <1>4 DEF T

(* Counting is summing up ones. *)
LEMMA SumOfOnes ==
    ASSUME NEW n \in Nat, NEW S, NEW a, \A i \in 1..n : a[i] = IF i \in S THEN 1 ELSE 0
    PROVE  SumUpTo(a, n) = Cardinality({i \in 1..n : i \in S})
<1>. DEFINE UpTo(m) == {i \in 1..m : i \in S}
            T == {m \in 0..n : /\ IsFiniteSet(UpTo(m))
                               /\ SumUpTo(a, m) = Cardinality(UpTo(m))}
<1>1. 0 \in T
  <2>1. UpTo(0) = {}
    OBVIOUS
  <2>. QED
    BY <2>1, SumZero, FS_EmptySet
<1>2. ASSUME NEW m \in 0..(n-1), m \in T PROVE m + 1 \in T
  <2>1. SumUpTo(a, m + 1) = SumUpTo(a, m) + a[m+1]
    BY SumStep
  <2>2. IsFiniteSet(UpTo(m)) /\ SumUpTo(a, m) = Cardinality(UpTo(m))
    BY <1>2
  <2>3. m + 1 \in 0..n /\ m + 1 \in 1..n /\ m + 1 \notin UpTo(m)
    OBVIOUS
  <2>4. CASE m + 1 \in S
    <3>1. UpTo(m + 1) = UpTo(m) \cup {m + 1}
      BY <2>4
    <3>2. a[m+1] = 1
      BY <2>3, <2>4
    <3>. HIDE DEF UpTo
    <3>3. /\ IsFiniteSet(UpTo(m + 1))
          /\ Cardinality(UpTo(m + 1)) = Cardinality(UpTo(m)) + 1
      BY <2>2, <2>3, <3>1, FS_AddElement
    <3>. QED
      BY <2>1, <2>2, <2>3, <3>2, <3>3
  <2>5. CASE m + 1 \notin S
    <3>1. UpTo(m + 1) = UpTo(m)
      BY <2>5
    <3>2. a[m+1] = 0
      BY <2>3, <2>5
    <3>3. Cardinality(UpTo(m)) \in Nat
      BY <2>2, FS_CardinalityType
    <3>4. SumUpTo(a, m + 1) = Cardinality(UpTo(m))
      BY <2>1, <2>2, <3>2, <3>3
    <3>5. IsFiniteSet(UpTo(m + 1)) /\ SumUpTo(a, m + 1) = Cardinality(UpTo(m + 1))
      BY <2>2, <3>1, <3>4
    <3>. QED
      BY <2>3, <3>5
  <2>. QED
    BY <2>4, <2>5
<1>. HIDE DEF T
<1>3. \A m \in 0..n : m \in T
    BY <1>1, <1>2, SetInduction
<1>4. n \in T
    BY <1>3
<1>. QED
    BY <1>4 DEF T

(* Rounding down loses less than one per share: b counts the shares that   *)
(* may be anything but zero.                                               *)
THEOREM FloorSharesNearlyFill ==
    ASSUME NEW n \in Nat, NEW t \in Nat, NEW a, NEW b, NEW c,
           \A i \in 1..n : a[i] \in Nat /\ b[i] \in {0, 1} /\ (b[i] = 0 => a[i] = 0),
           SumUpTo(a, n) # 0,
           \A i \in 1..n : c[i] = (a[i] * t) \div SumUpTo(a, n)
    PROVE  t < SumUpTo(c, n) + SumUpTo(b, n)
<1>. DEFINE w == SumUpTo(a, n)
<1>a. \A i \in 1..n : a[i] \in Nat
    OBVIOUS
<1>b. \A i \in 1..n : b[i] \in Nat
    OBVIOUS
<1>1. w \in Nat \ {0}
    BY <1>a, SumIsNat
<1>. HIDE DEF w
<1>2. ASSUME NEW x \in Nat
      PROVE  x \div w \in Nat /\ x <= (x \div w) * w + (w - 1) /\ 0 \div w = 0
    BY <1>1
<1>3. \A i \in 1..n : a[i] * t \in Nat
    BY <1>a
<1>4. ASSUME NEW i \in 1..n
      PROVE  c[i] \in Nat /\ a[i] * t <= c[i] * w + b[i] * (w - 1)
  <2>1. c[i] = (a[i] * t) \div w
    BY DEF w
  <2>2. c[i] \in Nat /\ a[i] * t <= c[i] * w + (w - 1)
    BY <1>2, <1>3, <2>1
  <2>3. CASE b[i] = 1
    BY <1>1, <2>2, <2>3
  <2>4. CASE b[i] = 0
    <3>1. a[i] * t = 0 /\ b[i] * (w - 1) = 0
      BY <1>1, <2>4
    <3>2. c[i] * w \in Nat
      BY <1>1, <2>2
    <3>. QED
      BY <2>2, <3>1, <3>2
  <2>. QED
    BY <2>3, <2>4
<1>. DEFINE at == [i \in 1..n |-> a[i] * t]
            cw == [i \in 1..n |-> c[i] * w]
            bw == [i \in 1..n |-> b[i] * (w - 1)]
            cb == [i \in 1..n |-> cw[i] + bw[i]]
<1>5. \A i \in 1..n : cw[i] \in Nat /\ bw[i] \in Nat
    BY <1>1, <1>4
<1>6. \A i \in 1..n : at[i] \in Nat /\ cb[i] \in Nat /\ at[i] <= cb[i]
    BY <1>3, <1>4, <1>5
<1>7. SumUpTo(at, n) = w * t
    BY <1>a, SumScale DEF w
<1>8. SumUpTo(cw, n) = SumUpTo(c, n) * w
    BY <1>1, <1>4, SumScale
<1>9. w - 1 \in Nat
    BY <1>1
<1>10. SumUpTo(bw, n) = SumUpTo(b, n) * (w - 1)
    BY <1>9, <1>b, SumScale
<1>11. SumUpTo(cb, n) = SumUpTo(cw, n) + SumUpTo(bw, n)
  <2>. HIDE DEF cw, bw
  <2>. QED
    BY <1>5, SumAddition
<1>12. SumUpTo(at, n) <= SumUpTo(cb, n)
  <2>. HIDE DEF at, cb
  <2>. QED
    BY <1>6, SumMonotone
<1>13. SumUpTo(c, n) \in Nat /\ SumUpTo(b, n) \in Nat
  <2>1. \A i \in 1..n : c[i] \in Nat
    BY <1>4
  <2>. QED
    BY <2>1, <1>b, SumIsNat
<1>14. SumUpTo(b, n) # 0
  <2>1. PICK j \in 1..n : a[j] # 0
    BY <1>1, SumOfZeroes DEF w
  <2>2. b[j] = 1
    BY <2>1
  <2>3. b[j] <= SumUpTo(b, n)
    BY <1>b, SummandBound
  <2>. QED
    BY <1>13, <2>2, <2>3
<1>. DEFINE sb == SumUpTo(b, n)
            sc == SumUpTo(c, n)
<1>15. w * t <= sc * w + sb * (w - 1)
    BY <1>7, <1>8, <1>10, <1>11, <1>12
<1>16. sc \in Nat /\ sb \in Nat \ {0}
    BY <1>13, <1>14
<1>. HIDE DEF sb, sc, at, cw, bw, cb
<1>17. sc * w + sb * (w - 1) < (sc + sb) * w
    BY <1>1, <1>16
<1>18. w * t < (sc + sb) * w
    BY <1>1, <1>15, <1>16, <1>17
<1>19. ASSUME t >= sc + sb PROVE FALSE
  <2>1. t * w >= (sc + sb) * w
    BY <1>1, <1>16, <1>19
  <2>. QED
    BY <1>1, <1>16, <1>18, <2>1
<1>. QED
    BY <1>16, <1>19 DEF sb, sc

-----------------------------------------------------------------------------
(* The summands are naturals, and do not change while the accounts they    *)
(* are computed from do not.                                               *)

LEMMA StakesType ==
    ASSUME TypeOK, NEW f \in Fixtures, NEW k \in Outcomes
    PROVE  \A o \in 1..NumOwners : Stakes(f, k)[o] \in Nat
<1>1. \A o \in Owners : position[f][o].amount \in Nat
    BY Inputs DEF TypeOK, PositionType
<1>. QED
    BY <1>1 DEF Stakes, Owners

LEMMA StakesTypeNext ==
    ASSUME TypeOK', NEW f \in Fixtures, NEW k \in Outcomes
    PROVE  \A o \in 1..NumOwners : Stakes(f, k)'[o] \in Nat
<1>1. \A o \in Owners : position'[f][o].amount \in Nat
    BY Inputs DEF TypeOK, PositionType
<1>. QED
    BY <1>1 DEF Stakes, Owners

LEMMA StakesUnchanged ==
    ASSUME NEW f \in Fixtures, position'[f] = position[f]
    PROVE  \A k \in Outcomes : Stakes(f, k)' = Stakes(f, k)
    BY DEF Stakes, IsStaked

(* A claim changes no stake. *)
LEMMA StakesSameAmounts ==
    ASSUME NEW f \in Fixtures,
           \A o \in Owners : /\ position'[f][o].market = position[f][o].market
                             /\ position'[f][o].outcome = position[f][o].outcome
                             /\ position'[f][o].amount = position[f][o].amount
    PROVE  \A k \in Outcomes : Stakes(f, k)' = Stakes(f, k)
    BY DEF Stakes, IsStaked

-----------------------------------------------------------------------------
(* The pools are the sums of the positions *)

PoolsMatchIn(f) == \A k \in Outcomes : market[f].pools[k] = Total(Stakes(f, k))

LEMMA UncalledPoolsMatch == Uncalled => PoolsMatchPositions
<1>. SUFFICES ASSUME Uncalled, NEW f \in Fixtures, NEW k \in Outcomes
              PROVE  market[f].pools[k] = Total(Stakes(f, k))
    BY DEF PoolsMatchPositions
<1>1. market[f].pools[k] = 0
    BY DEF Uncalled, AbsentMarket
<1>2. \A o \in 1..NumOwners : Stakes(f, k)[o] = 0
    BY DEF Uncalled, Stakes, FreshPosition, Owners
<1>. QED
    BY <1>1, <1>2, SumOfZeroes, Inputs DEF Total

LEMMA SamePoolsMatch ==
    ASSUME NEW f \in Fixtures, PoolsMatchIn(f), market'[f].pools = market[f].pools,
           \A k \in Outcomes : Stakes(f, k)' = Stakes(f, k)
    PROVE  PoolsMatchIn(f)'
    BY DEF PoolsMatchIn, Total

(* place adds the stake to the sum of its side, and to its pool. *)
LEMMA PlaceStakes ==
    ASSUME TypeOK, TypeOK', AccountsAgree,
           NEW o \in Owners, NEW f \in Fixtures, NEW m \in Mints,
           NEW k \in 0..COUNT, NEW amount \in Nat, Place(o, f, m, k, amount),
           NEW j \in Outcomes
    PROVE  Total(Stakes(f, j))' = Total(Stakes(f, j)) + (IF j = k THEN amount ELSE 0)
<1>. DEFINE a == Stakes(f, j)
            b == Stakes(f, j)'
<1>1. (\A i \in 1..NumOwners : a[i] \in Nat) /\ (\A i \in 1..NumOwners : b[i] \in Nat)
    BY StakesType, StakesTypeNext
<1>p. PlacedBy(o, f, k, amount)
    BY PlacePosition
<1>2. /\ position'[f][o].market = f
      /\ position'[f][o].outcome = k
      /\ (IsStaked(f, o) => position[f][o].outcome = k)
    BY <1>p DEF PlacedBy
<1>3. \A p \in Owners \ {o} : position'[f][p] = position[f][p]
    BY <1>p DEF PlacedBy
<1>4. ~IsStaked(f, o) => position[f][o].amount = 0
    BY DEF AccountsAgree, PositionAgrees, IsStaked, IsFresh, FreshPosition
<1>5. /\ amount \in Nat /\ position[f][o].amount \in Nat
      /\ position'[f][o].amount = position[f][o].amount + amount
    BY <1>p DEF PlacedBy
<1>6. \A p \in 1..NumOwners : p # o => a[p] = b[p]
    BY <1>3 DEF Stakes, IsStaked, Owners
<1>7. b[o] = a[o] + (IF j = k THEN amount ELSE 0)
  <2>1. b[o] = IF j = k THEN position[f][o].amount + amount ELSE 0
    BY <1>2, <1>5 DEF Stakes, IsStaked
  <2>2. a[o] = IF j = k THEN position[f][o].amount ELSE 0
    BY <1>2, <1>4 DEF Stakes
  <2>. QED
    BY <2>1, <2>2, <1>5
<1>8. a[o] \in Nat /\ o \in 1..NumOwners
    BY <1>1 DEF Owners
<1>9. NumOwners \in Nat
    BY Inputs
<1>. HIDE DEF a, b
<1>10. SumUpTo(b, NumOwners) = SumUpTo(a, NumOwners) - a[o] + b[o]
    BY <1>1, <1>6, <1>8, <1>9, SumUpdate
<1>11. SumUpTo(a, NumOwners) \in Nat
    BY <1>1, <1>9, SumIsNat
<1>12. SumUpTo(b, NumOwners) = SumUpTo(a, NumOwners) + (IF j = k THEN amount ELSE 0)
    BY <1>5, <1>7, <1>8, <1>10, <1>11
<1>. QED
    BY <1>12 DEF Total, a, b

LEMMA NextPoolsMatch ==
    TypeOK /\ TypeOK' /\ AccountsAgree /\ PoolsMatchPositions /\ [ChainNext]_vars
        => PoolsMatchPositions'
<1>. SUFFICES ASSUME TypeOK, TypeOK', AccountsAgree, PoolsMatchPositions, [ChainNext]_vars,
                     NEW f \in Fixtures
              PROVE  PoolsMatchIn(f)'
    BY DEF PoolsMatchPositions, PoolsMatchIn
<1>0. PoolsMatchIn(f)
    BY DEF PoolsMatchPositions, PoolsMatchIn
<1>1. ASSUME NEW g \in Fixtures, NEW m \in Mints, NEW close_ts \in Int,
             CreateMarket(g, m, close_ts)
      PROVE  PoolsMatchIn(f)'
  <2>c. Created(g, m, close_ts)
    BY <1>1, CreateEffect
  <2>1. /\ market[g].state = "Absent"
        /\ \A h \in Fixtures \ {g} : market'[h] = market[h]
    BY <2>c DEF Created
  <2>2. position' = position
    BY <2>c DEF Created
  <2>3. market'[g].pools = [k \in Outcomes |-> 0]
    BY <1>1 DEF CreateMarket, TypeOK
  <2>4. market[g].pools = [k \in Outcomes |-> 0]
    BY <2>1 DEF AccountsAgree, MarketAgrees, AbsentMarket
  <2>5. market'[f].pools = market[f].pools
    BY <2>1, <2>3, <2>4
  <2>. QED
    BY <1>0, <2>2, <2>5, StakesUnchanged, SamePoolsMatch
<1>2. ASSUME NEW o \in Owners, NEW g \in Fixtures, NEW m \in Mints,
             NEW k \in 0..COUNT, NEW amount \in Nat, Place(o, g, m, k, amount)
      PROVE  PoolsMatchIn(f)'
  <2>1. CASE f = g
    <3>m. Placed(g, k, amount)
      BY <1>2, PlaceEffect
    <3>1. market'[f].pools = [market[f].pools EXCEPT ![k] = @ + amount]
      BY <2>1, <3>m DEF Placed
    <3>2. market[f].pools \in [Outcomes -> 0..MAX_U64] /\ amount \in Nat
      BY Inputs DEF TypeOK, MarketType
    <3>3. ASSUME NEW j \in Outcomes
          PROVE  market'[f].pools[j] = market[f].pools[j] + (IF j = k THEN amount ELSE 0)
      BY <3>1, <3>2, Inputs
    <3>4. ASSUME NEW j \in Outcomes
          PROVE  Total(Stakes(f, j))' = Total(Stakes(f, j)) + (IF j = k THEN amount ELSE 0)
      BY <1>2, <2>1, PlaceStakes
    <3>. QED
      BY <1>0, <3>3, <3>4 DEF PoolsMatchIn
  <2>2. CASE f # g
    <3>m. Placed(g, k, amount)
      BY <1>2, PlaceEffect
    <3>1. market'[f] = market[f]
      BY <2>2, <3>m DEF Placed
    <3>p. PlacedBy(o, g, k, amount)
      BY <1>2, PlacePosition
    <3>2. position'[f] = position[f]
      BY <2>2, <3>p DEF PlacedBy
    <3>. QED
      BY <1>0, <3>1, <3>2, StakesUnchanged, SamePoolsMatch
  <2>. QED
    BY <2>1, <2>2
<1>3. ASSUME NEW g \in Fixtures, NEW payload \in PayloadType, NEW strategy,
             NEW roots, Resolve(g, payload, strategy, roots)
      PROVE  PoolsMatchIn(f)'
  <2>r. ResolvedTo(g, OutcomeOf(Goals(payload.stats, STAT_KEY_P1_GOALS), Goals(payload.stats, STAT_KEY_P2_GOALS)))
    BY <1>3, ResolveEffect
  <2>1. position' = position
    BY <2>r DEF ResolvedTo
  <2>2. market'[f].pools = market[f].pools
    BY <1>3 DEF Resolve, TypeOK, MarketType
  <2>. QED
    BY <1>0, <2>1, <2>2, StakesUnchanged, SamePoolsMatch
<1>4. ASSUME NEW p \in Owners, NEW g \in Fixtures, NEW m \in Mints, Claim(p, g, m)
      PROVE  PoolsMatchIn(f)'
  <2>c. Claimed(p, g, Payout(market[g], position[g][p]))
    BY <1>4, ClaimEffect
  <2>1. market' = market
    BY <2>c DEF Claimed
  <2>2. \A o \in Owners : /\ position'[f][o].market = position[f][o].market
                          /\ position'[f][o].outcome = position[f][o].outcome
                          /\ position'[f][o].amount = position[f][o].amount
    BY <1>4 DEF Claim, TypeOK, PositionType
  <2>. QED
    BY <1>0, <2>1, <2>2, StakesSameAmounts, SamePoolsMatch
<1>5. CASE Tick \/ AnyIssue \/ Publish \/ UNCHANGED vars
  <2>1. UNCHANGED <<market, position>>
    BY <1>5 DEF Tick, AnyIssue, MintTo, Publish, PublishScores, vars
  <2>. QED
    BY <1>0, <2>1, StakesUnchanged, SamePoolsMatch
<1>. QED
    BY <1>1, <1>2, <1>3, <1>4, <1>5 DEF ChainNext, AnyCreate, AnyBet, AnySettle, Collect

(* The pools that claim divides by are always the sums of the positions.    *)
THEOREM PoolsAlwaysMatch == Spec => []PoolsMatchPositions
<1>1. Init => PoolsMatchPositions
    BY InitUncalled, UncalledPoolsMatch
<1>. QED
    BY <1>1, TypeCorrect, AccountsAlwaysAgree, NextPoolsMatch, NextIsChain, PTL DEF Spec

-----------------------------------------------------------------------------
(* The vault holds what was staked less what was paid *)

EscrowExactIn(f) == vault[f] + Total(Paid(f)) = TotalPool(market[f])

LEMMA NothingPaid ==
    ASSUME NEW f \in Fixtures, \A o \in Owners : ~position[f][o].claimed
    PROVE  Total(Paid(f)) = 0
<1>1. \A o \in 1..NumOwners : Paid(f)[o] = 0
    BY DEF Paid, Owners
<1>. QED
    BY <1>1, SumOfZeroes, Inputs DEF Total

LEMMA NothingPaidNext ==
    ASSUME NEW f \in Fixtures, \A o \in Owners : ~position'[f][o].claimed
    PROVE  Total(Paid(f))' = 0
<1>1. \A o \in 1..NumOwners : Paid(f)'[o] = 0
    BY DEF Paid, Owners
<1>. QED
    BY <1>1, SumOfZeroes, Inputs DEF Total

LEMMA UnresolvedUnclaimed ==
    ASSUME AccountsAgree, NEW f \in Fixtures, market[f].state # "Resolved"
    PROVE  \A o \in Owners : ~position[f][o].claimed
    BY DEF AccountsAgree, PositionAgrees

LEMMA SameEscrow ==
    ASSUME NEW f \in Fixtures, EscrowExactIn(f),
           vault'[f] = vault[f], market'[f] = market[f], position'[f] = position[f]
    PROVE  EscrowExactIn(f)'
<1>1. Paid(f)' = Paid(f)
    BY DEF Paid
<1>. QED
    BY <1>1 DEF EscrowExactIn, Total

LEMMA PoolTypes ==
    ASSUME NEW mk \in MarketType
    PROVE  /\ mk.pools \in [Outcomes -> 0..MAX_U64]
           /\ \A k \in Outcomes : mk.pools[k] \in Nat
           /\ P1Win \in Outcomes /\ Draw \in Outcomes /\ P2Win \in Outcomes
           /\ TotalPool(mk) \in Nat
           /\ \A k \in Outcomes : mk.pools[k] <= TotalPool(mk)
<1>1. mk.pools \in [Outcomes -> 0..MAX_U64]
    BY DEF MarketType
<1>2. \A k \in Outcomes : mk.pools[k] \in Nat
    BY <1>1, Inputs
<1>3. P1Win \in Outcomes /\ Draw \in Outcomes /\ P2Win \in Outcomes
    BY DEF P1Win, Draw, P2Win, Outcomes, COUNT
<1>4. \A k \in Outcomes : k = P1Win \/ k = Draw \/ k = P2Win
    BY DEF P1Win, Draw, P2Win, Outcomes, COUNT
<1>. QED
    BY <1>1, <1>2, <1>3, <1>4 DEF TotalPool

LEMMA PaidType ==
    ASSUME TypeOK, AccountsAgree, NEW f \in Fixtures
    PROVE  \A o \in 1..NumOwners : Paid(f)[o] \in Nat
<1>1. ASSUME NEW o \in Owners, position[f][o].claimed
      PROVE  Payout(market[f], position[f][o]) \in Nat
  <2>1. market[f] \in MarketType /\ position[f][o] \in PositionType
    BY DEF TypeOK
  <2>2. market[f].outcome # NoOutcome
    BY <1>1 DEF AccountsAgree, MarketAgrees, PositionAgrees
  <2>. QED
    BY <2>1, <2>2, PayoutType
<1>. QED
    BY <1>1 DEF Paid, Owners

LEMMA CreateEscrow ==
    ASSUME TypeOK, AccountsAgree, NEW f \in Fixtures, EscrowExactIn(f),
           NEW m \in Mints, NEW close_ts \in Int, CreateMarket(f, m, close_ts)
    PROVE  EscrowExactIn(f)'
<1>c. Created(f, m, close_ts)
    BY CreateEffect
<1>1. /\ market[f].state = "Absent"
      /\ market'[f].pools = [k \in Outcomes |-> 0]
      /\ position' = position /\ vault' = vault
    BY <1>c DEF Created
<1>2. market[f].pools = [k \in Outcomes |-> 0]
    BY <1>1 DEF AccountsAgree, MarketAgrees, AbsentMarket
<1>3. \A o \in Owners : ~position[f][o].claimed
    BY <1>1, UnresolvedUnclaimed
<1>4. Total(Paid(f)) = 0
    BY <1>3, NothingPaid
<1>5. Total(Paid(f))' = 0
    BY <1>1, <1>3, NothingPaidNext
<1>6. TotalPool(market'[f]) = TotalPool(market[f])
    BY <1>1, <1>2 DEF TotalPool
<1>. QED
    BY <1>1, <1>4, <1>5, <1>6 DEF EscrowExactIn

LEMMA PlaceEscrow ==
    ASSUME TypeOK, AccountsAgree, NEW f \in Fixtures, EscrowExactIn(f),
           NEW o \in Owners, NEW m \in Mints, NEW k \in 0..COUNT,
           NEW amount \in Nat, Place(o, f, m, k, amount)
    PROVE  EscrowExactIn(f)'
<1>m. Placed(f, k, amount)
    BY PlaceEffect
<1>1. /\ market[f].state = "Open"
      /\ market'[f].pools = [market[f].pools EXCEPT ![k] = @ + amount]
      /\ vault'[f] = vault[f] + amount
      /\ amount \in Nat /\ k \in Outcomes
    BY <1>m DEF Placed
<1>p. PlacedBy(o, f, k, amount)
    BY PlacePosition
<1>2. /\ position'[f][o].claimed = FALSE
      /\ \A p \in Owners \ {o} : position'[f][p] = position[f][p]
    BY <1>p DEF PlacedBy
<1>3. \A p \in Owners : ~position[f][p].claimed
    BY <1>1, UnresolvedUnclaimed
<1>4. Total(Paid(f)) = 0
    BY <1>3, NothingPaid
<1>5. \A p \in Owners : ~position'[f][p].claimed
    BY <1>2, <1>3
<1>6. Total(Paid(f))' = 0
    BY <1>5, NothingPaidNext
<1>7. market[f] \in MarketType
    BY DEF TypeOK
<1>8. TotalPool(market'[f]) = TotalPool(market[f]) + amount
  <2>1. /\ \A j \in Outcomes : market[f].pools[j] \in Nat
        /\ \A j \in Outcomes : market'[f].pools[j] = market[f].pools[j] + (IF j = k THEN amount ELSE 0)
    BY <1>1, <1>7, PoolTypes
  <2>. QED
    BY <1>1, <2>1 DEF TotalPool, P1Win, Draw, P2Win, Outcomes, COUNT
<1>9. vault[f] \in Nat
    BY Inputs DEF TypeOK
<1>10. TotalPool(market[f]) \in Nat
    BY <1>7, PoolTypes
<1>. QED
    BY <1>1, <1>4, <1>6, <1>8, <1>9, <1>10 DEF EscrowExactIn

LEMMA ResolveEscrow ==
    ASSUME TypeOK, AccountsAgree, NEW f \in Fixtures, EscrowExactIn(f),
           NEW payload \in PayloadType, NEW strategy,
           NEW roots, Resolve(f, payload, strategy, roots)
    PROVE  EscrowExactIn(f)'
<1>1. /\ market[f].state = "Open"
      /\ position' = position /\ vault' = vault
    BY DEF Resolve, tokens
<1>2. market'[f].pools = market[f].pools
    BY DEF Resolve, TypeOK, MarketType
<1>3. \A p \in Owners : ~position[f][p].claimed
    BY <1>1, UnresolvedUnclaimed
<1>4. Total(Paid(f)) = 0
    BY <1>3, NothingPaid
<1>5. Total(Paid(f))' = 0
    BY <1>1, <1>3, NothingPaidNext
<1>. QED
    BY <1>1, <1>2, <1>4, <1>5 DEF EscrowExactIn, TotalPool

LEMMA ClaimEscrow ==
    ASSUME TypeOK, AccountsAgree, TypeOK', AccountsAgree',
           NEW f \in Fixtures, EscrowExactIn(f),
           NEW o \in Owners, NEW m \in Mints, Claim(o, f, m)
    PROVE  EscrowExactIn(f)'
<1>. DEFINE payout == Payout(market[f], position[f][o])
            a == Paid(f)
            b == Paid(f)'
<1>c. Claimed(o, f, payout)
    BY ClaimEffect
<1>1. /\ MayClaim(f, o)
      /\ position'[f][o] = [position[f][o] EXCEPT !.claimed = TRUE]
      /\ \A p \in Owners \ {o} : position'[f][p] = position[f][p]
      /\ market' = market
    BY <1>c DEF Claimed
<1>2. payout \in Nat /\ payout <= vault[f] /\ vault'[f] = vault[f] - payout
    BY <1>c DEF Claimed
<1>3. \A p \in 1..NumOwners : p # o => a[p] = b[p]
    BY <1>1 DEF Paid, Owners
<1>4. /\ position'[f][o].claimed
      /\ position'[f][o].outcome = position[f][o].outcome
      /\ position'[f][o].amount = position[f][o].amount
    BY <1>1 DEF TypeOK, PositionType
<1>5. Payout(market[f], position'[f][o]) = payout
    BY <1>4 DEF Payout
<1>6. a[o] = 0 /\ b[o] = payout
    BY <1>1, <1>4, <1>5 DEF Paid, MayClaim
<1>7. \A p \in 1..NumOwners : a[p] \in Nat
    BY PaidType
<1>8. \A p \in 1..NumOwners : b[p] \in Nat
    BY <1>2, <1>3, <1>6, <1>7
<1>9. NumOwners \in Nat /\ o \in 1..NumOwners
    BY Inputs DEF Owners
<1>. HIDE DEF a, b, payout
<1>10. SumUpTo(b, NumOwners) = SumUpTo(a, NumOwners) - a[o] + b[o]
    BY <1>3, <1>7, <1>8, <1>9, SumUpdate
<1>11. SumUpTo(a, NumOwners) \in Nat
    BY <1>7, <1>9, SumIsNat
<1>12. vault[f] \in Nat
    BY Inputs DEF TypeOK
<1>13. vault[f] + SumUpTo(a, NumOwners) = TotalPool(market[f])
    BY DEF EscrowExactIn, Total, a
<1>14. vault'[f] + SumUpTo(b, NumOwners) = TotalPool(market[f])
    BY <1>2, <1>6, <1>10, <1>11, <1>12, <1>13
<1>. QED
    BY <1>1, <1>14 DEF EscrowExactIn, Total, b

LEMMA NextEscrowExact ==
    TypeOK /\ TypeOK' /\ AccountsAgree /\ AccountsAgree' /\ EscrowExact /\ [ChainNext]_vars
        => EscrowExact'
<1>. SUFFICES ASSUME TypeOK, TypeOK', AccountsAgree, AccountsAgree', EscrowExact,
                     [ChainNext]_vars, NEW f \in Fixtures
              PROVE  EscrowExactIn(f)'
    BY DEF EscrowExact, EscrowExactIn
<1>0. EscrowExactIn(f)
    BY DEF EscrowExact, EscrowExactIn
<1>1. ASSUME NEW g \in Fixtures, NEW m \in Mints, NEW close_ts \in Int,
             CreateMarket(g, m, close_ts)
      PROVE  EscrowExactIn(f)'
  <2>1. CASE f = g
    BY <1>0, <1>1, <2>1, CreateEscrow
  <2>2. CASE f # g
    <3>1. vault'[f] = vault[f] /\ market'[f] = market[f] /\ position'[f] = position[f]
      BY <1>1, <2>2 DEF CreateMarket, tokens, TypeOK
    <3>. QED
      BY <1>0, <3>1, SameEscrow
  <2>. QED
    BY <2>1, <2>2
<1>2. ASSUME NEW o \in Owners, NEW g \in Fixtures, NEW m \in Mints,
             NEW k \in 0..COUNT, NEW amount \in Nat, Place(o, g, m, k, amount)
      PROVE  EscrowExactIn(f)'
  <2>1. CASE f = g
    BY <1>0, <1>2, <2>1, PlaceEscrow
  <2>2. CASE f # g
    <3>m. Placed(g, k, amount)
      BY <1>2, PlaceEffect
    <3>p. PlacedBy(o, g, k, amount)
      BY <1>2, PlacePosition
    <3>1. vault'[f] = vault[f] /\ market'[f] = market[f]
      BY <2>2, <3>m DEF Placed
    <3>2. position'[f] = position[f]
      BY <2>2, <3>p DEF PlacedBy
    <3>. QED
      BY <1>0, <3>1, <3>2, SameEscrow
  <2>. QED
    BY <2>1, <2>2
<1>3. ASSUME NEW g \in Fixtures, NEW payload \in PayloadType, NEW strategy,
             NEW roots, Resolve(g, payload, strategy, roots)
      PROVE  EscrowExactIn(f)'
  <2>1. CASE f = g
    BY <1>0, <1>3, <2>1, ResolveEscrow
  <2>2. CASE f # g
    <3>1. vault'[f] = vault[f] /\ market'[f] = market[f] /\ position'[f] = position[f]
      BY <1>3, <2>2 DEF Resolve, tokens, TypeOK
    <3>. QED
      BY <1>0, <3>1, SameEscrow
  <2>. QED
    BY <2>1, <2>2
<1>4. ASSUME NEW p \in Owners, NEW g \in Fixtures, NEW m \in Mints, Claim(p, g, m)
      PROVE  EscrowExactIn(f)'
  <2>1. CASE f = g
    BY <1>0, <1>4, <2>1, ClaimEscrow
  <2>2. CASE f # g
    <3>c. Claimed(p, g, Payout(market[g], position[g][p]))
      BY <1>4, ClaimEffect
    <3>1. vault'[f] = vault[f] /\ market'[f] = market[f] /\ position'[f] = position[f]
      BY <2>2, <3>c DEF Claimed
    <3>. QED
      BY <1>0, <3>1, SameEscrow
  <2>. QED
    BY <2>1, <2>2
<1>5. CASE Tick \/ AnyIssue \/ Publish \/ UNCHANGED vars
  <2>1. UNCHANGED <<market, position, vault>>
    BY <1>5 DEF Tick, AnyIssue, MintTo, Publish, PublishScores, vars, tokens
  <2>. QED
    BY <1>0, <2>1, SameEscrow
<1>. QED
    BY <1>1, <1>2, <1>3, <1>4, <1>5 DEF ChainNext, AnyCreate, AnyBet, AnySettle, Collect

LEMMA UncalledEscrowExact == Uncalled => EscrowExact
<1>. SUFFICES ASSUME Uncalled, NEW f \in Fixtures PROVE EscrowExactIn(f)
    BY DEF EscrowExact, EscrowExactIn
<1>1. \A o \in Owners : ~position[f][o].claimed
    BY DEF Uncalled, FreshPosition
<1>2. Total(Paid(f)) = 0
    BY <1>1, NothingPaid
<1>3. vault[f] = 0 /\ TotalPool(market[f]) = 0
    BY DEF Uncalled, AbsentMarket, TotalPool, P1Win, Draw, P2Win, Outcomes, COUNT
<1>. QED
    BY <1>2, <1>3 DEF EscrowExactIn

(* The vault of every market holds, to the base unit, what was staked in it *)
(* less what claim has paid out of it.                                      *)
THEOREM EscrowAlwaysExact == Spec => []EscrowExact
<1>1. Init => EscrowExact
    BY InitUncalled, UncalledEscrowExact
<1>. QED
    BY <1>1, TypeCorrect, AccountsAlwaysAgree, NextEscrowExact, NextIsChain, PTL DEF Spec

-----------------------------------------------------------------------------
(* Solvency *)

(* What every position of a resolved market is due, claimed or not. *)
IsDue(f, o) == IsStaked(f, o) /\ IsEntitled(market[f], position[f][o])
Due(f) == [o \in Owners |-> IF IsDue(f, o) THEN Payout(market[f], position[f][o]) ELSE 0]

(* The winners are due the floored shares of the pot ... *)
LEMMA DueIsShare ==
    ASSUME TypeOK, NEW f \in Fixtures, market[f].outcome # NoOutcome,
           WinningPool(market[f]) # 0, NEW o \in 1..NumOwners
    PROVE  Due(f)[o] = (Stakes(f, market[f].outcome)[o] * TotalPool(market[f]))
                          \div WinningPool(market[f])
<1>. DEFINE mk == market[f]
            won == Stakes(f, mk.outcome)
            due == Due(f)
<1>1. mk \in MarketType /\ mk.outcome \in Outcomes
    BY DEF TypeOK, MarketType
<1>2. TotalPool(mk) \in Nat /\ WinningPool(mk) \in Nat
    BY <1>1, PoolTypes DEF WinningPool
<1>3. CASE IsDue(f, o)
  <2>1. won[o] = position[f][o].amount /\ due[o] = Payout(mk, position[f][o])
    BY <1>3 DEF IsDue, IsEntitled, Stakes, Due, Owners
  <2>. QED
    BY <2>1 DEF Payout
<1>4. CASE ~IsDue(f, o)
  <2>1. won[o] = 0 /\ due[o] = 0
    BY <1>4 DEF IsDue, IsEntitled, Stakes, Due, Owners
  <2>. HIDE DEF won, due
  <2>2. 0 * TotalPool(mk) = 0
    BY <1>2
  <2>3. 0 \div WinningPool(mk) = 0
    BY <1>2
  <2>4. due[o] = (won[o] * TotalPool(mk)) \div WinningPool(mk)
    BY <2>1, <2>2, <2>3
  <2>. QED
    BY <2>4 DEF won, due
<1>. QED
    BY <1>3, <1>4

(* ... unless there are none, when all the stakes are handed back.          *)
LEMMA StakesAreHandedBack ==
    ASSUME TypeOK, PoolsMatchPositions, NEW f \in Fixtures,
           market[f].outcome # NoOutcome, WinningPool(market[f]) = 0
    PROVE  /\ \A o \in 1..NumOwners : Due(f)[o] \in Nat
           /\ Total(Due(f)) = TotalPool(market[f])
<1>. DEFINE mk == market[f]
            due == Due(f)
            s0 == Stakes(f, P1Win)
            s1 == Stakes(f, Draw)
            s2 == Stakes(f, P2Win)
            s01 == [o \in 1..NumOwners |-> s0[o] + s1[o]]
<1>1. /\ \A k \in Outcomes : mk.pools[k] \in Nat
      /\ P1Win \in Outcomes /\ Draw \in Outcomes /\ P2Win \in Outcomes
    BY PoolTypes DEF TypeOK
<1>2. NumOwners \in Nat
    BY Inputs
<1>3. \A o \in 1..NumOwners : s0[o] \in Nat /\ s1[o] \in Nat /\ s2[o] \in Nat
    BY <1>1, StakesType
<1>4. \A o \in 1..NumOwners : s01[o] \in Nat /\ s01[o] = s0[o] + s1[o]
    BY <1>3
<1>5. \A o \in 1..NumOwners : due[o] = s01[o] + s2[o]
  <2>1. \A o \in Owners : position[f][o].amount \in Nat /\ position[f][o].outcome \in Outcomes
    BY Inputs DEF TypeOK, PositionType
  <2>. QED
    BY <2>1 DEF Due, IsDue, IsEntitled, Payout, Stakes, Owners, Outcomes, COUNT,
       P1Win, Draw, P2Win
<1>6. /\ SumUpTo(s0, NumOwners) = mk.pools[P1Win]
      /\ SumUpTo(s1, NumOwners) = mk.pools[Draw]
      /\ SumUpTo(s2, NumOwners) = mk.pools[P2Win]
    BY <1>1 DEF PoolsMatchPositions, Total
<1>. HIDE DEF s0, s1, s2, s01, due
<1>7. SumUpTo(s01, NumOwners) = SumUpTo(s0, NumOwners) + SumUpTo(s1, NumOwners)
    BY <1>2, <1>3, <1>4, SumAddition
<1>8. SumUpTo(due, NumOwners) = SumUpTo(s01, NumOwners) + SumUpTo(s2, NumOwners)
    BY <1>2, <1>3, <1>4, <1>5, SumAddition
<1>9. SumUpTo(due, NumOwners) = TotalPool(mk)
    BY <1>1, <1>6, <1>7, <1>8 DEF TotalPool
<1>10. \A o \in 1..NumOwners : due[o] \in Nat
    BY <1>3, <1>4, <1>5
<1>. QED
    BY <1>9, <1>10 DEF Total, due

(* A parimutuel pot covers everything it is due to pay.                     *)
LEMMA DueFits ==
    ASSUME TypeOK, PoolsMatchPositions, NEW f \in Fixtures, market[f].outcome # NoOutcome
    PROVE  /\ \A o \in 1..NumOwners : Due(f)[o] \in Nat
           /\ Total(Due(f)) <= TotalPool(market[f])
<1>. DEFINE mk == market[f]
            won == Stakes(f, mk.outcome)
            due == Due(f)
<1>1. mk \in MarketType /\ mk.outcome \in Outcomes
    BY DEF TypeOK, MarketType
<1>2. TotalPool(mk) \in Nat /\ NumOwners \in Nat
    BY <1>1, PoolTypes, Inputs
<1>3. CASE WinningPool(mk) = 0
    BY <1>2, <1>3, StakesAreHandedBack
<1>4. CASE WinningPool(mk) # 0
  <2>1. SumUpTo(won, NumOwners) = WinningPool(mk)
    BY <1>1 DEF WinningPool, PoolsMatchPositions, Total
  <2>2. \A o \in 1..NumOwners : won[o] \in Nat
    BY <1>1, StakesType
  <2>3. \A o \in 1..NumOwners : due[o] = (won[o] * TotalPool(mk)) \div WinningPool(mk)
    BY <1>4, DueIsShare
  <2>. HIDE DEF won, due
  <2>4. /\ \A o \in 1..NumOwners : due[o] \in Nat
        /\ SumUpTo(due, NumOwners) <= TotalPool(mk)
    BY <1>2, <1>4, <2>1, <2>2, <2>3, FloorSharesFit
  <2>. QED
    BY <2>4 DEF Total, due
<1>. QED
    BY <1>3, <1>4

(* What is due is owed, or has been paid.                                   *)
LEMMA DueIsOwedOrPaid ==
    ASSUME TypeOK, AccountsAgree, PoolsMatchPositions,
           NEW f \in Fixtures, market[f].state = "Resolved"
    PROVE  /\ \A o \in 1..NumOwners : Owed(f)[o] \in Nat /\ Paid(f)[o] \in Nat
           /\ Total(Owed(f)) \in Nat /\ Total(Paid(f)) \in Nat
           /\ Total(Due(f)) = Total(Owed(f)) + Total(Paid(f))
<1>1. market[f].outcome # NoOutcome
    BY DEF AccountsAgree, MarketAgrees
<1>2. ASSUME NEW o \in 1..NumOwners
      PROVE  /\ Owed(f)[o] \in Nat /\ Paid(f)[o] \in Nat
             /\ Due(f)[o] = Owed(f)[o] + Paid(f)[o]
  <2>1. Due(f)[o] \in Nat
    BY <1>1, DueFits
  <2>2. CASE position[f][o].claimed
    <3>1. IsDue(f, o)
      BY <2>2 DEF AccountsAgree, PositionAgrees, IsDue, Owners
    <3>2. Due(f)[o] = Paid(f)[o] /\ Owed(f)[o] = 0
      BY <2>2, <3>1 DEF Due, Paid, Owed, MayClaim, Owners
    <3>. QED
      BY <2>1, <3>2
  <2>3. CASE ~position[f][o].claimed
    <3>1. Due(f)[o] = Owed(f)[o] /\ Paid(f)[o] = 0
      BY <1>1, <2>3 DEF Due, Paid, Owed, MayClaim, IsDue, IsStaked, Owners
    <3>. QED
      BY <2>1, <3>1
  <2>. QED
    BY <2>2, <2>3
<1>3. NumOwners \in Nat
    BY Inputs
<1>4. SumUpTo(Due(f), NumOwners) = SumUpTo(Owed(f), NumOwners) + SumUpTo(Paid(f), NumOwners)
    BY <1>2, <1>3, SumAddition
<1>5. \A o \in 1..NumOwners : Owed(f)[o] \in Nat
    BY <1>2
<1>6. \A o \in 1..NumOwners : Paid(f)[o] \in Nat
    BY <1>2
<1>7. SumUpTo(Owed(f), NumOwners) \in Nat
    BY <1>3, <1>5, SumIsNat
<1>8. SumUpTo(Paid(f), NumOwners) \in Nat
    BY <1>3, <1>6, SumIsNat
<1>. QED
    BY <1>4, <1>5, <1>6, <1>7, <1>8 DEF Total

(* The vault covers what is owed: what is due fits the pot, and what is not *)
(* owed any more of it is exactly what the vault is short of the pot.       *)
LEMMA EscrowCoversOwed ==
    TypeOK /\ AccountsAgree /\ PoolsMatchPositions /\ EscrowExact => Solvency
<1>. SUFFICES ASSUME TypeOK, AccountsAgree, PoolsMatchPositions, EscrowExact,
                     NEW f \in Fixtures
              PROVE  Total(Owed(f)) <= vault[f]
    BY DEF Solvency
<1>0. vault[f] \in Nat /\ NumOwners \in Nat
    BY Inputs DEF TypeOK
<1>1. CASE market[f].state # "Resolved"
  <2>1. \A o \in 1..NumOwners : Owed(f)[o] = 0
    BY <1>1 DEF Owed, MayClaim, Owners
  <2>2. Total(Owed(f)) = 0
    BY <1>0, <2>1, SumOfZeroes DEF Total
  <2>. QED
    BY <1>0, <2>2
<1>2. CASE market[f].state = "Resolved"
  <2>1. Total(Due(f)) <= TotalPool(market[f])
    BY <1>2, DueFits DEF AccountsAgree, MarketAgrees
  <2>2. /\ Total(Owed(f)) \in Nat /\ Total(Paid(f)) \in Nat
        /\ Total(Due(f)) = Total(Owed(f)) + Total(Paid(f))
    BY <1>2, DueIsOwedOrPaid
  <2>3. vault[f] + Total(Paid(f)) = TotalPool(market[f])
    BY DEF EscrowExact
  <2>. QED
    BY <1>0, <2>1, <2>2, <2>3
<1>. QED
    BY <1>1, <1>2

(* Whoever claims first, and however the payouts are rounded, the vault of  *)
(* a market always covers every payout claim still owes.                    *)
THEOREM AlwaysSolvent == Spec => []Solvency
<1>. QED
    BY EscrowCoversOwed, TypeCorrect, AccountsAlwaysAgree, PoolsAlwaysMatch,
       EscrowAlwaysExact, PTL

-----------------------------------------------------------------------------
LEMMA QuotientBound ==
    ASSUME NEW a \in Nat, NEW w \in Nat \ {0}, NEW x \in Nat, a * w <= x
    PROVE  a <= x \div w
<1>1. /\ x \div w \in Nat
      /\ x < (x \div w) * w + w
    OBVIOUS
<1>2. ASSUME x \div w < a PROVE FALSE
  <2>. DEFINE q == x \div w
  <2>. HIDE DEF q
  <2>1. q \in Nat /\ q + 1 <= a
    BY <1>1, <1>2 DEF q
  <2>2. (q + 1) * w <= a * w
    BY <2>1
  <2>3. (q + 1) * w = q * w + w
    BY <2>1
  <2>4. x < q * w + w
    BY <1>1 DEF q
  <2>. QED
    BY <2>1, <2>2, <2>3, <2>4
<1>. QED
    BY <1>1, <1>2

LEMMA PayoutCoversStake ==
    ASSUME NEW mk \in MarketType, NEW p \in PositionType, mk.outcome # NoOutcome
    PROVE  p.amount <= Payout(mk, p)
<1>1. /\ p.amount \in Nat
      /\ TotalPool(mk) \in Nat
      /\ WinningPool(mk) \in Nat
      /\ WinningPool(mk) <= TotalPool(mk)
  <2>1. mk.outcome \in Outcomes
    BY DEF MarketType
  <2>. QED
    BY <2>1, PoolTypes, Inputs DEF WinningPool, PositionType
<1>2. CASE WinningPool(mk) = 0
    BY <1>1, <1>2 DEF Payout
<1>3. CASE WinningPool(mk) # 0
  <2>. DEFINE a == p.amount
              w == WinningPool(mk)
              t == TotalPool(mk)
  <2>1. Payout(mk, p) = (a * t) \div w
    BY <1>3 DEF Payout
  <2>. HIDE DEF a, w, t
  <2>2. a \in Nat /\ w \in Nat \ {0} /\ t \in Nat /\ w <= t
    BY <1>1, <1>3 DEF a, w, t
  <2>3. a * w <= a * t /\ a * t \in Nat
    BY <2>2
  <2>4. a <= (a * t) \div w
    BY <2>2, <2>3, QuotientBound
  <2>. QED
    BY <2>1, <2>4 DEF a
<1>. QED
    BY <1>2, <1>3

(* A position that may claim is never paid less than it staked.             *)
THEOREM WinnersNeverLose == Spec => []WinnerNeverLoses
<1>1. TypeOK => WinnerNeverLoses
  <2>. SUFFICES ASSUME TypeOK, NEW f \in Fixtures, NEW o \in Owners, MayClaim(f, o)
                PROVE  Payout(market[f], position[f][o]) >= position[f][o].amount
    BY DEF WinnerNeverLoses
  <2>1. market[f] \in MarketType /\ position[f][o] \in PositionType
    BY DEF TypeOK
  <2>2. market[f].outcome # NoOutcome
    BY DEF MayClaim
  <2>3. position[f][o].amount <= Payout(market[f], position[f][o])
    BY <2>1, <2>2, PayoutCoversStake
  <2>4. Payout(market[f], position[f][o]) \in Nat /\ position[f][o].amount \in Nat
    BY <2>1, <2>2, PayoutType, Inputs DEF PositionType
  <2>. QED
    BY <2>3, <2>4
<1>. QED
    BY <1>1, TypeCorrect, PTL
=============================================================================
