------------------------------ MODULE Division -----------------------------
(***************************************************************************)
(* Facts about quotient and remainder that the proofs about bytes, words   *)
(* and addresses cite, and that a set of numbers has a least one.           *)
(***************************************************************************)
EXTENDS Integers, FiniteSetTheorems, TLAPS

LEMMA DivUnique ==
  ASSUME NEW N \in Nat \ {0}, NEW q \in Int, NEW r \in 0 .. N - 1
  PROVE  (q * N + r) \div N = q /\ (q * N + r) % N = r
  BY SMTT(30)

LEMMA DivMod ==
  ASSUME NEW N \in Nat \ {0}, NEW a \in Nat
  PROVE  a \div N \in Nat /\ (a % N) \in 0 .. N - 1 /\ a = (a \div N) * N + (a % N)
  BY SMTT(30)

LEMMA DivBelow ==
  ASSUME NEW N \in Nat \ {0}, NEW M \in Nat \ {0}, NEW a \in Nat, a < M * N
  PROVE  a \div N \in 0 .. M - 1
  BY SMTT(30)

LEMMA ModSmall ==
  ASSUME NEW N \in Nat \ {0}, NEW a \in 0 .. N - 1
  PROVE  a % N = a
  BY SMTT(30)

LEMMA ModNegative ==
  ASSUME NEW N \in Nat \ {0}, NEW a \in Int, -N <= a, a < 0
  PROVE  a % N = a + N
  BY SMTT(30)

LEMMA ModRange ==
  ASSUME NEW N \in Nat \ {0}, NEW a \in Int
  PROVE  (a % N) \in 0 .. N - 1
  BY SMTT(30)

LEMMA ProductNat ==
  ASSUME NEW a \in Nat, NEW b \in Nat
  PROVE  a * b \in Nat
  BY SMTT(30)

\* Going round a ring of N places.
LEMMA ModAdd ==
  ASSUME NEW N \in Nat \ {0}, NEW a \in Nat, NEW j \in Nat
  PROVE  (((a % N) + j) % N) = ((a + j) % N)
<1> DEFINE q == a \div N
           r == (a % N)
           s == r + j
           p == s \div N
           t == (s % N)
<1>1. q \in Nat /\ r \in 0 .. N - 1 /\ a = q * N + r BY DivMod
<1>2. s \in Nat BY <1>1
<1>3. p \in Nat /\ t \in 0 .. N - 1 /\ s = p * N + t BY <1>2, DivMod
<1>4. s = r + j OBVIOUS
<1> HIDE DEF q, r, p, t, s
<1>5. (q + p) * N = q * N + p * N BY <1>1, <1>3, SMTT(30)
<1>6. q * N \in Nat /\ p * N \in Nat BY <1>1, <1>3, ProductNat
<1>7. a + j = (q + p) * N + t BY <1>1, <1>3, <1>4, <1>5, <1>6
<1>8. (((q + p) * N + t) % N) = t BY <1>1, <1>3, DivUnique
<1> QED BY <1>7, <1>8 DEF r, s, t

LEMMA ModDifference ==
  ASSUME NEW N \in Nat \ {0}, NEW a \in Nat, NEW b \in Nat, a <= b, b - a < N
  PROVE  (((b % N) + N - (a % N)) % N) = b - a
<1> DEFINE q == a \div N
           r == (a % N)
           p == b \div N
           t == (b % N)
<1>1. q \in Nat /\ r \in 0 .. N - 1 /\ a = q * N + r BY DivMod
<1>2. p \in Nat /\ t \in 0 .. N - 1 /\ b = p * N + t BY DivMod
<1> HIDE DEF q, r, p, t
<1>3. (1 + q - p) * N = N + q * N - p * N BY <1>1, <1>2, SMTT(30)
<1>4. q * N \in Nat /\ p * N \in Nat BY <1>1, <1>2, ProductNat
<1>5. t + N - r = (1 + q - p) * N + (b - a) BY <1>1, <1>2, <1>3, <1>4
<1> DEFINE k == 1 + q - p
           d == b - a
<1>6. d \in 0 .. N - 1 /\ k \in Int BY <1>1, <1>2
<1>7. t + N - r = k * N + d BY <1>5
<1> HIDE DEF k, d
<1>8. ((k * N + d) % N) = d BY <1>6, DivUnique
<1>9. ((t + N - r) % N) = d BY <1>7, <1>8
<1> QED BY <1>9 DEF r, t, d

LEMMA ModDistinct ==
  ASSUME NEW N \in Nat \ {0}, NEW a \in Nat, NEW b \in Nat, a < b, b - a < N
  PROVE  (a % N) # (b % N)
<1>1. (((b % N) + N - (a % N)) % N) = b - a
  <2>1. a <= b OBVIOUS
  <2> QED BY <2>1, ModDifference
<1> SUFFICES ASSUME (a % N) = (b % N) PROVE FALSE OBVIOUS
<1>2. (b % N) \in 0 .. N - 1 BY DivMod
<1>3. (b % N) + N - (a % N) = 1 * N + 0 BY <1>2
<1>4. ((1 * N + 0) % N) = 0 BY DivUnique
<1> QED BY <1>1, <1>3, <1>4

LEMMA ModFull ==
  ASSUME NEW N \in Nat \ {0}, NEW a \in Nat
  PROVE  ((a + N) % N) = (a % N)
<1> DEFINE r == (a % N)
<1>1. r \in 0 .. N - 1 BY DivMod
<1>2. ((r + N) % N) = ((a + N) % N) BY ModAdd
<1> HIDE DEF r
<1>3. 1 * N + r = r + N BY <1>1
<1>4. ((1 * N + r) % N) = r BY <1>1, DivUnique
<1> QED BY <1>2, <1>3, <1>4 DEF r
-----------------------------------------------------------------------------
\* A set of numbers has a least one: of the intervals from 0 to its members,
\* which are finite, one holds no other.
LEMMA LeastNumber ==
  ASSUME NEW S \in SUBSET Nat, S # {}
  PROVE  \E m \in S : \A x \in S : m <= x
<1> DEFINE T == {0 .. k : k \in S}
<1>1. T \subseteq FiniteSubsetsOf(Nat) /\ T # {}
  <2>1. \A k \in Nat : IsFiniteSet(0 .. k) /\ 0 .. k \in SUBSET Nat BY FS_Interval
  <2>2. \A k \in Nat : 0 .. k \in FiniteSubsetsOf(Nat) BY <2>1 DEF FiniteSubsetsOf
  <2> QED BY <2>2
<1> HIDE DEF T
<1>2. IsWellFoundedOn(StrictSubsetOrdering(Nat), FiniteSubsetsOf(Nat))
  BY FS_StrictSubsetOrderingWellFounded
<1>3. \E t \in T : \A u \in T : ~ (<<u, t>> \in StrictSubsetOrdering(Nat))
  BY <1>1, <1>2, WFMin
<1>4. PICK t \in T : \A u \in T : ~ (<<u, t>> \in StrictSubsetOrdering(Nat))
  BY <1>3
<1>5. PICK m \in S : t = 0 .. m BY DEF T
<1>6. ASSUME NEW x \in S PROVE m <= x
  <2> SUFFICES ASSUME x < m PROVE FALSE OBVIOUS
  <2>1. 0 .. x \in T BY DEF T
  <2>2. 0 .. x \in SUBSET Nat /\ t \in SUBSET Nat /\ 0 .. x \subseteq t BY <1>5
  <2>3. m \in t /\ m \notin 0 .. x BY <1>5
  <2>4. <<0 .. x, t>> \in StrictSubsetOrdering(Nat) BY <2>2, <2>3 DEF StrictSubsetOrdering
  <2> QED BY <1>4, <2>1, <2>4
<1> QED BY <1>6

=============================================================================
