----------------------------- MODULE NaturalFacts -----------------------------
(***************************************************************************)
(* Facts about natural numbers that the proofs about the data algorithms   *)
(* use: least elements, induction over a set, functions defined by         *)
(* recursion, powers of two and remainders.                                *)
(***************************************************************************)
EXTENDS Integers, FiniteSetTheorems, NaturalsInduction, WellFoundedInduction,
        TLAPS

\* A set of naturals that is not empty has a least element.
LEMMA LeastNat ==
  ASSUME NEW T \in SUBSET Nat, T # {}
  PROVE  \E x \in T : \A y \in T : x <= y
<1> DEFINE R == {ss \in Nat \X Nat : ss[1] < ss[2]}
<1>1. IsWellFoundedOn(R, Nat)
  BY NatLessThanWellFounded DEF OpToRel
<1>2. \A x, y \in Nat : ~(<<y, x>> \in R) => x <= y
  OBVIOUS
<1> HIDE DEF R
<1>3. PICK x \in T : \A y \in T : ~(<<y, x>> \in R)
  BY <1>1, WFMin
<1>4. \A y \in T : x <= y
  BY <1>2, <1>3
<1> QED
  BY <1>4

\* So a set that holds zero, and with a number the next one, holds them all.
LEMMA NatInd ==
  ASSUME NEW G \in SUBSET Nat, 0 \in G, \A n \in G : n + 1 \in G
  PROVE  G = Nat
<1> SUFFICES ASSUME Nat \ G # {} PROVE FALSE
  OBVIOUS
<1>1. PICK x \in Nat \ G : \A y \in Nat \ G : x <= y
  BY LeastNat
<1>2. x - 1 \in G
  BY <1>1
<1> QED
  BY <1>1, <1>2

\* The value of a function given by its first value and how one value follows
\* from the one before.
LEMMA RecursiveFunction ==
  ASSUME NEW c, NEW D(_, _), NEW f,
         f = CHOOSE g : g = [n \in Nat |-> IF n = 0 THEN c
                                                   ELSE D(g[n - 1], n)]
  PROVE  f = [n \in Nat |-> IF n = 0 THEN c ELSE D(f[n - 1], n)]
<1>1. NatInductiveDefHypothesis(f, c, D)
  BY DEF NatInductiveDefHypothesis
<1>2. NatInductiveDefConclusion(f, c, D)
  BY <1>1, NatInductiveDef
<1> QED
  BY <1>2 DEF NatInductiveDefConclusion

\* Powers of two are the sizes of power sets.
LEMMA PowersOfTwo ==
  /\ 2^0 = 1
  /\ \A n \in Nat : 2^n \in Nat \ {0}
  /\ \A n \in Nat : 2^(n + 1) = 2 * 2^n
<1>1. \A n \in Nat : /\ IsFiniteSet(1 .. n) /\ IsFiniteSet(SUBSET (1 .. n))
                     /\ Cardinality(SUBSET (1 .. n)) = 2^n
  <2> TAKE n \in Nat
  <2>1. IsFiniteSet(1 .. n) /\ Cardinality(1 .. n) = n
    BY FS_Interval
  <2> QED
    BY <2>1, FS_SUBSET
<1>2. ASSUME NEW n \in Nat
      PROVE  2^n \in Nat \ {0}
  <2>1. SUBSET (1 .. n) # {}
    OBVIOUS
  <2> QED
    BY <1>1, <2>1, FS_CardinalityType, FS_EmptySet
<1>3. ASSUME NEW n \in Nat
      PROVE  2^(n + 1) = 2 * 2^n
  <2> DEFINE P == SUBSET (1 .. n)
             Q == {T \cup {n + 1} : T \in P}
             f == [T \in P |-> T \cup {n + 1}]
  <2>1. IsFiniteSet(P) /\ Cardinality(P) = 2^n
    BY <1>1
  <2>2. f \in Bijection(P, Q)
    <3>1. \A T \in P : n + 1 \notin T
      OBVIOUS
    <3>2. \A T, U \in P : f[T] = f[U] => T = U
      BY <3>1
    <3>3. f \in [P -> Q] /\ \A y \in Q : \E T \in P : f[T] = y
      OBVIOUS
    <3> HIDE DEF f, P, Q
    <3>4. f \in Injection(P, Q)
      BY <3>2, <3>3 DEF Injection, IsInjective
    <3>5. f \in Surjection(P, Q)
      BY <3>3 DEF Surjection
    <3> QED
      BY <3>4, <3>5 DEF Bijection
  <2>3. IsFiniteSet(Q) /\ Cardinality(Q) = 2^n
    BY <2>1, <2>2, FS_Bijection DEF ExistsBijection
  <2>4. P \cap Q = {}
    <3>1. \A T \in P : n + 1 \notin T
      OBVIOUS
    <3> QED
      BY <3>1
  <2>5. SUBSET (1 .. n + 1) = P \cup Q
    <3>1. ASSUME NEW T \in SUBSET (1 .. n + 1), n + 1 \in T
          PROVE  T \in Q
      <4>1. T \ {n + 1} \in P /\ T = (T \ {n + 1}) \cup {n + 1}
        BY <3>1
      <4> QED
        BY <4>1
    <3>2. ASSUME NEW T \in SUBSET (1 .. n + 1), n + 1 \notin T
          PROVE  T \in P
      BY <3>2
    <3>3. \A T \in P \cup Q : T \in SUBSET (1 .. n + 1)
      OBVIOUS
    <3> HIDE DEF P, Q
    <3> QED
      BY <3>1, <3>2, <3>3
  <2>6. Cardinality(P \cup Q) = 2^n + 2^n
    <3>1. Cardinality(P \cap Q) = 0
      BY <2>4, FS_EmptySet
    <3>2. Cardinality(P \cup Q) =
            Cardinality(P) + Cardinality(Q) - Cardinality(P \cap Q)
      BY <2>1, <2>3, FS_Union
    <3> QED
      BY <1>2, <2>1, <2>3, <3>1, <3>2
  <2> HIDE DEF P, Q
  <2>7. Cardinality(SUBSET (1 .. n + 1)) = 2^(n + 1)
    <3>1. n + 1 \in Nat
      OBVIOUS
    <3> QED
      BY <1>1, <3>1
  <2>8. \A x \in Nat : x + x = 2 * x
    OBVIOUS
  <2>9. 2^n + 2^n = 2 * 2^n
    BY <1>2, <2>8
  <2> QED
    BY <2>5, <2>6, <2>7, <2>9
<1>4. 2^0 = 1
  OBVIOUS
<1> QED
  BY <1>2, <1>3, <1>4

\* They grow with the exponent.
LEMMA PowersGrow ==
  \A k, n \in Nat : k <= n => 2^k <= 2^n
<1> DEFINE G == {j \in Nat : \A k \in Nat : 2^k <= 2^(k + j)}
<1>1. 0 \in G
  <2>1. \A k \in Nat : k + 0 = k
    OBVIOUS
  <2> QED
    BY <2>1, PowersOfTwo
<1>2. \A j \in G : j + 1 \in G
  <2> TAKE j \in G
  <2>1. ASSUME NEW k \in Nat
        PROVE  2^k <= 2^(k + (j + 1))
    <3>1. k + j \in Nat /\ k + (j + 1) = (k + j) + 1
      OBVIOUS
    <3> QED
      BY <3>1, PowersOfTwo
  <2> QED
    BY <2>1
<1>3. G = Nat
  BY <1>1, <1>2, NatInd
<1> TAKE k, n \in Nat
<1> HAVE k <= n
<1>4. n - k \in Nat /\ k + (n - k) = n
  OBVIOUS
<1>5. n - k \in G
  BY <1>3, <1>4
<1> HIDE DEF G
<1>6. \A j \in G : 2^k <= 2^(k + j)
  BY DEF G
<1> QED
  BY <1>4, <1>5, <1>6

\* What \div and % are.
LEMMA DivMod ==
  \A w \in Nat \ {0} : \A a \in Int :
    /\ a % w \in 0 .. w - 1 /\ a \div w \in Int
    /\ a = w * (a \div w) + (a % w)
  OBVIOUS

\* And that nothing else is.
LEMMA DivModUnique ==
  \A w \in Nat \ {0} : \A q \in Int : \A r \in 0 .. w - 1 :
    (w * q + r) % w = r /\ (w * q + r) \div w = q
  OBVIOUS

\* Multiples of the divisor do not show in the remainder.
LEMMA ModShift ==
  \A w \in Nat \ {0} : \A a, q \in Int : (a + w * q) % w = a % w
<1> TAKE w \in Nat \ {0}
<1> TAKE a, q \in Int
<1>1. /\ a % w \in 0 .. w - 1 /\ a \div w \in Int
      /\ a = w * (a \div w) + (a % w)
  BY DivMod
<1>2. w * q \in Int /\ w * (a \div w) \in Int
  BY <1>1
<1>3. w * ((a \div w) + q) = w * (a \div w) + w * q
  BY <1>1
<1>4. a + w * q = w * ((a \div w) + q) + (a % w)
  BY <1>1, <1>2, <1>3
<1>5. (a \div w) + q \in Int
  BY <1>1
<1> QED
  BY <1>1, <1>4, <1>5, DivModUnique

\* So a sum or a square may be taken of the remainders.
LEMMA ModSum ==
  \A w \in Nat \ {0} : \A a, b \in Int : ((a % w) + b) % w = (a + b) % w
<1> TAKE w \in Nat \ {0}
<1> TAKE a, b \in Int
<1> DEFINE q == a \div w
           r == a % w
<1>1. r \in Int /\ q \in Int /\ w * q \in Int /\ a = w * q + r
  BY DivMod
<1> HIDE DEF q, r
<1>2. a + b = (r + b) + w * q /\ r + b \in Int
  BY <1>1
<1>3. ((r + b) + w * q) % w = (r + b) % w
  <2> HIDE DEF q
  <2>1. \A x \in Int : (x + w * q) % w = x % w
    BY <1>1, ModShift
  <2> QED
    BY <1>2, <2>1
<1> QED
  BY <1>2, <1>3 DEF r

\* The same for a square.
LEMMA ModSquare ==
  \A w \in Nat \ {0} : \A a \in Int : ((a % w) * (a % w)) % w = (a * a) % w
<1> TAKE w \in Nat \ {0}
<1> TAKE a \in Int
<1> DEFINE q == a \div w
           r == a % w
<1>1. r \in Int /\ q \in Int /\ w * q \in Int /\ a = w * q + r
  BY DivMod
<1> HIDE DEF q, r
<1>2. \A x, y, z \in Int : (x * y + z) * (x * y + z)
                           = z * z + x * (y * (x * y) + 2 * (y * z))
  OBVIOUS
<1>3. a * a = r * r + w * (q * (w * q) + 2 * (q * r))
  BY <1>1, <1>2
<1>4. r * r \in Int /\ q * (w * q) + 2 * (q * r) \in Int
  BY <1>1
<1>5. (a * a) % w = (r * r) % w
  BY <1>3, <1>4, ModShift
<1> QED
  BY <1>5 DEF r

\* A number below the divisor is its own remainder.
LEMMA ModSmall == \A w \in Nat \ {0} : \A a \in 0 .. w - 1 : a % w = a
  OBVIOUS

\* The quotient of a part of a sum.
LEMMA DivSplit ==
  \A w \in Nat \ {0} : \A a, b \in Nat :
    a \div w \in {((a + b) \div w) - (b \div w) - 1, ((a + b) \div w) - (b \div w)}
<1> TAKE w \in Nat \ {0}
<1> TAKE a, b \in Nat
<1> DEFINE qa == a \div w
           qb == b \div w
           ra == a % w
           rb == b % w
<1>1. /\ qa \in Int /\ qb \in Int /\ ra \in 0 .. w - 1 /\ rb \in 0 .. w - 1
      /\ a = w * qa + ra /\ b = w * qb + rb
  BY DivMod
<1> HIDE DEF qa, qb, ra, rb
<1>2. w * qa \in Int /\ w * qb \in Int /\ w * (qa + qb) = w * qa + w * qb
      /\ w * (qa + qb + 1) = w * qa + w * qb + w
  BY <1>1
<1>3. CASE ra + rb < w
  <2>1. a + b = w * (qa + qb) + (ra + rb) /\ ra + rb \in 0 .. w - 1
    BY <1>1, <1>2, <1>3
  <2>2. (a + b) \div w = qa + qb
    BY <1>1, <2>1, DivModUnique
  <2>3. qa = (qa + qb) - qb
    BY <1>1
  <2> QED
    BY <2>2, <2>3 DEF qa, qb
<1>4. CASE ra + rb >= w
  <2>1. /\ a + b = w * (qa + qb + 1) + (ra + rb - w)
        /\ ra + rb - w \in 0 .. w - 1
    BY <1>1, <1>2, <1>4
  <2>2. (a + b) \div w = qa + qb + 1
    BY <1>1, <2>1, DivModUnique
  <2>3. qa = (qa + qb + 1) - qb - 1
    BY <1>1
  <2> QED
    BY <2>2, <2>3 DEF qa, qb
<1> QED
  BY <1>1, <1>3, <1>4
=============================================================================
