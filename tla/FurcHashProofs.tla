--------------------------- MODULE FurcHashProofs ---------------------------
(***************************************************************************)
(* The cache of furc_hash is large enough, for every number of tries, every *)
(* gap and every width of a word for which the rule of ch3_hash.h holds;   *)
(* the result is a shard of the pool; and when the pool grows by one shard *)
(* a key stays where it is or moves to the new shard.                      *)
(***************************************************************************)
EXTENDS FurcHash, NaturalFacts

\* The bits one try may skip: no more than FURC_SHIFT bits of the result, with
\* a gap for each.
PerTry == FURC_SHIFT * FURC_SHIFT

\* Where the stream can be read: the tries before, and the bits of this one.
Reach(tries, bits) == FURC_SHIFT + tries * PerTry + bits * FURC_SHIFT

FurcTypeOK ==
  /\ m \in Nat \ {0}
  /\ furc_pc \in {"bits", "try", "build", "returned"}
  /\ d \in Nat /\ a \in Nat /\ i \in Nat /\ num \in Nat
  /\ attempt \in 0 .. MAX_TRIES - 1
  /\ old_ord \in Nat
  /\ bucket \in Nat

\* The size of the pool bounds the bits, the bits and tries bound the index.
Bounds ==
  /\ m <= furc_maximum_pool_size
  /\ d <= FURC_SHIFT
  /\ furc_pc = "bits" => m > 1
  /\ furc_pc \in {"try", "build"} => d > 0
  /\ furc_pc = "try" => a <= Reach(attempt, 0)
  /\ furc_pc = "build" => i < d /\ a <= Reach(attempt, i + 1) /\ a >= FURC_SHIFT

FurcInv == FurcTypeOK /\ Bounds /\ CacheFilled /\ InPool

-----------------------------------------------------------------------------
LEMMA PerTryType == PerTry \in Nat
  BY FurcHashAssumption DEF PerTry

\* One more try reaches at least as far as all the bits of this one.
LEMMA NextTry ==
  ASSUME NEW t \in Nat, NEW b \in 0 .. FURC_SHIFT
  PROVE  Reach(t, b) <= Reach(t + 1, 0)
<1>1. b * FURC_SHIFT <= PerTry
  BY FurcHashAssumption DEF PerTry
<1>2. (t + 1) * PerTry = t * PerTry + PerTry
  BY PerTryType
<1>3. t * PerTry \in Nat /\ b * FURC_SHIFT \in Nat
  BY PerTryType, FurcHashAssumption
<1> QED
  BY <1>1, <1>2, <1>3, PerTryType, FurcHashAssumption DEF Reach

\* Another bit of this try.
LEMMA NextBitReach ==
  ASSUME NEW t \in Nat, NEW b \in Nat
  PROVE  Reach(t, b + 1) = Reach(t, b) + FURC_SHIFT /\ Reach(t, b) \in Nat
<1>1. t * PerTry \in Nat /\ b * FURC_SHIFT \in Nat
  BY PerTryType, FurcHashAssumption
<1>2. (b + 1) * FURC_SHIFT = b * FURC_SHIFT + FURC_SHIFT
  BY FurcHashAssumption
<1> QED
  BY <1>1, <1>2, FurcHashAssumption DEF Reach

\* An index within reach is in the cache.
LEMMA ReachInCache ==
  ASSUME NEW t \in 0 .. MAX_TRIES - 1, NEW b \in 0 .. FURC_SHIFT,
         NEW idx \in Nat, idx <= Reach(t, b)
  PROVE  Ord(idx) \in 0 .. FURC_CACHE_SIZE - 1
<1> DEFINE words_needed == MAX_TRIES * FURC_SHIFT + 1
<1>1. Reach(t, b) <= Reach(t + 1, 0)
  BY NextTry, FurcHashAssumption
<1>2. (t + 1) * PerTry <= MAX_TRIES * PerTry
  BY PerTryType, FurcHashAssumption
<1>3. MAX_TRIES * PerTry = (MAX_TRIES * FURC_SHIFT) * FURC_SHIFT
  BY FurcHashAssumption DEF PerTry
<1>4. words_needed \in Nat
  BY FurcHashAssumption
<1>5. words_needed * FURC_SHIFT = MAX_TRIES * PerTry + FURC_SHIFT
  BY <1>3, FurcHashAssumption
<1>6. Reach(t + 1, 0) <= words_needed * FURC_SHIFT
  <2>1. 0 * FURC_SHIFT = 0 /\ (t + 1) * PerTry \in Nat /\ MAX_TRIES * PerTry \in Nat
    BY PerTryType, FurcHashAssumption
  <2> QED
    BY <1>2, <1>5, <2>1, FurcHashAssumption DEF Reach
<1>7. words_needed * FURC_SHIFT <= words_needed * WordBits
  BY <1>4, FurcHashAssumption
<1>8. words_needed < FURC_CACHE_SIZE
  <2>1. MAX_TRIES * (FURC_SHIFT + 1) = MAX_TRIES * FURC_SHIFT + MAX_TRIES
    BY FurcHashAssumption
  <2>2. MAX_TRIES * FURC_SHIFT \in Nat
    BY FurcHashAssumption
  <2> QED
    BY <2>1, <2>2, FurcHashAssumption
<1>9. idx < (words_needed + 1) * WordBits
  <2>1. (words_needed + 1) * WordBits = words_needed * WordBits + WordBits
    BY <1>4, FurcHashAssumption
  <2>2. words_needed * FURC_SHIFT \in Nat /\ words_needed * WordBits \in Nat
    BY <1>4, FurcHashAssumption
  <2>3. Reach(t, b) \in Nat /\ Reach(t + 1, 0) \in Nat
    BY NextBitReach, FurcHashAssumption
  <2> QED
    BY <1>1, <1>6, <1>7, <2>1, <2>2, <2>3, FurcHashAssumption
<1>10. Ord(idx) \in Nat /\ Ord(idx) < words_needed + 1
  BY <1>4, <1>9, FurcHashAssumption DEF Ord
<1> QED
  BY <1>4, <1>8, <1>10, FurcHashAssumption

-----------------------------------------------------------------------------
\* Reading a bit leaves the cache filled, with the word read in it.
LEMMA ReadFills ==
  ASSUME FurcTypeOK, Bounds, CacheFilled, furc_get_bit,
         NEW b \in 0 .. FURC_SHIFT, a <= Reach(attempt, b)
  PROVE  /\ old_ord' \in Nat
         /\ words' = 0 .. old_ord' - 1
         /\ words' \subseteq 0 .. FURC_CACHE_SIZE - 1
         /\ Ord(a) \in words'
<1>1. Ord(a) \in 0 .. FURC_CACHE_SIZE - 1
  BY ReachInCache DEF FurcTypeOK
<1>2. CASE Cached(a)
  BY <1>1, <1>2 DEF furc_get_bit, stream, Cached, CacheFilled, FurcTypeOK
<1>3. CASE ~Cached(a)
  <2>1. old_ord <= Ord(a) /\ old_ord \in Nat /\ Ord(a) \in Nat
    BY <1>1, <1>3 DEF Cached, FurcTypeOK
  <2>2. old_ord' = Ord(a) + 1 /\ words' = words \cup (old_ord .. Ord(a))
    BY <1>3 DEF furc_get_bit
  <2>3. words' = 0 .. Ord(a)
    BY <2>1, <2>2 DEF CacheFilled
  <2> QED
    BY <1>1, <2>1, <2>2, <2>3, FurcHashAssumption
<1> QED
  BY <1>2, <1>3

-----------------------------------------------------------------------------
\* The invariant holds before the first call.
LEMMA FurcInitInv == FurcInit(Keys) => FurcInv
  BY FurcHashAssumption
  DEF FurcInit, FurcInv, FurcTypeOK, Bounds, CacheFilled, InPool

\* Every step of the hash keeps it.
LEMMA FurcStepInv == FurcInv /\ [FurcNext]_furc_vars => FurcInv'
<1> SUFFICES ASSUME FurcInv, [FurcNext]_furc_vars
             PROVE  FurcInv'
  OBVIOUS
<1> USE DEF FurcInv
<1>0. /\ FURC_SHIFT \in Nat \ {0} /\ MAX_TRIES \in Nat /\ MAX_TRIES >= 2
      /\ furc_maximum_pool_size \in Nat
      /\ furc_maximum_pool_size = 2^FURC_SHIFT
  BY FurcHashAssumption
<1>1. CASE Grow
  BY <1>0, <1>1 DEF Grow, FurcTypeOK, Bounds, CacheFilled, InPool
<1>2. CASE MoreBits
  <2>1. d # FURC_SHIFT
    BY <1>0, <1>2 DEF MoreBits, FurcTypeOK, Bounds
  <2> QED
    BY <1>0, <1>2, <2>1
    DEF MoreBits, FurcTypeOK, Bounds, CacheFilled, InPool, stream
<1>3. CASE EnoughBits
  <2>1. d > 0
    <3>1. m <= 2^d /\ m > 1 /\ m \in Nat /\ d \in Nat
      BY <1>3 DEF EnoughBits, FurcTypeOK, Bounds
    <3>2. CASE d = 0
      <4>1. 2^d = 1
        BY <3>2
      <4> QED
        BY <3>1, <4>1
    <3> QED
      BY <3>1, <3>2
  <2>2. 0 * FURC_SHIFT = 0 /\ attempt * PerTry \in Nat
    BY <1>0, PerTryType DEF FurcTypeOK
  <2>3. d <= Reach(attempt, 0)
    BY <1>0, <2>2 DEF Reach, FurcTypeOK, Bounds
  <2> QED
    BY <1>0, <1>3, <2>1, <2>3
    DEF EnoughBits, FurcTypeOK, Bounds, CacheFilled, InPool, stream, Reach
<1>4. CASE Shorten
  <2>1. a <= Reach(attempt, 0) /\ d > 0 /\ furc_pc = "try"
    BY <1>4 DEF Shorten, Bounds
  <2>2. /\ old_ord' \in Nat /\ words' = 0 .. old_ord' - 1
        /\ words' \subseteq 0 .. FURC_CACHE_SIZE - 1
    BY <1>0, <1>4, <2>1, ReadFills DEF Shorten
  <2>3. 0 * FURC_SHIFT = 0 /\ attempt * PerTry \in Nat
    BY <1>0, PerTryType DEF FurcTypeOK
  <2>4. d - 1 <= Reach(attempt, 0)
    BY <1>0, <2>3 DEF Reach, FurcTypeOK, Bounds
  <2>5. CASE d - 1 = 0
    <3>1. furc_pc' = "returned" /\ bucket' = 0 /\ a' = a /\ d' = 0
          /\ m' = m /\ attempt' = attempt /\ num' = num /\ i' = i
      BY <1>4, <2>5 DEF Shorten, Returns
    <3>2. FurcTypeOK' /\ InPool'
      BY <3>1, <2>2 DEF FurcTypeOK, InPool
    <3>3. Bounds'
      BY <1>0, <3>1 DEF FurcTypeOK, Bounds
    <3>4. CacheFilled'
      BY <3>1, <2>2 DEF CacheFilled
    <3> QED
      BY <3>2, <3>3, <3>4
  <2>6. CASE d - 1 # 0
    <3>1. furc_pc' = "try" /\ bucket' = bucket /\ a' = d - 1 /\ d' = d - 1
          /\ m' = m /\ attempt' = attempt /\ num' = num /\ i' = i
      BY <1>4, <2>1, <2>6 DEF Shorten, Restart
    <3>2. FurcTypeOK'
      BY <3>1, <2>1, <2>2 DEF FurcTypeOK
    <3>3. InPool'
      BY <3>1 DEF InPool
    <3>4. Bounds'
      <4>1. d' > 0 /\ d' <= FURC_SHIFT
        BY <1>0, <2>1, <2>6, <3>1 DEF FurcTypeOK, Bounds
      <4>2. a' <= Reach(attempt', 0)
        BY <2>4, <3>1
      <4>3. Reach(attempt, 0)' = Reach(attempt', 0)
        BY DEF Reach, PerTry
      <4> QED
        BY <3>1, <4>1, <4>2, <4>3 DEF FurcTypeOK, Bounds
    <3>5. CacheFilled'
      BY <3>1, <2>2 DEF CacheFilled
    <3> QED
      BY <3>2, <3>3, <3>4, <3>5
  <2> QED
    BY <2>5, <2>6
<1>5. CASE Begin
  <2>1. a <= Reach(attempt, 0) /\ d > 0 /\ furc_pc = "try"
    BY <1>5 DEF Begin, Bounds
  <2>2. /\ old_ord' \in Nat /\ words' = 0 .. old_ord' - 1
        /\ words' \subseteq 0 .. FURC_CACHE_SIZE - 1
        /\ Ord(a) \in words'
    BY <1>0, <1>5, <2>1, ReadFills DEF Begin
  <2>3. a' <= Reach(attempt, 0 + 1) /\ a' >= FURC_SHIFT /\ a' \in Nat
    BY <1>0, <1>5, <2>1, NextBitReach DEF Begin, FurcTypeOK
  <2>4. Ord(a' - FURC_SHIFT) = Ord(a)
    BY <1>0, <1>5 DEF Begin, FurcTypeOK
  <2>5. /\ m' = m /\ furc_pc' = "build" /\ d' = d /\ attempt' = attempt
        /\ i' = 0 /\ num' = 1 /\ bucket' = bucket
    BY <1>5 DEF Begin
  <2>6. FurcTypeOK' /\ InPool'
    BY <2>2, <2>3, <2>5 DEF FurcTypeOK, InPool
  <2>7. Bounds'
    <3>1. Reach(attempt, i + 1)' = Reach(attempt', i' + 1)
      BY DEF Reach, PerTry
    <3> QED
      BY <2>1, <2>3, <2>5, <3>1 DEF FurcTypeOK, Bounds
  <2>8. CacheFilled'
    BY <2>2, <2>4, <2>5 DEF CacheFilled, Ord
  <2> QED
    BY <2>6, <2>7, <2>8
<1>6. CASE NextBit
  <2>1. a <= Reach(attempt, i + 1) /\ i < d - 1 /\ furc_pc = "build"
    BY <1>6 DEF NextBit, Bounds
  <2>2. i + 1 \in 0 .. FURC_SHIFT
    BY <1>0, <2>1 DEF FurcTypeOK, Bounds
  <2>3. /\ old_ord' \in Nat /\ words' = 0 .. old_ord' - 1
        /\ words' \subseteq 0 .. FURC_CACHE_SIZE - 1
        /\ Ord(a) \in words'
    BY <1>6, <2>1, <2>2, ReadFills DEF NextBit
  <2>4. a' <= Reach(attempt, i + 1 + 1) /\ a' >= FURC_SHIFT /\ a' \in Nat
    BY <1>0, <1>6, <2>1, NextBitReach DEF NextBit, FurcTypeOK
  <2>5. Ord(a' - FURC_SHIFT) = Ord(a)
    BY <1>0, <1>6 DEF NextBit, FurcTypeOK
  <2>6. num' \in Nat
    BY <1>6 DEF NextBit, FurcTypeOK
  <2>7. /\ m' = m /\ furc_pc' = "build" /\ d' = d /\ attempt' = attempt
        /\ i' = i + 1 /\ bucket' = bucket
    BY <1>6, <2>1 DEF NextBit
  <2>8. FurcTypeOK' /\ InPool'
    BY <2>3, <2>4, <2>6, <2>7 DEF FurcTypeOK, InPool
  <2>9. Bounds'
    <3>1. Reach(attempt, i + 1)' = Reach(attempt', i' + 1)
      BY DEF Reach, PerTry
    <3> QED
      BY <2>1, <2>4, <2>7, <3>1 DEF FurcTypeOK, Bounds
  <2>10. CacheFilled'
    BY <2>3, <2>5, <2>7 DEF CacheFilled, Ord
  <2> QED
    BY <2>8, <2>9, <2>10
<1>7. CASE Finish
  <2>1. i + 1 \in 0 .. FURC_SHIFT /\ a <= Reach(attempt, i + 1)
    BY <1>0, <1>7 DEF Finish, FurcTypeOK, Bounds
  <2>2. a <= Reach(attempt + 1, 0)
    BY <1>0, <2>1, NextTry, NextBitReach DEF FurcTypeOK
  <2>a. /\ furc_pc = "build" /\ m' = m /\ d' = d /\ a' = a /\ num' = num
        /\ i' = i /\ old_ord' = old_ord /\ words' = words
    BY <1>7 DEF Finish, stream
  <2>3. CASE num < m /\ Returns(num, TRUE) /\ UNCHANGED attempt
    BY <2>a, <2>3
    DEF Returns, FurcTypeOK, Bounds, CacheFilled, InPool
  <2>4. CASE /\ attempt + 1 < MAX_TRIES /\ attempt' = attempt + 1
             /\ furc_pc' = "try" /\ UNCHANGED <<bucket, gave_up>>
    <3>1. FurcTypeOK' /\ InPool' /\ CacheFilled'
      BY <1>0, <2>a, <2>4 DEF FurcTypeOK, CacheFilled, InPool
    <3>2. Reach(attempt, 0)' = Reach(attempt', 0)
      BY DEF Reach, PerTry
    <3>3. a' <= Reach(attempt', 0)
      BY <2>a, <2>2, <2>4
    <3>4. Bounds'
      BY <2>a, <2>4, <3>2, <3>3 DEF Bounds
    <3> QED
      BY <3>1, <3>4
  <2>5. CASE Returns(0, FALSE) /\ UNCHANGED attempt
    BY <1>0, <2>a, <2>5
    DEF Returns, FurcTypeOK, Bounds, CacheFilled, InPool
  <2> QED
    BY <1>7, <2>3, <2>4, <2>5 DEF Finish
<1>8. CASE UNCHANGED furc_vars
  BY <1>8
  DEF furc_vars, stream, FurcTypeOK, Bounds, CacheFilled, InPool, Reach, Ord
<1> QED
  BY <1>1, <1>2, <1>3, <1>4, <1>5, <1>6, <1>7, <1>8 DEF FurcNext, furc_hash

\* The inductive invariant of furc_hash.
THEOREM FurcInvariant == FurcSpec => []FurcInv
  BY FurcInitInv, FurcStepInv, PTL DEF FurcSpec

\* The rule of ch3_hash.h is enough: with FURC_CACHE_SIZE above
\* MAX_TRIES * (FURC_SHIFT + 1), and a gap no wider than a word, no index leaves
\* the cache, and no bit is read from a word that is not filled.
THEOREM CacheSuffices == FurcSpec => []CacheFilled
<1>1. FurcInv => CacheFilled
  BY DEF FurcInv
<1> QED
  BY <1>1, FurcInvariant, PTL

\* furc_hash returns a shard of the pool it was asked about.
THEOREM ShardInPool == FurcSpec => []InPool
<1>1. FurcInv => InPool
  BY DEF FurcInv
<1> QED
  BY <1>1, FurcInvariant, PTL
-----------------------------------------------------------------------------
(***************************************************************************)
(* Consistency: what furc_hash returns, as a relation between the key, the *)
(* size of the pool and the result, and why the result for one shard more  *)
(* is the same or the new shard.                                           *)
(***************************************************************************)
BitAt(K, x) == IF x \in K THEN 1 ELSE 0

\* The numbers that a one bit at index s and the bits behind it spell: of one
\* bit, of two bits, and so on.
Value(K, s) ==
  CHOOSE v : v = [n \in Nat |->
                    IF n = 0 THEN 1
                    ELSE 2 * v[n - 1] + BitAt(K, s + n * FURC_SHIFT)]

Num(K, s, bits) == Value(K, s)[bits - 1]

\* The bits of the shards of a pool of n.
Level(n, D) == D \in Nat \ {0} /\ 2^(D - 1) < n /\ n <= 2^D

\* Where try j begins, if no try before found a zero bit.
Start(D, j) == D + j * (D * FURC_SHIFT)

Fails(K, n, D, j) == Start(D, j) \in K /\ Num(K, Start(D, j), D) >= n

\* The result when the first bit of a try is zero: it is made of the highest
\* index below that holds a one, whatever the size of the pool.
IsLower(K, top, r) ==
  \/ r = 0 /\ \A h \in 1 .. top : h \notin K
  \/ \E h \in 1 .. top :
       /\ h \in K /\ \A x \in h + 1 .. top : x \notin K
       /\ r = Num(K, h, h)

FirstTry(K, n, D, j, r) ==
  /\ \A l \in 0 .. j - 1 : Fails(K, n, D, l)
  /\ \/ Start(D, j) \notin K /\ IsLower(K, D - 1, r)
     \/ /\ Start(D, j) \in K /\ Num(K, Start(D, j), D) < n
        /\ r = Num(K, Start(D, j), D)

NoTry(K, n, D) == \A l \in 0 .. MAX_TRIES - 1 : Fails(K, n, D, l)

\* furc_hash of K into n shards is r, or 0 because it gave up.
Hash(K, n, r, gives_up) ==
  \/ n = 1 /\ r = 0 /\ ~gives_up
  \/ \E D : /\ Level(n, D)
            /\ \/ /\ ~gives_up
                  /\ \E j \in 0 .. MAX_TRIES - 1 : FirstTry(K, n, D, j, r)
               \/ gives_up /\ r = 0 /\ NoTry(K, n, D)

\* The try under way reads from index s on: at its start, or at a lower index
\* behind zero bits.
TriesFrom(D, s) ==
  \/ d = D /\ s = Start(D, attempt)
  \/ /\ d \in 1 .. D - 1 /\ s = d
     /\ Start(D, attempt) \notin key
     /\ \A x \in d + 1 .. D - 1 : x \notin key

Tried(D) == Level(m, D) /\ \A l \in 0 .. attempt - 1 : Fails(key, m, D, l)

HashInv ==
  /\ m >= 2 => \E g \in BOOLEAN : Hash(key, m - 1, last, g)
  /\ furc_pc # "returned" => bucket = last
  /\ furc_pc = "bits" => (d = 0 \/ m > 2^(d - 1)) /\ attempt = 0
  /\ furc_pc = "try" => \E D \in Nat : Tried(D) /\ TriesFrom(D, a)
  /\ furc_pc = "build" =>
       \E D, s \in Nat :
         /\ Tried(D) /\ TriesFrom(D, s) /\ s \in key
         /\ a = s + (i + 1) * FURC_SHIFT
         /\ num = Value(key, s)[i]
  /\ furc_pc = "returned" =>
       gave_up \in BOOLEAN /\ Hash(key, m, bucket, gave_up)

-----------------------------------------------------------------------------
\* The numbers, bit by bit.
LEMMA ValueSteps ==
  ASSUME NEW K, NEW s
  PROVE  /\ Value(K, s)[0] = 1
         /\ \A n \in Nat :
              Value(K, s)[n + 1] =
                2 * Value(K, s)[n] + BitAt(K, s + (n + 1) * FURC_SHIFT)
<1> DEFINE D(v, n) == 2 * v + BitAt(K, s + n * FURC_SHIFT)
           f == Value(K, s)
<1>1. NatInductiveDefHypothesis(f, 1, D)
  BY DEF NatInductiveDefHypothesis, Value
<1> HIDE DEF f
<1>2. NatInductiveDefConclusion(f, 1, D)
  BY <1>1, NatInductiveDef
<1>3. \A n \in Nat : f[n] = IF n = 0 THEN 1 ELSE D(f[n - 1], n)
  BY <1>2 DEF NatInductiveDefConclusion
<1>4. ASSUME NEW n \in Nat
      PROVE  f[n + 1] = D(f[n], n + 1)
  <2>1. n + 1 \in Nat /\ n + 1 # 0 /\ (n + 1) - 1 = n
    OBVIOUS
  <2> HIDE DEF D
  <2> QED
    BY <1>3, <2>1
<1> QED
  BY <1>3, <1>4 DEF f

\* A number of n + 1 bits whose first bit is a one.
LEMMA ValueBounds ==
  ASSUME NEW K, NEW s
  PROVE  \A n \in Nat : /\ Value(K, s)[n] \in Nat
                        /\ 2^n <= Value(K, s)[n]
                        /\ Value(K, s)[n] < 2^(n + 1)
<1> DEFINE v == Value(K, s)
           G == {n \in Nat : v[n] \in Nat /\ 2^n <= v[n] /\ v[n] < 2^(n + 1)}
<1>1. 0 \in G
  BY ValueSteps, PowersOfTwo
<1>2. ASSUME NEW n \in G
      PROVE  n + 1 \in G
  <2>1. \A b, x, p \in Nat :
          b \in {0, 1} /\ p <= x /\ x < 2 * p =>
            /\ 2 * x + b \in Nat /\ 2 * p <= 2 * x + b
            /\ 2 * x + b < 2 * (2 * p)
    OBVIOUS
  <2>2. BitAt(K, s + (n + 1) * FURC_SHIFT) \in {0, 1}
    BY DEF BitAt
  <2>3. 2^n \in Nat /\ 2^(n + 1) = 2 * 2^n /\ 2^((n + 1) + 1) = 2 * (2 * 2^n)
    BY PowersOfTwo
  <2>4. v[n + 1] = 2 * v[n] + BitAt(K, s + (n + 1) * FURC_SHIFT)
    BY ValueSteps
  <2> QED
    BY <2>1, <2>2, <2>3, <2>4
<1>3. G = Nat
  BY <1>1, <1>2, NatInd
<1> QED
  BY <1>3

\* So a number of so many bits lies between two powers of two.
LEMMA NumBounds ==
  ASSUME NEW K, NEW s, NEW bits \in Nat \ {0}
  PROVE  /\ Num(K, s, bits) \in Nat
         /\ 2^(bits - 1) <= Num(K, s, bits) /\ Num(K, s, bits) < 2^bits
<1>1. bits - 1 \in Nat /\ (bits - 1) + 1 = bits
  OBVIOUS
<1> QED
  BY <1>1, ValueBounds DEF Num

\* A pool has one level.
LEMMA OneLevel ==
  ASSUME NEW n \in Nat, NEW D, NEW E, Level(n, D), Level(n, E)
  PROVE  D = E
<1>1. \A x, y \in Nat \ {0} : x < y => 2^x <= 2^(y - 1)
  <2> TAKE x, y \in Nat \ {0}
  <2>1. x < y => x <= y - 1 /\ y - 1 \in Nat
    OBVIOUS
  <2> QED
    BY <2>1, PowersGrow
<1>2. 2^D \in Nat /\ 2^E \in Nat /\ 2^(D - 1) \in Nat /\ 2^(E - 1) \in Nat
  <2>1. D \in Nat /\ E \in Nat /\ D - 1 \in Nat /\ E - 1 \in Nat
    BY DEF Level
  <2> QED
    BY <2>1, PowersOfTwo
<1>3. ~(D < E) /\ ~(E < D)
  BY <1>1, <1>2 DEF Level
<1> QED
  BY <1>3 DEF Level

\* The highest one below determines the result.
LEMMA OneLower ==
  ASSUME NEW K, NEW top \in Nat, NEW r, NEW q,
         IsLower(K, top, r), IsLower(K, top, q)
  PROVE  r = q
<1>1. \A h, x \in 1 .. top :
        x = h \/ x \in h + 1 .. top \/ h \in x + 1 .. top
  OBVIOUS
<1> QED
  BY <1>1 DEF IsLower

\* The next try begins behind the bits of this one.
LEMMA StartNext ==
  ASSUME NEW D \in Nat, NEW j \in Nat
  PROVE  /\ Start(D, j) \in Nat /\ Start(D, 0) = D
         /\ Start(D, j + 1) = Start(D, j) + D * FURC_SHIFT
<1> DEFINE p == D * FURC_SHIFT
<1>1. p \in Nat
  BY FurcHashAssumption
<1> HIDE DEF p
<1>2. j * p \in Nat /\ 0 * p = 0 /\ (j + 1) * p = j * p + p
  BY <1>1
<1>3. D + j * p \in Nat /\ D + 0 * p = D /\ D + (j + 1) * p = D + j * p + p
  BY <1>1, <1>2
<1> QED
  BY <1>3 DEF Start, p

\* The results for two sizes of the pool that follow each other.
LEMMA Consistent ==
  ASSUME NEW K, NEW n \in Nat, n >= 2, NEW r0, NEW g \in BOOLEAN, NEW r,
         NEW f \in BOOLEAN, Hash(K, n - 1, r0, g), Hash(K, n, r, f), ~f
  PROVE  r \in {r0, n - 1}
<1>D. PICK D : /\ Level(n, D)
                /\ \E j \in 0 .. MAX_TRIES - 1 : FirstTry(K, n, D, j, r)
  BY DEF Hash
<1>1. PICK j \in 0 .. MAX_TRIES - 1 : Level(n, D) /\ FirstTry(K, n, D, j, r)
  BY <1>D
<1>d. D \in Nat \ {0} /\ D - 1 \in Nat /\ 2^(D - 1) \in Nat /\ 2^D \in Nat
  <2>1. D \in Nat \ {0} /\ D - 1 \in Nat
    BY <1>1 DEF Level
  <2> QED
    BY <2>1, PowersOfTwo
<1>n. /\ \A l : Num(K, Start(D, l), D) \in Nat
      /\ \A l : 2^(D - 1) <= Num(K, Start(D, l), D)
  BY <1>d, NumBounds
<1>2. Fails(K, n - 1, D, j) => r = n - 1
  <2> HAVE Fails(K, n - 1, D, j)
  <2>1. Num(K, Start(D, j), D) < n /\ r = Num(K, Start(D, j), D)
    BY <1>1 DEF FirstTry, Fails
  <2> QED
    BY <1>n, <2>1 DEF Fails
<1>3. CASE n = 2
  <2>1. Level(2, 1)
    BY PowersOfTwo DEF Level
  <2>2. D = 1
    BY <1>1, <1>3, <2>1, OneLevel
  <2>3. r0 = 0
    <3>1. \A E : ~Level(n - 1, E)
      <4> SUFFICES ASSUME NEW E, Level(n - 1, E) PROVE FALSE
        OBVIOUS
      <4>1. E - 1 \in Nat
        BY DEF Level
      <4>2. 2^(E - 1) \in Nat \ {0}
        BY <4>1, PowersOfTwo
      <4> QED
        BY <1>3, <4>2 DEF Level
    <3> QED
      BY <3>1 DEF Hash
  <2>4. CASE Start(D, j) \in K
    <3>1. Num(K, Start(D, j), D) < n /\ r = Num(K, Start(D, j), D)
      BY <1>1, <2>4 DEF FirstTry
    <3>2. 2^(D - 1) = 1
      BY <2>2, PowersOfTwo
    <3> QED
      BY <1>3, <1>n, <3>1, <3>2
  <2>5. CASE Start(D, j) \notin K
    <3>1. IsLower(K, D - 1, r)
      BY <1>1, <2>5 DEF FirstTry
    <3>2. 1 .. D - 1 = {}
      BY <2>2
    <3> QED
      BY <2>3, <3>1, <3>2 DEF IsLower
  <2> QED
    BY <2>4, <2>5
<1>4. CASE n # 2 /\ n - 1 > 2^(D - 1)
  <2>1. Level(n - 1, D)
    BY <1>1, <1>4, <1>d DEF Level
  <2>2. \A E : Level(n - 1, E) => E = D
    BY <2>1, OneLevel
  <2>3. CASE g
    <3>1. NoTry(K, n - 1, D)
      BY <1>4, <2>2, <2>3 DEF Hash
    <3> QED
      BY <1>2, <3>1 DEF NoTry
  <2>4. CASE ~g
    <3>1. PICK k \in 0 .. MAX_TRIES - 1 : FirstTry(K, n - 1, D, k, r0)
      BY <1>4, <2>2, <2>4 DEF Hash
    <3>2. CASE j < k
      <4>1. j \in 0 .. k - 1
        BY <3>2
      <4> QED
        BY <1>2, <3>1, <4>1 DEF FirstTry
    <3>3. CASE j = k
      <4>1. CASE Start(D, j) \in K
        BY <1>1, <3>1, <3>3, <4>1 DEF FirstTry
      <4>2. CASE Start(D, j) \notin K
        BY <1>1, <1>d, <3>1, <3>3, <4>2, OneLower DEF FirstTry
      <4> QED
        BY <4>1, <4>2
    <3>4. CASE j > k
      <4>1. k \in 0 .. j - 1
        BY <3>4
      <4>2. Start(D, k) \in K /\ Num(K, Start(D, k), D) >= n
        BY <1>1, <4>1 DEF FirstTry, Fails
      <4>3. Num(K, Start(D, k), D) < n - 1
        BY <3>1, <4>2 DEF FirstTry
      <4> QED
        BY <1>n, <4>2, <4>3
    <3> QED
      BY <3>2, <3>3, <3>4
  <2> QED
    BY <2>3, <2>4
<1>5. CASE n # 2 /\ ~(n - 1 > 2^(D - 1))
  <2> DEFINE E == D - 1
  <2>1. n - 1 = 2^E /\ n - 1 > 1
    BY <1>1, <1>5, <1>d DEF Level
  <2>e. E \in Nat
    BY <1>d
  <2> HIDE DEF E
  <2>2. E \in Nat \ {0} /\ E - 1 \in Nat /\ (E - 1) + 1 = E
    <3>1. E = 0 => 2^E = 1
      BY PowersOfTwo
    <3>2. E # 0
      BY <2>1, <3>1
    <3> QED
      BY <2>e, <3>2
  <2>3. Level(n - 1, E)
    <3>1. 2^E = 2 * 2^(E - 1) /\ 2^(E - 1) \in Nat \ {0}
      BY <2>2, PowersOfTwo
    <3> QED
      BY <2>1, <2>2, <3>1 DEF Level
  <2>4. \A F : Level(n - 1, F) => F = E
    BY <2>3, OneLevel
  <2>5. \A l : ~Fails(K, n - 1, E, l)
    <3> SUFFICES ASSUME NEW l, Fails(K, n - 1, E, l) PROVE FALSE
      OBVIOUS
    <3>1. /\ Num(K, Start(E, l), E) \in Nat
          /\ Num(K, Start(E, l), E) < 2^E
      BY <2>2, NumBounds
    <3> QED
      BY <2>1, <3>1 DEF Fails
  <2>6. 0 \in 0 .. MAX_TRIES - 1
    BY FurcHashAssumption
  <2>7. FirstTry(K, n - 1, E, 0, r0)
    <3>1. ~g
      BY <2>1, <2>4, <2>5, <2>6 DEF Hash, NoTry
    <3>2. PICK k \in 0 .. MAX_TRIES - 1 : FirstTry(K, n - 1, E, k, r0)
      BY <2>1, <2>4, <3>1 DEF Hash
    <3>3. k = 0
      <4>1. k > 0 => 0 \in 0 .. k - 1
        OBVIOUS
      <4> QED
        BY <2>5, <3>2, <4>1 DEF FirstTry
    <3> QED
      BY <3>2, <3>3
  <2>8. Start(E, 0) = E
    BY <2>2, StartNext
  <2>9. IsLower(K, E, r0)
    <3>1. CASE E \in K
      <4>1. r0 = Num(K, E, E)
        BY <2>7, <2>8, <3>1 DEF FirstTry
      <4>2. E \in 1 .. E /\ \A x \in E + 1 .. E : FALSE
        BY <2>2
      <4> QED
        BY <3>1, <4>1, <4>2 DEF IsLower
    <3>2. CASE E \notin K
      <4>1. IsLower(K, E - 1, r0)
        BY <2>7, <2>8, <3>2 DEF FirstTry
      <4>2. \A h : h \in 1 .. E <=> h \in 1 .. E - 1 \/ h = E
        BY <2>2
      <4>3. \A h \in 1 .. E - 1 : \A x \in h + 1 .. E :
              x \in h + 1 .. E - 1 \/ x = E
        BY <2>2
      <4> QED
        BY <3>2, <4>1, <4>2, <4>3 DEF IsLower
    <3> QED
      BY <3>1, <3>2
  <2>10. CASE Start(D, j) \in K
    <3>1. Num(K, Start(D, j), D) < n /\ r = Num(K, Start(D, j), D)
      BY <1>1, <2>10 DEF FirstTry
    <3>2. 2^E <= Num(K, Start(D, j), D) /\ Num(K, Start(D, j), D) \in Nat
      BY <1>n DEF E
    <3> QED
      BY <2>1, <3>1, <3>2
  <2>11. CASE Start(D, j) \notin K
    <3>1. IsLower(K, E, r)
      BY <1>1, <2>11 DEF FirstTry, E
    <3>2. r = r0
      BY <2>2, <2>9, <3>1, OneLower
    <3> QED
      BY <3>2
  <2> QED
    BY <2>10, <2>11
<1> QED
  BY <1>3, <1>4, <1>5

-----------------------------------------------------------------------------
\* The result so far holds before the first call.
LEMMA HashInit == FurcInit(Keys) => HashInv
<1> HAVE FurcInit(Keys)
<1>1. m = 1 /\ furc_pc = "returned" /\ bucket = 0 /\ gave_up = FALSE
  BY DEF FurcInit
<1>2. ~(m >= 2)
  BY <1>1
<1>3. Hash(key, m, bucket, gave_up)
  BY <1>1 DEF Hash
<1> QED
  BY <1>1, <1>2, <1>3 DEF HashInv

\* What a zero bit at the index read shows: no index from there up to the
\* first bit of the try holds a one.
LEMMA ZeroBits ==
  ASSUME NEW D \in Nat, Level(m, D), TriesFrom(D, a), a \notin key
  PROVE  /\ Start(D, attempt) \notin key /\ d \in 1 .. D
         /\ \A x \in d .. D - 1 : x \notin key
<1>1. D \in Nat \ {0}
  BY DEF Level
<1>2. CASE d = D /\ a = Start(D, attempt)
  BY <1>1, <1>2
<1>3. CASE /\ d \in 1 .. D - 1 /\ a = d /\ Start(D, attempt) \notin key
           /\ \A x \in d + 1 .. D - 1 : x \notin key
  <2>1. \A x \in d .. D - 1 : x = d \/ x \in d + 1 .. D - 1
    BY <1>3
  <2> QED
    BY <1>1, <1>3, <2>1
<1> QED
  BY <1>2, <1>3 DEF TriesFrom

\* A try that succeeds is the first one that does.
LEMMA Succeeds ==
  ASSUME NEW D, Tried(D), attempt \in 0 .. MAX_TRIES - 1, NEW r,
         \/ Start(D, attempt) \notin key /\ IsLower(key, D - 1, r)
         \/ /\ Start(D, attempt) \in key
            /\ Num(key, Start(D, attempt), D) < m
            /\ r = Num(key, Start(D, attempt), D)
  PROVE  Hash(key, m, r, FALSE)
<1>1. FirstTry(key, m, D, attempt, r)
  BY DEF FirstTry, Tried
<1> QED
  BY <1>1 DEF Hash, Tried

\* Every step keeps it.
LEMMA HashStep ==
  ASSUME FurcInv, HashInv, [FurcNext]_furc_vars
  PROVE  HashInv'
<1>t. /\ m \in Nat \ {0} /\ d \in Nat /\ a \in Nat /\ i \in Nat /\ num \in Nat
      /\ attempt \in 0 .. MAX_TRIES - 1 /\ attempt \in Nat
      /\ FURC_SHIFT \in Nat \ {0} /\ MAX_TRIES \in Nat
  BY FurcHashAssumption DEF FurcInv, FurcTypeOK
<1>1. CASE Grow
  <2>1. /\ furc_pc = "returned" /\ m' = m + 1 /\ d' = 0 /\ attempt' = 0
        /\ furc_pc' = "bits" /\ last' = bucket /\ key' = key
        /\ bucket' = bucket
    BY <1>1 DEF Grow
  <2>2. gave_up \in BOOLEAN /\ Hash(key, m, bucket, gave_up)
    BY <2>1 DEF HashInv
  <2>3. m' - 1 = m
    BY <1>t, <2>1
  <2>4. \E g \in BOOLEAN : Hash(key', m' - 1, last', g)
    BY <2>1, <2>2, <2>3
  <2> QED
    BY <2>1, <2>4 DEF HashInv
<1>2. CASE MoreBits
  <2>1. /\ furc_pc = "bits" /\ furc_pc' = "bits" /\ m > 2^d /\ d' = d + 1
        /\ UNCHANGED <<key, m, attempt, bucket, last>>
    BY <1>2 DEF MoreBits
  <2>2. d' - 1 = d
    BY <1>t, <2>1
  <2>3. m' > 2^(d' - 1)
    BY <2>1, <2>2
  <2> QED
    BY <2>1, <2>3 DEF HashInv
<1>3. CASE EnoughBits
  <2>1. /\ furc_pc = "bits" /\ furc_pc' = "try" /\ m <= 2^d /\ a' = d
        /\ UNCHANGED <<key, m, d, attempt, bucket, last>>
    BY <1>3 DEF EnoughBits
  <2>2. m > 1 /\ attempt = 0 /\ (d = 0 \/ m > 2^(d - 1))
    BY <2>1 DEF HashInv, FurcInv, Bounds
  <2>3. d # 0
    <3>1. d = 0 => 2^d = 1
      BY PowersOfTwo
    <3> QED
      BY <1>t, <2>1, <2>2, <3>1
  <2>4. Level(m, d)
    BY <1>t, <2>1, <2>2, <2>3 DEF Level
  <2>5. \A l \in 0 .. attempt - 1 : FALSE
    BY <2>2
  <2>6. Tried(d)'
    BY <2>1, <2>4, <2>5 DEF Tried
  <2>7. TriesFrom(d, a)'
    BY <1>t, <2>1, <2>2, StartNext DEF TriesFrom
  <2>8. d' \in Nat
    BY <1>t, <2>1
  <2> QED
    BY <2>1, <2>6, <2>7, <2>8 DEF HashInv
<1>4. CASE Shorten
  <2>1. /\ furc_pc = "try" /\ a \notin key /\ d' = d - 1
        /\ UNCHANGED <<key, m, attempt, last>>
    BY <1>4 DEF Shorten, Bit
  <2>2. PICK D \in Nat : Tried(D) /\ TriesFrom(D, a)
    BY <2>1 DEF HashInv
  <2>3. /\ Start(D, attempt) \notin key /\ d \in 1 .. D
        /\ \A x \in d .. D - 1 : x \notin key
    BY <2>1, <2>2, ZeroBits DEF Tried
  <2>4. CASE d - 1 = 0
    <3>1. furc_pc' = "returned" /\ bucket' = 0 /\ gave_up' = FALSE
      BY <1>4, <2>1, <2>4 DEF Shorten, Returns
    <3>2. IsLower(key, D - 1, 0)
      <4>1. d = 1
        BY <1>t, <2>4
      <4> QED
        BY <2>3, <4>1 DEF IsLower
    <3>3. Hash(key, m, 0, FALSE)
      BY <1>t, <2>2, <2>3, <3>2, Succeeds
    <3> QED
      BY <2>1, <3>1, <3>3 DEF HashInv
  <2>5. CASE d - 1 # 0
    <3>1. furc_pc' = "try" /\ bucket' = bucket /\ a' = d - 1
      BY <1>4, <2>1, <2>5 DEF Shorten, Restart
    <3>2. d - 1 \in 1 .. D - 1 /\ (d - 1) + 1 = d
      BY <1>t, <2>3, <2>5
    <3>3. TriesFrom(D, a)'
      BY <2>1, <2>3, <3>1, <3>2 DEF TriesFrom
    <3>4. Tried(D)'
      BY <2>1, <2>2 DEF Tried
    <3> QED
      BY <2>1, <3>1, <3>3, <3>4 DEF HashInv
  <2> QED
    BY <2>4, <2>5
<1>5. CASE Begin
  <2>1. /\ furc_pc = "try" /\ furc_pc' = "build" /\ a \in key
        /\ a' = a + FURC_SHIFT /\ num' = 1 /\ i' = 0
        /\ UNCHANGED <<key, m, d, attempt, bucket, last>>
    BY <1>5 DEF Begin, Bit
  <2>2. PICK D \in Nat : Tried(D) /\ TriesFrom(D, a)
    BY <2>1 DEF HashInv
  <2>3. Tried(D)' /\ TriesFrom(D, a)
    BY <2>1, <2>2 DEF Tried
  <2>4. /\ a' = a + (i' + 1) * FURC_SHIFT
        /\ num' = Value(key', a)[i']
    BY <1>t, <2>1, ValueSteps
  <2>5. \E E, s \in Nat :
          /\ Tried(E)' /\ (\/ d' = E /\ s = Start(E, attempt')
                           \/ /\ d' \in 1 .. E - 1 /\ s = d'
                              /\ Start(E, attempt') \notin key'
                              /\ \A x \in d' + 1 .. E - 1 : x \notin key')
          /\ s \in key' /\ a' = s + (i' + 1) * FURC_SHIFT
          /\ num' = Value(key', s)[i']
    BY <1>t, <2>1, <2>3, <2>4 DEF TriesFrom
  <2> QED
    BY <2>1, <2>5 DEF HashInv, TriesFrom
<1>6. CASE NextBit
  <2>1. /\ furc_pc = "build" /\ furc_pc' = "build"
        /\ num' = 2 * num + BitAt(key, a)
        /\ a' = a + FURC_SHIFT /\ i' = i + 1
        /\ UNCHANGED <<key, m, d, attempt, bucket, last>>
    BY <1>6 DEF NextBit, Bit, BitAt
  <2>2. PICK D \in Nat, s \in Nat :
          /\ Tried(D) /\ TriesFrom(D, s) /\ s \in key
          /\ a = s + (i + 1) * FURC_SHIFT
          /\ num = Value(key, s)[i]
    BY <2>1 DEF HashInv
  <2>3. Tried(D)' /\ TriesFrom(D, s)'
    BY <2>1, <2>2 DEF Tried, TriesFrom
  <2>4. a' = s + (i' + 1) * FURC_SHIFT
    <3>1. (i' + 1) * FURC_SHIFT = (i + 1) * FURC_SHIFT + FURC_SHIFT
      BY <1>t, <2>1
    <3>2. (i + 1) * FURC_SHIFT \in Nat
      BY <1>t
    <3> QED
      BY <1>t, <2>1, <2>2, <3>1, <3>2
  <2>5. num' = Value(key', s)[i']
    BY <1>t, <2>1, <2>2, ValueSteps
  <2> QED
    BY <2>1, <2>2, <2>3, <2>4, <2>5 DEF HashInv
<1>7. CASE Finish
  <2>1. /\ furc_pc = "build" /\ i >= d - 1
        /\ UNCHANGED <<key, m, d, a, num, i, last>>
    BY <1>7 DEF Finish
  <2>2. PICK D \in Nat, s \in Nat :
          /\ Tried(D) /\ TriesFrom(D, s) /\ s \in key
          /\ a = s + (i + 1) * FURC_SHIFT
          /\ num = Value(key, s)[i]
    BY <2>1 DEF HashInv
  <2>3. d > 0 /\ i = d - 1 /\ i + 1 = d
    BY <1>t, <2>1 DEF FurcInv, Bounds
  <2>4. num = Num(key, s, d) /\ a = s + d * FURC_SHIFT
    BY <2>2, <2>3 DEF Num
  <2>5. ASSUME num < m
        PROVE  Hash(key, m, num, FALSE)
    <3>1. CASE d = D /\ s = Start(D, attempt)
      BY <1>t, <2>2, <2>4, <2>5, <3>1, Succeeds
    <3>2. CASE /\ d \in 1 .. D - 1 /\ s = d /\ Start(D, attempt) \notin key
               /\ \A x \in d + 1 .. D - 1 : x \notin key
      <4>1. IsLower(key, D - 1, num)
        BY <2>2, <2>4, <3>2 DEF IsLower
      <4> QED
        BY <1>t, <2>2, <3>2, <4>1, Succeeds
    <3> QED
      BY <2>2, <3>1, <3>2 DEF TriesFrom
  <2>6. ASSUME num >= m
        PROVE  d = D /\ s = Start(D, attempt) /\ Fails(key, m, D, attempt)
    <3>1. ~(d \in 1 .. D - 1)
      <4> SUFFICES ASSUME d \in 1 .. D - 1 PROVE FALSE
        OBVIOUS
      <4>1. num < 2^d
        BY <1>t, <2>3, <2>4, NumBounds
      <4>2. 2^d <= 2^(D - 1) /\ 2^d \in Nat /\ 2^(D - 1) \in Nat
        <5>1. d \in Nat /\ D - 1 \in Nat /\ d <= D - 1
          BY <1>t
        <5> QED
          BY <5>1, PowersGrow, PowersOfTwo
      <4>3. 2^(D - 1) < m
        BY <2>2 DEF Tried, Level
      <4> QED
        BY <1>t, <2>6, <4>1, <4>2, <4>3
    <3>2. d = D /\ s = Start(D, attempt)
      BY <2>2, <3>1 DEF TriesFrom
    <3> QED
      BY <2>2, <2>4, <2>6, <3>2 DEF Fails
  <2>7. ASSUME num >= m
        PROVE  \A l \in 0 .. attempt : Fails(key, m, D, l)
    <3>1. \A l \in 0 .. attempt : l \in 0 .. attempt - 1 \/ l = attempt
      BY <1>t
    <3> QED
      BY <2>2, <2>6, <2>7, <3>1 DEF Tried
  <2>8. CASE num < m /\ Returns(num, TRUE) /\ UNCHANGED attempt
    <3>1. furc_pc' = "returned" /\ bucket' = num /\ gave_up' = FALSE
      BY <2>8 DEF Returns
    <3> QED
      BY <2>1, <2>5, <2>8, <3>1 DEF HashInv
  <2>9. CASE /\ num >= m /\ attempt + 1 < MAX_TRIES /\ attempt' = attempt + 1
             /\ furc_pc' = "try" /\ UNCHANGED <<bucket, gave_up>>
    <3>1. attempt' - 1 = attempt
      BY <1>t, <2>9
    <3>2. Tried(D)'
      BY <2>1, <2>2, <2>7, <2>9, <3>1 DEF Tried
    <3>3. a' = Start(D, attempt')
      BY <1>t, <2>1, <2>4, <2>6, <2>9, StartNext
    <3>4. TriesFrom(D, a)'
      BY <2>1, <2>6, <2>9, <3>3 DEF TriesFrom
    <3> QED
      BY <2>1, <2>9, <3>2, <3>4 DEF HashInv
  <2>10. CASE /\ num >= m /\ attempt + 1 = MAX_TRIES
              /\ Returns(0, FALSE) /\ UNCHANGED attempt
    <3>1. furc_pc' = "returned" /\ bucket' = 0 /\ gave_up' = TRUE
      BY <2>10 DEF Returns
    <3>2. NoTry(key, m, D)
      <4>1. MAX_TRIES - 1 = attempt
        BY <1>t, <2>10
      <4> QED
        BY <2>7, <2>10, <4>1 DEF NoTry
    <3>3. Hash(key, m, 0, TRUE)
      BY <2>2, <3>2 DEF Hash, Tried
    <3> QED
      BY <2>1, <3>1, <3>3 DEF HashInv
  <2> QED
    BY <1>7, <2>8, <2>9, <2>10 DEF Finish
<1>8. CASE UNCHANGED furc_vars
  BY <1>8 DEF furc_vars, HashInv, Tried, TriesFrom
<1> QED
  BY <1>1, <1>2, <1>3, <1>4, <1>5, <1>6, <1>7, <1>8 DEF FurcNext, furc_hash

\* When a shard is added a key stays in its shard or moves to the new one,
\* unless furc_hash gave up on it (furc_hash in ch3_hash.cpp).
THEOREM StaysOrMoves == FurcSpec => []OnlyToNewBucket
<1>1. FurcInit(Keys) => FurcInv /\ HashInv
  BY FurcInitInv, HashInit
<1>2. FurcInv /\ HashInv /\ [FurcNext]_furc_vars => FurcInv' /\ HashInv'
  BY FurcStepInv, HashStep
<1>3. FurcInv /\ HashInv => OnlyToNewBucket
  <2> SUFFICES ASSUME FurcInv, HashInv, furc_pc = "returned", ~gave_up
               PROVE  bucket \in {last, m - 1}
    BY DEF OnlyToNewBucket
  <2>1. m \in Nat \ {0} /\ gave_up \in BOOLEAN /\ Hash(key, m, bucket, gave_up)
    BY DEF FurcInv, FurcTypeOK, HashInv
  <2>2. CASE m = 1
    <3>1. bucket \in 0 .. m - 1
      BY DEF FurcInv, InPool
    <3> QED
      BY <2>2, <3>1
  <2>3. CASE m # 1
    <3>1. m \in Nat /\ m >= 2
      BY <2>1, <2>3
    <3>2. PICK g \in BOOLEAN : Hash(key, m - 1, last, g)
      BY <3>1 DEF HashInv
    <3> QED
      BY <2>1, <3>1, <3>2, Consistent
  <2> QED
    BY <2>2, <2>3
<1> QED
  BY <1>1, <1>2, <1>3, PTL DEF FurcSpec
=============================================================================
