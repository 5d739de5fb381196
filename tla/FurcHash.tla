------------------------------- MODULE FurcHash -------------------------------
(***************************************************************************)
(* Consistent hashing (src/src/ch3_hash.cpp), which the router and the     *)
(* decompress-and-hash requests use to pick a shard.  furc_hash reads bits  *)
(* of a stream derived from the key until they spell a number below the    *)
(* size of the pool.  The stream is produced word by word and kept in a    *)
(* cache on the stack.                                                     *)
(*                                                                         *)
(* A key is the set of the indices of its stream that hold a one: what the *)
(* murmur hashes make of its characters is left out.  The same key is      *)
(* hashed into pools of size 1, 2, ..., as a pool of shards grows.         *)
(***************************************************************************)
EXTENDS Integers

CONSTANTS
  MAX_TRIES,        \* tries for a result in range
  FURC_SHIFT,       \* gap of bit indices
  furc_maximum_pool_size,  \* ch3_hash.h: "limits us to 2^FURC_SHIFT shards"
  FURC_CACHE_SIZE,  \* words of the cache
  WordBits,         \* bits of a word: 64
  Keys              \* the keys hashed

ASSUME FurcHashAssumption ==
  /\ MAX_TRIES \in Nat /\ MAX_TRIES >= 2
  /\ FURC_SHIFT \in Nat \ {0} /\ WordBits \in Nat \ {0}
  /\ FURC_SHIFT <= WordBits
  /\ furc_maximum_pool_size = 2^FURC_SHIFT
  /\ furc_maximum_pool_size \in Nat \ {0}
  \* ch3_hash.h: "should be > MAXTRIES * (FURCSHIFT + 1)"
  /\ FURC_CACHE_SIZE \in Nat /\ FURC_CACHE_SIZE > MAX_TRIES * (FURC_SHIFT + 1)
  /\ Keys \subseteq SUBSET Nat

VARIABLES
  key, m,           \* arguments: the key, the size of the pool
  furc_pc,          \* "bits", "try", "build", or "returned"
  d, a,             \* bits of a result, the next index in the stream
  attempt, num, i,
  old_ord,          \* the cache's words up to this one count as filled; one
                    \* more than the code's old_ord, which starts at -1
  words,            \* the words of the cache that are filled
  bucket,           \* the value returned
  gave_up,          \* it was returned after the last try
  last              \* the bucket of the pool one smaller, or 0

stream == <<old_ord, words>>
furc_vars ==
  <<key, m, furc_pc, d, a, attempt, num, i, stream, bucket, gave_up, last>>

FurcInit(keys) ==
  /\ key \in keys
  /\ m = 1 /\ furc_pc = "returned"
  /\ d = 0 /\ a = 0 /\ attempt = 0 /\ num = 0 /\ i = 0
  /\ old_ord = 0 /\ words = {}
  /\ bucket = 0 /\ gave_up = FALSE /\ last = 0

\* The next call: the pool has grown by one shard.
Grow ==
  /\ furc_pc = "returned"
  /\ m < furc_maximum_pool_size
  /\ m' = m + 1
  /\ d' = 0 /\ attempt' = 0
  /\ old_ord' = 0 /\ words' = {}
  /\ furc_pc' = "bits"
  /\ last' = bucket /\ gave_up' = FALSE
  /\ UNCHANGED <<key, a, num, i, bucket>>

\* for (d = 0; m > (1ul << d); d++)
MoreBits ==
  /\ furc_pc = "bits" /\ m > 2^d
  /\ d' = d + 1
  /\ UNCHANGED <<key, m, furc_pc, a, attempt, num, i, stream, bucket, gave_up,
                 last>>

EnoughBits ==
  /\ furc_pc = "bits" /\ m <= 2^d
  /\ a' = d
  /\ furc_pc' = "try"
  /\ UNCHANGED <<key, m, d, attempt, num, i, stream, bucket, gave_up, last>>

-----------------------------------------------------------------------------
\* furc_get_bit: fill the cache up to the word the index is in, each word from
\* the one before, and read the bit.
Ord(idx) == idx \div WordBits

Mut_Cached(idx) == Ord(idx) <= old_ord
Cached(idx) == Ord(idx) < old_ord

furc_get_bit ==
  IF Cached(a)
  THEN UNCHANGED stream
  ELSE old_ord' = Ord(a) + 1 /\ words' = words \cup (old_ord .. Ord(a))

Bit == a \in key

Returns(n, tries_left) ==
  /\ furc_pc' = "returned"
  /\ bucket' = n
  /\ gave_up' = ~tries_left

-----------------------------------------------------------------------------
\* The while loop of a try: a zero bit makes the result one bit shorter.
Mut_Restart == a
Restart == d'

Shorten ==
  /\ furc_pc = "try" /\ ~Bit
  /\ furc_get_bit
  /\ d' = d - 1
  /\ IF d' = 0
     THEN Returns(0, TRUE) /\ UNCHANGED a
     ELSE a' = Restart /\ UNCHANGED <<furc_pc, bucket, gave_up>>
  /\ UNCHANGED <<key, m, attempt, num, i, last>>

\* A one bit is the first bit of the number.
Begin ==
  /\ furc_pc = "try" /\ Bit
  /\ furc_get_bit
  /\ a' = a + FURC_SHIFT
  /\ num' = 1 /\ i' = 0
  /\ furc_pc' = "build"
  /\ UNCHANGED <<key, m, d, attempt, bucket, gave_up, last>>

NextBit ==
  /\ furc_pc = "build" /\ i < d - 1
  /\ furc_get_bit
  /\ num' = 2 * num + (IF Bit THEN 1 ELSE 0)
  /\ a' = a + FURC_SHIFT
  /\ i' = i + 1
  /\ UNCHANGED <<key, m, furc_pc, d, attempt, bucket, gave_up, last>>

\* if (num < m) return num, else try again; give up after the last try.
Finish ==
  /\ furc_pc = "build" /\ i >= d - 1
  /\ \/ num < m /\ Returns(num, TRUE) /\ UNCHANGED attempt
     \/ /\ num >= m /\ attempt + 1 < MAX_TRIES
        /\ attempt' = attempt + 1
        /\ furc_pc' = "try" /\ UNCHANGED <<bucket, gave_up>>
     \/ num >= m /\ attempt + 1 = MAX_TRIES
        /\ Returns(0, FALSE) /\ UNCHANGED attempt
  /\ UNCHANGED <<key, m, d, a, num, i, stream, last>>

furc_hash == MoreBits \/ EnoughBits \/ Shorten \/ Begin \/ NextBit \/ Finish
FurcNext == Grow \/ furc_hash

FurcSpec == FurcInit(Keys) /\ [][FurcNext]_furc_vars

-----------------------------------------------------------------------------
\* The hash is consistent: when a shard is added, a key stays where it is or
\* moves to the new shard, unless furc_hash gave up on it.
OnlyToNewBucket ==
  furc_pc = "returned" /\ ~gave_up => bucket \in {last, m - 1}

\* The words of the cache are filled without a gap, as each is made of the one
\* before; a bit is read from a word that is filled, and no index leaves the
\* array of FURC_CACHE_SIZE words.
CacheFilled ==
  /\ words = 0 .. old_ord - 1
  /\ words \subseteq 0 .. FURC_CACHE_SIZE - 1
  /\ furc_pc = "build" => Ord(a - FURC_SHIFT) \in words

FurcEnds == furc_pc = "returned" /\ m = furc_maximum_pool_size

\* The result is a shard of the pool.
InPool == bucket \in 0 .. m - 1
=============================================================================
