---------------------------- MODULE GatherScatter ----------------------------
(***************************************************************************)
(* The arrays of the memfill-and-gather and decompress-and-scatter          *)
(* requests (src/src/gather_scatter.cpp): a buffer that the device has      *)
(* filled with zeros, the ones the request scatters into it at the random   *)
(* indices of indirect_array, and validate_scatter_array, which looks        *)
(* whether the buffer is what it should be.                                 *)
(*                                                                         *)
(* indirect_array is indexed up to num_accesses + 1: what lies behind its   *)
(* end is memory of the heap.                                               *)
(***************************************************************************)
EXTENDS Naturals, Sequences, Sorting

CONSTANTS
  num_accesses,
  num_ents  \* entries of the buffer: input_size / sizeof(float)

ASSUME GatherScatterAssumption ==
  num_accesses \in Nat \ {0} /\ num_ents \in Nat \ {0}

Entries == 0 .. num_ents - 1
Accesses0 == 0 .. num_accesses - 1
NoEntry == num_ents  \* any number that is no index of the buffer

VARIABLES
  indirect_array,
  stray,           \* the words behind it
  scatter_array,
  scatter_pc,
  ent,             \* loop index
  sorted_idx,
  verdict          \* "error" once the validation printed one

scatter_vars ==
  <<indirect_array, stray, scatter_array, scatter_pc, ent, sorted_idx, verdict>>

\* What the device left: zeros, or one entry wrong, which may look scattered.
FilledBuffers ==
  {[e \in Entries |-> IF e = wrong THEN value ELSE 0] :
     wrong \in Entries \cup {NoEntry}, value \in {1, 2}}

ScatterInit(indirect_arrays, strays, buffers) ==
  /\ indirect_array \in indirect_arrays
  /\ stray \in strays
  /\ scatter_array \in buffers
  /\ scatter_pc = "scatter"
  /\ ent = 0 /\ sorted_idx = 0 /\ verdict = "ok"

Scatter ==
  /\ scatter_pc = "scatter" /\ ent < num_accesses
  /\ scatter_array' = [scatter_array EXCEPT ![indirect_array[ent]] = 1]
  /\ ent' = ent + 1
  /\ UNCHANGED <<indirect_array, stray, scatter_pc, sorted_idx, verdict>>

\* std::sort, which leaves the words behind the array alone.
SortIndices ==
  /\ scatter_pc = "scatter" /\ ent = num_accesses
  /\ indirect_array' =
       LET sorted == Sorted([n \in 1 .. num_accesses |-> indirect_array[n - 1]])
       IN  [n \in Accesses0 |-> sorted[n + 1]]
  /\ scatter_pc' = "validate" /\ ent' = 0
  /\ UNCHANGED <<stray, scatter_array, sorted_idx, verdict>>

-----------------------------------------------------------------------------
\* indirect_array[n], at and behind its end too.
Word(n) ==
  IF n < num_accesses THEN indirect_array[n]
  ELSE IF n - num_accesses < Len(stray) THEN stray[n - num_accesses + 1]
  ELSE NoEntry

\* while (indirect_array[sorted_idx] == i) sorted_idx++
Mut_PastEqual(n) == sorted_idx + 1
PastEqual(n) ==
  CHOOSE k \in sorted_idx + 1 .. num_accesses + Len(stray) :
    /\ \A l \in sorted_idx .. k - 1 : Word(l) = n
    /\ Word(k) # n

Wrong == verdict' = "error" /\ scatter_pc' = "end" /\ UNCHANGED sorted_idx

Validate ==
  /\ scatter_pc = "validate" /\ ent < num_ents
  /\ \/ /\ Word(sorted_idx) = ent /\ scatter_array[ent] = 1
        /\ sorted_idx' = PastEqual(ent)
        /\ UNCHANGED <<scatter_pc, verdict>>
     \/ /\ Word(sorted_idx) # ent /\ scatter_array[ent] = 0
        /\ UNCHANGED <<sorted_idx, scatter_pc, verdict>>
     \/ /\ scatter_array[ent] # (IF Word(sorted_idx) = ent THEN 1 ELSE 0)
        /\ Wrong
  /\ ent' = ent + 1
  /\ UNCHANGED <<indirect_array, stray, scatter_array>>

Validated ==
  /\ scatter_pc = "validate" /\ ent = num_ents
  /\ scatter_pc' = "end"
  /\ UNCHANGED <<indirect_array, stray, scatter_array, ent, sorted_idx, verdict>>

ScatterNext == Scatter \/ SortIndices \/ Validate \/ Validated

ScatterSpec ==
  /\ ScatterInit([Accesses0 -> Entries], Seq(Nat), FilledBuffers)
  /\ [][ScatterNext]_scatter_vars

-----------------------------------------------------------------------------
Expected(e) == IF \E n \in Accesses0 : indirect_array[n] = e THEN 1 ELSE 0
LastIndex == CHOOSE e \in Entries :
  /\ Expected(e) = 1
  /\ \A f \in e + 1 .. num_ents - 1 : Expected(f) = 0

Right(e) == scatter_array[e] = Expected(e)

\* The validation is right about the buffer, unless the word it reads behind
\* the end of indirect_array happens to be an index no smaller than all those
\* in it.  Even then it passes no wrong entry up to the largest index, and
\* behind that none but one that looks scattered.
JudgesBuffer ==
  scatter_pc = "end" =>
    /\ \/ verdict = "ok" <=> \A e \in Entries : Right(e)
       \/ Word(num_accesses) \in LastIndex .. num_ents - 1
    /\ verdict = "ok" =>
         \A e \in Entries :
           Right(e) \/ (e > LastIndex /\ scatter_array[e] = 1)

ScatterEnds == scatter_pc = "end"
=============================================================================
