----------------------------- MODULE PointerChain -----------------------------
(***************************************************************************)
(* The chains of pointers that three_phase.cpp's requests chase             *)
(* (src/src/payload_gen.cpp, src/src/pointer_chase.cpp): a random           *)
(* permutation of the lines of a buffer, each line pointing to the next     *)
(* one.  A request chases one chain in its own buffer, offloads the copy of *)
(* another to its destination, whose lines that chain names, and chases the *)
(* copy there.                                                              *)
(***************************************************************************)
EXTENDS Naturals, FiniteSets

CONSTANTS
  Len64,         \* lines of a buffer: size / 64
  Accesses,      \* how many pointers one chase follows
  DeviceMayFail  \* whether the copy may fail

ASSUME PointerChainAssumption ==
  /\ Len64 \in Nat \ {0} /\ Accesses \in Nat
  /\ DeviceMayFail \in BOOLEAN

Lines == 0 .. Len64 - 1
At(buffer, line) == [buffer |-> buffer, line |-> line]
Unset == At("nowhere", 0)  \* a word that is no pointer

VARIABLES
  indices,      \* the permutation
  step_i,       \* loop index
  st_addr,      \* the buffer the chain will be chased in
  memory,       \* the first word of each line of the buffer being built
  dst,          \* the same of the destination of the offload
  chain_pc,
  p, count,     \* of chase_pointers
  visited,      \* lines read in this round of the chase
  copy_failed

chase == <<p, count, visited>>
chain_vars ==
  <<indices, step_i, st_addr, memory, dst, chain_pc, chase, copy_failed>>

\* create_random_chain points into its own buffer, create_random_chain_
\* starting_at into the one it is given.
ChainInit(targets) ==
  /\ st_addr \in targets
  /\ indices = [n \in Lines |-> n]
  /\ step_i = Len64 - 1
  /\ memory = [n \in Lines |-> Unset] /\ dst = memory
  /\ chain_pc = "shuffle"
  /\ p = Unset /\ count = 0 /\ visited = {}
  /\ copy_failed = FALSE

-----------------------------------------------------------------------------
Mut_Swapped(f, x, y) == [f EXCEPT ![x] = f[y]]
Swapped(f, x, y) == [f EXCEPT ![x] = f[y], ![y] = f[x]]

\* random_permutation: rand() % (i + 1) is any index up to i.
Shuffle ==
  /\ chain_pc = "shuffle" /\ step_i > 0
  /\ \E j \in 0 .. step_i : indices' = Swapped(indices, step_i, j)
  /\ step_i' = step_i - 1
  /\ UNCHANGED <<st_addr, memory, dst, chain_pc, chase, copy_failed>>

Shuffled ==
  /\ chain_pc = "shuffle" /\ step_i = 0
  /\ step_i' = 1 /\ chain_pc' = "link"
  /\ UNCHANGED <<indices, st_addr, memory, dst, chase, copy_failed>>

Mut_Target(line) == At("memory", line)
Target(line) == At(st_addr, line)

Link ==
  /\ chain_pc = "link" /\ step_i < Len64
  /\ memory' = [memory EXCEPT ![indices[step_i - 1]] = Target(indices[step_i])]
  /\ step_i' = step_i + 1
  /\ UNCHANGED <<indices, st_addr, dst, chain_pc, chase, copy_failed>>

\* The last line points to the first one.
Close ==
  /\ chain_pc = "link" /\ step_i = Len64
  /\ memory' = [memory EXCEPT ![indices[Len64 - 1]] = Target(indices[0])]
  /\ chain_pc' = IF st_addr = "dst" THEN "copy" ELSE "start"
  /\ UNCHANGED <<indices, step_i, st_addr, dst, chase, copy_failed>>

\* The offload; the request waits for an answer and does not look at it.  A
\* copy that fails has written any part of the destination.
Copy ==
  /\ chain_pc = "copy"
  /\ \E written \in SUBSET Lines :
       /\ written # Lines => DeviceMayFail
       /\ dst' = [n \in Lines |-> IF n \in written THEN memory[n] ELSE dst[n]]
       /\ copy_failed' = (written # Lines)
  /\ chain_pc' = "start"
  /\ UNCHANGED <<indices, step_i, st_addr, memory, chase>>

\* chase_pointers, from the start of the buffer.
StartChase ==
  /\ chain_pc = "start"
  /\ p' = At(st_addr, 0) /\ count' = Accesses /\ visited' = {}
  /\ chain_pc' = "chase"
  /\ UNCHANGED <<indices, step_i, st_addr, memory, dst, copy_failed>>

Pointed(q) == IF q.buffer = "dst" THEN dst[q.line] ELSE memory[q.line]

Chase ==
  /\ chain_pc = "chase" /\ count > 0 /\ p # Unset
  /\ count' = count - 1
  /\ p' = Pointed(p)
  /\ visited' = IF visited = Lines THEN {p.line} ELSE visited \cup {p.line}
  /\ UNCHANGED <<indices, step_i, st_addr, memory, dst, chain_pc, copy_failed>>

ChainNext ==
  \/ Shuffle \/ Shuffled \/ Link \/ Close \/ Copy \/ StartChase \/ Chase

ChainSpec == ChainInit({"memory", "dst"}) /\ [][ChainNext]_chain_vars

-----------------------------------------------------------------------------
\* Whatever the random numbers are, a chase stays in its buffer and reads every
\* line once before it reads one again, however often it goes round.  After a
\* copy that failed unseen it still does, up to the first line that was not
\* copied, whose word it takes for a pointer.
VisitsEveryLine ==
  chain_pc = "chase" =>
    \/ copy_failed /\ p = Unset
    \/ /\ p.buffer = st_addr /\ p.line \in Lines
       /\ visited # Lines => p.line \notin visited

\* random_permutation returns a permutation.
IndicesPermuted ==
  /\ indices \in [Lines -> Lines]
  /\ \A x, y \in Lines : indices[x] = indices[y] => x = y

ChainEnds == chain_pc = "chase" /\ (count = 0 \/ p = Unset)
=============================================================================
