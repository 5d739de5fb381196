----------------------------- MODULE PostingLists -----------------------------
(***************************************************************************)
(* The posting lists of the walker program (src/src/posting_list.cpp): the *)
(* harness allocates a list for each request, the requests intersect and   *)
(* walk them, the harness frees them.  Lists of offloading requests are    *)
(* put into the cache by the DSA, node by node, with retries when it fails *)
(* (src/src/dsa_alloc.cpp); those of requests on the core are made by the   *)
(* host, three for a request.                                              *)
(*                                                                         *)
(* Addresses are handed out in order and never reused, so that a use of a  *)
(* freed node shows.                                                       *)
(***************************************************************************)
EXTENDS Naturals, Sequences, FiniteSets

CONSTANTS
  Lengths,      \* the values of pl_len
  NumLists,     \* posting lists allocated
  RetryLimit,   \* dsa_llc_realloc retries while num_retries <= RetryLimit
  GARBAGE       \* contents of a node nobody has written

ASSUME PostingListsAssumption ==
  /\ Lengths \subseteq Nat \ {0}
  /\ NumLists \in Nat /\ NumLists >= 3
  /\ RetryLimit \in Nat
  /\ GARBAGE \notin [docID : Nat, next : Nat]

NULL == 0

VARIABLES
  pl_len,
  builder,      \* "llc" or "host": which function builds the lists
  heap,         \* contents of every node that is allocated
  fresh,        \* the next address of malloc
  heads,        \* the lists built
  list_pc,
  cpy_src, cpy_dst, tgt, head,  \* locals of build_llc_ll
  doc,                          \* its loop index
  num_retries,                  \* of dsa_llc_realloc
  cur1, cur2, cur3,             \* cursors into the lists
  which                         \* the list being walked or freed

building == <<cpy_src, cpy_dst, tgt, head, doc, num_retries>>
cursors == <<cur1, cur2, cur3, which>>
list_vars ==
  <<pl_len, builder, heap, fresh, heads, list_pc, building, cursors>>

ListInit(lengths, builders) ==
  /\ pl_len \in lengths
  /\ builder \in builders
  /\ heap = << >> /\ fresh = 1 /\ heads = << >>
  /\ list_pc = "allocate"
  /\ cpy_src = NULL /\ cpy_dst = NULL /\ tgt = NULL /\ head = NULL
  /\ doc = 0 /\ num_retries = 0
  /\ cur1 = NULL /\ cur2 = NULL /\ cur3 = NULL /\ which = 1

\* Heaps.
Malloc(h, addresses) ==
  [n \in DOMAIN h \cup addresses |-> IF n \in addresses THEN GARBAGE ELSE h[n]]
Free(h, n) == [k \in DOMAIN h \ {n} |-> h[k]]
NextOf(n) == heap[n].next

Allocating == list_pc = "allocate" /\ Len(heads) < NumLists

-----------------------------------------------------------------------------
(***************************************************************************)
(* build_llc_ll: cpy_src is filled in and copied to cpy_dst, which is then  *)
(* the node that the one before points to.                                  *)
(***************************************************************************)
BuildLlc ==
  /\ Allocating /\ builder = "llc"
  /\ cpy_src' = fresh /\ cpy_dst' = fresh + 1 /\ tgt' = fresh + 2
  /\ heap' = Malloc(heap, fresh .. fresh + 2)
  /\ fresh' = fresh + 3
  /\ head' = cpy_dst'
  /\ doc' = 0 /\ num_retries' = 0
  /\ list_pc' = "fill"
  /\ UNCHANGED <<pl_len, builder, heads, cursors>>

IsLast == doc >= pl_len - 1

FillSource ==
  /\ list_pc = "fill"
  /\ heap' = [heap EXCEPT ![cpy_src] =
       [docID |-> doc, next |-> IF IsLast THEN NULL ELSE tgt]]
  /\ num_retries' = 0
  /\ list_pc' = "copy"
  /\ UNCHANGED <<pl_len, builder, fresh, heads, cpy_src, cpy_dst, tgt, head,
                 doc, cursors>>

Mut_Scratch == cpy_dst
Scratch == cpy_src

\* The copy is done: go on with the next node, or return head.
Copied(copy) ==
  /\ IF IsLast
     THEN /\ heap' = Free(copy, Scratch)
          /\ heads' = Append(heads, head)
          /\ list_pc' = "allocate"
          /\ UNCHANGED <<fresh, cpy_dst, tgt, doc>>
     ELSE /\ heap' = Malloc(copy, {fresh})
          /\ cpy_dst' = tgt /\ tgt' = fresh /\ fresh' = fresh + 1
          /\ doc' = doc + 1
          /\ list_pc' = "fill"
          /\ UNCHANGED heads
  /\ UNCHANGED <<pl_len, builder, cpy_src, head, num_retries, cursors>>

WholeCopy == [heap EXCEPT ![cpy_dst] = heap[cpy_src]]

DsaCopies ==
  /\ list_pc = "copy"
  /\ Copied(WholeCopy)

\* A failed job may have written part of the node.
DsaFails ==
  /\ list_pc = "copy"
  /\ heap' \in {heap, [heap EXCEPT ![cpy_dst] = GARBAGE]}
  /\ list_pc' = "failed"
  /\ UNCHANGED <<pl_len, builder, fresh, heads, building, cursors>>

Mut_Retries == num_retries
Retries == num_retries + 1

\* goto retry
Retry ==
  /\ list_pc = "failed" /\ num_retries <= RetryLimit
  /\ num_retries' = Retries
  /\ list_pc' = "copy"
  /\ UNCHANGED <<pl_len, builder, heap, fresh, heads, cpy_src, cpy_dst, tgt,
                 head, doc, cursors>>

Mut_FallBack == heap
FallBack == WholeCopy

\* Out of retries: memcpy.
CopyOnCore ==
  /\ list_pc = "failed" /\ num_retries > RetryLimit
  /\ Copied(FallBack)

\* build_host_ll.
BuildHost ==
  LET last == fresh + pl_len - 1
      nodes == fresh .. last
  IN
  /\ Allocating /\ builder = "host"
  /\ heap' = [n \in DOMAIN heap \cup nodes |->
       IF n \in nodes
       THEN [docID |-> n - fresh, next |-> IF n = last THEN NULL ELSE n + 1]
       ELSE heap[n]]
  /\ fresh' = last + 1
  /\ heads' = Append(heads, fresh)
  /\ UNCHANGED <<pl_len, builder, list_pc, building, cursors>>

-----------------------------------------------------------------------------
(***************************************************************************)
(* The requests.  On the core the first two lists are intersected into the *)
(* third, which is then walked; a request that offloads walks its own list. *)
(***************************************************************************)
StartRequests ==
  /\ list_pc = "allocate" /\ Len(heads) = NumLists
  /\ IF builder = "host"
     THEN /\ list_pc' = "intersect"
          /\ cur1' = heads[1] /\ cur2' = heads[2] /\ cur3' = heads[3]
          /\ UNCHANGED which
     ELSE /\ list_pc' = "walk" /\ which' = 1
          /\ cur1' = heads[1]
          /\ UNCHANGED <<cur2, cur3>>
  /\ UNCHANGED <<pl_len, builder, heap, fresh, heads, building>>

Mut_Matched == cur1' = NextOf(cur1) /\ cur2' = NextOf(cur2) /\ UNCHANGED cur3
Matched == cur1' = NextOf(cur1) /\ cur2' = NextOf(cur2) /\ cur3' = NextOf(cur3)

intersect_posting_lists ==
  /\ list_pc = "intersect" /\ cur1 # NULL /\ cur2 # NULL
  /\ \/ /\ heap[cur1].docID = heap[cur2].docID
        /\ heap' = [heap EXCEPT ![cur3].docID = heap[cur1].docID]
        /\ Matched
     \/ /\ heap[cur1].docID < heap[cur2].docID
        /\ cur1' = NextOf(cur1) /\ UNCHANGED <<heap, cur2, cur3>>
     \/ /\ heap[cur1].docID > heap[cur2].docID
        /\ cur2' = NextOf(cur2) /\ UNCHANGED <<heap, cur1, cur3>>
  /\ UNCHANGED <<pl_len, builder, fresh, heads, list_pc, building, which>>

Intersected ==
  /\ list_pc = "intersect" /\ NULL \in {cur1, cur2}
  /\ list_pc' = "walk" /\ which' = 3 /\ cur1' = heads[3]
  /\ UNCHANGED <<pl_len, builder, heap, fresh, heads, building, cur2, cur3>>

ll_simple ==
  /\ list_pc = "walk" /\ cur1 # NULL
  /\ cur1' = NextOf(cur1)
  /\ UNCHANGED <<pl_len, builder, heap, fresh, heads, list_pc, building, cur2,
                 cur3, which>>

\* The next list; after the last walk free_posting_lists starts over.
NextList ==
  /\ list_pc \in {"walk", "free"} /\ cur1 = NULL
  /\ \/ /\ which < NumLists
        /\ which' = which + 1 /\ UNCHANGED list_pc
     \/ /\ which = NumLists /\ list_pc = "walk"
        /\ which' = 1 /\ list_pc' = "free"
     \/ /\ which = NumLists /\ list_pc = "free"
        /\ list_pc' = "freed" /\ UNCHANGED which
  /\ cur1' = IF list_pc' = "freed" THEN NULL ELSE heads[which']
  /\ UNCHANGED <<pl_len, builder, heap, fresh, heads, building, cur2, cur3>>

\* next is read before the node is freed.
free_ll ==
  /\ list_pc = "free" /\ cur1 # NULL
  /\ cur1' = NextOf(cur1)
  /\ heap' = Free(heap, cur1)
  /\ UNCHANGED <<pl_len, builder, fresh, heads, list_pc, building, cur2, cur3,
                 which>>

ListNext ==
  \/ BuildLlc \/ FillSource \/ DsaCopies \/ DsaFails \/ Retry
  \/ CopyOnCore \/ BuildHost \/ StartRequests
  \/ intersect_posting_lists \/ Intersected \/ ll_simple \/ NextList \/ free_ll

ListSpec == ListInit(Lengths, {"llc", "host"}) /\ [][ListNext]_list_vars

-----------------------------------------------------------------------------
Follow(n) ==
  IF n \in DOMAIN heap /\ heap[n] # GARBAGE THEN heap[n].next ELSE NULL

\* The nodes of a list, the first to the one after the last.
NodesFrom(n) ==
  LET nth[k \in 0 .. pl_len] == IF k = 0 THEN n ELSE Follow(nth[k - 1])
  IN nth

\* Until it is freed every list that was built has its documents, 0 to
\* pl_len - 1, in order and nothing behind them, however often the DSA failed
\* and whatever it left, and the intersection of equal lists is that list.
ListWhole ==
  list_pc \in {"free", "freed"} \/
  \A k \in 1 .. Len(heads) :
    LET nodes == NodesFrom(heads[k]) IN
    /\ nodes[pl_len] = NULL
    /\ \A n \in 0 .. pl_len - 1 :
         /\ nodes[n] \in DOMAIN heap /\ heap[nodes[n]] # GARBAGE
         /\ heap[nodes[n]].docID = n

\* The nodes about to be read.
Cursors ==
  CASE list_pc = "intersect" -> {cur1, cur2, cur3}
    [] list_pc \in {"walk", "free"} -> {cur1}
    [] OTHER -> {}

\* A node is read, written or freed only while it is allocated and after it
\* was written.  In the end every node is freed, but the target that
\* build_llc_ll allocated for a node it never made, one for each list.
NodesFreedOnce ==
  /\ list_pc \in {"fill", "copy", "failed"} =>
       {cpy_src, cpy_dst, tgt} \subseteq DOMAIN heap
  /\ \A n \in Cursors \ {NULL} : n \in DOMAIN heap /\ heap[n] # GARBAGE
  /\ list_pc = "freed" =>
       Cardinality(DOMAIN heap) = IF builder = "llc" THEN NumLists ELSE 0

ListsEnd == list_pc = "freed"
=============================================================================
