---------------------------- MODULE DataPathProofs ----------------------------
(***************************************************************************)
(* Theorems about the data algorithms of the requests, for every value of  *)
(* their constants and of their inputs.                                    *)
(***************************************************************************)
EXTENDS PointerChain, PostingLists, GatherScatter, Statistics, NaturalFacts

(***************************************************************************)
(* Chains of pointers.  Whatever the random numbers are, the shuffle       *)
(* yields a permutation, the chain made of it is one circle through all    *)
(* lines, and a chase reads each line once a round.                        *)
(***************************************************************************)

\* Every line is the target of an index.
Onto == \A line \in Lines : \E x \in Lines : indices[x] = line

\* The position after x on the circle.
After(x) == IF x = Len64 - 1 THEN 0 ELSE x + 1

\* The positions from s on, up to the one before k.
Arc(s, k) == {x \in Lines : IF s <= k THEN s <= x /\ x < k ELSE s <= x \/ x < k}

ChainTypeOK ==
  /\ st_addr \in {"memory", "dst"}
  /\ chain_pc \in {"shuffle", "link", "copy", "start", "chase"}
  /\ step_i \in Nat
  /\ DOMAIN memory = Lines /\ DOMAIN dst = Lines
  /\ count \in 0 .. Accesses
  /\ copy_failed \in BOOLEAN

\* The lines linked up to position n.
LinkedTo(n) ==
  \A x \in Lines :
    x + 1 < n => memory[indices[x]] = At(st_addr, indices[x + 1])

Circle(buffer) ==
  \A x \in Lines : buffer[indices[x]] = At(st_addr, indices[After(x)])

\* The same, but for lines that a copy that failed left out.
Chain(buffer) ==
  \A x \in Lines :
    \/ buffer[indices[x]] = At(st_addr, indices[After(x)])
    \/ copy_failed /\ buffer[indices[x]] = Unset

\* The chase is at position k, and has read the arc since position s.
OnCircle(s, k) ==
  /\ p = At(st_addr, indices[k])
  /\ visited = Lines \/ visited = {indices[x] : x \in Arc(s, k)}

Progress ==
  /\ chain_pc = "shuffle" => step_i \in Lines
  /\ chain_pc = "link" => step_i \in 1 .. Len64 /\ LinkedTo(step_i)
  /\ chain_pc = "copy" => Circle(memory)
  /\ chain_pc \in {"shuffle", "link", "copy"} =>
       \A line \in Lines : dst[line] = Unset
  /\ chain_pc \in {"start", "chase"} =>
       Chain(IF st_addr = "dst" THEN dst ELSE memory)
  /\ chain_pc = "chase" =>
       \/ copy_failed /\ p = Unset
       \/ \E s, k \in Lines : OnCircle(s, k)

ChainInv == ChainTypeOK /\ IndicesPermuted /\ Onto /\ Progress

-----------------------------------------------------------------------------
\* Swapping two entries of a permutation gives a permutation.
LEMMA SwapPermutes ==
  ASSUME IndicesPermuted, Onto, NEW x \in Lines, NEW y \in Lines,
         indices' = Swapped(indices, x, y)
  PROVE  IndicesPermuted' /\ Onto'
<1>1. /\ indices' \in [Lines -> Lines]
      /\ \A z \in Lines : indices'[z] = IF z = y THEN indices[x]
                                        ELSE IF z = x THEN indices[y]
                                        ELSE indices[z]
  BY DEF IndicesPermuted, Swapped
<1>2. IndicesPermuted'
  BY <1>1 DEF IndicesPermuted, Lines
<1>3. ASSUME NEW line \in Lines
      PROVE  \E z \in Lines : indices'[z] = line
  <2>1. PICK z \in Lines : indices[z] = line
    BY DEF Onto
  <2>2. CASE z = x
    BY <1>1, <2>1, <2>2
  <2>3. CASE z = y
    BY <1>1, <2>1, <2>3
  <2>4. CASE z # x /\ z # y
    BY <1>1, <2>1, <2>4
  <2> QED
    BY <2>2, <2>3, <2>4
<1> QED
  BY <1>2, <1>3 DEF Onto, Lines

\* Both facts are about the permutation alone.
LEMMA StaysPermuted ==
  ASSUME IndicesPermuted, Onto, indices' = indices
  PROVE  IndicesPermuted' /\ Onto'
  BY DEF IndicesPermuted, Onto, Lines

\* One more line read: the arc grows by position k, or the round is complete.
LEMMA ArcGrows ==
  ASSUME NEW s \in Lines, NEW k \in Lines
  PROVE  \/ Arc(s, k) \cup {k} = Lines
         \/ Arc(s, k) \cup {k} = Arc(s, After(k))
  BY PointerChainAssumption DEF Arc, After, Lines

\* A new round: the arc of position k alone, or a circle of one line.
LEMMA ArcBegins ==
  ASSUME NEW k \in Lines
  PROVE  {k} = Lines \/ {k} = Arc(k, After(k))
  BY PointerChainAssumption DEF Arc, After, Lines

\* A position that is not on the arc so far.
LEMMA ArcEnds ==
  ASSUME NEW s \in Lines, NEW k \in Lines
  PROVE  k \notin Arc(s, k) /\ After(k) \in Lines
  BY PointerChainAssumption DEF Arc, After, Lines

-----------------------------------------------------------------------------
\* The invariant holds at first.
LEMMA ChainInitInv == ChainInit({"memory", "dst"}) => ChainInv
<1> SUFFICES ASSUME ChainInit({"memory", "dst"})
             PROVE  ChainInv
  OBVIOUS
<1>1. Len64 - 1 \in Lines /\ Len64 - 1 \in Nat
  BY PointerChainAssumption DEF Lines
<1>2. indices = [n \in Lines |-> n]
  BY DEF ChainInit
<1>3. IndicesPermuted /\ Onto
  BY <1>2 DEF IndicesPermuted, Onto
<1>4. ChainTypeOK
  <2>1. DOMAIN memory = Lines /\ DOMAIN dst = Lines
    BY DEF ChainInit
  <2>2. /\ st_addr \in {"memory", "dst"} /\ chain_pc = "shuffle"
        /\ step_i = Len64 - 1 /\ count = 0 /\ copy_failed = FALSE
    BY DEF ChainInit
  <2>3. count \in 0 .. Accesses
    BY <2>2, PointerChainAssumption
  <2> QED
    BY <1>1, <2>1, <2>2, <2>3 DEF ChainTypeOK
<1>5. Progress
  BY <1>1 DEF ChainInit, Progress
<1> QED
  BY <1>3, <1>4, <1>5 DEF ChainInv

\* One access of the chase stays on the circle.
LEMMA ChaseStays ==
  ASSUME ChainInv, Chase, NEW s \in Lines, NEW k \in Lines, OnCircle(s, k),
         p' = At(st_addr, indices[After(k)])
  PROVE  \E s2, k2 \in Lines : OnCircle(s2, k2)'
<1>1. /\ p = At(st_addr, indices[k]) /\ chain_pc = "chase"
      /\ p' = Pointed(p) /\ st_addr' = st_addr /\ indices' = indices
      /\ visited' = IF visited = Lines THEN {p.line} ELSE visited \cup {p.line}
  BY DEF Chase, OnCircle
<1>2. p.line = indices[k] /\ p.buffer = st_addr
  BY <1>1 DEF At
<1>3. p' = At(st_addr, indices[After(k)])
  OBVIOUS
<1>4. After(k) \in Lines
  BY ArcEnds
<1>5. \A S \in SUBSET Lines : {indices[x] : x \in S \cup {k}}
                              = {indices[x] : x \in S} \cup {indices[k]}
  OBVIOUS
<1>6. {indices[x] : x \in Lines} = Lines
  BY DEF ChainInv, IndicesPermuted, Onto
<1>7. CASE visited = Lines
  <2>1. visited' = {indices[x] : x \in {k}}
    BY <1>1, <1>2, <1>7
  <2>2. CASE {k} = Lines
    BY <1>1, <1>3, <1>4, <1>6, <2>1, <2>2 DEF OnCircle, Lines
  <2>3. CASE {k} = Arc(k, After(k))
    <3>1. visited' = {indices'[x] : x \in Arc(k, After(k))}
      BY <1>1, <2>1, <2>3
    <3>2. OnCircle(k, After(k))'
      BY <1>1, <1>3, <3>1 DEF OnCircle, Arc, After, Lines
    <3> QED
      BY <1>4, <3>2
  <2> QED
    BY ArcBegins, <2>2, <2>3
<1>8. CASE visited # Lines
  <2>1. visited' = {indices[x] : x \in Arc(s, k) \cup {k}}
    BY <1>1, <1>2, <1>5, <1>8 DEF OnCircle, Arc
  <2>2. CASE Arc(s, k) \cup {k} = Lines
    BY <1>1, <1>3, <1>4, <1>6, <2>1, <2>2 DEF OnCircle, Lines
  <2>3. CASE Arc(s, k) \cup {k} = Arc(s, After(k))
    <3>1. visited' = {indices'[x] : x \in Arc(s, After(k))}
      BY <1>1, <2>1, <2>3
    <3>2. OnCircle(s, After(k))'
      BY <1>1, <1>3, <3>1 DEF OnCircle, Arc, After, Lines
    <3> QED
      BY <1>4, <3>2
  <2> QED
    BY ArcGrows, <2>2, <2>3
<1> QED
  BY <1>7, <1>8

\* Every step keeps the invariant.
LEMMA ChainStepInv == ChainInv /\ [ChainNext]_chain_vars => ChainInv'
<1> SUFFICES ASSUME ChainInv, [ChainNext]_chain_vars
             PROVE  ChainInv'
  OBVIOUS
<1> USE DEF ChainInv
<1>0. Len64 \in Nat \ {0} /\ Accesses \in Nat
  BY PointerChainAssumption
<1>1. CASE Shuffle
  <2>1. PICK j \in 0 .. step_i : indices' = Swapped(indices, step_i, j)
    BY <1>1 DEF Shuffle
  <2>2. step_i \in Lines /\ j \in Lines /\ step_i - 1 \in Lines
    BY <1>0, <1>1 DEF Shuffle, Progress, Lines
  <2>3. IndicesPermuted' /\ Onto'
    BY <2>1, <2>2, SwapPermutes
  <2>4. ChainTypeOK' /\ Progress'
    BY <1>1, <2>2 DEF Shuffle, ChainTypeOK, Progress, chase, Lines, Unset, At
  <2> QED
    BY <2>3, <2>4
<1>2. CASE Shuffled
  <2>1. LinkedTo(step_i)'
    BY <1>2 DEF Shuffled, LinkedTo, Lines
  <2>2. ChainTypeOK' /\ IndicesPermuted' /\ Onto'
    <3>1. indices' = indices
      BY <1>2 DEF Shuffled
    <3>2. ChainTypeOK'
      BY <1>2 DEF Shuffled, ChainTypeOK, Lines, chase
    <3> QED
      BY <3>1, <3>2, StaysPermuted
  <2>3. Progress'
    BY <1>0, <1>2, <2>1 DEF Shuffled, Progress, Lines, Unset, At
  <2> QED
    BY <2>2, <2>3
<1>3. CASE Link
  <2>1. step_i \in 1 .. Len64 - 1 /\ LinkedTo(step_i) /\ chain_pc' = "link"
        /\ step_i' = step_i + 1 /\ indices' = indices /\ st_addr' = st_addr
    BY <1>0, <1>3 DEF Link, Progress
  <2>2. step_i - 1 \in Lines /\ step_i \in Lines
    BY <1>0, <2>1 DEF Lines
  <2>3. /\ memory' = [memory EXCEPT ![indices[step_i - 1]] =
                                      At(st_addr, indices[step_i])]
        /\ DOMAIN memory = Lines
    BY <1>3 DEF Link, Target, ChainTypeOK
  <2>4. ASSUME NEW x \in Lines, x + 1 < step_i + 1
        PROVE  memory'[indices[x]] = At(st_addr, indices[x + 1])
    <3>1. CASE x = step_i - 1
      BY <2>1, <2>2, <2>3, <3>1 DEF IndicesPermuted
    <3>2. CASE x # step_i - 1
      <4>1. x + 1 < step_i
        BY <2>1, <2>4, <3>2 DEF Lines
      <4>2. indices[x] # indices[step_i - 1]
        BY <2>2, <3>2 DEF IndicesPermuted
      <4> QED
        BY <2>1, <2>3, <4>1, <4>2 DEF LinkedTo, IndicesPermuted
    <3> QED
      BY <3>1, <3>2
  <2>5. LinkedTo(step_i)'
    BY <2>1, <2>4 DEF LinkedTo, Lines, At
  <2>6. ChainTypeOK' /\ IndicesPermuted' /\ Onto'
    <3>1. indices' = indices
      BY <1>3, <2>3 DEF Link
    <3>2. ChainTypeOK'
      BY <1>3, <2>3 DEF Link, ChainTypeOK, Lines, chase
    <3> QED
      BY <3>1, <3>2, StaysPermuted
  <2>7. Progress'
    BY <1>0, <1>3, <2>1, <2>5 DEF Link, Progress, Lines, Unset, At
  <2> QED
    BY <2>6, <2>7
<1>4. CASE Close
  <2>1. step_i = Len64 /\ LinkedTo(Len64)
    BY <1>4 DEF Close, Progress
  <2>2. Len64 - 1 \in Lines
    BY <1>0 DEF Lines
  <2>3. /\ memory' = [memory EXCEPT ![indices[Len64 - 1]] =
                                      At(st_addr, indices[0])]
        /\ DOMAIN memory = Lines
        /\ indices' = indices /\ st_addr' = st_addr
        /\ chain_pc' = IF st_addr = "dst" THEN "copy" ELSE "start"
    BY <1>4 DEF Close, Target, ChainTypeOK
  <2>4. ASSUME NEW x \in Lines
        PROVE  memory'[indices[x]] = At(st_addr, indices[After(x)])
    <3>1. CASE x = Len64 - 1
      BY <2>2, <2>3, <3>1 DEF IndicesPermuted, After
    <3>2. CASE x # Len64 - 1
      <4>1. x + 1 < Len64 /\ After(x) = x + 1
        BY <1>0, <3>2 DEF Lines, After
      <4>2. indices[x] # indices[Len64 - 1]
        BY <2>2, <3>2 DEF IndicesPermuted
      <4> QED
        BY <2>1, <2>3, <4>1, <4>2 DEF LinkedTo, IndicesPermuted
    <3> QED
      BY <3>1, <3>2
  <2>5. Circle(memory)'
    BY <2>3, <2>4 DEF Circle, Lines, At, After
  <2>6. ChainTypeOK' /\ IndicesPermuted' /\ Onto'
    <3>1. indices' = indices
      BY <1>4, <2>3 DEF Close
    <3>2. ChainTypeOK'
      BY <1>4, <2>3 DEF Close, ChainTypeOK, Lines, chase
    <3> QED
      BY <3>1, <3>2, StaysPermuted
  <2>7. dst' = dst /\ chain_pc = "link"
    BY <1>4 DEF Close
  <2>8. Chain(memory)'
    BY <2>5 DEF Chain, Circle, Lines, At, After, Unset
  <2>9. Progress'
    BY <2>3, <2>5, <2>7, <2>8 DEF Progress, ChainTypeOK, Lines, Unset, At
  <2> QED
    BY <2>6, <2>9
<1>5. CASE Copy
  <2>1. /\ indices' = indices /\ st_addr' = st_addr /\ memory' = memory
        /\ chain_pc' = "start" /\ Circle(memory)
    BY <1>5 DEF Copy, Progress
  <2>4. PICK written \in SUBSET Lines :
          /\ dst' = [n \in Lines |-> IF n \in written THEN memory[n]
                                                      ELSE dst[n]]
          /\ copy_failed' = (written # Lines)
    BY <1>5 DEF Copy
  <2>5. \A line \in Lines : dst[line] = Unset
    BY <1>5 DEF Copy, Progress
  <2>2. ChainTypeOK' /\ IndicesPermuted' /\ Onto'
    <3>1. indices' = indices
      BY <1>5, <2>1 DEF Copy
    <3>2. ChainTypeOK'
      BY <1>5, <2>1, <2>4 DEF Copy, ChainTypeOK, Lines, chase
    <3> QED
      BY <3>1, <3>2, StaysPermuted
  <2>6. Chain(IF st_addr = "dst" THEN dst ELSE memory)'
    <3>1. \A x \in Lines : indices[x] \in Lines
      BY DEF IndicesPermuted
    <3>2. \A x \in Lines :
            /\ memory[indices[x]] = At(st_addr, indices[After(x)])
            /\ \/ dst'[indices[x]] = memory[indices[x]]
               \/ copy_failed' /\ dst'[indices[x]] = Unset
      BY <2>1, <2>4, <2>5, <3>1 DEF Circle
    <3> QED
      BY <2>1, <3>2 DEF Chain, Lines, At, After, Unset
  <2>3. Progress'
    BY <2>1, <2>6 DEF Progress
  <2> QED
    BY <2>2, <2>3
<1>6. CASE StartChase
  <2>1. 0 \in Lines
    BY <1>0 DEF Lines
  <2>2. PICK k \in Lines : indices[k] = 0
    BY <2>1 DEF Onto
  <2>3. /\ p' = At(st_addr, 0) /\ visited' = {} /\ count' = Accesses
        /\ indices' = indices /\ st_addr' = st_addr /\ memory' = memory
        /\ dst' = dst /\ chain_pc = "start" /\ chain_pc' = "chase"
        /\ copy_failed' = copy_failed
    BY <1>6 DEF StartChase
  <2>4. Arc(k, k) = {}
    BY DEF Arc, Lines
  <2>5. OnCircle(k, k)'
    BY <2>2, <2>3, <2>4 DEF OnCircle, Arc, Lines, At
  <2>6. ChainTypeOK' /\ IndicesPermuted' /\ Onto'
    <3>1. indices' = indices
      BY <1>0, <1>6, <2>3 DEF StartChase
    <3>2. ChainTypeOK'
      BY <1>0, <1>6, <2>3 DEF StartChase, ChainTypeOK, Lines, chase
    <3> QED
      BY <3>1, <3>2, StaysPermuted
  <2>7. Progress'
    BY <2>3, <2>5 DEF Progress, Chain, Lines, At, After, Unset
  <2> QED
    BY <2>6, <2>7
<1>7. CASE Chase
  <2>1. /\ indices' = indices /\ st_addr' = st_addr /\ memory' = memory
        /\ dst' = dst /\ chain_pc = "chase" /\ chain_pc' = "chase"
        /\ copy_failed' = copy_failed /\ count' = count - 1 /\ count > 0
    BY <1>7 DEF Chase
  <2>2. ChainTypeOK' /\ IndicesPermuted' /\ Onto'
    <3>1. indices' = indices
      BY <1>0, <1>7, <2>1 DEF Chase
    <3>2. ChainTypeOK'
      BY <1>0, <1>7, <2>1 DEF Chase, ChainTypeOK, Lines, chase
    <3> QED
      BY <3>1, <3>2, StaysPermuted
  <2>3. Chain(IF st_addr = "dst" THEN dst ELSE memory)'
    BY <2>1 DEF Progress, Chain, Lines, At, After, Unset
  <2>4. PICK s \in Lines, k \in Lines : OnCircle(s, k)
    BY <1>7, <2>1 DEF Chase, Progress
  <2>5. \/ p' = At(st_addr, indices[After(k)])
        \/ copy_failed' /\ p' = Unset
    <3>1. p.buffer = st_addr /\ p.line = indices[k]
      BY <2>4 DEF OnCircle, At
    <3>2. p' = (IF st_addr = "dst" THEN dst ELSE memory)[indices[k]]
      BY <1>7, <3>1 DEF Chase, Pointed
    <3> QED
      BY <2>1, <3>2 DEF Progress, Chain
  <2>6. Progress'
    <3>1. ASSUME p' = At(st_addr, indices[After(k)])
          PROVE  (\E s2, k2 \in Lines : OnCircle(s2, k2))'
      <4>1. \E s2, k2 \in Lines : OnCircle(s2, k2)'
        BY <1>7, <2>4, <3>1, ChaseStays
      <4> QED
        BY <4>1 DEF Lines
    <3>2. copy_failed' /\ p' = Unset => (copy_failed /\ p = Unset)'
      BY DEF Unset, At
    <3> QED
      BY <2>1, <2>3, <2>5, <3>1, <3>2 DEF Progress
  <2> QED
    BY <2>2, <2>6
<1>8. CASE UNCHANGED chain_vars
  <2>1. /\ indices' = indices /\ step_i' = step_i /\ st_addr' = st_addr
        /\ memory' = memory /\ dst' = dst /\ chain_pc' = chain_pc
        /\ p' = p /\ count' = count /\ visited' = visited
        /\ copy_failed' = copy_failed
    BY <1>8 DEF chain_vars, chase
  <2>2. IndicesPermuted' /\ Onto'
    BY <2>1, StaysPermuted
  <2>3. ChainTypeOK'
    BY <2>1 DEF ChainTypeOK, Lines
  <2>4. Progress'
    BY <2>1 DEF Progress, LinkedTo, Circle, Chain, OnCircle, Lines, At,
                    After, Arc, Unset
  <2> QED
    BY <2>2, <2>3, <2>4
<1> QED
  BY <1>1, <1>2, <1>3, <1>4, <1>5, <1>6, <1>7, <1>8 DEF ChainNext

\* The inductive invariant of the chain.
THEOREM ChainInvariant == ChainSpec => []ChainInv
  BY ChainInitInv, ChainStepInv, PTL DEF ChainSpec

\* random_permutation yields a permutation of the lines.
THEOREM ShufflePermutes == ChainSpec => []IndicesPermuted
<1>1. ChainInv => IndicesPermuted
  BY DEF ChainInv
<1> QED
  BY <1>1, ChainInvariant, PTL

\* chase_pointers reads every line of its buffer once before it reads one
\* again; after a copy that failed, up to a line that was not copied.
THEOREM ChaseVisitsEveryLine == ChainSpec => []VisitsEveryLine
<1>1. ChainInv => VisitsEveryLine
  <2> SUFFICES ASSUME ChainInv, chain_pc = "chase",
                      ~(copy_failed /\ p = Unset)
               PROVE  /\ p.buffer = st_addr /\ p.line \in Lines
                      /\ visited # Lines => p.line \notin visited
    BY DEF VisitsEveryLine
  <2>1. PICK s \in Lines, k \in Lines : OnCircle(s, k)
    BY DEF ChainInv, Progress
  <2>2. p.buffer = st_addr /\ p.line = indices[k]
    BY <2>1 DEF OnCircle, At
  <2>3. k \notin Arc(s, k) /\ Arc(s, k) \subseteq Lines
    BY ArcEnds DEF Arc
  <2>4. \A x \in Arc(s, k) : indices[x] # indices[k]
    BY <2>3 DEF ChainInv, IndicesPermuted
  <2> QED
    BY <2>1, <2>2, <2>4 DEF OnCircle, ChainInv, IndicesPermuted
<1> QED
  BY <1>1, ChainInvariant, PTL

-----------------------------------------------------------------------------
(***************************************************************************)
(* Posting lists.  The nodes of a list lie in memory one behind the other, *)
(* in the order of its documents, and list behind list: a list is given by *)
(* its head.                                                               *)
(***************************************************************************)
Span(first) == first .. first + pl_len - 1

\* The node x of the list at first.
Node(first, x) ==
  [docID |-> x - first,
   next  |-> IF x = first + pl_len - 1 THEN NULL ELSE x + 1]

\* build_llc_ll leaves a target behind each list.
Hanging == IF builder = "llc" THEN 1 ELSE 0

Building == list_pc \in {"fill", "copy", "failed"}
Base == IF Building THEN cpy_src ELSE fresh

ListTypeOK ==
  /\ pl_len \in Nat \ {0}
  /\ builder \in {"llc", "host"}
  /\ list_pc \in {"allocate", "fill", "copy", "failed", "intersect", "walk",
                  "free", "freed"}
  /\ fresh \in Nat \ {0}
  /\ heads \in Seq(Nat \ {0}) /\ Len(heads) <= NumLists
  /\ doc \in Nat /\ which \in 1 .. NumLists
  /\ {cur1, cur2, cur3, cpy_src, cpy_dst, tgt, head} \subseteq Nat

Laid ==
  /\ \A k \in 1 .. Len(heads) : heads[k] + pl_len + Hanging <= Base
  /\ \A j, k \in 1 .. Len(heads) :
       j < k => heads[j] + pl_len + Hanging <= heads[k]

\* What free_ll has freed: the lists before the one at hand, and of that one
\* the nodes before the cursor.
Gone(k, x) ==
  \/ list_pc = "freed"
  \/ list_pc = "free" /\ (k < which \/ (k = which /\ (cur1 = NULL \/ x < cur1)))

ListNode(x) ==
  \E k \in 1 .. Len(heads) : x \in Span(heads[k]) /\ ~Gone(k, x)

HangingNode(x) ==
  builder = "llc" /\ \E k \in 1 .. Len(heads) : x = heads[k] + pl_len

NewNode(x) == Building /\ (x = cpy_src \/ x \in head .. tgt)

Live(x) == ListNode(x) \/ HangingNode(x) \/ NewNode(x)

Allocated == DOMAIN heap = {x \in 1 .. fresh - 1 : Live(x)}

Contents ==
  \A k \in 1 .. Len(heads) : \A x \in Span(heads[k]) :
    ~Gone(k, x) => heap[x] = Node(heads[k], x)

\* The list that build_llc_ll is at.
Construction ==
  Building =>
    /\ builder = "llc" /\ Len(heads) < NumLists
    /\ doc \in 0 .. pl_len - 1 /\ cpy_src > 0
    /\ head = cpy_src + 1 /\ cpy_dst = head + doc
    /\ tgt = cpy_dst + 1 /\ fresh = tgt + 1
    /\ \A x \in head .. cpy_dst - 1 : heap[x] = Node(head, x)
    /\ list_pc \in {"copy", "failed"} => heap[cpy_src] = Node(head, cpy_dst)

\* The cursors into equal lists move together.
Places ==
  /\ list_pc \in {"intersect", "walk", "free", "freed"} =>
       Len(heads) = NumLists
  /\ list_pc = "intersect" =>
       \/ cur1 = NULL /\ cur2 = NULL /\ cur3 = NULL
       \/ /\ cur1 \in Span(heads[1])
          /\ cur2 = heads[2] + (cur1 - heads[1])
          /\ cur3 = heads[3] + (cur1 - heads[1])
  /\ list_pc \in {"walk", "free"} => cur1 = NULL \/ cur1 \in Span(heads[which])

ListInv ==
  ListTypeOK /\ Laid /\ Allocated /\ Contents /\ Construction /\ Places

-----------------------------------------------------------------------------
\* The list that is being built lies behind the others.
LEMMA BuildingApart ==
  ASSUME ListTypeOK, Construction, Building
  PROVE  /\ builder = "llc" /\ Len(heads) < NumLists
         /\ pl_len \in Nat \ {0} /\ doc \in Nat /\ doc <= pl_len - 1
         /\ cpy_src \in Nat \ {0} /\ Base = cpy_src /\ head = cpy_src + 1
         /\ cpy_dst = head + doc /\ tgt = cpy_dst + 1 /\ fresh = tgt + 1
         /\ cpy_dst \in Nat /\ tgt \in Nat /\ head \in Nat
         /\ IsLast <=> doc = pl_len - 1
<1>1. /\ pl_len \in Nat \ {0} /\ doc \in Nat
      /\ cpy_src \in Nat /\ cpy_dst \in Nat /\ tgt \in Nat /\ head \in Nat
  BY DEF ListTypeOK
<1>2. /\ builder = "llc" /\ Len(heads) < NumLists
      /\ doc \in 0 .. pl_len - 1 /\ cpy_src > 0
      /\ head = cpy_src + 1 /\ cpy_dst = head + doc
      /\ tgt = cpy_dst + 1 /\ fresh = tgt + 1
  BY DEF Construction
<1> QED
  BY <1>1, <1>2 DEF Base, IsLast

\* Everything live is below the next address.
LEMMA LiveBelow ==
  ListTypeOK /\ Laid /\ Construction => \A x : Live(x) => x \in 1 .. fresh - 1
<1> SUFFICES ASSUME ListTypeOK, Laid, Construction, NEW x, Live(x)
             PROVE  x \in 1 .. fresh - 1
  OBVIOUS
<1>1. \A k \in 1 .. Len(heads) : heads[k] \in Nat \ {0}
  BY DEF ListTypeOK
<1>2. Base \in Nat /\ Base <= fresh /\ fresh \in Nat /\ pl_len \in Nat
  <2>1. fresh \in Nat /\ pl_len \in Nat
    BY DEF ListTypeOK
  <2>2. CASE Building
    BY <2>1, <2>2, BuildingApart
  <2> QED
    BY <2>1, <2>2 DEF Base
<1>3. CASE ListNode(x)
  <2>1. PICK k \in 1 .. Len(heads) : x \in Span(heads[k])
    BY <1>3 DEF ListNode
  <2>2. heads[k] + pl_len + Hanging <= Base
    BY DEF Laid
  <2>3. heads[k] \in Nat \ {0} /\ Hanging \in Nat
    BY <1>1, <2>1 DEF Hanging
  <2>4. x \in heads[k] .. heads[k] + pl_len - 1
    BY <2>1 DEF Span
  <2> QED
    BY <1>2, <2>2, <2>3, <2>4
<1>4. CASE HangingNode(x)
  <2>1. PICK k \in 1 .. Len(heads) : x = heads[k] + pl_len /\ builder = "llc"
    BY <1>4 DEF HangingNode
  <2>2. heads[k] + pl_len + Hanging <= Base
    BY DEF Laid
  <2>3. heads[k] \in Nat \ {0} /\ Hanging = 1
    BY <1>1, <2>1 DEF Hanging
  <2> QED
    BY <1>2, <2>1, <2>2, <2>3
<1>5. CASE NewNode(x)
  <2>1. x = cpy_src \/ x \in head .. tgt
    BY <1>5 DEF NewNode
  <2>2. /\ doc \in Nat /\ cpy_src \in Nat \ {0} /\ head = cpy_src + 1
        /\ cpy_dst = head + doc /\ tgt = cpy_dst + 1 /\ fresh = tgt + 1
    BY <1>5, BuildingApart DEF NewNode
  <2> QED
    BY <2>1, <2>2
<1> QED
  BY <1>3, <1>4, <1>5 DEF Live

\* So allocated means live.
LEMMA AllocatedLive ==
  ListTypeOK /\ Laid /\ Construction =>
    (Allocated <=> \A x : x \in DOMAIN heap <=> Live(x))
  BY LiveBelow DEF Allocated

\* The same after a step.
LEMMA AllocatedNext ==
  /\ ListTypeOK' /\ Laid' /\ Construction'
  /\ \A x : x \in DOMAIN heap' <=> Live(x)'
  => Allocated'
<1>1. (ListTypeOK /\ Laid /\ Construction =>
        (Allocated <=> \A x : x \in DOMAIN heap <=> Live(x)))'
  BY AllocatedLive, PTL
<1> QED
  BY <1>1

\* Where a list lies, and that no two lists share a node.
LEMMA Apart ==
  ASSUME ListTypeOK, Laid, NEW k \in 1 .. Len(heads), NEW x \in Span(heads[k])
  PROVE  /\ heads[k] \in Nat \ {0} /\ x \in Nat \ {0}
         /\ x < Base /\ heads[k] < Base
         /\ builder = "llc" => heads[k] + pl_len < Base
         /\ \A j \in 1 .. Len(heads) : x \in Span(heads[j]) => j = k
         /\ \A j \in 1 .. Len(heads) : builder = "llc" => x # heads[j] + pl_len
<1>1. \A j \in 1 .. Len(heads) : heads[j] \in Nat \ {0}
  BY DEF ListTypeOK
<1>2. pl_len \in Nat \ {0} /\ fresh \in Nat /\ cpy_src \in Nat /\ Base \in Nat
  BY DEF ListTypeOK, Base
<1>3. x \in Nat \ {0} /\ heads[k] <= x /\ x < heads[k] + pl_len
  BY <1>1, <1>2 DEF Span
<1>4. heads[k] + pl_len + Hanging <= Base
  BY DEF Laid
<1>5. Hanging \in Nat /\ (builder = "llc" => Hanging = 1)
  BY DEF Hanging
<1>6. \A j \in 1 .. Len(heads) :
        /\ j < k => heads[j] + pl_len + Hanging <= heads[k]
        /\ k < j => heads[k] + pl_len + Hanging <= heads[j]
  BY DEF Laid
<1>7. ASSUME NEW j \in 1 .. Len(heads), j # k
      PROVE  /\ x \notin Span(heads[j])
             /\ builder = "llc" => x # heads[j] + pl_len
  <2>1. Len(heads) \in Nat
    BY DEF ListTypeOK
  <2>2. j < k \/ k < j
    BY <1>7, <2>1
  <2> QED
    BY <1>1, <1>2, <1>3, <1>5, <1>6, <2>2, SMTT(30) DEF Span
<1> QED
  BY <1>1, <1>2, <1>3, <1>4, <1>5, <1>7

\* The invariant holds at first.
LEMMA ListInitInv == ListInit(Lengths, {"llc", "host"}) => ListInv
<1> SUFFICES ASSUME ListInit(Lengths, {"llc", "host"})
             PROVE  ListInv
  OBVIOUS
<1>1. /\ pl_len \in Nat \ {0} /\ builder \in {"llc", "host"} /\ fresh = 1
      /\ heads = << >> /\ list_pc = "allocate" /\ DOMAIN heap = {}
  BY PostingListsAssumption DEF ListInit
<1>2. ListTypeOK
  BY <1>1, PostingListsAssumption DEF ListInit, ListTypeOK, NULL
<1>3. Laid /\ Contents /\ Construction /\ Places
  BY <1>1 DEF Laid, Contents, Construction, Places, Building
<1>4. Allocated
  BY <1>1 DEF Allocated
<1> QED
  BY <1>2, <1>3, <1>4 DEF ListInv

\* malloc of the source, the first node and its target.
LEMMA BuildLlcInv == ListInv /\ BuildLlc => ListInv'
<1> SUFFICES ASSUME ListInv, BuildLlc
             PROVE  ListInv'
  OBVIOUS
<1> USE DEF ListInv
<1>1. /\ pl_len' = pl_len /\ builder' = builder /\ heads' = heads
      /\ which' = which /\ cur1' = cur1 /\ cur2' = cur2 /\ cur3' = cur3
      /\ list_pc = "allocate" /\ list_pc' = "fill" /\ builder = "llc"
      /\ cpy_src' = fresh /\ cpy_dst' = fresh + 1 /\ tgt' = fresh + 2
      /\ head' = fresh + 1 /\ fresh' = fresh + 3 /\ doc' = 0
      /\ Len(heads) < NumLists
      /\ heap' = Malloc(heap, fresh .. fresh + 2)
  BY DEF BuildLlc, Allocating, cursors
<1>2. fresh \in Nat \ {0} /\ pl_len \in Nat \ {0} /\ Base = fresh /\ ~Building
  BY <1>1 DEF ListTypeOK, Base, Building
<1>3. ListTypeOK'
  BY <1>1, <1>2 DEF ListTypeOK
<1>4. Building' /\ Base' = Base
  BY <1>1, <1>2 DEF Base, Building
<1>5. Laid'
  BY <1>1, <1>4 DEF Laid, Hanging
<1>6. Construction'
  BY <1>1, <1>2 DEF Construction
<1>7. \A k, x : Gone(k, x)' <=> Gone(k, x)
  BY <1>1 DEF Gone
<1>8. \A x : x \in DOMAIN heap' <=> x \in DOMAIN heap \/ x \in fresh .. fresh + 2
  BY <1>1 DEF Malloc
<1>9. Allocated'
  <2>1. \A x : /\ ListNode(x)' <=> ListNode(x)
               /\ HangingNode(x)' <=> HangingNode(x)
    BY <1>1, <1>7 DEF ListNode, HangingNode, Span
  <2>2. \A x : NewNode(x)' <=> x \in fresh .. fresh + 2
    BY <1>1, <1>2, <1>4 DEF NewNode
  <2>3. \A x : ~NewNode(x)
    BY <1>2 DEF NewNode
  <2>4. \A x : x \in DOMAIN heap <=> Live(x)
    BY AllocatedLive
  <2>5. \A x : x \in DOMAIN heap' <=> Live(x)'
    BY <1>8, <2>1, <2>2, <2>3, <2>4 DEF Live
  <2> QED
    BY <1>3, <1>5, <1>6, <2>5, AllocatedNext
<1>10. Contents'
  <2>1. ASSUME NEW k \in 1 .. Len(heads), NEW x \in Span(heads[k]), ~Gone(k, x)
        PROVE  heap'[x] = Node(heads[k], x)
    <3>1. x \in DOMAIN heap /\ heap[x] = Node(heads[k], x)
      BY <2>1, AllocatedLive DEF Contents, Live, ListNode
    <3>2. x < fresh /\ x \in Nat
      BY <1>2, Apart
    <3>3. x \notin fresh .. fresh + 2
      BY <1>2, <3>2
    <3> QED
      BY <1>1, <3>1, <3>3 DEF Malloc
  <2> QED
    BY <1>1, <1>7, <2>1 DEF Contents, Span, Node
<1>11. Places'
  BY <1>1 DEF Places
<1> QED
  BY <1>3, <1>5, <1>6, <1>9, <1>10, <1>11

\* The source is filled in with the next document.
LEMMA FillSourceInv == ListInv /\ FillSource => ListInv'
<1> SUFFICES ASSUME ListInv, FillSource
             PROVE  ListInv'
  OBVIOUS
<1> USE DEF ListInv
<1>1. /\ pl_len' = pl_len /\ builder' = builder /\ heads' = heads
      /\ which' = which /\ cur1' = cur1 /\ cur2' = cur2 /\ cur3' = cur3
      /\ list_pc = "fill" /\ list_pc' = "copy"
      /\ cpy_src' = cpy_src /\ cpy_dst' = cpy_dst /\ tgt' = tgt
      /\ head' = head /\ fresh' = fresh /\ doc' = doc
      /\ heap' = [heap EXCEPT ![cpy_src] =
                    [docID |-> doc, next |-> IF IsLast THEN NULL ELSE tgt]]
  BY DEF FillSource, cursors
<1>2. Building /\ Building' /\ Base' = Base
  BY <1>1 DEF Building, Base
<1>0. /\ pl_len \in Nat \ {0} /\ doc \in Nat /\ doc <= pl_len - 1
      /\ cpy_src \in Nat \ {0} /\ head = cpy_src + 1
      /\ cpy_dst = head + doc /\ tgt = cpy_dst + 1
      /\ cpy_dst \in Nat /\ tgt \in Nat /\ head \in Nat
      /\ IsLast <=> doc = pl_len - 1
  BY <1>2, BuildingApart
<1>3. ListTypeOK'
  BY <1>1 DEF ListTypeOK
<1>4. Laid'
  BY <1>1, <1>2 DEF Laid, Hanging
<1>5. \A k, x : Gone(k, x)' <=> Gone(k, x)
  BY <1>1 DEF Gone
<1>6. cpy_src \in DOMAIN heap
  <2>1. Live(cpy_src)
    BY <1>2 DEF Live, NewNode
  <2>2. \A x : x \in DOMAIN heap <=> Live(x)
    BY AllocatedLive
  <2> QED
    BY <2>1, <2>2
<1>7. DOMAIN heap' = DOMAIN heap
  BY <1>1
<1>8. heap'[cpy_src] = Node(head, cpy_dst)
  <2>1. doc = cpy_dst - head
    BY <1>2, BuildingApart
  <2>2. IsLast <=> cpy_dst = head + pl_len - 1
    BY <1>0
  <2>3. tgt = cpy_dst + 1
    BY <1>2, BuildingApart
  <2> QED
    BY <1>1, <1>6, <2>1, <2>2, <2>3 DEF Node
<1>9. Construction'
  <2>1. ASSUME NEW x \in head .. cpy_dst - 1
        PROVE  heap'[x] = Node(head, x)
    <3>1. x # cpy_src
      BY <1>2, BuildingApart
    <3>2. x \in DOMAIN heap
      <4>1. x \in head .. tgt
        BY <1>0
      <4> QED
        BY <1>2, <4>1, AllocatedLive DEF Live, NewNode
    <3>3. heap[x] = Node(head, x)
      BY <1>2 DEF Construction
    <3> QED
      BY <1>1, <3>1, <3>2, <3>3
  <2>2. /\ builder = "llc" /\ Len(heads) < NumLists
        /\ doc \in 0 .. pl_len - 1 /\ cpy_src > 0
        /\ head = cpy_src + 1 /\ cpy_dst = head + doc
        /\ tgt = cpy_dst + 1 /\ fresh = tgt + 1
    BY <1>2 DEF Construction
  <2>3. (/\ builder = "llc" /\ Len(heads) < NumLists
         /\ doc \in 0 .. pl_len - 1 /\ cpy_src > 0
         /\ head = cpy_src + 1 /\ cpy_dst = head + doc
         /\ tgt = cpy_dst + 1 /\ fresh = tgt + 1)'
    BY <1>1, <2>2
  <2>4. (\A x \in head .. cpy_dst - 1 : heap[x] = Node(head, x))'
    BY <1>1, <2>1 DEF Node
  <2>5. (heap[cpy_src] = Node(head, cpy_dst))'
    BY <1>1, <1>8 DEF Node
  <2> QED
    BY <2>3, <2>4, <2>5 DEF Construction
<1>10. Allocated'
  <2>1. \A x : Live(x)' <=> Live(x)
    BY <1>1, <1>2, <1>5 DEF Live, ListNode, HangingNode, NewNode, Span
  <2>2. \A x : x \in DOMAIN heap <=> Live(x)
    BY AllocatedLive
  <2> QED
    BY <1>3, <1>4, <1>7, <1>9, <2>1, <2>2, AllocatedNext
<1>11. Contents'
  <2>1. ASSUME NEW k \in 1 .. Len(heads), NEW x \in Span(heads[k]), ~Gone(k, x)
        PROVE  heap'[x] = Node(heads[k], x)
    <3>1. x \in DOMAIN heap /\ heap[x] = Node(heads[k], x)
      BY <2>1, AllocatedLive DEF Contents, Live, ListNode
    <3>2. x # cpy_src
      BY <1>2, Apart, BuildingApart
    <3> QED
      BY <1>1, <3>1, <3>2
  <2> QED
    BY <1>1, <1>5, <2>1 DEF Contents, Span, Node
<1>12. Places'
  BY <1>1 DEF Places
<1> QED
  BY <1>3, <1>4, <1>9, <1>10, <1>11, <1>12

\* A copy that failed: whatever the node holds, it is not part of a list yet.
LEMMA DsaFailsInv == ListInv /\ DsaFails => ListInv'
<1> SUFFICES ASSUME ListInv, DsaFails
             PROVE  ListInv'
  OBVIOUS
<1> USE DEF ListInv
<1>1. /\ pl_len' = pl_len /\ builder' = builder /\ heads' = heads
      /\ which' = which /\ cur1' = cur1 /\ cur2' = cur2 /\ cur3' = cur3
      /\ list_pc = "copy" /\ list_pc' = "failed"
      /\ cpy_src' = cpy_src /\ cpy_dst' = cpy_dst /\ tgt' = tgt
      /\ head' = head /\ fresh' = fresh /\ doc' = doc
      /\ heap' \in {heap, [heap EXCEPT ![cpy_dst] = GARBAGE]}
  BY DEF DsaFails, cursors, building
<1>2. Building /\ Building' /\ Base' = Base
  BY <1>1 DEF Building, Base
<1>0. /\ pl_len \in Nat \ {0} /\ doc \in Nat /\ doc <= pl_len - 1
      /\ cpy_src \in Nat \ {0} /\ head = cpy_src + 1
      /\ cpy_dst = head + doc /\ tgt = cpy_dst + 1
      /\ cpy_dst \in Nat /\ tgt \in Nat /\ head \in Nat
      /\ IsLast <=> doc = pl_len - 1
  BY <1>2, BuildingApart
<1>3. ListTypeOK'
  BY <1>1 DEF ListTypeOK
<1>4. Laid'
  BY <1>1, <1>2 DEF Laid, Hanging
<1>5. \A k, x : Gone(k, x)' <=> Gone(k, x)
  BY <1>1 DEF Gone
<1>6. /\ DOMAIN heap' = DOMAIN heap
      /\ \A x \in DOMAIN heap : x # cpy_dst => heap'[x] = heap[x]
  BY <1>1
<1>7. Construction'
  <2>1. ASSUME NEW x \in head .. cpy_dst - 1
        PROVE  heap'[x] = Node(head, x)
    <3>1. x # cpy_dst
      BY <1>2, BuildingApart
    <3>2. x \in DOMAIN heap
      <4>1. x \in head .. tgt
        BY <1>0
      <4> QED
        BY <1>2, <4>1, AllocatedLive DEF Live, NewNode
    <3>3. heap[x] = Node(head, x)
      BY <1>2 DEF Construction
    <3> QED
      BY <1>6, <3>1, <3>2, <3>3
  <2>2. /\ builder = "llc" /\ Len(heads) < NumLists
        /\ doc \in 0 .. pl_len - 1 /\ cpy_src > 0
        /\ head = cpy_src + 1 /\ cpy_dst = head + doc
        /\ tgt = cpy_dst + 1 /\ fresh = tgt + 1
        /\ heap[cpy_src] = Node(head, cpy_dst)
    BY <1>1, <1>2 DEF Construction
  <2>3. cpy_src # cpy_dst /\ cpy_src \in DOMAIN heap
    <3>1. Live(cpy_src)
      BY <1>2 DEF Live, NewNode
    <3> QED
      BY <1>2, <3>1, AllocatedLive, BuildingApart
  <2>4. heap'[cpy_src] = Node(head, cpy_dst)
    BY <1>6, <2>2, <2>3
  <2> QED
    BY <1>1, <2>1, <2>2, <2>4 DEF Construction, Node
<1>8. Allocated'
  <2>1. \A x : Live(x)' <=> Live(x)
    BY <1>1, <1>2, <1>5 DEF Live, ListNode, HangingNode, NewNode, Span
  <2>2. \A x : x \in DOMAIN heap <=> Live(x)
    BY AllocatedLive
  <2> QED
    BY <1>3, <1>4, <1>6, <1>7, <2>1, <2>2, AllocatedNext
<1>9. Contents'
  <2>1. ASSUME NEW k \in 1 .. Len(heads), NEW x \in Span(heads[k]), ~Gone(k, x)
        PROVE  heap'[x] = Node(heads[k], x)
    <3>1. x \in DOMAIN heap /\ heap[x] = Node(heads[k], x)
      BY <2>1, AllocatedLive DEF Contents, Live, ListNode
    <3>2. x # cpy_dst
      BY <1>2, Apart, BuildingApart
    <3> QED
      BY <1>6, <3>1, <3>2
  <2> QED
    BY <1>1, <1>5, <2>1 DEF Contents, Span, Node
<1>10. Places'
  BY <1>1 DEF Places
<1> QED
  BY <1>3, <1>4, <1>7, <1>8, <1>9, <1>10

\* Steps that change neither the heap nor the lists, and free nothing.
LEMMA ListsStay ==
  ASSUME ListInv,
         pl_len' = pl_len, builder' = builder, heap' = heap, fresh' = fresh,
         heads' = heads, cpy_src' = cpy_src, cpy_dst' = cpy_dst, tgt' = tgt,
         head' = head, doc' = doc,
         Building' <=> Building,
         list_pc' \in {"copy", "failed"} => list_pc \in {"copy", "failed"},
         \A k \in 1 .. Len(heads) : \A x \in Span(heads[k]) :
           Gone(k, x)' <=> Gone(k, x)
  PROVE  Laid' /\ Contents' /\ Construction' /\ (ListTypeOK' => Allocated')
<1> USE DEF ListInv
<1>1. Laid'
  BY DEF Laid, Hanging, Base
<1>2. Contents'
  BY DEF Contents, Span, Node
<1>3. Construction'
  BY DEF Construction, Node
<1>4. ASSUME ListTypeOK'
      PROVE  Allocated'
  <2>1. \A x : ListNode(x)' <=> ListNode(x)
    BY DEF ListNode, Span
  <2>2. \A x : /\ HangingNode(x)' <=> HangingNode(x)
               /\ NewNode(x)' <=> NewNode(x)
    BY DEF HangingNode, NewNode
  <2>3. \A x : x \in DOMAIN heap' <=> Live(x)'
    BY <2>1, <2>2, AllocatedLive DEF Live
  <2> QED
    BY <1>1, <1>3, <1>4, <2>3, AllocatedNext
<1> QED
  BY <1>1, <1>2, <1>3, <1>4

\* goto retry.
LEMMA RetryInv == ListInv /\ Retry => ListInv'
<1> SUFFICES ASSUME ListInv, Retry
             PROVE  ListInv'
  OBVIOUS
<1>1. /\ pl_len' = pl_len /\ builder' = builder /\ heads' = heads
      /\ which' = which /\ cur1' = cur1 /\ cur2' = cur2 /\ cur3' = cur3
      /\ list_pc = "failed" /\ list_pc' = "copy" /\ heap' = heap
      /\ cpy_src' = cpy_src /\ cpy_dst' = cpy_dst /\ tgt' = tgt
      /\ head' = head /\ fresh' = fresh /\ doc' = doc
  BY DEF Retry, cursors
<1>2. (Building' <=> Building) /\ \A k, x : Gone(k, x)' <=> Gone(k, x)
  BY <1>1 DEF Building, Gone
<1>3. ListTypeOK'
  BY <1>1 DEF ListInv, ListTypeOK
<1>4. Laid' /\ Contents' /\ Construction' /\ Allocated'
  BY <1>1, <1>2, <1>3, ListsStay
<1>5. Places'
  BY <1>1 DEF Places
<1> QED
  BY <1>3, <1>4, <1>5 DEF ListInv

\* The copy is done: the node is what the source was.
LEMMA CopiedInv ==
  ASSUME ListInv, list_pc \in {"copy", "failed"}, Copied(WholeCopy)
  PROVE  ListInv'
<1> USE DEF ListInv
<1>1. Building /\ \A k, x : ~Gone(k, x)
  BY DEF Building, Gone
<1>2. /\ pl_len \in Nat \ {0} /\ doc \in Nat /\ doc <= pl_len - 1
      /\ cpy_src \in Nat \ {0} /\ head = cpy_src + 1 /\ builder = "llc"
      /\ cpy_dst = head + doc /\ tgt = cpy_dst + 1 /\ fresh = tgt + 1
      /\ cpy_dst \in Nat /\ tgt \in Nat /\ head \in Nat /\ Base = cpy_src
      /\ Len(heads) < NumLists
      /\ IsLast <=> doc = pl_len - 1
  BY <1>1, BuildingApart
<1>3. /\ pl_len' = pl_len /\ builder' = builder /\ cpy_src' = cpy_src
      /\ head' = head /\ which' = which
      /\ cur1' = cur1 /\ cur2' = cur2 /\ cur3' = cur3
  BY DEF Copied, cursors
<1>4. \A first, x : Node(first, x)' = Node(first, x)
  BY <1>3 DEF Node
<1>5. \A first : Span(first)' = Span(first)
  BY <1>3 DEF Span
<1>6. \A x \in head .. tgt : x \in DOMAIN heap
  BY <1>1, AllocatedLive DEF Live, NewNode
<1>7. cpy_src \in DOMAIN heap /\ cpy_dst \in DOMAIN heap
  <2>1. Live(cpy_src) /\ cpy_dst \in head .. tgt
    BY <1>1, <1>2 DEF Live, NewNode
  <2> QED
    BY <1>6, <2>1, AllocatedLive
<1>8. heap[cpy_src] = Node(head, cpy_dst)
  BY <1>1 DEF Construction
<1>9. /\ DOMAIN WholeCopy = DOMAIN heap
      /\ \A x \in DOMAIN heap :
           WholeCopy[x] = IF x = cpy_dst THEN Node(head, cpy_dst) ELSE heap[x]
  BY <1>8 DEF WholeCopy
<1>10. \A x \in head .. cpy_dst :
         x \in DOMAIN heap /\ WholeCopy[x] = Node(head, x)
  <2> TAKE x \in head .. cpy_dst
  <2>1. x \in DOMAIN heap
    <3>1. x \in head .. tgt
      BY <1>2
    <3> QED
      BY <1>6, <3>1
  <2>2. CASE x = cpy_dst
    BY <1>9, <2>1, <2>2
  <2>3. CASE x # cpy_dst
    <3>1. x \in head .. cpy_dst - 1
      BY <1>2, <2>3
    <3> QED
      BY <1>1, <1>9, <2>1, <2>3, <3>1 DEF Construction
  <2> QED
    BY <2>2, <2>3
<1>11. \A k \in 1 .. Len(heads) : \A x \in Span(heads[k]) :
         /\ x \in DOMAIN heap /\ x < cpy_src /\ x \in Nat
         /\ WholeCopy[x] = Node(heads[k], x)
  <2> TAKE k \in 1 .. Len(heads)
  <2> TAKE x \in Span(heads[k])
  <2>1. x < cpy_src /\ x \in Nat
    BY <1>2, Apart
  <2>2. x \in DOMAIN heap
    BY <1>1, AllocatedLive DEF Live, ListNode
  <2>3. x # cpy_dst
    BY <1>2, <2>1
  <2> QED
    BY <1>1, <1>9, <2>1, <2>2, <2>3 DEF Contents
<1>12. CASE IsLast
  <2> DEFINE n == Len(heads)
  <2>1. /\ heap' = Free(WholeCopy, cpy_src) /\ heads' = Append(heads, head)
        /\ list_pc' = "allocate" /\ fresh' = fresh /\ cpy_dst' = cpy_dst
        /\ tgt' = tgt /\ doc' = doc
    BY <1>12 DEF Copied, Scratch
  <2>2. /\ heads \in Seq(Nat \ {0}) /\ n \in Nat /\ n < NumLists
        /\ head \in Nat \ {0} /\ NumLists \in Nat
    BY <1>2, PostingListsAssumption DEF ListTypeOK
  <2>3. /\ heads' \in Seq(Nat \ {0}) /\ Len(heads') = n + 1
        /\ heads'[n + 1] = head
        /\ \A k \in 1 .. n : heads'[k] = heads[k]
    BY <2>1, <2>2
  <2>4. \A k \in 1 .. Len(heads') : k \in 1 .. n \/ k = n + 1
    BY <2>2, <2>3
  <2>15. \A k \in 1 .. n : k \in 1 .. Len(heads') /\ k \in 1 .. Len(heads)
    BY <2>2, <2>3
  <2>16. n + 1 \in 1 .. Len(heads')
    BY <2>2, <2>3
  <2> HIDE DEF n
  <2>5. ListTypeOK'
    <3>1. Len(heads') <= NumLists
      BY <2>2, <2>3
    <3> QED
      BY <1>3, <2>1, <2>3, <3>1 DEF ListTypeOK
  <2>6. ~Building' /\ Base' = fresh /\ Hanging' = 1 /\ Hanging = 1
    BY <1>2, <1>3, <2>1 DEF Building, Base, Hanging
  <2>7. fresh = head + pl_len + 1
    BY <1>2, <1>12
  <2>8. Laid'
    <3>1. \A k \in 1 .. n : /\ heads[k] \in Nat
                            /\ heads[k] + pl_len + 1 <= cpy_src
      BY <1>2, <2>2, <2>6 DEF Laid, n
    <3>2. \A k \in 1 .. Len(heads') : heads'[k] + pl_len + 1 <= fresh
      <4> TAKE k \in 1 .. Len(heads')
      <4>1. CASE k \in 1 .. n
        BY <1>2, <2>3, <2>7, <3>1, <4>1, SMTT(30)
      <4>2. CASE k = n + 1
        BY <1>2, <2>3, <2>7, <4>2
      <4> QED
        BY <2>4, <4>1, <4>2
    <3>3. \A j, k \in 1 .. Len(heads') :
            j < k => heads'[j] + pl_len + 1 <= heads'[k]
      <4> TAKE j, k \in 1 .. Len(heads')
      <4> HAVE j < k
      <4>1. j \in 1 .. n
        BY <2>2, <2>4
      <4>2. CASE k \in 1 .. n
        BY <2>3, <2>6, <4>1, <4>2 DEF Laid, n
      <4>3. CASE k = n + 1
        BY <1>2, <2>3, <3>1, <4>1, <4>3, SMTT(30)
      <4> QED
        BY <2>4, <4>2, <4>3
    <3> QED
      BY <1>3, <2>6, <3>2, <3>3 DEF Laid
  <2>9. Construction'
    BY <2>6 DEF Construction
  <2>10. \A x : /\ x \in DOMAIN heap' <=> x \in DOMAIN heap /\ x # cpy_src
                /\ x \in DOMAIN heap' => heap'[x] = WholeCopy[x]
    BY <1>9, <2>1 DEF Free
  <2>11. \A k, x : ~Gone(k, x)'
    BY <2>1 DEF Gone
  <2>12. Allocated'
    <3>1. \A x : ListNode(x)' <=> ListNode(x) \/ x \in Span(head)
      <4>1. \A x : ListNode(x)' <=>
                    \E k \in 1 .. Len(heads') : x \in Span(heads'[k])
        BY <1>5, <2>11 DEF ListNode
      <4>2. \A x : ListNode(x) <=> \E k \in 1 .. n : x \in Span(heads[k])
        BY <1>1 DEF ListNode, n
      <4> QED
        BY <2>3, <2>4, <2>15, <2>16, <4>1, <4>2
    <3>2. \A x : HangingNode(x)' <=> HangingNode(x) \/ x = head + pl_len
      <4>1. \A x : HangingNode(x)' <=>
                    \E k \in 1 .. Len(heads') : x = heads'[k] + pl_len
        BY <1>2, <1>3 DEF HangingNode
      <4>2. \A x : HangingNode(x) <=>
                    \E k \in 1 .. n : x = heads[k] + pl_len
        BY <1>2 DEF HangingNode, n
      <4> QED
        BY <2>3, <2>4, <2>15, <2>16, <4>1, <4>2
    <3>3. \A x : ~NewNode(x)'
      BY <2>6 DEF NewNode
    <3>4. \A x : NewNode(x) <=> \/ x = cpy_src \/ x \in Span(head)
                                \/ x = head + pl_len
      BY <1>1, <1>2, <1>12 DEF NewNode, Span
    <3>5. cpy_src \notin Span(head) /\ cpy_src # head + pl_len
      BY <1>2 DEF Span
    <3>6. ~ListNode(cpy_src) /\ ~HangingNode(cpy_src)
      <4>1. ~ListNode(cpy_src)
        <5>1. \A k \in 1 .. Len(heads) : cpy_src \notin Span(heads[k])
          BY <1>11, <1>2
        <5> QED
          BY <5>1 DEF ListNode
      <4>2. \A k \in 1 .. n : /\ heads[k] \in Nat
                              /\ heads[k] + pl_len + 1 <= cpy_src
        BY <1>2, <2>2, <2>6 DEF Laid, n
      <4> QED
        BY <1>2, <4>1, <4>2 DEF HangingNode, n
    <3>7. \A x : x \in DOMAIN heap' <=> Live(x)'
      BY <2>10, <3>1, <3>2, <3>3, <3>4, <3>5, <3>6, AllocatedLive DEF Live
    <3> QED
      BY <2>5, <2>8, <2>9, <3>7, AllocatedNext
  <2>13. Contents'
    <3>1. ASSUME NEW k \in 1 .. Len(heads'), NEW x \in Span(heads'[k])
          PROVE  heap'[x] = Node(heads'[k], x)
      <4>1. CASE k \in 1 .. n
        <5>1. k \in 1 .. Len(heads) /\ heads'[k] = heads[k]
          BY <2>3, <2>15, <4>1
        <5>2. /\ x \in DOMAIN heap /\ x # cpy_src
              /\ WholeCopy[x] = Node(heads[k], x)
          BY <1>2, <1>11, <3>1, <5>1
        <5> QED
          BY <2>10, <5>1, <5>2
      <4>2. CASE k = n + 1
        <5>1. x \in head .. cpy_dst
          BY <1>2, <1>12, <2>3, <3>1, <4>2 DEF Span
        <5>2. x # cpy_src
          BY <1>2, <5>1
        <5> QED
          BY <1>10, <2>3, <2>10, <4>2, <5>1, <5>2
      <4> QED
        BY <2>4, <4>1, <4>2
    <3> QED
      BY <1>4, <1>5, <3>1 DEF Contents
  <2>14. Places'
    BY <2>1 DEF Places
  <2> QED
    BY <2>5, <2>8, <2>9, <2>12, <2>13, <2>14
<1>13. CASE ~IsLast
  <2>1. /\ heap' = Malloc(WholeCopy, {fresh}) /\ heads' = heads
        /\ list_pc' = "fill" /\ fresh' = fresh + 1 /\ cpy_dst' = tgt
        /\ tgt' = fresh /\ doc' = doc + 1
    BY <1>13 DEF Copied
  <2>2. Building' /\ Base' = Base /\ Hanging' = Hanging
    BY <1>2, <1>3, <2>1 DEF Building, Base, Hanging
  <2>3. ListTypeOK'
    BY <1>2, <1>3, <2>1 DEF ListTypeOK
  <2>4. Laid'
    BY <1>3, <2>1, <2>2 DEF Laid
  <2>5. \A x : /\ x \in DOMAIN heap' <=> x \in DOMAIN heap \/ x = fresh
               /\ x \in DOMAIN heap /\ x # fresh => heap'[x] = WholeCopy[x]
    BY <1>9, <2>1 DEF Malloc
  <2>6. Construction'
    <3>1. ASSUME NEW x \in head .. cpy_dst
          PROVE  heap'[x] = Node(head, x)
      <4>1. x # fresh
        BY <1>2
      <4> QED
        BY <1>10, <2>5, <4>1
    <3>2. /\ cpy_dst' - 1 = cpy_dst /\ doc + 1 \in 0 .. pl_len - 1
          /\ cpy_src > 0 /\ head = cpy_src + 1 /\ cpy_dst' = head + (doc + 1)
          /\ tgt' = cpy_dst' + 1 /\ fresh' = tgt' + 1
      BY <1>2, <1>13, <2>1
    <3> QED
      BY <1>2, <1>3, <1>4, <2>1, <3>1, <3>2 DEF Construction
  <2>7. \A k, x : ~Gone(k, x)'
    BY <2>1 DEF Gone
  <2>8. Allocated'
    <3>1. \A x : /\ ListNode(x)' <=> ListNode(x)
                 /\ HangingNode(x)' <=> HangingNode(x)
      BY <1>1, <1>3, <1>5, <2>1, <2>7 DEF ListNode, HangingNode
    <3>2. \A x : NewNode(x)' <=> NewNode(x) \/ x = fresh
      BY <1>1, <1>2, <1>3, <2>1, <2>2 DEF NewNode
    <3>3. \A x : x \in DOMAIN heap' <=> Live(x)'
      BY <2>5, <3>1, <3>2, AllocatedLive DEF Live
    <3> QED
      BY <2>3, <2>4, <2>6, <3>3, AllocatedNext
  <2>9. Contents'
    <3>1. ASSUME NEW k \in 1 .. Len(heads), NEW x \in Span(heads[k])
          PROVE  heap'[x] = Node(heads[k], x)
      <4>1. x # fresh
        BY <1>2, <1>11
      <4> QED
        BY <1>11, <2>5, <4>1
    <3> QED
      BY <1>4, <1>5, <2>1, <3>1 DEF Contents
  <2>10. Places'
    BY <2>1 DEF Places
  <2> QED
    BY <2>3, <2>4, <2>6, <2>8, <2>9, <2>10
<1> QED
  BY <1>12, <1>13

\* build_host_ll links the nodes as it allocates them.
LEMMA BuildHostInv == ListInv /\ BuildHost => ListInv'
<1> SUFFICES ASSUME ListInv, BuildHost
             PROVE  ListInv'
  OBVIOUS
<1> USE DEF ListInv
<1> DEFINE n == Len(heads)
           last == fresh + pl_len - 1
<1>1. /\ pl_len' = pl_len /\ builder' = builder /\ which' = which
      /\ cur1' = cur1 /\ cur2' = cur2 /\ cur3' = cur3
      /\ cpy_src' = cpy_src /\ cpy_dst' = cpy_dst /\ tgt' = tgt
      /\ head' = head /\ doc' = doc
      /\ list_pc = "allocate" /\ list_pc' = "allocate" /\ builder = "host"
      /\ n < NumLists /\ fresh' = last + 1 /\ heads' = Append(heads, fresh)
      /\ heap' = [x \in DOMAIN heap \cup (fresh .. last) |->
                    IF x \in fresh .. last
                    THEN [docID |-> x - fresh,
                          next |-> IF x = last THEN NULL ELSE x + 1]
                    ELSE heap[x]]
  BY DEF BuildHost, Allocating, cursors, building
<1>2. /\ heads \in Seq(Nat \ {0}) /\ n \in Nat /\ fresh \in Nat \ {0}
      /\ NumLists \in Nat /\ pl_len \in Nat \ {0}
  BY PostingListsAssumption DEF ListTypeOK
<1>3. /\ heads' \in Seq(Nat \ {0}) /\ Len(heads') = n + 1
      /\ heads'[n + 1] = fresh
      /\ \A k \in 1 .. n : heads'[k] = heads[k]
  BY <1>1, <1>2
<1>4. \A k \in 1 .. Len(heads') : k \in 1 .. n \/ k = n + 1
  BY <1>2, <1>3
<1>5. /\ \A k \in 1 .. n : k \in 1 .. Len(heads') /\ k \in 1 .. Len(heads)
      /\ n + 1 \in 1 .. Len(heads')
  BY <1>2, <1>3
<1>6. Span(fresh) = fresh .. last /\ \A first : Span(first)' = Span(first)
  BY <1>1 DEF Span
<1>7. \A first, x : Node(first, x)' = Node(first, x)
  BY <1>1 DEF Node
<1>8. \A x \in Span(fresh) : x \in DOMAIN heap' /\ heap'[x] = Node(fresh, x)
  BY <1>1, <1>6 DEF Node
<1>9. /\ \A x : x \in DOMAIN heap' <=> x \in DOMAIN heap \/ x \in Span(fresh)
      /\ \A x \in DOMAIN heap : x \notin Span(fresh) => heap'[x] = heap[x]
  BY <1>1, <1>6
<1> HIDE DEF n
<1>10. ListTypeOK'
  <2>1. Len(heads') <= NumLists /\ last + 1 \in Nat \ {0}
    BY <1>1, <1>2, <1>3
  <2> QED
    BY <1>1, <1>3, <2>1 DEF ListTypeOK
<1>11. /\ ~Building /\ ~Building' /\ Base = fresh /\ Base' = fresh + pl_len
       /\ Hanging = 0 /\ Hanging' = 0
  BY <1>1, <1>2 DEF Building, Base, Hanging
<1> HIDE DEF last
<1>12. \A k \in 1 .. n : heads[k] \in Nat /\ heads[k] + pl_len <= fresh
  <2>1. \A k \in 1 .. n : /\ heads[k] \in Nat
                          /\ heads[k] + pl_len + 0 <= fresh
    BY <1>2, <1>11 DEF Laid, n
  <2> QED
    BY <1>2, <2>1
<1>13. Laid'
  <2>1. \A k \in 1 .. Len(heads') : heads'[k] + pl_len + 0 <= fresh + pl_len
    <3> TAKE k \in 1 .. Len(heads')
    <3>1. CASE k \in 1 .. n
      <4>1. /\ heads'[k] = heads[k] /\ heads[k] \in Nat
            /\ heads[k] + pl_len <= fresh
        BY <1>3, <1>12, <3>1
      <4>2. \A x, y, z \in Nat : x + y <= z => x + y + 0 <= z + y
        OBVIOUS
      <4> QED
        BY <1>2, <4>1, <4>2
    <3>2. CASE k = n + 1
      BY <1>2, <1>3, <3>2
    <3> QED
      BY <1>4, <3>1, <3>2
  <2>2. \A j, k \in 1 .. Len(heads') :
          j < k => heads'[j] + pl_len + 0 <= heads'[k]
    <3> TAKE j, k \in 1 .. Len(heads')
    <3> HAVE j < k
    <3>1. j \in 1 .. n
      BY <1>2, <1>4
    <3>2. CASE k \in 1 .. n
      BY <1>3, <1>11, <3>1, <3>2 DEF Laid, n
    <3>3. CASE k = n + 1
      BY <1>2, <1>3, <1>12, <3>1, <3>3, SMTT(30)
    <3> QED
      BY <1>4, <3>2, <3>3
  <2> QED
    BY <1>1, <1>11, <2>1, <2>2 DEF Laid
<1>14. Construction'
  BY <1>11 DEF Construction
<1>15. \A k, x : ~Gone(k, x) /\ ~Gone(k, x)'
  BY <1>1 DEF Gone
<1>16. Allocated'
  <2>1. \A x : ListNode(x)' <=> ListNode(x) \/ x \in Span(fresh)
    <3>1. \A x : ListNode(x)' <=>
                  \E k \in 1 .. Len(heads') : x \in Span(heads'[k])
      BY <1>6, <1>15 DEF ListNode
    <3>2. \A x : ListNode(x) <=> \E k \in 1 .. n : x \in Span(heads[k])
      BY <1>15 DEF ListNode, n
    <3> QED
      BY <1>3, <1>4, <1>5, <3>1, <3>2
  <2>2. \A x : /\ ~HangingNode(x) /\ ~HangingNode(x)'
               /\ ~NewNode(x) /\ ~NewNode(x)'
    BY <1>1, <1>11 DEF HangingNode, NewNode
  <2>3. \A x : x \in DOMAIN heap' <=> Live(x)'
    BY <1>9, <2>1, <2>2, AllocatedLive DEF Live
  <2> QED
    BY <1>10, <1>13, <1>14, <2>3, AllocatedNext
<1>17. Contents'
  <2>1. ASSUME NEW k \in 1 .. Len(heads'), NEW x \in Span(heads'[k])
        PROVE  heap'[x] = Node(heads'[k], x)
    <3>1. CASE k \in 1 .. n
      <4>1. k \in 1 .. Len(heads) /\ heads'[k] = heads[k]
        BY <1>3, <1>5, <3>1
      <4>2. x \in DOMAIN heap /\ heap[x] = Node(heads[k], x)
        BY <1>15, <2>1, <4>1, AllocatedLive DEF Contents, Live, ListNode
      <4>3. x < fresh /\ x \in Nat
        BY <1>11, <2>1, <4>1, Apart
      <4>4. x \notin Span(fresh)
        BY <1>2, <4>3 DEF Span
      <4> QED
        BY <1>9, <4>1, <4>2, <4>4
    <3>2. CASE k = n + 1
      BY <1>3, <1>8, <2>1, <3>2
    <3> QED
      BY <1>4, <3>1, <3>2
  <2> QED
    BY <1>6, <1>7, <2>1 DEF Contents
<1>18. Places'
  BY <1>1 DEF Places
<1> QED
  BY <1>10, <1>13, <1>14, <1>16, <1>17, <1>18

\* A node that is not freed can be read, and leads on in its list or to NULL.
LEMMA NodeReads ==
  ASSUME ListInv, NEW k \in 1 .. Len(heads), NEW x \in Span(heads[k]),
         ~Gone(k, x)
  PROVE  /\ x \in DOMAIN heap /\ heap[x] = Node(heads[k], x)
         /\ heap[x] # GARBAGE /\ heap[x].docID = x - heads[k]
         /\ heads[k] \in Nat \ {0} /\ x \in Nat \ {0}
         /\ NextOf(x) = IF x = heads[k] + pl_len - 1 THEN NULL ELSE x + 1
         /\ NextOf(x) # NULL => NextOf(x) \in Span(heads[k])
<1> USE DEF ListInv
<1>1. x \in DOMAIN heap /\ heap[x] = Node(heads[k], x)
  BY AllocatedLive DEF Contents, Live, ListNode
<1>2. heads[k] \in Nat \ {0} /\ x \in Nat \ {0} /\ pl_len \in Nat \ {0}
  BY Apart DEF ListTypeOK
<1>3. heads[k] <= x /\ x <= heads[k] + pl_len - 1
  BY <1>2 DEF Span
<1>4. Node(heads[k], x) \in [docID : Nat, next : Nat]
  BY <1>2, <1>3 DEF Node, NULL
<1>5. /\ NextOf(x) = IF x = heads[k] + pl_len - 1 THEN NULL ELSE x + 1
      /\ heap[x].docID = x - heads[k]
  BY <1>1 DEF NextOf, Node
<1>6. NextOf(x) # NULL => NextOf(x) \in Span(heads[k])
  BY <1>2, <1>3, <1>5 DEF Span
<1> QED
  BY <1>1, <1>2, <1>4, <1>5, <1>6, PostingListsAssumption

\* The requests start at the first nodes.
LEMMA StartRequestsInv == ListInv /\ StartRequests => ListInv'
<1> SUFFICES ASSUME ListInv, StartRequests
             PROVE  ListInv'
  OBVIOUS
<1>1. /\ pl_len' = pl_len /\ builder' = builder /\ heads' = heads
      /\ list_pc = "allocate" /\ heap' = heap /\ Len(heads) = NumLists
      /\ cpy_src' = cpy_src /\ cpy_dst' = cpy_dst /\ tgt' = tgt
      /\ head' = head /\ fresh' = fresh /\ doc' = doc
      /\ list_pc' \in {"intersect", "walk"}
  BY DEF StartRequests, building
<1>2. (~Building' /\ ~Building) /\ \A k, x : ~Gone(k, x)' /\ ~Gone(k, x)
  BY <1>1 DEF Building, Gone
<1>3. /\ pl_len \in Nat \ {0} /\ heads \in Seq(Nat \ {0})
      /\ NumLists \in Nat /\ NumLists >= 3
  BY PostingListsAssumption DEF ListInv, ListTypeOK
<1>4. \A k \in 1 .. NumLists :
        heads[k] \in Nat /\ heads[k] \in Span(heads[k])
  <2>1. \A k \in 1 .. NumLists : heads[k] \in Nat
    BY <1>1, <1>3
  <2> QED
    BY <1>3, <2>1 DEF Span
<1>5. 1 \in 1 .. NumLists /\ 2 \in 1 .. NumLists /\ 3 \in 1 .. NumLists
  BY <1>3
<1>6. /\ cur1' = heads[1]
      /\ builder = "host" => /\ cur2' = heads[2] /\ cur3' = heads[3]
                             /\ which' = which /\ list_pc' = "intersect"
      /\ builder # "host" => /\ cur2' = cur2 /\ cur3' = cur3
                             /\ which' = 1 /\ list_pc' = "walk"
  BY DEF StartRequests
<1>7. ListTypeOK'
  <2>1. cur1' \in Nat /\ cur2' \in Nat /\ cur3' \in Nat
        /\ which' \in 1 .. NumLists
    BY <1>4, <1>5, <1>6 DEF ListInv, ListTypeOK
  <2> QED
    BY <1>1, <2>1 DEF ListInv, ListTypeOK
<1>8. Laid' /\ Contents' /\ Construction' /\ Allocated'
  BY <1>1, <1>2, <1>7, ListsStay
<1>9. Places'
  <2>1. \A k : Span(heads[k])' = Span(heads[k])
    BY <1>1 DEF Span
  <2>2. heads[1] \in Nat /\ heads[2] \in Nat /\ heads[3] \in Nat
    BY <1>4, <1>5
  <2>3. heads[2] = heads[2] + (heads[1] - heads[1])
        /\ heads[3] = heads[3] + (heads[1] - heads[1])
    BY <2>2
  <2>4. CASE builder = "host"
    BY <1>1, <1>4, <1>5, <1>6, <2>1, <2>3, <2>4 DEF Places, Span
  <2>5. CASE builder # "host"
    BY <1>1, <1>4, <1>5, <1>6, <2>1, <2>5 DEF Places, Span
  <2> QED
    BY <2>4, <2>5
<1> QED
  BY <1>7, <1>8, <1>9 DEF ListInv

\* The lists are equal, so the documents at the cursors always match, and the
\* result is what it was.
LEMMA IntersectInv == ListInv /\ intersect_posting_lists => ListInv'
<1> SUFFICES ASSUME ListInv, intersect_posting_lists
             PROVE  ListInv'
  OBVIOUS
<1>1. /\ pl_len' = pl_len /\ builder' = builder /\ heads' = heads
      /\ list_pc = "intersect" /\ list_pc' = list_pc
      /\ cpy_src' = cpy_src /\ cpy_dst' = cpy_dst /\ tgt' = tgt
      /\ head' = head /\ fresh' = fresh /\ doc' = doc /\ which' = which
      /\ cur1 # NULL /\ cur2 # NULL
  BY DEF intersect_posting_lists, building
<1>2. (~Building' /\ ~Building) /\ \A k, x : ~Gone(k, x)' /\ ~Gone(k, x)
  BY <1>1 DEF Building, Gone
<1>3. /\ pl_len \in Nat \ {0} /\ heads \in Seq(Nat \ {0})
      /\ NumLists \in Nat /\ NumLists >= 3 /\ Len(heads) = NumLists
  BY <1>1, PostingListsAssumption DEF ListInv, ListTypeOK, Places
<1>4. /\ 1 \in 1 .. Len(heads) /\ 2 \in 1 .. Len(heads) /\ 3 \in 1 .. Len(heads)
      /\ heads[1] \in Nat /\ heads[2] \in Nat /\ heads[3] \in Nat
  <2>1. /\ 1 \in 1 .. Len(heads) /\ 2 \in 1 .. Len(heads)
        /\ 3 \in 1 .. Len(heads)
    BY <1>3
  <2> QED
    BY <1>3, <2>1
<1>5. /\ cur1 \in Span(heads[1])
      /\ cur2 = heads[2] + (cur1 - heads[1])
      /\ cur3 = heads[3] + (cur1 - heads[1])
  BY <1>1 DEF ListInv, Places
<1>6. cur1 \in Nat /\ heads[1] <= cur1 /\ cur1 <= heads[1] + pl_len - 1
  BY <1>3, <1>4, <1>5 DEF Span
<1>7. cur2 \in Span(heads[2]) /\ cur3 \in Span(heads[3])
  BY <1>3, <1>4, <1>5, <1>6, SMTT(30) DEF Span
<1>8. cur2 - heads[2] = cur1 - heads[1] /\ cur3 - heads[3] = cur1 - heads[1]
  BY <1>4, <1>5, <1>6
<1>9. /\ heap[cur1].docID = cur1 - heads[1]
      /\ heap[cur2].docID = cur1 - heads[1]
      /\ cur3 \in DOMAIN heap /\ heap[cur3] = Node(heads[3], cur3)
      /\ NextOf(cur1) = IF cur1 = heads[1] + pl_len - 1 THEN NULL ELSE cur1 + 1
      /\ NextOf(cur2) = IF cur2 = heads[2] + pl_len - 1 THEN NULL ELSE cur2 + 1
      /\ NextOf(cur3) = IF cur3 = heads[3] + pl_len - 1 THEN NULL ELSE cur3 + 1
  BY <1>2, <1>4, <1>5, <1>7, <1>8, NodeReads
<1>10. cur1 - heads[1] \in Nat
  BY <1>4, <1>6
<1>11. /\ heap' = [heap EXCEPT ![cur3].docID = heap[cur1].docID]
       /\ Matched
  BY <1>9, <1>10 DEF intersect_posting_lists
<1>12. \A x \in DOMAIN heap : heap'[x] = heap[x]
  <2>1. [Node(heads[3], cur3) EXCEPT !.docID = cur1 - heads[1]]
          = Node(heads[3], cur3)
    BY <1>8 DEF Node
  <2>2. heap' = [heap EXCEPT ![cur3] =
                   [Node(heads[3], cur3) EXCEPT !.docID = cur1 - heads[1]]]
    BY <1>9, <1>11
  <2> QED
    BY <1>9, <2>1, <2>2
<1>13. DOMAIN heap' = DOMAIN heap
  BY <1>11
<1>14. /\ cur1' = NextOf(cur1) /\ cur2' = NextOf(cur2) /\ cur3' = NextOf(cur3)
  BY <1>11 DEF Matched
<1>15. ListTypeOK'
  <2>1. cur1' \in Nat /\ cur2' \in Nat /\ cur3' \in Nat
    BY <1>4, <1>5, <1>6, <1>9, <1>14, SMTT(30) DEF NULL
  <2> QED
    BY <1>1, <2>1 DEF ListInv, ListTypeOK
<1>16. Laid'
  BY <1>1, <1>2 DEF ListInv, Laid, Base, Hanging
<1>17. Construction'
  BY <1>2 DEF Construction
<1>18. Allocated'
  <2>1. \A x : Live(x)' <=> Live(x)
    BY <1>1, <1>2 DEF Live, ListNode, HangingNode, NewNode, Span
  <2> QED
    BY <1>13, <1>15, <1>16, <1>17, <2>1, AllocatedLive, AllocatedNext DEF ListInv
<1>19. Contents'
  <2>1. \A k \in 1 .. Len(heads) : \A x \in Span(heads[k]) :
          x \in DOMAIN heap /\ heap[x] = Node(heads[k], x)
    BY <1>2, NodeReads
  <2> QED
    BY <1>1, <1>12, <2>1 DEF Contents, Span, Node
<1>20. Places'
  <2>1. Len(heads') = NumLists
    BY <1>1, <1>3
  <2>2. CASE cur1 = heads[1] + pl_len - 1
    <3>1. cur2 = heads[2] + pl_len - 1 /\ cur3 = heads[3] + pl_len - 1
      BY <1>3, <1>4, <1>5, <2>2
    <3> QED
      BY <1>1, <1>9, <1>14, <2>1, <2>2, <3>1 DEF Places
  <2>3. CASE cur1 # heads[1] + pl_len - 1
    <3>1. cur2 # heads[2] + pl_len - 1 /\ cur3 # heads[3] + pl_len - 1
      <4>1. \A f, g, x, l \in Nat :
              g + (x - f) = g + l - 1 => x = f + l - 1
        OBVIOUS
      <4>2. cur1 \in Nat /\ pl_len \in Nat
        BY <1>3, <1>6
      <4>3. /\ heads[2] + (cur1 - heads[1]) = heads[2] + pl_len - 1
                 => cur1 = heads[1] + pl_len - 1
            /\ heads[3] + (cur1 - heads[1]) = heads[3] + pl_len - 1
                 => cur1 = heads[1] + pl_len - 1
        BY <1>4, <4>1, <4>2, SMTT(30)
      <4> QED
        BY <1>5, <2>3, <4>3
    <3>2. cur1' = cur1 + 1 /\ cur2' = cur2 + 1 /\ cur3' = cur3 + 1
      BY <1>9, <1>14, <2>3, <3>1
    <3>3. /\ cur1' \in Span(heads[1])
          /\ cur2' = heads[2] + (cur1' - heads[1])
          /\ cur3' = heads[3] + (cur1' - heads[1])
      <4>1. \A f, g, x \in Nat : g + (x - f) + 1 = g + ((x + 1) - f)
        OBVIOUS
      <4>2. cur1 + 1 \in Span(heads[1])
        BY <1>3, <1>4, <1>6, <2>3 DEF Span
      <4> QED
        BY <1>4, <1>5, <1>6, <3>2, <4>1, <4>2
    <3> QED
      BY <1>1, <2>1, <3>3 DEF Places, Span
  <2> QED
    BY <2>2, <2>3
<1> QED
  BY <1>15, <1>16, <1>17, <1>18, <1>19, <1>20 DEF ListInv

\* The result of the intersection is walked.
LEMMA IntersectedInv == ListInv /\ Intersected => ListInv'
<1> SUFFICES ASSUME ListInv, Intersected
             PROVE  ListInv'
  OBVIOUS
<1>1. /\ pl_len' = pl_len /\ builder' = builder /\ heads' = heads
      /\ list_pc = "intersect" /\ heap' = heap /\ list_pc' = "walk"
      /\ cpy_src' = cpy_src /\ cpy_dst' = cpy_dst /\ tgt' = tgt
      /\ head' = head /\ fresh' = fresh /\ doc' = doc
      /\ which' = 3 /\ cur1' = heads[3] /\ cur2' = cur2 /\ cur3' = cur3
  BY DEF Intersected, building
<1>2. (~Building' /\ ~Building) /\ \A k, x : ~Gone(k, x)' /\ ~Gone(k, x)
  BY <1>1 DEF Building, Gone
<1>3. /\ pl_len \in Nat \ {0} /\ heads \in Seq(Nat \ {0})
      /\ NumLists \in Nat /\ NumLists >= 3 /\ Len(heads) = NumLists
  BY <1>1, PostingListsAssumption DEF ListInv, ListTypeOK, Places
<1>4. 3 \in 1 .. NumLists
  BY <1>3
<1>5. heads[3] \in Nat
  BY <1>3, <1>4
<1>6. ListTypeOK'
  BY <1>1, <1>4, <1>5 DEF ListInv, ListTypeOK
<1>7. Laid' /\ Contents' /\ Construction' /\ Allocated'
  BY <1>1, <1>2, <1>6, ListsStay
<1>8. heads[3] \in Span(heads[3])
  BY <1>3, <1>5 DEF Span
<1>9. Places'
  BY <1>1, <1>3, <1>8 DEF Places, Span
<1> QED
  BY <1>6, <1>7, <1>9 DEF ListInv

\* A walk goes from node to node.
LEMMA WalkInv == ListInv /\ ll_simple => ListInv'
<1> SUFFICES ASSUME ListInv, ll_simple
             PROVE  ListInv'
  OBVIOUS
<1>1. /\ pl_len' = pl_len /\ builder' = builder /\ heads' = heads
      /\ list_pc = "walk" /\ heap' = heap /\ list_pc' = list_pc
      /\ cpy_src' = cpy_src /\ cpy_dst' = cpy_dst /\ tgt' = tgt
      /\ head' = head /\ fresh' = fresh /\ doc' = doc
      /\ which' = which /\ cur2' = cur2 /\ cur3' = cur3
      /\ cur1 # NULL /\ cur1' = NextOf(cur1)
  BY DEF ll_simple, building
<1>2. (~Building' /\ ~Building) /\ \A k, x : ~Gone(k, x)' /\ ~Gone(k, x)
  BY <1>1 DEF Building, Gone
<1>3. /\ which \in 1 .. Len(heads) /\ Len(heads) = NumLists
      /\ cur1 \in Span(heads[which])
  BY <1>1 DEF ListInv, ListTypeOK, Places
<1>4. /\ cur1' # NULL => cur1' \in Span(heads[which])
      /\ cur1' \in Nat
  BY <1>1, <1>2, <1>3, NodeReads DEF NULL
<1>5. ListTypeOK'
  BY <1>1, <1>4 DEF ListInv, ListTypeOK
<1>6. Laid' /\ Contents' /\ Construction' /\ Allocated'
  BY <1>1, <1>2, <1>5, ListsStay
<1>7. Places'
  BY <1>1, <1>3, <1>4 DEF Places, Span
<1> QED
  BY <1>5, <1>6, <1>7 DEF ListInv

\* The end of a list: nothing is freed but what was.
LEMMA NextListInv == ListInv /\ NextList => ListInv'
<1> SUFFICES ASSUME ListInv, NextList
             PROVE  ListInv'
  OBVIOUS
<1>1. /\ pl_len' = pl_len /\ builder' = builder /\ heads' = heads
      /\ list_pc \in {"walk", "free"} /\ heap' = heap
      /\ cpy_src' = cpy_src /\ cpy_dst' = cpy_dst /\ tgt' = tgt
      /\ head' = head /\ fresh' = fresh /\ doc' = doc
      /\ cur2' = cur2 /\ cur3' = cur3 /\ cur1 = NULL
      /\ list_pc' \in {"walk", "free", "freed"}
      /\ cur1' = IF list_pc' = "freed" THEN NULL ELSE heads[which']
  BY DEF NextList, building
<1>2. ~Building' /\ ~Building
  BY <1>1 DEF Building
<1>3. /\ pl_len \in Nat \ {0} /\ heads \in Seq(Nat \ {0})
      /\ NumLists \in Nat /\ NumLists >= 3 /\ Len(heads) = NumLists
      /\ which \in 1 .. NumLists
  BY <1>1, PostingListsAssumption DEF ListInv, ListTypeOK, Places
<1>4. \/ which < NumLists /\ which' = which + 1 /\ list_pc' = list_pc
      \/ /\ which = NumLists /\ list_pc = "walk"
         /\ which' = 1 /\ list_pc' = "free"
      \/ /\ which = NumLists /\ list_pc = "free"
         /\ list_pc' = "freed" /\ which' = which
  BY DEF NextList
<1>5. which' \in 1 .. NumLists
  BY <1>3, <1>4
<1>6. heads[which'] \in Nat /\ heads[which'] \in Span(heads[which'])
  <2>1. heads[which'] \in Nat
    BY <1>3, <1>5
  <2> QED
    BY <1>3, <2>1 DEF Span
<1>7. ListTypeOK'
  <2>1. cur1' \in Nat
    BY <1>1, <1>6 DEF NULL
  <2> QED
    BY <1>1, <1>5, <2>1 DEF ListInv, ListTypeOK
<1>8. ASSUME NEW k \in 1 .. Len(heads), NEW x \in Span(heads[k])
      PROVE  Gone(k, x)' <=> Gone(k, x)
  <2>1. k \in Nat /\ 1 <= k /\ k <= NumLists
    BY <1>3
  <2>2. heads[k] \in Nat \ {0} /\ heads[k] <= x /\ x \in Nat
    <3>1. heads[k] \in Nat \ {0}
      BY <1>3
    <3> QED
      BY <1>3, <3>1 DEF Span
  <2>3. CASE list_pc = "walk" /\ list_pc' = "walk"
    BY <2>3 DEF Gone
  <2>4. CASE list_pc = "walk" /\ list_pc' = "free"
    <3>1. which' = 1 /\ cur1' = heads[1] /\ heads[1] # NULL
      <4>1. which' = 1 /\ cur1' = heads[1]
        BY <1>1, <1>4, <2>4
      <4>2. 1 \in 1 .. Len(heads)
        BY <1>3
      <4> QED
        BY <1>3, <4>1, <4>2 DEF NULL
    <3>2. ~Gone(k, x)'
      BY <2>1, <2>2, <2>4, <3>1 DEF Gone
    <3> QED
      BY <2>4, <3>2 DEF Gone
  <2>5. CASE list_pc = "free" /\ list_pc' = "free"
    <3>1. which' = which + 1 /\ cur1' = heads[which'] /\ heads[which'] # NULL
      <4>1. which' = which + 1 /\ cur1' = heads[which']
        BY <1>1, <1>4, <2>5
      <4> QED
        BY <1>3, <1>5, <4>1 DEF NULL
    <3>2. Gone(k, x) <=> k <= which
      BY <1>1, <1>3, <2>1, <2>5 DEF Gone
    <3>3. Gone(k, x)' <=> k <= which
      BY <1>3, <2>1, <2>2, <2>5, <3>1 DEF Gone
    <3> QED
      BY <3>2, <3>3
  <2>6. CASE list_pc = "free" /\ list_pc' = "freed"
    <3>1. Gone(k, x)
      BY <1>1, <1>3, <1>4, <2>1, <2>6 DEF Gone
    <3>2. Gone(k, x)'
      BY <2>6 DEF Gone
    <3> QED
      BY <3>1, <3>2
  <2> QED
    BY <1>1, <1>4, <2>3, <2>4, <2>5, <2>6
<1>9. Laid' /\ Contents' /\ Construction' /\ Allocated'
  BY <1>1, <1>2, <1>7, <1>8, ListsStay
<1>10. Places'
  BY <1>1, <1>3, <1>5, <1>6 DEF Places, Span
<1> QED
  BY <1>7, <1>9, <1>10 DEF ListInv

\* next is read before the node is freed, and the cursor is behind it then.
LEMMA FreeInv == ListInv /\ free_ll => ListInv'
<1> SUFFICES ASSUME ListInv, free_ll
             PROVE  ListInv'
  OBVIOUS
<1>1. /\ pl_len' = pl_len /\ builder' = builder /\ heads' = heads
      /\ list_pc = "free" /\ list_pc' = list_pc
      /\ cpy_src' = cpy_src /\ cpy_dst' = cpy_dst /\ tgt' = tgt
      /\ head' = head /\ fresh' = fresh /\ doc' = doc
      /\ which' = which /\ cur2' = cur2 /\ cur3' = cur3
      /\ cur1 # NULL /\ cur1' = NextOf(cur1) /\ heap' = Free(heap, cur1)
  BY DEF free_ll, building
<1>2. ~Building' /\ ~Building
  BY <1>1 DEF Building
<1>3. /\ pl_len \in Nat \ {0} /\ heads \in Seq(Nat \ {0})
      /\ NumLists \in Nat /\ Len(heads) = NumLists
      /\ which \in 1 .. Len(heads) /\ cur1 \in Span(heads[which])
      /\ cur1 \in Nat
  BY <1>1, PostingListsAssumption DEF ListInv, ListTypeOK, Places
<1>4. ~Gone(which, cur1)
  BY <1>1, <1>3 DEF Gone
<1>5. /\ heads[which] \in Nat \ {0}
      /\ cur1' = IF cur1 = heads[which] + pl_len - 1 THEN NULL ELSE cur1 + 1
      /\ cur1' # NULL => cur1' \in Span(heads[which])
      /\ cur1' \in Nat
  <2>1. /\ heads[which] \in Nat \ {0}
        /\ cur1' = IF cur1 = heads[which] + pl_len - 1 THEN NULL ELSE cur1 + 1
        /\ cur1' # NULL => cur1' \in Span(heads[which])
    BY <1>1, <1>3, <1>4, NodeReads
  <2> QED
    BY <1>3, <2>1 DEF NULL
<1>6. ListTypeOK'
  BY <1>1, <1>5 DEF ListInv, ListTypeOK
<1>7. Laid'
  BY <1>1, <1>2 DEF ListInv, Laid, Base, Hanging
<1>8. Construction'
  BY <1>2 DEF Construction
<1>9. /\ \A x : x \in DOMAIN heap' <=> x \in DOMAIN heap /\ x # cur1
      /\ \A x \in DOMAIN heap : x # cur1 => heap'[x] = heap[x]
  BY <1>1 DEF Free
<1>10. ASSUME NEW k \in 1 .. Len(heads), NEW x \in Span(heads[k])
       PROVE  Gone(k, x)' <=> Gone(k, x) \/ x = cur1
  <2>1. k \in Nat /\ which \in Nat /\ x \in Nat
    BY <1>3, Apart DEF ListInv
  <2>2. x = cur1 => k = which
    BY <1>3, Apart DEF ListInv
  <2>3. CASE k = which
    <3>1. heads[which] <= x /\ x <= heads[which] + pl_len - 1
      BY <1>3, <1>5, <2>1, <2>3 DEF Span
    <3>2. Gone(k, x) <=> x < cur1
      BY <1>1, <1>3, <2>1, <2>3 DEF Gone
    <3>3. Gone(k, x)' <=> x <= cur1
      BY <1>1, <1>3, <1>5, <2>1, <2>3, <3>1 DEF Gone, NULL
    <3> QED
      BY <1>3, <2>1, <3>2, <3>3
  <2>4. CASE k # which
    BY <1>1, <2>2, <2>4 DEF Gone
  <2> QED
    BY <2>3, <2>4
<1>11. Allocated'
  <2>1. \A x : ListNode(x)' <=> ListNode(x) /\ x # cur1
    BY <1>1, <1>10 DEF ListNode, Span
  <2>2. \A x : HangingNode(x)' <=> HangingNode(x)
    BY <1>1 DEF HangingNode
  <2>3. ~HangingNode(cur1)
    BY <1>3, Apart DEF ListInv, HangingNode
  <2>4. \A x : ~NewNode(x) /\ ~NewNode(x)'
    BY <1>2 DEF NewNode
  <2>5. \A x : x \in DOMAIN heap' <=> Live(x)'
    BY <1>9, <2>1, <2>2, <2>3, <2>4, AllocatedLive DEF ListInv, Live
  <2> QED
    BY <1>6, <1>7, <1>8, <2>5, AllocatedNext
<1>12. Contents'
  <2>1. ASSUME NEW k \in 1 .. Len(heads), NEW x \in Span(heads[k]),
               ~Gone(k, x), x # cur1
        PROVE  heap'[x] = Node(heads[k], x)
    BY <1>9, <2>1, NodeReads
  <2> QED
    BY <1>1, <1>10, <2>1 DEF Contents, Span, Node
<1>13. Places'
  BY <1>1, <1>3, <1>5 DEF Places, Span
<1> QED
  BY <1>6, <1>7, <1>8, <1>11, <1>12, <1>13 DEF ListInv

\* Every step keeps the invariant.
LEMMA ListStepInv == ListInv /\ [ListNext]_list_vars => ListInv'
<1> SUFFICES ASSUME ListInv, [ListNext]_list_vars
             PROVE  ListInv'
  OBVIOUS
<1>1. CASE DsaCopies
  BY <1>1, CopiedInv DEF DsaCopies
<1>2. CASE CopyOnCore
  BY <1>2, CopiedInv DEF CopyOnCore, FallBack
<1>3. CASE UNCHANGED list_vars
  <2>1. /\ pl_len' = pl_len /\ builder' = builder /\ heap' = heap
        /\ fresh' = fresh /\ heads' = heads /\ list_pc' = list_pc
        /\ cpy_src' = cpy_src /\ cpy_dst' = cpy_dst /\ tgt' = tgt
        /\ head' = head /\ doc' = doc /\ which' = which
        /\ cur1' = cur1 /\ cur2' = cur2 /\ cur3' = cur3
    BY <1>3 DEF list_vars, building, cursors
  <2>2. (Building' <=> Building) /\ \A k, x : Gone(k, x)' <=> Gone(k, x)
    BY <2>1 DEF Building, Gone
  <2>3. ListTypeOK'
    BY <2>1 DEF ListInv, ListTypeOK
  <2>4. Laid' /\ Contents' /\ Construction' /\ Allocated'
    BY <2>1, <2>2, <2>3, ListsStay
  <2>5. Places'
    BY <2>1 DEF ListInv, Places, Span
  <2> QED
    BY <2>3, <2>4, <2>5 DEF ListInv
<1> QED
  BY <1>1, <1>2, <1>3, BuildLlcInv, FillSourceInv, DsaFailsInv, RetryInv,
     BuildHostInv, StartRequestsInv, IntersectInv, IntersectedInv, WalkInv,
     NextListInv, FreeInv DEF ListNext

\* The inductive invariant of the lists.
THEOREM ListInvariant == ListSpec => []ListInv
  BY ListInitInv, ListStepInv, PTL DEF ListSpec

-----------------------------------------------------------------------------
\* The nodes of a list, as a function that is given by its steps.
LEMMA NodesFromSteps ==
  ASSUME NEW c, pl_len \in Nat
  PROVE  /\ NodesFrom(c)[0] = c
         /\ \A n \in 1 .. pl_len : NodesFrom(c)[n] = Follow(NodesFrom(c)[n - 1])
<1> DEFINE D(v, n) == Follow(v)
           f == NodesFrom(c)
<1>1. f = CHOOSE g : g = [n \in 0 .. pl_len |->
                            IF n = 0 THEN c ELSE D(g[n - 1], n)]
  BY DEF NodesFrom
<1>2. FiniteNatInductiveDefHypothesis(f, c, D, 0, pl_len)
  BY <1>1 DEF FiniteNatInductiveDefHypothesis
<1>3. FiniteNatInductiveDefConclusion(f, c, D, 0, pl_len)
  BY <1>2, FiniteNatInductiveDef
<1>4. f = [n \in 0 .. pl_len |-> IF n = 0 THEN c ELSE D(f[n - 1], n)]
  BY <1>3 DEF FiniteNatInductiveDefConclusion
<1> HIDE DEF f
<1>5. 0 \in 0 .. pl_len /\ \A n \in 1 .. pl_len : n \in 0 .. pl_len /\ n # 0
  OBVIOUS
<1>6. f[0] = c /\ \A n \in 1 .. pl_len : f[n] = Follow(f[n - 1])
  BY <1>4, <1>5
<1> QED
  BY <1>6 DEF f

\* From the head of a list that is not freed they are the nodes of its span.
LEMMA NodesFromHead ==
  ASSUME ListInv, NEW k \in 1 .. Len(heads),
         \A x \in Span(heads[k]) : ~Gone(k, x)
  PROVE  /\ \A n \in 0 .. pl_len - 1 :
              /\ NodesFrom(heads[k])[n] = heads[k] + n
              /\ heads[k] + n \in Span(heads[k])
         /\ NodesFrom(heads[k])[pl_len] = NULL
<1> DEFINE nodes == NodesFrom(heads[k])
           first == heads[k]
           G == {n \in Nat : n < pl_len => nodes[n] = first + n}
<1>1. pl_len \in Nat \ {0} /\ first \in Nat
  BY DEF ListInv, ListTypeOK
<1>2. /\ nodes[0] = first
      /\ \A n \in 1 .. pl_len : nodes[n] = Follow(nodes[n - 1])
  BY <1>1, NodesFromSteps
<1>3. \A n \in 0 .. pl_len - 1 : first + n \in Span(first)
  BY <1>1 DEF Span
<1>4. ASSUME NEW n \in Nat, n < pl_len
      PROVE  Follow(first + n) = IF n = pl_len - 1 THEN NULL ELSE first + n + 1
  <2>1. first + n \in Span(first)
    BY <1>1, <1>3, <1>4
  <2>2. /\ first + n \in DOMAIN heap /\ heap[first + n] # GARBAGE
        /\ NextOf(first + n) = IF first + n = first + pl_len - 1 THEN NULL
                               ELSE first + n + 1
    BY <2>1, NodeReads
  <2>3. first + n = first + pl_len - 1 <=> n = pl_len - 1
    BY <1>1
  <2> QED
    BY <2>2, <2>3 DEF Follow, NextOf
<1> HIDE DEF nodes, first
<1>5. 0 \in G
  BY <1>1, <1>2
<1>6. \A n \in G : n + 1 \in G
  <2> TAKE n \in G
  <2>1. n \in Nat /\ n + 1 \in Nat
    OBVIOUS
  <2>2. ASSUME n + 1 < pl_len
        PROVE  nodes[n + 1] = first + (n + 1)
    <3>1. n < pl_len /\ n # pl_len - 1 /\ n + 1 \in 1 .. pl_len /\ (n + 1) - 1 = n
      BY <1>1, <2>1, <2>2
    <3>2. nodes[n] = first + n /\ nodes[n + 1] = Follow(nodes[n])
      BY <1>2, <3>1
    <3>3. nodes[n + 1] = first + n + 1
      BY <1>4, <2>1, <3>1, <3>2
    <3> QED
      BY <1>1, <2>1, <3>3
  <2> QED
    BY <2>1, <2>2
<1>7. G = Nat
  BY <1>5, <1>6, NatInd
<1>8. \A n \in 0 .. pl_len - 1 : nodes[n] = first + n
  <2> TAKE n \in 0 .. pl_len - 1
  <2>1. n \in G /\ n < pl_len
    BY <1>1, <1>7
  <2> QED
    BY <2>1
<1>9. nodes[pl_len] = NULL
  <2>1. pl_len - 1 \in 0 .. pl_len - 1 /\ pl_len \in 1 .. pl_len
    BY <1>1
  <2>2. nodes[pl_len - 1] = first + (pl_len - 1)
    BY <1>8, <2>1
  <2>3. nodes[pl_len] = Follow(nodes[pl_len - 1])
    BY <1>2, <2>1
  <2>4. pl_len - 1 \in Nat /\ pl_len - 1 < pl_len
    BY <1>1
  <2> QED
    BY <1>4, <2>2, <2>3, <2>4
<1> QED
  BY <1>3, <1>8, <1>9 DEF nodes, first

\* Every list is whole until it is freed, whatever the DSA did: its documents
\* are there in order and nothing behind them.
THEOREM ListsWhole == ListSpec => []ListWhole
<1>1. ListInv => ListWhole
  <2> SUFFICES ASSUME ListInv, list_pc \notin {"free", "freed"},
                      NEW k \in 1 .. Len(heads)
               PROVE  /\ NodesFrom(heads[k])[pl_len] = NULL
                      /\ \A n \in 0 .. pl_len - 1 :
                           /\ NodesFrom(heads[k])[n] \in DOMAIN heap
                           /\ heap[NodesFrom(heads[k])[n]] # GARBAGE
                           /\ heap[NodesFrom(heads[k])[n]].docID = n
    BY DEF ListWhole
  <2>1. \A x : ~Gone(k, x)
    BY DEF Gone
  <2>2. /\ \A n \in 0 .. pl_len - 1 :
             /\ NodesFrom(heads[k])[n] = heads[k] + n
             /\ heads[k] + n \in Span(heads[k])
        /\ NodesFrom(heads[k])[pl_len] = NULL
    BY <2>1, NodesFromHead
  <2>3. heads[k] \in Nat /\ pl_len \in Nat
    BY DEF ListInv, ListTypeOK
  <2>4. ASSUME NEW n \in 0 .. pl_len - 1
        PROVE  /\ heads[k] + n \in DOMAIN heap /\ heap[heads[k] + n] # GARBAGE
               /\ heap[heads[k] + n].docID = n
    <3>1. heads[k] + n \in Span(heads[k])
      BY <2>2
    <3>2. /\ heads[k] + n \in DOMAIN heap /\ heap[heads[k] + n] # GARBAGE
          /\ heap[heads[k] + n].docID = (heads[k] + n) - heads[k]
      BY <2>1, <3>1, NodeReads
    <3>3. (heads[k] + n) - heads[k] = n
      BY <2>3
    <3> QED
      BY <3>2, <3>3
  <2> QED
    BY <2>2, <2>4
<1> QED
  BY <1>1, ListInvariant, PTL

\* What is left in the end: one target for each list that the DSA made.
LEMMA LeftInTheEnd ==
  ASSUME ListInv, list_pc = "freed"
  PROVE  Cardinality(DOMAIN heap) = IF builder = "llc" THEN NumLists ELSE 0
<1>1. /\ Len(heads) = NumLists /\ NumLists \in Nat /\ pl_len \in Nat
      /\ heads \in Seq(Nat \ {0})
  BY PostingListsAssumption DEF ListInv, ListTypeOK, Places
<1>2. \A x : x \in DOMAIN heap <=> HangingNode(x)
  <2>1. \A x : ~ListNode(x) /\ ~NewNode(x)
    BY DEF ListNode, NewNode, Gone, Building
  <2> QED
    BY <2>1, AllocatedLive DEF ListInv, Live
<1>3. CASE builder # "llc"
  <2>1. DOMAIN heap = {}
    BY <1>2, <1>3 DEF HangingNode
  <2> QED
    BY <1>3, <2>1, FS_EmptySet
<1>4. CASE builder = "llc"
  <2> DEFINE f == [k \in 1 .. NumLists |-> heads[k] + pl_len]
             H == DOMAIN heap
  <2>1. \A x : x \in H <=> \E k \in 1 .. NumLists : x = heads[k] + pl_len
    BY <1>1, <1>2, <1>4 DEF HangingNode
  <2>2. \A j, k \in 1 .. NumLists : j < k => heads[j] + pl_len < heads[k] + pl_len
    <3> TAKE j, k \in 1 .. NumLists
    <3> HAVE j < k
    <3>1. heads[j] + pl_len + 1 <= heads[k]
      BY <1>1, <1>4 DEF ListInv, Laid, Hanging
    <3>2. heads[j] \in Nat /\ heads[k] \in Nat
      BY <1>1
    <3> QED
      BY <1>1, <3>1, <3>2
  <2>3. \A j, k \in 1 .. NumLists : f[j] = f[k] => j = k
    <3> TAKE j, k \in 1 .. NumLists
    <3>1. j = k \/ j < k \/ k < j
      BY <1>1
    <3>2. heads[j] + pl_len \in Nat /\ heads[k] + pl_len \in Nat
      BY <1>1
    <3> QED
      BY <2>2, <3>1, <3>2
  <2>4. /\ f \in [1 .. NumLists -> H]
        /\ \A x \in H : \E k \in 1 .. NumLists : f[k] = x
    BY <2>1
  <2> HIDE DEF f, H
  <2>5. f \in Injection(1 .. NumLists, H)
    BY <2>3, <2>4 DEF Injection, IsInjective
  <2>6. f \in Surjection(1 .. NumLists, H)
    BY <2>4 DEF Surjection
  <2>7. ExistsBijection(1 .. NumLists, H)
    BY <2>5, <2>6 DEF ExistsBijection, Bijection
  <2>8. IsFiniteSet(1 .. NumLists) /\ Cardinality(1 .. NumLists) = NumLists
    BY <1>1, FS_Interval
  <2>9. Cardinality(H) = NumLists
    BY <2>7, <2>8, FS_Bijection
  <2> QED
    BY <1>4, <2>9 DEF H
<1> QED
  BY <1>3, <1>4

\* No node is read, written or freed that is not allocated and written, none
\* is freed twice, and nothing is left but those targets.
THEOREM NodesAreFreedOnce == ListSpec => []NodesFreedOnce
<1>1. ListInv => NodesFreedOnce
  <2> SUFFICES ASSUME ListInv
               PROVE  NodesFreedOnce
    OBVIOUS
  <2>1. ASSUME Building
        PROVE  {cpy_src, cpy_dst, tgt} \subseteq DOMAIN heap
    <3>1. /\ doc \in Nat /\ head \in Nat
          /\ cpy_dst = head + doc /\ tgt = cpy_dst + 1
      BY <2>1, BuildingApart DEF ListInv
    <3>2. cpy_dst \in head .. tgt /\ tgt \in head .. tgt
      BY <3>1
    <3>3. Live(cpy_src) /\ Live(cpy_dst) /\ Live(tgt)
      BY <2>1, <3>2 DEF Live, NewNode
    <3> QED
      BY <3>3, AllocatedLive DEF ListInv
  <2>2. ASSUME NEW x \in Cursors \ {NULL}
        PROVE  x \in DOMAIN heap /\ heap[x] # GARBAGE
    <3>1. NumLists \in Nat /\ NumLists >= 3 /\ which \in 1 .. NumLists
      BY PostingListsAssumption DEF ListInv, ListTypeOK
    <3>2. CASE list_pc = "intersect"
      <4>1. Len(heads) = NumLists /\ x \in {cur1, cur2, cur3}
        BY <2>2, <3>2 DEF Cursors, ListInv, Places
      <4>2. /\ 1 \in 1 .. Len(heads) /\ 2 \in 1 .. Len(heads)
            /\ 3 \in 1 .. Len(heads)
        BY <3>1, <4>1
      <4>3. /\ cur1 \in Span(heads[1])
            /\ cur2 = heads[2] + (cur1 - heads[1])
            /\ cur3 = heads[3] + (cur1 - heads[1])
        BY <2>2, <3>2, <4>1 DEF ListInv, Places
      <4>4. /\ heads[1] \in Nat /\ heads[2] \in Nat /\ heads[3] \in Nat
            /\ pl_len \in Nat
        BY <4>2, SMTT(30) DEF ListInv, ListTypeOK
      <4>5. \A f, g, l, y \in Nat : y \in f .. f + l - 1 =>
              g + (y - f) \in g .. g + l - 1
        OBVIOUS
      <4>6. cur1 \in Nat
        BY DEF ListInv, ListTypeOK
      <4>7. cur2 \in Span(heads[2]) /\ cur3 \in Span(heads[3])
        BY <4>3, <4>4, <4>5, <4>6 DEF Span
      <4>8. \A k, y : ~Gone(k, y)
        BY <3>2 DEF Gone
      <4>9. /\ cur1 \in DOMAIN heap /\ heap[cur1] # GARBAGE
            /\ cur2 \in DOMAIN heap /\ heap[cur2] # GARBAGE
            /\ cur3 \in DOMAIN heap /\ heap[cur3] # GARBAGE
        <5>1. cur1 \in DOMAIN heap /\ heap[cur1] # GARBAGE
          BY <4>2, <4>3, <4>8, NodeReads
        <5>2. cur2 \in DOMAIN heap /\ heap[cur2] # GARBAGE
          BY <4>2, <4>7, <4>8, NodeReads
        <5>3. cur3 \in DOMAIN heap /\ heap[cur3] # GARBAGE
          BY <4>2, <4>7, <4>8, NodeReads
        <5> QED
          BY <5>1, <5>2, <5>3
      <4> QED
        BY <4>1, <4>9
    <3>3. CASE list_pc \in {"walk", "free"}
      <4>1. x = cur1 /\ cur1 # NULL /\ cur1 \in Nat
        BY <2>2, <3>3 DEF Cursors, ListInv, ListTypeOK
      <4>2. which \in 1 .. Len(heads) /\ cur1 \in Span(heads[which])
        BY <3>1, <3>3, <4>1 DEF ListInv, Places
      <4>3. ~Gone(which, cur1)
        BY <3>1, <3>3, <4>1 DEF Gone
      <4> QED
        BY <4>1, <4>2, <4>3, NodeReads
    <3> QED
      BY <2>2, <3>2, <3>3 DEF Cursors
  <2> QED
    BY <2>1, <2>2, LeftInTheEnd DEF NodesFreedOnce, Building
<1> QED
  BY <1>1, ListInvariant, PTL

-----------------------------------------------------------------------------
(***************************************************************************)
(* Sorting.                                                                *)
(***************************************************************************)
\* Among the entries of an array there is a largest one.
LEMMA LargestEntry ==
  \A n \in Nat \ {0} : \A f \in [1 .. n -> Nat] :
    \E x \in 1 .. n : \A y \in 1 .. n : f[y] <= f[x]
<1> DEFINE G == {n \in Nat : n = 0 \/ \A f \in [1 .. n -> Nat] :
                               \E x \in 1 .. n : \A y \in 1 .. n : f[y] <= f[x]}
<1>1. 0 \in G
  OBVIOUS
<1>2. ASSUME NEW n \in G, NEW f \in [1 .. n + 1 -> Nat]
      PROVE  \E x \in 1 .. n + 1 : \A y \in 1 .. n + 1 : f[y] <= f[x]
  <2>1. \A y \in 1 .. n + 1 : (y \in 1 .. n \/ y = n + 1) /\ f[y] \in Nat
    OBVIOUS
  <2>2. CASE n = 0
    <3>1. 1 \in 1 .. n + 1 /\ \A y \in 1 .. n + 1 : y = 1
      BY <2>2
    <3>2. \A y \in 1 .. n + 1 : f[y] <= f[1]
      BY <2>1, <3>1
    <3> QED
      BY <3>1, <3>2
  <2>3. CASE n # 0
    <3> DEFINE g == [x \in 1 .. n |-> f[x]]
    <3>1. g \in [1 .. n -> Nat]
      OBVIOUS
    <3>2. PICK x \in 1 .. n : \A y \in 1 .. n : g[y] <= g[x]
      BY <2>3, <3>1
    <3>3. \A y \in 1 .. n : f[y] <= f[x]
      BY <3>2
    <3>4. x \in 1 .. n + 1 /\ n + 1 \in 1 .. n + 1
      OBVIOUS
    <3>5. CASE f[n + 1] <= f[x]
      BY <2>1, <3>3, <3>4, <3>5
    <3>6. CASE f[x] <= f[n + 1]
      <4>1. \A y \in 1 .. n + 1 : f[y] <= f[n + 1]
        BY <2>1, <3>3, <3>4, <3>6, SMTT(30)
      <4> QED
        BY <3>4, <4>1
    <3> QED
      BY <2>1, <3>4, <3>5, <3>6
  <2> QED
    BY <2>2, <2>3
<1>3. \A n \in G : n + 1 \in G
  <2> TAKE n \in G
  <2>1. n + 1 \in Nat
    OBVIOUS
  <2> QED
    BY <1>2, <2>1
<1>4. G = Nat
  BY <1>1, <1>3, NatInd
<1> QED
  BY <1>4

\* Every array can be put in order: the largest entry last, the others before
\* it in order.
LEMMA OrderExists ==
  \A n \in Nat : \A f \in [1 .. n -> Nat] :
    \E order \in Orders(n) :
      \A x, y \in 1 .. n : x <= y => f[order[x]] <= f[order[y]]
<1> DEFINE InOrder(n, f, order) ==
             \A x, y \in 1 .. n : x <= y => f[order[x]] <= f[order[y]]
           G == {n \in Nat : \A f \in [1 .. n -> Nat] :
                               \E order \in Orders(n) : InOrder(n, f, order)}
<1>1. 0 \in G
  <2>1. [x \in 1 .. 0 |-> x] \in Orders(0)
    BY DEF Orders
  <2> QED
    BY <2>1
<1>2. ASSUME NEW n \in G, NEW f \in [1 .. n + 1 -> Nat]
      PROVE  \E order \in Orders(n + 1) : InOrder(n + 1, f, order)
  <2>1. PICK m \in 1 .. n + 1 : \A y \in 1 .. n + 1 : f[y] <= f[m]
    <3>1. n + 1 \in Nat \ {0}
      OBVIOUS
    <3> QED
      BY <3>1, LargestEntry
  <2>2. \A y \in 1 .. n + 1 : (y \in 1 .. n \/ y = n + 1) /\ f[y] \in Nat
    OBVIOUS
  <2>3. \A y \in 1 .. n : y \in 1 .. n + 1 /\ y # n + 1 /\ y < n + 1
    OBVIOUS
  <2>4. n + 1 \in 1 .. n + 1 /\ n \in Nat
    OBVIOUS
  <2> DEFINE At2(x) == IF x = m THEN n + 1 ELSE x
             g == [x \in 1 .. n |-> f[At2(x)]]
  <2>5. \A x \in 1 .. n : At2(x) \in 1 .. n + 1 /\ At2(x) # m
    BY <2>3, <2>4
  <2>6. \A x, y \in 1 .. n : At2(x) = At2(y) => x = y
    BY <2>3
  <2>7. \A y \in 1 .. n + 1 : y # m => \E x \in 1 .. n : At2(x) = y
    BY <2>2, <2>3
  <2> HIDE DEF At2
  <2>8. g \in [1 .. n -> Nat]
    BY <2>2, <2>5
  <2>9. PICK o \in Orders(n) : InOrder(n, g, o)
    BY <2>8
  <2>10. /\ o \in [1 .. n -> 1 .. n]
         /\ \A x, y \in 1 .. n : o[x] = o[y] => x = y
         /\ \A y \in 1 .. n : \E x \in 1 .. n : o[x] = y
    BY DEF Orders
  <2> DEFINE q == [x \in 1 .. n + 1 |-> IF x = n + 1 THEN m ELSE At2(o[x])]
  <2>11. q[n + 1] = m /\ \A x \in 1 .. n : q[x] = At2(o[x])
    BY <2>3, <2>4
  <2>12. q \in [1 .. n + 1 -> 1 .. n + 1]
    BY <2>2, <2>5, <2>10
  <2> HIDE DEF q
  <2>13. \A x, y \in 1 .. n + 1 : q[x] = q[y] => x = y
    <3>1. \A x \in 1 .. n : o[x] \in 1 .. n /\ q[x] # q[n + 1]
      BY <2>5, <2>10, <2>11, ZenonT(60)
    <3>2. ASSUME NEW x \in 1 .. n, NEW y \in 1 .. n, q[x] = q[y]
          PROVE  x = y
      <4>1. o[x] = o[y]
        BY <2>6, <2>11, <3>1, <3>2
      <4> QED
        BY <2>10, <4>1
    <3> QED
      BY <2>2, <3>1, <3>2
  <2>14. \A y \in 1 .. n + 1 : \E x \in 1 .. n + 1 : q[x] = y
    <3> TAKE y \in 1 .. n + 1
    <3>1. CASE y = m
      BY <2>4, <2>11, <3>1
    <3>2. CASE y # m
      <4>1. PICK z \in 1 .. n : At2(z) = y
        BY <2>7, <3>2
      <4>2. PICK x \in 1 .. n : o[x] = z
        BY <2>10
      <4> QED
        BY <2>3, <2>11, <4>1, <4>2
    <3> QED
      BY <3>1, <3>2
  <2>15. q \in Orders(n + 1)
    BY <2>12, <2>13, <2>14 DEF Orders
  <2>16. InOrder(n + 1, f, q)
    <3> SUFFICES ASSUME NEW x \in 1 .. n + 1, NEW y \in 1 .. n + 1, x <= y
                 PROVE  f[q[x]] <= f[q[y]]
      OBVIOUS
    <3>1. CASE y = n + 1
      BY <2>1, <2>11, <2>12, <3>1
    <3>2. CASE y # n + 1
      <4>1. x \in 1 .. n /\ y \in 1 .. n
        BY <2>2, <3>2
      <4>2. o[x] \in 1 .. n /\ o[y] \in 1 .. n /\ g[o[x]] <= g[o[y]]
        BY <2>9, <2>10, <4>1
      <4> QED
        BY <2>11, <4>1, <4>2
    <3> QED
      BY <3>1, <3>2
  <2> QED
    BY <2>15, <2>16
<1>3. \A n \in G : n + 1 \in G
  <2> TAKE n \in G
  <2>1. n + 1 \in Nat
    OBVIOUS
  <2> QED
    BY <1>2, <2>1
<1>4. G = Nat
  BY <1>1, <1>3, NatInd
<1> QED
  BY <1>4

\* What std::sort leaves: the same entries, in ascending order.
LEMMA SortedFacts ==
  ASSUME NEW n \in Nat, NEW arr \in [1 .. n -> Nat]
  PROVE  /\ Sorted(arr) \in [1 .. n -> Nat]
         /\ \A x, y \in 1 .. n : x <= y => Sorted(arr)[x] <= Sorted(arr)[y]
         /\ \E order \in Orders(n) : \A x \in 1 .. n : Sorted(arr)[x] = arr[order[x]]
<1>1. arr \in Seq(Nat) /\ Len(arr) = n
  OBVIOUS
<1>2. PICK o \in Orders(n) : \A x, y \in 1 .. n : x <= y => arr[o[x]] <= arr[o[y]]
  BY OrderExists
<1>3. \A order \in Orders(n) : order \in [1 .. n -> 1 .. n]
  BY DEF Orders
<1> DEFINE s == [x \in 1 .. n |-> arr[o[x]]]
<1>4. s \in [1 .. n -> Nat] /\ \A x \in 1 .. n : s[x] = arr[o[x]]
  BY <1>3
<1>5. s \in Seq(Nat) /\ Len(s) = n
  BY <1>4
<1>6. s \in Arrangements(arr) /\ Ascending(s)
  BY <1>1, <1>2, <1>4, <1>5 DEF Arrangements, Ascending
<1>7. Sorted(arr) \in Arrangements(arr) /\ Ascending(Sorted(arr))
  BY <1>6 DEF Sorted
<1>8. PICK order \in Orders(n) : Sorted(arr) = [x \in 1 .. n |-> arr[order[x]]]
  BY <1>1, <1>7 DEF Arrangements
<1>9. Sorted(arr) \in [1 .. n -> Nat]
  BY <1>3, <1>8
<1>10. Len(Sorted(arr)) = n
  BY <1>9
<1> QED
  BY <1>7, <1>8, <1>9, <1>10 DEF Ascending

-----------------------------------------------------------------------------
(***************************************************************************)
(* Scattered arrays.  While the validation runs, the indices below its     *)
(* loop index are behind sorted_idx and the others before it.              *)
(***************************************************************************)
LastAccess == num_accesses - 1

\* The word behind indirect_array does no harm.
Harmless == Word(num_accesses) \notin LastIndex .. num_ents - 1

ScatterTypeOK ==
  /\ indirect_array \in [Accesses0 -> Entries]
  /\ stray \in Seq(Nat)
  /\ scatter_pc \in {"scatter", "validate", "end"}
  /\ ent \in Nat
  /\ verdict \in {"ok", "error"}

IndicesAscend ==
  \A x, y \in Accesses0 : x <= y => indirect_array[x] <= indirect_array[y]

Validating ==
  /\ ent <= num_ents /\ verdict = "ok"
  /\ sorted_idx \in 0 .. num_accesses
  /\ \A x \in Accesses0 : x < sorted_idx <=> indirect_array[x] < ent
  /\ \A e \in Entries : e < ent => Right(e)

\* Behind the last index, the word behind indirect_array may hide an entry.
Passed(e) == Right(e) \/ (e > LastIndex /\ scatter_array[e] = 1)

ScatterInv ==
  /\ ScatterTypeOK
  /\ scatter_pc = "scatter" => sorted_idx = 0 /\ verdict = "ok"
  /\ scatter_pc # "scatter" => IndicesAscend
  /\ scatter_pc = "validate" =>
       /\ ent <= num_ents /\ verdict = "ok"
       /\ Harmless \/ ent <= LastIndex => Validating
       /\ \A e \in Entries : e < ent => Passed(e)
  /\ scatter_pc = "end" =>
       /\ Harmless => (verdict = "ok" <=> \A e \in Entries : Right(e))
       /\ verdict = "ok" => \A e \in Entries : Passed(e)

\* In ascending order the last index is the largest one.
LEMMA LastIndexIsLast ==
  ASSUME ScatterTypeOK, IndicesAscend
  PROVE  LastIndex = indirect_array[LastAccess] /\ LastAccess \in Accesses0
<1> DEFINE top == indirect_array[LastAccess]
           Is(e) == /\ Expected(e) = 1
                    /\ \A f \in e + 1 .. num_ents - 1 : Expected(f) = 0
<1>1. /\ num_accesses \in Nat \ {0} /\ num_ents \in Nat \ {0}
      /\ LastAccess \in Accesses0
      /\ \A x \in Accesses0 : x \in Nat /\ x <= LastAccess
  BY GatherScatterAssumption DEF LastAccess, Accesses0
<1>2. \A e \in Entries : e \in Nat /\ e <= num_ents - 1
  BY <1>1 DEF Entries
<1>3. top \in Entries /\ \A x \in Accesses0 :
                           indirect_array[x] \in Entries /\ indirect_array[x] <= top
  BY <1>1 DEF ScatterTypeOK, IndicesAscend
<1> HIDE DEF top
<1>4. Expected(top) = 1
  BY <1>1 DEF Expected, top
<1>5. \A f \in top + 1 .. num_ents - 1 : Expected(f) = 0
  <2> TAKE f \in top + 1 .. num_ents - 1
  <2>1. \A x \in Accesses0 : indirect_array[x] # f
    BY <1>1, <1>2, <1>3
  <2> QED
    BY <2>1 DEF Expected
<1>6. ASSUME NEW e \in Entries, Is(e)
      PROVE  e = top
  <2>1. PICK x \in Accesses0 : indirect_array[x] = e
    BY <1>6 DEF Expected
  <2>2. e <= top
    BY <1>3, <2>1
  <2>3. ASSUME e < top
        PROVE  FALSE
    <3>1. top \in e + 1 .. num_ents - 1
      BY <1>1, <1>2, <1>3, <2>3
    <3> QED
      BY <1>4, <1>6, <3>1
  <2> QED
    BY <1>2, <1>3, <2>2, <2>3
<1>7. Is(top)
  BY <1>4, <1>5
<1>8. LastIndex = CHOOSE e \in Entries : Is(e)
  BY DEF LastIndex
<1> HIDE DEF Is
<1>9. LastIndex = top
  BY <1>3, <1>6, <1>7, <1>8
<1> QED
  BY <1>1, <1>9 DEF top

\* The word at sorted_idx is the loop index if that is one of the indices.
LEMMA WordIsExpected ==
  ASSUME ScatterTypeOK, IndicesAscend, Validating, ent \in Entries,
         Harmless \/ ent <= LastIndex
  PROVE  /\ Expected(ent) = IF Word(sorted_idx) = ent THEN 1 ELSE 0
         /\ Word(sorted_idx) = ent => sorted_idx \in Accesses0
<1>1. /\ num_accesses \in Nat \ {0} /\ num_ents \in Nat \ {0}
      /\ sorted_idx \in Nat /\ sorted_idx <= num_accesses
      /\ ent \in Nat /\ ent <= num_ents - 1
  BY GatherScatterAssumption DEF Validating, Entries
<1>2. \A x \in Accesses0 : /\ indirect_array[x] \in Nat /\ x \in Nat
                           /\ x < num_accesses /\ Word(x) = indirect_array[x]
  BY <1>1 DEF ScatterTypeOK, Accesses0, Entries, Word
<1>3. \A x \in Accesses0 : x < sorted_idx <=> indirect_array[x] < ent
  BY DEF Validating
<1>4. CASE sorted_idx < num_accesses
  <2>1. sorted_idx \in Accesses0
    BY <1>1, <1>4 DEF Accesses0
  <2>2. CASE indirect_array[sorted_idx] = ent
    BY <1>2, <2>1, <2>2 DEF Expected
  <2>3. CASE indirect_array[sorted_idx] # ent
    <3>1. ent < indirect_array[sorted_idx]
      BY <1>1, <1>2, <1>3, <2>1, <2>3
    <3>2. ASSUME NEW x \in Accesses0, indirect_array[x] = ent
          PROVE  FALSE
      <4>1. sorted_idx <= x
        BY <1>1, <1>2, <1>3, <3>2
      <4>2. indirect_array[sorted_idx] <= indirect_array[x]
        BY <2>1, <4>1 DEF IndicesAscend
      <4> QED
        BY <1>1, <1>2, <2>1, <3>1, <3>2, <4>2
    <3> QED
      BY <1>2, <2>1, <2>3, <3>2 DEF Expected
  <2> QED
    BY <2>1, <2>2, <2>3
<1>5. CASE sorted_idx = num_accesses
  <2>1. \A x \in Accesses0 : indirect_array[x] < ent
    BY <1>2, <1>3, <1>5
  <2>2. \A x \in Accesses0 : indirect_array[x] # ent
    BY <1>1, <1>2, <2>1
  <2>3. LastIndex < ent /\ LastIndex \in Nat
    BY <1>2, <2>1, LastIndexIsLast
  <2>4. Word(num_accesses) # ent
    <3>1. ent \in LastIndex .. num_ents - 1 /\ ~(ent <= LastIndex)
      BY <1>1, <2>3
    <3> QED
      BY <3>1 DEF Harmless
  <2> QED
    BY <1>5, <2>2, <2>4 DEF Expected
<1> QED
  BY <1>1, <1>4, <1>5

\* The loop past equal indices stops behind them, at the latest behind the
\* last one.
LEMMA PastEqualStops ==
  ASSUME ScatterTypeOK, IndicesAscend, Validating, ent \in Entries,
         Harmless \/ ent < LastIndex, Word(sorted_idx) = ent
  PROVE  /\ PastEqual(ent) \in 0 .. num_accesses
         /\ \A x \in Accesses0 :
              x < PastEqual(ent) <=> indirect_array[x] < ent + 1
<1> DEFINE end == num_accesses + Len(stray)
           T == {k \in Nat : sorted_idx + 1 <= k /\ Word(k) # ent}
           Stops(k) == /\ \A l \in sorted_idx .. k - 1 : Word(l) = ent
                       /\ Word(k) # ent
           stop == PastEqual(ent)
<1>1. /\ num_accesses \in Nat \ {0} /\ num_ents \in Nat \ {0}
      /\ sorted_idx \in Nat /\ sorted_idx < num_accesses
      /\ sorted_idx \in Accesses0
      /\ ent \in Nat /\ ent <= num_ents - 1 /\ Len(stray) \in Nat
  <2>1. sorted_idx \in Accesses0
    <3>1. LastIndex \in Nat /\ ent \in Nat
      BY LastIndexIsLast DEF ScatterTypeOK, Entries
    <3>2. Harmless \/ ent <= LastIndex
      BY <3>1
    <3> QED
      BY <3>2, WordIsExpected
  <2> QED
    BY <2>1, GatherScatterAssumption
       DEF Validating, Entries, Accesses0, ScatterTypeOK
<1>2. \A x \in Accesses0 : /\ indirect_array[x] \in Nat /\ x \in Nat
                           /\ x < num_accesses /\ Word(x) = indirect_array[x]
  BY <1>1 DEF ScatterTypeOK, Accesses0, Entries, Word
<1>3. end \in T
  <2>1. end \in Nat /\ sorted_idx + 1 <= end /\ ~(end < num_accesses)
        /\ ~(end - num_accesses < Len(stray))
    BY <1>1
  <2>2. Word(end) = NoEntry
    BY <2>1 DEF Word
  <2> QED
    BY <1>1, <2>1, <2>2 DEF NoEntry
<1>4. PICK k \in T : \A l \in T : k <= l
  BY <1>3, LeastNat
<1>5. k \in sorted_idx + 1 .. end /\ Stops(k)
  <2>1. k \in Nat /\ sorted_idx + 1 <= k /\ Word(k) # ent /\ k <= end
    BY <1>3, <1>4
  <2>2. ASSUME NEW l \in sorted_idx .. k - 1
        PROVE  Word(l) = ent
    <3>1. l \in Nat /\ l < k /\ (l = sorted_idx \/ sorted_idx + 1 <= l)
      BY <1>1, <2>1
    <3>2. l \notin T
      BY <1>4, <2>1, <3>1
    <3> QED
      BY <3>1, <3>2
  <2>3. end \in Nat
    BY <1>1
  <2> HIDE DEF end
  <2> QED
    BY <1>1, <2>1, <2>2, <2>3
<1>6. stop \in sorted_idx + 1 .. end /\ Stops(stop)
  <2>1. stop = CHOOSE j \in sorted_idx + 1 .. end : Stops(j)
    BY DEF PastEqual
  <2> HIDE DEF Stops, stop, end
  <2> QED
    BY <1>5, <2>1
<1> HIDE DEF stop
<1>7. stop \in Nat /\ sorted_idx < stop
  BY <1>1, <1>6
<1>8. stop <= num_accesses
  <2> SUFFICES ASSUME num_accesses < stop
               PROVE  FALSE
    BY <1>1, <1>7
  <2>1. /\ num_accesses \in sorted_idx .. stop - 1
        /\ LastAccess \in sorted_idx .. stop - 1
    BY <1>1, <1>7 DEF LastAccess
  <2>2. Word(num_accesses) = ent /\ Word(LastAccess) = ent
    BY <1>6, <2>1
  <2>3. LastIndex = ent
    BY <1>2, <2>2, LastIndexIsLast
  <2>4. ent \in LastIndex .. num_ents - 1 /\ ~(ent < LastIndex)
    BY <1>1, <2>3
  <2> QED
    BY <2>2, <2>4 DEF Harmless
<1>9. ASSUME NEW x \in Accesses0
      PROVE  x < stop <=> indirect_array[x] < ent + 1
  <2>1. x \in Nat /\ x < num_accesses /\ indirect_array[x] \in Nat
    BY <1>2
  <2>2. CASE x < sorted_idx
    BY <1>1, <1>7, <2>1, <2>2 DEF Validating
  <2>3. CASE sorted_idx <= x /\ x < stop
    <3>1. x \in sorted_idx .. stop - 1
      BY <1>1, <1>7, <2>1, <2>3
    <3>2. indirect_array[x] = ent
      BY <1>2, <1>6, <3>1
    <3> QED
      BY <1>1, <2>3, <3>2
  <2>4. CASE stop <= x
    <3>1. stop \in Accesses0
      BY <1>1, <1>7, <2>1, <2>4 DEF Accesses0
    <3>2. indirect_array[stop] # ent
      BY <1>2, <1>6, <3>1
    <3>3. /\ indirect_array[sorted_idx] <= indirect_array[stop]
          /\ indirect_array[stop] <= indirect_array[x]
      BY <1>1, <1>7, <2>4, <3>1 DEF IndicesAscend
    <3>4. indirect_array[sorted_idx] = ent
      BY <1>1, <1>2
    <3> QED
      BY <1>1, <1>2, <1>7, <2>1, <2>4, <3>1, <3>2, <3>3, <3>4
  <2> QED
    BY <1>1, <1>7, <2>1, <2>2, <2>3, <2>4
<1> QED
  BY <1>1, <1>7, <1>8, <1>9 DEF stop

\* The invariant holds at first.
LEMMA ScatterInitInv ==
  ScatterInit([Accesses0 -> Entries], Seq(Nat), FilledBuffers) => ScatterInv
  BY DEF ScatterInit, ScatterInv, ScatterTypeOK

\* Nothing but the arrays makes the difference.
LEMMA ArraysStay ==
  ASSUME indirect_array' = indirect_array, stray' = stray
  PROVE  /\ Harmless' <=> Harmless
         /\ IndicesAscend' <=> IndicesAscend
         /\ \A e : Expected(e)' = Expected(e)
         /\ LastIndex' = LastIndex
<1>1. \A n : Word(n)' = Word(n)
  BY DEF Word
<1>2. \A e : Expected(e)' = Expected(e)
  BY DEF Expected
<1>3. LastIndex' = LastIndex
  BY DEF LastIndex, Expected
<1> QED
  BY <1>1, <1>2, <1>3 DEF Harmless, IndicesAscend

\* std::sort.
LEMMA SortIndicesInv == ScatterInv /\ SortIndices => ScatterInv'
<1> SUFFICES ASSUME ScatterInv, SortIndices
             PROVE  ScatterInv'
  OBVIOUS
<1> DEFINE arr == [n \in 1 .. num_accesses |-> indirect_array[n - 1]]
<1>1. num_accesses \in Nat \ {0} /\ num_ents \in Nat \ {0}
  BY GatherScatterAssumption
<1>2. \A x \in Accesses0 : x \in Nat /\ x + 1 \in 1 .. num_accesses
  BY <1>1 DEF Accesses0
<1>3. /\ arr \in [1 .. num_accesses -> Nat]
      /\ \A x \in 1 .. num_accesses : arr[x] \in Entries
  <2>1. \A x \in 1 .. num_accesses : x - 1 \in Accesses0
    BY <1>1 DEF Accesses0
  <2>2. \A x \in 1 .. num_accesses : arr[x] \in Entries
    BY <2>1 DEF ScatterInv, ScatterTypeOK
  <2>3. \A e \in Entries : e \in Nat
    BY <1>1 DEF Entries
  <2> QED
    BY <2>2, <2>3
<1>4. /\ indirect_array' = [n \in Accesses0 |-> Sorted(arr)[n + 1]]
      /\ scatter_pc' = "validate" /\ ent' = 0
      /\ stray' = stray /\ scatter_array' = scatter_array
      /\ sorted_idx' = sorted_idx /\ verdict' = verdict
      /\ scatter_pc = "scatter"
  BY DEF SortIndices
<1> HIDE DEF arr
<1>5. /\ \A x, y \in 1 .. num_accesses : x <= y => Sorted(arr)[x] <= Sorted(arr)[y]
      /\ \A x \in 1 .. num_accesses : Sorted(arr)[x] \in Entries
  <2>1. PICK order \in Orders(num_accesses) :
          \A x \in 1 .. num_accesses : Sorted(arr)[x] = arr[order[x]]
    BY <1>1, <1>3, SortedFacts
  <2>2. order \in [1 .. num_accesses -> 1 .. num_accesses]
    BY DEF Orders
  <2>3. \A x \in 1 .. num_accesses : Sorted(arr)[x] \in Entries
    BY <1>3, <2>1, <2>2
  <2> QED
    BY <1>1, <1>3, <2>3, SortedFacts
<1>6. indirect_array' \in [Accesses0 -> Entries]
  BY <1>2, <1>4, <1>5
<1>7. IndicesAscend'
  <2> SUFFICES ASSUME NEW x \in Accesses0, NEW y \in Accesses0, x <= y
               PROVE  indirect_array'[x] <= indirect_array'[y]
    BY DEF IndicesAscend, Accesses0
  <2>1. x + 1 <= y + 1
    BY <1>2
  <2> QED
    BY <1>2, <1>4, <1>5, <2>1
<1>8. ScatterTypeOK'
  BY <1>4, <1>6 DEF ScatterInv, ScatterTypeOK, Accesses0, Entries
<1>9. Validating' /\ \A e \in Entries : ~(e < 0)
  <2>1. sorted_idx' = 0 /\ verdict' = "ok" /\ 0 \in 0 .. num_accesses
    BY <1>1, <1>4 DEF ScatterInv
  <2>2. \A x \in Accesses0 : indirect_array'[x] \in Nat
    BY <1>6 DEF Entries
  <2>3. \A x \in Accesses0 : x < 0 <=> indirect_array'[x] < 0
    BY <1>2, <2>2
  <2>4. \A e \in Entries : ~(e < 0)
    BY DEF Entries
  <2> QED
    BY <1>1, <1>4, <2>1, <2>3, <2>4 DEF Validating, Accesses0, Entries
<1> QED
  BY <1>1, <1>4, <1>7, <1>8, <1>9 DEF ScatterInv, Validating, Entries

\* One round of the validation.
LEMMA ValidateInv == ScatterInv /\ Validate => ScatterInv'
<1> SUFFICES ASSUME ScatterInv, Validate
             PROVE  ScatterInv'
  OBVIOUS
<1>1. /\ num_accesses \in Nat \ {0} /\ num_ents \in Nat \ {0}
      /\ scatter_pc = "validate" /\ ent \in Nat /\ ent < num_ents
      /\ ent' = ent + 1 /\ stray' = stray
      /\ indirect_array' = indirect_array /\ scatter_array' = scatter_array
      /\ IndicesAscend /\ ScatterTypeOK
  BY GatherScatterAssumption DEF Validate, ScatterInv, ScatterTypeOK
<1>2. ent \in Entries /\ ent + 1 <= num_ents
  BY <1>1 DEF Entries
<1>3. /\ Harmless' <=> Harmless
      /\ IndicesAscend'
      /\ \A e : Expected(e)' = Expected(e)
      /\ LastIndex' = LastIndex /\ LastIndex \in Entries
      /\ \A e : (Right(e)' <=> Right(e)) /\ (Passed(e)' <=> Passed(e))
  <2>1. /\ Harmless' <=> Harmless
        /\ IndicesAscend'
        /\ \A e : Expected(e)' = Expected(e)
        /\ LastIndex' = LastIndex
    BY <1>1, ArraysStay
  <2>2. LastIndex \in Entries
    BY <1>1, LastIndexIsLast DEF ScatterTypeOK
  <2> QED
    BY <1>1, <2>1, <2>2 DEF Right, Passed
<1>4. \/ /\ Word(sorted_idx) = ent /\ scatter_array[ent] = 1
         /\ sorted_idx' = PastEqual(ent)
         /\ scatter_pc' = scatter_pc /\ verdict' = verdict
      \/ /\ Word(sorted_idx) # ent /\ scatter_array[ent] = 0
         /\ sorted_idx' = sorted_idx
         /\ scatter_pc' = scatter_pc /\ verdict' = verdict
      \/ /\ scatter_array[ent] # (IF Word(sorted_idx) = ent THEN 1 ELSE 0)
         /\ verdict' = "error" /\ scatter_pc' = "end"
  BY DEF Validate, Wrong
<1>5. ScatterTypeOK'
  BY <1>1, <1>4 DEF ScatterTypeOK, Accesses0, Entries
<1>8. ASSUME Harmless \/ ent <= LastIndex
      PROVE  /\ Validating
             /\ Expected(ent) = IF Word(sorted_idx) = ent THEN 1 ELSE 0
  <2>1. Validating
    BY <1>1, <1>8 DEF ScatterInv
  <2> QED
    BY <1>1, <1>2, <1>8, <2>1, WordIsExpected
<1>6. CASE scatter_pc' = "end"
  <2>1. ASSUME Harmless
        PROVE  \E e \in Entries : ~Right(e)
    BY <1>1, <1>2, <1>4, <1>6, <1>8, <2>1 DEF Right
  <2>2. verdict' = "error"
    BY <1>1, <1>4, <1>6
  <2> QED
    BY <1>1, <1>3, <1>5, <1>6, <2>1, <2>2 DEF ScatterInv, Entries
<1>7. CASE scatter_pc' = "validate"
  <2>2. verdict' = "ok" /\ scatter_array[ent] \in {0, 1}
    BY <1>1, <1>4, <1>7 DEF ScatterInv
  <2>3. Passed(ent)
    <3>1. CASE Harmless \/ ent <= LastIndex
      BY <1>4, <1>7, <1>8, <3>1 DEF Passed, Right
    <3>2. CASE ~(ent <= LastIndex)
      <4>1. ent > LastIndex /\ LastIndex \in Nat
        BY <1>1, <1>3, <3>2 DEF Entries
      <4>2. ASSUME NEW x \in Accesses0, indirect_array[x] = ent
            PROVE  FALSE
        <5>1. LastIndex = indirect_array[LastAccess] /\ LastAccess \in Accesses0
          BY <1>1, LastIndexIsLast
        <5>2. x <= LastAccess
          BY <1>1 DEF LastAccess, Accesses0
        <5>3. indirect_array[x] <= indirect_array[LastAccess]
          BY <1>1, <5>1, <5>2 DEF IndicesAscend
        <5> QED
          BY <1>1, <4>1, <4>2, <5>1, <5>3
      <4>3. Expected(ent) = 0
        BY <4>2 DEF Expected
      <4> QED
        BY <2>2, <4>1, <4>3 DEF Passed, Right
    <3> QED
      BY <3>1, <3>2
  <2>4. \A e \in Entries : e < ent + 1 => Passed(e)
    <3> TAKE e \in Entries
    <3> HAVE e < ent + 1
    <3>1. e = ent \/ e < ent
      BY <1>1 DEF Entries
    <3> QED
      BY <1>1, <2>3, <3>1 DEF ScatterInv
  <2>1. ASSUME Harmless \/ ent + 1 <= LastIndex
        PROVE  Validating'
    <3>0. /\ Harmless \/ ent < LastIndex
          /\ Harmless \/ ent <= LastIndex
      BY <1>1, <1>3, <2>1 DEF Entries
    <3>1. Validating
      BY <1>8, <3>0
    <3>2. Expected(ent) = IF Word(sorted_idx) = ent THEN 1 ELSE 0
      BY <1>8, <3>0
    <3>3. Right(ent)
      BY <1>4, <1>7, <3>2 DEF Right
    <3>4. \A e \in Entries : e < ent + 1 => Right(e)
      <4> TAKE e \in Entries
      <4> HAVE e < ent + 1
      <4>1. e = ent \/ e < ent
        BY <1>1 DEF Entries
      <4> QED
        BY <3>1, <3>3, <4>1 DEF Validating
    <3>5. /\ sorted_idx' \in 0 .. num_accesses
          /\ \A x \in Accesses0 : x < sorted_idx' <=> indirect_array[x] < ent + 1
      <4>1. CASE Word(sorted_idx) = ent
        BY <1>1, <1>2, <1>4, <1>7, <3>0, <3>1, <4>1, PastEqualStops
      <4>2. CASE Word(sorted_idx) # ent
        <5>1. Expected(ent) = 0 /\ sorted_idx' = sorted_idx
          BY <1>4, <1>7, <3>2, <4>2
        <5>2. ASSUME NEW x \in Accesses0
              PROVE  indirect_array[x] < ent + 1 <=> indirect_array[x] < ent
          <6>1. indirect_array[x] # ent
            BY <5>1 DEF Expected
          <6>2. indirect_array[x] \in Nat
            BY <1>1 DEF ScatterTypeOK, Entries
          <6> QED
            BY <1>1, <6>1, <6>2
        <5> QED
          BY <3>1, <5>1, <5>2 DEF Validating
      <4> QED
        BY <4>1, <4>2
    <3> QED
      BY <1>1, <1>2, <1>3, <2>2, <3>4, <3>5 DEF Validating, Accesses0, Entries
  <2> QED
    BY <1>1, <1>2, <1>3, <1>5, <1>7, <2>1, <2>2, <2>4 DEF ScatterInv, Entries
<1> QED
  BY <1>1, <1>4, <1>6, <1>7

\* Every step keeps the invariant.
LEMMA ScatterStepInv ==
  ScatterInv /\ [ScatterNext]_scatter_vars => ScatterInv'
<1> SUFFICES ASSUME ScatterInv, [ScatterNext]_scatter_vars
             PROVE  ScatterInv'
  OBVIOUS
<1>1. CASE Scatter
  BY <1>1 DEF Scatter, ScatterInv, ScatterTypeOK, Accesses0, Entries
<1>2. CASE Validated
  <2>1. /\ scatter_pc = "validate" /\ ent = num_ents /\ scatter_pc' = "end"
        /\ stray' = stray /\ ent' = ent /\ verdict' = verdict
        /\ indirect_array' = indirect_array /\ scatter_array' = scatter_array
    BY <1>2 DEF Validated
  <2>2. /\ Harmless' <=> Harmless
        /\ IndicesAscend'
        /\ \A e : (Right(e)' <=> Right(e)) /\ (Passed(e)' <=> Passed(e))
    BY <2>1, ArraysStay DEF ScatterInv, Right, Passed
  <2>3. ScatterTypeOK'
    BY <2>1 DEF ScatterInv, ScatterTypeOK, Accesses0, Entries
  <2>4. \A e \in Entries : e < num_ents
    BY GatherScatterAssumption DEF Entries
  <2>5. verdict' = "ok" /\ \A e \in Entries : Passed(e)
    BY <2>1, <2>4 DEF ScatterInv
  <2>6. ASSUME Harmless
        PROVE  \A e \in Entries : Right(e)
    BY <2>1, <2>4, <2>6 DEF ScatterInv, Validating
  <2> QED
    BY <2>1, <2>2, <2>3, <2>5, <2>6 DEF ScatterInv, Entries
<1>3. CASE UNCHANGED scatter_vars
  <2>1. /\ indirect_array' = indirect_array /\ stray' = stray
        /\ scatter_array' = scatter_array /\ scatter_pc' = scatter_pc
        /\ ent' = ent /\ sorted_idx' = sorted_idx /\ verdict' = verdict
    BY <1>3 DEF scatter_vars
  <2>2. /\ Harmless' <=> Harmless
        /\ IndicesAscend' <=> IndicesAscend
        /\ LastIndex' = LastIndex
        /\ \A e : (Right(e)' <=> Right(e)) /\ (Passed(e)' <=> Passed(e))
    BY <2>1, ArraysStay DEF Right, Passed
  <2>3. ScatterTypeOK'
    BY <2>1 DEF ScatterInv, ScatterTypeOK, Accesses0, Entries
  <2> QED
    BY <2>1, <2>2, <2>3 DEF ScatterInv, Validating, Accesses0, Entries
<1> QED
  BY <1>1, <1>2, <1>3, SortIndicesInv, ValidateInv DEF ScatterNext

\* The inductive invariant of the validation.
THEOREM ScatterInvariant == ScatterSpec => []ScatterInv
  BY ScatterInitInv, ScatterStepInv, PTL DEF ScatterSpec

\* validate_scatter_array is right about the buffer, whatever the indices, the
\* buffer and the words behind the indices are, unless the first of these
\* happens to be an index from the largest one on; and even then it misses no
\* wrong entry but one behind the largest index that looks scattered.
THEOREM ValidationJudges == ScatterSpec => []JudgesBuffer
<1>1. ScatterInv => JudgesBuffer
  BY DEF ScatterInv, JudgesBuffer, Harmless, Passed
<1> QED
  BY <1>1, ScatterInvariant, PTL

-----------------------------------------------------------------------------
(***************************************************************************)
(* Statistics.                                                             *)
(***************************************************************************)
\* The sums of an array of numbers.
LEMMA ExactSumSteps ==
  ASSUME NEW n \in Nat, NEW arr \in [1 .. n -> Nat]
  PROVE  /\ Len(arr) = n
         /\ ExactSums(arr)[0] = 0
         /\ \A k \in 1 .. n : ExactSums(arr)[k] = ExactSums(arr)[k - 1] + arr[k]
         /\ \A k \in 0 .. n : ExactSums(arr)[k] \in Nat
<1> DEFINE D(v, k) == v + arr[k]
           f == ExactSums(arr)
           G == {k \in Nat : k <= n => f[k] \in Nat}
<1>1. arr \in Seq(Nat) /\ Len(arr) = n
  OBVIOUS
<1>2. f = CHOOSE g : g = [k \in 0 .. n |-> IF k = 0 THEN 0 ELSE D(g[k - 1], k)]
  BY <1>1 DEF ExactSums
<1>3. FiniteNatInductiveDefHypothesis(f, 0, D, 0, n)
  BY <1>2 DEF FiniteNatInductiveDefHypothesis
<1>4. FiniteNatInductiveDefConclusion(f, 0, D, 0, n)
  BY <1>3, FiniteNatInductiveDef
<1>5. f = [k \in 0 .. n |-> IF k = 0 THEN 0 ELSE D(f[k - 1], k)]
  BY <1>4 DEF FiniteNatInductiveDefConclusion
<1> HIDE DEF f
<1>6. 0 \in 0 .. n /\ \A k \in 1 .. n : k \in 0 .. n /\ k # 0
  OBVIOUS
<1>7. f[0] = 0 /\ \A k \in 1 .. n : f[k] = f[k - 1] + arr[k]
  BY <1>5, <1>6
<1>8. 0 \in G
  BY <1>7
<1>9. \A k \in G : k + 1 \in G
  <2> TAKE k \in G
  <2>1. k \in Nat /\ k + 1 \in Nat /\ (k + 1) - 1 = k
    OBVIOUS
  <2>2. ASSUME k + 1 <= n
        PROVE  f[k + 1] \in Nat
    <3>1. k + 1 \in 1 .. n /\ k <= n
      BY <2>1, <2>2
    <3>2. f[k + 1] = f[k] + arr[k + 1]
      BY <1>7, <2>1, <3>1
    <3> QED
      BY <3>1, <3>2
  <2> QED
    BY <2>1, <2>2
<1>10. G = Nat
  BY <1>8, <1>9, NatInd
<1>11. \A k \in 0 .. n : f[k] \in Nat
  <2> TAKE k \in 0 .. n
  <2>1. k \in G /\ k <= n
    BY <1>10
  <2> QED
    BY <2>1
<1> QED
  BY <1>1, <1>7, <1>11 DEF f

\* The same of the sums modulo the size of a word.
LEMMA TotalSteps ==
  ASSUME NEW n \in Nat, NEW arr \in [1 .. n -> Nat]
  PROVE  /\ Totals(arr)[0] = 0
         /\ \A k \in 1 .. n :
              Totals(arr)[k] = (Totals(arr)[k - 1] + arr[k]) % WordSize
<1> DEFINE D(v, k) == (v + arr[k]) % WordSize
           f == Totals(arr)
<1>1. arr \in Seq(Nat) /\ Len(arr) = n
  OBVIOUS
<1>2. f = CHOOSE g : g = [k \in 0 .. n |-> IF k = 0 THEN 0 ELSE D(g[k - 1], k)]
  BY <1>1 DEF Totals, Wrapped
<1>3. FiniteNatInductiveDefHypothesis(f, 0, D, 0, n)
  BY <1>2 DEF FiniteNatInductiveDefHypothesis
<1>4. FiniteNatInductiveDefConclusion(f, 0, D, 0, n)
  BY <1>3, FiniteNatInductiveDef
<1>5. f = [k \in 0 .. n |-> IF k = 0 THEN 0 ELSE D(f[k - 1], k)]
  BY <1>4 DEF FiniteNatInductiveDefConclusion
<1> HIDE DEF f
<1>6. 0 \in 0 .. n /\ \A k \in 1 .. n : k \in 0 .. n /\ k # 0
  OBVIOUS
<1>7. f[0] = 0 /\ \A k \in 1 .. n : f[k] = (f[k - 1] + arr[k]) % WordSize
  BY <1>5, <1>6
<1> QED
  BY <1>7 DEF f

\* However often the sum wraps, it is the remainder of the exact one.
LEMMA TotalIsRemainder ==
  ASSUME NEW n \in Nat, NEW arr \in [1 .. n -> Nat]
  PROVE  Total(arr) = ExactSum(arr) % WordSize
<1> DEFINE f == Totals(arr)
           e == ExactSums(arr)
           G == {k \in Nat : k <= n => f[k] = e[k] % WordSize}
<1>1. /\ Len(arr) = n /\ e[0] = 0 /\ f[0] = 0
      /\ \A k \in 1 .. n : e[k] = e[k - 1] + arr[k]
      /\ \A k \in 1 .. n : f[k] = (f[k - 1] + arr[k]) % WordSize
      /\ \A k \in 0 .. n : e[k] \in Nat
  BY ExactSumSteps, TotalSteps
<1>2. WordSize \in Nat \ {0}
  BY StatisticsAssumption
<1> HIDE DEF f, e
<1>3. 0 \in G
  <2>1. 0 \in 0 .. WordSize - 1
    BY <1>2
  <2>2. 0 % WordSize = 0
    BY <1>2, <2>1, ModSmall
  <2> QED
    BY <1>1, <2>2
<1>4. \A k \in G : k + 1 \in G
  <2> TAKE k \in G
  <2>1. k \in Nat /\ k + 1 \in Nat /\ (k + 1) - 1 = k
    OBVIOUS
  <2>2. ASSUME k + 1 <= n
        PROVE  f[k + 1] = e[k + 1] % WordSize
    <3>1. k + 1 \in 1 .. n /\ k \in 0 .. n /\ k <= n
      BY <2>1, <2>2
    <3>2. f[k] = e[k] % WordSize
      BY <3>1
    <3>3. /\ f[k + 1] = (f[k] + arr[k + 1]) % WordSize
          /\ e[k + 1] = e[k] + arr[k + 1]
          /\ e[k] \in Int /\ arr[k + 1] \in Int
      BY <1>1, <2>1, <3>1
    <3>4. ((e[k] % WordSize) + arr[k + 1]) % WordSize
            = (e[k] + arr[k + 1]) % WordSize
      BY <1>2, <3>3, ModSum
    <3> QED
      BY <3>2, <3>3, <3>4
  <2> QED
    BY <2>1, <2>2
<1>5. G = Nat
  BY <1>3, <1>4, NatInd
<1>6. f[n] = e[n] % WordSize
  <2>1. n \in G
    BY <1>5
  <2> QED
    BY <2>1
<1> QED
  BY <1>1, <1>6 DEF Total, ExactSum, f, e

\* Sums of equal remainders have equal remainders.
LEMMA SumsCongruent ==
  ASSUME NEW n \in Nat, NEW u \in [1 .. n -> Nat], NEW v \in [1 .. n -> Nat],
         \A k \in 1 .. n : u[k] % WordSize = v[k] % WordSize
  PROVE  ExactSum(u) % WordSize = ExactSum(v) % WordSize
<1> DEFINE e == ExactSums(u)
           g == ExactSums(v)
           G == {k \in Nat : k <= n => e[k] % WordSize = g[k] % WordSize}
<1>1. /\ Len(u) = n /\ Len(v) = n /\ e[0] = 0 /\ g[0] = 0
      /\ \A k \in 1 .. n : e[k] = e[k - 1] + u[k]
      /\ \A k \in 1 .. n : g[k] = g[k - 1] + v[k]
      /\ \A k \in 0 .. n : e[k] \in Nat /\ g[k] \in Nat
  BY ExactSumSteps
<1>2. WordSize \in Nat \ {0}
  BY StatisticsAssumption
<1> HIDE DEF g, e
<1>3. 0 \in G
  BY <1>1
<1>4. ASSUME NEW a \in Nat, NEW b \in Nat, NEW x \in Nat, NEW y \in Nat,
             a % WordSize = b % WordSize, x % WordSize = y % WordSize
      PROVE  (a + x) % WordSize = (b + y) % WordSize
  <2>1. \A i, j \in Nat : (i + j) % WordSize = ((i % WordSize) + j) % WordSize
    <3>1. \A i, j \in Int : ((i % WordSize) + j) % WordSize = (i + j) % WordSize
      BY <1>2, ModSum
    <3> QED
      BY <3>1
  <2>2. b + x = x + b /\ y + b = b + y
    OBVIOUS
  <2>3. (a + x) % WordSize = ((b % WordSize) + x) % WordSize
    BY <1>4, <2>1
  <2>4. (x + b) % WordSize = ((y % WordSize) + b) % WordSize
    BY <1>4, <2>1
  <2>5. /\ ((b % WordSize) + x) % WordSize = (b + x) % WordSize
        /\ ((y % WordSize) + b) % WordSize = (y + b) % WordSize
    BY <2>1
  <2> QED
    BY <2>2, <2>3, <2>4, <2>5
<1>5. \A k \in G : k + 1 \in G
  <2> TAKE k \in G
  <2>1. k \in Nat /\ k + 1 \in Nat /\ (k + 1) - 1 = k
    OBVIOUS
  <2>2. ASSUME k + 1 <= n
        PROVE  e[k + 1] % WordSize = g[k + 1] % WordSize
    <3>1. k + 1 \in 1 .. n /\ k \in 0 .. n /\ k <= n
      BY <2>1, <2>2
    <3>2. e[k] % WordSize = g[k] % WordSize
      BY <3>1
    <3>3. /\ e[k + 1] = e[k] + u[k + 1] /\ g[k + 1] = g[k] + v[k + 1]
          /\ e[k] \in Nat /\ g[k] \in Nat
          /\ u[k + 1] \in Nat /\ v[k + 1] \in Nat
          /\ u[k + 1] % WordSize = v[k + 1] % WordSize
      BY <1>1, <2>1, <3>1
    <3>4. (e[k] + u[k + 1]) % WordSize = (g[k] + v[k + 1]) % WordSize
      <4> DEFINE a == e[k]
                 b == g[k]
                 x == u[k + 1]
                 y == v[k + 1]
      <4>1. /\ a \in Nat /\ b \in Nat /\ x \in Nat /\ y \in Nat
            /\ a % WordSize = b % WordSize /\ x % WordSize = y % WordSize
        BY <3>2, <3>3
      <4> HIDE DEF a, b, x, y
      <4>2. (a + x) % WordSize = (b + y) % WordSize
        BY <1>4, <4>1
      <4> QED
        BY <4>2 DEF a, b, x, y
    <3> QED
      BY <3>3, <3>4
  <2> QED
    BY <2>1, <2>2
<1>6. G = Nat
  BY <1>3, <1>5, NatInd
<1>7. e[n] % WordSize = g[n] % WordSize
  <2>1. n \in G
    BY <1>6
  <2> QED
    BY <2>1
<1> QED
  BY <1>1, <1>7 DEF ExactSum, e, g

\* The sum without the first entry.
LEMMA SumOfTail ==
  ASSUME NEW n \in Nat \ {0}, NEW arr \in [1 .. n -> Nat]
  PROVE  /\ Tail(arr) \in [1 .. n - 1 -> Nat]
         /\ ExactSum(arr) = ExactSum(Tail(arr)) + arr[1]
         /\ ExactSum(arr) \in Nat /\ ExactSum(Tail(arr)) \in Nat /\ arr[1] \in Nat
<1> DEFINE rest == Tail(arr)
           e == ExactSums(arr)
           g == ExactSums(rest)
           G == {k \in Nat : k <= n - 1 => e[k + 1] = g[k] + arr[1]}
<1>1. arr \in Seq(Nat) /\ Len(arr) = n /\ 1 \in 1 .. n /\ n - 1 \in Nat
  OBVIOUS
<1>2. /\ rest \in [1 .. n - 1 -> Nat]
      /\ \A k \in 1 .. n - 1 : rest[k] = arr[k + 1]
  <2>1. rest \in Seq(Nat) /\ Len(rest) = n - 1
    BY <1>1
  <2>2. \A k \in 1 .. n - 1 : rest[k] = arr[k + 1]
    BY <1>1
  <2>3. \A s \in Seq(Nat) : s \in [1 .. Len(s) -> Nat]
    OBVIOUS
  <2> HIDE DEF rest
  <2> QED
    BY <2>1, <2>2, <2>3
<1> HIDE DEF rest
<1>3. /\ e[0] = 0 /\ \A k \in 1 .. n : e[k] = e[k - 1] + arr[k]
      /\ \A k \in 0 .. n : e[k] \in Nat
  BY ExactSumSteps
<1>4. /\ Len(rest) = n - 1 /\ g[0] = 0
      /\ \A k \in 1 .. n - 1 : g[k] = g[k - 1] + rest[k]
      /\ \A k \in 0 .. n - 1 : g[k] \in Nat
  BY <1>1, <1>2, ExactSumSteps
<1> HIDE DEF e, g
<1>5. 0 \in G
  <2>1. e[1] = e[0] + arr[1]
    BY <1>1, <1>3
  <2> QED
    BY <1>3, <1>4, <2>1
<1>6. \A k \in G : k + 1 \in G
  <2> TAKE k \in G
  <2>1. k \in Nat /\ k + 1 \in Nat /\ (k + 1) - 1 = k
    OBVIOUS
  <2>2. ASSUME k + 1 <= n - 1
        PROVE  e[(k + 1) + 1] = g[k + 1] + arr[1]
    <3>1. /\ k + 1 \in 1 .. n - 1 /\ k <= n - 1 /\ k \in 0 .. n - 1
          /\ (k + 1) + 1 \in 1 .. n /\ ((k + 1) + 1) - 1 = k + 1
      BY <1>1, <2>1, <2>2
    <3>2. e[k + 1] = g[k] + arr[1]
      BY <3>1
    <3>3. /\ e[(k + 1) + 1] = e[k + 1] + arr[(k + 1) + 1]
          /\ g[k + 1] = g[k] + rest[k + 1]
          /\ rest[k + 1] = arr[(k + 1) + 1] /\ g[k] \in Nat
          /\ rest[k + 1] \in Nat /\ arr[1] \in Nat
      BY <1>1, <1>2, <1>3, <1>4, <2>1, <3>1
    <3>4. \A x, y, z \in Nat : (x + y) + z = (x + z) + y
      OBVIOUS
    <3> QED
      BY <3>2, <3>3, <3>4
  <2> QED
    BY <2>1, <2>2
<1>7. G = Nat
  BY <1>5, <1>6, NatInd
<1>8. e[n] = g[n - 1] + arr[1]
  <2>1. n - 1 \in G
    BY <1>1, <1>7
  <2>2. e[(n - 1) + 1] = g[n - 1] + arr[1]
    BY <1>1, <2>1
  <2>3. (n - 1) + 1 = n
    OBVIOUS
  <2> QED
    BY <2>2, <2>3
<1>9. e[n] \in Nat /\ g[n - 1] \in Nat
  BY <1>1, <1>3, <1>4
<1> QED
  BY <1>1, <1>2, <1>4, <1>8, <1>9 DEF ExactSum, e, g, rest

\* Entries that are found among the places a to b are at most as many.
LEMMA PlacesBound ==
  ASSUME NEW n \in Nat, NEW order \in Orders(n), NEW T \in SUBSET (1 .. n),
         NEW a \in Int, NEW b \in Int,
         \A x \in 1 .. n : order[x] \in T => x \in a .. b
  PROVE  Cardinality(T) <= Cardinality(a .. b) /\ Cardinality(T) \in Nat
<1>1. /\ order \in [1 .. n -> 1 .. n]
      /\ \A y \in 1 .. n : \E x \in 1 .. n : order[x] = y
  BY DEF Orders
<1> DEFINE f == [y \in T |-> CHOOSE x \in 1 .. n : order[x] = y]
<1>2. \A y \in T : f[y] \in 1 .. n /\ order[f[y]] = y
  BY <1>1
<1>3. f \in [T -> a .. b]
  BY <1>2
<1> HIDE DEF f
<1>4. f \in Injection(T, a .. b)
  BY <1>2, <1>3 DEF Injection, IsInjective
<1>5. IsFiniteSet(a .. b)
  BY FS_Interval
<1> QED
  BY <1>4, <1>5, FS_Injection, FS_CardinalityType

\* The differences of the time stamps are numbers of a word.
LEMMA DurationsAreWords ==
  ASSUME NEW n \in Nat,
         before \in [1 .. n -> 0 .. WordSize - 1],
         after \in [1 .. n -> 0 .. WordSize - 1]
  PROVE  Durations \in [1 .. n -> Nat] /\ Len(Durations) = n
<1>1. Len(before) = n
  <2>1. \A S : \A f \in [1 .. n -> S] : Len(f) = n
    OBVIOUS
  <2> QED
    BY <2>1
<1>2. \A k \in 1 .. n : (after[k] - before[k]) % WordSize \in Nat
  <2> TAKE k \in 1 .. n
  <2>1. after[k] - before[k] \in Int
    BY StatisticsAssumption
  <2>2. (after[k] - before[k]) % WordSize \in 0 .. WordSize - 1
    BY <2>1, StatisticsAssumption, DivMod
  <2> QED
    BY <2>2, StatisticsAssumption
<1>3. Durations = [k \in 1 .. n |-> (after[k] - before[k]) % WordSize]
  BY <1>1 DEF Durations, gen_diff_array, Wrapped
<1>4. Durations \in [1 .. n -> Nat]
  BY <1>2, <1>3
<1>5. Durations \in Seq(Nat) /\ Len(Durations) = n
  BY <1>4
<1> QED
  BY <1>4, <1>5

\* The average that is printed.
LEMMA AverageMisses ==
  ASSUME NEW n \in Nat \ {0}, Durations \in [1 .. n -> Nat], Len(Durations) = n
  PROVE  AverageMissesFirst
<1> DEFINE d == Durations
           S == ExactSum(d)
           R == ExactSum(Tail(d))
<1> HIDE DEF d
<1>1. /\ Tail(d) \in [1 .. n - 1 -> Nat] /\ S = R + d[1]
      /\ S \in Nat /\ R \in Nat /\ d[1] \in Nat
  BY SumOfTail DEF d
<1>2. Total(Tail(d)) = R % WordSize
  <2>1. n - 1 \in Nat
    OBVIOUS
  <2> QED
    BY <1>1, <2>1, TotalIsRemainder
<1> HIDE DEF S, R
<1>3. ASSUME S < WordSize
      PROVE  Total(Tail(d)) = R
  <2>1. R \in 0 .. WordSize - 1
    BY <1>1, <1>3, StatisticsAssumption
  <2> QED
    BY <1>2, <2>1, StatisticsAssumption, ModSmall
<1>4. R \div n \in {((R + d[1]) \div n) - (d[1] \div n) - 1,
                    ((R + d[1]) \div n) - (d[1] \div n)}
  BY <1>1, DivSplit
<1>5. avg_samples_from_arrays(after, before) = Total(Tail(d)) \div n
  BY DEF avg_samples_from_arrays, do_sum_array, Summed, Durations, d
<1> QED
  BY <1>1, <1>3, <1>4, <1>5 DEF AverageMissesFirst, S, d

\* The spread that is printed.
LEMMA SpreadSurvives ==
  ASSUME NEW n \in Nat \ {0}, Durations \in [1 .. n -> Nat], Len(Durations) = n
  PROVE  SpreadSurvivesWrap
<1> DEFINE d == Durations
           avg == ExactSum(d) \div n
           u == [k \in 1 .. n |-> Wrapped(Deviation(d[k], avg) * Deviation(d[k], avg))]
           v == [k \in 1 .. n |-> (d[k] - avg) * (d[k] - avg)]
<1> SUFFICES ASSUME ExactSum(d) < WordSize, ExactSpread(d) < WordSize
             PROVE  SumOfSquares(d) = ExactSpread(d)
  BY DEF SpreadSurvivesWrap
<1>1. WordSize \in Nat \ {0}
  BY StatisticsAssumption
<1>2. ExactSum(d) \in Nat
  BY SumOfTail
<1> HIDE DEF d
<1>3. ExactSum(d) \in 0 .. WordSize - 1
  BY <1>1, <1>2
<1>4. Total(d) = ExactSum(d)
  <2>1. Total(d) = ExactSum(d) % WordSize
    BY TotalIsRemainder DEF d
  <2> QED
    BY <1>1, <1>3, <2>1, ModSmall
<1>5. avg_from_array(d) = avg
  BY <1>4 DEF avg_from_array, d
<1>6. avg \in Int
  BY <1>2, DivMod
<1>7. SumOfSquares(d) = Total(u) /\ ExactSpread(d) = ExactSum(v)
  BY <1>5 DEF SumOfSquares, ExactSpread, d
<1> HIDE DEF avg
<1>8. \A k \in 1 .. n : /\ u[k] \in Nat /\ v[k] \in Nat
                        /\ u[k] % WordSize = v[k] % WordSize
  <2> TAKE k \in 1 .. n
  <2> DEFINE x == d[k] - avg
             y == (x % WordSize) * (x % WordSize)
  <2>1. x \in Int
    BY <1>6 DEF d
  <2>2. u[k] = y % WordSize /\ v[k] = x * x
    BY DEF Wrapped, Deviation
  <2> HIDE DEF x
  <2>3. x % WordSize \in 0 .. WordSize - 1 /\ y \in Int
    <3>1. x % WordSize \in 0 .. WordSize - 1
      BY <1>1, <2>1, DivMod
    <3>2. x % WordSize \in Int
      BY <1>1, <3>1
    <3> QED
      BY <3>1, <3>2
  <2>4. x * x \in Nat
    <3>1. \A i \in Int : i * i \in Nat
      OBVIOUS
    <3> QED
      BY <2>1, <3>1
  <2>5. y % WordSize = (x * x) % WordSize
    BY <1>1, <2>1, ModSquare
  <2> HIDE DEF y
  <2>6. y % WordSize \in 0 .. WordSize - 1
    BY <1>1, <2>3, DivMod
  <2>7. (y % WordSize) % WordSize = y % WordSize
    BY <1>1, <2>6, ModSmall
  <2>8. y % WordSize \in Nat
    BY <1>1, <2>6
  <2> QED
    BY <2>2, <2>4, <2>5, <2>7, <2>8
<1>9. u \in [1 .. n -> Nat] /\ v \in [1 .. n -> Nat]
  BY <1>8
<1> HIDE DEF u, v
<1>10. Total(u) = ExactSum(v) % WordSize
  <2>1. Total(u) = ExactSum(u) % WordSize
    BY <1>9, TotalIsRemainder
  <2>2. \A k \in 1 .. n : u[k] % WordSize = v[k] % WordSize
    BY <1>8
  <2>3. ExactSum(u) % WordSize = ExactSum(v) % WordSize
    BY <1>9, <2>2, SumsCongruent
  <2> QED
    BY <2>1, <2>3
<1>11. ExactSum(v) \in 0 .. WordSize - 1
  <2>1. ExactSum(v) \in Nat
    BY <1>9, SumOfTail
  <2> QED
    BY <1>1, <1>7, <2>1
<1> QED
  BY <1>1, <1>7, <1>10, <1>11, ModSmall

\* The median.
LEMMA MedianIsMiddle ==
  ASSUME NEW n \in Nat \ {0}, Durations \in [1 .. n -> Nat], Len(Durations) = n
  PROVE  MedianInMiddle
<1> DEFINE d == Durations
           h == n \div 2
           med == Sorted(d)[h + 1]
           below == {k \in 1 .. n : d[k] < med}
           above == {k \in 1 .. n : d[k] > med}
<1> HIDE DEF d
<1>1. h \in Nat /\ 2 * h <= n /\ n <= 2 * h + 1 /\ h + 1 \in 1 .. n
  OBVIOUS
<1> HIDE DEF h
<1>2. d \in [1 .. n -> Nat]
  BY DEF d
<1>3. /\ Sorted(d) \in [1 .. n -> Nat]
      /\ \A x, y \in 1 .. n : x <= y => Sorted(d)[x] <= Sorted(d)[y]
      /\ \E order \in Orders(n) : \A x \in 1 .. n : Sorted(d)[x] = d[order[x]]
  BY <1>2, SortedFacts
<1>4. PICK order \in Orders(n) : \A x \in 1 .. n : Sorted(d)[x] = d[order[x]]
  BY <1>3
<1>5. med \in Nat /\ \A x \in 1 .. n : d[order[x]] \in Nat
  BY <1>1, <1>3, <1>4
<1>6. \A x \in 1 .. n : /\ x <= h + 1 => d[order[x]] <= med
                        /\ h + 1 <= x => med <= d[order[x]]
  BY <1>1, <1>3, <1>4
<1> HIDE DEF med
<1>7. Cardinality(below) <= h /\ Cardinality(below) \in Nat
  <2>1. \A x \in 1 .. n : order[x] \in below => x \in 1 .. h
    BY <1>1, <1>5, <1>6
  <2>2. below \in SUBSET (1 .. n)
    OBVIOUS
  <2> HIDE DEF below
  <2>3. /\ Cardinality(below) <= Cardinality(1 .. h)
        /\ Cardinality(below) \in Nat
    BY <1>1, <2>1, <2>2, PlacesBound
  <2>4. Cardinality(1 .. h) = h
    BY <1>1, FS_Interval
  <2> QED
    BY <2>3, <2>4
<1>8. Cardinality(above) <= n - h - 1 /\ Cardinality(above) \in Nat
  <2>1. \A x \in 1 .. n : order[x] \in above => x \in h + 2 .. n
    BY <1>1, <1>5, <1>6
  <2>2. above \in SUBSET (1 .. n)
    OBVIOUS
  <2> HIDE DEF above
  <2>3. /\ Cardinality(above) <= Cardinality(h + 2 .. n)
        /\ Cardinality(above) \in Nat
    BY <1>1, <2>1, <2>2, PlacesBound
  <2>4. Cardinality(h + 2 .. n) = n - h - 1
    <3>1. Cardinality(h + 2 .. n) = IF h + 2 > n THEN 0 ELSE n - (h + 2) + 1
      BY <1>1, FS_Interval
    <3> QED
      BY <1>1, <3>1
  <2> QED
    BY <2>3, <2>4
<1>9. 2 * Cardinality(below) <= n /\ 2 * Cardinality(above) <= n
  <2> HIDE DEF below, above
  <2> QED
    BY <1>1, <1>7, <1>8
<1>10. median_from_array(d) = med
  BY DEF median_from_array, Middle, med, h, d
<1> QED
  BY <1>9, <1>10 DEF MedianInMiddle, d

\* Whatever the time stamps are, and wherever the counter wraps, what is
\* printed is the average but for the first sample, the spread and a median.
THEOREM PrintedIsSound ==
  \A n \in Nat \ {0} :
    /\ before \in [1 .. n -> 0 .. WordSize - 1]
    /\ after \in [1 .. n -> 0 .. WordSize - 1]
    => StatisticsSound
<1> TAKE n \in Nat \ {0}
<1> HAVE /\ before \in [1 .. n -> 0 .. WordSize - 1]
         /\ after \in [1 .. n -> 0 .. WordSize - 1]
<1>1. Durations \in [1 .. n -> Nat] /\ Len(Durations) = n
  BY DurationsAreWords
<1> QED
  BY <1>1, AverageMisses, SpreadSurvives, MedianIsMiddle DEF StatisticsSound
=============================================================================
