----------------------------- MODULE MCDataPaths -----------------------------
(* The data algorithms of the requests on small instances.  They share no    *)
(* state: a behaviour is one of one of them, the others stay as they are.     *)
EXTENDS FurcHash, PostingLists, PointerChain, GatherScatter, Statistics

VARIABLE part

\* Indices of the key's stream that can be read with FURC_SHIFT = 3 and two
\* tries.
const_Keys == SUBSET {1, 2, 3, 5, 6, 8, 9, 11, 12, 15, 18}

\* The inputs of a part, or one value to keep when it is not its turn.
For(name, inputs) ==
  IF part = name THEN inputs ELSE {CHOOSE x \in inputs : TRUE}

Arrays(values) == UNION {[1 .. n -> values] : n \in 1 .. 3}

MCInit ==
  /\ part \in {"hash", "lists", "chain", "scatter", "statistics"}
  /\ FurcInit(For("hash", Keys))
  /\ ListInit(For("lists", Lengths), For("lists", {"llc", "host"}))
  /\ ChainInit(For("chain", {"memory", "dst"}))
  /\ ScatterInit(For("scatter", [Accesses0 -> Entries]),
                 For("scatter", (0 .. num_ents) \X (0 .. num_ents)),
                 For("scatter", FilledBuffers))
  /\ StatInit(For("statistics", Arrays({0, WordSize - 4})),
              For("statistics", Arrays({0, 1, 2, 5, 7})))

MCNext ==
  /\ UNCHANGED <<part, stat_vars>>
  /\ \/ /\ part = "hash" /\ FurcNext
        /\ UNCHANGED <<list_vars, chain_vars, scatter_vars>>
     \/ /\ part = "lists" /\ ListNext
        /\ UNCHANGED <<furc_vars, chain_vars, scatter_vars>>
     \/ /\ part = "chain" /\ ChainNext
        /\ UNCHANGED <<furc_vars, list_vars, scatter_vars>>
     \/ /\ part = "scatter" /\ ScatterNext
        /\ UNCHANGED <<furc_vars, list_vars, chain_vars>>

mc_vars ==
  <<part, furc_vars, list_vars, chain_vars, scatter_vars, stat_vars>>

MCSpec == MCInit /\ [][MCNext]_mc_vars /\ WF_mc_vars(MCNext)

\* Every algorithm comes to its end: the retries of the DSA, the tries and the
\* shrinking result of the hash, the cursors of the lists and the chase.
PartsEnd ==
  <>CASE part = "hash" -> FurcEnds
      [] part = "lists" -> ListsEnd
      [] part = "chain" -> ChainEnds
      [] part = "scatter" -> ScatterEnds
      [] OTHER -> TRUE
=============================================================================
