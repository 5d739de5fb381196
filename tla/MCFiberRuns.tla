----------------------------- MODULE MCFiberRuns -----------------------------
(* FiberRuns on small instances: how many requests, and which programs. *)
EXTENDS FiberRuns

const_Records == 0 .. TotalRequests - 1

\* The runner that inc/runners.h offers and no program uses yet.
BestCase ==
  <<run_yielding_best_case_request_brkdown(
      yielding_decompress_and_hash_request_stamped,
      alloc_decomp_and_hash_offload_args_stamped,
      free_decomp_and_hash_offload_args_stamped)>>

WithoutMlp ==
  Composable \cup DecompAndHashMultiThreaded
  \cup {DecompAndHash, DecompAndScatter, MemfillAndGather, ThreePhase,
        Traverse, BestCase}

JustMlp == {Mlp}
Throughputs == {DecompAndHashThroughput}
=============================================================================
