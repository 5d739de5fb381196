------------------------------- MODULE HwPlans -------------------------------
(***************************************************************************)
(* The executors (src/src/request_executors.cpp), test harnesses (src/src/ *)
(* test_harness.cpp), runners (src/src/runners.cpp) and main functions of  *)
(* the programs over the DSA and IAA queues, as the plans FiberRuns        *)
(* carries out: each program is a sequence of runs.                        *)
(***************************************************************************)
EXTENDS RequestKinds, Sequences

CONSTANTS
  TotalRequests,  \* total_requests
  Iterations,     \* iter, how often a runner repeats its harness
  SamplesPerRun   \* num_exe_time_samples_per_run

ASSUME HwPlansAssumption ==
  /\ TotalRequests \in Nat \ {0}
  /\ Iterations \in Nat \ {0}
  /\ SamplesPerRun \in Nat \ {0}
  /\ Records = 0 .. TotalRequests - 1  \* request i submits comps[i]

(***************************************************************************)
(* Executors.                                                              *)
(*   Overlapping: while requests are left, resume the oldest request in    *)
(*     flight when its record passes the test, else start one more.        *)
(*   Sequential: start the next request when control comes back.           *)
(*   OneInFlight: start a request, run fillers or pause until its record   *)
(*     is completed, resume it.                                            *)
(* done_when names the counter that ends the loop; fillers is "none", "one"*)
(* for the run or "each" request its own.                                  *)
(***************************************************************************)
Overlapping(test, done_when, stamps) ==
  [schedule |-> "overlapping", test |-> test, done_when |-> done_when,
   stamps |-> stamps, fillers |-> "none"]

Sequential(done_when) ==
  [schedule |-> "sequential", test |-> "none", done_when |-> done_when,
   stamps |-> FALSE, fillers |-> "none"]

OneInFlight(fillers) ==
  [schedule |-> "one in flight", test |-> "completed",
   done_when |-> "requests_completed", stamps |-> FALSE, fillers |-> fillers]

execute_yielding_three_phase_request_throughput ==
  Overlapping("answered", "next_to_complete", FALSE)
execute_three_phase_blocking_requests_closed_system_throughput ==
  Sequential("next_unstarted")
execute_three_phase_blocking_requests_closed_system_request_breakdown ==
  Sequential("next_unstarted")
Mut_TestCompleted == Overlapping("completed", "next_to_complete", FALSE)
execute_three_phase_yielding_requests_closed_system_request_breakdown ==
  Overlapping("answered", "next_to_complete", FALSE)

execute_yielding_requests_closed_system_with_sampling ==
  Overlapping("completed", "requests_completed", TRUE)
execute_yielding_requests_best_case == OneInFlight("none")
execute_yielding_requests_multiple_filler_requests == OneInFlight("each")
execute_yielding_requests_interleaved == OneInFlight("one")

execute_blocking_requests_closed_system_with_sampling ==
  Sequential("requests_completed")
execute_blocking_requests_closed_system_request_breakdown ==
  Sequential("requests_completed")
execute_gpcore_requests_closed_system_request_breakdown ==
  Sequential("requests_completed")
execute_gpcore_requests_closed_system_with_sampling ==
  Sequential("requests_completed")

-----------------------------------------------------------------------------
(***************************************************************************)
(* Harnesses: the executor, whether requests_completed is reset, whether   *)
(* completion records are allocated, and the number of requests between    *)
(* two time stamps, by which total_requests is divided.                    *)
(***************************************************************************)
Harness(executor, resets, records, interval) ==
  [executor |-> executor, resets |-> resets, records |-> records,
   interval |-> interval]

three_phase_offload_timed_breakdown(executor) ==
  Harness(executor, FALSE, TRUE, TotalRequests)

blocking_ax_request_breakdown ==
  Harness(execute_blocking_requests_closed_system_request_breakdown,
          TRUE, TRUE, TotalRequests)
gpcore_closed_loop_test(interval) ==
  Harness(execute_gpcore_requests_closed_system_with_sampling,
          TRUE, FALSE, interval)
gpcore_request_breakdown ==
  Harness(execute_gpcore_requests_closed_system_request_breakdown,
          TRUE, FALSE, TotalRequests)
yielding_best_case_request_breakdown ==
  Harness(execute_yielding_requests_best_case, TRUE, TRUE, TotalRequests)
yielding_multiple_filler_request_breakdown ==
  Harness(execute_yielding_requests_multiple_filler_requests,
          TRUE, TRUE, TotalRequests)
Mut_NoReset ==
  Harness(execute_yielding_requests_interleaved, FALSE, TRUE, TotalRequests)
yielding_same_interleaved_request_breakdown ==
  Harness(execute_yielding_requests_interleaved, TRUE, TRUE, TotalRequests)
yielding_request_offered_load(interval) ==
  Harness(execute_yielding_requests_closed_system_with_sampling,
          TRUE, TRUE, interval)
blocking_request_offered_load(interval) ==
  Harness(execute_blocking_requests_closed_system_with_sampling,
          TRUE, TRUE, interval)

-----------------------------------------------------------------------------
(***************************************************************************)
(* Runners: a harness repeated Iterations times with the same functions.   *)
(* Iteration i stores its results from slot i * slots on.                  *)
(***************************************************************************)
Runs(harness, request, filler, alloc, free, slots) ==
  [kind |-> "runs", harness |-> harness, request |-> request,
   filler |-> filler, alloc |-> alloc, free |-> free, slots |-> slots]

run_three_phase_offload_timed(executor, fn, alloc, free) ==
  Runs(three_phase_offload_timed_breakdown(executor), fn, {}, alloc, free, 1)

run_gpcore_request_brkdown(fn, alloc, free) ==
  Runs(gpcore_request_breakdown, fn, {}, alloc, free, 1)
run_blocking_offload_request_brkdown(fn, alloc, free) ==
  Runs(blocking_ax_request_breakdown, fn, {}, alloc, free, 1)
run_yielding_best_case_request_brkdown(fn, alloc, free) ==
  Runs(yielding_best_case_request_breakdown, fn, {}, alloc, free, 1)
run_yielding_interleaved_request_brkdown(fn, filler, alloc, free) ==
  Runs(yielding_same_interleaved_request_breakdown, fn, filler, alloc, free, 1)
run_yielding_multiple_filler_request_brkdown(fn, filler, alloc, free) ==
  Runs(yielding_multiple_filler_request_breakdown, fn, filler, alloc, free, 1)

run_gpcore_offeredLoad(fn, alloc, free) ==
  Runs(gpcore_closed_loop_test(TotalRequests), fn, {}, alloc, free, 1)
run_blocking_offered_load(fn, alloc, free) ==
  Runs(blocking_request_offered_load(TotalRequests), fn, {}, alloc, free, 1)

Mut_TimeStamps == TotalRequests \div (SamplesPerRun + 1)
num_requests_before_stamp == TotalRequests \div SamplesPerRun

run_yielding_offered_load(fn, alloc, free) ==
  Runs(yielding_request_offered_load(num_requests_before_stamp), fn, {},
       alloc, free, SamplesPerRun)

\* A buffer the program itself sets up between two runs.
Populates(buffer) == [kind |-> "populates", buffer |-> buffer]

-----------------------------------------------------------------------------
(***************************************************************************)
(* Programs, with their default options.                                   *)
(***************************************************************************)
DecompAndHashLatency ==
  LET alloc == alloc_decomp_and_hash_offload_args_stamped
      free == free_decomp_and_hash_offload_args_stamped
      request == yielding_decompress_and_hash_request_stamped
  IN
  <<run_gpcore_request_brkdown(cpu_decompress_and_hash_stamped,
      compressed_mc_req_allocator, compressed_mc_req_free),
    run_blocking_offload_request_brkdown(
      blocking_decompress_and_hash_request_stamped, alloc, free),
    run_yielding_interleaved_request_brkdown(
      request, hash_interleaved, alloc, free),
    run_yielding_interleaved_request_brkdown(
      request, antagonist_interleaved, alloc, free)>>

DecompAndHashThroughput ==
  LET alloc == alloc_decomp_and_hash_offload_args
      free == free_decomp_and_hash_offload_args
  IN
  <<run_gpcore_offeredLoad(cpu_decompress_and_hash,
      compressed_mc_req_allocator, compressed_mc_req_free),
    run_blocking_offered_load(
      blocking_decompress_and_hash_request, alloc, free),
    run_yielding_offered_load(
      yielding_decompress_and_hash_request, alloc, free)>>

DecompAndHash == DecompAndHashLatency \o DecompAndHashThroughput

\* One of the three runs, chosen by an option (-r).
DecompAndHashMultiThreaded ==
  {SubSeq(DecompAndHashThroughput, i, i) : i \in 1 .. 3}

\* glob_dst_buf is for the filler.
DecompAndScatterLatency ==
  LET alloc == alloc_offload_decomp_and_scatter_args_timed
      free == free_offload_decomp_and_scatter_args_timed
      request == yielding_decomp_and_scatter_stamped
  IN
  <<run_gpcore_request_brkdown(cpu_decomp_and_scatter_stamped,
      cpu_compressed_payload_allocator, free_cpu_compressed_payloads),
    run_blocking_offload_request_brkdown(
      blocking_decomp_and_scatter_request_stamped, alloc, free),
    Populates("glob_dst_buf"),
    run_yielding_interleaved_request_brkdown(
      request, scatter_interleaved, alloc, free),
    run_yielding_interleaved_request_brkdown(
      request, antagonist_interleaved, alloc, free)>>

DecompAndScatterThroughput ==
  LET alloc == alloc_offload_decomp_and_scatter_args
      free == free_offload_decomp_and_scatter_args
  IN
  <<run_gpcore_offeredLoad(cpu_decomp_and_scatter,
      cpu_compressed_payload_allocator, free_cpu_compressed_payloads),
    run_blocking_offered_load(
      blocking_decomp_and_scatter_request, alloc, free),
    run_yielding_offered_load(yielding_decomp_and_scatter, alloc, free)>>

DecompAndScatter == DecompAndScatterLatency \o DecompAndScatterThroughput

Mlp ==
  LET alloc_timed == alloc_offload_memcpy_and_compute_args_timed
      free_timed == free_offload_memcpy_and_compute_args_timed
      request == yielding_memcpy_and_compute_stamped
      alloc == alloc_offload_memcpy_and_compute_args
      free == free_offload_memcpy_and_compute_args
  IN
  <<run_gpcore_request_brkdown(cpu_memcpy_and_compute_stamped,
      alloc_cpu_memcpy_and_compute_args, free_cpu_memcpy_and_compute_args),
    run_blocking_offload_request_brkdown(
      blocking_memcpy_and_compute_stamped, alloc_timed, free_timed),
    run_yielding_interleaved_request_brkdown(
      request, dotproduct_interleaved, alloc_timed, free_timed),
    run_yielding_interleaved_request_brkdown(
      request, antagonist_interleaved, alloc_timed, free_timed),
    Populates("user_filler_buf"),
    run_gpcore_offeredLoad(cpu_memcpy_and_compute,
      alloc_cpu_memcpy_and_compute_args, free_cpu_memcpy_and_compute_args),
    run_blocking_offered_load(blocking_memcpy_and_compute, alloc, free),
    run_yielding_offered_load(yielding_memcpy_and_compute, alloc, free)>>

MemfillAndGather ==
  LET alloc == alloc_offload_memfill_and_gather_args
      free == free_offload_memfill_and_gather_args
  IN
  <<run_gpcore_request_brkdown(cpu_memfill_and_gather_stamped,
      alloc_cpu_memfill_and_gather_args, free_cpu_memfill_and_gather_args),
    run_blocking_offload_request_brkdown(blocking_memfill_and_gather_stamped,
      alloc_offload_memfill_and_gather_args_timed,
      free_offload_memfill_and_gather_args_timed),
    run_gpcore_offeredLoad(cpu_memfill_and_gather,
      alloc_cpu_memfill_and_gather_args, free_cpu_memfill_and_gather_args),
    run_blocking_offered_load(blocking_memfill_and_gather, alloc, free),
    run_yielding_offered_load(yielding_memfill_and_gather, alloc, free)>>

ThreePhase ==
  LET breakdown(blocking, yielding, alloc, free) ==
        <<run_blocking_offload_request_brkdown(blocking, alloc, free),
          run_yielding_interleaved_request_brkdown(
            yielding, hash_interleaved, alloc, free),
          run_yielding_interleaved_request_brkdown(
            yielding, antagonist_interleaved, alloc, free)>>
  IN
  breakdown(blocking_offload_and_serial_access_stamped,
            yielding_offload_and_serial_access_stamped,
            alloc_offload_serialized_access_args,
            free_offload_serialized_access_args)
  \o
  breakdown(blocking_offload_and_linear_access_stamped,
            yielding_offload_and_linear_access_stamped,
            alloc_offload_linear_access_args,
            free_offload_linear_access_args)

Traverse ==
  LET alloc == alloc_offload_traverse_and_offload_args
      free == free_offload_traverse_and_offload_args
      request == yielding_traverse_and_offload_stamped
  IN
  <<run_blocking_offload_request_brkdown(
      blocking_traverse_and_offload_stamped, alloc, free),
    run_yielding_interleaved_request_brkdown(
      request, lltraverse_interleaved, alloc, free),
    run_yielding_multiple_filler_request_brkdown(
      request, lltraverse_interleaved, alloc, free),
    run_yielding_interleaved_request_brkdown(
      request, antagonist_interleaved, alloc, free),
    run_yielding_multiple_filler_request_brkdown(
      request, antagonist_interleaved, alloc, free)>>

-----------------------------------------------------------------------------
(***************************************************************************)
(* src/three_phase_composable.cpp: the application chosen by an option     *)
(* (-k) picks the request functions, the allocator and the free function.  *)
(***************************************************************************)
blocking_breakdown(fn, alloc, free) ==
  run_three_phase_offload_timed(
    execute_three_phase_blocking_requests_closed_system_request_breakdown,
    fn, alloc, free)

blocking_throughput(fn, alloc, free) ==
  run_three_phase_offload_timed(
    execute_three_phase_blocking_requests_closed_system_throughput,
    fn, alloc, free)

yielding_runs(breakdown_fn, throughput_fn, alloc, free) ==
  <<run_three_phase_offload_timed(
      execute_three_phase_yielding_requests_closed_system_request_breakdown,
      breakdown_fn, alloc, free),
    run_three_phase_offload_timed(
      execute_yielding_three_phase_request_throughput,
      throughput_fn, alloc, free)>>

Deser ==
  LET alloc == three_func_allocator
      free == free_three_phase_stamped_args
  IN
  <<blocking_breakdown(deser_decomp_hash_gpcore_stamped, alloc, free),
    blocking_throughput(deser_decomp_hash_gpcore, alloc, free),
    blocking_breakdown(deser_decomp_hash_blocking_stamped, alloc, free),
    blocking_throughput(deser_decomp_hash_blocking, alloc, free)>>
  \o yielding_runs(deser_decomp_hash_yielding_stamped,
                   deser_decomp_hash_yielding, alloc, free)

Gather ==
  LET alloc == null_two_func_allocator
      free == free_null_two_phase
  IN
  <<Populates("glob_indir_arr"),
    blocking_breakdown(decomp_gather_gpcore_stamped, alloc, free),
    blocking_throughput(decomp_gather_gpcore, alloc, free),
    blocking_breakdown(decomp_gather_blocking_stamped, alloc, free),
    blocking_throughput(decomp_gather_blocking, alloc, free)>>
  \o yielding_runs(decomp_gather_yielding_stamped, decomp_gather_yielding,
                   alloc, free)

AxAx ==
  <<blocking_breakdown(memcpy_decomp_axcore_axcore_stamped,
      axcore_axcore_allocator, free_axcore_axcore)>>
AxAxComp ==
  <<blocking_breakdown(memcpy_comp_axcore_axcore_stamped,
      axcore_axcore_compress_aecs_allocator,
      free_axcore_axcore_compress_aecs)>>
GpAx ==
  <<blocking_breakdown(memcpy_decomp_gpcore_axcore_stamped,
      three_func_allocator, free_three_phase_stamped_args)>>
GpAxComp ==
  <<blocking_breakdown(memcpy_comp_gpcore_axcore_stamped,
      memcpy_comp_gpcore_axcore_null_allocator,
      free_three_phase_stamped_args)>>
AxGp ==
  <<blocking_breakdown(memcpy_decomp_axcore_gpcore_stamped,
      null_two_func_allocator, free_null_two_phase)>>
GpGp ==
  <<blocking_breakdown(memcpy_decomp_gpcore_gpcore_stamped,
      null_two_func_allocator, free_null_two_phase)>>

Composable == {Deser, Gather, AxAx, AxAxComp, GpAx, GpAxComp, AxGp, GpGp}
=============================================================================
