---------------------------- MODULE HwPlansProofs ----------------------------
(***************************************************************************)
(* How the programs of HwPlans pair executors and requests: what the       *)
(* theorems of FiberRunsProofs assume of a program, and that every program *)
(* of the repository is one.                                               *)
(***************************************************************************)
EXTENDS HwPlans, TLAPS

(***************************************************************************)
(* What the runs of a plan have to be.  A request that yields has one      *)
(* stage, is run by an executor that resumes it, and by one that resumes    *)
(* several requests only with fresh completion records; one that spins is   *)
(* run sequentially.  The counter that ends the loop is one that advances, *)
(* and a counter that advances was reset.                                   *)
(***************************************************************************)
StageKinds == {Decompress, Compress, Memcpy, Memfill}

\* An interval between two time stamps is zero only if a run is to have more
\* samples than requests.
IntervalFits(n) == n \in Nat /\ (n = 0 => TotalRequests < SamplesPerRun)

Fits(x) ==
  LET e == x.harness.executor
      r == x.request
  IN
  /\ x.kind = "runs"
  /\ IntervalFits(x.harness.interval)
  /\ x.slots \in Nat
  /\ r.stages \in Seq(StageKinds) /\ Len(r.stages) <= 2
  /\ r.counts => x.harness.resets
  /\ e.done_when = "requests_completed" => r.counts
  /\ e.stamps => e.schedule = "overlapping" /\ r.counts
  /\ r.yields => Len(r.stages) = 1
  /\ \/ /\ e.schedule = "overlapping" /\ r.yields /\ x.harness.records
        /\ e.done_when \in {"requests_completed", "next_to_complete"}
     \/ /\ e.schedule = "sequential" /\ ~r.yields
        /\ e.done_when \in {"requests_completed", "next_unstarted"}
     \/ /\ e.schedule = "one in flight" /\ r.yields
        /\ e.done_when = "requests_completed"
        /\ e.fillers \in {"none", "one", "each"}

FitsOrPopulates(x) == x.kind = "populates" \/ Fits(x)

Fitting(p) ==
  /\ \E S : p \in Seq(S)
  /\ \A k \in 1 .. Len(p) : FitsOrPopulates(p[k])

\* A sequence of runs fits if each of them does.
LEMMA OfFitting ==
  ASSUME NEW S, \A x \in S : FitsOrPopulates(x)
  PROVE  \A p \in Seq(S) : Fitting(p)
<1> TAKE p \in Seq(S)
<1>1. \A k \in 1 .. Len(p) : p[k] \in S
  OBVIOUS
<1> QED
  BY <1>1 DEF Fitting

\* What makes a run fit, of its harness, its request and its slots.
RunFitsOf(h, r) ==
  LET e == h.executor IN
  /\ IntervalFits(h.interval)
  /\ r.stages \in Seq(StageKinds) /\ Len(r.stages) <= 2
  /\ r.counts => h.resets
  /\ e.done_when = "requests_completed" => r.counts
  /\ e.stamps => e.schedule = "overlapping" /\ r.counts
  /\ r.yields => Len(r.stages) = 1
  /\ \/ /\ e.schedule = "overlapping" /\ r.yields /\ h.records
        /\ e.done_when \in {"requests_completed", "next_to_complete"}
     \/ /\ e.schedule = "sequential" /\ ~r.yields
        /\ e.done_when \in {"requests_completed", "next_unstarted"}
     \/ /\ e.schedule = "one in flight" /\ r.yields
        /\ e.done_when = "requests_completed"
        /\ e.fillers \in {"none", "one", "each"}

\* A run of such a harness and such a request fits.
LEMMA RunsFit ==
  \A h, r, fl, a, f : \A n \in Nat :
    RunFitsOf(h, r) => Fits(Runs(h, r, fl, a, f, n))
<1> TAKE h, r, fl, a, f
<1> TAKE n \in Nat
<1> HAVE RunFitsOf(h, r)
<1> DEFINE x == Runs(h, r, fl, a, f, n)
<1>1. x.kind = "runs" /\ x.harness = h /\ x.request = r /\ x.slots = n
  BY DEF Runs
<1> HIDE DEF x
<1>2. Fits(x)
  BY <1>1 DEF Fits, RunFitsOf
<1> QED
  BY <1>2 DEF x

\* The stages of the request kinds are sequences of at most two stages.
LEMMA StageSequences ==
  /\ <<>> \in Seq(StageKinds) /\ Len(<<>>) = 0
  /\ \A s \in StageKinds : <<s>> \in Seq(StageKinds) /\ Len(<<s>>) = 1
  /\ \A s, t \in StageKinds :
       <<s, t>> \in Seq(StageKinds) /\ Len(<<s, t>>) = 2
OBVIOUS

\* Bounds on the number of stages.
LEMMA OneOfTwo == \A n : n \in {0, 1, 2} => n <= 2
OBVIOUS

\* The harnesses for requests on the core,
LEMMA CoreRunsFit ==
  \A uses, a, f :
    /\ Fits(run_gpcore_request_brkdown(OnCore(uses), a, f))
    /\ Fits(run_gpcore_offeredLoad(OnCore(uses), a, f))
<1> TAKE uses, a, f
<1>1. RunFitsOf(gpcore_request_breakdown, OnCore(uses))
  BY StageSequences, OneOfTwo, HwPlansAssumption
     DEF RunFitsOf, IntervalFits, OnCore, gpcore_request_breakdown, Harness, Sequential,
         execute_gpcore_requests_closed_system_request_breakdown
<1>2. RunFitsOf(gpcore_closed_loop_test(TotalRequests), OnCore(uses))
  BY StageSequences, OneOfTwo, HwPlansAssumption
     DEF RunFitsOf, IntervalFits, OnCore, gpcore_closed_loop_test, Harness, Sequential,
         execute_gpcore_requests_closed_system_with_sampling
<1> QED
  BY <1>1, <1>2, RunsFit
     DEF run_gpcore_request_brkdown, run_gpcore_offeredLoad

\* for requests that spin,
LEMMA BlockingRunsFit ==
  \A s \in StageKinds : \A how, uses, a, f :
    /\ Fits(run_blocking_offload_request_brkdown(Blocking(s, how, uses), a, f))
    /\ Fits(run_blocking_offered_load(Blocking(s, how, uses), a, f))
<1> TAKE s \in StageKinds
<1> TAKE how, uses, a, f
<1>1. RunFitsOf(blocking_ax_request_breakdown, Blocking(s, how, uses))
  BY StageSequences, OneOfTwo, HwPlansAssumption
     DEF RunFitsOf, IntervalFits, Blocking, blocking_ax_request_breakdown, Harness,
         Sequential,
         execute_blocking_requests_closed_system_request_breakdown
<1>2. RunFitsOf(blocking_request_offered_load(TotalRequests),
                Blocking(s, how, uses))
  BY StageSequences, OneOfTwo, HwPlansAssumption
     DEF RunFitsOf, IntervalFits, Blocking, blocking_request_offered_load, Harness,
         Sequential,
         execute_blocking_requests_closed_system_with_sampling
<1> QED
  BY <1>1, <1>2, RunsFit
     DEF run_blocking_offload_request_brkdown, run_blocking_offered_load

\* and for requests that yield.
LEMMA YieldingRunsFit ==
  \A s \in StageKinds : \A how, uses, fl, a, f :
    /\ Fits(run_yielding_best_case_request_brkdown(
              Yielding(s, how, uses), a, f))
    /\ Fits(run_yielding_interleaved_request_brkdown(
              Yielding(s, how, uses), fl, a, f))
    /\ Fits(run_yielding_multiple_filler_request_brkdown(
              Yielding(s, how, uses), fl, a, f))
    /\ Fits(run_yielding_offered_load(Yielding(s, how, uses), a, f))
<1> TAKE s \in StageKinds
<1> TAKE how, uses, fl, a, f
<1>1. /\ num_requests_before_stamp \in Nat
      /\ IntervalFits(num_requests_before_stamp)
  <2>1. \A n, k \in Nat \ {0} :
          n \div k \in Nat /\ (n \div k = 0 => n < k)
    OBVIOUS
  <2> QED
    BY <2>1, HwPlansAssumption DEF num_requests_before_stamp, IntervalFits
<1> DEFINE r == Yielding(s, how, uses)
<1>2. /\ r.stages \in Seq(StageKinds) /\ Len(r.stages) = 1
      /\ Len(r.stages) <= 2
      /\ r.yields /\ r.counts
  BY StageSequences, OneOfTwo DEF Yielding, Blocking
<1> HIDE DEF r
<1>3. RunFitsOf(yielding_best_case_request_breakdown, r)
  BY <1>2, HwPlansAssumption
     DEF RunFitsOf, IntervalFits, yielding_best_case_request_breakdown, Harness, OneInFlight,
         execute_yielding_requests_best_case
<1>4. RunFitsOf(yielding_same_interleaved_request_breakdown, r)
  BY <1>2, HwPlansAssumption
     DEF RunFitsOf, IntervalFits, yielding_same_interleaved_request_breakdown, Harness,
         OneInFlight, execute_yielding_requests_interleaved
<1>5. RunFitsOf(yielding_multiple_filler_request_breakdown, r)
  BY <1>2, HwPlansAssumption
     DEF RunFitsOf, IntervalFits, yielding_multiple_filler_request_breakdown, Harness,
         OneInFlight, execute_yielding_requests_multiple_filler_requests
<1>6. RunFitsOf(yielding_request_offered_load(num_requests_before_stamp), r)
  BY <1>1, <1>2
     DEF RunFitsOf, yielding_request_offered_load, Harness, Overlapping,
         execute_yielding_requests_closed_system_with_sampling
<1> QED
  BY <1>3, <1>4, <1>5, <1>6, RunsFit, HwPlansAssumption
     DEF r, run_yielding_best_case_request_brkdown,
         run_yielding_interleaved_request_brkdown,
         run_yielding_multiple_filler_request_brkdown,
         run_yielding_offered_load

\* The harness of the three-phase requests, with requests that spin
LEMMA BlockingPhasesFit ==
  \A st \in Seq(StageKinds) : \A uses, a, f :
    Len(st) <= 2 =>
      /\ Fits(blocking_breakdown(Phases(st, FALSE, uses), a, f))
      /\ Fits(blocking_throughput(Phases(st, FALSE, uses), a, f))
<1> TAKE st \in Seq(StageKinds)
<1> TAKE uses, a, f
<1> HAVE Len(st) <= 2
<1> DEFINE Three(e) == three_phase_offload_timed_breakdown(e)
<1>1. RunFitsOf(
      Three(execute_three_phase_blocking_requests_closed_system_request_breakdown),
      Phases(st, FALSE, uses))
  BY HwPlansAssumption
     DEF RunFitsOf, IntervalFits, Phases, three_phase_offload_timed_breakdown, Harness,
         Sequential,
         execute_three_phase_blocking_requests_closed_system_request_breakdown
<1>2. RunFitsOf(
      Three(execute_three_phase_blocking_requests_closed_system_throughput),
      Phases(st, FALSE, uses))
  BY HwPlansAssumption
     DEF RunFitsOf, IntervalFits, Phases, three_phase_offload_timed_breakdown, Harness,
         Sequential,
         execute_three_phase_blocking_requests_closed_system_throughput
<1> QED
  BY <1>1, <1>2, RunsFit
     DEF blocking_breakdown, blocking_throughput, run_three_phase_offload_timed

\* and with requests that yield.
LEMMA YieldingPhasesFit ==
  \A s \in StageKinds : \A uses, a, f :
    LET r == Phases(<<s>>, TRUE, uses) IN
    Fitting(yielding_runs(r, r, a, f))
<1> TAKE s \in StageKinds
<1> TAKE uses, a, f
<1> DEFINE r == Phases(<<s>>, TRUE, uses)
<1>0. /\ r.stages \in Seq(StageKinds) /\ Len(r.stages) = 1
      /\ Len(r.stages) <= 2
      /\ r.yields /\ ~r.counts
  BY StageSequences, OneOfTwo DEF Phases
<1> HIDE DEF r
<1> DEFINE Three(e) == three_phase_offload_timed_breakdown(e)
<1>1. RunFitsOf(
      Three(execute_three_phase_yielding_requests_closed_system_request_breakdown),
      r)
  BY <1>0, HwPlansAssumption
     DEF RunFitsOf, IntervalFits, three_phase_offload_timed_breakdown, Harness,
         Overlapping,
         execute_three_phase_yielding_requests_closed_system_request_breakdown
<1>2. RunFitsOf(Three(execute_yielding_three_phase_request_throughput), r)
  BY <1>0, HwPlansAssumption
     DEF RunFitsOf, IntervalFits, three_phase_offload_timed_breakdown, Harness,
         Overlapping, execute_yielding_three_phase_request_throughput
<1> DEFINE x == run_three_phase_offload_timed(
      execute_three_phase_yielding_requests_closed_system_request_breakdown,
      r, a, f)
    y == run_three_phase_offload_timed(
      execute_yielding_three_phase_request_throughput, r, a, f)
<1>3. Fits(x) /\ Fits(y)
  BY <1>1, <1>2, RunsFit DEF run_three_phase_offload_timed
<1> HIDE DEF x, y
<1>4. <<x, y>> \in Seq({x, y})
  OBVIOUS
<1>5. Fitting(<<x, y>>)
  BY <1>3, <1>4, OfFitting DEF FitsOrPopulates
<1> QED
  BY <1>5 DEF yielding_runs, x, y, r

\* A program of two parts.
LEMMA Concat ==
  ASSUME NEW p, NEW q, Fitting(p), Fitting(q)
  PROVE  Fitting(p \o q)
<1>1. PICK S : p \in Seq(S)
  BY DEF Fitting
<1>2. PICK T : q \in Seq(T)
  BY DEF Fitting
<1>3. p \in Seq(S \cup T) /\ q \in Seq(S \cup T)
  BY <1>1, <1>2
<1>4. /\ Len(p \o q) = Len(p) + Len(q) /\ Len(p) \in Nat /\ Len(q) \in Nat
      /\ p \o q \in Seq(S \cup T)
  BY <1>3
<1>5. \A k \in 1 .. Len(p) + Len(q) :
        \/ k \in 1 .. Len(p) /\ (p \o q)[k] = p[k]
        \/ (k - Len(p)) \in 1 .. Len(q) /\ (p \o q)[k] = q[k - Len(p)]
  BY <1>3
<1> QED
  BY <1>4, <1>5 DEF Fitting


-----------------------------------------------------------------------------
(***************************************************************************)
(* The programs.                                                           *)
(***************************************************************************)
\* The programs of the repository.
Programs ==
  Composable \cup DecompAndHashMultiThreaded
  \cup {DecompAndHash, DecompAndScatter, Mlp, MemfillAndGather, ThreePhase,
        Traverse}

\* The descriptors the programs prepare.
LEMMA Kinds ==
  /\ Decompress \in StageKinds /\ Compress \in StageKinds
  /\ Memcpy \in StageKinds /\ Memfill \in StageKinds
BY DEF StageKinds

\* Each of them is a sequence of runs that fit.
LEMMA FitsDecompAndHashLatency == Fitting(DecompAndHashLatency)
<1>1. \A k \in 1 .. 4 : FitsOrPopulates(DecompAndHashLatency[k])
  BY BlockingRunsFit, CoreRunsFit, YieldingRunsFit, Kinds
     DEF DecompAndHashLatency, FitsOrPopulates,
         cpu_decompress_and_hash_stamped,
         blocking_decompress_and_hash_request_stamped,
         yielding_decompress_and_hash_request_stamped
<1>2. DecompAndHashLatency \in Seq({DecompAndHashLatency[k] : k \in 1 .. 4})
  BY DEF DecompAndHashLatency
<1> QED
  BY <1>1, <1>2, OfFitting

\* The throughput runs of the same program.
LEMMA FitsDecompAndHashThroughput == Fitting(DecompAndHashThroughput)
<1>1. \A k \in 1 .. 3 : FitsOrPopulates(DecompAndHashThroughput[k])
  BY BlockingRunsFit, CoreRunsFit, YieldingRunsFit, Kinds
     DEF DecompAndHashThroughput, FitsOrPopulates,
         cpu_decompress_and_hash,
         blocking_decompress_and_hash_request,
         yielding_decompress_and_hash_request
<1>2. DecompAndHashThroughput
        \in Seq({DecompAndHashThroughput[k] : k \in 1 .. 3})
  BY DEF DecompAndHashThroughput
<1> QED
  BY <1>1, <1>2, OfFitting

\* The latency runs of decompress_and_scatter.
LEMMA FitsDecompAndScatterLatency == Fitting(DecompAndScatterLatency)
<1>1. \A k \in 1 .. 5 : FitsOrPopulates(DecompAndScatterLatency[k])
  BY BlockingRunsFit, CoreRunsFit, YieldingRunsFit, Kinds
     DEF DecompAndScatterLatency, FitsOrPopulates,
         cpu_decomp_and_scatter_stamped,
         blocking_decomp_and_scatter_request_stamped,
         yielding_decomp_and_scatter_stamped, Populates
<1>2. DecompAndScatterLatency
        \in Seq({DecompAndScatterLatency[k] : k \in 1 .. 5})
  BY DEF DecompAndScatterLatency
<1> QED
  BY <1>1, <1>2, OfFitting

\* The throughput runs of decompress_and_scatter.
LEMMA FitsDecompAndScatterThroughput == Fitting(DecompAndScatterThroughput)
<1>1. \A k \in 1 .. 3 : FitsOrPopulates(DecompAndScatterThroughput[k])
  BY BlockingRunsFit, CoreRunsFit, YieldingRunsFit, Kinds
     DEF DecompAndScatterThroughput, FitsOrPopulates,
         cpu_decomp_and_scatter,
         blocking_decomp_and_scatter_request, yielding_decomp_and_scatter
<1>2. DecompAndScatterThroughput
        \in Seq({DecompAndScatterThroughput[k] : k \in 1 .. 3})
  BY DEF DecompAndScatterThroughput
<1> QED
  BY <1>1, <1>2, OfFitting

\* The memcpy and dot product program.
LEMMA FitsMlp == Fitting(Mlp)
<1>1. \A k \in 1 .. 8 : FitsOrPopulates(Mlp[k])
  BY BlockingRunsFit, CoreRunsFit, YieldingRunsFit, Kinds
     DEF Mlp, FitsOrPopulates,
         cpu_memcpy_and_compute_stamped,
         blocking_memcpy_and_compute_stamped,
         yielding_memcpy_and_compute_stamped, cpu_memcpy_and_compute,
         blocking_memcpy_and_compute, yielding_memcpy_and_compute, Populates
<1>2. Mlp \in Seq({Mlp[k] : k \in 1 .. 8})
  BY DEF Mlp
<1> QED
  BY <1>1, <1>2, OfFitting

\* The memfill and gather program.
LEMMA FitsMemfillAndGather == Fitting(MemfillAndGather)
<1>1. \A k \in 1 .. 5 : FitsOrPopulates(MemfillAndGather[k])
  BY BlockingRunsFit, CoreRunsFit, YieldingRunsFit, Kinds
     DEF MemfillAndGather, FitsOrPopulates,
         cpu_memfill_and_gather_stamped,
         blocking_memfill_and_gather_stamped, cpu_memfill_and_gather,
         blocking_memfill_and_gather, yielding_memfill_and_gather
<1>2. MemfillAndGather \in Seq({MemfillAndGather[k] : k \in 1 .. 5})
  BY DEF MemfillAndGather
<1> QED
  BY <1>1, <1>2, OfFitting

\* The traverse and offload program.
LEMMA FitsTraverse == Fitting(Traverse)
<1>1. \A k \in 1 .. 5 : FitsOrPopulates(Traverse[k])
  BY BlockingRunsFit, YieldingRunsFit, Kinds
     DEF Traverse, FitsOrPopulates,
         blocking_traverse_and_offload_stamped,
         yielding_traverse_and_offload_stamped
<1>2. Traverse \in Seq({Traverse[k] : k \in 1 .. 5})
  BY DEF Traverse
<1> QED
  BY <1>1, <1>2, OfFitting

\* The program over serial and linear accesses: two parts alike.
LEMMA FitsThreePhase == Fitting(ThreePhase)
<1> DEFINE part(blocking, yielding, alloc, free) ==
      <<run_blocking_offload_request_brkdown(blocking, alloc, free),
        run_yielding_interleaved_request_brkdown(
          yielding, hash_interleaved, alloc, free),
        run_yielding_interleaved_request_brkdown(
          yielding, antagonist_interleaved, alloc, free)>>
<1>1. \A uses, alloc, free :
        Fitting(part(Blocking(Memcpy, Ignores, uses),
                     Yielding(Memcpy, Ignores, uses), alloc, free))
  <2> TAKE uses, alloc, free
  <2> DEFINE p == part(Blocking(Memcpy, Ignores, uses),
                       Yielding(Memcpy, Ignores, uses), alloc, free)
  <2>1. \A k \in 1 .. 3 : FitsOrPopulates(p[k])
    BY BlockingRunsFit, YieldingRunsFit, Kinds DEF FitsOrPopulates
  <2>2. p \in Seq({p[k] : k \in 1 .. 3})
    OBVIOUS
  <2> HIDE DEF p
  <2>3. Fitting(p)
    BY <2>1, <2>2, OfFitting
  <2> QED
    BY <2>3 DEF p
<1> DEFINE p == part(blocking_offload_and_serial_access_stamped,
                     yielding_offload_and_serial_access_stamped,
                     alloc_offload_serialized_access_args,
                     free_offload_serialized_access_args)
           q == part(blocking_offload_and_linear_access_stamped,
                     yielding_offload_and_linear_access_stamped,
                     alloc_offload_linear_access_args,
                     free_offload_linear_access_args)
<1> HIDE DEF part
<1>2. Fitting(p)
  BY <1>1 DEF blocking_offload_and_serial_access_stamped,
              yielding_offload_and_serial_access_stamped
<1>3. Fitting(q)
  BY <1>1 DEF blocking_offload_and_linear_access_stamped,
              yielding_offload_and_linear_access_stamped
<1> HIDE DEF p, q
<1>4. Fitting(p \o q)
  BY <1>2, <1>3, Concat
<1> QED
  BY <1>4 DEF ThreePhase, p, q, part

\* The decompress and hash program, and what each of its threads runs.
LEMMA FitsDecompAndHash ==
    /\ Fitting(DecompAndHash)
    /\ \A p \in DecompAndHashMultiThreaded : Fitting(p)
<1>1. Fitting(DecompAndHash)
  BY FitsDecompAndHashLatency, FitsDecompAndHashThroughput, Concat
     DEF DecompAndHash
<1>2. ASSUME NEW i \in 1 .. 3
      PROVE  Fitting(SubSeq(DecompAndHashThroughput, i, i))
  <2> DEFINE t == DecompAndHashThroughput
             p == SubSeq(t, i, i)
  <2>1. t \in Seq({t[k] : k \in 1 .. 3}) /\ Len(t) = 3
    BY DEF DecompAndHashThroughput
  <2>2. \A k \in 1 .. 3 : FitsOrPopulates(t[k])
    BY <2>1, FitsDecompAndHashThroughput DEF Fitting
  <2> HIDE DEF t
  <2>3. p \in Seq({t[k] : k \in 1 .. 3})
    BY <2>1
  <2>4. Fitting(p)
    BY <2>2, <2>3, OfFitting
  <2> QED
    BY <2>4 DEF t
<1> QED
  BY <1>1, <1>2 DEF DecompAndHashMultiThreaded

\* The decompress and scatter program.
LEMMA FitsDecompAndScatter == Fitting(DecompAndScatter)
BY FitsDecompAndScatterLatency, FitsDecompAndScatterThroughput, Concat
   DEF DecompAndScatter

\* The same for the sequences of stages of the applications.
LEMMA ShortPhasesFit ==
  \A uses, a, f :
    /\ Fits(blocking_breakdown(Phases(<<>>, FALSE, uses), a, f))
    /\ Fits(blocking_throughput(Phases(<<>>, FALSE, uses), a, f))
    /\ Fits(blocking_breakdown(Phases(<<Decompress>>, FALSE, uses), a, f))
    /\ Fits(blocking_throughput(Phases(<<Decompress>>, FALSE, uses), a, f))
<1>1. <<>> \in Seq(StageKinds) /\ Len(<<>>) <= 2
  BY StageSequences, OneOfTwo
<1>2. <<Decompress>> \in Seq(StageKinds) /\ Len(<<Decompress>>) <= 2
  BY StageSequences, OneOfTwo, Kinds
<1>3. \A uses, a, f :
        /\ Fits(blocking_breakdown(Phases(<<>>, FALSE, uses), a, f))
        /\ Fits(blocking_throughput(Phases(<<>>, FALSE, uses), a, f))
  BY <1>1, BlockingPhasesFit
<1> DEFINE st == <<Decompress>>
<1>4. st \in Seq(StageKinds) /\ Len(st) <= 2
  BY <1>2
<1> HIDE DEF st
<1>5. \A uses, a, f :
        /\ Fits(blocking_breakdown(Phases(st, FALSE, uses), a, f))
        /\ Fits(blocking_throughput(Phases(st, FALSE, uses), a, f))
  BY <1>4, BlockingPhasesFit
<1> QED
  BY <1>3, <1>5 DEF st

\* The applications of three_phase_composable.cpp.
LEMMA FitsDeser == Fitting(Deser)
<1> DEFINE alloc == three_func_allocator
           free == free_three_phase_stamped_args
           x1 == blocking_breakdown(
                   deser_decomp_hash_gpcore_stamped, alloc, free)
           x2 == blocking_throughput(deser_decomp_hash_gpcore, alloc, free)
           x3 == blocking_breakdown(
                   deser_decomp_hash_blocking_stamped, alloc, free)
           x4 == blocking_throughput(deser_decomp_hash_blocking, alloc, free)
           tail == yielding_runs(deser_decomp_hash_yielding_stamped,
                                 deser_decomp_hash_yielding, alloc, free)
<1>1. Fits(x1) /\ Fits(x2)
  BY ShortPhasesFit
     DEF deser_decomp_hash_gpcore_stamped, deser_decomp_hash_gpcore,
         generic_gpcore_three_phase_timed, generic_gpcore_three_phase
<1>2. Fits(x3) /\ Fits(x4)
  BY ShortPhasesFit
     DEF deser_decomp_hash_blocking_stamped, deser_decomp_hash_blocking,
         generic_blocking_three_phase_timed, generic_blocking_three_phase
<1>3. Fitting(tail)
  BY YieldingPhasesFit, Kinds
     DEF deser_decomp_hash_yielding_stamped, deser_decomp_hash_yielding,
         generic_yielding_three_phase_timed, generic_yielding_three_phase
<1> HIDE DEF x1, x2, x3, x4, tail
<1>4. <<x1, x2, x3, x4>> \in Seq({x1, x2, x3, x4})
  OBVIOUS
<1>5. Fitting(<<x1, x2, x3, x4>>)
  BY <1>1, <1>2, <1>4, OfFitting DEF FitsOrPopulates
<1>6. Fitting(<<x1, x2, x3, x4>> \o tail)
  BY <1>3, <1>5, Concat
<1> QED
  BY <1>6 DEF Deser, x1, x2, x3, x4, tail

\* The gather application first fills its array of indices.
LEMMA FitsGather == Fitting(Gather)
<1> DEFINE alloc == null_two_func_allocator
           free == free_null_two_phase
           x0 == Populates("glob_indir_arr")
           x1 == blocking_breakdown(decomp_gather_gpcore_stamped, alloc, free)
           x2 == blocking_throughput(decomp_gather_gpcore, alloc, free)
           x3 == blocking_breakdown(decomp_gather_blocking_stamped, alloc, free)
           x4 == blocking_throughput(decomp_gather_blocking, alloc, free)
           tail == yielding_runs(decomp_gather_yielding_stamped,
                                 decomp_gather_yielding, alloc, free)
<1>0. x0.kind = "populates"
  BY DEF Populates
<1>1. Fits(x1) /\ Fits(x2)
  BY ShortPhasesFit
     DEF decomp_gather_gpcore_stamped, decomp_gather_gpcore,
         generic_gpcore_three_phase_timed, generic_gpcore_three_phase
<1>2. Fits(x3) /\ Fits(x4)
  BY ShortPhasesFit
     DEF decomp_gather_blocking_stamped, decomp_gather_blocking,
         generic_blocking_three_phase_timed, generic_blocking_three_phase
<1>3. Fitting(tail)
  BY YieldingPhasesFit, Kinds
     DEF decomp_gather_yielding_stamped, decomp_gather_yielding,
         generic_yielding_three_phase_timed, generic_yielding_three_phase
<1> HIDE DEF x0, x1, x2, x3, x4, tail
<1>4. <<x0, x1, x2, x3, x4>> \in Seq({x0, x1, x2, x3, x4})
  OBVIOUS
<1>5. Fitting(<<x0, x1, x2, x3, x4>>)
  BY <1>0, <1>1, <1>2, <1>4, OfFitting DEF FitsOrPopulates
<1>6. Fitting(<<x0, x1, x2, x3, x4>> \o tail)
  BY <1>3, <1>5, Concat
<1> QED
  BY <1>6 DEF Gather, x0, x1, x2, x3, x4, tail

\* A program of one breakdown of requests that spin.
LEMMA FitsOneRun ==
  \A st \in Seq(StageKinds) : \A uses, a, f :
    Len(st) <= 2 =>
      Fitting(<<blocking_breakdown(Phases(st, FALSE, uses), a, f)>>)
<1> TAKE st \in Seq(StageKinds)
<1> TAKE uses, a, f
<1> HAVE Len(st) <= 2
<1> DEFINE x == blocking_breakdown(Phases(st, FALSE, uses), a, f)
<1>1. FitsOrPopulates(x)
  BY BlockingPhasesFit DEF FitsOrPopulates
<1> HIDE DEF x
<1>2. <<x>> \in Seq({x})
  OBVIOUS
<1>3. Fitting(<<x>>)
  BY <1>1, <1>2, OfFitting
<1> QED
  BY <1>3 DEF x

\* Its breakdowns of one run.
LEMMA FitsBreakdowns ==
  \A p \in {AxAx, AxAxComp, GpAx, GpAxComp, AxGp, GpGp} : Fitting(p)
<1>1. Fitting(AxAx) /\ Fitting(AxAxComp)
  BY FitsOneRun, StageSequences, OneOfTwo, Kinds
     DEF AxAx, AxAxComp, memcpy_decomp_axcore_axcore_stamped,
         memcpy_comp_axcore_axcore_stamped, axcore_axcore_two_phase_timed,
         axcore_iaa_aecs_axcore_two_phase
<1>2. Fitting(GpAx) /\ Fitting(AxGp)
  BY FitsOneRun, StageSequences, OneOfTwo, Kinds
     DEF GpAx, AxGp, memcpy_decomp_gpcore_axcore_stamped,
         memcpy_decomp_axcore_gpcore_stamped,
         generic_blocking_three_phase_timed
<1>3. Fitting(GpAxComp)
  BY FitsOneRun, StageSequences, OneOfTwo, Kinds
     DEF GpAxComp, memcpy_comp_gpcore_axcore_stamped,
         gpcore_iaa_aecs_axcore_gpcore_three_phase
<1>4. Fitting(GpGp)
  BY FitsOneRun, StageSequences, OneOfTwo
     DEF GpGp, memcpy_decomp_gpcore_gpcore_stamped,
         generic_gpcore_three_phase_timed
<1> QED
  BY <1>1, <1>2, <1>3, <1>4

\* Every program of the repository pairs executors and requests that fit,
\* whatever its options: only with fewer requests than samples, which is the
\* default of decomp_and_scatter.cpp, is an interval of a run zero.
THEOREM ProgramsFit == \A p \in Programs : Fitting(p)
BY FitsDecompAndHash, FitsDecompAndScatter, FitsMlp, FitsMemfillAndGather,
   FitsThreePhase, FitsTraverse, FitsDeser, FitsGather, FitsBreakdowns
   DEF Programs, Composable

-----------------------------------------------------------------------------
(***************************************************************************)
(* Which buffers a plan has: those the program itself filled before a run, *)
(* and those the run's allocator sets up.                                  *)
(***************************************************************************)
Populated(p, k) ==
  {p[j].buffer : j \in {l \in 1 .. k - 1 : p[l].kind = "populates"}}

\* The requests, the filler and the free function of a run touch no other
\* buffers, and the free function leaves those of the program alone.
Holds(G, x) ==
  /\ x.request.uses \cup x.filler \cup x.free \subseteq G \cup x.alloc
  /\ x.free \cap G = {}

Has(G, x) == x.kind = "runs" /\ Holds(G, x)

BuffersFit(p) ==
  \A k \in 1 .. Len(p) :
    \/ p[k].kind = "populates" /\ p[k].buffer \in Globals
    \/ Has(Populated(p, k), p[k])

\* A plan whose runs all set up what they use.
LEMMA OfSelfContained ==
  ASSUME NEW S, \A x \in S : Has({}, x)
  PROVE  \A p \in Seq(S) : BuffersFit(p) /\ Populated(p, Len(p) + 1) = {}
<1> TAKE p \in Seq(S)
<1>1. \A k \in 1 .. Len(p) : p[k] \in S
  OBVIOUS
<1>2. ASSUME NEW k \in 1 .. Len(p) + 1
      PROVE  Populated(p, k) = {}
  <2>1. \A l \in 1 .. k - 1 : l \in 1 .. Len(p)
    OBVIOUS
  <2>2. \A l \in 1 .. k - 1 : p[l].kind # "populates"
    BY <1>1, <2>1 DEF Has
  <2> QED
    BY <2>2 DEF Populated
<1>3. \A k \in 1 .. Len(p) : k \in 1 .. Len(p) + 1
  OBVIOUS
<1>4. BuffersFit(p)
  BY <1>1, <1>2, <1>3 DEF BuffersFit
<1>5. Len(p) + 1 \in 1 .. Len(p) + 1
  OBVIOUS
<1> QED
  BY <1>2, <1>4, <1>5

\* Runs behind a plan that fits have the buffers it populated.
LEMMA ConcatBuffers ==
  ASSUME NEW S, NEW p \in Seq(S), BuffersFit(p), NEW T, NEW q \in Seq(T),
         \A x \in T : Has(Populated(p, Len(p) + 1), x)
  PROVE  BuffersFit(p \o q)
<1> DEFINE pq == p \o q
<1>1. /\ Len(pq) = Len(p) + Len(q) /\ Len(p) \in Nat /\ Len(q) \in Nat
      /\ \A k \in 1 .. Len(p) : pq[k] = p[k]
      /\ \A k \in 1 .. Len(q) : pq[Len(p) + k] = q[k] /\ q[k] \in T
  OBVIOUS
<1>2. \A k \in Len(p) + 1 .. Len(pq) : pq[k] \in T
  <2> TAKE k \in Len(p) + 1 .. Len(pq)
  <2>1. k - Len(p) \in 1 .. Len(q) /\ Len(p) + (k - Len(p)) = k
    BY <1>1
  <2> QED
    BY <1>1, <2>1
<1> HIDE DEF pq
<1>3. ASSUME NEW k \in 1 .. Len(p) + 1
      PROVE  Populated(pq, k) = Populated(p, k)
  <2>1. \A l \in 1 .. k - 1 : l \in 1 .. Len(p)
    BY <1>1
  <2>2. \A l \in 1 .. k - 1 : pq[l] = p[l]
    BY <1>1, <2>1
  <2> QED
    BY <2>2 DEF Populated
<1>4. ASSUME NEW k \in Len(p) + 1 .. Len(pq)
      PROVE  Populated(pq, k) = Populated(p, Len(p) + 1)
  <2>1. Populated(pq, k) = Populated(pq, Len(p) + 1)
    <3>1. \A l \in 1 .. k - 1 :
            l \in 1 .. Len(p) + 1 - 1 \/ l \in Len(p) + 1 .. Len(pq)
      BY <1>1
    <3>2. \A l \in 1 .. Len(p) + 1 - 1 : l \in 1 .. k - 1
      BY <1>1
    <3>3. \A l \in Len(p) + 1 .. Len(pq) : pq[l].kind # "populates"
      BY <1>2 DEF Has
    <3> QED
      BY <3>1, <3>2, <3>3 DEF Populated
  <2>2. Len(p) + 1 \in 1 .. Len(p) + 1
    BY <1>1
  <2> QED
    BY <1>3, <2>1, <2>2
<1>5. ASSUME NEW k \in 1 .. Len(pq)
      PROVE  \/ pq[k].kind = "populates" /\ pq[k].buffer \in Globals
             \/ Has(Populated(pq, k), pq[k])
  <2>1. CASE k \in 1 .. Len(p)
    <3>1. k \in 1 .. Len(p) + 1
      BY <1>1, <2>1
    <3> QED
      BY <1>1, <1>3, <2>1, <3>1 DEF BuffersFit
  <2>2. CASE k \in Len(p) + 1 .. Len(pq)
    BY <1>2, <1>4, <2>2
  <2> QED
    BY <1>1, <2>1, <2>2
<1>6. BuffersFit(pq)
  BY <1>5 DEF BuffersFit
<1> QED
  BY <1>6 DEF pq

\* A plan that fills one buffer, before a run.
LEMMA OnePopulates ==
  ASSUME NEW p, NEW n \in Nat, n = Len(p), NEW j \in 1 .. n,
         p[j].kind = "populates",
         \A k \in 1 .. n : k # j => p[k].kind # "populates"
  PROVE  \A k \in 1 .. n + 1 :
           Populated(p, k) = IF k > j THEN {p[j].buffer} ELSE {}
<1> TAKE k \in 1 .. n + 1
<1>1. \A l \in 1 .. k - 1 : l \in 1 .. n
  OBVIOUS
<1>2. CASE k > j
  <2>1. j \in 1 .. k - 1
    BY <1>2
  <2>2. {l \in 1 .. k - 1 : p[l].kind = "populates"} = {j}
    BY <1>1, <2>1
  <2> QED
    BY <1>2, <2>2 DEF Populated
<1>3. CASE ~(k > j)
  <2>1. \A l \in 1 .. k - 1 : l # j
    BY <1>3
  <2>2. {l \in 1 .. k - 1 : p[l].kind = "populates"} = {}
    BY <1>1, <2>1
  <2> QED
    BY <1>3, <2>2 DEF Populated
<1> QED
  BY <1>2, <1>3

\* What the functions of a run may touch, with the buffers G of the program
\* and those its allocator sets up.
Touches(G, uses, fl, a, f) ==
  uses \cup fl \cup f \subseteq G \cup a /\ f \cap G = {}

\* The buffers of the runners for requests on the core,
LEMMA CoreRunsHave ==
  \A G, uses, a, f :
    Touches(G, uses, {}, a, f) =>
      /\ Has(G, run_gpcore_request_brkdown(OnCore(uses), a, f))
      /\ Has(G, run_gpcore_offeredLoad(OnCore(uses), a, f))
BY DEF Has, Holds, Touches, run_gpcore_request_brkdown,
       run_gpcore_offeredLoad, Runs, OnCore

\* for requests that spin,
LEMMA BlockingRunsHave ==
  \A G, s, how, uses, a, f :
    Touches(G, uses, {}, a, f) =>
      /\ Has(G, run_blocking_offload_request_brkdown(
                  Blocking(s, how, uses), a, f))
      /\ Has(G, run_blocking_offered_load(Blocking(s, how, uses), a, f))
BY DEF Has, Holds, Touches, run_blocking_offload_request_brkdown,
       run_blocking_offered_load, Runs, Blocking

\* for requests that yield,
LEMMA YieldingRunsHave ==
  \A G, s, how, uses, fl, a, f :
    LET fn == Yielding(s, how, uses) IN
    Touches(G, uses, fl, a, f) =>
      /\ Has(G, run_yielding_interleaved_request_brkdown(fn, fl, a, f))
      /\ Has(G, run_yielding_multiple_filler_request_brkdown(fn, fl, a, f))
BY DEF Has, Holds, Touches, run_yielding_interleaved_request_brkdown,
       run_yielding_multiple_filler_request_brkdown, Runs, Yielding, Blocking

\* for requests that yield and stamp times,
LEMMA SampledRunsHave ==
  \A G, s, how, uses, a, f :
    Touches(G, uses, {}, a, f) =>
      Has(G, run_yielding_offered_load(Yielding(s, how, uses), a, f))
BY DEF Has, Holds, Touches, run_yielding_offered_load, Runs, Yielding, Blocking

\* and for the phases of three_phase_composable.cpp.
LEMMA PhasesHave ==
  \A G, ex, st, y, uses, a, f :
    Touches(G, uses, {}, a, f) =>
      Has(G, run_three_phase_offload_timed(ex, Phases(st, y, uses), a, f))
BY DEF Has, Holds, Touches, run_three_phase_offload_timed, Runs, Phases

\* The decompress and hash program.
LEMMA BuffersDecompAndHash ==
  /\ BuffersFit(DecompAndHash)
  /\ \A p \in DecompAndHashMultiThreaded : BuffersFit(p)
<1> DEFINE p == DecompAndHashLatency
           q == DecompAndHashThroughput
           S == {p[k] : k \in 1 .. 4}
           T == {q[k] : k \in 1 .. 3}
<1>1. \A k \in 1 .. 4 : Has({}, p[k])
  BY CoreRunsHave, BlockingRunsHave, YieldingRunsHave
     DEF DecompAndHashLatency, Touches,
         cpu_decompress_and_hash_stamped, compressed_mc_req_allocator,
         compressed_mc_req_free, blocking_decompress_and_hash_request_stamped,
         yielding_decompress_and_hash_request_stamped,
         alloc_decomp_and_hash_offload_args_stamped,
         free_decomp_and_hash_offload_args_stamped, hash_interleaved,
         antagonist_interleaved
<1>2. \A k \in 1 .. 3 : Has({}, q[k])
  BY CoreRunsHave, BlockingRunsHave, SampledRunsHave
     DEF DecompAndHashThroughput, Touches,
         cpu_decompress_and_hash, compressed_mc_req_allocator,
         compressed_mc_req_free, blocking_decompress_and_hash_request,
         yielding_decompress_and_hash_request,
         alloc_decomp_and_hash_offload_args,
         free_decomp_and_hash_offload_args
<1>3. p \in Seq(S) /\ q \in Seq(T) /\ Len(q) = 3
  BY DEF DecompAndHashLatency, DecompAndHashThroughput
<1> HIDE DEF p, q
<1>4. p \o q \in Seq(S \cup T)
  BY <1>3
<1>5. BuffersFit(p \o q)
  BY <1>1, <1>2, <1>4, OfSelfContained
<1>6. ASSUME NEW i \in 1 .. 3
      PROVE  BuffersFit(SubSeq(q, i, i))
  <2>1. SubSeq(q, i, i) \in Seq(T)
    BY <1>3
  <2> QED
    BY <1>2, <2>1, OfSelfContained
<1> QED
  BY <1>5, <1>6 DEF p, q, DecompAndHash, DecompAndHashMultiThreaded

\* The decompress and scatter program: the filler scatters into a buffer that
\* main fills before the run.
LEMMA BuffersDecompAndScatter == BuffersFit(DecompAndScatter)
<1> DEFINE p == DecompAndScatterLatency
           q == DecompAndScatterThroughput
           S == {p[k] : k \in 1 .. 5}
           T == {q[k] : k \in 1 .. 3}
           G == {"glob_dst_buf"}
<1>1. \A k \in {1, 2} : Has({}, p[k])
  BY CoreRunsHave, BlockingRunsHave
     DEF DecompAndScatterLatency, Touches,
         cpu_decomp_and_scatter_stamped, cpu_compressed_payload_allocator,
         free_cpu_compressed_payloads,
         blocking_decomp_and_scatter_request_stamped,
         alloc_offload_decomp_and_scatter_args_timed,
         free_offload_decomp_and_scatter_args_timed
<1>2. \A k \in {4, 5} : Has(G, p[k])
  BY YieldingRunsHave
     DEF DecompAndScatterLatency, Touches, yielding_decomp_and_scatter_stamped,
         alloc_offload_decomp_and_scatter_args_timed,
         free_offload_decomp_and_scatter_args_timed, ScatterArgs, OffloadArgs,
         scatter_interleaved, antagonist_interleaved
<1>3. p[3].kind = "populates" /\ p[3].buffer = "glob_dst_buf" /\ Len(p) = 5
  BY DEF DecompAndScatterLatency, Populates
<1>4. \A k \in 1 .. 3 : Has(G, q[k])
  BY CoreRunsHave, BlockingRunsHave, SampledRunsHave
     DEF DecompAndScatterThroughput, Touches,
         cpu_decomp_and_scatter, cpu_compressed_payload_allocator,
         free_cpu_compressed_payloads, blocking_decomp_and_scatter_request,
         yielding_decomp_and_scatter, alloc_offload_decomp_and_scatter_args,
         free_offload_decomp_and_scatter_args, ScatterArgs, OffloadArgs
<1>5. p \in Seq(S) /\ q \in Seq(T)
  BY DEF DecompAndScatterLatency, DecompAndScatterThroughput
<1> HIDE DEF p, q
<1>6. \A k \in 1 .. 5 : k # 3 => p[k].kind # "populates"
  BY <1>1, <1>2 DEF Has
<1>7. \A k \in 1 .. 6 : Populated(p, k) = IF k > 3 THEN G ELSE {}
  <2>1. 5 \in Nat /\ 3 \in 1 .. 5 /\ 5 + 1 = 6
    OBVIOUS
  <2> QED
    BY <1>3, <1>6, <2>1, OnePopulates, ZenonT(60)
<1>8. BuffersFit(p)
  <2>1. Populated(p, 1) = {} /\ Populated(p, 2) = {}
    BY <1>7
  <2>2. Populated(p, 4) = G /\ Populated(p, 5) = G
    BY <1>7
  <2>3. "glob_dst_buf" \in Globals
    BY DEF Globals
  <2>4. \A k \in 1 .. 5 : k \in {1, 2} \/ k = 3 \/ k \in {4, 5}
    OBVIOUS
  <2> QED
    BY <1>1, <1>2, <1>3, <2>1, <2>2, <2>3, <2>4 DEF BuffersFit
<1>9. Populated(p, Len(p) + 1) = G
  <2>1. 5 + 1 \in 1 .. 6 /\ 5 + 1 > 3
    OBVIOUS
  <2> QED
    BY <1>3, <1>7, <2>1
<1>10. \A x \in T : Has(G, x)
  BY <1>4
<1> HIDE DEF S, T, G
<1>11. BuffersFit(p \o q)
  BY <1>5, <1>8, <1>9, <1>10, ConcatBuffers
<1> QED
  BY <1>11 DEF p, q, DecompAndScatter

\* The memfill and gather program.
LEMMA BuffersMemfillAndGather == BuffersFit(MemfillAndGather)
<1> DEFINE p == MemfillAndGather
           S == {p[k] : k \in 1 .. 5}
<1>1. \A k \in 1 .. 5 : Has({}, p[k])
  BY CoreRunsHave, BlockingRunsHave, SampledRunsHave
     DEF MemfillAndGather, Touches,
         cpu_memfill_and_gather_stamped, alloc_cpu_memfill_and_gather_args,
         free_cpu_memfill_and_gather_args, blocking_memfill_and_gather_stamped,
         alloc_offload_memfill_and_gather_args_timed,
         free_offload_memfill_and_gather_args_timed, cpu_memfill_and_gather,
         blocking_memfill_and_gather, yielding_memfill_and_gather,
         alloc_offload_memfill_and_gather_args,
         free_offload_memfill_and_gather_args
<1>2. p \in Seq(S)
  BY DEF MemfillAndGather
<1> QED
  BY <1>1, <1>2, OfSelfContained

\* The pointer chasing program.
LEMMA BuffersTraverse == BuffersFit(Traverse)
<1> DEFINE p == Traverse
           S == {p[k] : k \in 1 .. 5}
<1>1. \A k \in 1 .. 5 : Has({}, p[k])
  BY BlockingRunsHave, YieldingRunsHave
     DEF Traverse, Touches, blocking_traverse_and_offload_stamped,
         yielding_traverse_and_offload_stamped, TraverseArgs, OffloadArgs,
         alloc_offload_traverse_and_offload_args,
         free_offload_traverse_and_offload_args, lltraverse_interleaved,
         antagonist_interleaved
<1>2. p \in Seq(S)
  BY DEF Traverse
<1> QED
  BY <1>1, <1>2, OfSelfContained

\* The serial and the linear accesses around a copy.
LEMMA BuffersThreePhase == BuffersFit(ThreePhase)
<1> DEFINE part(blocking, yielding, alloc, free) ==
             <<run_blocking_offload_request_brkdown(blocking, alloc, free),
               run_yielding_interleaved_request_brkdown(
                 yielding, hash_interleaved, alloc, free),
               run_yielding_interleaved_request_brkdown(
                 yielding, antagonist_interleaved, alloc, free)>>
           p == part(blocking_offload_and_serial_access_stamped,
                     yielding_offload_and_serial_access_stamped,
                     alloc_offload_serialized_access_args,
                     free_offload_serialized_access_args)
           q == part(blocking_offload_and_linear_access_stamped,
                     yielding_offload_and_linear_access_stamped,
                     alloc_offload_linear_access_args,
                     free_offload_linear_access_args)
           S == {p[k] : k \in 1 .. 3}
           T == {q[k] : k \in 1 .. 3}
<1>1. \A k \in 1 .. 3 : Has({}, p[k])
  BY BlockingRunsHave, YieldingRunsHave
     DEF Touches, blocking_offload_and_serial_access_stamped,
         yielding_offload_and_serial_access_stamped,
         alloc_offload_serialized_access_args,
         free_offload_serialized_access_args, SerialArgs, OffloadArgs,
         hash_interleaved, antagonist_interleaved
<1>2. \A k \in 1 .. 3 : Has({}, q[k])
  BY BlockingRunsHave, YieldingRunsHave
     DEF Touches, blocking_offload_and_linear_access_stamped,
         yielding_offload_and_linear_access_stamped,
         alloc_offload_linear_access_args, free_offload_linear_access_args,
         OffloadArgs, hash_interleaved, antagonist_interleaved
<1>3. p \in Seq(S) /\ q \in Seq(T)
  OBVIOUS
<1>4. ThreePhase = p \o q
  BY DEF ThreePhase
<1> HIDE DEF p, q
<1>5. p \o q \in Seq(S \cup T)
  BY <1>3
<1> QED
  BY <1>1, <1>2, <1>4, <1>5, OfSelfContained

\* The runs of the applications of three_phase_composable.cpp, whose functions
\* and buffers are those of its three phases: post is what the last phase
\* uses of the buffers of the program.
LEMMA ComposedHave ==
  ASSUME NEW G, G \cap ThreePhaseArgs = {}, NEW post, post \subseteq G,
         NEW stage
  PROVE  LET a == ThreePhaseArgs
             core == generic_gpcore_three_phase(post)
             core_stamped == generic_gpcore_three_phase_timed(post)
             spins == generic_blocking_three_phase(stage, post)
             spins_stamped == generic_blocking_three_phase_timed(stage, post)
             yields == generic_yielding_three_phase(stage, post)
             yields_stamped == generic_yielding_three_phase_timed(stage, post)
         IN
         /\ Has(G, blocking_breakdown(core_stamped, a, a))
         /\ Has(G, blocking_throughput(core, a, a))
         /\ Has(G, blocking_breakdown(spins_stamped, a, a))
         /\ Has(G, blocking_throughput(spins, a, a))
         /\ Has(G, yielding_runs(yields_stamped, yields, a, a)[1])
         /\ Has(G, yielding_runs(yields_stamped, yields, a, a)[2])
<1>1. Touches(G, ThreePhaseArgs \cup post, {}, ThreePhaseArgs, ThreePhaseArgs)
  BY DEF Touches
<1>2. Touches(G, (ThreePhaseArgs \ {"desc"}) \cup post, {}, ThreePhaseArgs,
              ThreePhaseArgs)
  BY DEF Touches
<1>3. /\ Has(G, blocking_breakdown(
               generic_gpcore_three_phase_timed(post),
               ThreePhaseArgs, ThreePhaseArgs))
      /\ Has(G, blocking_throughput(
               generic_gpcore_three_phase(post),
               ThreePhaseArgs, ThreePhaseArgs))
  BY <1>2, PhasesHave
     DEF blocking_breakdown, blocking_throughput,
         generic_gpcore_three_phase_timed, generic_gpcore_three_phase
<1>4. /\ Has(G, blocking_breakdown(
               generic_blocking_three_phase_timed(stage, post),
               ThreePhaseArgs, ThreePhaseArgs))
      /\ Has(G, blocking_throughput(
               generic_blocking_three_phase(stage, post),
               ThreePhaseArgs, ThreePhaseArgs))
  BY <1>1, PhasesHave
     DEF blocking_breakdown, blocking_throughput,
         generic_blocking_three_phase_timed, generic_blocking_three_phase
<1>5. LET q == yielding_runs(generic_yielding_three_phase_timed(stage, post),
                             generic_yielding_three_phase(stage, post),
                             ThreePhaseArgs, ThreePhaseArgs)
      IN  Has(G, q[1]) /\ Has(G, q[2])
  BY <1>1, PhasesHave
     DEF yielding_runs, generic_yielding_three_phase_timed,
         generic_yielding_three_phase
<1> QED
  BY <1>3, <1>4, <1>5

\* The deserialization application.
LEMMA BuffersDeser == BuffersFit(Deser)
<1> DEFINE a == ThreePhaseArgs
           p == <<blocking_breakdown(deser_decomp_hash_gpcore_stamped, a, a),
                  blocking_throughput(deser_decomp_hash_gpcore, a, a),
                  blocking_breakdown(deser_decomp_hash_blocking_stamped, a, a),
                  blocking_throughput(deser_decomp_hash_blocking, a, a)>>
           q == yielding_runs(deser_decomp_hash_yielding_stamped,
                              deser_decomp_hash_yielding, a, a)
           S == {p[k] : k \in 1 .. 4} \cup {q[k] : k \in 1 .. 2}
<1>1. {} \cap ThreePhaseArgs = {} /\ hash_buf \subseteq {}
  BY DEF hash_buf
<1>2. /\ Has({}, p[1]) /\ Has({}, p[2]) /\ Has({}, p[3]) /\ Has({}, p[4])
      /\ Has({}, q[1]) /\ Has({}, q[2])
  BY <1>1, ComposedHave
     DEF deser_decomp_hash_gpcore_stamped, deser_decomp_hash_gpcore,
         deser_decomp_hash_blocking_stamped, deser_decomp_hash_blocking,
         deser_decomp_hash_yielding_stamped, deser_decomp_hash_yielding
<1>3. Deser = p \o q /\ p \in Seq(S) /\ q \in Seq(S)
  BY DEF Deser, yielding_runs, three_func_allocator,
         free_three_phase_stamped_args
<1> HIDE DEF p, q
<1>4. \A x \in S : Has({}, x)
  BY <1>2
<1> HIDE DEF S
<1>5. p \o q \in Seq(S)
  BY <1>3
<1> QED
  BY <1>3, <1>4, <1>5, OfSelfContained

\* The gather application uses the array of indices that main fills.
LEMMA BuffersGather == BuffersFit(Gather)
<1> DEFINE a == ThreePhaseArgs
           p == <<Populates("glob_indir_arr"),
                  blocking_breakdown(decomp_gather_gpcore_stamped, a, a),
                  blocking_throughput(decomp_gather_gpcore, a, a),
                  blocking_breakdown(decomp_gather_blocking_stamped, a, a),
                  blocking_throughput(decomp_gather_blocking, a, a)>>
           q == yielding_runs(decomp_gather_yielding_stamped,
                              decomp_gather_yielding, a, a)
           S == {p[k] : k \in 1 .. 5}
           T == {q[k] : k \in 1 .. 2}
           G == {"glob_indir_arr"}
<1>1. G \cap ThreePhaseArgs = {} /\ gather_access \subseteq G
  BY DEF gather_access, ThreePhaseArgs
<1>2. /\ Has(G, p[2]) /\ Has(G, p[3]) /\ Has(G, p[4]) /\ Has(G, p[5])
      /\ Has(G, q[1]) /\ Has(G, q[2])
  BY <1>1, ComposedHave
     DEF decomp_gather_gpcore_stamped, decomp_gather_gpcore,
         decomp_gather_blocking_stamped, decomp_gather_blocking,
         decomp_gather_yielding_stamped, decomp_gather_yielding
<1>3. p[1].kind = "populates" /\ p[1].buffer = "glob_indir_arr" /\ Len(p) = 5
  BY DEF Populates
<1>4. Gather = p \o q /\ p \in Seq(S) /\ q \in Seq(T)
  BY DEF Gather, yielding_runs, null_two_func_allocator, free_null_two_phase
<1> HIDE DEF p, q
<1>5. \A x \in T : Has(G, x)
  BY <1>2
<1> HIDE DEF S, T
<1>6. \A k \in 1 .. 5 : k = 1 \/ Has(G, p[k])
  BY <1>2
<1>7. \A k \in 1 .. 5 : k # 1 => p[k].kind # "populates"
  BY <1>6 DEF Has
<1>8. \A k \in 1 .. 6 : Populated(p, k) = IF k > 1 THEN G ELSE {}
  <2>1. 5 \in Nat /\ 1 \in 1 .. 5 /\ 5 + 1 = 6
    OBVIOUS
  <2> QED
    BY <1>3, <1>7, <2>1, OnePopulates
<1>9. BuffersFit(p)
  <2>1. \A k \in 1 .. 5 : k # 1 => Populated(p, k) = G
    BY <1>8
  <2>2. "glob_indir_arr" \in Globals
    BY DEF Globals
  <2> QED
    BY <1>3, <1>6, <2>1, <2>2 DEF BuffersFit
<1>10. Populated(p, Len(p) + 1) = G
  <2>1. 5 + 1 \in 1 .. 6 /\ 5 + 1 > 1
    OBVIOUS
  <2> QED
    BY <1>3, <1>8, <2>1
<1> HIDE DEF G
<1> QED
  BY <1>4, <1>5, <1>9, <1>10, ConcatBuffers

\* The applications of one breakdown.
LEMMA BuffersBreakdowns ==
  /\ BuffersFit(AxAx) /\ BuffersFit(AxAxComp) /\ BuffersFit(GpAx)
  /\ BuffersFit(GpAxComp) /\ BuffersFit(AxGp) /\ BuffersFit(GpGp)
<1>1. \A x : Has({}, x) => BuffersFit(<<x>>)
  <2> TAKE x
  <2> HAVE Has({}, x)
  <2>1. <<x>> \in Seq({x}) /\ \A y \in {x} : Has({}, y)
    OBVIOUS
  <2> QED
    BY <2>1, OfSelfContained
<1>2. \A st, uses, a :
        uses \subseteq a =>
          BuffersFit(<<blocking_breakdown(Phases(st, FALSE, uses), a, a)>>)
  <2> TAKE st, uses, a
  <2> HAVE uses \subseteq a
  <2>1. Touches({}, uses, {}, a, a)
    BY DEF Touches
  <2>2. Has({}, blocking_breakdown(Phases(st, FALSE, uses), a, a))
    BY <2>1, PhasesHave DEF blocking_breakdown
  <2> QED
    BY <1>1, <2>2
<1>3. BuffersFit(AxAx) /\ BuffersFit(AxAxComp)
  BY <1>2
     DEF AxAx, AxAxComp, memcpy_decomp_axcore_axcore_stamped,
         memcpy_comp_axcore_axcore_stamped, axcore_axcore_two_phase_timed,
         axcore_iaa_aecs_axcore_two_phase, axcore_axcore_allocator,
         free_axcore_axcore, axcore_axcore_compress_aecs_allocator,
         free_axcore_axcore_compress_aecs
<1>4. BuffersFit(GpAx) /\ BuffersFit(AxGp) /\ BuffersFit(GpGp)
  <2>1. /\ ThreePhaseArgs \cup {} \subseteq ThreePhaseArgs
        /\ (ThreePhaseArgs \ {"desc"}) \cup {} \subseteq ThreePhaseArgs
    OBVIOUS
  <2> QED
    BY <1>2, <2>1
       DEF GpAx, AxGp, GpGp, memcpy_decomp_gpcore_axcore_stamped,
           memcpy_decomp_axcore_gpcore_stamped,
           memcpy_decomp_gpcore_gpcore_stamped, null_fn,
           gpcore_do_deflate_decompress, generic_blocking_three_phase_timed,
           generic_gpcore_three_phase_timed, three_func_allocator,
           free_three_phase_stamped_args, null_two_func_allocator,
           free_null_two_phase
<1>5. BuffersFit(GpAxComp)
  <2>1. Touches({}, ThreePhaseArgs \cup {"aecs"}, {},
                ThreePhaseArgs \cup {"aecs"}, ThreePhaseArgs)
    BY DEF Touches
  <2> QED
    BY <1>1, <2>1, PhasesHave
       DEF GpAxComp, blocking_breakdown, memcpy_comp_gpcore_axcore_stamped,
           gpcore_iaa_aecs_axcore_gpcore_three_phase,
           memcpy_comp_gpcore_axcore_null_allocator,
           free_three_phase_stamped_args
<1> QED
  BY <1>3, <1>4, <1>5

\* Every program but mlp has the buffers that its runs touch: the allocator
\* of the run sets them up, or main filled them before, and no free function
\* frees what another run still needs.
THEOREM ProgramsBuffersFit == \A p \in Programs : p # Mlp => BuffersFit(p)
BY BuffersDecompAndHash, BuffersDecompAndScatter, BuffersMemfillAndGather,
   BuffersThreePhase, BuffersTraverse, BuffersDeser, BuffersGather,
   BuffersBreakdowns DEF Programs, Composable

-----------------------------------------------------------------------------
(***************************************************************************)
(* How many results the runs of a plan store.                              *)
(***************************************************************************)
\* A run has as many slots as its executor has results: one, or one for each
\* interval between two time stamps.
SlotsOf(x) ==
  \/ x.kind = "populates"
  \/ x.slots = IF x.harness.executor.stamps
               THEN TotalRequests \div x.harness.interval ELSE 1

Slotted(p) == \E S : p \in Seq(S) /\ \A x \in S : SlotsOf(x)

\* The samples of a run divide its requests.
SamplesDivide == \E q \in Nat : TotalRequests = SamplesPerRun * q

\* Then as many intervals fit into a run as it has samples.
LEMMA IntervalsAreSamples ==
  SamplesDivide =>
    TotalRequests \div (TotalRequests \div SamplesPerRun) = SamplesPerRun
<1> HAVE SamplesDivide
<1>1. PICK q \in Nat : TotalRequests = SamplesPerRun * q
  BY DEF SamplesDivide
<1>2. SamplesPerRun \in Nat \ {0} /\ TotalRequests \in Nat \ {0}
  BY HwPlansAssumption
<1>3. \A s \in Nat \ {0} : \A n \in Nat : s * n > 0 => n > 0
  OBVIOUS
<1>4. q > 0
  BY <1>1, <1>2, <1>3
<1>5. \A s \in Nat \ {0} : \A n \in Nat : n > 0 => (s * n) \div s = n
  OBVIOUS
<1>6. \A s \in Nat \ {0} : \A n \in Nat : n > 0 => (s * n) \div n = s
  OBVIOUS
<1>7. TotalRequests \div SamplesPerRun = q
  BY <1>1, <1>2, <1>4, <1>5
<1> QED
  BY <1>1, <1>2, <1>4, <1>6, <1>7

\* Every runner stores what its executor returns.
LEMMA RunnersStore ==
  SamplesDivide =>
    \A fn, fl, a, f :
      /\ SlotsOf(run_gpcore_request_brkdown(fn, a, f))
      /\ SlotsOf(run_blocking_offload_request_brkdown(fn, a, f))
      /\ SlotsOf(run_yielding_interleaved_request_brkdown(fn, fl, a, f))
      /\ SlotsOf(run_yielding_multiple_filler_request_brkdown(fn, fl, a, f))
      /\ SlotsOf(run_gpcore_offeredLoad(fn, a, f))
      /\ SlotsOf(run_blocking_offered_load(fn, a, f))
      /\ SlotsOf(run_yielding_offered_load(fn, a, f))
      /\ SlotsOf(blocking_breakdown(fn, a, f))
      /\ SlotsOf(blocking_throughput(fn, a, f))
      /\ SlotsOf(yielding_runs(fn, fl, a, f)[1])
      /\ SlotsOf(yielding_runs(fn, fl, a, f)[2])
<1> HAVE SamplesDivide
<1> TAKE fn, fl, a, f
<1>1. /\ SlotsOf(run_gpcore_request_brkdown(fn, a, f))
      /\ SlotsOf(run_blocking_offload_request_brkdown(fn, a, f))
      /\ SlotsOf(run_yielding_interleaved_request_brkdown(fn, fl, a, f))
      /\ SlotsOf(run_yielding_multiple_filler_request_brkdown(fn, fl, a, f))
  BY DEF SlotsOf, Runs, Harness, Sequential, OneInFlight,
         run_gpcore_request_brkdown, gpcore_request_breakdown,
         execute_gpcore_requests_closed_system_request_breakdown,
         run_blocking_offload_request_brkdown, blocking_ax_request_breakdown,
         execute_blocking_requests_closed_system_request_breakdown,
         run_yielding_interleaved_request_brkdown,
         yielding_same_interleaved_request_breakdown,
         execute_yielding_requests_interleaved,
         run_yielding_multiple_filler_request_brkdown,
         yielding_multiple_filler_request_breakdown,
         execute_yielding_requests_multiple_filler_requests
<1>2. /\ SlotsOf(run_gpcore_offeredLoad(fn, a, f))
      /\ SlotsOf(run_blocking_offered_load(fn, a, f))
  BY DEF SlotsOf, Runs, Harness, Sequential, run_gpcore_offeredLoad,
         gpcore_closed_loop_test, run_blocking_offered_load,
         execute_gpcore_requests_closed_system_with_sampling,
         blocking_request_offered_load,
         execute_blocking_requests_closed_system_with_sampling
<1>3. SlotsOf(run_yielding_offered_load(fn, a, f))
  BY IntervalsAreSamples
     DEF SlotsOf, Runs, Harness, Overlapping, run_yielding_offered_load,
         yielding_request_offered_load, num_requests_before_stamp,
         execute_yielding_requests_closed_system_with_sampling
<1>4. \A e, g : ~e.stamps => SlotsOf(run_three_phase_offload_timed(e, g, a, f))
  BY DEF SlotsOf, Runs, Harness, run_three_phase_offload_timed,
         three_phase_offload_timed_breakdown
<1>5. /\ SlotsOf(blocking_breakdown(fn, a, f))
      /\ SlotsOf(blocking_throughput(fn, a, f))
  BY <1>4
     DEF blocking_breakdown, blocking_throughput, Sequential,
         execute_three_phase_blocking_requests_closed_system_throughput,
         execute_three_phase_blocking_requests_closed_system_request_breakdown
<1>6. /\ SlotsOf(yielding_runs(fn, fl, a, f)[1])
      /\ SlotsOf(yielding_runs(fn, fl, a, f)[2])
  BY <1>4
     DEF yielding_runs, Overlapping,
         execute_yielding_three_phase_request_throughput,
         execute_three_phase_yielding_requests_closed_system_request_breakdown
<1> QED
  BY <1>1, <1>2, <1>3, <1>5, <1>6

\* Plans one after the other, and a part of a plan.
LEMMA SlottedParts ==
  /\ \A p, q : Slotted(p) /\ Slotted(q) => Slotted(p \o q)
  /\ \A p : \A i \in 1 .. Len(p) : Slotted(p) => Slotted(SubSeq(p, i, i))
<1>1. ASSUME NEW p, NEW q, Slotted(p), Slotted(q)
      PROVE  Slotted(p \o q)
  <2>1. PICK S : p \in Seq(S) /\ \A x \in S : SlotsOf(x)
    BY <1>1 DEF Slotted
  <2>2. PICK T : q \in Seq(T) /\ \A x \in T : SlotsOf(x)
    BY <1>1 DEF Slotted
  <2>3. p \o q \in Seq(S \cup T)
    BY <2>1, <2>2
  <2> QED
    BY <2>1, <2>2, <2>3 DEF Slotted
<1>2. ASSUME NEW p, NEW i \in 1 .. Len(p), Slotted(p)
      PROVE  Slotted(SubSeq(p, i, i))
  <2>1. PICK S : p \in Seq(S) /\ \A x \in S : SlotsOf(x)
    BY <1>2 DEF Slotted
  <2>2. SubSeq(p, i, i) \in Seq(S)
    BY <2>1
  <2> QED
    BY <2>1, <2>2 DEF Slotted
<1> QED
  BY <1>1, <1>2

\* Every program of the repository stores as many results as it has slots for
\* if its samples divide its requests (run_yielding_offered_load).
THEOREM ProgramsSlotted == SamplesDivide => \A p \in Programs : Slotted(p)
<1> SUFFICES ASSUME SamplesDivide PROVE \A p \in Programs : Slotted(p)
  OBVIOUS
<1>p. \A b : SlotsOf(Populates(b))
  BY DEF SlotsOf, Populates
<1>e. \A p : \A n \in Nat :
        (/\ p \in Seq({p[k] : k \in 1 .. n})
         /\ \A k \in 1 .. n : SlotsOf(p[k])) => Slotted(p)
  BY DEF Slotted
<1>1. Slotted(DecompAndHashLatency)
  <2> DEFINE p == DecompAndHashLatency
  <2>1. p \in Seq({p[k] : k \in 1 .. 4}) /\ \A k \in 1 .. 4 : SlotsOf(p[k])
    BY RunnersStore DEF DecompAndHashLatency
  <2> QED
    BY <1>e, <2>1
<1>2. Slotted(DecompAndHashThroughput)
  <2> DEFINE p == DecompAndHashThroughput
  <2>1. p \in Seq({p[k] : k \in 1 .. 3}) /\ \A k \in 1 .. 3 : SlotsOf(p[k])
    BY RunnersStore DEF DecompAndHashThroughput
  <2> QED
    BY <1>e, <2>1
<1>3. Slotted(DecompAndScatterLatency)
  <2> DEFINE p == DecompAndScatterLatency
  <2>1. p \in Seq({p[k] : k \in 1 .. 5}) /\ \A k \in 1 .. 5 : SlotsOf(p[k])
    BY <1>p, RunnersStore DEF DecompAndScatterLatency
  <2> QED
    BY <1>e, <2>1
<1>4. Slotted(DecompAndScatterThroughput)
  <2> DEFINE p == DecompAndScatterThroughput
  <2>1. p \in Seq({p[k] : k \in 1 .. 3}) /\ \A k \in 1 .. 3 : SlotsOf(p[k])
    BY RunnersStore DEF DecompAndScatterThroughput
  <2> QED
    BY <1>e, <2>1
<1>5. Slotted(Mlp)
  <2> DEFINE p == Mlp
  <2>1. \A k \in 1 .. 8 : SlotsOf(p[k])
    <3>1. /\ SlotsOf(p[1]) /\ SlotsOf(p[2]) /\ SlotsOf(p[3]) /\ SlotsOf(p[4])
          /\ SlotsOf(p[5]) /\ SlotsOf(p[6]) /\ SlotsOf(p[7]) /\ SlotsOf(p[8])
      BY <1>p, RunnersStore DEF Mlp
    <3> QED
      BY <3>1
  <2>2. Mlp \in Seq({Mlp[k] : k \in 1 .. 8})
    BY DEF Mlp
  <2> QED
    BY <1>e, <2>1, <2>2
<1>6. Slotted(MemfillAndGather) /\ Slotted(Traverse)
  <2> DEFINE p == MemfillAndGather
             q == Traverse
  <2>1. p \in Seq({p[k] : k \in 1 .. 5}) /\ \A k \in 1 .. 5 : SlotsOf(p[k])
    BY RunnersStore DEF MemfillAndGather
  <2>2. q \in Seq({q[k] : k \in 1 .. 5}) /\ \A k \in 1 .. 5 : SlotsOf(q[k])
    BY RunnersStore DEF Traverse
  <2> QED
    BY <1>e, <2>1, <2>2
<1>7. Slotted(ThreePhase)
  <2> DEFINE part(blocking, yielding, alloc, free) ==
        <<run_blocking_offload_request_brkdown(blocking, alloc, free),
          run_yielding_interleaved_request_brkdown(
            yielding, hash_interleaved, alloc, free),
          run_yielding_interleaved_request_brkdown(
            yielding, antagonist_interleaved, alloc, free)>>
  <2>1. \A blocking, yielding, alloc, free :
          Slotted(part(blocking, yielding, alloc, free))
    <3> TAKE blocking, yielding, alloc, free
    <3> DEFINE p == part(blocking, yielding, alloc, free)
    <3>1. p \in Seq({p[k] : k \in 1 .. 3}) /\ \A k \in 1 .. 3 : SlotsOf(p[k])
      BY RunnersStore
    <3> QED
      BY <1>e, <3>1
  <2> HIDE DEF part
  <2>2. \A b, y, a, f, c, z, d, g :
          Slotted(part(b, y, a, f) \o part(c, z, d, g))
    BY <2>1, SlottedParts
  <2> QED
    BY <2>2 DEF ThreePhase, part
<1>8. Slotted(Deser) /\ Slotted(Gather)
  <2>1. \A x, y, a, f :
          /\ yielding_runs(x, y, a, f) \in
               Seq({yielding_runs(x, y, a, f)[k] : k \in 1 .. 2})
          /\ \A k \in 1 .. 2 : SlotsOf(yielding_runs(x, y, a, f)[k])
    BY RunnersStore DEF yielding_runs
  <2>2. \A x, y, a, f : Slotted(yielding_runs(x, y, a, f))
    BY <1>e, <2>1
  <2>3. \A w, x, y, z, a, f :
          LET p == <<blocking_breakdown(w, a, f), blocking_throughput(x, a, f),
                     blocking_breakdown(y, a, f), blocking_throughput(z, a, f)>>
              q == <<Populates("glob_indir_arr"),
                     blocking_breakdown(w, a, f), blocking_throughput(x, a, f),
                     blocking_breakdown(y, a, f), blocking_throughput(z, a, f)>>
          IN Slotted(p) /\ Slotted(q)
    <3> TAKE w, x, y, z, a, f
    <3> DEFINE p ==
                 <<blocking_breakdown(w, a, f), blocking_throughput(x, a, f),
                   blocking_breakdown(y, a, f), blocking_throughput(z, a, f)>>
               q ==
                 <<Populates("glob_indir_arr"),
                   blocking_breakdown(w, a, f), blocking_throughput(x, a, f),
                   blocking_breakdown(y, a, f), blocking_throughput(z, a, f)>>
    <3>1. p \in Seq({p[k] : k \in 1 .. 4}) /\ \A k \in 1 .. 4 : SlotsOf(p[k])
      BY RunnersStore
    <3>2. q \in Seq({q[k] : k \in 1 .. 5}) /\ \A k \in 1 .. 5 : SlotsOf(q[k])
      BY <1>p, RunnersStore
    <3> QED
      BY <1>e, <3>1, <3>2
  <2> QED
    BY <2>2, <2>3, SlottedParts DEF Deser, Gather
<1>9. /\ Slotted(AxAx) /\ Slotted(AxAxComp) /\ Slotted(GpAx)
      /\ Slotted(GpAxComp) /\ Slotted(AxGp) /\ Slotted(GpGp)
  <2>1. \A fn, a, f : Slotted(<<blocking_breakdown(fn, a, f)>>)
    <3> TAKE fn, a, f
    <3> DEFINE x == blocking_breakdown(fn, a, f)
    <3>1. SlotsOf(x)
      BY RunnersStore
    <3> HIDE DEF x
    <3> DEFINE S == {x}
    <3>2. <<x>> \in Seq(S) /\ \A y \in S : SlotsOf(y)
      BY <3>1
    <3> HIDE DEF S
    <3>3. Slotted(<<x>>)
      BY <3>2 DEF Slotted
    <3> QED
      BY <3>3 DEF x
  <2> QED
    BY <2>1 DEF AxAx, AxAxComp, GpAx, GpAxComp, AxGp, GpGp
<1>10. \A i \in 1 .. 3 : Slotted(SubSeq(DecompAndHashThroughput, i, i))
  <2>1. Len(DecompAndHashThroughput) = 3
    BY DEF DecompAndHashThroughput
  <2> QED
    BY <1>2, <2>1, SlottedParts
<1>11. Slotted(DecompAndHash) /\ Slotted(DecompAndScatter)
  BY <1>1, <1>2, <1>3, <1>4, SlottedParts DEF DecompAndHash, DecompAndScatter
<1> QED
  BY <1>5, <1>6, <1>7, <1>8, <1>9, <1>10, <1>11
     DEF Programs, Composable, DecompAndHashMultiThreaded
=============================================================================
