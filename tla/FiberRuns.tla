------------------------------ MODULE FiberRuns ------------------------------
(***************************************************************************)
(* The programs over the DSA and IAA queues at run time: one thread that   *)
(* switches between the executor, the fibers of the requests and a filler, *)
(* while the devices answer (src/src/request_executors.cpp with the        *)
(* harnesses, the runners, the request functions and the fillers around    *)
(* it).  Which program runs is chosen at the start; HwPlans says what it   *)
(* is made of.                                                             *)
(*                                                                         *)
(* fcontext_swap saves the context of its caller and enters another.  All  *)
(* swaps of an executor are made from one frame, so that the contexts of   *)
(* it which fibers keep stay good until the executor returns.              *)
(***************************************************************************)
EXTENDS HwPlans

CONSTANT Plans  \* the programs

ASSUME PlansAssumption == \A p \in Plans : Len(p) > 0

VARIABLES
  plan, run, iter,       \* the program, its current runner and its iteration
  at,                    \* where the executor is
  cpu,                   \* who runs: "executor", "request" or "filler"
  running,               \* index of the request entered last
  request,               \* where each request is
  stage,                 \* the stage of each request
  next_unstarted,        \* next_unstarted_req_idx
  next_to_complete,      \* next_request_offload_to_complete_idx
  requests_completed,
  filler,                \* state of each filler fiber
  interleaved_started,
  p_sig,                 \* index of the record the filler probes
  stamps,                \* time stamps taken by this execution
  stored,                \* slots of exetime that this runner has written
  reported,              \* requests whose failure was reported
  live,                  \* buffers that are allocated
  exit                   \* how the process ended, "no" while it has not

program == <<plan, run, iter>>
counters == <<next_unstarted, next_to_complete, requests_completed>>
fillers == <<filler, interleaved_started, p_sig>>
results == <<stamps, stored, reported>>
hvars == <<at, cpu, running, request, stage, counters, fillers, results, live,
           exit>>
vars == <<qvars, program, hvars>>

Finished == run > Len(plan)
Runner == plan[run]
Harnessed == Runner.harness
Executor == Harnessed.executor
Stages == Runner.request.stages
Dangling == TotalRequests  \* p_sig before a filler set it

RequestStates ==
  {"created", "preparing", "submitting", "waiting", "yielded", "checking",
   "computing", "finished"}

TypeOK ==
  /\ QTypeOK
  /\ plan \in Plans
  /\ run \in 1 .. Len(plan) + 1
  /\ iter \in 1 .. Iterations
  /\ at \in {"set up", "schedule", "resumed", "await"}
  /\ cpu \in {"executor", "request", "filler"}
  /\ running \in Records
  /\ request \in [Records -> RequestStates]
  /\ stage \in [Records -> 1 .. 2]
  /\ next_unstarted \in 0 .. TotalRequests
  /\ next_to_complete \in 0 .. TotalRequests
  /\ requests_completed \in 0 .. TotalRequests
  /\ filler \in [Records -> {"created", "running", "yielded"}]
  /\ interleaved_started \in BOOLEAN
  /\ p_sig \in Records \cup {Dangling}
  /\ stamps \in Nat
  /\ stored \subseteq Nat
  /\ reported \subseteq Records
  /\ exit \in {"no", "refused", "failed", "stray", "division by zero"}

Init ==
  /\ QInit
  /\ plan \in Plans /\ run = 1 /\ iter = 1
  /\ at = "set up" /\ cpu = "executor" /\ running = 0
  /\ request = [r \in Records |-> "created"]
  /\ stage = [r \in Records |-> 1]
  /\ next_unstarted = 0 /\ next_to_complete = 0 /\ requests_completed = 0
  /\ filler = [f \in Records |-> "created"]
  /\ interleaved_started = FALSE /\ p_sig = Dangling
  /\ stamps = 0 /\ stored = {} /\ reported = {} /\ live = {}
  /\ exit = "no"

-----------------------------------------------------------------------------
(***************************************************************************)
(* Runners and harnesses                                                   *)
(***************************************************************************)
\* A harness before its executor: counters, records, buffers and contexts.
\* The executor begins with a time stamp.
SetUp ==
  /\ at = "set up"
  /\ Runner.kind = "runs"
  /\ IF Harnessed.interval = 0
     THEN /\ exit' = "division by zero"
          /\ UNCHANGED <<qvars, at, counters, request, stage, filler,
                         interleaved_started, results, live>>
     ELSE /\ at' = "schedule"
          /\ IF Harnessed.records THEN allocate_crs ELSE UNCHANGED comp_status
          /\ requests_completed' =
               IF Harnessed.resets THEN 0 ELSE requests_completed
          /\ request' = [r \in Records |-> "created"]
          /\ stage' = [r \in Records |-> 1]
          /\ next_unstarted' = 0 /\ next_to_complete' = 0
          /\ filler' = [f \in Records |-> "created"]
          /\ interleaved_started' = FALSE
          /\ stamps' = IF Executor.stamps THEN 1 ELSE 0
          /\ stored' = IF iter = 1 THEN {} ELSE stored
          /\ reported' = IF Harnessed.records THEN {} ELSE reported
          /\ live' = (live \cap Globals) \cup Runner.alloc
          /\ UNCHANGED <<wq, exit>>
  /\ UNCHANGED <<program, cpu, running, p_sig>>

Populate ==
  /\ at = "set up"
  /\ Runner.kind = "populates"
  /\ live' = live \cup {Runner.buffer}
  /\ run' = run + 1
  /\ UNCHANGED <<qvars, plan, iter, at, cpu, running, request, stage, counters,
                 fillers, results, exit>>

Counter ==
  [requests_completed |-> requests_completed,
   next_to_complete |-> next_to_complete,
   next_unstarted |-> next_unstarted]

Mut_Done == Counter[Executor.done_when] > TotalRequests
\* The condition of the executor's loop does not hold any more.
Done == Counter[Executor.done_when] >= TotalRequests

SlotsWritten ==
  IF Executor.stamps THEN TotalRequests \div Harnessed.interval ELSE 1

\* The executor stores its results; the harness frees contexts, records and
\* buffers; the runner repeats it or the program goes on to its next runner.
TearDown ==
  /\ cpu = "executor" /\ at = "schedule"
  /\ Done
  /\ LET idx == (iter - 1) * Runner.slots IN
     stored' = stored \cup idx .. idx + SlotsWritten - 1
  /\ request' = [r \in Records |-> "created"]
  /\ p_sig' = Dangling
  /\ live' = live \ Runner.free
  /\ at' = "set up"
  /\ IF iter < Iterations THEN iter' = iter + 1 /\ run' = run
                          ELSE iter' = 1 /\ run' = run + 1
  /\ UNCHANGED <<qvars, plan, cpu, running, stage, counters, filler,
                 interleaved_started, stamps, reported, exit>>

-----------------------------------------------------------------------------
(***************************************************************************)
(* Executors.  Entering a fiber that cannot be entered is stray.           *)
(***************************************************************************)
\* Switch to the fiber of request r, which is to be in state from.
Enter(r, from, next) ==
  IF r \in Records /\ request[r] = from
  THEN /\ cpu' = "request" /\ running' = r
       /\ request' = [request EXCEPT ![r] = next]
       /\ UNCHANGED exit
  ELSE /\ exit' = "stray"
       /\ UNCHANGED <<cpu, running, request>>

Start(r) == Enter(r, "created", IF Stages = <<>> THEN "computing"
                                               ELSE "preparing")
Resume(r) == Enter(r, "yielded", "checking")

Mut_Passes(test, r) == TRUE
Passes(test, r) ==
  \/ test = "answered" /\ comp_status[r] # PENDING
  \/ test = "completed" /\ comp_status[r] = COMPLETED

AtSchedule(schedule) ==
  /\ cpu = "executor" /\ at = "schedule"
  /\ Executor.schedule = schedule
  /\ ~Done

\* One round of the loop of an overlapping executor.
ResumeOldest ==
  /\ AtSchedule("overlapping")
  /\ Passes(Executor.test, next_to_complete)
  /\ Resume(next_to_complete)
  /\ at' = "resumed"
  /\ UNCHANGED <<qvars, program, stage, counters, fillers, results, live>>

Mut_StampDue == Executor.stamps /\ requests_completed > 0
StampDue ==
  /\ Executor.stamps
  /\ requests_completed % Harnessed.interval = 0
  /\ requests_completed > 0

Resumed ==
  /\ cpu = "executor" /\ at = "resumed"
  /\ next_to_complete' = next_to_complete + 1
  /\ stamps' = IF StampDue THEN stamps + 1 ELSE stamps
  /\ at' = "schedule"
  /\ UNCHANGED <<qvars, program, cpu, running, request, stage, next_unstarted,
                 requests_completed, fillers, stored, reported, live, exit>>

StartAnother ==
  /\ AtSchedule("overlapping")
  /\ ~Passes(Executor.test, next_to_complete)
  /\ next_unstarted < TotalRequests
  /\ Start(next_unstarted)
  /\ next_unstarted' = next_unstarted + 1  \* when the request switches back
  /\ UNCHANGED <<qvars, program, at, stage, next_to_complete,
                 requests_completed, fillers, results, live>>

\* A sequential executor's loop.
StartNext ==
  /\ AtSchedule("sequential")
  /\ Start(next_unstarted)
  /\ next_unstarted' = next_unstarted + 1  \* when the request switches back
  /\ UNCHANGED <<qvars, program, at, stage, next_to_complete,
                 requests_completed, fillers, results, live>>

\* An executor with one request in flight.
StartOne ==
  /\ AtSchedule("one in flight")
  /\ Start(requests_completed)
  /\ at' = "await"
  /\ interleaved_started' =
       (Executor.fillers = "one" /\ interleaved_started)
  /\ UNCHANGED <<qvars, program, stage, counters, filler, p_sig, results,
                 live>>

Awaiting == cpu = "executor" /\ at = "await"

\* The filler fiber the executor uses.
TheFiller == IF Executor.fillers = "each" THEN requests_completed ELSE 0

\* The record it passes with every switch to a filler.  The filler takes it
\* for its signal: in init_probe when it starts, in probe_point later.
Mut_NextSignal == next_to_complete
Mut_NoSignal == Dangling
Signal == requests_completed

EnterFiller ==
  /\ Awaiting
  /\ Executor.fillers # "none"
  /\ ~Passes(Executor.test, requests_completed)
  /\ IF filler[TheFiller] =
          (IF interleaved_started THEN "yielded" ELSE "created")
     THEN /\ cpu' = "filler"
          /\ filler' = [filler EXCEPT ![TheFiller] = "running"]
          /\ p_sig' = Signal
          /\ UNCHANGED exit
     ELSE exit' = "stray" /\ UNCHANGED <<cpu, filler, p_sig>>
  /\ interleaved_started' = TRUE
  /\ UNCHANGED <<qvars, program, at, running, request, stage, counters,
                 results, live>>

\* probe_point: the filler switches back when its signal is set.
YieldFiller ==
  /\ cpu = "filler"
  /\ p_sig # Dangling
  /\ comp_status[p_sig] = COMPLETED
  /\ cpu' = "executor"
  /\ filler' = [filler EXCEPT ![TheFiller] = "yielded"]
  /\ UNCHANGED <<qvars, program, at, running, request, stage, counters,
                 interleaved_started, p_sig, results, live, exit>>

ResumeOne ==
  /\ Awaiting
  /\ Passes(Executor.test, requests_completed)
  /\ Resume(requests_completed)
  /\ at' = "schedule"
  /\ UNCHANGED <<qvars, program, stage, counters, fillers, results, live>>

-----------------------------------------------------------------------------
(***************************************************************************)
(* Requests                                                                *)
(***************************************************************************)
InRequest(state) == cpu = "request" /\ request[running] = state

Become(state) == request' = [request EXCEPT ![running] = state]

Prepare ==
  /\ InRequest("preparing")
  /\ Prepared(Stages[stage[running]].prepare, running)
  /\ Become("submitting")
  /\ UNCHANGED <<wq, program, at, cpu, running, stage, counters, fillers,
                 results, live, exit>>

\* A yielding request switches to the executor, a blocking one spins.
Submit ==
  /\ InRequest("submitting")
  /\ Enqueue(Stages[stage[running]].submit, running)
  /\ IF Runner.request.yields
     THEN Become("yielded") /\ cpu' = "executor"
     ELSE Become("waiting") /\ UNCHANGED cpu
  /\ UNCHANGED <<comp_status, program, at, running, stage, counters, fillers,
                 results, live, exit>>

\* The request returns from its function, which ends the process.
Return(how) ==
  /\ exit' = how
  /\ UNCHANGED <<qvars, program, at, cpu, running, request, stage, counters,
                 fillers, results, live>>

SubmitFails ==
  /\ InRequest("submitting")
  /\ Rejected(Stages[stage[running]].submit)
  /\ Return("refused")

SpinOn ==
  /\ InRequest("waiting")
  /\ spin_on(running)
  /\ Become("checking")
  /\ UNCHANGED <<qvars, program, at, cpu, running, stage, counters, fillers,
                 results, live, exit>>

Mut_Failed == comp_status[running] = PENDING
Failed == comp_status[running] # COMPLETED

\* A failure that the request does not give up on leads nowhere else.
Check ==
  /\ InRequest("checking")
  /\ ~(Failed /\ Runner.request.on_failure = GivesUp)
  /\ reported' = IF Failed /\ Runner.request.on_failure = Reports
                 THEN reported \cup {running} ELSE reported
  /\ IF stage[running] < Len(Stages)
     THEN Become("preparing") /\ stage' = [stage EXCEPT ![running] = @ + 1]
     ELSE Become("computing") /\ UNCHANGED stage
  /\ UNCHANGED <<qvars, program, at, cpu, running, counters, fillers, stamps,
                 stored, live, exit>>

GiveUp ==
  /\ InRequest("checking")
  /\ Failed /\ Runner.request.on_failure = GivesUp
  /\ Return("failed")

\* The request is done and switches to the executor for good.
Complete ==
  /\ InRequest("computing")
  /\ Become("finished")
  /\ cpu' = "executor"
  /\ requests_completed' = IF Runner.request.counts
                           THEN requests_completed + 1 ELSE requests_completed
  /\ UNCHANGED <<qvars, program, at, running, stage, next_unstarted,
                 next_to_complete, fillers, results, live, exit>>

-----------------------------------------------------------------------------
Answer(c) == DeviceCompletes(c) /\ UNCHANGED <<program, hvars>>

Up == exit = "no" /\ ~Finished

Host ==
  /\ Up
  /\ \/ SetUp \/ Populate \/ TearDown
     \/ ResumeOldest \/ Resumed \/ StartAnother \/ StartNext
     \/ StartOne \/ EnterFiller \/ YieldFiller \/ ResumeOne
     \/ Prepare \/ Submit \/ SubmitFails \/ SpinOn \/ Check \/ GiveUp
     \/ Complete

Stopped == ~Up /\ UNCHANGED vars

Next ==
  \/ Host
  \/ Up /\ \E c \in Records : Answer(c)
  \/ Stopped

Spec == Init /\ [][Next]_vars

\* The one thread runs, and a device answers every descriptor it took.
FairSpec ==
  /\ Spec
  /\ WF_vars(Host)
  /\ \A c \in Records : WF_vars(Up /\ Answer(c))

-----------------------------------------------------------------------------
(***************************************************************************)
(* Properties                                                              *)
(***************************************************************************)
\* The executors keep the promise of RequestService: requests are served in
\* order, each once and only when answered, within the queue's capacity.
Reached(r) == request[r] \in {"waiting", "yielded", "checking", "computing",
                              "finished"}
Accelerated == ~Finished /\ Runner.kind = "runs" /\ Stages # <<>>
Offloaded ==
  {r \in Records : Accelerated /\ Reached(r) /\ stage[r] = Len(Stages)}

Service == INSTANCE RequestService WITH
  Requests <- Records,
  Capacity <- WqSize,
  accelerated <- Accelerated,
  offloaded <- Offloaded,
  answered <- {r \in Offloaded : comp_status[r] # PENDING},
  served <- {r \in Records : request[r] = "finished"}

ServesInOrder == Service!SSpec

\* The executors enter only fibers that have not started or have yielded, and
\* a harness divides by a sampling interval of zero only if its run is to have
\* more samples than requests.
NeverStray ==
  /\ exit # "stray"
  /\ exit = "division by zero" => TotalRequests < SamplesPerRun

\* A filler that runs probes the record the executor waits for, and no other.
FillerWatches == cpu = "filler" => p_sig = running /\ request[p_sig] = "yielded"

\* When an executor's loop ends every request is finished and no device holds
\* a descriptor, so that the harness may free records, contexts and buffers.
TeardownSafe ==
  (Up /\ cpu = "executor" /\ at = "schedule" /\ Done) =>
    /\ InFlight = {}
    /\ \A r \in Records : request[r] = "finished"

\* The sampling executor has stamped its start and each interval completed.
StampsExact ==
  (Up /\ at = "schedule" /\ cpu = "executor" /\ Executor.stamps) =>
    stamps = 1 + requests_completed \div Harnessed.interval

\* After iteration i of a runner exactly its first i * slots results are
\* there: no iteration writes into the next one's, or past the array.
SamplesExact ==
  [][at = "schedule" /\ at' = "set up" =>
       stored' = 0 .. iter * Runner.slots - 1]_vars

\* Requests and fillers touch only buffers that are allocated.
ReadsLive ==
  /\ cpu = "request" => Runner.request.uses \subseteq live
  /\ cpu = "filler" => Runner.filler \subseteq live

\* A harness frees only what is allocated: nothing twice.
FreesLive ==
  (Up /\ cpu = "executor" /\ at = "schedule" /\ Done) =>
    Runner.free \subseteq live

\* A refused submission can end the process only in a run that overlaps more
\* requests than the queue holds.
RefusedOnlyUnderLoad ==
  exit = "refused" =>
    Executor.schedule = "overlapping" /\ TotalRequests > WqSize

\* The executor resumes a request only after success, or not at all.
WaitsForSuccess(r) == request[r] = "yielded" /\ Executor.test = "completed"

OffloadFailed(r) ==
  Accelerated /\ at # "set up" /\ comp_status[r] = ERROR

\* "Decompress failed": a failed offload is reported, or ends the process.
FailureReported ==
  \A r \in Records : OffloadFailed(r) ~> (r \in reported \/ exit # "no")

\* It is so whenever the request looks at the status and gets to run: only
\* under executors that wait for success can a failure pass unseen.
FailureSeen ==
  \A r \in Records :
    (OffloadFailed(r) /\ Runner.request.on_failure # Ignores
       /\ ~WaitsForSuccess(r))
      ~> (r \in reported \/ exit # "no")

\* Every program comes to its end or stops at an error, unless it waits for
\* the success of an offload that failed: on devices that answer every
\* descriptor with success, each program ends.
EndsOrHangs ==
  <>[](~Up \/ \E r \in Records :
                Accelerated /\ OffloadFailed(r) /\ WaitsForSuccess(r))
=============================================================================
