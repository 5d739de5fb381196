------------------------------ MODULE AxProgram ------------------------------
(***************************************************************************)
(* The programs that run requests over the emulated accelerator: walker    *)
(* (src/walker.cpp) and the router program (src/switch_to_fill.cpp).       *)
(* A program starts the ax thread, goes through a plan of runs and stops   *)
(* the thread.  In a run a test harness allocates the completion records,  *)
(* an executor (src/src/request_executors.cpp) schedules the requests, and *)
(* each request submits one offload.                                       *)
(*                                                                         *)
(* The requests are fibers of the host thread, so the host of EmulAx is    *)
(* whichever fiber runs; this module composes it with the scheduling that  *)
(* EmulAx's general client leaves open.                                    *)
(*                                                                         *)
(* The runs on the general-purpose core alone share the program's counters  *)
(* and its order, not the accelerator.  Time stamps are left out.          *)
(***************************************************************************)
EXTENDS EmulAx

CONSTANTS
  Totals,  \* the values total_requests may have
  iter,    \* how often the router program repeats a harness
  Plans    \* the programs: what their main functions do, in order

ASSUME AxProgramAssumption ==
  /\ Totals \subseteq Nat \ {0}
  /\ iter \in Nat
  /\ \A t \in Totals : 0 .. t - 1 \subseteq Comps  \* request i submits comps[i]

(***************************************************************************)
(* Request functions: whether the request offloads, whether it yields or   *)
(* spins while its offload is in flight, and whether it watches            *)
(* total_offloads.                                                         *)
(***************************************************************************)
OnCore == [offloads |-> FALSE, yields |-> FALSE, watches |-> FALSE]
Spinning == [offloads |-> TRUE, yields |-> FALSE, watches |-> FALSE]
Yielding(watching) ==
  [offloads |-> TRUE, yields |-> TRUE, watches |-> watching]

cpu_simple_ranker_request_stamped == OnCore
cpu_simple_ranker_request == OnCore
blocking_simple_ranker_request_stamped == Spinning
blocking_simple_ranker_request == Spinning
yielding_simple_ranker_request == Yielding(FALSE)
yielding_simple_ranker_request_stamped == Yielding(TRUE)

cpu_router_request == OnCore
cpu_router_request_stamp == OnCore
blocking_router_request == Spinning
blocking_router_request_stamp == Spinning
yielding_router_request == Yielding(FALSE)
yielding_router_request_stamp == Yielding(FALSE)

(***************************************************************************)
(* Executors.  OldestFirst: the oldest request in flight is resumed once   *)
(* its record is completed, another one is started while it is not.        *)
(* OneByOne: the next request is started when control comes back.          *)
(***************************************************************************)
OldestFirst == "oldest first"
OneByOne == "one by one"

execute_yielding_requests_closed_system_with_sampling == OldestFirst
execute_yielding_requests_closed_system_request_breakdown == OldestFirst
execute_blocking_requests_closed_system_with_sampling == OneByOne
execute_blocking_requests_closed_system_request_breakdown == OneByOne
execute_cpu_requests_closed_system_with_sampling == OneByOne
execute_cpu_requests_closed_system_request_breakdown == OneByOne
execute_gpcore_requests_closed_system_request_breakdown == OneByOne
execute_gpcore_requests_closed_system_with_sampling == OneByOne

(***************************************************************************)
(* Harnesses: a request function and the executor it is handed to.         *)
(***************************************************************************)
Runs(executor, fn) == [kind |-> "run", executor |-> executor, request |-> fn]

gpcore_request_breakdown(fn) ==
  Runs(execute_gpcore_requests_closed_system_request_breakdown, fn)
gpcore_closed_loop_test(fn) ==
  Runs(execute_gpcore_requests_closed_system_with_sampling, fn)
blocking_ax_closed_loop_test(fn) ==
  Runs(execute_blocking_requests_closed_system_with_sampling, fn)
blocking_ax_request_breakdown(fn) ==
  Runs(execute_blocking_requests_closed_system_request_breakdown, fn)
yielding_offload_ax_closed_loop_test(fn) ==
  Runs(execute_yielding_requests_closed_system_with_sampling, fn)
yielding_request_breakdown(fn) ==
  Runs(execute_yielding_requests_closed_system_request_breakdown, fn)

cpu_router_closed_loop_test ==
  Runs(execute_cpu_requests_closed_system_with_sampling, cpu_router_request)
cpu_router_request_breakdown ==
  Runs(execute_cpu_requests_closed_system_request_breakdown,
       cpu_router_request_stamp)
blocking_ax_router_closed_loop_test ==
  Runs(execute_blocking_requests_closed_system_with_sampling,
       blocking_router_request)
yielding_ax_router_closed_loop_test ==
  Runs(execute_yielding_requests_closed_system_with_sampling,
       yielding_router_request)
blocking_ax_router_request_breakdown_test ==
  Runs(execute_blocking_requests_closed_system_request_breakdown,
       blocking_router_request_stamp)
yielding_ax_router_request_breakdown_closed_loop_test ==
  Runs(execute_yielding_requests_closed_system_request_breakdown,
       yielding_router_request_stamp)

(***************************************************************************)
(* Programs: sequences of runs, starts and stops of the ax thread.         *)
(***************************************************************************)
start_non_blocking_ax == [kind |-> "start"]
stop_non_blocking_ax == [kind |-> "stop"]

run_gpcore_blocking_swtofill_simple_rank ==
  <<gpcore_request_breakdown(cpu_simple_ranker_request_stamped),
    start_non_blocking_ax,
    blocking_ax_request_breakdown(blocking_simple_ranker_request_stamped),
    yielding_request_breakdown(yielding_simple_ranker_request_stamped),
    gpcore_closed_loop_test(cpu_simple_ranker_request),
    blocking_ax_closed_loop_test(blocking_simple_ranker_request),
    yielding_offload_ax_closed_loop_test(yielding_simple_ranker_request),
    stop_non_blocking_ax>>

\* Lists of 32 documents, then lists of 512.
Walker ==
  run_gpcore_blocking_swtofill_simple_rank
    \o run_gpcore_blocking_swtofill_simple_rank

Repeated(run) == [i \in 1 .. iter |-> run]

SwitchToFill ==
  <<start_non_blocking_ax>>
    \o Repeated(cpu_router_closed_loop_test)
    \o Repeated(blocking_ax_router_closed_loop_test)
    \o Repeated(yielding_ax_router_closed_loop_test)
    \o Repeated(blocking_ax_router_request_breakdown_test)
    \o Repeated(yielding_ax_router_request_breakdown_closed_loop_test)
    \o Repeated(cpu_router_request_breakdown)
    \o <<stop_non_blocking_ax>>

\* A request that yields is only given to the executor that resumes it.
Items ==
  {start_non_blocking_ax, stop_non_blocking_ax}
    \cup {Runs(OldestFirst, Yielding(w)) : w \in BOOLEAN}
    \cup {Runs(OneByOne, r) : r \in {OnCore, Spinning}}

ASSUME PlansAssumption == Plans \subseteq Seq(Items)

VARIABLES
  ppc,                    \* where the program is, outside submit_offload
  plan, step,             \* the program, and where in it
  total_requests,
  allocated,              \* the completion records are allocated
  next_unstarted,         \* next_unstarted_req_idx
  next_to_complete,       \* next_request_offload_to_complete_idx
  requests_completed,
  before,                 \* offloads_before_yielding of each request
  reported,               \* the last count of offloads "while away", or 0
  started_at_report       \* requests started while that request was away

executor == <<next_unstarted, next_to_complete, requests_completed>>
monitor == <<before, reported, started_at_report>>
options == <<plan, total_requests>>
program == <<ppc, options, step, allocated, executor, monitor>>
pvars == <<vars, program>>

Item == plan[step]
Request == Item.request
Executor == Item.executor
Watching == Request.watches /\ gLogLevel >= LOG_MONITOR

PInit ==
  /\ Init
  /\ ppc = "main" /\ step = 1
  /\ plan \in Plans /\ total_requests \in Totals
  /\ allocated = FALSE
  /\ next_unstarted = 0 /\ next_to_complete = 0 /\ requests_completed = 0
  /\ before = [r \in Comps |-> 0]
  /\ reported = 0 /\ started_at_report = 0

-----------------------------------------------------------------------------
\* while(requests_completed < total_requests)
Mut_DoneOneEarly == requests_completed >= total_requests - 1
AllDone == requests_completed >= total_requests
Scheduling == ppc = "schedule" /\ ~AllDone

\* main is at an item of this kind.
AtItem(kind) == ppc = "main" /\ step <= Len(plan) /\ Item.kind = kind

Start ==
  /\ AtItem("start")
  /\ StartAx
  /\ step' = step + 1
  /\ UNCHANGED <<ppc, options, allocated, executor, monitor>>

\* The harness: fresh counters; if requests offload, fresh records, pending.
SetUp ==
  /\ AtItem("run")
  /\ IF Request.offloads THEN AllocateCrs ELSE UNCHANGED vars
  /\ ppc' = "schedule" /\ allocated' = Request.offloads
  /\ next_unstarted' = 0 /\ next_to_complete' = 0 /\ requests_completed' = 0
  /\ UNCHANGED <<options, step, monitor>>

TearDown ==
  /\ ppc = "schedule" /\ AllDone
  /\ allocated' = FALSE
  /\ ppc' = "main" /\ step' = step + 1
  /\ UNCHANGED <<vars, options, executor, monitor>>

Stop ==
  /\ AtItem("stop")
  /\ StopAx
  /\ ppc' = "join"
  /\ UNCHANGED <<options, step, allocated, executor, monitor>>

Join ==
  /\ ppc = "join"
  /\ Joined
  /\ ppc' = "main" /\ step' = step + 1
  /\ UNCHANGED <<options, allocated, executor, monitor>>

-----------------------------------------------------------------------------
(***************************************************************************)
(* The executors.  The yielding one looks at the oldest request in flight  *)
(* and starts another one only while that is pending; the blocking one     *)
(* starts the next request whenever control comes back to it.              *)
(***************************************************************************)
Mut_NoBound == TRUE
Mut_LastNotStarted == next_unstarted < total_requests - 1
RequestLeft == next_unstarted < total_requests

OldestCompleted ==
  comp_status[next_to_complete] = COMP_STATUS_COMPLETED

StartRequest ==
  /\ Scheduling
  /\ Request.offloads
  /\ Executor = OldestFirst =>
       ~OldestCompleted /\ RequestLeft
  /\ SubmitBegin(next_unstarted)
  /\ ppc' = "submit"
  /\ before' = IF Watching
               THEN [before EXCEPT ![next_unstarted] = total_offloads]
               ELSE before
  /\ UNCHANGED <<options, step, allocated, executor, reported,
                 started_at_report>>

Resume ==
  /\ Scheduling
  /\ Executor = OldestFirst /\ OldestCompleted
  /\ SeeCompleted(next_to_complete)
  /\ ppc' = "resumed"
  /\ UNCHANGED <<options, step, allocated, executor, monitor>>

-----------------------------------------------------------------------------
(***************************************************************************)
(* The request functions after submit_offload.                             *)
(***************************************************************************)
InSubmit ==
  /\ ppc = "submit"
  /\ SubmitSteps
  /\ UNCHANGED program

Mut_SameRequest == next_unstarted
NextRequest == next_unstarted + 1
Mut_SameOldest == next_to_complete
NextOldest == next_to_complete + 1
OneMoreCompleted == requests_completed + 1

\* Accepted: yield to the scheduler, or spin on the record.
Submitted ==
  /\ ppc = "submit"
  /\ ReturnSuccess
  /\ IF Request.yields
     THEN ppc' = "schedule" /\ next_unstarted' = NextRequest
     ELSE ppc' = "wait" /\ UNCHANGED next_unstarted
  /\ UNCHANGED <<options, step, allocated, next_to_complete, requests_completed,
                 monitor>>

Refused ==
  /\ ppc = "submit"
  /\ ReturnFail
  /\ UNCHANGED program

Mut_NoWait ==
  /\ ppc = "wait"
  /\ ppc' = "schedule"
  /\ requests_completed' = OneMoreCompleted
  /\ next_unstarted' = NextRequest
  /\ UNCHANGED <<vars, options, step, allocated, next_to_complete, monitor>>

BlockingFinish ==
  /\ ppc = "wait"
  /\ SeeCompleted(next_unstarted)
  /\ ppc' = "schedule"
  /\ requests_completed' = OneMoreCompleted
  /\ next_unstarted' = NextRequest
  /\ UNCHANGED <<options, step, allocated, next_to_complete, monitor>>

\* A request on the core runs from its start to its end.
CoreRequest ==
  /\ Scheduling
  /\ ~Request.offloads
  /\ requests_completed' = OneMoreCompleted
  /\ next_unstarted' = NextRequest
  /\ UNCHANGED <<vars, ppc, options, step, allocated, next_to_complete,
                 monitor>>

\* The resumed request reports how many offloads started while it was away,
\* finishes its work and gives control back to the executor.
YieldingFinish ==
  /\ ppc = "resumed"
  /\ ppc' = "schedule"
  /\ IF Watching
     THEN /\ reported' = total_offloads - before[next_to_complete] - 1
          /\ started_at_report' = next_unstarted - next_to_complete - 1
     ELSE UNCHANGED <<reported, started_at_report>>
  /\ requests_completed' = OneMoreCompleted
  /\ next_to_complete' = NextOldest
  /\ UNCHANGED <<vars, options, step, allocated, next_unstarted, before>>

-----------------------------------------------------------------------------
Program ==
  \/ Start \/ SetUp \/ TearDown \/ Stop \/ Join
  \/ StartRequest \/ Resume \/ InSubmit \/ Submitted \/ Refused
  \/ BlockingFinish \/ CoreRequest \/ YieldingFinish

AtEnd == ppc = "main" /\ step > Len(plan)
Ended == AtEnd /\ UNCHANGED pvars

Accelerator ==
  /\ AxNext \/ Tick \/ Exited
  /\ UNCHANGED program

PNext == Program \/ Accelerator \/ Ended

PSpec == PInit /\ [][PNext]_pvars

\* Both threads run and time passes.
PFairSpec ==
  /\ PSpec
  /\ WF_pvars(Program)
  /\ WF_pvars(AxNext /\ UNCHANGED program)
  /\ WF_pvars(Tick /\ UNCHANGED program)

-----------------------------------------------------------------------------
(***************************************************************************)
(* Properties.                                                             *)
(***************************************************************************)
PTypeOK ==
  /\ TypeOK
  /\ ppc \in {"main", "schedule", "submit", "wait", "resumed", "join"}
  /\ plan \in Plans /\ step \in 1 .. Len(plan) + 1
  /\ total_requests \in Totals
  /\ allocated \in BOOLEAN
  /\ {next_unstarted, next_to_complete, requests_completed}
       \subseteq 0 .. total_requests
  /\ before \in [Comps -> Nat]
  /\ reported \in Int /\ started_at_report \in Int

\* The program is a client EmulAx allows: it never submits a record it still
\* waits for, and replaces the records and stops the thread only when it waits
\* for none.
UsesAxProperly == Spec

\* The executors' indices are the requests in flight: those started and not
\* yet resumed are exactly the ones the host waits for, each is resumed once,
\* after it was started, and no index leaves the arrays.
IndicesMatchFlight ==
  /\ ppc = "schedule" /\ Executor = OldestFirst =>
       /\ next_to_complete = requests_completed
       /\ outstanding = next_to_complete .. next_unstarted - 1
  /\ ppc = "schedule" /\ Executor = OneByOne =>
       next_unstarted = requests_completed /\ outstanding = {}
  /\ ppc = "resumed" =>
       /\ next_to_complete < next_unstarted
       /\ outstanding = next_to_complete + 1 .. next_unstarted - 1

\* The accelerator holds no record of an array the harness has freed.
NoRecordHeldAfterFree == ~allocated => Taken = {}

\* The process ends early only in a yielding run with more requests than
\* max_inflight: a blocking run is never refused.
ExitsOnlyOverloaded ==
  hpc = "exited" => Request.yields /\ total_requests > MaxInflight

\* The number of "Requests Offloaded while Request %d was away" never wraps
\* below zero: by the time a request is resumed its own offload was counted.
ReportNotNegative == reported >= 0

\* "how many requests have started their offload phase" while it was away: the
\* number reported is the number of requests started in between.
ReportExact == reported = started_at_report

\* The program comes to its end, unless a refused submission ends it.
Terminates == <>(AtEnd \/ hpc = "exited")
=============================================================================
