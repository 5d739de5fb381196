--------------------------- MODULE AxProgramProofs ---------------------------
(***************************************************************************)
(* Theorems about AxProgram, for every plan made of its items, every number *)
(* of requests and every value of EmulAx's constants.  A program is proved   *)
(* to be one of the clients EmulAx allows, and what is proved of EmulAx      *)
(* carries over to it.                                                       *)
(***************************************************************************)
EXTENDS AxProgram, EmulAxProofs

InRun == ppc \in {"schedule", "submit", "wait", "resumed"}

PTypes ==
  /\ ppc \in {"main", "schedule", "submit", "wait", "resumed", "join"}
  /\ plan \in Plans /\ step \in 1 .. Len(plan) + 1
  /\ total_requests \in Totals
  /\ allocated \in BOOLEAN
  /\ next_unstarted \in 0 .. total_requests
  /\ next_to_complete \in 0 .. total_requests
  /\ requests_completed \in 0 .. total_requests
  /\ before \in [Comps -> Nat]
  /\ reported \in Int /\ started_at_report \in Int
  /\ ppc # "main" => step <= Len(plan)
  /\ InRun => Item.kind = "run"

\* What the executor's indices say about the requests in flight, at every point
\* of a run.
InOrder == Executor = OldestFirst /\ next_to_complete = requests_completed
InTurn == Executor = OneByOne /\ next_unstarted = requests_completed

Flight ==
  /\ ppc \in {"main", "join"} => outstanding = {}
  /\ ppc \in {"schedule", "submit"} =>
       \/ /\ InOrder /\ next_to_complete <= next_unstarted
          /\ outstanding = next_to_complete .. next_unstarted - 1
       \/ InTurn /\ outstanding = {}
  /\ ppc = "wait" =>
       InTurn /\ next_unstarted < total_requests
              /\ outstanding = {next_unstarted}
  /\ ppc = "resumed" =>
       /\ InOrder /\ next_to_complete < next_unstarted
       /\ outstanding = next_to_complete + 1 .. next_unstarted - 1

\* submit_offload is only called by the request that is being started.
Calls ==
  /\ hpc \in InCall \cup {"exited"} => ppc = "submit"
  /\ ppc = "submit" => next_unstarted < total_requests /\ hcomp = next_unstarted
  /\ ppc \in {"submit", "wait", "resumed"} => Request.offloads

\* The record of a request that is not started is pending.
Fresh ==
  InRun /\ Request.offloads =>
    \A c \in next_unstarted .. total_requests - 1 :
      c # next_unstarted \/ ppc \notin {"submit", "wait"} =>
        comp_status[c] = COMP_STATUS_PENDING

Allocation ==
  /\ ppc \in {"main", "join"} => ~allocated
  /\ InRun => allocated = Request.offloads

PCore == PTypes /\ Flight /\ Calls /\ Fresh /\ Allocation
PInv == DeviceInv /\ HoldInv /\ PCore

-----------------------------------------------------------------------------
\* A harness is one of the items, if its executor fits its request.
LEMMA HarnessIsItem ==
  /\ \A w \in BOOLEAN : Runs(OldestFirst, Yielding(w)) \in Items
  /\ Runs(OneByOne, OnCore) \in Items /\ Runs(OneByOne, Spinning) \in Items
  /\ start_non_blocking_ax \in Items /\ stop_non_blocking_ax \in Items
BY DEF Items

\* Repeating an item gives a sequence of items.
LEMMA RepeatedItems ==
  ASSUME NEW item \in Items
  PROVE  Repeated(item) \in Seq(Items)
BY AxProgramAssumption DEF Repeated

\* The programs of the code are made of the items the theorems are about.
THEOREM ProgramsOfTheCode == {Walker, SwitchToFill} \subseteq Seq(Items)
<1>1. Walker \in Seq(Items)
  <2> DEFINE p == run_gpcore_blocking_swtofill_simple_rank
  <2>1. /\ gpcore_request_breakdown(cpu_simple_ranker_request_stamped) \in Items
        /\ gpcore_closed_loop_test(cpu_simple_ranker_request) \in Items
    BY HarnessIsItem
    DEF gpcore_request_breakdown, gpcore_closed_loop_test,
        cpu_simple_ranker_request_stamped, cpu_simple_ranker_request,
        execute_gpcore_requests_closed_system_request_breakdown,
        execute_gpcore_requests_closed_system_with_sampling
  <2>2. /\ blocking_ax_request_breakdown(
               blocking_simple_ranker_request_stamped) \in Items
        /\ blocking_ax_closed_loop_test(blocking_simple_ranker_request)
             \in Items
    BY HarnessIsItem
    DEF blocking_ax_request_breakdown, blocking_ax_closed_loop_test,
        blocking_simple_ranker_request_stamped, blocking_simple_ranker_request,
        execute_blocking_requests_closed_system_request_breakdown,
        execute_blocking_requests_closed_system_with_sampling
  <2>3. /\ yielding_request_breakdown(yielding_simple_ranker_request_stamped)
             \in Items
        /\ yielding_offload_ax_closed_loop_test(yielding_simple_ranker_request)
             \in Items
    BY HarnessIsItem
    DEF yielding_request_breakdown, yielding_offload_ax_closed_loop_test,
        yielding_simple_ranker_request_stamped, yielding_simple_ranker_request,
        execute_yielding_requests_closed_system_request_breakdown,
        execute_yielding_requests_closed_system_with_sampling
  <2>4. p \in Seq(Items)
    BY <2>1, <2>2, <2>3, HarnessIsItem
    DEF run_gpcore_blocking_swtofill_simple_rank
  <2> QED
    BY <2>4 DEF Walker
<1>2. SwitchToFill \in Seq(Items)
  <2>1. /\ cpu_router_closed_loop_test \in Items
        /\ cpu_router_request_breakdown \in Items
    BY HarnessIsItem
    DEF cpu_router_closed_loop_test, cpu_router_request_breakdown,
        cpu_router_request, cpu_router_request_stamp,
        execute_cpu_requests_closed_system_with_sampling,
        execute_cpu_requests_closed_system_request_breakdown
  <2>2. /\ blocking_ax_router_closed_loop_test \in Items
        /\ blocking_ax_router_request_breakdown_test \in Items
    BY HarnessIsItem
    DEF blocking_ax_router_closed_loop_test,
        blocking_ax_router_request_breakdown_test,
        blocking_router_request, blocking_router_request_stamp,
        execute_blocking_requests_closed_system_request_breakdown,
        execute_blocking_requests_closed_system_with_sampling
  <2>3. /\ yielding_ax_router_closed_loop_test \in Items
        /\ yielding_ax_router_request_breakdown_closed_loop_test \in Items
    BY HarnessIsItem
    DEF yielding_ax_router_closed_loop_test,
        yielding_ax_router_request_breakdown_closed_loop_test,
        yielding_router_request, yielding_router_request_stamp,
        execute_yielding_requests_closed_system_request_breakdown,
        execute_yielding_requests_closed_system_with_sampling
  <2>4. <<start_non_blocking_ax>> \in Seq(Items)
        /\ <<stop_non_blocking_ax>> \in Seq(Items)
    BY HarnessIsItem
  <2> QED
    BY <2>1, <2>2, <2>3, <2>4, RepeatedItems DEF SwitchToFill
<1> QED
  BY <1>1, <1>2

-----------------------------------------------------------------------------
\* What an item of a plan can be.
LEMMA RunFacts ==
  ASSUME plan \in Plans, step \in 1 .. Len(plan), Item.kind = "run"
  PROVE  \/ Executor = OldestFirst /\ Request.offloads = TRUE
             /\ Request.yields = TRUE
         \/ Executor = OneByOne /\ Request.offloads \in BOOLEAN
             /\ Request.yields = FALSE /\ Request.watches = FALSE
<1>1. Item \in Items
  BY PlansAssumption DEF Item
<1>2. Item # start_non_blocking_ax /\ Item # stop_non_blocking_ax
  BY DEF start_non_blocking_ax, stop_non_blocking_ax
<1>3. CASE \E w \in BOOLEAN : Item = Runs(OldestFirst, Yielding(w))
  <2>1. PICK w \in BOOLEAN : Item = Runs(OldestFirst, Yielding(w))
    BY <1>3
  <2>2. Item.executor = OldestFirst /\ Item.request = Yielding(w)
    BY <2>1 DEF Runs
  <2>3. Yielding(w).offloads = TRUE /\ Yielding(w).yields = TRUE
    BY DEF Yielding
  <2> QED
    BY <2>2, <2>3 DEF Executor, Request
<1>4. CASE Item = Runs(OneByOne, OnCore) \/ Item = Runs(OneByOne, Spinning)
  <2>1. /\ Item.executor = OneByOne
        /\ Item.request = OnCore \/ Item.request = Spinning
    BY <1>4 DEF Runs
  <2>2. /\ OnCore.offloads = FALSE /\ OnCore.yields = FALSE
        /\ Spinning.offloads = TRUE /\ Spinning.yields = FALSE
        /\ OnCore.watches = FALSE /\ Spinning.watches = FALSE
    BY DEF OnCore, Spinning
  <2> QED
    BY <2>1, <2>2 DEF Executor, Request
<1> QED
  BY <1>1, <1>2, <1>3, <1>4 DEF Items

\* Neither the accelerator nor time changes the host, and a pending record
\* that nobody submitted stays pending.
LEMMA AcceleratorFacts ==
  ASSUME DeviceInv, HoldInv, AxNext \/ Tick \/ Exited
  PROVE  /\ hpc' = hpc /\ hcomp' = hcomp /\ outstanding' = outstanding
         /\ total_offloads' \in Nat
         /\ \A c \in Comps :
              comp_status[c] = COMP_STATUS_PENDING
                /\ c \notin outstanding /\ ~(c = hcomp /\ hpc \in Asked)
              => comp_status'[c] = COMP_STATUS_PENDING
<1>1. hpc' = hpc /\ hcomp' = hcomp /\ outstanding' = outstanding
  BY DEF AxNext, AxBoot, AxResetFlag, AxLoop, AxComplete, AxNothingDue, AxCheck,
         AxAcceptStatus, AxReadAddr, AxReceive, AxEnqueue, AxRefuseStatus,
         AxRefuse, Tick, Exited, host, vars
<1>2. [Next]_vars
  BY DEF Next
<1>3. TypeOK /\ TypeOK'
  BY <1>2, DeviceInvNext DEF DeviceInv
<1>4. CASE AxComplete
  <2>1. Head(inflight_list).comp \in Taken /\ TakenPending
    BY <1>4, TakenComplete DEF HoldInv, Protocol
  <2>2. \A c \in Comps : c # Head(inflight_list).comp =>
                           comp_status'[c] = comp_status[c]
    BY <1>3, <1>4 DEF AxComplete, Earliest, TypeOK
  <2> QED
    BY <1>1, <1>3, <2>1, <2>2 DEF TakenPending, TypeOK
<1>5. CASE ~AxComplete
  <2>1. comp_status' = comp_status
    BY <1>5 DEF AxNext, AxBoot, AxResetFlag, AxLoop, AxNothingDue, AxCheck,
                AxAcceptStatus, AxReadAddr, AxReceive, AxEnqueue,
                AxRefuseStatus, AxRefuse, Tick, Exited, vars
  <2> QED
    BY <1>1, <1>3, <2>1 DEF TypeOK
<1> QED
  BY <1>4, <1>5

-----------------------------------------------------------------------------
\* The invariant holds at first.
LEMMA PInvInit == PInit => PInv
<1> SUFFICES ASSUME PInit PROVE PInv
  OBVIOUS
<1>1. DeviceInv /\ HoldInv
  BY DeviceInvInit, HoldInvInit DEF PInit
<1>2. plan \in Seq(Items) /\ Len(plan) \in Nat
  BY PlansAssumption DEF PInit
<1>3. total_requests \in Nat
  BY AxProgramAssumption DEF PInit
<1>4. PTypes
  <2>1. /\ ppc = "main" /\ step = 1 /\ plan \in Plans
        /\ total_requests \in Totals /\ allocated = FALSE
        /\ next_unstarted = 0 /\ next_to_complete = 0
        /\ requests_completed = 0 /\ reported = 0 /\ started_at_report = 0
    BY DEF PInit
  <2>2. before \in [Comps -> Nat]
    BY DEF PInit
  <2>3. step \in 1 .. Len(plan) + 1 /\ 0 \in 0 .. total_requests
    BY <1>2, <1>3, <2>1
  <2>4. allocated \in BOOLEAN /\ ~InRun
    BY <2>1 DEF InRun
  <2>5. reported \in Int /\ started_at_report \in Int
    BY <2>1
  <2> QED
    BY <2>1, <2>2, <2>3, <2>4, <2>5 DEF PTypes
<1>5. Flight /\ Calls /\ Fresh /\ Allocation
  BY DEF PInit, Init, Flight, Calls, Fresh, Allocation, InRun, InCall, Asked
<1> QED
  BY <1>1, <1>4, <1>5 DEF PInv, PCore

\* A step of the program is a step EmulAx allows its client, or none of the
\* device's business.
LEMMA ClientStep == PInv /\ [PNext]_pvars => [Next]_vars
<1> SUFFICES ASSUME PInv, [PNext]_pvars PROVE [Next]_vars
  OBVIOUS
<1> USE DEF PInv, PCore
<1>0. /\ total_requests \in Nat /\ 0 .. total_requests - 1 \subseteq Comps
      /\ next_unstarted \in Nat /\ next_to_complete \in Nat
      /\ requests_completed \in Nat
  BY AxProgramAssumption DEF PTypes
<1>1. CASE Start
  BY <1>1 DEF Start, Next, HostNext
<1>2. CASE SetUp
  <2>1. outstanding = {}
    BY <1>2 DEF SetUp, AtItem, Flight
  <2> QED
    BY <1>2, <2>1 DEF SetUp, Next, HostNext, ClientAllocate
<1>3. CASE TearDown
  BY <1>3 DEF TearDown
<1>4. CASE Stop
  <2>1. outstanding = {}
    BY <1>4 DEF Stop, AtItem, Flight
  <2> QED
    BY <1>4, <2>1 DEF Stop, Next, HostNext, ClientStop
<1>5. CASE Join
  BY <1>5 DEF Join, Next, HostNext
<1>6. CASE StartRequest
  <2>1. next_unstarted < total_requests
    <3>1. CASE Executor = OldestFirst
      BY <1>6, <3>1 DEF StartRequest, RequestLeft
    <3>2. CASE Executor # OldestFirst
      BY <1>0, <1>6, <3>2
      DEF StartRequest, Scheduling, AllDone, Flight, InTurn, InOrder
    <3> QED
      BY <3>1, <3>2
  <2>2. next_unstarted \in Comps
    BY <1>0, <2>1
  <2>3. next_unstarted \notin outstanding
    BY <1>0, <1>6 DEF StartRequest, Scheduling, Flight
  <2> QED
    BY <1>6, <2>2, <2>3 DEF StartRequest, Next, HostNext, ClientSubmit
<1>7. CASE Resume
  <2>1. /\ InOrder /\ next_to_complete <= next_unstarted
        /\ outstanding = next_to_complete .. next_unstarted - 1
        /\ next_to_complete < total_requests
    <3>1. /\ ppc = "schedule" /\ requests_completed < total_requests
          /\ Executor = OldestFirst
      BY <1>0, <1>7 DEF Resume, Scheduling, AllDone
    <3>2. ~InTurn
      BY <3>1 DEF InTurn, OldestFirst, OneByOne
    <3>3. /\ InOrder /\ next_to_complete <= next_unstarted
          /\ outstanding = next_to_complete .. next_unstarted - 1
      BY <3>1, <3>2 DEF Flight
    <3> QED
      BY <3>1, <3>3 DEF InOrder
  <2>2. Request.offloads
    <3>1. step \in 1 .. Len(plan) /\ Item.kind = "run" /\ plan \in Plans
      BY <1>7, PlansAssumption DEF PTypes, InRun, Resume, Scheduling
    <3> QED
      BY <3>1, <2>1, RunFacts DEF InOrder, OldestFirst, OneByOne
  <2>3. next_to_complete # next_unstarted
    <3> SUFFICES ASSUME next_to_complete = next_unstarted PROVE FALSE
      OBVIOUS
    <3>1. comp_status[next_unstarted] = COMP_STATUS_PENDING
      BY <1>0, <1>7, <2>1, <2>2 DEF Resume, Scheduling, Fresh, InRun
    <3> QED
      BY <1>7, <3>1
      DEF Resume, OldestCompleted, COMP_STATUS_PENDING, COMP_STATUS_COMPLETED
  <2>4. next_to_complete \in outstanding /\ next_to_complete \in Comps
    BY <1>0, <2>1, <2>3
  <2> QED
    BY <1>7, <2>4 DEF Resume, Next, HostNext, ClientSee
<1>8. CASE InSubmit
  BY <1>8 DEF InSubmit, Next, HostNext
<1>9. CASE Submitted
  BY <1>9 DEF Submitted, Next, HostNext
<1>10. CASE Refused
  BY <1>10 DEF Refused, Next, HostNext
<1>11. CASE BlockingFinish
  <2>1. next_unstarted \in outstanding /\ next_unstarted \in Comps
    BY <1>0, <1>11 DEF BlockingFinish, Flight
  <2> QED
    BY <1>11, <2>1 DEF BlockingFinish, Next, HostNext, ClientSee
<1>12. CASE CoreRequest \/ YieldingFinish
  BY <1>12 DEF CoreRequest, YieldingFinish
<1>13. CASE Accelerator
  BY <1>13 DEF Accelerator, Next
<1>14. CASE Ended \/ UNCHANGED pvars
  BY <1>14 DEF Ended, pvars
<1> QED
  BY <1>1, <1>2, <1>3, <1>4, <1>5, <1>6, <1>7, <1>8, <1>9, <1>10, <1>11, <1>12,
     <1>13, <1>14 DEF PNext, Program

-----------------------------------------------------------------------------
\* A step that leaves the executor alone keeps the program's part of the
\* invariant, if it keeps the records of requests that are not started pending.
LEMMA QuietStep ==
  ASSUME PInv, UNCHANGED program, outstanding' = outstanding, hcomp' = hcomp,
         hpc' \in InCall \cup {"exited"} => ppc = "submit",
         \A c \in Comps :
           comp_status[c] = COMP_STATUS_PENDING /\ c \notin outstanding
             /\ ~(c = hcomp /\ ppc = "submit")
           => comp_status'[c] = COMP_STATUS_PENDING
  PROVE  PCore'
<1> USE DEF PInv, PCore
<1>0. /\ total_requests \in Nat /\ 0 .. total_requests - 1 \subseteq Comps
      /\ next_unstarted \in 0 .. total_requests
      /\ next_to_complete \in 0 .. total_requests
  BY AxProgramAssumption DEF PTypes
<1>1. /\ ppc' = ppc /\ plan' = plan /\ step' = step
      /\ total_requests' = total_requests /\ allocated' = allocated
      /\ next_unstarted' = next_unstarted /\ next_to_complete' = next_to_complete
      /\ requests_completed' = requests_completed /\ before' = before
      /\ reported' = reported /\ started_at_report' = started_at_report
  BY DEF program, options, executor, monitor
<1>2. Item' = Item /\ Request' = Request /\ Executor' = Executor
      /\ InRun' = InRun
  BY <1>1 DEF Item, Request, Executor, InRun
<1>3. PTypes'
  BY <1>1, <1>2 DEF PTypes
<1>4. Flight'
  BY <1>1, <1>2 DEF Flight, InOrder, InTurn
<1>5. Calls'
  BY <1>1, <1>2 DEF Calls
<1>6. Fresh'
  <2> SUFFICES ASSUME InRun, Request.offloads,
                      NEW c \in next_unstarted .. total_requests - 1,
                      c # next_unstarted \/ ppc \notin {"submit", "wait"}
               PROVE  comp_status'[c] = COMP_STATUS_PENDING
    BY <1>1, <1>2 DEF Fresh
  <2>1. c \in Comps /\ comp_status[c] = COMP_STATUS_PENDING
    BY <1>0 DEF Fresh
  <2>2. c \notin outstanding
    BY <1>0 DEF Flight, InRun
  <2>3. ~(c = hcomp /\ ppc = "submit")
    BY DEF Calls
  <2> QED
    BY <2>1, <2>2, <2>3
<1>7. Allocation'
  BY <1>1, <1>2 DEF Allocation
<1> QED
  BY <1>3, <1>4, <1>5, <1>6, <1>7

\* A step of the program keeps the program's part of the invariant.
LEMMA PCoreNext == PInv /\ [PNext]_pvars => PCore'
<1> SUFFICES ASSUME PInv, [PNext]_pvars PROVE PCore'
  OBVIOUS
<1> USE DEF PInv, PCore
<1>0. /\ total_requests \in Nat /\ 0 .. total_requests - 1 \subseteq Comps
      /\ next_unstarted \in 0 .. total_requests
      /\ next_to_complete \in 0 .. total_requests
      /\ requests_completed \in 0 .. total_requests
      /\ step \in Nat /\ step >= 1 /\ Len(plan) \in Nat /\ step <= Len(plan) + 1
  BY AxProgramAssumption, PlansAssumption DEF PTypes
<1>1. TypeOK /\ TypeOK'
  BY ClientStep, DeviceInvNext DEF DeviceInv
<1>a. ASSUME InRun
      PROVE  \/ Executor = OldestFirst /\ Request.offloads = TRUE
                 /\ Request.yields = TRUE
             \/ Executor = OneByOne /\ Request.offloads \in BOOLEAN
                 /\ Request.yields = FALSE
  <2>1. step \in 1 .. Len(plan) /\ Item.kind = "run" /\ plan \in Plans
    BY <1>0, <1>a DEF PTypes, InRun
  <2> QED
    BY <2>1, RunFacts
<1>b. OldestFirst # OneByOne
  BY DEF OldestFirst, OneByOne
<1>c. ASSUME plan' = plan, step' = step
      PROVE  Item' = Item /\ Request' = Request /\ Executor' = Executor
  BY <1>c DEF Item, Request, Executor
<1>2. CASE Start
  <2>1. /\ ppc = "main" /\ step <= Len(plan) /\ step' = step + 1 /\ ppc' = ppc
        /\ plan' = plan /\ total_requests' = total_requests
        /\ UNCHANGED <<allocated, next_unstarted, next_to_complete,
                       requests_completed, before, reported,
                       started_at_report>>
        /\ outstanding' = outstanding /\ hpc' = "idle"
    BY <1>2 DEF Start, AtItem, StartAx, options, executor, monitor
  <2>2. PTypes'
    BY <1>0, <2>1 DEF PTypes, InRun
  <2> QED
    BY <2>1, <2>2 DEF Flight, Calls, Fresh, Allocation, InRun, InCall, Asked
<1>3. CASE SetUp
  <2>1. /\ ppc = "main" /\ step <= Len(plan) /\ Item.kind = "run"
        /\ ppc' = "schedule" /\ allocated' = Request.offloads
        /\ next_unstarted' = 0 /\ next_to_complete' = 0
        /\ requests_completed' = 0
        /\ plan' = plan /\ step' = step /\ total_requests' = total_requests
        /\ before' = before /\ reported' = reported
        /\ started_at_report' = started_at_report
    BY <1>3 DEF SetUp, AtItem, options, monitor
  <2>2. /\ outstanding' = outstanding /\ hpc' = hpc
        /\ Request.offloads =>
             comp_status' = [c \in Comps |-> COMP_STATUS_PENDING]
    BY <1>3 DEF SetUp, AllocateCrs, host, vars
  <2>3. outstanding = {} /\ hpc \notin InCall \cup {"exited"}
    BY <2>1 DEF Flight, Calls
  <2>4. Item' = Item /\ Request' = Request /\ Executor' = Executor
    BY <1>c, <2>1
  <2>5. \/ Executor = OldestFirst /\ Request.offloads = TRUE
        \/ Executor = OneByOne /\ Request.offloads \in BOOLEAN
    <3>1. step \in 1 .. Len(plan) /\ plan \in Plans
      BY <1>0, <2>1 DEF PTypes
    <3> QED
      BY <2>1, <3>1, RunFacts
  <2>6. PTypes'
    <3>1. allocated' \in BOOLEAN
      BY <2>1, <2>5
    <3>a. 0 \in 0 .. total_requests
      BY <1>0
    <3>2. (ppc # "main" => step <= Len(plan))' /\ (InRun => Item.kind = "run")'
      BY <2>1, <2>4
    <3> QED
      BY <2>1, <3>1, <3>a, <3>2 DEF PTypes
  <2>7. Flight'
    BY <2>1, <2>2, <2>3, <2>4, <2>5 DEF Flight, InOrder, InTurn
  <2>8. Calls'
    BY <2>1, <2>2, <2>3 DEF Calls
  <2>9. Fresh'
    BY <1>0, <2>1, <2>2, <2>4 DEF Fresh
  <2>10. Allocation'
    BY <2>1, <2>4 DEF Allocation
  <2> QED
    BY <2>6, <2>7, <2>8, <2>9, <2>10
<1>4. CASE TearDown
  <2>1. /\ ppc = "schedule" /\ requests_completed >= total_requests
        /\ allocated' = FALSE /\ ppc' = "main" /\ step' = step + 1
        /\ UNCHANGED vars
        /\ plan' = plan /\ total_requests' = total_requests
        /\ UNCHANGED <<next_unstarted, next_to_complete, requests_completed,
                       before, reported, started_at_report>>
    BY <1>4 DEF TearDown, Scheduling, AllDone, options, executor, monitor
  <2>2. outstanding = {}
    BY <1>0, <2>1 DEF Flight, InOrder
  <2>3. hpc \notin InCall \cup {"exited"}
    BY <2>1 DEF Calls
  <2>4. outstanding' = outstanding /\ hpc' = hpc
    BY <2>1 DEF vars, host
  <2>5. step' \in 1 .. Len(plan) + 1
    BY <1>0, <2>1 DEF PTypes
  <2>6. allocated' \in BOOLEAN /\ ~InRun'
    BY <2>1 DEF InRun
  <2>7. PTypes'
    BY <2>1, <2>5, <2>6 DEF PTypes
  <2> QED
    BY <2>1, <2>2, <2>3, <2>4, <2>7 DEF Flight, Calls, Fresh, Allocation, InRun
<1>5. CASE Stop
  <2>1. /\ ppc = "main" /\ ppc' = "join" /\ plan' = plan /\ step' = step
        /\ step <= Len(plan)
        /\ total_requests' = total_requests
        /\ UNCHANGED <<allocated, next_unstarted, next_to_complete,
                       requests_completed, before, reported,
                       started_at_report>>
        /\ outstanding' = outstanding /\ hpc' = "join"
    BY <1>5 DEF Stop, AtItem, StopAx, options, executor, monitor
  <2>2. PTypes'
    BY <1>0, <2>1 DEF PTypes, InRun
  <2> QED
    BY <2>1, <2>2 DEF Flight, Calls, Fresh, Allocation, InRun, InCall, Asked
<1>6. CASE Join
  <2>1. /\ ppc = "join" /\ ppc' = "main" /\ plan' = plan /\ step' = step + 1
        /\ total_requests' = total_requests
        /\ UNCHANGED <<allocated, next_unstarted, next_to_complete,
                       requests_completed, before, reported,
                       started_at_report>>
        /\ outstanding' = outstanding /\ hpc' = "down"
    BY <1>6 DEF Join, Joined, options, executor, monitor
  <2>2. PTypes'
    BY <1>0, <2>1 DEF PTypes, InRun
  <2> QED
    BY <2>1, <2>2 DEF Flight, Calls, Fresh, Allocation, InRun, InCall, Asked
<1>7. CASE StartRequest
  <2>1. /\ ppc = "schedule" /\ requests_completed < total_requests
        /\ Request.offloads /\ ppc' = "submit"
        /\ Executor = OldestFirst => next_unstarted < total_requests
        /\ plan' = plan /\ step' = step /\ total_requests' = total_requests
        /\ UNCHANGED <<allocated, next_unstarted, next_to_complete,
                       requests_completed, reported, started_at_report>>
        /\ before' = IF Watching
                     THEN [before EXCEPT ![next_unstarted] = total_offloads]
                     ELSE before
    BY <1>0, <1>7
    DEF StartRequest, Scheduling, AllDone, RequestLeft, options, executor
  <2>2. /\ hpc' = "comp" /\ hcomp' = next_unstarted
        /\ outstanding' = outstanding /\ comp_status' = comp_status
    BY <1>7 DEF StartRequest, SubmitBegin
  <2>3. Item' = Item /\ Request' = Request /\ Executor' = Executor
    BY <1>c, <2>1
  <2>4. next_unstarted < total_requests
    BY <1>0, <2>1 DEF Flight, InTurn, InOrder
  <2>5. PTypes'
    <3>1. before' \in [Comps -> Nat]
      BY <1>1, <2>1 DEF PTypes, TypeOK
    <3> QED
      BY <2>1, <2>3, <3>1 DEF PTypes, InRun
  <2>6. Flight'
    BY <2>1, <2>2, <2>3 DEF Flight, InOrder, InTurn
  <2>7. Calls'
    BY <2>1, <2>2, <2>3, <2>4 DEF Calls
  <2>8. Fresh'
    BY <2>1, <2>2, <2>3 DEF Fresh, InRun
  <2>9. Allocation'
    BY <2>1, <2>3 DEF Allocation, InRun
  <2> QED
    BY <2>5, <2>6, <2>7, <2>8, <2>9
<1>8. CASE Resume
  <2>1. /\ ppc = "schedule" /\ requests_completed < total_requests
        /\ Executor = OldestFirst /\ ppc' = "resumed"
        /\ plan' = plan /\ step' = step /\ total_requests' = total_requests
        /\ UNCHANGED <<allocated, next_unstarted, next_to_complete,
                       requests_completed, before, reported,
                       started_at_report>>
        /\ comp_status[next_to_complete] = COMP_STATUS_COMPLETED
    BY <1>0, <1>8
    DEF Resume, Scheduling, AllDone, OldestCompleted, options, executor, monitor
  <2>2. /\ hpc' = hpc /\ hpc = "idle" /\ hcomp' = hcomp
        /\ outstanding' = outstanding \ {next_to_complete}
        /\ comp_status' = comp_status
    BY <1>8 DEF Resume, SeeCompleted
  <2>3. Item' = Item /\ Request' = Request /\ Executor' = Executor
    BY <1>c, <2>1
  <2>4. Request.offloads
    BY <1>a, <1>b, <2>1 DEF InRun
  <2>5. /\ InOrder /\ next_to_complete <= next_unstarted
        /\ outstanding = next_to_complete .. next_unstarted - 1
    BY <1>b, <2>1 DEF Flight, InTurn
  <2>6. next_to_complete < next_unstarted
    <3> SUFFICES ASSUME next_to_complete = next_unstarted PROVE FALSE
      BY <1>0, <2>5
    <3>1. comp_status[next_unstarted] = COMP_STATUS_PENDING
      BY <1>0, <2>1, <2>4, <2>5 DEF Fresh, InRun, InOrder
    <3> QED
      BY <2>1, <3>1 DEF COMP_STATUS_PENDING, COMP_STATUS_COMPLETED
  <2>7. PTypes'
    BY <2>1, <2>3 DEF PTypes, InRun
  <2>8. Flight'
    <3>1. outstanding' = next_to_complete + 1 .. next_unstarted - 1
      BY <1>0, <2>2, <2>5, <2>6
    <3> QED
      BY <2>1, <2>3, <2>5, <2>6, <3>1 DEF Flight, InOrder
  <2>9. Calls'
    BY <2>1, <2>2, <2>3, <2>4 DEF Calls, InCall, Asked
  <2>10. Fresh'
    BY <2>1, <2>2, <2>3 DEF Fresh, InRun
  <2>11. Allocation'
    BY <2>1, <2>3 DEF Allocation, InRun
  <2> QED
    BY <2>7, <2>8, <2>9, <2>10, <2>11
<1>9. CASE InSubmit
  <2>1. /\ ppc = "submit" /\ UNCHANGED program
        /\ outstanding' = outstanding /\ hcomp' = hcomp
    BY <1>9
    DEF InSubmit, SubmitSteps, SubmitComp, SubmitAddr, SubmitFlag, SubmitDst,
        SubmitSpin, SubmitResult
  <2>2. comp_status' = comp_status
        \/ comp_status' = [comp_status EXCEPT ![hcomp] = COMP_STATUS_PENDING]
    BY <1>9
    DEF InSubmit, SubmitSteps, SubmitComp, SubmitAddr, SubmitFlag, SubmitDst,
        SubmitSpin, SubmitResult
  <2>3. \A c \in Comps : comp_status[c] = COMP_STATUS_PENDING =>
                        comp_status'[c] = COMP_STATUS_PENDING
    BY <1>1, <2>2 DEF TypeOK
  <2> QED
    BY <2>1, <2>3, QuietStep
<1>10. CASE Submitted
  <2>1. /\ ppc = "submit" /\ hpc' = "idle" /\ hcomp' = hcomp
        /\ outstanding' = outstanding \cup {hcomp} /\ comp_status' = comp_status
        /\ plan' = plan /\ step' = step /\ total_requests' = total_requests
        /\ UNCHANGED <<allocated, next_to_complete, requests_completed, before,
                       reported, started_at_report>>
        /\ IF Request.yields
           THEN ppc' = "schedule" /\ next_unstarted' = next_unstarted + 1
           ELSE ppc' = "wait" /\ next_unstarted' = next_unstarted
    BY <1>10 DEF Submitted, ReturnSuccess, NextRequest, options, monitor
  <2>2. Item' = Item /\ Request' = Request /\ Executor' = Executor
    BY <1>c, <2>1
  <2>3. hcomp = next_unstarted /\ next_unstarted < total_requests
        /\ Request.offloads
    BY <2>1 DEF Calls
  <2>4. InRun /\ InRun'
    BY <2>1 DEF InRun
  <2>5. CASE Request.yields
    <3>1. /\ ppc' = "schedule" /\ next_unstarted' = next_unstarted + 1
          /\ Executor = OldestFirst
      BY <1>a, <2>1, <2>4, <2>5
    <3>2. /\ InOrder /\ next_to_complete <= next_unstarted
          /\ outstanding = next_to_complete .. next_unstarted - 1
      BY <1>b, <2>1, <3>1 DEF Flight, InTurn
    <3>3. outstanding' = next_to_complete .. next_unstarted' - 1
      BY <1>0, <2>1, <2>3, <3>1, <3>2
    <3>4. PTypes'
      <4>1. next_unstarted' \in 0 .. total_requests
        BY <1>0, <2>3, <3>1
      <4>2. (InRun => Item.kind = "run")' /\ (ppc # "main" => step <= Len(plan))'
        BY <2>1, <2>2, <2>4, <3>1 DEF PTypes
      <4> QED
        BY <2>1, <3>1, <4>1, <4>2 DEF PTypes
    <3>5. Flight'
      BY <1>0, <2>1, <2>2, <3>1, <3>2, <3>3 DEF Flight, InOrder
    <3>6. Calls'
      BY <2>1, <3>1 DEF Calls, InCall, Asked
    <3>7. Fresh'
      BY <1>0, <2>1, <2>2, <2>4, <3>1 DEF Fresh
    <3>8. Allocation'
      BY <2>1, <2>2, <2>4, <3>1 DEF Allocation
    <3> QED
      BY <3>4, <3>5, <3>6, <3>7, <3>8
  <2>6. CASE ~Request.yields
    <3>1. ppc' = "wait" /\ next_unstarted' = next_unstarted
      BY <2>1, <2>6
    <3>2. InTurn /\ outstanding = {}
      BY <1>a, <1>b, <2>1, <2>4, <2>6 DEF Flight, InOrder
    <3>3. outstanding' = {next_unstarted}
      BY <2>1, <2>3, <3>2
    <3>4. PTypes'
      BY <2>1, <2>2, <3>1 DEF PTypes, InRun
    <3>5. Flight'
      BY <2>1, <2>2, <2>3, <3>1, <3>2, <3>3 DEF Flight, InTurn
    <3>6. Calls'
      BY <2>1, <2>2, <2>3, <3>1 DEF Calls, InCall, Asked
    <3>7. Fresh'
      BY <2>1, <2>2, <2>4, <3>1 DEF Fresh
    <3>8. Allocation'
      BY <2>1, <2>2, <2>4, <3>1 DEF Allocation
    <3> QED
      BY <3>4, <3>5, <3>6, <3>7, <3>8
  <2> QED
    BY <2>5, <2>6
<1>11. CASE Refused
  <2>1. /\ ppc = "submit" /\ UNCHANGED program
        /\ outstanding' = outstanding /\ hcomp' = hcomp
        /\ comp_status' = comp_status
    BY <1>11 DEF Refused, ReturnFail
  <2> QED
    BY <2>1, QuietStep
<1>12. CASE BlockingFinish
  <2>1. /\ ppc = "wait" /\ ppc' = "schedule" /\ hpc' = hpc /\ hpc = "idle"
        /\ outstanding' = outstanding \ {next_unstarted}
        /\ comp_status' = comp_status
        /\ plan' = plan /\ step' = step /\ total_requests' = total_requests
        /\ next_unstarted' = next_unstarted + 1
        /\ requests_completed' = requests_completed + 1
        /\ UNCHANGED <<allocated, next_to_complete, before, reported,
                       started_at_report>>
    BY <1>12 DEF BlockingFinish, SeeCompleted, NextRequest, OneMoreCompleted,
                 options, monitor
  <2>2. Item' = Item /\ Request' = Request /\ Executor' = Executor
    BY <1>c, <2>1
  <2>3. InTurn /\ next_unstarted < total_requests /\ outstanding' = {}
    BY <2>1 DEF Flight
  <2>4. InRun /\ InRun'
    BY <2>1 DEF InRun
  <2>5. PTypes'
    BY <1>0, <2>1, <2>2, <2>3 DEF PTypes, InRun, InTurn
  <2>6. Flight'
    BY <2>1, <2>2, <2>3 DEF Flight, InTurn
  <2>7. Calls'
    BY <2>1 DEF Calls, InCall, Asked
  <2>8. Fresh'
    BY <1>0, <2>1, <2>2, <2>4 DEF Fresh
  <2>9. Allocation'
    BY <2>1, <2>2, <2>4 DEF Allocation
  <2> QED
    BY <2>5, <2>6, <2>7, <2>8, <2>9
<1>13. CASE CoreRequest
  <2>1. /\ ppc = "schedule" /\ requests_completed < total_requests
        /\ ~Request.offloads /\ UNCHANGED vars /\ ppc' = ppc
        /\ plan' = plan /\ step' = step /\ total_requests' = total_requests
        /\ next_unstarted' = next_unstarted + 1
        /\ requests_completed' = requests_completed + 1
        /\ UNCHANGED <<allocated, next_to_complete, before, reported,
                       started_at_report>>
    BY <1>0, <1>13 DEF CoreRequest, Scheduling, AllDone, NextRequest,
                       OneMoreCompleted, options, monitor
  <2>2. Item' = Item /\ Request' = Request /\ Executor' = Executor
    BY <1>c, <2>1
  <2>3. InRun /\ InRun'
    BY <2>1 DEF InRun
  <2>4. Executor = OneByOne
    BY <1>a, <2>1, <2>3
  <2>5. InTurn /\ outstanding = {}
    BY <1>b, <2>1, <2>4 DEF Flight, InOrder
  <2>6. outstanding' = outstanding /\ hpc' = hpc
    BY <2>1 DEF vars, host
  <2>7. PTypes'
    BY <1>0, <2>1, <2>2, <2>5 DEF PTypes, InRun, InTurn
  <2>8. Flight'
    BY <2>1, <2>2, <2>5, <2>6 DEF Flight, InTurn
  <2>9. Calls' /\ Fresh'
    BY <2>1, <2>2, <2>6 DEF Calls, Fresh
  <2>10. Allocation'
    BY <2>1, <2>2, <2>3 DEF Allocation
  <2> QED
    BY <2>7, <2>8, <2>9, <2>10
<1>14. CASE YieldingFinish
  <2>1. /\ ppc = "resumed" /\ ppc' = "schedule" /\ UNCHANGED vars
        /\ plan' = plan /\ step' = step /\ total_requests' = total_requests
        /\ requests_completed' = requests_completed + 1
        /\ next_to_complete' = next_to_complete + 1
        /\ UNCHANGED <<allocated, next_unstarted, before>>
    BY <1>14 DEF YieldingFinish, NextOldest, OneMoreCompleted, options
  <2>2. /\ reported' = total_offloads - before[next_to_complete] - 1
           \/ reported' = reported
        /\ started_at_report' = next_unstarted - next_to_complete - 1
           \/ started_at_report' = started_at_report
    BY <1>14 DEF YieldingFinish
  <2>3. Item' = Item /\ Request' = Request /\ Executor' = Executor
    BY <1>c, <2>1
  <2>4. /\ InOrder /\ next_to_complete < next_unstarted
        /\ outstanding = next_to_complete + 1 .. next_unstarted - 1
    BY <2>1 DEF Flight
  <2>5. InRun /\ InRun'
    BY <2>1 DEF InRun
  <2>6. reported' \in Int /\ started_at_report' \in Int
    <3>1. next_to_complete \in Comps
      BY <1>0, <2>4
    <3>2. total_offloads \in Nat /\ before[next_to_complete] \in Nat
      BY <1>1, <3>1 DEF TypeOK, PTypes
    <3> QED
      BY <1>0, <2>2, <3>2, SMTT(30) DEF PTypes
  <2>7. outstanding' = outstanding /\ hpc' = hpc /\ comp_status' = comp_status
    BY <2>1 DEF vars, host
  <2>8. PTypes'
    BY <1>0, <2>1, <2>3, <2>4, <2>6 DEF PTypes, InRun, InOrder
  <2>9. Flight'
    BY <1>0, <2>1, <2>3, <2>4, <2>7 DEF Flight, InOrder
  <2>10. Calls'
    BY <2>1, <2>7 DEF Calls
  <2>11. Fresh'
    BY <2>1, <2>3, <2>5, <2>7 DEF Fresh
  <2>12. Allocation'
    BY <2>1, <2>3, <2>5 DEF Allocation
  <2> QED
    BY <2>8, <2>9, <2>10, <2>11, <2>12
<1>15. CASE Accelerator
  <2>1. UNCHANGED program /\ (AxNext \/ Tick \/ Exited)
    BY <1>15 DEF Accelerator
  <2> QED
    BY <2>1, AcceleratorFacts, QuietStep DEF Calls, InCall
<1>16. CASE Ended \/ UNCHANGED pvars
  <2>1. UNCHANGED program /\ UNCHANGED vars
    BY <1>16 DEF Ended, pvars
  <2>2. outstanding' = outstanding /\ hcomp' = hcomp /\ hpc' = hpc
        /\ comp_status' = comp_status
    BY <2>1 DEF vars, host
  <2> QED
    BY <2>1, <2>2, QuietStep DEF Calls
<1> QED
  BY <1>2, <1>3, <1>4, <1>5, <1>6, <1>7, <1>8, <1>9, <1>10, <1>11, <1>12, <1>13,
     <1>14, <1>15, <1>16 DEF PNext, Program

-----------------------------------------------------------------------------
\* The inductive invariant of the program and the device it uses.
THEOREM ProgramInvariant == PSpec => []PInv
<1>1. PInv /\ [PNext]_pvars => PInv'
  BY ClientStep, DeviceInvNext, HoldInvNext, PCoreNext DEF PInv
<1> QED
  BY <1>1, PInvInit, PTL DEF PSpec

\* The type invariant.
THEOREM ProgramTypes == PSpec => []PTypeOK
<1>1. PInv => PTypeOK
  BY DEF PInv, PCore, PTypes, DeviceInv, PTypeOK
<1> QED
  BY <1>1, ProgramInvariant, PTL

\* The programs are clients EmulAx allows: they never submit a record they
\* still wait for, and free the records and stop the thread when they wait for
\* none.  So every theorem about EmulAx holds of them.
THEOREM ProgramUsesAxProperly == PSpec => UsesAxProperly
<1>1. PInit => Init
  BY DEF PInit
<1> QED
  BY <1>1, ClientStep, ProgramInvariant, PTL DEF PSpec, UsesAxProperly, Spec

\* So what a program sees is a device that takes offloads in order, answers
\* truly and completes each, if the thread reached its loop before the first.
THEOREM ProgramSeesDevice ==
  ASSUME EagerHost = FALSE, NoComp \notin {"success", "failure"}
  PROVE  PSpec => ImplementsDevice
<1>1. PSpec => Spec
  BY ProgramUsesAxProperly DEF UsesAxProperly
<1> QED
  BY <1>1, RefinesOffloadDevice

\* The executors' indices are the requests in flight.
THEOREM IndicesAreTheFlight == PSpec => []IndicesMatchFlight
<1>1. PInv => IndicesMatchFlight
  BY DEF PInv, PCore, Flight, InOrder, InTurn, IndicesMatchFlight, OldestFirst,
         OneByOne
<1> QED
  BY <1>1, ProgramInvariant, PTL

\* When a harness frees its completion records, the accelerator holds none.
THEOREM FreesNoHeldRecord == PSpec => []NoRecordHeldAfterFree
<1>1. PInv => NoRecordHeldAfterFree
  <2> SUFFICES ASSUME PInv, ~allocated PROVE Taken = {}
    BY DEF NoRecordHeldAfterFree
  <2>1. outstanding = {} /\ ppc # "submit"
    <3>1. CASE ppc \in {"main", "join"}
      BY <3>1 DEF PInv, PCore, Flight
    <3>2. CASE InRun
      <4>1. step \in 1 .. Len(plan) /\ Item.kind = "run" /\ plan \in Plans
        BY <3>2, PlansAssumption DEF PInv, PCore, PTypes, InRun
      <4>2. ~Request.offloads /\ ppc = "schedule"
        BY <3>2 DEF PInv, PCore, Allocation, Calls, InRun
      <4>3. Executor # OldestFirst
        BY <4>1, <4>2, RunFacts DEF OldestFirst, OneByOne
      <4> QED
        BY <4>2, <4>3 DEF PInv, PCore, Flight, InOrder
    <3> QED
      BY <3>1, <3>2 DEF PInv, PCore, PTypes, InRun
  <2> QED
    BY <2>1 DEF PInv, PCore, Calls, HoldInv, Protocol, TakenPending, InCall
<1> QED
  BY <1>1, ProgramInvariant, PTL

\* The process ends early only in a yielding run with more requests than
\* max_inflight, if the accelerator holds at least one offload.
THEOREM ExitsWhenOverloaded ==
  ASSUME MaxInflight > 0
  PROVE  PSpec => []ExitsOnlyOverloaded
<1>1. PInit => FullInv
  BY FullInvInit DEF PInit
<1>2. PInv /\ FullInv /\ [PNext]_pvars => FullInv'
  BY ClientStep, FullInvNext DEF PInv
<1>3. PInv /\ FullInv => ExitsOnlyOverloaded
  <2> SUFFICES ASSUME PInv, FullInv, hpc = "exited"
               PROVE  Request.yields /\ total_requests > MaxInflight
    BY DEF ExitsOnlyOverloaded
  <2> USE DEF PInv, PCore
  <2>0. total_requests \in Nat /\ MaxInflight \in Nat
    BY AxProgramAssumption, EmulAxAssumption DEF PTypes
  <2>1. ppc = "submit" /\ next_unstarted < total_requests
    BY DEF Calls
  <2>2. Cardinality(outstanding) \in Nat /\ MaxInflight <= Cardinality(outstanding)
    BY FS_CardinalityType DEF FullInv, SUBMIT_FAIL
  <2>3. outstanding # {}
    BY <2>0, <2>2, FS_EmptySet
  <2>4. /\ Executor = OldestFirst
        /\ outstanding = next_to_complete .. next_unstarted - 1
        /\ next_to_complete <= next_unstarted
    BY <2>1, <2>3 DEF Flight, InOrder, InTurn
  <2>5. next_to_complete \in Nat /\ next_unstarted \in Nat
    BY <2>0 DEF PTypes
  <2>6. Cardinality(outstanding) <= next_unstarted
    <3>1. Cardinality(next_to_complete .. next_unstarted - 1)
            = IF next_to_complete > next_unstarted - 1 THEN 0
              ELSE next_unstarted - 1 - next_to_complete + 1
      BY <2>5, FS_Interval
    <3> QED
      BY <2>4, <2>5, <3>1
  <2>7. Request.yields
    <3>1. step \in 1 .. Len(plan) /\ Item.kind = "run" /\ plan \in Plans
      BY <2>1, PlansAssumption DEF PTypes, InRun
    <3> QED
      BY <2>4, <3>1, RunFacts DEF OldestFirst, OneByOne
  <2> QED
    BY <2>0, <2>1, <2>2, <2>5, <2>6, <2>7
<1> QED
  BY <1>1, <1>2, <1>3, ProgramInvariant, PTL DEF PSpec

-----------------------------------------------------------------------------
(***************************************************************************)
(* The count a resumed request reports.  The thread counts an offload       *)
(* before it can complete it, and never starts the count over while a        *)
(* request that watches it is in flight.                                     *)
(***************************************************************************)
\* Requests started and not yet done reporting.
Live == next_to_complete .. (IF ppc = "submit" THEN next_unstarted
                             ELSE next_unstarted - 1)

\* The thread has put c's offload in its list since c was started.
Enqueued(c) == c \in Held \/ comp_status[c] = COMP_STATUS_COMPLETED

WatchedCounts ==
  \A c \in Live :
    /\ total_offloads >= before[c]
    /\ Enqueued(c) => total_offloads >= before[c] + 1

CountInv ==
  /\ reported \in Int /\ reported >= 0
  /\ ppc = "resumed" => comp_status[next_to_complete] = COMP_STATUS_COMPLETED
  /\ axpc \in AxBooting /\ InRun /\ Request.offloads =>
       ppc = "schedule" /\ outstanding = {}
  /\ InRun /\ Watching => WatchedCounts

\* The accelerator never takes a completion back.
LEMMA AcceleratorKeeps ==
  ASSUME DeviceInv, AxNext \/ Tick \/ Exited, NEW c \in Comps,
         comp_status[c] = COMP_STATUS_COMPLETED
  PROVE  comp_status'[c] = COMP_STATUS_COMPLETED
BY DEF AxNext, AxBoot, AxResetFlag, AxLoop, AxComplete, AxNothingDue, AxCheck,
       AxAcceptStatus, AxReadAddr, AxReceive, AxEnqueue, AxRefuseStatus,
       AxRefuse, Tick, Exited, vars, DeviceInv, TypeOK, Earliest

\* A counter only grows once the thread is in its loop.
LEMMA CounterGrows ==
  ASSUME DeviceInv, Monitoring, AxNext \/ Tick \/ Exited
  PROVE  /\ total_offloads \in Nat /\ total_offloads' \in Nat
         /\ axpc # "boot" => total_offloads' >= total_offloads
         /\ axpc' \in AxBooting => axpc \in AxBooting
         /\ \A c \in Comps :
              Enqueued(c)' /\ axpc # "boot" =>
                \/ Enqueued(c)
                \/ total_offloads' = total_offloads + 1
<1>1. [Next]_vars
  BY DEF Next
<1>2. TypeOK /\ TypeOK'
  BY <1>1, DeviceInvNext DEF DeviceInv
<1>3. CASE AxComplete
  <2>1. total_offloads' = total_offloads /\ axpc' = "check"
    BY <1>3 DEF AxComplete
  <2>2. inflight_list # <<>> /\ inflight_list \in Seq(Offload)
    BY <1>2, <1>3 DEF AxComplete, Due, DeviceInv, Bookkeeping, TypeOK
  <2>3. Head(inflight_list).comp \in Held
    BY <2>2, ListFacts DEF Held
  <2>4. Held' \subseteq Held
    <3>1. inflight_list' = Tail(inflight_list)
      BY <1>3 DEF AxComplete
    <3>2. /\ Len(inflight_list') = Len(inflight_list) - 1
          /\ \A i \in 1 .. Len(inflight_list') :
               inflight_list'[i] = inflight_list[i + 1]
               /\ i + 1 \in 1 .. Len(inflight_list)
      BY <2>2, <3>1
    <3> QED
      BY <3>2 DEF Held
  <2>5. \A c \in Comps : c # Head(inflight_list).comp =>
                        comp_status'[c] = comp_status[c]
    BY <1>2, <1>3 DEF AxComplete, Earliest, TypeOK
  <2>6. \A c \in Comps : Enqueued(c)' => Enqueued(c)
    BY <2>3, <2>4, <2>5 DEF Enqueued
  <2> QED
    BY <1>2, <2>1, <2>6 DEF TypeOK, AxBooting
<1>4. CASE AxEnqueue
  <2>1. total_offloads' = total_offloads + 1 /\ axpc' = "loop"
        /\ comp_status' = comp_status
    BY <1>4 DEF AxEnqueue, Counted
  <2> QED
    BY <1>2, <2>1 DEF TypeOK, AxBooting
<1>5. CASE AxBoot
  BY <1>2, <1>5 DEF AxBoot, AxBooting, TypeOK
<1>6. CASE Tick
  <2>1. Held' = Held
    <3>1. inflight_list \in Seq(Offload)
      BY <1>2 DEF TypeOK
    <3> QED
      BY <1>6, <3>1, TickedFacts DEF Tick, Held
  <2> QED
    BY <1>2, <1>6, <2>1 DEF Tick, Enqueued, TypeOK
<1>7. CASE ~(AxComplete \/ AxEnqueue \/ AxBoot \/ Tick)
  <2>1. /\ total_offloads' = total_offloads /\ inflight_list' = inflight_list
        /\ comp_status' = comp_status
        /\ axpc' \in AxBooting => axpc \in AxBooting
    BY <1>7 DEF AxNext, AxResetFlag, AxLoop, AxNothingDue, AxCheck,
                AxAcceptStatus, AxReadAddr, AxReceive, AxRefuseStatus,
                AxRefuse, Exited, vars, device, AxBooting
  <2> QED
    BY <1>2, <2>1 DEF Enqueued, Held, TypeOK
<1> QED
  BY <1>3, <1>4, <1>5, <1>6, <1>7

\* A step that leaves the executor alone keeps the count.
LEMMA QuietCount ==
  ASSUME PInv, CountInv, UNCHANGED program, outstanding' = outstanding,
         axpc' \in AxBooting => axpc \in AxBooting,
         total_offloads \in Nat, total_offloads' \in Nat,
         InRun /\ Watching /\ Live # {} =>
           /\ total_offloads' >= total_offloads
           /\ \A c \in Comps :
                Enqueued(c)' => Enqueued(c)
                                \/ total_offloads' = total_offloads + 1,
         ppc = "resumed" =>
           comp_status'[next_to_complete] = comp_status[next_to_complete]
  PROVE  CountInv'
<1>1. /\ ppc' = ppc /\ next_unstarted' = next_unstarted
      /\ next_to_complete' = next_to_complete
      /\ before' = before /\ reported' = reported
      /\ InRun' = InRun /\ Request' = Request
  BY DEF program, options, executor, monitor, InRun, Request, Item
<1>2. Watching' = Watching /\ Live' = Live
  BY <1>1 DEF Watching, Live
<1>3. Live \subseteq Comps
  <2>1. /\ total_requests \in Nat /\ 0 .. total_requests - 1 \subseteq Comps
        /\ next_unstarted \in 0 .. total_requests
        /\ next_to_complete \in 0 .. total_requests
        /\ ppc = "submit" => next_unstarted < total_requests
    BY AxProgramAssumption DEF PInv, PCore, PTypes, Calls
  <2> QED
    BY <2>1 DEF Live
<1>4. ASSUME InRun, Watching, NEW c \in Live
      PROVE  /\ total_offloads' >= before[c]
             /\ Enqueued(c)' => total_offloads' >= before[c] + 1
  <2>1. /\ total_offloads >= before[c]
        /\ Enqueued(c) => total_offloads >= before[c] + 1
    <3>1. WatchedCounts
      BY <1>4 DEF CountInv
    <3> QED
      BY <1>4, <3>1 DEF WatchedCounts
  <2>2. before[c] \in Nat /\ c \in Comps
    BY <1>3 DEF PInv, PCore, PTypes
  <2>3. /\ total_offloads' >= total_offloads
        /\ Enqueued(c)' => Enqueued(c) \/ total_offloads' = total_offloads + 1
    BY <1>4, <2>2
  <2> QED
    BY <2>1, <2>2, <2>3
<1>5. (InRun /\ Watching => WatchedCounts)'
  BY <1>1, <1>2, <1>4 DEF WatchedCounts
<1>6. /\ (axpc \in AxBooting /\ InRun /\ Request.offloads =>
           ppc = "schedule" /\ outstanding = {})'
      /\ (reported \in Int /\ reported >= 0)'
      /\ (ppc = "resumed" =>
           comp_status[next_to_complete] = COMP_STATUS_COMPLETED)'
  BY <1>1 DEF CountInv, AxBooting
<1> QED
  BY <1>5, <1>6 DEF CountInv

\* Every step keeps the count, if the thread exports its counter to those that
\* watch it and the host does not submit before the thread is in its loop.
LEMMA CountNext ==
  ASSUME gLogLevel <= LOG_MONITOR, EagerHost = FALSE
  PROVE  PInv /\ CountInv /\ [PNext]_pvars => CountInv'
<1> SUFFICES ASSUME PInv, CountInv, [PNext]_pvars PROVE CountInv'
  OBVIOUS
<1>0. /\ total_requests \in Nat /\ 0 .. total_requests - 1 \subseteq Comps
      /\ next_unstarted \in 0 .. total_requests
      /\ next_to_complete \in 0 .. total_requests
      /\ before \in [Comps -> Nat] /\ total_offloads \in Nat
  BY AxProgramAssumption DEF PInv, PCore, PTypes, DeviceInv, TypeOK
<1>1. PCore' /\ TypeOK'
  BY PCoreNext, ClientStep, DeviceInvNext DEF PInv, DeviceInv
<1>2. Watching => Monitoring
  BY EmulAxAssumption DEF Watching, Monitoring, LOG_MONITOR
<1>a. ASSUME InRun
      PROVE  \/ Executor = OldestFirst /\ Request.offloads = TRUE
                 /\ Request.yields = TRUE
             \/ Executor = OneByOne /\ Request.yields = FALSE
                 /\ Request.watches = FALSE
  <2>1. step \in 1 .. Len(plan) /\ Item.kind = "run" /\ plan \in Plans
    BY <1>a, PlansAssumption DEF PInv, PCore, PTypes, InRun
  <2> QED
    BY <2>1, RunFacts
<1>b. ASSUME plan' = plan, step' = step
      PROVE  Request' = Request /\ Watching' = Watching
  BY <1>b DEF Item, Request, Watching
<1>3. CASE Start \/ TearDown \/ Stop \/ Join
  <2>1. ~InRun' /\ reported' = reported /\ ppc' # "resumed"
    BY <1>3 DEF Start, AtItem, TearDown, Stop, Join, monitor, InRun
  <2> QED
    BY <2>1 DEF CountInv
<1>4. CASE SetUp
  <2>1. /\ ppc = "main" /\ ppc' = "schedule" /\ next_unstarted' = 0
        /\ next_to_complete' = 0 /\ reported' = reported
        /\ outstanding' = outstanding
    BY <1>4 DEF SetUp, AtItem, monitor, AllocateCrs, host, vars
  <2>2. outstanding' = {} /\ Live' = {}
    BY <2>1 DEF PInv, PCore, Flight, Live
  <2> QED
    BY <2>1, <2>2 DEF CountInv, WatchedCounts
<1>5. CASE StartRequest
  <2>1. /\ ppc = "schedule" /\ ppc' = "submit" /\ reported' = reported
        /\ next_unstarted' = next_unstarted
        /\ next_to_complete' = next_to_complete
        /\ plan' = plan /\ step' = step /\ Request.offloads
        /\ total_requests' = total_requests
        /\ before' = IF Watching
                     THEN [before EXCEPT ![next_unstarted] = total_offloads]
                     ELSE before
    BY <1>5 DEF StartRequest, Scheduling, options, executor
  <2>2. /\ axpc' = axpc /\ axpc \notin AxBooting /\ hpc = "idle"
        /\ total_offloads' = total_offloads /\ comp_status' = comp_status
        /\ inflight_list' = inflight_list
    BY <1>5 DEF StartRequest, SubmitBegin, device
  <2>3. InRun /\ Request' = Request /\ Watching' = Watching
    BY <1>b, <2>1 DEF InRun
  <2>4. next_unstarted < total_requests
    BY <1>1, <2>1 DEF PCore, Calls, Flight
  <2>5. next_unstarted \in Comps
    BY <1>0, <2>4
  <2>6. ASSUME Watching, NEW c \in Live'
        PROVE  /\ total_offloads' >= before'[c]
               /\ Enqueued(c)' => total_offloads' >= before'[c] + 1
    <3>1. c \in next_to_complete .. next_unstarted /\ c \in Comps
      BY <1>0, <2>1, <2>4 DEF Live
    <3>2. CASE c = next_unstarted
      <4>1. before'[c] = total_offloads
        BY <1>0, <2>1, <2>5, <2>6, <3>2
      <4>2. comp_status[c] = COMP_STATUS_PENDING
        BY <1>0, <2>1, <2>3, <2>4, <3>2 DEF PInv, PCore, Fresh
      <4>3. c \notin outstanding
        BY <1>0, <2>1, <3>2 DEF PInv, PCore, Flight
      <4>4. c \notin Held
        BY <2>2, <4>3 DEF PInv, HoldInv, Protocol, TakenPending, Taken, Asked
      <4> QED
        BY <1>0, <2>2, <4>1, <4>2, <4>4
        DEF Enqueued, Held, COMP_STATUS_PENDING, COMP_STATUS_COMPLETED
    <3>3. CASE c # next_unstarted
      <4>1. c \in Live /\ before'[c] = before[c]
        BY <1>0, <2>1, <3>1, <3>3 DEF Live
      <4>2. Enqueued(c)' = Enqueued(c)
        BY <2>2 DEF Enqueued, Held
      <4>3. /\ total_offloads >= before[c]
            /\ Enqueued(c) => total_offloads >= before[c] + 1
        <5>1. WatchedCounts
          BY <2>3, <2>6 DEF CountInv
        <5> QED
          BY <4>1, <5>1 DEF WatchedCounts
      <4> QED
        BY <2>2, <4>1, <4>2, <4>3
    <3> QED
      BY <3>2, <3>3
  <2>7. (InRun /\ Watching => WatchedCounts)'
    BY <2>3, <2>6 DEF WatchedCounts
  <2> QED
    BY <2>1, <2>2, <2>7 DEF CountInv
<1>6. CASE Resume
  <2>1. /\ ppc = "schedule" /\ ppc' = "resumed" /\ reported' = reported
        /\ next_unstarted' = next_unstarted /\ Executor = OldestFirst
        /\ next_to_complete' = next_to_complete /\ before' = before
        /\ plan' = plan /\ step' = step
        /\ comp_status[next_to_complete] = COMP_STATUS_COMPLETED
    BY <1>6 DEF Resume, Scheduling, OldestCompleted, options, executor, monitor
  <2>2. /\ axpc' = axpc /\ total_offloads' = total_offloads
        /\ comp_status' = comp_status /\ inflight_list' = inflight_list
    BY <1>6 DEF Resume, SeeCompleted, device
  <2>3. InRun /\ Request' = Request /\ Watching' = Watching
    BY <1>b, <2>1 DEF InRun
  <2>4. Live' = Live /\ \A c : Enqueued(c)' = Enqueued(c)
    BY <2>1, <2>2 DEF Live, Enqueued, Held
  <2>5. axpc \notin AxBooting \/ ~Request.offloads
    <3>1. next_to_complete < next_unstarted
      BY <1>1, <2>1 DEF PCore, Flight
    <3>2. outstanding = next_to_complete .. next_unstarted - 1
      BY <2>1 DEF PInv, PCore, Flight, InTurn, OldestFirst, OneByOne
    <3>3. outstanding # {}
      BY <1>0, <3>1, <3>2, SMTT(30)
    <3> QED
      BY <2>3, <3>3 DEF CountInv
  <2> QED
    BY <2>1, <2>2, <2>3, <2>4, <2>5 DEF CountInv, WatchedCounts
<1>7. CASE InSubmit \/ Refused
  <2>1. /\ ppc = "submit" /\ UNCHANGED program /\ axpc' = axpc
        /\ outstanding' = outstanding /\ total_offloads' = total_offloads
        /\ inflight_list' = inflight_list
    BY <1>7
    DEF InSubmit, Refused, ReturnFail, SubmitSteps, SubmitComp, SubmitAddr,
        SubmitFlag, SubmitDst, SubmitSpin, SubmitResult, device
  <2>2. comp_status' = comp_status
        \/ comp_status' = [comp_status EXCEPT ![hcomp] = COMP_STATUS_PENDING]
    BY <1>7
    DEF InSubmit, Refused, ReturnFail, SubmitSteps, SubmitComp, SubmitAddr,
        SubmitFlag, SubmitDst, SubmitSpin, SubmitResult
  <2>3. \A c \in Comps : Enqueued(c)' => Enqueued(c)
    BY <2>1, <2>2 DEF Enqueued, Held, PInv, DeviceInv, TypeOK,
                      COMP_STATUS_PENDING, COMP_STATUS_COMPLETED
  <2> QED
    BY <1>0, <2>1, <2>3, QuietCount
<1>8. CASE Submitted
  <2>1. /\ ppc = "submit" /\ reported' = reported /\ before' = before
        /\ next_to_complete' = next_to_complete /\ plan' = plan /\ step' = step
        /\ IF Request.yields
           THEN ppc' = "schedule" /\ next_unstarted' = next_unstarted + 1
           ELSE ppc' = "wait" /\ next_unstarted' = next_unstarted
    BY <1>8 DEF Submitted, NextRequest, options, monitor
  <2>2. /\ axpc' = axpc /\ total_offloads' = total_offloads
        /\ comp_status' = comp_status /\ inflight_list' = inflight_list
    BY <1>8 DEF Submitted, ReturnSuccess, device
  <2>3. InRun /\ Request' = Request /\ Watching' = Watching
        /\ Request.offloads
    BY <1>b, <2>1 DEF InRun, PInv, PCore, Calls
  <2>4. axpc \notin AxBooting
    BY <2>1, <2>3 DEF CountInv
  <2>5. Watching => Live' = Live
    <3> SUFFICES ASSUME Watching PROVE Live' = Live
      OBVIOUS
    <3>1. ppc' = "schedule" /\ next_unstarted' = next_unstarted + 1
      BY <1>a, <2>1, <2>3 DEF Watching
    <3> QED
      BY <1>0, <2>1, <3>1 DEF Live
  <2>6. \A c : Enqueued(c)' = Enqueued(c)
    BY <2>2 DEF Enqueued, Held
  <2> QED
    BY <2>1, <2>2, <2>3, <2>4, <2>5, <2>6 DEF CountInv, WatchedCounts
<1>9. CASE BlockingFinish
  <2>1. /\ ppc = "wait" /\ ppc' = "schedule" /\ reported' = reported
        /\ plan' = plan /\ step' = step /\ axpc' = axpc
    BY <1>9 DEF BlockingFinish, SeeCompleted, options, monitor
  <2>2. InRun /\ Request' = Request /\ Watching' = Watching
        /\ Request.offloads
    BY <1>b, <2>1 DEF InRun, PInv, PCore, Calls
  <2>3. ~Watching
    BY <1>a, <2>1, <2>2 DEF PInv, PCore, Flight, InTurn, Watching, OldestFirst,
                            OneByOne
  <2> QED
    BY <2>1, <2>2, <2>3 DEF CountInv
<1>10. CASE CoreRequest
  <2>1. /\ ppc = "schedule" /\ ppc' = "schedule" /\ reported' = reported
        /\ plan' = plan /\ step' = step /\ ~Request.offloads
    BY <1>10 DEF CoreRequest, Scheduling, options, monitor
  <2>2. InRun /\ Request' = Request /\ Watching' = Watching
    BY <1>b, <2>1 DEF InRun
  <2>3. ~Watching
    BY <1>a, <2>1, <2>2 DEF Watching
  <2> QED
    BY <2>1, <2>2, <2>3 DEF CountInv
<1>11. CASE YieldingFinish
  <2>1. /\ ppc = "resumed" /\ ppc' = "schedule" /\ UNCHANGED vars
        /\ before' = before /\ next_unstarted' = next_unstarted
        /\ next_to_complete' = next_to_complete + 1
        /\ plan' = plan /\ step' = step
        /\ IF Watching
           THEN reported' = total_offloads - before[next_to_complete] - 1
           ELSE reported' = reported
    BY <1>11 DEF YieldingFinish, NextOldest, options
  <2>2. /\ axpc' = axpc /\ total_offloads' = total_offloads
        /\ comp_status' = comp_status /\ inflight_list' = inflight_list
    BY <2>1 DEF vars, device
  <2>3. InRun /\ Request' = Request /\ Watching' = Watching
        /\ Request.offloads
    BY <1>b, <2>1 DEF InRun, PInv, PCore, Calls
  <2>4. axpc \notin AxBooting
    BY <2>1, <2>3 DEF CountInv
  <2>5. next_to_complete \in Live /\ next_to_complete \in Comps
        /\ Live' \subseteq Live
    BY <1>0, <2>1 DEF PInv, PCore, Flight, Live
  <2>6. reported' \in Int /\ reported' >= 0
    <3>1. CASE Watching
      <4>1. total_offloads >= before[next_to_complete] + 1
        <5>1. WatchedCounts /\ Enqueued(next_to_complete)
          BY <2>1, <2>3, <3>1 DEF CountInv, Enqueued
        <5> QED
          BY <2>5, <5>1 DEF WatchedCounts
      <4>2. before[next_to_complete] \in Nat
        BY <1>0, <2>5
      <4> QED
        BY <1>0, <2>1, <3>1, <4>1, <4>2
    <3>2. CASE ~Watching
      BY <2>1, <3>2 DEF CountInv
    <3> QED
      BY <3>1, <3>2
  <2>7. \A c : Enqueued(c)' = Enqueued(c)
    BY <2>2 DEF Enqueued, Held
  <2> QED
    BY <2>1, <2>2, <2>3, <2>4, <2>5, <2>6, <2>7 DEF CountInv, WatchedCounts
<1>12. CASE Accelerator
  <2>1. UNCHANGED program /\ (AxNext \/ Tick \/ Exited)
    BY <1>12 DEF Accelerator
  <2>2. outstanding' = outstanding /\ total_offloads' \in Nat
    BY <2>1, AcceleratorFacts DEF PInv
  <2>3. axpc' \in AxBooting => axpc \in AxBooting
    BY <2>1 DEF AxNext, AxBoot, AxResetFlag, AxLoop, AxComplete, AxNothingDue,
                AxCheck, AxAcceptStatus, AxReadAddr, AxReceive, AxEnqueue,
                AxRefuseStatus, AxRefuse, Tick, Exited, vars, AxBooting
  <2>4. ASSUME InRun, Watching, Live # {}
        PROVE  /\ total_offloads' >= total_offloads
               /\ \A c \in Comps :
                    Enqueued(c)' => Enqueued(c)
                                    \/ total_offloads' = total_offloads + 1
    <3>1. Executor = OldestFirst /\ Request.offloads
      BY <1>a, <2>4 DEF Watching
    <3>2. axpc # "boot"
      <4> SUFFICES ASSUME axpc = "boot" PROVE FALSE
        OBVIOUS
      <4>1. ppc = "schedule" /\ outstanding = {}
        BY <2>4, <3>1 DEF CountInv, AxBooting
      <4>2. outstanding = next_to_complete .. next_unstarted - 1
        BY <3>1, <4>1 DEF PInv, PCore, Flight, InTurn, OldestFirst, OneByOne
      <4> QED
        BY <2>4, <4>1, <4>2 DEF Live
    <3> QED
      BY <1>2, <2>1, <2>4, <3>2, CounterGrows DEF PInv
  <2>5. ASSUME ppc = "resumed"
        PROVE  comp_status'[next_to_complete] = comp_status[next_to_complete]
    <3>1. comp_status[next_to_complete] = COMP_STATUS_COMPLETED
      BY <2>5 DEF CountInv
    <3>2. next_to_complete \in Comps
      BY <1>0, <2>5 DEF PInv, PCore, Flight
    <3> QED
      BY <2>1, <3>1, <3>2, AcceleratorKeeps DEF PInv
  <2> QED
    BY <1>0, <2>1, <2>2, <2>3, <2>4, <2>5, QuietCount
<1>13. CASE Ended \/ UNCHANGED pvars
  <2>1. UNCHANGED program /\ UNCHANGED vars
    BY <1>13 DEF Ended, pvars
  <2>2. /\ axpc' = axpc /\ total_offloads' = total_offloads
        /\ comp_status' = comp_status /\ inflight_list' = inflight_list
        /\ outstanding' = outstanding
    BY <2>1 DEF vars, device, host
  <2>3. \A c : Enqueued(c)' = Enqueued(c)
    BY <2>2 DEF Enqueued, Held
  <2> QED
    BY <1>0, <2>1, <2>2, <2>3, QuietCount
<1> QED
  BY <1>3, <1>4, <1>5, <1>6, <1>7, <1>8, <1>9, <1>10, <1>11, <1>12, <1>13
     DEF PNext, Program

\* The number of "Requests Offloaded while Request %d was away" never wraps
\* below zero, at any log level up to LOG_MONITOR.
THEOREM ReportsCount ==
  ASSUME gLogLevel <= LOG_MONITOR, EagerHost = FALSE
  PROVE  PSpec => []ReportNotNegative
<1>1. PInit => CountInv
  BY DEF PInit, CountInv, InRun
<1>2. PInv /\ CountInv /\ [PNext]_pvars => CountInv'
  BY CountNext
<1>3. CountInv => ReportNotNegative
  BY DEF CountInv, ReportNotNegative
<1> QED
  BY <1>1, <1>2, <1>3, ProgramInvariant, PTL DEF PSpec
=============================================================================
