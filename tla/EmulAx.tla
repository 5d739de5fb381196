------------------------------- MODULE EmulAx -------------------------------
(***************************************************************************)
(* The emulated accelerator (src/src/emul_ax.cpp) and the host's side of   *)
(* its mailbox (submit_offload, src/src/offload.cpp).                      *)
(*                                                                         *)
(* One ax thread and one host thread share five atomics and the completion *)
(* records.  Every read or write of a shared location is a step of its own *)
(* (the atomics are sequentially consistent); statements that touch only   *)
(* locals of the ax thread are part of the neighbouring step.              *)
(*                                                                         *)
(* Time is the number of ticks left until a time stamp is reached: the     *)
(* code only ever asks whether the counter has passed a stamp.             *)
(*                                                                         *)
(* The host's other code is the most general client: it submits a          *)
(* completion record that it is not waiting for, looks at records it is    *)
(* waiting for, and stops the thread when it waits for nothing.            *)
(***************************************************************************)
EXTENDS Integers, Sequences, FiniteSets

CONSTANTS
  Comps,        \* addresses of completion records
  NoComp,       \* the address 0 that compl_addr starts with
  MaxInflight,  \* max_inflights of start_non_blocking_ax
  OffloadTime,  \* offload_duration, in ticks
  gLogLevel,    \* the program's log level
  EagerHost     \* the host may submit before the ax thread reaches its loop

ASSUME EmulAxAssumption ==
  /\ NoComp \notin Comps
  /\ MaxInflight \in Nat
  /\ OffloadTime \in Nat
  /\ gLogLevel \in Int
  /\ EagerHost \in BOOLEAN

SUBMIT_SUCCESS == 0
SUBMIT_FAIL == 1
OFFLOAD_REQUESTED == 0
OFFLOAD_RECEIVED == 1
COMP_STATUS_PENDING == 0
COMP_STATUS_COMPLETED == 1

NumRetries == 3

\* The thread exports total_offloads at this log level only.
LOG_MONITOR == 2
Monitoring == gLogLevel = LOG_MONITOR

VARIABLES
  submit_flag, submit_status, compl_addr, p_dst_buf, total_offloads,
  ax_running,         \* *keep_running
  comp_status,        \* comp->status of every completion record
  axpc,               \* where the ax thread is
  inflight_list,      \* offload_in_flight_list
  in_flight, offload_in_flight,
  next_time,          \* next_offload_completion_time
  new_time, new_comp, \* comp_time and comp_addr of the offload being accepted
  hpc,                \* where the host thread is
  hcomp,              \* the comp argument of submit_offload
  retries,            \* retries_remaining
  outstanding         \* records accepted and not yet seen completed

mailbox == <<submit_flag, submit_status, compl_addr, p_dst_buf>>
device == <<inflight_list, in_flight, offload_in_flight, next_time>>
accepting == <<new_time, new_comp>>
host == <<hpc, hcomp, retries, outstanding>>
vars == <<mailbox, total_offloads, ax_running, comp_status, axpc, device,
          accepting, host>>

(***************************************************************************)
(* Ticks left: Never is UINT64_MAX, the stamp no counter reaches.          *)
(***************************************************************************)
Never == OffloadTime + 1
Times == 0 .. Never
Offload == [comp : Comps \cup {NoComp}, left : 0 .. OffloadTime]
Sooner(t) == IF t = 0 \/ t = Never THEN t ELSE t - 1
Ticked(list) ==
  [i \in 1 .. Len(list) |->
     [comp |-> list[i].comp, left |-> Sooner(list[i].left)]]

AxBooting == {"boot", "reset"}
AxAccepting == {"status", "addr", "receive"}
AxRejecting == {"refuse", "refused"}
AxPc == AxBooting \cup AxAccepting \cup AxRejecting
          \cup {"off", "loop", "poll", "check", "enqueue"}
HostPc == {"down", "idle", "comp", "addr", "flag", "dst", "spin", "result",
           "ok", "fail", "join", "exited"}

Init ==
  /\ submit_flag = 0 /\ submit_status = 0 /\ total_offloads = 0
  /\ compl_addr = NoComp /\ p_dst_buf = NoComp
  /\ ax_running = TRUE
  /\ comp_status = [c \in Comps |-> COMP_STATUS_PENDING]
  /\ axpc = "off"
  /\ inflight_list = <<>> /\ in_flight = 0 /\ offload_in_flight = FALSE
  /\ next_time = Never
  /\ new_time = 0 /\ new_comp = NoComp
  /\ hpc = "down" /\ hcomp = NoComp /\ retries = NumRetries
  /\ outstanding = {}

-----------------------------------------------------------------------------
(***************************************************************************)
(* The ax thread.                                                          *)
(***************************************************************************)
\* Prologue: fresh locals, and the exported counter starts over.
AxBoot ==
  /\ axpc = "boot"
  /\ axpc' = "reset"
  /\ inflight_list' = <<>> /\ in_flight' = 0 /\ offload_in_flight' = FALSE
  /\ next_time' = Never
  /\ total_offloads' = IF Monitoring THEN 0 ELSE total_offloads
  /\ UNCHANGED <<mailbox, ax_running, comp_status, accepting, host>>

\* submit_flag = OFFLOAD_RECEIVED before the loop.
AxResetFlag ==
  /\ axpc = "reset"
  /\ axpc' = "loop"
  /\ submit_flag' = OFFLOAD_RECEIVED
  /\ UNCHANGED <<submit_status, compl_addr, p_dst_buf, total_offloads,
                 ax_running, comp_status, device, accepting, host>>

\* while(*keep_running): another round, or the thread returns.
AxLoop ==
  /\ axpc = "loop"
  /\ axpc' = IF ax_running THEN "poll" ELSE "off"
  /\ UNCHANGED <<mailbox, total_offloads, ax_running, comp_status, device,
                 accepting, host>>

\* Is the earliest submitted offload up?
Due == offload_in_flight /\ next_time = 0

\* The offload the thread notifies about, the one accepted first.
Mut_Latest == inflight_list[Len(inflight_list)]
Earliest == Head(inflight_list)

\* Is another offload in flight once list is left, and when is it up?
Mut_NothingLeft(list) == FALSE
MoreInFlight(list) == list # <<>>
Mut_TimeKept(list) == next_time
TimeOfNext(list) == IF list # <<>> THEN Head(list).left ELSE next_time

\* The time of the earliest offload is up: notify the offloader, pop, and
\* look at the next one.
AxComplete ==
  /\ axpc = "poll" /\ Due
  /\ comp_status' =
       [comp_status EXCEPT ![Earliest.comp] = COMP_STATUS_COMPLETED]
  /\ in_flight' = in_flight - 1
  /\ inflight_list' = Tail(inflight_list)
  /\ offload_in_flight' = MoreInFlight(inflight_list')
  /\ next_time' = TimeOfNext(inflight_list')
  /\ axpc' = "check"
  /\ UNCHANGED <<mailbox, total_offloads, ax_running, accepting, host>>

AxNothingDue ==
  /\ axpc = "poll" /\ ~Due
  /\ axpc' = "check"
  /\ UNCHANGED <<mailbox, total_offloads, ax_running, comp_status, device,
                 accepting, host>>

\* can_accept_offload
Mut_RoomOffByOne == in_flight < MaxInflight - 1
HasRoom == in_flight < MaxInflight

\* Is there a submission?  If so start_time is taken here.
AxCheck ==
  /\ axpc = "check"
  /\ IF submit_flag = OFFLOAD_REQUESTED
     THEN /\ axpc' = IF HasRoom THEN "status" ELSE "refuse"
          /\ new_time' = OffloadTime
     ELSE /\ axpc' = "loop"
          /\ UNCHANGED new_time
  /\ UNCHANGED <<mailbox, total_offloads, ax_running, comp_status, device,
                 new_comp, host>>

Mut_FlagBeforeAddr ==
  /\ axpc = "status"
  /\ axpc' = "addr"
  /\ submit_status' = SUBMIT_SUCCESS /\ submit_flag' = OFFLOAD_RECEIVED
  /\ UNCHANGED <<compl_addr, p_dst_buf, total_offloads, ax_running,
                 comp_status, device, accepting, host>>

AxAcceptStatus ==
  /\ axpc = "status"
  /\ axpc' = "addr"
  /\ submit_status' = SUBMIT_SUCCESS
  /\ UNCHANGED <<submit_flag, compl_addr, p_dst_buf, total_offloads,
                 ax_running, comp_status, device, accepting, host>>

AxReadAddr ==
  /\ axpc = "addr"
  /\ axpc' = "receive"
  /\ new_comp' = compl_addr
  /\ UNCHANGED <<mailbox, total_offloads, ax_running, comp_status, device,
                 new_time, host>>

AxReceive ==
  /\ axpc = "receive"
  /\ axpc' = "enqueue"
  /\ submit_flag' = OFFLOAD_RECEIVED
  /\ UNCHANGED <<submit_status, compl_addr, p_dst_buf, total_offloads,
                 ax_running, comp_status, device, accepting, host>>

Mut_PushFront(offload) == <<offload>> \o inflight_list
PushBack(offload) == Append(inflight_list, offload)
Mut_NotCounted == total_offloads
Counted == IF Monitoring THEN total_offloads + 1 ELSE total_offloads

\* Bookkeeping off the critical path: the submitter is already running on.
AxEnqueue ==
  /\ axpc = "enqueue"
  /\ axpc' = "loop"
  /\ inflight_list' = PushBack([comp |-> new_comp, left |-> new_time])
  /\ in_flight' = in_flight + 1
  /\ offload_in_flight' = TRUE
  /\ next_time' = IF Len(inflight_list') = 1 THEN new_time ELSE next_time
  /\ total_offloads' = Counted
  /\ new_time' = 0 /\ new_comp' = NoComp
  /\ UNCHANGED <<mailbox, ax_running, comp_status, host>>

AxRefuseStatus ==
  /\ axpc = "refuse"
  /\ axpc' = "refused"
  /\ submit_status' = SUBMIT_FAIL
  /\ UNCHANGED <<submit_flag, compl_addr, p_dst_buf, total_offloads,
                 ax_running, comp_status, device, accepting, host>>

AxRefuse ==
  /\ axpc = "refused"
  /\ axpc' = "loop"
  /\ submit_flag' = OFFLOAD_RECEIVED
  /\ new_time' = 0
  /\ UNCHANGED <<submit_status, compl_addr, p_dst_buf, total_offloads,
                 ax_running, comp_status, device, new_comp, host>>

AxNext ==
  /\ hpc # "exited"
  /\ \/ AxBoot \/ AxResetFlag \/ AxLoop \/ AxComplete \/ AxNothingDue
     \/ AxCheck \/ AxAcceptStatus \/ AxReadAddr \/ AxReceive \/ AxEnqueue
     \/ AxRefuseStatus \/ AxRefuse

-----------------------------------------------------------------------------
(***************************************************************************)
(* submit_offload(comp, dst_payload), on the host thread.                  *)
(***************************************************************************)
SubmitBegin(c) ==
  /\ hpc = "idle"
  /\ EagerHost \/ axpc \notin AxBooting
  /\ hpc' = "comp"
  /\ hcomp' = c
  /\ retries' = NumRetries
  /\ UNCHANGED <<mailbox, total_offloads, ax_running, comp_status, axpc,
                 device, accepting, outstanding>>

Mut_StatusNotSet ==
  /\ hpc = "comp"
  /\ hpc' = "addr"
  /\ UNCHANGED <<mailbox, total_offloads, ax_running, comp_status, axpc,
                 device, accepting, hcomp, retries, outstanding>>

SubmitComp ==
  /\ hpc = "comp"
  /\ hpc' = "addr"
  /\ comp_status' = [comp_status EXCEPT ![hcomp] = COMP_STATUS_PENDING]
  /\ UNCHANGED <<mailbox, total_offloads, ax_running, axpc, device, accepting,
                 hcomp, retries, outstanding>>

SubmitAddr ==
  /\ hpc = "addr"
  /\ hpc' = "flag"
  /\ compl_addr' = hcomp
  /\ UNCHANGED <<submit_flag, submit_status, p_dst_buf, total_offloads,
                 ax_running, comp_status, axpc, device, accepting, hcomp,
                 retries, outstanding>>

SubmitFlag ==
  /\ hpc = "flag"
  /\ hpc' = "dst"
  /\ submit_flag' = OFFLOAD_REQUESTED
  /\ UNCHANGED <<submit_status, compl_addr, p_dst_buf, total_offloads,
                 ax_running, comp_status, axpc, device, accepting, hcomp,
                 retries, outstanding>>

\* The destination (one per record) is published after the flag.
SubmitDst ==
  /\ hpc = "dst"
  /\ hpc' = "spin"
  /\ p_dst_buf' = hcomp
  /\ UNCHANGED <<submit_flag, submit_status, compl_addr, total_offloads,
                 ax_running, comp_status, axpc, device, accepting, hcomp,
                 retries, outstanding>>

SubmitSpin ==
  /\ hpc = "spin"
  /\ submit_flag # OFFLOAD_REQUESTED
  /\ hpc' = "result"
  /\ UNCHANGED <<mailbox, total_offloads, ax_running, comp_status, axpc,
                 device, accepting, hcomp, retries, outstanding>>

Mut_RetryUnbounded == submit_status = SUBMIT_FAIL
MayRetry == submit_status = SUBMIT_FAIL /\ retries > 0
Mut_NotDecremented == retries
RetriesLeft == retries - 1

\* A refused offload is not submitted again: the retry only reads the flag and
\* the status once more.
SubmitResult ==
  /\ hpc = "result"
  /\ IF MayRetry
     THEN hpc' = "spin" /\ retries' = RetriesLeft
     ELSE IF retries = 0
          THEN hpc' = "fail" /\ UNCHANGED retries
          ELSE hpc' = "ok" /\ retries' = NumRetries
  /\ UNCHANGED <<mailbox, total_offloads, ax_running, comp_status, axpc,
                 device, accepting, hcomp, outstanding>>

SubmitSteps ==
  \/ SubmitComp \/ SubmitAddr \/ SubmitFlag \/ SubmitDst \/ SubmitSpin
  \/ SubmitResult

-----------------------------------------------------------------------------
(***************************************************************************)
(* The callers of submit_offload, start_non_blocking_ax and                *)
(* stop_non_blocking_ax.                                                   *)
(***************************************************************************)
StartAx ==
  /\ hpc = "down"
  /\ hpc' = "idle"
  /\ ax_running' = TRUE
  /\ axpc' = "boot"
  /\ UNCHANGED <<mailbox, total_offloads, comp_status, device, accepting,
                 hcomp, retries, outstanding>>

ReturnSuccess ==
  /\ hpc = "ok"
  /\ hpc' = "idle"
  /\ outstanding' = outstanding \cup {hcomp}
  /\ UNCHANGED <<mailbox, total_offloads, ax_running, comp_status, axpc,
                 device, accepting, hcomp, retries>>

\* On STATUS_FAIL every request function returns, and a context whose function
\* returns ends the process.
ReturnFail ==
  /\ hpc = "fail"
  /\ hpc' = "exited"
  /\ UNCHANGED <<mailbox, total_offloads, ax_running, comp_status, axpc,
                 device, accepting, hcomp, retries, outstanding>>

\* The host reads a completion record and finds it completed.
SeeCompleted(c) ==
  /\ hpc = "idle"
  /\ comp_status[c] = COMP_STATUS_COMPLETED
  /\ outstanding' = outstanding \ {c}
  /\ UNCHANGED <<mailbox, total_offloads, ax_running, comp_status, axpc,
                 device, accepting, hpc, hcomp, retries>>

Mut_StopForgotten ==
  /\ hpc = "idle"
  /\ hpc' = "join"
  /\ UNCHANGED <<mailbox, total_offloads, ax_running, comp_status, axpc,
                 device, accepting, hcomp, retries, outstanding>>

StopAx ==
  /\ hpc = "idle"
  /\ hpc' = "join"
  /\ ax_running' = FALSE
  /\ UNCHANGED <<mailbox, total_offloads, comp_status, axpc, device,
                 accepting, hcomp, retries, outstanding>>

Joined ==
  /\ hpc = "join" /\ axpc = "off"
  /\ hpc' = "down"
  /\ UNCHANGED <<mailbox, total_offloads, ax_running, comp_status, axpc,
                 device, accepting, hcomp, retries, outstanding>>

\* A fresh array of completion records (at the addresses of the last one).
AllocateCrs ==
  /\ hpc \in {"down", "idle"}
  /\ comp_status' = [c \in Comps |-> COMP_STATUS_PENDING]
  /\ UNCHANGED <<mailbox, total_offloads, ax_running, axpc, device, accepting,
                 host>>

\* What the general client may do: a record it waits for is not submitted
\* again, and the records are replaced and the thread is stopped only when
\* nothing is waited for.
ClientSubmit(c) == c \notin outstanding /\ SubmitBegin(c)

ClientStop == outstanding = {} /\ StopAx
ClientSee(c) == c \in outstanding /\ SeeCompleted(c)
ClientAllocate == outstanding = {} /\ AllocateCrs

HostNext ==
  \/ StartAx \/ ClientStop \/ Joined \/ ClientAllocate
  \/ \E c \in Comps : ClientSubmit(c) \/ ClientSee(c)
  \/ SubmitSteps \/ ReturnSuccess \/ ReturnFail

-----------------------------------------------------------------------------
\* The time-stamp counter advances while the process lives.
Tick ==
  /\ hpc # "exited"
  /\ \/ \E i \in 1 .. Len(inflight_list) : inflight_list[i].left > 0
     \/ new_time > 0
  /\ inflight_list' = Ticked(inflight_list)
  /\ next_time' = Sooner(next_time)
  /\ new_time' = Sooner(new_time)
  /\ UNCHANGED <<mailbox, total_offloads, ax_running, comp_status, axpc,
                 in_flight, offload_in_flight, new_comp, host>>

\* exit(0) in the host thread takes the ax thread with it.
Exited == hpc = "exited" /\ UNCHANGED vars

Next == AxNext \/ HostNext \/ Tick \/ Exited

\* The operating system runs both threads and time passes.  The client is not
\* obliged to submit, to look at a record or to stop.
Fairness ==
  /\ WF_vars(AxNext)
  /\ WF_vars(SubmitSteps \/ ReturnSuccess \/ ReturnFail \/ Joined)
  /\ WF_vars(Tick)

Spec == Init /\ [][Next]_vars
FairSpec == Spec /\ Fairness
-----------------------------------------------------------------------------
(***************************************************************************)
(* Properties.                                                             *)
(***************************************************************************)
TypeOK ==
  /\ submit_flag \in {OFFLOAD_REQUESTED, OFFLOAD_RECEIVED}
  /\ submit_status \in {SUBMIT_SUCCESS, SUBMIT_FAIL}
  /\ compl_addr \in Comps \cup {NoComp} /\ p_dst_buf \in Comps \cup {NoComp}
  /\ total_offloads \in Nat
  /\ ax_running \in BOOLEAN
  /\ comp_status \in [Comps -> {COMP_STATUS_PENDING, COMP_STATUS_COMPLETED}]
  /\ axpc \in AxPc
  /\ inflight_list \in Seq(Offload)
  /\ in_flight \in Nat /\ offload_in_flight \in BOOLEAN
  /\ next_time \in Times
  /\ new_time \in 0 .. OffloadTime /\ new_comp \in Comps \cup {NoComp}
  /\ hpc \in HostPc /\ hcomp \in Comps \cup {NoComp}
  /\ retries \in 0 .. NumRetries
  /\ outstanding \subseteq Comps

\* The records in the thread's list, and the records the thread has taken: the
\* one it is about to enqueue included.
Held == {inflight_list[i].comp : i \in 1 .. Len(inflight_list)}
Taken == Held \cup (IF axpc = "enqueue" THEN {new_comp} ELSE {})

HeldOnce ==
  /\ \A i, j \in 1 .. Len(inflight_list) :
       inflight_list[i].comp = inflight_list[j].comp => i = j
  /\ axpc = "enqueue" => new_comp \notin Held

\* Host program counters between the flag's store and submit_offload's return.
Asked == {"dst", "spin", "result", "ok", "fail"}

\* The thread keeps the same fact three times (list, in_flight,
\* offload_in_flight) and the head's due time a fourth: they agree whenever a
\* step of the loop ends, and the list never outgrows max_inflight.
Bookkeeping ==
  /\ in_flight = Len(inflight_list)
  /\ offload_in_flight <=> inflight_list # <<>>
  /\ inflight_list # <<>> => next_time = Head(inflight_list).left
  /\ Len(inflight_list) <= MaxInflight

\* Due times follow the order of acceptance, so looking at the head alone
\* finds the earliest ("time is up for the earliest submitted offload").
DueInOrder ==
  \A i, j \in 1 .. Len(inflight_list) :
    i < j => inflight_list[i].left <= inflight_list[j].left

\* The thread holds a record at most once, only one the host is waiting for or
\* is being told of, and one that is still pending: it never completes a
\* record that was given back (and may be freed or submitted anew).
HoldsOnlyPending ==
  /\ HeldOnce
  /\ \A c \in Taken :
       /\ c \in outstanding \/ (c = hcomp /\ hpc \in Asked)
       /\ comp_status[c] = COMP_STATUS_PENDING

\* An offload submit_offload reported as accepted is held by the thread until
\* its record is completed: no submission is lost.
NoneLost ==
  \A c \in outstanding :
    comp_status[c] = COMP_STATUS_PENDING => c \in Taken

\* submit_offload fails only a host that already waits for max_inflight
\* offloads: the process is never ended by a spurious refusal.
FailsOnlyWhenFull ==
  hpc \in {"fail", "exited"} => Cardinality(outstanding) >= MaxInflight

\* When stop_non_blocking_ax has joined the thread, the thread left no
\* accepted offload behind.
StopsEmpty == hpc = "down" => inflight_list = <<>>

\* A record is completed only by the offload at the head of the list, and not
\* before offload_time has passed since its submission was noticed.
CompletesHeadWhenDue ==
  [][\A c \in Comps :
       comp_status[c] = COMP_STATUS_PENDING
         /\ comp_status'[c] = COMP_STATUS_COMPLETED
       => /\ inflight_list # <<>>
          /\ Head(inflight_list) = [comp |-> c, left |-> 0]]_vars

\* submit_offload returns: the flag it spins on is always answered.
SubmitReturns == hpc = "comp" ~> hpc \in {"ok", "fail"}

\* Positions of submit_offload at which it is still to store the flag.
Offering == {"comp", "addr", "flag"}

\* "Offload request failed after %d retries": each retry that is used up
\* offers the offload to the accelerator again, so the flag is stored once
\* more, now or before the answer is next read.  It is not.
RetryResubmits ==
  [][retries' < retries =>
       submit_flag' = OFFLOAD_REQUESTED \/ hpc' \in Offering]_vars

\* Every accepted offload completes (or the process has exited).
EveryOffloadCompletes ==
  \A c \in Comps :
    c \in outstanding ~> comp_status[c] = COMP_STATUS_COMPLETED
                          \/ hpc = "exited"

\* stop_non_blocking_ax returns.
StopReturns == hpc = "join" ~> hpc = "down"

-----------------------------------------------------------------------------
(***************************************************************************)
(* The thread and submit_offload together implement OffloadDevice.  A call *)
(* is made when the record is set to pending, and answered when the thread *)
(* sets the flag back; a record joins the queue with the answer, one step  *)
(* before the thread's list holds it.                                      *)
(***************************************************************************)
Queue ==
  [i \in 1 .. Len(inflight_list) |-> inflight_list[i].comp]
    \o (IF axpc = "enqueue" THEN <<new_comp>> ELSE <<>>)

Calling == hpc \in {"addr", "flag"} \cup Asked

Answer ==
  IF hpc \in Asked /\ submit_flag = OFFLOAD_RECEIVED
  THEN IF submit_status = SUBMIT_SUCCESS THEN "success" ELSE "failure"
  ELSE NoComp

Device == INSTANCE OffloadDevice WITH
  Records <- Comps, Capacity <- MaxInflight, None <- NoComp,
  queue <- Queue,
  completed <- {c \in Comps : comp_status[c] = COMP_STATUS_COMPLETED},
  call <- IF Calling THEN hcomp ELSE NoComp,
  answer <- Answer

\* Every behaviour of the mailbox protocol is one of the abstract device: no
\* submission is lost, duplicated or answered wrongly, records complete in the
\* order they were accepted, and only accepted ones do.
ImplementsDevice == Device!DSpec
=============================================================================
