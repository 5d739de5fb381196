---------------------------- MODULE EmulAxProofs ----------------------------
(***************************************************************************)
(* Theorems about EmulAx, for every value of its constants.                *)
(***************************************************************************)
EXTENDS EmulAx, FiniteSetTheorems, TLAPS

(***************************************************************************)
(* The inductive invariant behind the device's bookkeeping: while the      *)
(* thread is accepting an offload there is room for it, and the offload    *)
(* being accepted is due no earlier than any in the list.                  *)
(***************************************************************************)
RoomForNew ==
  axpc \in AxAccepting \cup {"enqueue"} => in_flight < MaxInflight

NewIsLast ==
  axpc \in AxAccepting \cup {"enqueue"} =>
    \A i \in 1 .. Len(inflight_list) : inflight_list[i].left <= new_time

\* During a call submit_offload's argument is a record.
InCall == {"comp", "addr", "flag"} \cup Asked
CallHasRecord == hpc \in InCall => hcomp \in Comps

DeviceInv ==
  /\ TypeOK /\ CallHasRecord
  /\ Bookkeeping /\ RoomForNew /\ NewIsLast /\ DueInOrder

(***************************************************************************)
(* The mailbox protocol.  Between the store of OFFLOAD_REQUESTED and the   *)
(* store of OFFLOAD_RECEIVED the mailbox belongs to the ax thread, else to *)
(* the host; each side's program counter says whose turn it is.            *)
(***************************************************************************)
\* A submission nobody answered yet: the record is the host's, pending (once
\* submit_offload has set it) and not held by the thread.
Unanswered ==
  hpc \in {"comp", "addr", "flag"}
    \/ (hpc \in {"dst", "spin"} /\ submit_flag = OFFLOAD_REQUESTED)

TakenPending ==
  \A c \in Taken :
    /\ c \in outstanding \/ (c = hcomp /\ hpc \in Asked)
    /\ comp_status[c] = COMP_STATUS_PENDING

HostRecord ==
  /\ hpc \in InCall => hcomp \notin outstanding
  /\ hpc \in {"flag"} \cup Asked => compl_addr = hcomp
  /\ Unanswered => hcomp \notin Taken
  /\ Unanswered /\ hpc # "comp" => comp_status[hcomp] = COMP_STATUS_PENDING

FlagOwner ==
  /\ axpc \in AxAccepting \cup AxRejecting =>
       submit_flag = OFFLOAD_REQUESTED /\ hpc \in {"dst", "spin"}
  /\ axpc = "receive" => new_comp = compl_addr
  /\ axpc \in {"loop", "poll", "check", "enqueue"}
       /\ submit_flag = OFFLOAD_REQUESTED => hpc \in {"dst", "spin"}
  /\ hpc \in {"result", "ok", "fail"} => submit_flag = OFFLOAD_RECEIVED

Lifecycle ==
  /\ hpc = "down" => axpc = "off"
  /\ hpc \in {"down", "join"} => outstanding = {}
  /\ axpc = "off" => hpc \in {"down", "join"}
  /\ ~ax_running => hpc \in {"down", "join"}
  /\ axpc = "boot" => Taken = {}

\* A status of SUBMIT_FAIL is never about a record the thread has taken, and
\* the retries read one refusal again and again.
StatusTrue ==
  /\ submit_status = SUBMIT_FAIL => hcomp \notin Taken
  /\ axpc \in {"addr", "receive"} => submit_status = SUBMIT_SUCCESS
  /\ axpc = "refused" => submit_status = SUBMIT_FAIL
  /\ retries < NumRetries =>
       /\ hpc \in {"spin", "result", "fail", "exited"}
       /\ submit_flag = OFFLOAD_RECEIVED /\ submit_status = SUBMIT_FAIL
  /\ hpc = "fail" => submit_status = SUBMIT_FAIL

Protocol ==
  TakenPending /\ HostRecord /\ FlagOwner /\ Lifecycle /\ StatusTrue

HoldInv == HeldOnce /\ Protocol

(***************************************************************************)
(* What is true besides when no submission is made before the thread has   *)
(* reached its loop.                                                       *)
(***************************************************************************)
Booted == axpc \in AxBooting => hpc \notin InCall /\ outstanding = {}

\* An answer of SUBMIT_SUCCESS is only given for a record the thread takes.
SuccessTrue ==
  /\ hpc \in Asked /\ submit_flag = OFFLOAD_RECEIVED
       /\ submit_status = SUBMIT_SUCCESS =>
       hcomp \in Taken \/ comp_status[hcomp] = COMP_STATUS_COMPLETED
  /\ hpc = "ok" => submit_status = SUBMIT_SUCCESS

LostInv == NoneLost /\ Booted /\ SuccessTrue

(***************************************************************************)
(* A refusal is an offence of the host: it asked while it waited for       *)
(* max_inflight offloads, and it waits for them until its call returns.    *)
(***************************************************************************)
FullInv ==
  /\ IsFiniteSet(outstanding)
  /\ axpc \in AxRejecting => MaxInflight <= Len(inflight_list)
  /\ submit_status = SUBMIT_FAIL =>
       /\ hpc \in {"dst", "spin", "result", "fail", "exited"}
       /\ MaxInflight <= Cardinality(outstanding)
  /\ hpc \in {"fail", "exited"} => submit_status = SUBMIT_FAIL

-----------------------------------------------------------------------------
LEMMA SoonerFacts ==
  /\ \A t \in Times : Sooner(t) \in Times
  /\ \A t \in 0 .. OffloadTime : Sooner(t) \in 0 .. OffloadTime
  /\ \A s, t \in 0 .. OffloadTime : s <= t => Sooner(s) <= Sooner(t)
BY EmulAxAssumption DEF Sooner, Times, Never

\* What the list operations of the thread return.
LEMMA ListFacts ==
  ASSUME NEW s \in Seq(Offload)
  PROVE  /\ s # <<>> => /\ Head(s) = s[1] /\ Head(s) \in Offload
                        /\ Tail(s) \in Seq(Offload)
                        /\ Len(Tail(s)) = Len(s) - 1
                        /\ \A i \in 1 .. Len(Tail(s)) : Tail(s)[i] = s[i + 1]
         /\ (s = <<>>) <=> (Len(s) = 0)
         /\ Len(s) \in Nat
         /\ \A i \in 1 .. Len(s) : s[i] \in Offload
OBVIOUS

\* A tick keeps the list's length and records, and moves every stamp.
LEMMA TickedFacts ==
  ASSUME NEW s \in Seq(Offload)
  PROVE  /\ Ticked(s) \in Seq(Offload)
         /\ Len(Ticked(s)) = Len(s)
         /\ \A i \in 1 .. Len(s) : /\ Ticked(s)[i].comp = s[i].comp
                                   /\ Ticked(s)[i].left = Sooner(s[i].left)
<1> DEFINE e(i) == [comp |-> s[i].comp, left |-> Sooner(s[i].left)]
<1>1. \A i \in 1 .. Len(s) : e(i) \in Offload
  <2> TAKE i \in 1 .. Len(s)
  <2>1. s[i] \in Offload
    OBVIOUS
  <2>2. s[i].comp \in Comps \cup {NoComp} /\ s[i].left \in 0 .. OffloadTime
    BY <2>1 DEF Offload
  <2>3. Sooner(s[i].left) \in 0 .. OffloadTime
    BY <2>2, SoonerFacts
  <2> QED
    BY <2>2, <2>3 DEF Offload
<1>2. Ticked(s) = [i \in 1 .. Len(s) |-> e(i)]
  BY DEF Ticked
<1>3. Len(s) \in Nat
  OBVIOUS
<1>4. Ticked(s) \in Seq(Offload) /\ Len(Ticked(s)) = Len(s)
  <2> HIDE DEF e
  <2> QED BY <1>1, <1>2, <1>3
<1>5. \A i \in 1 .. Len(s) : Ticked(s)[i] = e(i)
  BY <1>2
<1>6. \A i \in 1 .. Len(s) : /\ e(i).comp = s[i].comp
                             /\ e(i).left = Sooner(s[i].left)
  OBVIOUS
<1> HIDE DEF e
<1> QED
  BY <1>4, <1>5, <1>6

-----------------------------------------------------------------------------
LEMMA DeviceInvInit == Init => DeviceInv
<1> SUFFICES ASSUME Init PROVE DeviceInv
  OBVIOUS
<1>1. inflight_list = <<>> /\ Len(inflight_list) = 0
      /\ inflight_list \in Seq(Offload)
  BY DEF Init
<1>2. TypeOK
  <2>1. comp_status \in [Comps -> {0, 1}]
    BY DEF Init, COMP_STATUS_PENDING
  <2>2. next_time \in Times /\ new_time \in 0 .. OffloadTime
    BY EmulAxAssumption DEF Init, Times, Never
  <2>3. axpc \in AxPc /\ hpc \in HostPc /\ retries \in 0 .. NumRetries
    BY DEF Init, AxPc, AxAccepting, AxBooting, AxRejecting, HostPc, NumRetries
  <2> QED
    BY <1>1, <2>1, <2>2, <2>3
       DEF Init, TypeOK, OFFLOAD_REQUESTED, OFFLOAD_RECEIVED, SUBMIT_SUCCESS,
           SUBMIT_FAIL, COMP_STATUS_PENDING, COMP_STATUS_COMPLETED
<1>3. Bookkeeping /\ DueInOrder
  BY <1>1, EmulAxAssumption DEF Init, Bookkeeping, DueInOrder
<1>4. RoomForNew /\ NewIsLast /\ CallHasRecord
  BY DEF Init, RoomForNew, NewIsLast, AxAccepting, CallHasRecord, InCall,
         Asked
<1> QED
  BY <1>2, <1>3, <1>4 DEF DeviceInv

\* Types are kept: in_flight needs the bookkeeping, or it could be decremented
\* below zero.
LEMMA TypeNext == DeviceInv /\ [Next]_vars => TypeOK'
<1> SUFFICES ASSUME DeviceInv, [Next]_vars PROVE TypeOK'
  OBVIOUS
<1> USE EmulAxAssumption
   DEF DeviceInv, TypeOK, OFFLOAD_REQUESTED, OFFLOAD_RECEIVED, SUBMIT_SUCCESS,
       SUBMIT_FAIL,
        COMP_STATUS_PENDING, COMP_STATUS_COMPLETED, AxPc, AxAccepting,
        AxRejecting, AxBooting, HostPc, NumRetries,
        mailbox, device, accepting, host
<1>1. CASE AxBoot
  <2>1. inflight_list' \in Seq(Offload)
    BY <1>1 DEF AxBoot
  <2>2. next_time' \in Times /\ total_offloads' \in Nat
    BY <1>1 DEF AxBoot, Times, Never
  <2> QED
    BY <1>1, <2>1, <2>2, ZenonT(60) DEF AxBoot
<1>2. CASE AxResetFlag
  BY <1>2 DEF AxResetFlag
<1>3. CASE AxLoop
  BY <1>3 DEF AxLoop
<1>4. CASE AxComplete
  <2>1. /\ inflight_list # <<>> /\ inflight_list' = Tail(inflight_list)
        /\ inflight_list' \in Seq(Offload)
    BY <1>4, ListFacts
       DEF AxComplete, Due, Earliest, MoreInFlight, TimeOfNext, Bookkeeping
  <2>2. in_flight' \in Nat
    BY <1>4, <2>1, ListFacts
       DEF AxComplete, Due, Earliest, MoreInFlight, TimeOfNext, Bookkeeping
  <2>3. next_time' \in Times
    <3>1. inflight_list' # <<>> => Head(inflight_list') \in Offload
      BY <2>1, ListFacts
    <3>2. inflight_list' # <<>> => Head(inflight_list').left \in Times
      BY <3>1 DEF Offload, Times, Never
    <3> QED
      BY <1>4, <3>2 DEF AxComplete, Due, Earliest, MoreInFlight, TimeOfNext
  <2>4. offload_in_flight' \in BOOLEAN
    BY <1>4 DEF AxComplete, Due, Earliest, MoreInFlight, TimeOfNext
  <2>5. comp_status' \in [Comps -> {0, 1}]
    BY <1>4 DEF AxComplete, Due, Earliest, MoreInFlight, TimeOfNext
  <2> QED
    BY <1>4, <2>1, <2>2, <2>3, <2>4, <2>5
       DEF AxComplete, Due, Earliest, MoreInFlight, TimeOfNext
<1>5. CASE AxNothingDue
  BY <1>5 DEF AxNothingDue, Due
<1>6. CASE AxCheck
  BY <1>6 DEF AxCheck, HasRoom
<1>7. CASE AxAcceptStatus
  BY <1>7 DEF AxAcceptStatus
<1>8. CASE AxReadAddr
  BY <1>8 DEF AxReadAddr
<1>9. CASE AxReceive
  BY <1>9 DEF AxReceive
<1>10. CASE AxEnqueue
  <2>1. [comp |-> new_comp, left |-> new_time] \in Offload
    BY DEF Offload
  <2>2. inflight_list' \in Seq(Offload)
    BY <1>10, <2>1 DEF AxEnqueue, PushBack, Counted
  <2>3. next_time' \in Times /\ new_time' \in 0 .. OffloadTime
    BY <1>10 DEF AxEnqueue, PushBack, Counted, Times, Never
  <2>4. total_offloads' \in Nat
    BY <1>10 DEF AxEnqueue, PushBack, Counted
  <2> QED
    BY <1>10, <2>2, <2>3, <2>4 DEF AxEnqueue, PushBack, Counted
<1>11. CASE AxRefuseStatus
  BY <1>11 DEF AxRefuseStatus
<1>12. CASE AxRefuse
  BY <1>12 DEF AxRefuse
<1>13. CASE SubmitComp
  BY <1>13, ZenonT(60) DEF SubmitComp
<1>14. CASE SubmitAddr
  BY <1>14 DEF SubmitAddr
<1>15. CASE SubmitFlag
  BY <1>15 DEF SubmitFlag
<1>16. CASE SubmitDst
  BY <1>16 DEF SubmitDst
<1>17. CASE SubmitSpin
  BY <1>17 DEF SubmitSpin
<1>18. CASE SubmitResult
  BY <1>18 DEF SubmitResult, MayRetry, RetriesLeft
<1>19. CASE StartAx
  BY <1>19 DEF StartAx
<1>20. CASE ClientStop
  BY <1>20, ZenonT(60) DEF ClientStop, StopAx
<1>21. CASE Joined
  BY <1>21 DEF Joined
<1>22. CASE ClientAllocate
  BY <1>22 DEF ClientAllocate, AllocateCrs
<1>23. CASE ReturnSuccess
  <2>1. outstanding' \subseteq Comps
    BY <1>23 DEF ReturnSuccess, CallHasRecord, InCall, Asked
  <2> QED
    BY <1>23, <2>1 DEF ReturnSuccess
<1>24. CASE ReturnFail
  BY <1>24 DEF ReturnFail
<1>25. ASSUME NEW c \in Comps, ClientSubmit(c) PROVE TypeOK'
  BY <1>25 DEF ClientSubmit, SubmitBegin
<1>26. ASSUME NEW c \in Comps, ClientSee(c) PROVE TypeOK'
  BY <1>26 DEF ClientSee, SeeCompleted
<1>27. CASE Tick
  <2>1. inflight_list' \in Seq(Offload)
    BY <1>27, TickedFacts DEF Tick
  <2>2. next_time' \in Times /\ new_time' \in 0 .. OffloadTime
    BY <1>27, SoonerFacts DEF Tick
  <2> QED
    BY <1>27, <2>1, <2>2 DEF Tick
<1>28. CASE UNCHANGED vars
  BY <1>28 DEF vars
<1> QED
  BY <1>1, <1>2, <1>3, <1>4, <1>5, <1>6, <1>7, <1>8, <1>9, <1>10, <1>11,
     <1>12, <1>13, <1>14, <1>15, <1>16, <1>17, <1>18, <1>19, <1>20,
     <1>21, <1>22, <1>23, <1>24, <1>25, <1>26, <1>27, <1>28
     DEF Next, AxNext, HostNext, SubmitSteps, Exited

\* The device's own steps keep its bookkeeping; nobody else touches it.
LEMMA DeviceInvNext == DeviceInv /\ [Next]_vars => DeviceInv'
<1> SUFFICES ASSUME DeviceInv, [Next]_vars PROVE DeviceInv'
  OBVIOUS
<1>0. TypeOK /\ TypeOK'
  BY TypeNext DEF DeviceInv
<1>t. /\ inflight_list \in Seq(Offload) /\ inflight_list' \in Seq(Offload)
      /\ Len(inflight_list) \in Nat /\ in_flight \in Nat
      /\ next_time \in Times /\ new_time \in 0 .. OffloadTime
      /\ offload_in_flight \in BOOLEAN
      /\ \A i \in 1 .. Len(inflight_list) :
           inflight_list[i].left \in 0 .. OffloadTime
      /\ (inflight_list = <<>>) <=> (Len(inflight_list) = 0)
      /\ inflight_list # <<>> => Head(inflight_list) = inflight_list[1]
  BY <1>0, ListFacts DEF TypeOK, Offload
<1> DEFINE Rest == Bookkeeping /\ RoomForNew /\ NewIsLast /\ DueInOrder
<1>c. CallHasRecord'
  BY DEF DeviceInv, CallHasRecord, InCall, Asked, host, vars,
         Next, AxNext, AxBoot, AxResetFlag, AxLoop, AxComplete, AxNothingDue,
         AxCheck, AxAcceptStatus, AxReadAddr, AxReceive, AxEnqueue,
         AxRefuseStatus, AxRefuse, HostNext, StartAx, ClientStop, StopAx,
         Joined, ClientAllocate, AllocateCrs, ReturnSuccess, ReturnFail,
         ClientSubmit, SubmitBegin, ClientSee, SeeCompleted, SubmitSteps,
         SubmitComp, SubmitAddr, SubmitFlag, SubmitDst, SubmitSpin,
         SubmitResult, MayRetry, Tick, Exited
<1> SUFFICES Rest'
  BY <1>0, <1>c DEF DeviceInv
<1>r. Rest
  BY DEF DeviceInv
<1> USE EmulAxAssumption, <1>r
    DEF Bookkeeping, RoomForNew, NewIsLast, DueInOrder, AxAccepting
<1>1. CASE AxBoot
  <2>1. inflight_list' = <<>> /\ Len(inflight_list') = 0
    BY <1>1 DEF AxBoot
  <2> QED
    BY <1>1, <2>1 DEF AxBoot
<1>2. CASE AxComplete
  <2> DEFINE s == inflight_list
             t == inflight_list'
  <2>1. s # <<>> /\ Len(s) > 0 /\ t = Tail(s)
    BY <1>2, <1>t DEF AxComplete, Due, Earliest, MoreInFlight, TimeOfNext
  <2>2. Len(t) = Len(s) - 1 /\ \A i \in 1 .. Len(t) : t[i] = s[i + 1]
    BY <2>1, <1>t, ListFacts
  <2>3. (t = <<>>) <=> (Len(t) = 0)
    BY <1>t, ListFacts
  <2>4. Bookkeeping'
    <3>1. in_flight' = Len(t) /\ Len(t) <= MaxInflight
      BY <1>2, <1>t, <2>2
         DEF AxComplete, Due, Earliest, MoreInFlight, TimeOfNext
    <3>2. offload_in_flight' <=> t # <<>>
      BY <1>2 DEF AxComplete, Due, Earliest, MoreInFlight, TimeOfNext
    <3>3. t # <<>> => next_time' = Head(t).left
      BY <1>2 DEF AxComplete, Due, Earliest, MoreInFlight, TimeOfNext
    <3> QED
      BY <3>1, <3>2, <3>3
  <2>5. DueInOrder'
    <3> SUFFICES ASSUME NEW i \in 1 .. Len(t), NEW j \in 1 .. Len(t), i < j
                 PROVE  t[i].left <= t[j].left
      OBVIOUS
    <3>1. i + 1 \in 1 .. Len(s) /\ j + 1 \in 1 .. Len(s) /\ i + 1 < j + 1
      BY <1>t, <2>2
    <3> QED
      BY <3>1, <2>2
  <2>6. RoomForNew' /\ NewIsLast'
    BY <1>2 DEF AxComplete, Due, Earliest, MoreInFlight, TimeOfNext
  <2> QED
    BY <2>4, <2>5, <2>6
<1>3. CASE AxCheck
  <2>1. Bookkeeping' /\ DueInOrder'
    BY <1>3 DEF AxCheck, HasRoom, device
  <2>2. RoomForNew'
    BY <1>3 DEF AxCheck, HasRoom, device
  <2>3. NewIsLast'
    BY <1>3, <1>t DEF AxCheck, HasRoom, device
  <2> QED
    BY <2>1, <2>2, <2>3
<1>4. CASE AxEnqueue
  <2> DEFINE s == inflight_list
             t == inflight_list'
             e == [comp |-> new_comp, left |-> new_time]
  <2>0. e.left = new_time
    OBVIOUS
  <2>1. /\ t = Append(s, e) /\ Len(t) = Len(s) + 1
        /\ \A i \in 1 .. Len(s) : t[i] = s[i]
        /\ t[Len(t)] = e
    BY <1>4, <1>t DEF AxEnqueue, PushBack, Counted
  <2> HIDE DEF e
  <2>2. t # <<>> /\ Head(t) = t[1]
    BY <1>t, <2>1, ListFacts
  <2>3. Bookkeeping'
    BY <1>4, <1>t, <2>0, <2>1, <2>2 DEF AxEnqueue, PushBack, Counted
  <2>4. DueInOrder'
    BY <1>4, <1>t, <2>0, <2>1 DEF AxEnqueue, PushBack, Counted
  <2>5. RoomForNew' /\ NewIsLast'
    BY <1>4 DEF AxEnqueue, PushBack, Counted
  <2> QED
    BY <2>3, <2>4, <2>5
<1>5. CASE Tick
  <2> DEFINE s == inflight_list
             t == inflight_list'
  <2>1. /\ Len(t) = Len(s)
        /\ \A i \in 1 .. Len(s) : t[i].left = Sooner(s[i].left)
    BY <1>5, <1>t, TickedFacts DEF Tick
  <2>2. ((t = <<>>) <=> (Len(t) = 0)) /\ (t # <<>> => Head(t) = t[1])
    BY <1>t, ListFacts
  <2>3. Bookkeeping'
    BY <1>5, <1>t, <2>1, <2>2 DEF Tick
  <2>4. DueInOrder'
    <3> SUFFICES ASSUME NEW i \in 1 .. Len(t), NEW j \in 1 .. Len(t), i < j
                 PROVE  t[i].left <= t[j].left
      OBVIOUS
    <3>1. s[i].left <= s[j].left
      BY <2>1
    <3>2. s[i].left \in 0 .. OffloadTime /\ s[j].left \in 0 .. OffloadTime
      BY <1>t, <2>1
    <3> QED
      BY <2>1, <3>1, <3>2, SoonerFacts
  <2>5. RoomForNew'
    BY <1>5 DEF Tick
  <2>6. NewIsLast'
    <3> SUFFICES ASSUME axpc \in AxAccepting \cup {"enqueue"},
                        NEW i \in 1 .. Len(t)
                 PROVE  t[i].left <= new_time'
      BY <1>5 DEF Tick
    <3>1. s[i].left <= new_time /\ s[i].left \in 0 .. OffloadTime
      BY <1>t, <2>1
    <3> QED
      BY <1>5, <1>t, <2>1, <3>1, SoonerFacts DEF Tick
  <2> QED
    BY <2>3, <2>4, <2>5, <2>6
<1>6. ASSUME UNCHANGED <<device, accepting>>,
             axpc' = axpc \/ axpc' \notin AxAccepting \cup {"enqueue"}
                          \/ axpc \in AxAccepting
      PROVE  Rest'
  BY <1>6 DEF device, accepting
<1>7. CASE AxReadAddr
  BY <1>7 DEF AxReadAddr, device
<1>8. CASE AxRefuse
  BY <1>8 DEF AxRefuse, device
<1>9. CASE AxResetFlag \/ AxLoop \/ AxNothingDue \/ AxAcceptStatus
           \/ AxReceive \/ AxRefuseStatus
  BY <1>6, <1>9 DEF AxResetFlag, AxLoop, AxNothingDue, AxAcceptStatus,
                    AxReceive, AxRefuseStatus
<1>10. CASE SubmitSteps
  BY <1>6, <1>10 DEF SubmitSteps, SubmitComp, SubmitAddr, SubmitFlag,
                     SubmitDst, SubmitSpin, SubmitResult, MayRetry
<1>11. CASE StartAx \/ ClientStop \/ Joined \/ ClientAllocate
            \/ ReturnSuccess \/ ReturnFail
  BY <1>6, <1>11 DEF StartAx, ClientStop, StopAx, Joined, ClientAllocate,
                     AllocateCrs, ReturnSuccess, ReturnFail
<1>12. CASE \E c \in Comps : ClientSubmit(c) \/ ClientSee(c)
  BY <1>6, <1>12 DEF ClientSubmit, SubmitBegin, ClientSee, SeeCompleted
<1>13. CASE UNCHANGED vars
  BY <1>6, <1>13 DEF vars
<1> HIDE DEF Rest
<1> QED
  BY <1>1, <1>2, <1>3, <1>4, <1>5, <1>7, <1>8, <1>9, <1>10, <1>11, <1>12,
     <1>13 DEF Next, AxNext, HostNext, Exited

-----------------------------------------------------------------------------
\* Every state is well typed, the redundant bookkeeping of the ax thread
\* agrees with its list, and the list is in the order of the due times.
THEOREM DeviceInvariant == Spec => []DeviceInv
<1>1. Init => DeviceInv
  BY DeviceInvInit
<1>2. DeviceInv /\ [Next]_vars => DeviceInv'
  BY DeviceInvNext
<1> QED
  BY <1>1, <1>2, PTL DEF Spec

\* Type correctness: in particular in_flight never goes below zero and
\* submit_offload always works on a record.
THEOREM TypeCorrect == Spec => []TypeOK
<1>1. DeviceInv => TypeOK
  BY DEF DeviceInv
<1> QED
  BY <1>1, DeviceInvariant, PTL

\* in_flight, offload_in_flight and next_offload_completion_time say what the
\* list says, and the list never outgrows max_inflight.
THEOREM BookkeepingAgrees == Spec => []Bookkeeping
<1>1. DeviceInv => Bookkeeping
  BY DEF DeviceInv
<1> QED
  BY <1>1, DeviceInvariant, PTL

\* The head of the list is always an earliest offload.
THEOREM HeadIsEarliest == Spec => []DueInOrder
<1>1. DeviceInv => DueInOrder
  BY DEF DeviceInv
<1> QED
  BY <1>1, DeviceInvariant, PTL

\* A record is completed only as the head of the list, and only when its time
\* is up.
THEOREM CompletesOnlyHead == Spec => CompletesHeadWhenDue
<1> DEFINE A == \A c \in Comps :
                  comp_status[c] = COMP_STATUS_PENDING
                    /\ comp_status'[c] = COMP_STATUS_COMPLETED
                  => /\ inflight_list # <<>>
                     /\ Head(inflight_list) = [comp |-> c, left |-> 0]
<1>1. DeviceInv /\ [Next]_vars => [A]_vars
  <2> SUFFICES ASSUME DeviceInv, [Next]_vars, NEW c \in Comps,
                      comp_status[c] = COMP_STATUS_PENDING,
                      comp_status'[c] = COMP_STATUS_COMPLETED
               PROVE  /\ inflight_list # <<>>
                      /\ Head(inflight_list) = [comp |-> c, left |-> 0]
    OBVIOUS
  <2>t. comp_status \in [Comps -> {0, 1}] /\ inflight_list \in Seq(Offload)
    BY DEF DeviceInv, TypeOK, COMP_STATUS_PENDING, COMP_STATUS_COMPLETED
  <2>1. CASE AxComplete
    <3>1. inflight_list # <<>> /\ Head(inflight_list).left = 0
      BY <2>1
         DEF AxComplete, Due, Earliest, MoreInFlight, TimeOfNext, DeviceInv,
             Bookkeeping
    <3>2. Head(inflight_list).comp = c
      BY <2>1, <2>t
         DEF AxComplete, Due, Earliest, MoreInFlight, TimeOfNext,
             COMP_STATUS_PENDING, COMP_STATUS_COMPLETED
    <3>3. Head(inflight_list) \in Offload
      BY <2>t, <3>1, ListFacts
    <3> QED
      BY <3>1, <3>2, <3>3 DEF Offload
  <2>2. CASE SubmitComp \/ ClientAllocate
    BY <2>2, <2>t DEF SubmitComp, ClientAllocate, AllocateCrs,
                      COMP_STATUS_PENDING, COMP_STATUS_COMPLETED
  <2>3. CASE comp_status' = comp_status
    BY <2>3 DEF COMP_STATUS_PENDING, COMP_STATUS_COMPLETED
  <2> QED
    BY <2>1, <2>2, <2>3
       DEF vars, Next, AxNext, AxBoot, AxResetFlag, AxLoop, AxNothingDue,
           AxCheck, AxAcceptStatus, AxReadAddr, AxReceive, AxEnqueue,
           AxRefuseStatus, AxRefuse, HostNext, StartAx, ClientStop, StopAx,
           Joined, ReturnSuccess, ReturnFail, ClientSubmit, SubmitBegin,
           ClientSee, SeeCompleted, SubmitSteps, SubmitAddr, SubmitFlag,
           SubmitDst, SubmitSpin, SubmitResult, Tick, Exited
<1> QED
  BY <1>1, DeviceInvariant, PTL DEF Spec, CompletesHeadWhenDue

-----------------------------------------------------------------------------
(***************************************************************************)
(* How the set of taken records changes.                                   *)
(***************************************************************************)
LEMMA TakenSame ==
  ASSUME HeldOnce, inflight_list' = inflight_list,
         axpc = "enqueue" <=> axpc' = "enqueue",
         axpc = "enqueue" => new_comp' = new_comp
  PROVE  HeldOnce' /\ Taken' = Taken
BY DEF HeldOnce, Taken, Held

LEMMA TakenBoot == AxBoot => Taken' = {} /\ HeldOnce'
BY DEF AxBoot, Taken, Held, HeldOnce

LEMMA TakenComplete ==
  ASSUME DeviceInv, HeldOnce, AxComplete
  PROVE  /\ HeldOnce'
         /\ Head(inflight_list).comp \in Taken
         /\ Taken' = Taken \ {Head(inflight_list).comp}
<1> DEFINE s == inflight_list
           t == inflight_list'
<1>1. s \in Seq(Offload) /\ s # <<>> /\ t = Tail(s)
  BY DEF AxComplete, Due, Earliest, MoreInFlight, TimeOfNext, DeviceInv,
         TypeOK, Bookkeeping
<1>2. /\ Len(s) \in Nat /\ Len(s) > 0 /\ Head(s) = s[1] /\ Len(t) = Len(s) - 1
      /\ \A i \in 1 .. Len(t) : t[i] = s[i + 1]
  BY <1>1, ListFacts
<1>3. axpc # "enqueue" /\ axpc' # "enqueue"
  BY DEF AxComplete, Due, Earliest, MoreInFlight, TimeOfNext
<1>4. Taken = Held /\ Taken' = Held'
  BY <1>3 DEF Taken
<1>5. Head(s).comp \in Held
  BY <1>2 DEF Held
<1>6. \A i, j \in 1 .. Len(t) : t[i].comp = t[j].comp => i = j
  <2> TAKE i \in 1 .. Len(t), j \in 1 .. Len(t)
  <2>1. i + 1 \in 1 .. Len(s) /\ j + 1 \in 1 .. Len(s)
    BY <1>2
  <2>2. t[i] = s[i + 1] /\ t[j] = s[j + 1]
    BY <1>2
  <2> QED
    BY <2>1, <2>2 DEF HeldOnce
<1>7. \A i \in 1 .. Len(s) :
        i = 1 \/ (i - 1 \in 1 .. Len(t) /\ s[i] = t[i - 1])
  BY <1>2
<1>8. Held \subseteq Held' \cup {Head(s).comp}
  BY <1>2, <1>7 DEF Held
<1>9. \A i \in 1 .. Len(t) : t[i].comp \in Held /\ t[i].comp # Head(s).comp
  <2> TAKE i \in 1 .. Len(t)
  <2>1. i + 1 \in 1 .. Len(s) /\ 1 \in 1 .. Len(s) /\ i + 1 # 1
    BY <1>2
  <2> QED
    BY <1>2, <2>1 DEF HeldOnce, Held
<1>10. Held' \subseteq Held \ {Head(s).comp}
  BY <1>9 DEF Held
<1> QED
  BY <1>3, <1>4, <1>5, <1>6, <1>8, <1>10 DEF HeldOnce

LEMMA TakenReceive ==
  ASSUME HeldOnce, AxReceive, new_comp \notin Taken
  PROVE  HeldOnce' /\ Taken' = Taken \cup {new_comp}
BY DEF AxReceive, accepting, device, HeldOnce, Taken, Held

LEMMA TakenEnqueue ==
  ASSUME DeviceInv, HeldOnce, AxEnqueue
  PROVE  HeldOnce' /\ Taken' = Taken
<1> DEFINE s == inflight_list
           t == inflight_list'
           e == [comp |-> new_comp, left |-> new_time]
<1>1. s \in Seq(Offload) /\ t = Append(s, e)
  BY DEF AxEnqueue, PushBack, Counted, DeviceInv, TypeOK
<1>2. /\ Len(s) \in Nat /\ Len(t) = Len(s) + 1
      /\ \A i \in 1 .. Len(s) : t[i] = s[i]
      /\ t[Len(t)].comp = new_comp
  BY <1>1
<1>3. axpc = "enqueue" /\ axpc' # "enqueue"
  BY DEF AxEnqueue, PushBack, Counted
<1>4. Taken = Held \cup {new_comp} /\ Taken' = Held'
  BY <1>3 DEF Taken
<1>5. \A i \in 1 .. Len(t) : i \in 1 .. Len(s) \/ i = Len(t)
  BY <1>2
<1>6. Held' = Held \cup {new_comp}
  <2>1. Held' \subseteq Held \cup {new_comp}
    BY <1>2, <1>5 DEF Held
  <2>2. \A i \in 1 .. Len(s) : i \in 1 .. Len(t)
    BY <1>2
  <2>3. Held \subseteq Held'
    BY <1>2, <2>2 DEF Held
  <2>4. Len(t) \in 1 .. Len(t)
    BY <1>2
  <2>5. new_comp \in Held'
    BY <1>2, <2>4 DEF Held
  <2> QED
    BY <2>1, <2>3, <2>5
<1>7. \A i \in 1 .. Len(s) : s[i].comp \in Held
  BY DEF Held
<1>8. \A i, j \in 1 .. Len(t) : t[i].comp = t[j].comp => i = j
  BY <1>2, <1>3, <1>5, <1>7 DEF HeldOnce
<1> QED
  BY <1>3, <1>4, <1>6, <1>8 DEF HeldOnce

LEMMA TakenTick ==
  ASSUME DeviceInv, HeldOnce, Tick
  PROVE  HeldOnce' /\ Taken' = Taken
<1>1. inflight_list \in Seq(Offload)
  BY DEF DeviceInv, TypeOK
<1>2. /\ Len(inflight_list') = Len(inflight_list)
      /\ \A i \in 1 .. Len(inflight_list) :
           inflight_list'[i].comp = inflight_list[i].comp
  BY <1>1, TickedFacts DEF Tick
<1>3. axpc' = axpc /\ new_comp' = new_comp
  BY DEF Tick
<1>4. Held' = Held
  BY <1>2 DEF Held
<1> QED
  BY <1>2, <1>3, <1>4 DEF HeldOnce, Taken

-----------------------------------------------------------------------------
LEMMA HoldInvInit == Init => HoldInv
<1> SUFFICES ASSUME Init PROVE HoldInv
  OBVIOUS
<1>1. Taken = {} /\ HeldOnce
  BY DEF Init, Taken, Held, HeldOnce
<1> QED
  BY <1>1
     DEF Init, HoldInv, Protocol, TakenPending, HostRecord, FlagOwner,
         Lifecycle, StatusTrue, Asked, InCall, Unanswered, AxAccepting,
         AxRejecting, NumRetries, SUBMIT_FAIL

\* Each side keeps its part of the mailbox protocol.
LEMMA HoldInvNext == DeviceInv /\ HoldInv /\ [Next]_vars => HoldInv'
<1> SUFFICES ASSUME DeviceInv, HoldInv, [Next]_vars PROVE HoldInv'
  OBVIOUS
<1>o. HeldOnce /\ Protocol
  BY DEF HoldInv
<1>t. /\ comp_status \in [Comps -> {0, 1}] /\ retries \in 0 .. NumRetries
      /\ submit_flag \in {0, 1} /\ submit_status \in {0, 1}
      /\ outstanding \subseteq Comps
      /\ hpc \in InCall => hcomp \in Comps
  BY DEF DeviceInv, TypeOK, CallHasRecord, OFFLOAD_REQUESTED,
         OFFLOAD_RECEIVED, SUBMIT_SUCCESS, SUBMIT_FAIL, COMP_STATUS_PENDING,
         COMP_STATUS_COMPLETED
<1> USE <1>o, <1>t
    DEF OFFLOAD_REQUESTED, OFFLOAD_RECEIVED, SUBMIT_SUCCESS, SUBMIT_FAIL,
        COMP_STATUS_PENDING, COMP_STATUS_COMPLETED, AxAccepting, AxRejecting,
        AxBooting, Asked, InCall, Unanswered, NumRetries,
        mailbox, device, accepting, host,
        Protocol, TakenPending, HostRecord, FlagOwner, Lifecycle, StatusTrue
<1>1. CASE AxBoot
  BY <1>1, TakenBoot DEF AxBoot, HoldInv
<1>2. CASE AxComplete
  <2>1. /\ HeldOnce' /\ Head(inflight_list).comp \in Taken
        /\ Taken' = Taken \ {Head(inflight_list).comp}
    BY <1>2, TakenComplete
  <2>2. \A c \in Comps : c # Head(inflight_list).comp =>
                           comp_status'[c] = comp_status[c]
    BY <1>2 DEF AxComplete, Due, Earliest, MoreInFlight, TimeOfNext
  <2>3. Protocol'
    BY <1>2, <2>1, <2>2
       DEF AxComplete, Due, Earliest, MoreInFlight, TimeOfNext
  <2> QED
    BY <2>1, <2>3 DEF HoldInv
<1>3. CASE AxReceive
  <2>1. new_comp = hcomp /\ hcomp \notin Taken /\ hcomp \in Comps
        /\ comp_status[hcomp] = COMP_STATUS_PENDING
    BY <1>3 DEF AxReceive
  <2>2. HeldOnce' /\ Taken' = Taken \cup {new_comp}
    BY <1>3, <2>1, TakenReceive
  <2>3. Protocol'
    BY <1>3, <2>1, <2>2 DEF AxReceive
  <2> QED
    BY <2>2, <2>3 DEF HoldInv
<1>4. CASE AxEnqueue
  <2>1. HeldOnce' /\ Taken' = Taken
    BY <1>4, TakenEnqueue
  <2>2. Protocol'
    BY <1>4, <2>1 DEF AxEnqueue, PushBack, Counted
  <2> QED
    BY <2>1, <2>2 DEF HoldInv
<1>5. CASE Tick
  <2>1. HeldOnce' /\ Taken' = Taken
    BY <1>5, TakenTick
  <2>2. Protocol'
    BY <1>5, <2>1 DEF Tick
  <2> QED
    BY <2>1, <2>2 DEF HoldInv
<1>6. ASSUME HeldOnce' /\ Taken' = Taken, Protocol' PROVE HoldInv'
  BY <1>6 DEF HoldInv
<1>7. CASE AxResetFlag
  <2>1. HeldOnce' /\ Taken' = Taken
    BY <1>7, TakenSame DEF AxResetFlag
  <2>2. Protocol'
    BY <1>7, <2>1 DEF AxResetFlag
  <2> QED
    BY <2>1, <2>2, <1>6
<1>8. CASE AxLoop
  <2>1. HeldOnce' /\ Taken' = Taken
    BY <1>8, TakenSame DEF AxLoop
  <2>2. Protocol'
    BY <1>8, <2>1 DEF AxLoop
  <2> QED
    BY <2>1, <2>2, <1>6
<1>9. CASE AxNothingDue
  <2>1. HeldOnce' /\ Taken' = Taken
    BY <1>9, TakenSame DEF AxNothingDue, Due
  <2>2. Protocol'
    BY <1>9, <2>1 DEF AxNothingDue, Due
  <2> QED
    BY <2>1, <2>2, <1>6
<1>10. CASE AxCheck
  <2>1. HeldOnce' /\ Taken' = Taken
    BY <1>10, TakenSame DEF AxCheck, HasRoom
  <2>2. Protocol'
    BY <1>10, <2>1 DEF AxCheck, HasRoom
  <2> QED
    BY <2>1, <2>2, <1>6
<1>11. CASE AxAcceptStatus
  <2>1. HeldOnce' /\ Taken' = Taken
    BY <1>11, TakenSame DEF AxAcceptStatus
  <2>2. Protocol'
    BY <1>11, <2>1 DEF AxAcceptStatus
  <2> QED
    BY <2>1, <2>2, <1>6
<1>12. CASE AxReadAddr
  <2>1. HeldOnce' /\ Taken' = Taken
    BY <1>12, TakenSame DEF AxReadAddr
  <2>2. Protocol'
    BY <1>12, <2>1 DEF AxReadAddr
  <2> QED
    BY <2>1, <2>2, <1>6
<1>13. CASE AxRefuseStatus
  <2>1. HeldOnce' /\ Taken' = Taken
    BY <1>13, TakenSame DEF AxRefuseStatus
  <2>2. Protocol'
    BY <1>13, <2>1 DEF AxRefuseStatus
  <2> QED
    BY <2>1, <2>2, <1>6
<1>14. CASE AxRefuse
  <2>1. HeldOnce' /\ Taken' = Taken
    BY <1>14, TakenSame DEF AxRefuse
  <2>2. Protocol'
    BY <1>14, <2>1 DEF AxRefuse
  <2> QED
    BY <2>1, <2>2, <1>6
<1>15. CASE SubmitComp
  <2>1. HeldOnce' /\ Taken' = Taken
    BY <1>15, TakenSame DEF SubmitComp
  <2>2. Protocol'
    BY <1>15, <2>1 DEF SubmitComp
  <2> QED
    BY <2>1, <2>2, <1>6
<1>16. CASE SubmitAddr
  <2>1. HeldOnce' /\ Taken' = Taken
    BY <1>16, TakenSame DEF SubmitAddr
  <2>2. Protocol'
    BY <1>16, <2>1 DEF SubmitAddr
  <2> QED
    BY <2>1, <2>2, <1>6
<1>17. CASE SubmitFlag
  <2>1. HeldOnce' /\ Taken' = Taken
    BY <1>17, TakenSame DEF SubmitFlag
  <2>2. Protocol'
    BY <1>17, <2>1 DEF SubmitFlag
  <2> QED
    BY <2>1, <2>2, <1>6
<1>18. CASE SubmitDst
  <2>1. HeldOnce' /\ Taken' = Taken
    BY <1>18, TakenSame DEF SubmitDst
  <2>2. Protocol'
    BY <1>18, <2>1 DEF SubmitDst
  <2> QED
    BY <2>1, <2>2, <1>6
<1>19. CASE SubmitSpin
  <2>1. HeldOnce' /\ Taken' = Taken
    BY <1>19, TakenSame DEF SubmitSpin
  <2>2. Protocol'
    BY <1>19, <2>1 DEF SubmitSpin
  <2> QED
    BY <2>1, <2>2, <1>6
<1>20. CASE SubmitResult
  <2>1. HeldOnce' /\ Taken' = Taken
    BY <1>20, TakenSame DEF SubmitResult, MayRetry, RetriesLeft
  <2>2. Protocol'
    BY <1>20, <2>1 DEF SubmitResult, MayRetry, RetriesLeft
  <2> QED
    BY <2>1, <2>2, <1>6
<1>21. CASE StartAx
  <2>1. HeldOnce' /\ Taken' = Taken
    BY <1>21, TakenSame DEF StartAx
  <2>2. Protocol'
    BY <1>21, <2>1 DEF StartAx
  <2> QED
    BY <2>1, <2>2, <1>6
<1>22. CASE ClientStop
  <2>1. HeldOnce' /\ Taken' = Taken
    BY <1>22, TakenSame DEF ClientStop, StopAx
  <2>2. Protocol'
    BY <1>22, <2>1 DEF ClientStop, StopAx
  <2> QED
    BY <2>1, <2>2, <1>6
<1>23. CASE Joined
  <2>1. HeldOnce' /\ Taken' = Taken
    BY <1>23, TakenSame DEF Joined
  <2>2. Protocol'
    BY <1>23, <2>1 DEF Joined
  <2> QED
    BY <2>1, <2>2, <1>6
<1>24. CASE ClientAllocate
  <2>1. HeldOnce' /\ Taken' = Taken
    BY <1>24, TakenSame DEF ClientAllocate, AllocateCrs
  <2>2. Protocol'
    BY <1>24, <2>1 DEF ClientAllocate, AllocateCrs
  <2> QED
    BY <2>1, <2>2, <1>6
<1>25. CASE ReturnSuccess
  <2>1. HeldOnce' /\ Taken' = Taken
    BY <1>25, TakenSame DEF ReturnSuccess
  <2>2. Protocol'
    BY <1>25, <2>1 DEF ReturnSuccess
  <2> QED
    BY <2>1, <2>2, <1>6
<1>26. CASE ReturnFail
  <2>1. HeldOnce' /\ Taken' = Taken
    BY <1>26, TakenSame DEF ReturnFail
  <2>2. Protocol'
    BY <1>26, <2>1 DEF ReturnFail
  <2> QED
    BY <2>1, <2>2, <1>6
<1>27. ASSUME NEW c \in Comps, ClientSubmit(c) PROVE HoldInv'
  <2>1. HeldOnce' /\ Taken' = Taken
    BY <1>27, TakenSame DEF ClientSubmit, SubmitBegin
  <2>2. Protocol'
    BY <1>27, <2>1 DEF ClientSubmit, SubmitBegin
  <2> QED
    BY <2>1, <2>2, <1>6
<1>28. ASSUME NEW c \in Comps, ClientSee(c) PROVE HoldInv'
  <2>1. HeldOnce' /\ Taken' = Taken
    BY <1>28, TakenSame DEF ClientSee, SeeCompleted
  <2>2. Protocol'
    BY <1>28, <2>1 DEF ClientSee, SeeCompleted
  <2> QED
    BY <2>1, <2>2, <1>6
<1>29. CASE UNCHANGED vars
  <2>1. HeldOnce' /\ Taken' = Taken
    BY <1>29, TakenSame DEF vars
  <2>2. Protocol'
    BY <1>29, <2>1 DEF vars
  <2> QED
    BY <2>1, <2>2, <1>6
<1> HIDE <1>o, <1>t DEF HoldInv
<1> QED
  BY <1>1, <1>2, <1>3, <1>4, <1>5, <1>7, <1>8, <1>9, <1>10, <1>11,
     <1>12, <1>13, <1>14, <1>15, <1>16, <1>17, <1>18, <1>19, <1>20,
     <1>21, <1>22, <1>23, <1>24, <1>25, <1>26, <1>27, <1>28, <1>29
     DEF Next, AxNext, HostNext, SubmitSteps, Exited

\* What the mailbox protocol, the device's bookkeeping and the life of the
\* thread add up to.
THEOREM HoldInvariant == Spec => [](DeviceInv /\ HoldInv)
<1>1. Init => DeviceInv /\ HoldInv
  BY DeviceInvInit, HoldInvInit
<1>2. DeviceInv /\ HoldInv /\ [Next]_vars => DeviceInv' /\ HoldInv'
  BY DeviceInvNext, HoldInvNext
<1> QED
  BY <1>1, <1>2, PTL DEF Spec

\* The thread never completes a record that was given back: whatever it holds
\* is held once, pending, and waited for by the host.
THEOREM OnlyPendingHeld == Spec => []HoldsOnlyPending
<1>1. HoldInv => HoldsOnlyPending
  BY DEF HoldInv, Protocol, TakenPending, HoldsOnlyPending
<1> QED
  BY <1>1, HoldInvariant, PTL

\* A thread that was stopped and joined left no accepted offload behind.
THEOREM StopLeavesNothing == Spec => []StopsEmpty
<1>1. DeviceInv /\ HoldInv => StopsEmpty
  <2> SUFFICES ASSUME DeviceInv, HoldInv, hpc = "down", inflight_list # <<>>
               PROVE  FALSE
    BY DEF StopsEmpty
  <2>1. 1 \in 1 .. Len(inflight_list)
    BY ListFacts DEF DeviceInv, TypeOK
  <2>2. inflight_list[1].comp \in Taken
    BY <2>1 DEF Taken, Held
  <2> QED
    BY <2>2 DEF HoldInv, Protocol, TakenPending, Lifecycle, Asked
<1> QED
  BY <1>1, HoldInvariant, PTL

-----------------------------------------------------------------------------
(***************************************************************************)
(* No submission is lost, provided the first one is made after the thread  *)
(* has reached its loop.                                                   *)
(***************************************************************************)
LEMMA LostInvInit == Init => LostInv
<1> SUFFICES ASSUME Init PROVE LostInv
  OBVIOUS
<1> QED
  BY DEF Init, LostInv, NoneLost, Booted, SuccessTrue, AxBooting, Asked

LEMMA LostInvNext ==
  ASSUME EagerHost = FALSE
  PROVE  DeviceInv /\ HoldInv /\ LostInv /\ [Next]_vars => LostInv'
<1> SUFFICES ASSUME DeviceInv, HoldInv, LostInv, [Next]_vars PROVE LostInv'
  OBVIOUS
<1>o. HeldOnce /\ Protocol
  BY DEF HoldInv
<1>t. /\ comp_status \in [Comps -> {0, 1}] /\ retries \in 0 .. NumRetries
      /\ submit_flag \in {0, 1} /\ submit_status \in {0, 1}
      /\ outstanding \subseteq Comps
      /\ hpc \in InCall => hcomp \in Comps
  BY DEF DeviceInv, TypeOK, CallHasRecord, OFFLOAD_REQUESTED,
         OFFLOAD_RECEIVED, SUBMIT_SUCCESS, SUBMIT_FAIL, COMP_STATUS_PENDING,
         COMP_STATUS_COMPLETED
<1> USE <1>o, <1>t
    DEF OFFLOAD_REQUESTED, OFFLOAD_RECEIVED, SUBMIT_SUCCESS, SUBMIT_FAIL,
        COMP_STATUS_PENDING, COMP_STATUS_COMPLETED, AxAccepting, AxRejecting,
        AxBooting, Asked, InCall, Unanswered, NumRetries,
        mailbox, device, accepting, host,
        Protocol, TakenPending, HostRecord, FlagOwner, Lifecycle, StatusTrue,
        LostInv, NoneLost, Booted, SuccessTrue
<1>1. CASE AxBoot
  BY <1>1, TakenBoot DEF AxBoot
<1>2. CASE AxComplete
  <2>1. Taken' = Taken \ {Head(inflight_list).comp}
    BY <1>2, TakenComplete
  <2>2. \A c \in Comps : comp_status'[c] =
          IF c = Head(inflight_list).comp THEN 1 ELSE comp_status[c]
    BY <1>2 DEF AxComplete, Due, Earliest, MoreInFlight, TimeOfNext
  <2> QED
    BY <1>2, <2>1, <2>2
       DEF AxComplete, Due, Earliest, MoreInFlight, TimeOfNext
<1>3. CASE AxReceive
  <2>1. new_comp = hcomp /\ hcomp \notin Taken
    BY <1>3 DEF AxReceive
  <2>2. Taken' = Taken \cup {new_comp}
    BY <1>3, <2>1, TakenReceive
  <2> QED
    BY <1>3, <2>1, <2>2 DEF AxReceive
<1>4. CASE AxEnqueue
  <2>1. Taken' = Taken
    BY <1>4, TakenEnqueue
  <2> QED
    BY <1>4, <2>1 DEF AxEnqueue, PushBack, Counted
<1>5. CASE Tick
  <2>1. Taken' = Taken
    BY <1>5, TakenTick
  <2> QED
    BY <1>5, <2>1 DEF Tick
<1>6. CASE AxResetFlag
  <2>1. Taken' = Taken
    BY <1>6, TakenSame DEF AxResetFlag
  <2> QED
    BY <1>6, <2>1 DEF AxResetFlag
<1>7. CASE AxLoop
  <2>1. Taken' = Taken
    BY <1>7, TakenSame DEF AxLoop
  <2> QED
    BY <1>7, <2>1 DEF AxLoop
<1>8. CASE AxNothingDue
  <2>1. Taken' = Taken
    BY <1>8, TakenSame DEF AxNothingDue, Due
  <2> QED
    BY <1>8, <2>1 DEF AxNothingDue, Due
<1>9. CASE AxCheck
  <2>1. Taken' = Taken
    BY <1>9, TakenSame DEF AxCheck, HasRoom
  <2> QED
    BY <1>9, <2>1 DEF AxCheck, HasRoom
<1>10. CASE AxAcceptStatus
  <2>1. Taken' = Taken
    BY <1>10, TakenSame DEF AxAcceptStatus
  <2> QED
    BY <1>10, <2>1 DEF AxAcceptStatus
<1>11. CASE AxReadAddr
  <2>1. Taken' = Taken
    BY <1>11, TakenSame DEF AxReadAddr
  <2> QED
    BY <1>11, <2>1 DEF AxReadAddr
<1>12. CASE AxRefuseStatus
  <2>1. Taken' = Taken
    BY <1>12, TakenSame DEF AxRefuseStatus
  <2> QED
    BY <1>12, <2>1 DEF AxRefuseStatus
<1>13. CASE AxRefuse
  <2>1. Taken' = Taken
    BY <1>13, TakenSame DEF AxRefuse
  <2> QED
    BY <1>13, <2>1 DEF AxRefuse
<1>14. CASE SubmitComp
  <2>1. Taken' = Taken
    BY <1>14, TakenSame DEF SubmitComp
  <2> QED
    BY <1>14, <2>1 DEF SubmitComp
<1>15. CASE SubmitAddr
  <2>1. Taken' = Taken
    BY <1>15, TakenSame DEF SubmitAddr
  <2> QED
    BY <1>15, <2>1 DEF SubmitAddr
<1>16. CASE SubmitFlag
  <2>1. Taken' = Taken
    BY <1>16, TakenSame DEF SubmitFlag
  <2> QED
    BY <1>16, <2>1 DEF SubmitFlag
<1>17. CASE SubmitDst
  <2>1. Taken' = Taken
    BY <1>17, TakenSame DEF SubmitDst
  <2> QED
    BY <1>17, <2>1 DEF SubmitDst
<1>18. CASE SubmitSpin
  <2>1. Taken' = Taken
    BY <1>18, TakenSame DEF SubmitSpin
  <2> QED
    BY <1>18, <2>1 DEF SubmitSpin
<1>19. CASE SubmitResult
  <2>1. Taken' = Taken
    BY <1>19, TakenSame DEF SubmitResult, MayRetry, RetriesLeft
  <2> QED
    BY <1>19, <2>1 DEF SubmitResult, MayRetry, RetriesLeft
<1>20. CASE StartAx
  <2>1. Taken' = Taken
    BY <1>20, TakenSame DEF StartAx
  <2> QED
    BY <1>20, <2>1 DEF StartAx
<1>21. CASE ClientStop
  <2>1. Taken' = Taken
    BY <1>21, TakenSame DEF ClientStop, StopAx
  <2> QED
    BY <1>21, <2>1 DEF ClientStop, StopAx
<1>22. CASE Joined
  <2>1. Taken' = Taken
    BY <1>22, TakenSame DEF Joined
  <2> QED
    BY <1>22, <2>1 DEF Joined
<1>23. CASE ClientAllocate
  <2>1. Taken' = Taken
    BY <1>23, TakenSame DEF ClientAllocate, AllocateCrs
  <2> QED
    BY <1>23, <2>1 DEF ClientAllocate, AllocateCrs
<1>24. CASE ReturnSuccess
  <2>1. Taken' = Taken
    BY <1>24, TakenSame DEF ReturnSuccess
  <2> QED
    BY <1>24, <2>1 DEF ReturnSuccess
<1>25. CASE ReturnFail
  <2>1. Taken' = Taken
    BY <1>25, TakenSame DEF ReturnFail
  <2> QED
    BY <1>25, <2>1 DEF ReturnFail
<1>26. ASSUME NEW c \in Comps, ClientSubmit(c) PROVE LostInv'
  <2>1. Taken' = Taken
    BY <1>26, TakenSame DEF ClientSubmit, SubmitBegin
  <2> QED
    BY <1>26, <2>1 DEF ClientSubmit, SubmitBegin
<1>27. ASSUME NEW c \in Comps, ClientSee(c) PROVE LostInv'
  <2>1. Taken' = Taken
    BY <1>27, TakenSame DEF ClientSee, SeeCompleted
  <2> QED
    BY <1>27, <2>1 DEF ClientSee, SeeCompleted
<1>28. CASE UNCHANGED vars
  <2>1. Taken' = Taken
    BY <1>28, TakenSame DEF vars
  <2> QED
    BY <1>28, <2>1 DEF vars
<1> HIDE <1>o, <1>t DEF LostInv
<1> QED
  BY <1>1, <1>2, <1>3, <1>4, <1>5, <1>6, <1>7, <1>8, <1>9, <1>10, <1>11,
     <1>12, <1>13, <1>14, <1>15, <1>16, <1>17, <1>18, <1>19, <1>20,
     <1>21, <1>22, <1>23, <1>24, <1>25, <1>26, <1>27, <1>28
     DEF Next, AxNext, HostNext, SubmitSteps, Exited

\* An accepted offload is held by the thread until its record is completed, if
\* the host submits nothing before the thread has reached its loop.
THEOREM NoSubmissionLost ==
  ASSUME EagerHost = FALSE
  PROVE  Spec => []NoneLost
<1>1. Init => DeviceInv /\ HoldInv /\ LostInv
  BY DeviceInvInit, HoldInvInit, LostInvInit
<1>2. DeviceInv /\ HoldInv /\ LostInv /\ [Next]_vars
        => DeviceInv' /\ HoldInv' /\ LostInv'
  BY DeviceInvNext, HoldInvNext, LostInvNext
<1>3. LostInv => NoneLost
  BY DEF LostInv
<1> QED
  BY <1>1, <1>2, <1>3, PTL DEF Spec

-----------------------------------------------------------------------------
(***************************************************************************)
(* Only a full device refuses.                                             *)
(***************************************************************************)
\* While the record being submitted is not taken, the list is no longer than
\* the set of records the host waits for.
LEMMA ListFitsOutstanding ==
  ASSUME DeviceInv, HoldInv, hcomp \notin Taken, IsFiniteSet(outstanding)
  PROVE  Len(inflight_list) <= Cardinality(outstanding)
<1> DEFINE n == Len(inflight_list)
           f == [i \in 1 .. n |-> inflight_list[i].comp]
<1>1. n \in Nat
  BY DEF DeviceInv, TypeOK
<1>2. \A i \in 1 .. n : inflight_list[i].comp \in outstanding
  BY DEF Taken, Held, HoldInv, Protocol, TakenPending
<1>3. \A i, j \in 1 .. n :
        inflight_list[i].comp = inflight_list[j].comp => i = j
  BY DEF HoldInv, HeldOnce
<1>4. f \in [1 .. n -> outstanding]
  BY <1>2
<1>5. f \in Injection(1 .. n, outstanding)
  BY <1>3, <1>4 DEF Injection, IsInjective
<1>6. Cardinality(1 .. n) <= Cardinality(outstanding)
  <2> HIDE DEF f, n
  <2> QED
    BY <1>5, FS_Injection
<1>7. Cardinality(1 .. n) = n
  BY <1>1, FS_Interval, SMTT(30)
<1> QED
  BY <1>6, <1>7

LEMMA FullInvInit == Init => FullInv
BY FS_EmptySet DEF Init, FullInv, AxRejecting, SUBMIT_FAIL

LEMMA FullInvNext ==
  DeviceInv /\ HoldInv /\ FullInv /\ [Next]_vars => FullInv'
<1> SUFFICES ASSUME DeviceInv, HoldInv, FullInv, [Next]_vars PROVE FullInv'
  OBVIOUS
<1>o. /\ in_flight = Len(inflight_list)
      /\ axpc \in AxAccepting \cup AxRejecting =>
           submit_flag = OFFLOAD_REQUESTED /\ hpc \in {"dst", "spin"}
      /\ hpc \in {"result", "ok", "fail"} => submit_flag = OFFLOAD_RECEIVED
      /\ Unanswered => hcomp \notin Taken
      /\ retries < NumRetries => submit_status = SUBMIT_FAIL
  BY DEF DeviceInv, Bookkeeping, HoldInv, Protocol, FlagOwner, HostRecord,
         StatusTrue
<1>t. retries \in 0 .. NumRetries /\ submit_status \in {0, 1}
      /\ MaxInflight \in Nat /\ Len(inflight_list) \in Nat
      /\ inflight_list \in Seq(Offload) /\ in_flight \in Nat
  BY EmulAxAssumption
     DEF DeviceInv, TypeOK, SUBMIT_SUCCESS, SUBMIT_FAIL
<1> USE <1>o, <1>t
    DEF OFFLOAD_REQUESTED, OFFLOAD_RECEIVED, SUBMIT_SUCCESS, SUBMIT_FAIL,
        AxAccepting, AxRejecting, AxBooting, Asked, Unanswered, NumRetries,
        mailbox, device, accepting, host, FullInv
<1>1. CASE AxRefuseStatus
  <2>1. MaxInflight <= Cardinality(outstanding)
    <3>1. hcomp \notin Taken /\ MaxInflight <= Len(inflight_list)
      BY <1>1 DEF AxRefuseStatus
    <3>2. Len(inflight_list) <= Cardinality(outstanding)
      BY <3>1, ListFitsOutstanding
    <3>3. Cardinality(outstanding) \in Nat
      BY FS_CardinalityType
    <3> QED
      BY <3>1, <3>2, <3>3
  <2> QED
    BY <1>1, <2>1 DEF AxRefuseStatus
<1>2. CASE ReturnSuccess
  BY <1>2, FS_AddElement DEF ReturnSuccess
<1>3. ASSUME NEW c \in Comps, ClientSee(c) PROVE FullInv'
  BY <1>3, FS_RemoveElement DEF ClientSee, SeeCompleted
<1>4. CASE Tick
  <2>1. Len(inflight_list') = Len(inflight_list)
    BY <1>4, TickedFacts DEF Tick
  <2> QED
    BY <1>4, <2>1 DEF Tick
<1>5. CASE AxBoot
  BY <1>5 DEF AxBoot
<1>6. CASE AxComplete
  BY <1>6 DEF AxComplete, Due, Earliest, MoreInFlight, TimeOfNext
<1>7. CASE AxEnqueue
  BY <1>7 DEF AxEnqueue, PushBack, Counted
<1>8. CASE AxReceive
  BY <1>8 DEF AxReceive
<1>9. CASE AxResetFlag
  BY <1>9 DEF AxResetFlag
<1>10. CASE AxLoop
  BY <1>10 DEF AxLoop
<1>11. CASE AxNothingDue
  BY <1>11 DEF AxNothingDue, Due
<1>12. CASE AxCheck
  BY <1>12 DEF AxCheck, HasRoom
<1>13. CASE AxAcceptStatus
  BY <1>13 DEF AxAcceptStatus
<1>14. CASE AxReadAddr
  BY <1>14 DEF AxReadAddr
<1>15. CASE AxRefuse
  BY <1>15 DEF AxRefuse
<1>16. CASE SubmitComp
  BY <1>16 DEF SubmitComp
<1>17. CASE SubmitAddr
  BY <1>17 DEF SubmitAddr
<1>18. CASE SubmitFlag
  BY <1>18 DEF SubmitFlag
<1>19. CASE SubmitDst
  BY <1>19 DEF SubmitDst
<1>20. CASE SubmitSpin
  BY <1>20 DEF SubmitSpin
<1>21. CASE SubmitResult
  BY <1>21 DEF SubmitResult, MayRetry, RetriesLeft
<1>22. CASE StartAx
  BY <1>22 DEF StartAx
<1>23. CASE ClientStop
  BY <1>23 DEF ClientStop, StopAx
<1>24. CASE Joined
  BY <1>24 DEF Joined
<1>25. CASE ClientAllocate
  BY <1>25 DEF ClientAllocate, AllocateCrs
<1>26. CASE ReturnFail
  BY <1>26 DEF ReturnFail
<1>27. ASSUME NEW c \in Comps, ClientSubmit(c) PROVE FullInv'
  BY <1>27 DEF ClientSubmit, SubmitBegin
<1>28. CASE UNCHANGED vars
  BY <1>28 DEF vars
<1> HIDE <1>o, <1>t DEF FullInv
<1> QED
  BY <1>1, <1>2, <1>3, <1>4, <1>5, <1>6, <1>7, <1>8, <1>9, <1>10, <1>11,
     <1>12, <1>13, <1>14, <1>15, <1>16, <1>17, <1>18, <1>19, <1>20,
     <1>21, <1>22, <1>23, <1>24, <1>25, <1>26, <1>27, <1>28
     DEF Next, AxNext, HostNext, SubmitSteps, Exited

\* submit_offload fails, and with it the process ends, only when the host was
\* already waiting for max_inflight offloads.
THEOREM RefusedOnlyWhenFull == Spec => []FailsOnlyWhenFull
<1>1. Init => DeviceInv /\ HoldInv /\ FullInv
  BY DeviceInvInit, HoldInvInit, FullInvInit
<1>2. DeviceInv /\ HoldInv /\ FullInv /\ [Next]_vars
        => DeviceInv' /\ HoldInv' /\ FullInv'
  BY DeviceInvNext, HoldInvNext, FullInvNext
<1>3. FullInv => FailsOnlyWhenFull
  <2> SUFFICES ASSUME FullInv, hpc \in {"fail", "exited"}
               PROVE  Cardinality(outstanding) >= MaxInflight
    BY DEF FailsOnlyWhenFull
  <2>1. Cardinality(outstanding) \in Nat /\ MaxInflight \in Nat
    BY FS_CardinalityType, EmulAxAssumption DEF FullInv
  <2> QED
    BY <2>1 DEF FullInv
<1> QED
  BY <1>1, <1>2, <1>3, PTL DEF Spec

-----------------------------------------------------------------------------
(***************************************************************************)
(* EmulAx implements OffloadDevice, for every value of its constants for   *)
(* which no submission is made before the thread has reached its loop.     *)
(***************************************************************************)

\* What is true of every state: the invariants proved of EmulAx together.
RefInv == DeviceInv /\ HoldInv /\ LostInv /\ FullInv

\* The other parts of the refinement mapping, under names of their own.
Completions == {c \in Comps : comp_status[c] = COMP_STATUS_COMPLETED}
CallOf == IF Calling THEN hcomp ELSE NoComp

\* The records of the thread's list.
Listed == [i \in 1 .. Len(inflight_list) |-> inflight_list[i].comp]

-----------------------------------------------------------------------------
(***************************************************************************)
(* The abstract queue, in terms of the thread's list.                      *)
(***************************************************************************)
ListedShape ==
  /\ Listed \in Seq(Comps \cup {NoComp})
  /\ Len(Listed) = Len(inflight_list) /\ Len(Listed) \in Nat
  /\ \A i \in 1 .. Len(Listed) : Listed[i] = inflight_list[i].comp

\* Outside of "enqueue" the queue is the list, else it is one longer.
QueueShape ==
  /\ axpc # "enqueue" => Queue = Listed
  /\ axpc = "enqueue" => Queue = Append(Listed, new_comp)
  /\ {Queue[i] : i \in 1 .. Len(Queue)} \subseteq Taken

\* The records of the list are a sequence as long as the list.
LEMMA ListedFacts == DeviceInv => ListedShape
<1> SUFFICES ASSUME DeviceInv PROVE ListedShape
  OBVIOUS
<1>1. inflight_list \in Seq(Offload)
  BY DEF DeviceInv, TypeOK
<1>2. \A i \in 1 .. Len(inflight_list) :
        inflight_list[i].comp \in Comps \cup {NoComp}
  BY <1>1, ListFacts DEF Offload
<1>3. Len(inflight_list) \in Nat
  BY <1>1
<1> QED
  BY <1>2, <1>3 DEF Listed, ListedShape

\* The abstract queue is the list, and the record about to join it.
LEMMA QueueFacts == DeviceInv => QueueShape
<1> SUFFICES ASSUME DeviceInv PROVE QueueShape
  OBVIOUS
<1>1. ListedShape
  BY ListedFacts
<1>2. new_comp \in Comps \cup {NoComp}
  BY DEF DeviceInv, TypeOK
<1>3. Queue = Listed \o (IF axpc = "enqueue" THEN <<new_comp>> ELSE <<>>)
  BY DEF Queue, Listed
<1>4. CASE axpc = "enqueue"
  <2>1. Queue = Append(Listed, new_comp)
    BY <1>1, <1>2, <1>3, <1>4 DEF ListedShape
  <2>2. \A i \in 1 .. Len(Queue) :
          (i \in 1 .. Len(Listed) /\ Queue[i] = Listed[i]) \/ Queue[i] = new_comp
    BY <1>1, <1>2, <2>1 DEF ListedShape
  <2>3. \A i \in 1 .. Len(Queue) : Queue[i] \in Taken
    BY <1>1, <1>4, <2>2 DEF ListedShape, Taken, Held
  <2> QED
    BY <1>4, <2>1, <2>3 DEF QueueShape
<1>5. CASE axpc # "enqueue"
  <2>1. Queue = Listed
    BY <1>1, <1>3, <1>5 DEF ListedShape
  <2>2. \A i \in 1 .. Len(Queue) : Queue[i] \in Taken
    BY <1>1, <2>1 DEF ListedShape, Taken, Held
  <2> QED
    BY <1>5, <2>1, <2>2 DEF QueueShape
<1> QED
  BY <1>4, <1>5

\* The same after a step.
LEMMA ShapeNext == DeviceInv' => ListedShape' /\ QueueShape'
BY ListedFacts, QueueFacts, PTL

\* Steps that leave the list and the record being accepted alone.
LEMMA QueueSame ==
  ASSUME inflight_list' = inflight_list,
         axpc = "enqueue" <=> axpc' = "enqueue",
         axpc = "enqueue" => new_comp' = new_comp
  PROVE  Queue' = Queue
BY DEF Queue

\* Time passes for the offloads, not for the order they are in.
LEMMA QueueTick ==
  ASSUME DeviceInv, DeviceInv', Tick
  PROVE  Queue' = Queue
<1>1. inflight_list \in Seq(Offload)
  BY DEF DeviceInv, TypeOK
<1>2. /\ Len(inflight_list') = Len(inflight_list)
      /\ \A i \in 1 .. Len(inflight_list) :
           inflight_list'[i].comp = inflight_list[i].comp
  BY <1>1, TickedFacts DEF Tick
<1>3. axpc' = axpc /\ new_comp' = new_comp
  BY DEF Tick
<1>4. Listed' = Listed
  BY <1>2 DEF Listed
<1> QED
  BY <1>3, <1>4, QueueFacts, ShapeNext DEF QueueShape

\* The list gets the record the queue has already.
LEMMA QueueEnqueue ==
  ASSUME DeviceInv, DeviceInv', AxEnqueue
  PROVE  Queue' = Queue
<1> DEFINE s == inflight_list
           e == [comp |-> new_comp, left |-> new_time]
<1>1. s \in Seq(Offload) /\ s' = Append(s, e)
  BY DEF AxEnqueue, PushBack, Counted, DeviceInv, TypeOK
<1>2. /\ Len(s) \in Nat /\ Len(s') = Len(s) + 1
      /\ \A i \in 1 .. Len(s) : s'[i] = s[i]
      /\ s'[Len(s) + 1].comp = new_comp
  BY <1>1
<1>3. axpc = "enqueue" /\ axpc' # "enqueue"
  BY DEF AxEnqueue, PushBack, Counted
<1>4. Queue = Append(Listed, new_comp) /\ Queue' = Listed'
  BY <1>3, QueueFacts, ShapeNext DEF QueueShape
<1>5. /\ Listed \in Seq(Comps \cup {NoComp}) /\ Len(Listed) = Len(s)
      /\ \A i \in 1 .. Len(s) : Listed[i] = s[i].comp
  BY ListedFacts DEF ListedShape
<1>6. /\ Listed' \in Seq(Comps \cup {NoComp}) /\ Len(Listed') = Len(s) + 1
      /\ \A i \in 1 .. Len(s) + 1 : Listed'[i] = s'[i].comp
  BY <1>2, ShapeNext DEF ListedShape
<1>7. new_comp \in Comps \cup {NoComp}
  BY DEF DeviceInv, TypeOK
<1>8. /\ Append(Listed, new_comp) \in Seq(Comps \cup {NoComp})
      /\ Len(Append(Listed, new_comp)) = Len(s) + 1
      /\ \A i \in 1 .. Len(s) : Append(Listed, new_comp)[i] = s[i].comp
      /\ Append(Listed, new_comp)[Len(s) + 1] = new_comp
  BY <1>5, <1>7
<1>9. \A i \in 1 .. Len(s) + 1 : Listed'[i] = Append(Listed, new_comp)[i]
  BY <1>2, <1>6, <1>8
<1> HIDE DEF s, e
<1> QED
  BY <1>2, <1>4, <1>6, <1>8, <1>9

\* The list loses its head, and so does the queue.
LEMMA QueueComplete ==
  ASSUME DeviceInv, DeviceInv', AxComplete
  PROVE  /\ Queue # <<>> /\ Queue' = Tail(Queue)
         /\ Head(Queue) = Head(inflight_list).comp
<1> DEFINE s == inflight_list
<1>1. s \in Seq(Offload) /\ s # <<>> /\ s' = Tail(s)
  BY DEF AxComplete, Due, Earliest, MoreInFlight, TimeOfNext, DeviceInv,
         TypeOK, Bookkeeping
<1>2. /\ Len(s) \in Nat /\ Len(s) > 0 /\ Head(s) = s[1]
      /\ Len(s') = Len(s) - 1
      /\ \A i \in 1 .. Len(s') : s'[i] = s[i + 1]
  BY <1>1, ListFacts
<1>3. axpc # "enqueue" /\ axpc' # "enqueue"
  BY DEF AxComplete, Due, Earliest, MoreInFlight, TimeOfNext
<1>4. Queue = Listed /\ Queue' = Listed'
  BY <1>3, QueueFacts, ShapeNext DEF QueueShape
<1>5. /\ Listed \in Seq(Comps \cup {NoComp}) /\ Len(Listed) = Len(s)
      /\ \A i \in 1 .. Len(s) : Listed[i] = s[i].comp
  BY ListedFacts DEF ListedShape
<1>6. /\ Listed' \in Seq(Comps \cup {NoComp}) /\ Len(Listed') = Len(s) - 1
      /\ \A i \in 1 .. Len(s) - 1 : Listed'[i] = s'[i].comp
  BY <1>2, ShapeNext DEF ListedShape
<1>7. /\ Listed # <<>> /\ Head(Listed) = Listed[1]
      /\ Tail(Listed) \in Seq(Comps \cup {NoComp})
      /\ Len(Tail(Listed)) = Len(s) - 1
      /\ \A i \in 1 .. Len(s) - 1 : Tail(Listed)[i] = Listed[i + 1]
  BY <1>2, <1>5
<1>8. \A i \in 1 .. Len(s) - 1 : Listed'[i] = Tail(Listed)[i]
  <2> TAKE i \in 1 .. Len(s) - 1
  <2>1. i + 1 \in 1 .. Len(s)
    BY <1>2
  <2> QED
    BY <1>2, <1>5, <1>6, <1>7, <2>1
<1>9. Head(Listed) = Head(s).comp
  BY <1>2, <1>5, <1>7
<1> HIDE DEF s
<1>10. Listed' = Tail(Listed)
  BY <1>2, <1>6, <1>7, <1>8, SMTT(30)
<1> QED
  BY <1>4, <1>7, <1>9, <1>10 DEF s

-----------------------------------------------------------------------------
(***************************************************************************)
(* The step simulation.                                                    *)
(***************************************************************************)
\* A step that changes nothing the abstract device has.
LEMMA Stutters ==
  ASSUME Queue' = Queue, comp_status' = comp_status, CallOf' = CallOf,
         Answer' = Answer
  PROVE  UNCHANGED Device!dvars
BY DEF Device!dvars, CallOf

\* What the invariants say of the calls: a record that is being submitted is a
\* record and not yet queued, and an answer is no None.
LEMMA CallFacts ==
  ASSUME RefInv, NoComp \notin {"success", "failure"}
  PROVE  /\ CallOf = NoComp <=> ~Calling
         /\ Answer = NoComp <=>
              ~(hpc \in Asked /\ submit_flag = OFFLOAD_RECEIVED)
         /\ Calling /\ Unanswered => hcomp \notin Taken
BY EmulAxAssumption
   DEF RefInv, DeviceInv, CallHasRecord, HoldInv, Protocol, HostRecord,
       CallOf, Calling, Answer, Asked, InCall

\* Every step is a step of the abstract device or none of its business.
LEMMA StepSimulates ==
  ASSUME EagerHost = FALSE, NoComp \notin {"success", "failure"},
         RefInv, RefInv', [Next]_vars
  PROVE  [Device!DNext]_Device!dvars
<1>i. /\ DeviceInv /\ DeviceInv' /\ HeldOnce /\ Protocol /\ LostInv /\ FullInv
  BY DEF RefInv, HoldInv
<1>t. /\ comp_status \in [Comps -> {0, 1}]
      /\ submit_flag \in {0, 1} /\ submit_status \in {0, 1}
      /\ hpc \in InCall => hcomp \in Comps
      /\ NoComp \notin Comps
  BY <1>i, EmulAxAssumption
     DEF DeviceInv, TypeOK, CallHasRecord, OFFLOAD_REQUESTED,
         OFFLOAD_RECEIVED, SUBMIT_SUCCESS, SUBMIT_FAIL, COMP_STATUS_PENDING,
         COMP_STATUS_COMPLETED
<1>c. /\ CallOf = NoComp <=> ~Calling
      /\ Answer = NoComp <=>
           ~(hpc \in Asked /\ submit_flag = OFFLOAD_RECEIVED)
  BY CallFacts
<1>q. QueueShape /\ ListedShape
  BY <1>i, QueueFacts, ListedFacts
<1>d. Device!DNext => [Device!DNext]_Device!dvars
  OBVIOUS
<1>s. UNCHANGED Device!dvars => [Device!DNext]_Device!dvars
  OBVIOUS
<1>1. CASE AxBoot
  <2>1. Queue' = Queue
    <3>1. axpc = "boot" /\ axpc' = "reset" /\ inflight_list' = <<>>
      BY <1>1 DEF AxBoot
    <3>2. Taken = {}
      BY <1>i, <3>1 DEF Protocol, Lifecycle
    <3>3. inflight_list \in Seq(Offload) /\ Len(inflight_list) \in Nat
      BY <1>i DEF DeviceInv, TypeOK
    <3>4. Len(inflight_list) = 0
      <4>1. ASSUME Len(inflight_list) # 0 PROVE inflight_list[1].comp \in Taken
        <5>1. 1 \in 1 .. Len(inflight_list)
          BY <3>3, <4>1
        <5> QED
          BY <5>1 DEF Taken, Held
      <4> QED
        BY <3>2, <4>1
    <3>5. inflight_list = <<>>
      BY <3>3, <3>4
    <3> QED
      BY <3>1, <3>5 DEF Queue
  <2>2. comp_status' = comp_status /\ CallOf' = CallOf /\ Answer' = Answer
    BY <1>1, <1>i, <1>t
       DEF AxBoot, host, mailbox,
           CallOf, Calling, Answer, Asked, InCall, Protocol, FlagOwner,
           LostInv, Booted, AxBooting, AxAccepting, AxRejecting,
           OFFLOAD_REQUESTED, OFFLOAD_RECEIVED
  <2> QED
    BY <2>1, <2>2, <1>s, Stutters
<1>2. CASE AxResetFlag
  <2>1. Queue' = Queue
    BY <1>2, QueueSame
       DEF AxResetFlag, device, accepting
  <2>2. comp_status' = comp_status /\ CallOf' = CallOf /\ Answer' = Answer
    BY <1>2, <1>i, <1>t
       DEF AxResetFlag,
           mailbox, device, accepting, host,
           CallOf, Calling, Answer, Asked, InCall, Protocol, FlagOwner,
           LostInv, Booted, AxBooting, AxAccepting, AxRejecting,
           OFFLOAD_REQUESTED, OFFLOAD_RECEIVED
  <2> QED
    BY <2>1, <2>2, <1>s, Stutters
<1>3. CASE AxLoop
  <2>1. Queue' = Queue
    BY <1>3, QueueSame
       DEF AxLoop, device, accepting
  <2>2. comp_status' = comp_status /\ CallOf' = CallOf /\ Answer' = Answer
    BY <1>3, <1>i, <1>t
       DEF AxLoop,
           mailbox, device, accepting, host,
           CallOf, Calling, Answer, Asked, InCall, Protocol, FlagOwner,
           LostInv, Booted, AxBooting, AxAccepting, AxRejecting,
           OFFLOAD_REQUESTED, OFFLOAD_RECEIVED
  <2> QED
    BY <2>1, <2>2, <1>s, Stutters
<1>4. CASE AxNothingDue
  <2>1. Queue' = Queue
    BY <1>4, QueueSame
       DEF AxNothingDue, Due, device, accepting
  <2>2. comp_status' = comp_status /\ CallOf' = CallOf /\ Answer' = Answer
    BY <1>4, <1>i, <1>t
       DEF AxNothingDue, Due,
           mailbox, device, accepting, host,
           CallOf, Calling, Answer, Asked, InCall, Protocol, FlagOwner,
           LostInv, Booted, AxBooting, AxAccepting, AxRejecting,
           OFFLOAD_REQUESTED, OFFLOAD_RECEIVED
  <2> QED
    BY <2>1, <2>2, <1>s, Stutters
<1>5. CASE AxCheck
  <2>1. Queue' = Queue
    BY <1>5, QueueSame
       DEF AxCheck, HasRoom, device, accepting
  <2>2. comp_status' = comp_status /\ CallOf' = CallOf /\ Answer' = Answer
    BY <1>5, <1>i, <1>t
       DEF AxCheck, HasRoom,
           mailbox, device, accepting, host,
           CallOf, Calling, Answer, Asked, InCall, Protocol, FlagOwner,
           LostInv, Booted, AxBooting, AxAccepting, AxRejecting,
           OFFLOAD_REQUESTED, OFFLOAD_RECEIVED
  <2> QED
    BY <2>1, <2>2, <1>s, Stutters
<1>6. CASE AxAcceptStatus
  <2>1. Queue' = Queue
    BY <1>6, QueueSame
       DEF AxAcceptStatus, device, accepting
  <2>2. comp_status' = comp_status /\ CallOf' = CallOf /\ Answer' = Answer
    BY <1>6, <1>i, <1>t
       DEF AxAcceptStatus,
           mailbox, device, accepting, host,
           CallOf, Calling, Answer, Asked, InCall, Protocol, FlagOwner,
           LostInv, Booted, AxBooting, AxAccepting, AxRejecting,
           OFFLOAD_REQUESTED, OFFLOAD_RECEIVED
  <2> QED
    BY <2>1, <2>2, <1>s, Stutters
<1>7. CASE AxReadAddr
  <2>1. Queue' = Queue
    BY <1>7, QueueSame
       DEF AxReadAddr, device, accepting
  <2>2. comp_status' = comp_status /\ CallOf' = CallOf /\ Answer' = Answer
    BY <1>7, <1>i, <1>t
       DEF AxReadAddr,
           mailbox, device, accepting, host,
           CallOf, Calling, Answer, Asked, InCall, Protocol, FlagOwner,
           LostInv, Booted, AxBooting, AxAccepting, AxRejecting,
           OFFLOAD_REQUESTED, OFFLOAD_RECEIVED
  <2> QED
    BY <2>1, <2>2, <1>s, Stutters
<1>8. CASE AxRefuseStatus
  <2>1. Queue' = Queue
    BY <1>8, QueueSame
       DEF AxRefuseStatus, device, accepting
  <2>2. comp_status' = comp_status /\ CallOf' = CallOf /\ Answer' = Answer
    BY <1>8, <1>i, <1>t
       DEF AxRefuseStatus,
           mailbox, device, accepting, host,
           CallOf, Calling, Answer, Asked, InCall, Protocol, FlagOwner,
           LostInv, Booted, AxBooting, AxAccepting, AxRejecting,
           OFFLOAD_REQUESTED, OFFLOAD_RECEIVED
  <2> QED
    BY <2>1, <2>2, <1>s, Stutters
<1>9. CASE SubmitAddr
  <2>1. Queue' = Queue
    BY <1>9, QueueSame
       DEF SubmitAddr, device, accepting
  <2>2. comp_status' = comp_status /\ CallOf' = CallOf /\ Answer' = Answer
    BY <1>9, <1>i, <1>t
       DEF SubmitAddr,
           mailbox, device, accepting, host,
           CallOf, Calling, Answer, Asked, InCall, Protocol, FlagOwner,
           LostInv, Booted, AxBooting, AxAccepting, AxRejecting,
           OFFLOAD_REQUESTED, OFFLOAD_RECEIVED
  <2> QED
    BY <2>1, <2>2, <1>s, Stutters
<1>10. CASE SubmitFlag
  <2>1. Queue' = Queue
    BY <1>10, QueueSame
       DEF SubmitFlag, device, accepting
  <2>2. comp_status' = comp_status /\ CallOf' = CallOf /\ Answer' = Answer
    BY <1>10, <1>i, <1>t
       DEF SubmitFlag,
           mailbox, device, accepting, host,
           CallOf, Calling, Answer, Asked, InCall, Protocol, FlagOwner,
           LostInv, Booted, AxBooting, AxAccepting, AxRejecting,
           OFFLOAD_REQUESTED, OFFLOAD_RECEIVED
  <2> QED
    BY <2>1, <2>2, <1>s, Stutters
<1>11. CASE SubmitDst
  <2>1. Queue' = Queue
    BY <1>11, QueueSame
       DEF SubmitDst, device, accepting
  <2>2. comp_status' = comp_status /\ CallOf' = CallOf /\ Answer' = Answer
    BY <1>11, <1>i, <1>t
       DEF SubmitDst,
           mailbox, device, accepting, host,
           CallOf, Calling, Answer, Asked, InCall, Protocol, FlagOwner,
           LostInv, Booted, AxBooting, AxAccepting, AxRejecting,
           OFFLOAD_REQUESTED, OFFLOAD_RECEIVED
  <2> QED
    BY <2>1, <2>2, <1>s, Stutters
<1>12. CASE SubmitSpin
  <2>1. Queue' = Queue
    BY <1>12, QueueSame
       DEF SubmitSpin, device, accepting
  <2>2. comp_status' = comp_status /\ CallOf' = CallOf /\ Answer' = Answer
    BY <1>12, <1>i, <1>t
       DEF SubmitSpin,
           mailbox, device, accepting, host,
           CallOf, Calling, Answer, Asked, InCall, Protocol, FlagOwner,
           LostInv, Booted, AxBooting, AxAccepting, AxRejecting,
           OFFLOAD_REQUESTED, OFFLOAD_RECEIVED
  <2> QED
    BY <2>1, <2>2, <1>s, Stutters
<1>13. CASE SubmitResult
  <2>1. Queue' = Queue
    BY <1>13, QueueSame
       DEF SubmitResult, MayRetry, RetriesLeft, device, accepting
  <2>2. comp_status' = comp_status /\ CallOf' = CallOf /\ Answer' = Answer
    BY <1>13, <1>i, <1>t
       DEF SubmitResult, MayRetry, RetriesLeft,
           mailbox, device, accepting, host,
           CallOf, Calling, Answer, Asked, InCall, Protocol, FlagOwner,
           LostInv, Booted, AxBooting, AxAccepting, AxRejecting,
           OFFLOAD_REQUESTED, OFFLOAD_RECEIVED
  <2> QED
    BY <2>1, <2>2, <1>s, Stutters
<1>14. CASE StartAx
  <2>1. Queue' = Queue
    BY <1>14, <1>i, QueueSame
       DEF StartAx, device, accepting, Protocol, Lifecycle
  <2>2. comp_status' = comp_status /\ CallOf' = CallOf /\ Answer' = Answer
    BY <1>14, <1>i, <1>t
       DEF StartAx, mailbox, host,
           CallOf, Calling, Answer, Asked, InCall, Protocol, FlagOwner,
           LostInv, Booted, AxBooting, AxAccepting, AxRejecting,
           OFFLOAD_REQUESTED, OFFLOAD_RECEIVED
  <2> QED
    BY <2>1, <2>2, <1>s, Stutters
<1>15. CASE ClientStop
  <2>1. Queue' = Queue
    BY <1>15, QueueSame
       DEF ClientStop, StopAx, device, accepting
  <2>2. comp_status' = comp_status /\ CallOf' = CallOf /\ Answer' = Answer
    BY <1>15, <1>i, <1>t
       DEF ClientStop, StopAx,
           mailbox, device, accepting, host,
           CallOf, Calling, Answer, Asked, InCall, Protocol, FlagOwner,
           LostInv, Booted, AxBooting, AxAccepting, AxRejecting,
           OFFLOAD_REQUESTED, OFFLOAD_RECEIVED
  <2> QED
    BY <2>1, <2>2, <1>s, Stutters
<1>16. CASE Joined
  <2>1. Queue' = Queue
    BY <1>16, QueueSame
       DEF Joined, device, accepting
  <2>2. comp_status' = comp_status /\ CallOf' = CallOf /\ Answer' = Answer
    BY <1>16, <1>i, <1>t
       DEF Joined,
           mailbox, device, accepting, host,
           CallOf, Calling, Answer, Asked, InCall, Protocol, FlagOwner,
           LostInv, Booted, AxBooting, AxAccepting, AxRejecting,
           OFFLOAD_REQUESTED, OFFLOAD_RECEIVED
  <2> QED
    BY <2>1, <2>2, <1>s, Stutters
<1>17. CASE UNCHANGED vars
  <2>1. Queue' = Queue
    BY <1>17, QueueSame
       DEF vars, device, accepting
  <2>2. comp_status' = comp_status /\ CallOf' = CallOf /\ Answer' = Answer
    BY <1>17, <1>i, <1>t
       DEF vars,
           mailbox, device, accepting, host,
           CallOf, Calling, Answer, Asked, InCall, Protocol, FlagOwner,
           LostInv, Booted, AxBooting, AxAccepting, AxRejecting,
           OFFLOAD_REQUESTED, OFFLOAD_RECEIVED
  <2> QED
    BY <2>1, <2>2, <1>s, Stutters
<1>18. CASE Tick
  <2>1. Queue' = Queue
    BY <1>18, <1>i, QueueTick
  <2>2. comp_status' = comp_status /\ CallOf' = CallOf /\ Answer' = Answer
    BY <1>18
       DEF Tick, mailbox, host, CallOf, Calling, Answer
  <2> QED
    BY <2>1, <2>2, <1>s, Stutters
<1>19. CASE AxEnqueue
  <2>1. Queue' = Queue
    BY <1>19, <1>i, QueueEnqueue
  <2>2. comp_status' = comp_status /\ CallOf' = CallOf /\ Answer' = Answer
    BY <1>19
       DEF AxEnqueue, PushBack, Counted, mailbox, host, CallOf, Calling, Answer
  <2> QED
    BY <2>1, <2>2, <1>s, Stutters
<1>20. ASSUME NEW c \in Comps, ClientSubmit(c) PROVE [Device!DNext]_Device!dvars
  <2>1. Queue' = Queue
    BY <1>20, QueueSame DEF ClientSubmit, SubmitBegin, device, accepting
  <2>2. comp_status' = comp_status /\ CallOf' = CallOf /\ Answer' = Answer
    BY <1>20
       DEF ClientSubmit, SubmitBegin, mailbox, host, CallOf, Calling,
           Answer, Asked
  <2> QED
    BY <2>1, <2>2, <1>s, Stutters
<1>21. ASSUME NEW c \in Comps, ClientSee(c) PROVE [Device!DNext]_Device!dvars
  <2>1. Queue' = Queue
    BY <1>21, QueueSame DEF ClientSee, SeeCompleted, device, accepting
  <2>2. comp_status' = comp_status /\ CallOf' = CallOf /\ Answer' = Answer
    BY <1>21
       DEF ClientSee, SeeCompleted, mailbox, host, CallOf, Calling,
           Answer, Asked
  <2> QED
    BY <2>1, <2>2, <1>s, Stutters
<1>22. CASE SubmitComp
  <2>1. Queue' = Queue
    BY <1>22, QueueSame DEF SubmitComp, device, accepting
  <2>2. hcomp \in Comps /\ hcomp \notin Taken /\ hpc = "comp" /\ hcomp' = hcomp
    BY <1>22, <1>i, <1>t
       DEF SubmitComp, InCall, Protocol, HostRecord, Unanswered
  <2>3. /\ CallOf = NoComp /\ CallOf' = hcomp
        /\ Answer = NoComp /\ Answer' = NoComp
    BY <1>22 DEF SubmitComp, CallOf, Calling, Answer, Asked
  <2>4. Completions' = Completions \ {hcomp}
    BY <1>22, <1>t
       DEF SubmitComp, Completions, COMP_STATUS_PENDING, COMP_STATUS_COMPLETED
  <2>5. hcomp \notin {Queue[i] : i \in 1 .. Len(Queue)}
    BY <1>q, <2>2 DEF QueueShape
  <2>6. PICK r \in Comps : r = hcomp
    BY <2>2
  <2>7. Device!Call(r)
    BY <2>1, <2>3, <2>4, <2>5, <2>6 DEF Device!Call, CallOf, Completions
  <2>8. Device!DNext
    BY <2>7 DEF Device!DNext
  <2> QED
    BY <2>8
<1>23. CASE AxComplete
  <2>1. /\ Queue # <<>> /\ Queue' = Tail(Queue)
        /\ Head(Queue) = Head(inflight_list).comp
    BY <1>23, <1>i, QueueComplete
  <2>2. Head(inflight_list).comp \in Taken
    BY <1>23, <1>i, TakenComplete
  <2>3. Head(inflight_list).comp \in Comps
    BY <1>i, <1>t, <2>2
       DEF Protocol, TakenPending, DeviceInv, TypeOK, InCall
  <2>4. Completions' = Completions \cup {Head(Queue)}
    BY <1>23, <1>t, <2>1, <2>3
       DEF AxComplete, Due, Earliest, MoreInFlight, TimeOfNext, Completions,
           COMP_STATUS_PENDING, COMP_STATUS_COMPLETED
  <2>5. CallOf' = CallOf /\ Answer' = Answer
    BY <1>23
       DEF AxComplete, Due, Earliest, MoreInFlight, TimeOfNext, mailbox, host,
           CallOf, Calling, Answer
  <2>6. Device!Complete
    BY <2>1, <2>4, <2>5 DEF Device!Complete, CallOf, Completions
  <2> QED
    BY <2>6, <1>d DEF Device!DNext
<1>24. CASE AxReceive
  <2>1. axpc = "receive" /\ axpc' = "enqueue" /\ hpc \in {"dst", "spin"}
    BY <1>24, <1>i DEF AxReceive, Protocol, FlagOwner, AxAccepting
  <2>2. new_comp = hcomp /\ new_comp' = new_comp /\ hcomp \in Comps
    BY <1>24, <2>1, <1>i, <1>t
       DEF AxReceive, accepting, Protocol, FlagOwner, HostRecord, Asked, InCall
  <2>3. Queue = Listed /\ Queue' = Append(Listed', new_comp')
    BY <2>1, <1>q, <1>i, ShapeNext DEF QueueShape
  <2>4. Listed' = Listed
    BY <1>24 DEF AxReceive, device, Listed
  <2>5. Len(Queue) < MaxInflight
    BY <2>1, <2>3, <1>q, <1>i
       DEF ListedShape, DeviceInv, Bookkeeping, RoomForNew, AxAccepting
  <2>6. /\ CallOf = hcomp /\ CallOf' = hcomp /\ CallOf # NoComp
        /\ Answer = NoComp /\ Answer' = "success"
    BY <1>24, <2>1, <2>2, <1>i, <1>t
       DEF AxReceive, host, Protocol, FlagOwner, StatusTrue, AxAccepting,
           CallOf, Calling, Answer, Asked, OFFLOAD_REQUESTED, OFFLOAD_RECEIVED
  <2>7. Completions' = Completions
    BY <1>24 DEF AxReceive, Completions
  <2>8. Device!Accept
    BY <2>2, <2>3, <2>4, <2>5, <2>6, <2>7
       DEF Device!Accept, CallOf, Completions
  <2> QED
    BY <2>8, <1>d DEF Device!DNext
<1>25. CASE AxRefuse
  <2>1. axpc = "refused" /\ axpc' = "loop" /\ hpc \in {"dst", "spin"}
    BY <1>25, <1>i DEF AxRefuse, Protocol, FlagOwner, AxRejecting
  <2>2. Queue' = Queue /\ Queue = Listed
    BY <1>25, <2>1, <1>q, QueueSame DEF AxRefuse, device, QueueShape
  <2>3. Len(Queue) = MaxInflight
    BY <2>1, <2>2, <1>q, <1>i, EmulAxAssumption
       DEF ListedShape, DeviceInv, Bookkeeping, FullInv, AxRejecting
  <2>4. /\ CallOf' = CallOf /\ CallOf # NoComp
        /\ Answer = NoComp /\ Answer' = "failure"
    BY <1>25, <2>1, <1>i, <1>t
       DEF AxRefuse, host, Protocol, FlagOwner, StatusTrue, AxRejecting,
           CallOf, Calling, Answer, Asked, InCall, OFFLOAD_REQUESTED,
           OFFLOAD_RECEIVED, SUBMIT_SUCCESS, SUBMIT_FAIL
  <2>5. Completions' = Completions
    BY <1>25 DEF AxRefuse, Completions
  <2>6. Device!Refuse
    BY <2>2, <2>3, <2>4, <2>5 DEF Device!Refuse, CallOf, Completions
  <2> QED
    BY <2>6, <1>d DEF Device!DNext
<1>26. CASE ReturnSuccess \/ ReturnFail
  <2>1. Queue' = Queue
    BY <1>26, QueueSame DEF ReturnSuccess, ReturnFail, device, accepting
  <2>2. hpc \in {"ok", "fail"} /\ submit_flag = OFFLOAD_RECEIVED
    BY <1>26, <1>i DEF ReturnSuccess, ReturnFail, Protocol, FlagOwner
  <2>3. Answer # NoComp
    BY <1>c, <2>2 DEF Asked
  <2>4. CallOf' = NoComp /\ Answer' = NoComp /\ Completions' = Completions
    BY <1>26
       DEF ReturnSuccess, ReturnFail, CallOf, Calling, Answer, Asked,
           Completions
  <2>5. Device!Return
    BY <2>1, <2>3, <2>4 DEF Device!Return, CallOf, Completions
  <2> QED
    BY <2>5, <1>d DEF Device!DNext
<1>27. CASE ClientAllocate
  <2>1. Queue' = Queue
    BY <1>27, QueueSame DEF ClientAllocate, AllocateCrs, device, accepting
  <2>2. outstanding = {} /\ hpc \in {"down", "idle"} /\ hpc' = hpc
        /\ hcomp' = hcomp /\ UNCHANGED mailbox
    BY <1>27 DEF ClientAllocate, AllocateCrs, host
  <2>3. Taken = {}
    BY <1>i, <2>2 DEF Protocol, TakenPending, Asked
  <2>4. Queue = <<>>
    <3>1. axpc # "enqueue"
      BY <2>3 DEF Taken
    <3>2. Queue = Listed
      BY <3>1, <1>q DEF QueueShape
    <3>3. Len(Listed) = 0
      BY <2>3, <1>q DEF ListedShape, Taken, Held
    <3> QED
      BY <3>2, <3>3, <1>q DEF ListedShape
  <2>5. CallOf = NoComp /\ CallOf' = NoComp /\ Answer' = Answer
    BY <2>2 DEF CallOf, Calling, Answer, Asked, mailbox
  <2>6. Completions' = {}
    BY <1>27
       DEF ClientAllocate, AllocateCrs, Completions, COMP_STATUS_PENDING,
           COMP_STATUS_COMPLETED
  <2>7. Device!Forget
    BY <2>1, <2>4, <2>5, <2>6 DEF Device!Forget, CallOf, Completions
  <2> QED
    BY <2>7, <1>d DEF Device!DNext
<1> QED
  BY <1>1, <1>2, <1>3, <1>4, <1>5, <1>6, <1>7, <1>8, <1>9, <1>10, <1>11,
     <1>12, <1>13, <1>14, <1>15, <1>16, <1>17, <1>18, <1>19, <1>20, <1>21,
     <1>22, <1>23, <1>24, <1>25, <1>26, <1>27
     DEF Next, AxNext, HostNext, SubmitSteps, Exited

-----------------------------------------------------------------------------
\* The invariants hold together.
LEMMA RefInvariant ==
  ASSUME EagerHost = FALSE
  PROVE  Spec => []RefInv
<1>1. Init => RefInv
  BY DeviceInvInit, HoldInvInit, LostInvInit, FullInvInit DEF RefInv
<1>2. RefInv /\ [Next]_vars => RefInv'
  BY DeviceInvNext, HoldInvNext, LostInvNext, FullInvNext DEF RefInv
<1> QED
  BY <1>1, <1>2, PTL DEF Spec

\* The thread's first state is an idle device.
LEMMA InitSimulates == Init => Device!DInit
<1> SUFFICES ASSUME Init PROVE Device!DInit
  OBVIOUS
<1>1. Queue = <<>>
  BY DEF Init, Queue
<1>2. ~Calling /\ hpc \notin Asked /\ Completions = {}
  BY DEF Init, Calling, Asked, Completions, COMP_STATUS_PENDING,
         COMP_STATUS_COMPLETED
<1> QED
  BY <1>1, <1>2 DEF Device!DInit, Answer, Completions

\* The mailbox protocol of emul_ax.cpp and submit_offload implements a FIFO
\* device: whatever the client does, no submission is lost, duplicated or
\* answered wrongly, and records complete in the order of their acceptance.
THEOREM RefinesOffloadDevice ==
  ASSUME EagerHost = FALSE, NoComp \notin {"success", "failure"}
  PROVE  Spec => ImplementsDevice
<1>1. RefInv /\ RefInv' /\ [Next]_vars => [Device!DNext]_Device!dvars
  BY StepSimulates
<1> QED
  BY <1>1, RefInvariant, InitSimulates, PTL
     DEF Spec, ImplementsDevice, Device!DSpec
=============================================================================
