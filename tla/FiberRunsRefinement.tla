------------------------- MODULE FiberRunsRefinement -------------------------
(***************************************************************************)
(* FiberRuns implements RequestService: whatever the executor, requests    *)
(* are offloaded and served in the order of their indices, each after its  *)
(* own answer and within the capacity of the queue.                        *)
(***************************************************************************)
EXTENDS FiberRunsProofs

(***************************************************************************)
(* What FInv leaves out: that a request is past its last stage once it     *)
(* computes, has its answer by then, and that one without an answer is     *)
(* held by the device of its stage.                                        *)
(***************************************************************************)
Held(r) ==
  \E d \in Devices : d = Stages[stage[r]].submit.device /\ r \in wq[d]

Good(r) ==
  Stages # <<>> =>
    /\ request[r] \in {"computing", "finished"} => stage[r] = Len(Stages)
    /\ request[r] \in {"checking", "computing", "finished"} =>
         comp_status[r] # PENDING
    /\ request[r] \in {"waiting", "yielded"} /\ comp_status[r] = PENDING =>
         Held(r)

SInv == InRun => \A r \in Records : Good(r)

\* The other parts of the refinement mapping, under names of their own.
Answers == {r \in Offloaded : comp_status[r] # PENDING}
Served == {r \in Records : request[r] = "finished"}

-----------------------------------------------------------------------------
(***************************************************************************)
(* Steps that leave records and the service alone.                         *)
(***************************************************************************)
\* A request that nothing happens to, while the queues only grow.
LEMMA GoodSame ==
  ASSUME NEW r \in Records, Good(r), Stages' = Stages,
         request'[r] = request[r], stage'[r] = stage[r],
         comp_status'[r] = comp_status[r],
         \A d \in Devices : wq[d] \subseteq wq'[d]
  PROVE  Good(r)'
<1>1. ASSUME Held(r) PROVE Held(r)'
  BY <1>1 DEF Held
<1> QED
  BY <1>1 DEF Good

\* A step in which at most one request moves.
LEMMA OneMoves ==
  ASSUME SInv, InRun, Stages' = Stages, NEW n \in Records, Good(n)',
         \A r \in Records :
           r # n => /\ request'[r] = request[r] /\ stage'[r] = stage[r]
                    /\ comp_status'[r] = comp_status[r],
         \A d \in Devices : wq[d] \subseteq wq'[d]
  PROVE  SInv'
<1>1. ASSUME NEW r \in Records, r # n PROVE Good(r)'
  <2>1. Good(r)
    BY DEF SInv
  <2> QED
    BY <1>1, <2>1, GoodSame
<1> QED
  BY <1>1 DEF SInv

\* No request is offloaded, answered or served by a step that changes none
\* of what the mapping looks at.
LEMMA NothingServed ==
  ASSUME Accelerated' = Accelerated, Offloaded' = Offloaded,
         Answers' = Answers, Served' = Served
  PROVE  UNCHANGED Service!svars
BY DEF Service!svars, Answers, Served

\* The same, for the requests one by one.
LEMMA SameService ==
  ASSUME Accelerated' = Accelerated, Stages' = Stages,
         \A r \in Records :
           /\ Accelerated =>
                ((Reached(r) /\ stage[r] = Len(Stages))' <=>
                 (Reached(r) /\ stage[r] = Len(Stages)))
           /\ Accelerated /\ Reached(r) /\ stage[r] = Len(Stages) =>
                (comp_status'[r] # PENDING <=> comp_status[r] # PENDING)
           /\ request'[r] = "finished" <=> request[r] = "finished"
  PROVE  UNCHANGED Service!svars
<1>1. Offloaded' = Offloaded
  BY DEF Offloaded
<1>2. Answers' = Answers
  BY <1>1 DEF Answers, Offloaded
<1>3. Served' = Served
  BY DEF Served
<1> QED
  BY <1>1, <1>2, <1>3, NothingServed

\* Steps of the executor and of fillers that no request takes part in.
LEMMA AsideStep ==
  ASSUME FInv, SInv, UNCHANGED <<qvars, program, request, stage>>,
         InRun' => InRun
  PROVE  SInv' /\ UNCHANGED Service!svars
<1>u. UNCHANGED <<comp_status, wq, plan, run, iter, request, stage>>
  BY DEF qvars, program
<1>s. Stages' = Stages /\ Finished' = Finished /\ Runner' = Runner
  BY SameRun
<1>1. SInv'
  BY <1>u, <1>s DEF SInv, Good, Held
<1>2. UNCHANGED Service!svars
  <2>1. Accelerated' = Accelerated
    BY <1>s DEF Accelerated
  <2>2. \A r \in Records : Reached(r)' = Reached(r)
    BY <1>u DEF Reached
  <2> QED
    BY <1>u, <1>s, <2>1, <2>2, SameService
<1> QED
  BY <1>1, <1>2

-----------------------------------------------------------------------------
(***************************************************************************)
(* The request that has the processor.                                     *)
(***************************************************************************)
\* The run in progress, when it offloads.
LEMMA AcceleratedRun ==
  ASSUME FInv, InRun
  PROVE  /\ Accelerated <=> Stages # <<>>
         /\ Stages # <<>> => Len(Stages) >= 1
<1>1. ~Finished /\ Fits(Runner) /\ Harnessed.interval # 0
  BY DEF FInv, RunFits
<1>2. Runner.kind = "runs" /\ RunShape
  BY <1>1, ShapeOfFits DEF Fits
<1>3. Stages \in Seq(StageKinds)
  BY <1>2 DEF RunShape
<1> QED
  BY <1>1, <1>2, <1>3 DEF Accelerated

\* The request entered last is the youngest one, the one resumed the oldest.
LEMMA WhoRuns ==
  ASSUME FInv, InRun, cpu = "request"
  PROVE  /\ running \in Records /\ Low <= running /\ running < High
         /\ Submitting => running = High - 1
         /\ Finishing => running = Low
<1>z. Sized
  BY SizedFacts DEF FInv
<1>1. /\ Low \in 0 .. TotalRequests /\ High \in Low .. TotalRequests
      /\ Low <= running /\ running < High /\ running \in Records
  BY <1>z DEF FInv, Shape, Sized
<1>2. /\ next_unstarted \in Nat /\ requests_completed \in Nat
      /\ running \in Nat /\ Low \in Nat /\ High \in Nat
  BY <1>1, <1>z DEF Sized
<1>3. Submitting => ~Finishing
  BY DEF Submitting, Finishing
<1>4. CASE Schedule = "overlapping"
  BY <1>1, <1>3, <1>4 DEF FInv, Position
<1>5. CASE Schedule = "sequential"
  <2>1. Low = next_unstarted - 1 /\ High = next_unstarted
    BY <1>5 DEF Low, High
  <2> QED
    BY <1>1, <1>2, <2>1
<1>6. CASE Schedule = "one in flight"
  <2>1. Low = requests_completed /\ High = requests_completed + 1
    BY <1>6 DEF Low, High
  <2> QED
    BY <1>1, <1>2, <2>1
<1> QED
  BY <1>4, <1>5, <1>6 DEF FInv, Position

\* When a request submits its last stage, exactly those before it have
\* submitted theirs.
LEMMA OffloadedBefore ==
  ASSUME FInv, SInv, InRun, Accelerated, cpu = "request",
         request[running] = "submitting"
  PROVE  Offloaded = 0 .. running - 1
<1>z. Sized
  BY SizedFacts DEF FInv
<1>w. /\ running \in Records /\ Low <= running /\ running < High
      /\ running = High - 1
  BY WhoRuns DEF Submitting
<1>h. /\ Low \in 0 .. TotalRequests /\ High \in Low .. TotalRequests
      /\ \A r \in Records :
           /\ r < Low => request[r] = "finished"
           /\ r >= High => request[r] = "created"
           /\ Low <= r /\ r < High /\ r # running => request[r] = "yielded"
  BY DEF FInv, Shape
<1>a. Stages # <<>> /\ Len(Stages) >= 1
  BY AcceleratedRun
<1>n. /\ TotalRequests \in Nat /\ Records = 0 .. TotalRequests - 1
      /\ running \in Nat /\ Low \in Nat /\ High \in Nat
  BY <1>z, <1>w, <1>h DEF Sized
<1>1. ASSUME NEW r \in Records, r < running PROVE r \in Offloaded
  <2>1. CASE r < Low
    <3>1. request[r] = "finished"
      BY <2>1, <1>h
    <3>2. stage[r] = Len(Stages)
      BY <3>1, <1>a DEF SInv, Good
    <3> QED
      BY <3>1, <3>2 DEF Offloaded, Reached
  <2>2. CASE ~(r < Low)
    <3>1. Low <= r /\ r < High /\ r # running
      BY <1>1, <1>n, <1>w, <2>2
    <3>2. request[r] = "yielded"
      BY <3>1, <1>h
    <3>3. Low # running
      BY <1>1, <1>n, <3>1
    <3>4. Schedule = "overlapping"
      <4>1. Schedule # "overlapping" => High = Low + 1
        <5>1. next_unstarted \in Nat /\ requests_completed \in Nat
          BY <1>z DEF Sized
        <5>2. CASE Schedule = "sequential"
          <6>1. Low = next_unstarted - 1 /\ High = next_unstarted
            BY <5>2 DEF Low, High
          <6> QED
            BY <5>1, <6>1
        <5>3. CASE Schedule = "one in flight"
          BY <5>3 DEF Low, High
        <5> QED
          BY <5>2, <5>3 DEF FInv, Position
      <4>2. High # Low + 1
        BY <1>n, <1>w, <3>3
      <4> QED
        BY <4>1, <4>2
    <3>5. Len(Stages) = 1
      <4>1. RunShape
        BY ShapeOfFits DEF FInv, RunFits
      <4> QED
        BY <4>1, <3>4 DEF RunShape
    <3>6. stage[r] = 1
      <4>1. stage[r] \in 1 .. 2
        BY DEF FInv, TypeOK
      <4>2. stage[r] <= Len(Stages)
        BY <3>2 DEF FInv, Staged
      <4> QED
        BY <4>1, <4>2, <3>5
    <3> QED
      BY <3>2, <3>5, <3>6 DEF Offloaded, Reached
  <2> QED
    BY <2>1, <2>2
<1>2. ASSUME NEW r \in Records, ~(r < running) PROVE r \notin Offloaded
  <2>1. r = running \/ r >= High
    BY <1>2, <1>n, <1>w
  <2>2. request[r] \in {"submitting", "created"}
    BY <2>1, <1>h
  <2> QED
    BY <2>2 DEF Offloaded, Reached
<1>3. \A r : r \in 0 .. running - 1 <=> r \in Records /\ r < running
  BY <1>n, <1>w
<1> QED
  BY <1>1, <1>2, <1>3 DEF Offloaded

\* When a request is done, exactly those before it were.
LEMMA ServedBefore ==
  ASSUME FInv, InRun, cpu = "request", request[running] = "computing"
  PROVE  Served = 0 .. running - 1
<1>z. Sized
  BY SizedFacts DEF FInv
<1>w. /\ running \in Records /\ Low <= running /\ running < High
      /\ running = Low
  BY WhoRuns DEF Finishing
<1>h. /\ Low \in 0 .. TotalRequests /\ High \in Low .. TotalRequests
      /\ \A r \in Records :
           /\ r < Low => request[r] = "finished"
           /\ r >= High => request[r] = "created"
           /\ Low <= r /\ r < High /\ r # running => request[r] = "yielded"
  BY DEF FInv, Shape
<1>n. /\ TotalRequests \in Nat /\ Records = 0 .. TotalRequests - 1
      /\ running \in Nat /\ Low \in Nat /\ High \in Nat
  BY <1>z, <1>w, <1>h DEF Sized
<1>1. ASSUME NEW r \in Records, request[r] = "finished" PROVE r < running
  <2>1. ~(r >= High) /\ r # running /\ ~(Low <= r /\ r < High)
    BY <1>1, <1>h
  <2> QED
    BY <2>1, <1>n, <1>w
<1>2. \A r \in Records : r < running => request[r] = "finished"
  BY <1>h, <1>w
<1>3. \A r : r \in 0 .. running - 1 <=> r \in Records /\ r < running
  BY <1>n, <1>w
<1> QED
  BY <1>1, <1>2, <1>3 DEF Served

\* Counting the requests before one.
LEMMA CountBefore ==
  ASSUME NEW n \in Nat
  PROVE  /\ IsFiniteSet(0 .. n - 1) /\ Cardinality(0 .. n - 1) = n
<1>1. /\ IsFiniteSet(0 .. n - 1)
      /\ Cardinality(0 .. n - 1) = IF 0 > n - 1 THEN 0 ELSE n - 1 - 0 + 1
  BY FS_Interval
<1> QED
  BY <1>1

-----------------------------------------------------------------------------
(***************************************************************************)
(* The steps.                                                              *)
(***************************************************************************)
\* An executor enters a fiber: nothing is offloaded or served.
LEMMA EnterStep ==
  ASSUME FInv, SInv, InRun, InRun',
         UNCHANGED <<comp_status, wq, plan, run, iter, stage>>,
         NEW n, NEW from, NEW next, Enter(n, from, next),
         \/ /\ from = "yielded" /\ next = "checking"
            /\ comp_status[n] # PENDING
         \/ /\ from = "created"
            /\ next = IF Stages = <<>> THEN "computing" ELSE "preparing"
  PROVE  SInv' /\ UNCHANGED Service!svars
<1>z. Sized
  BY SizedFacts DEF FInv
<1>s. Stages' = Stages /\ Finished' = Finished /\ Runner' = Runner
  BY SameRun DEF program
<1>1. CASE request' = request
  BY <1>1, AsideStep DEF qvars, program
<1>2. CASE request' # request
  <2>1. /\ n \in Records /\ request[n] = from
        /\ request' = [request EXCEPT ![n] = next]
    BY <1>2 DEF Enter
  <2>2. /\ request'[n] = next
        /\ \A r \in Records : r # n => request'[r] = request[r]
    BY <2>1, <1>z DEF Sized
  <2>3. Good(n)'
    BY <2>2, <1>s DEF Good
  <2>4. SInv'
    BY <2>1, <2>2, <2>3, <1>s, OneMoves
  <2>5. Accelerated' = Accelerated
    BY <1>s DEF Accelerated
  <2>6. Accelerated => Stages # <<>>
    BY AcceleratedRun
  <2>7. \A r \in Records :
          /\ Accelerated => (Reached(r)' <=> Reached(r))
          /\ request'[r] = "finished" <=> request[r] = "finished"
    BY <2>1, <2>2, <2>6 DEF Reached
  <2>8. UNCHANGED Service!svars
    BY <2>5, <2>7, <1>s, SameService
  <2> QED
    BY <2>4, <2>8
<1> QED
  BY <1>1, <1>2

\* A test that passes means an answer.
LEMMA PassedMeans ==
  ASSUME NEW test, NEW n, Passes(test, n)
  PROVE  comp_status[n] # PENDING
BY DEF Passes, PENDING, COMPLETED

\* The steps in which the executor enters a request.
LEMMA EnterSteps ==
  ASSUME FInv, SInv,
         ResumeOldest \/ StartAnother \/ StartNext \/ StartOne \/ ResumeOne
  PROVE  SInv' /\ UNCHANGED Service!svars
<1>1. /\ InRun /\ InRun'
      /\ UNCHANGED <<comp_status, wq, plan, run, iter, stage>>
  BY DEF ResumeOldest, StartAnother, StartNext, StartOne, ResumeOne,
         AtSchedule, Awaiting, InRun, qvars, program
<1>2. ASSUME NEW n, Start(n) PROVE SInv' /\ UNCHANGED Service!svars
  BY <1>1, <1>2, EnterStep DEF Start
<1>3. ASSUME NEW n, NEW test, Passes(test, n), Resume(n)
      PROVE  SInv' /\ UNCHANGED Service!svars
  BY <1>1, <1>3, EnterStep, PassedMeans DEF Resume
<1> QED
  BY <1>2, <1>3 DEF ResumeOldest, StartAnother, StartNext, StartOne, ResumeOne

\* A request fills in its descriptor and clears its record.
LEMMA PrepareSimulates ==
  ASSUME FInv, SInv, Prepare
  PROVE  SInv' /\ UNCHANGED Service!svars
<1>z. Sized
  BY SizedFacts DEF FInv
<1>c. InRun /\ cpu = "request" /\ request[running] = "preparing"
  BY DEF Prepare, InRequest, InRun, FInv, Idle
<1>p. PICK n \in Records : n = running
  BY <1>z DEF Sized
<1>u. UNCHANGED <<wq, plan, run, iter, at, stage>>
  BY DEF Prepare, program
<1>s. Stages' = Stages /\ Finished' = Finished /\ Runner' = Runner
  BY <1>u, SameRun DEF program
<1>g. /\ request[n] = "preparing" /\ request'[n] = "submitting"
      /\ \A r \in Records : r # n =>
           request'[r] = request[r] /\ comp_status'[r] = comp_status[r]
  BY <1>c, <1>p, <1>z DEF Prepare, Become, Prepared, Sized
<1>1. Good(n)'
  BY <1>g DEF Good
<1>2. SInv'
  BY <1>1, <1>g, <1>s, <1>u, <1>c, OneMoves
<1>3. Accelerated' = Accelerated
  BY <1>s DEF Accelerated
<1>4. \A r \in Records :
        /\ Reached(r)' <=> Reached(r)
        /\ Reached(r) => comp_status'[r] = comp_status[r]
        /\ request'[r] = "finished" <=> request[r] = "finished"
  BY <1>g DEF Reached
<1>5. UNCHANGED Service!svars
  BY <1>3, <1>4, <1>s, <1>u, SameService
<1> QED
  BY <1>2, <1>5

\* The service counts as the queues do.
LEMMA SameCount == \A S : Service!Cardinality(S) = Cardinality(S)
BY DEF Service!Cardinality, Cardinality, Service!IsFiniteSet, IsFiniteSet

\* A descriptor is queued: an offload, if it is of the request's last stage.
LEMMA SubmitSimulates ==
  ASSUME FInv, SInv, Submit
  PROVE  SInv' /\ [Service!SNext]_Service!svars
<1>z. Sized
  BY SizedFacts DEF FInv
<1>c. InRun /\ cpu = "request" /\ request[running] = "submitting"
  BY DEF Submit, InRequest, InRun, FInv, Idle
<1>p. PICK n \in Records : n = running
  BY <1>z DEF Sized
<1>u. UNCHANGED <<comp_status, plan, run, iter, at, stage>>
  BY DEF Submit, program
<1>s. Stages' = Stages /\ Finished' = Finished /\ Runner' = Runner
  BY <1>u, SameRun DEF program
<1>g. /\ request[n] = "submitting" /\ request'[n] \in {"waiting", "yielded"}
      /\ \A r \in Records : r # n => request'[r] = request[r]
  BY <1>c, <1>p, <1>z DEF Submit, Become, Sized
<1>k. /\ Stages[stage[n]] \in StageKinds /\ stage[n] \in 1 .. Len(Stages)
      /\ Stages # <<>>
  <2>1. Stages \in Seq(StageKinds)
    BY <1>c, ShapeOfFits DEF FInv, RunFits, RunShape
  <2>2. stage[n] \in 1 .. 2 /\ stage[n] <= Len(Stages)
    BY <1>c, <1>g DEF FInv, Staged, TypeOK
  <2>3. stage[n] \in 1 .. Len(Stages)
    BY <2>1, <2>2
  <2> QED
    BY <2>1, <2>3
<1>d. PICK d \in Devices :
        /\ d = Stages[stage[n]].submit.device
        /\ Cardinality(wq[d]) < WqSize
        /\ wq' = [wq EXCEPT ![d] = @ \cup {n}]
  BY <1>k, <1>p, StageFacts DEF Submit, Enqueue, Room
<1>w. wq \in [Devices -> SUBSET Records]
  BY DEF FInv, TypeOK, QTypeOK
<1>1. SInv'
  <2>1. \A e \in Devices : wq[e] \subseteq wq'[e]
    BY <1>d, <1>w
  <2>2. n \in wq'[d]
    BY <1>d, <1>w
  <2>3. Held(n)'
    BY <2>2, <1>d, <1>s, <1>u DEF Held
  <2>4. Good(n)'
    BY <2>3, <1>g DEF Good
  <2> QED
    BY <2>1, <2>4, <1>c, <1>g, <1>s, <1>u, OneMoves
<1>a. Accelerated' = Accelerated /\ Accelerated
  BY <1>s, <1>c, <1>k, AcceleratedRun DEF Accelerated
<1>f. Served' = Served
  BY <1>g DEF Served
<1>2. CASE stage[n] # Len(Stages)
  <2>1. \A r \in Records :
          stage[r] = Len(Stages) => (Reached(r)' <=> Reached(r))
    BY <1>2, <1>g DEF Reached
  <2>2. Offloaded' = Offloaded
    BY <2>1, <1>a, <1>s, <1>u DEF Offloaded
  <2>3. Answers' = Answers
    BY <2>2, <1>u DEF Answers
  <2> QED
    BY <2>2, <2>3, <1>1, <1>a, <1>f, NothingServed
<1>3. CASE stage[n] = Len(Stages)
  <2>1. Offloaded' = Offloaded \cup {n}
    <3>1. \A r \in Records : r # n => (Reached(r)' <=> Reached(r))
      BY <1>g DEF Reached
    <3>2. Reached(n)'
      BY <1>g DEF Reached
    <3> QED
      BY <3>1, <3>2, <1>3, <1>a, <1>s, <1>u DEF Offloaded
  <2>2. comp_status[n] = PENDING
    BY <1>g DEF FInv, Queues
  <2>3. Answers' = Answers
    BY <2>1, <2>2, <1>u DEF Answers
  <2>4. Offloaded = 0 .. n - 1 /\ n \in Nat
    BY <1>a, <1>c, <1>p, <1>z, OffloadedBefore DEF Sized
  <2>5. Cardinality(Offloaded) = n
    BY <2>4, CountBefore
  <2>6. Offloaded \ Answers \subseteq wq[d]
    <3> SUFFICES ASSUME NEW r \in Offloaded, comp_status[r] = PENDING
                 PROVE  r \in wq[d]
      BY DEF Answers
    <3>1. r \in Records /\ Reached(r) /\ stage[r] = stage[n]
      BY <1>3 DEF Offloaded
    <3>2. Good(r)
      BY <3>1, <1>c DEF SInv
    <3>3. request[r] \in {"waiting", "yielded"}
      BY <3>1, <3>2, <1>k DEF Good, Reached
    <3>4. Held(r)
      BY <3>2, <3>3, <1>k DEF Good
    <3> QED
      BY <3>1, <3>4, <1>d DEF Held
  <2>7. Cardinality(Offloaded \ Answers) < WqSize
    <3>1. Records = 0 .. TotalRequests - 1 /\ TotalRequests \in Nat
      BY <1>z DEF Sized
    <3>2. IsFiniteSet(Records)
      BY <3>1, CountBefore
    <3>3. wq[d] \subseteq Records
      BY <1>w
    <3>4. IsFiniteSet(wq[d])
      BY <3>2, <3>3, FS_Subset
    <3>5. /\ IsFiniteSet(Offloaded \ Answers)
          /\ Cardinality(Offloaded \ Answers) <= Cardinality(wq[d])
      BY <2>6, <3>4, FS_Subset
    <3>6. /\ Cardinality(Offloaded \ Answers) \in Nat
          /\ Cardinality(wq[d]) \in Nat
      BY <3>4, <3>5, FS_CardinalityType
    <3> QED
      BY <3>5, <3>6, <1>d, HwQueueAssumption
  <2>8. Service!Offload
    BY <2>1, <2>3, <2>5, <2>7, <1>a, <1>f, SameCount
       DEF Service!Offload, Answers, Served
  <2> QED
    BY <2>8, <1>1 DEF Service!SNext
<1> QED
  BY <1>2, <1>3

\* A blocking request sees its answer.
LEMMA SpinOnSimulates ==
  ASSUME FInv, SInv, SpinOn
  PROVE  SInv' /\ UNCHANGED Service!svars
<1>z. Sized
  BY SizedFacts DEF FInv
<1>c. InRun /\ cpu = "request" /\ request[running] = "waiting"
  BY DEF SpinOn, InRequest, InRun, FInv, Idle
<1>p. PICK n \in Records : n = running
  BY <1>z DEF Sized
<1>u. UNCHANGED <<comp_status, wq, plan, run, iter, at, stage>>
  BY DEF SpinOn, program, qvars
<1>s. Stages' = Stages /\ Finished' = Finished /\ Runner' = Runner
  BY <1>u, SameRun DEF program
<1>g. /\ request[n] = "waiting" /\ request'[n] = "checking"
      /\ \A r \in Records : r # n => request'[r] = request[r]
      /\ comp_status[n] # PENDING
  BY <1>c, <1>p, <1>z DEF SpinOn, spin_on, Become, Sized
<1>1. Good(n)'
  BY <1>g, <1>u DEF Good
<1>2. SInv'
  BY <1>1, <1>g, <1>s, <1>u, <1>c, OneMoves
<1>3. Accelerated' = Accelerated
  BY <1>s DEF Accelerated
<1>4. \A r \in Records :
        /\ Reached(r)' <=> Reached(r)
        /\ request'[r] = "finished" <=> request[r] = "finished"
  BY <1>g DEF Reached
<1>5. UNCHANGED Service!svars
  BY <1>3, <1>4, <1>s, <1>u, SameService
<1> QED
  BY <1>2, <1>5

\* A request looks at its answer and goes on to its next stage, or computes.
LEMMA CheckSimulates ==
  ASSUME FInv, SInv, Check
  PROVE  SInv' /\ UNCHANGED Service!svars
<1>z. Sized
  BY SizedFacts DEF FInv
<1>c. InRun /\ cpu = "request" /\ request[running] = "checking"
  BY DEF Check, InRequest, InRun, FInv, Idle
<1>p. PICK n \in Records : n = running
  BY <1>z DEF Sized
<1>u. UNCHANGED <<comp_status, wq, plan, run, iter, at>>
  BY DEF Check, program, qvars
<1>s. Stages' = Stages /\ Finished' = Finished /\ Runner' = Runner
  BY <1>u, SameRun DEF program
<1>t. /\ stage[n] \in Nat /\ Len(Stages) \in Nat /\ stage[n] <= Len(Stages)
      /\ DOMAIN stage = Records
  <2>1. Stages \in Seq(StageKinds)
    BY <1>c, ShapeOfFits DEF FInv, RunFits, RunShape
  <2>2. /\ stage[n] \in 1 .. 2 /\ stage[n] <= Len(Stages)
        /\ DOMAIN stage = Records
    BY <1>c, <1>p DEF FInv, Staged, TypeOK
  <2> QED
    BY <2>1, <2>2
<1>g. /\ request[n] = "checking"
      /\ \A r \in Records : r # n =>
           request'[r] = request[r] /\ stage'[r] = stage[r]
      /\ \/ /\ request'[n] = "preparing" /\ stage[n] < Len(Stages)
         \/ /\ request'[n] = "computing" /\ stage' = stage
            /\ stage[n] = Len(Stages)
  <2>1. /\ request[n] = "checking"
        /\ \A r \in Records : r # n =>
             request'[r] = request[r] /\ stage'[r] = stage[r]
        /\ \/ request'[n] = "preparing" /\ stage[n] < Len(Stages)
           \/ /\ request'[n] = "computing" /\ stage' = stage
              /\ ~(stage[n] < Len(Stages))
    BY <1>c, <1>p, <1>z, <1>t DEF Check, Become, Sized
  <2>2. ~(stage[n] < Len(Stages)) => stage[n] = Len(Stages)
    BY <1>t
  <2> QED
    BY <2>1, <2>2
<1>1. Good(n)'
  <2>1. Good(n)
    BY <1>c DEF SInv
  <2> QED
    BY <2>1, <1>g, <1>u, <1>s DEF Good
<1>2. SInv'
  BY <1>1, <1>g, <1>s, <1>u, <1>c, OneMoves
<1>3. Accelerated' = Accelerated
  BY <1>s DEF Accelerated
<1>4. \A r \in Records :
        /\ (Reached(r) /\ stage[r] = Len(Stages))' <=>
           (Reached(r) /\ stage[r] = Len(Stages))
        /\ request'[r] = "finished" <=> request[r] = "finished"
  <2>1. \A r \in Records : r # n => (Reached(r)' <=> Reached(r))
    BY <1>g DEF Reached
  <2>2. (Reached(n) /\ stage[n] = Len(Stages))' <=>
        (Reached(n) /\ stage[n] = Len(Stages))
    <3>1. stage[n] < Len(Stages) => stage[n] # Len(Stages)
      BY <1>t
    <3> QED
      BY <3>1, <1>g, <1>s DEF Reached
  <2> QED
    BY <2>1, <2>2, <1>g, <1>s
<1>5. UNCHANGED Service!svars
  BY <1>3, <1>4, <1>s, <1>u, SameService
<1> QED
  BY <1>2, <1>5

\* A request is done: the service serves it, in order and after its answer.
LEMMA CompleteSimulates ==
  ASSUME FInv, SInv, Complete
  PROVE  SInv' /\ [Service!SNext]_Service!svars
<1>z. Sized
  BY SizedFacts DEF FInv
<1>c. InRun /\ cpu = "request" /\ request[running] = "computing"
  BY DEF Complete, InRequest, InRun, FInv, Idle
<1>p. PICK n \in Records : n = running
  BY <1>z DEF Sized
<1>u. UNCHANGED <<comp_status, wq, plan, run, iter, at, stage>>
  BY DEF Complete, program, qvars
<1>s. Stages' = Stages /\ Finished' = Finished /\ Runner' = Runner
  BY <1>u, SameRun DEF program
<1>g. /\ request[n] = "computing" /\ request'[n] = "finished"
      /\ \A r \in Records : r # n => request'[r] = request[r]
  BY <1>c, <1>p, <1>z DEF Complete, Become, Sized
<1>o. Good(n)
  BY <1>c DEF SInv
<1>1. SInv'
  <2>1. Good(n)'
    BY <1>o, <1>g, <1>s, <1>u DEF Good
  <2> QED
    BY <2>1, <1>g, <1>s, <1>u, <1>c, OneMoves
<1>2. Accelerated' = Accelerated
  BY <1>s DEF Accelerated
<1>3. Offloaded' = Offloaded
  <2>1. \A r \in Records : Reached(r)' <=> Reached(r)
    BY <1>g DEF Reached
  <2> QED
    BY <2>1, <1>2, <1>s, <1>u DEF Offloaded
<1>4. Answers' = Answers
  BY <1>3, <1>u DEF Answers
<1>5. Served' = Served \cup {n}
  BY <1>g DEF Served
<1>6. Cardinality(Served) = n
  <2>1. Served = 0 .. n - 1 /\ n \in Nat
    BY <1>c, <1>p, <1>z, ServedBefore DEF Sized
  <2> QED
    BY <2>1, CountBefore
<1>7. Accelerated => n \in Answers
  <2>1. Accelerated => Stages # <<>>
    BY <1>c, AcceleratedRun
  <2> QED
    BY <2>1, <1>o, <1>g DEF Good, Answers, Offloaded, Reached
<1>8. Service!Serve
  BY <1>2, <1>3, <1>4, <1>5, <1>6, <1>7, SameCount
     DEF Service!Serve, Answers, Served
<1> QED
  BY <1>1, <1>8 DEF Service!SNext

\* A harness sets up a run: no request has got anywhere.
LEMMA SetUpSimulates ==
  ASSUME FInv, SInv, SetUp
  PROVE  SInv' /\ UNCHANGED Service!svars
<1>c. /\ \A r \in Records : request[r] = "created"
      /\ UNCHANGED program
  BY DEF SetUp, FInv, Idle, InRun
<1>s. Stages' = Stages /\ Finished' = Finished /\ Runner' = Runner
  BY <1>c, SameRun
<1>1. \A r \in Records : request'[r] = "created"
  BY <1>c DEF SetUp
<1>2. SInv'
  BY <1>1 DEF SInv, Good
<1>3. Accelerated' = Accelerated
  BY <1>s DEF Accelerated
<1>4. \A r \in Records :
        /\ ~Reached(r) /\ ~Reached(r)'
        /\ request'[r] # "finished" /\ request[r] # "finished"
  BY <1>1, <1>c DEF Reached
<1>5. UNCHANGED Service!svars
  BY <1>3, <1>4, <1>s, SameService
<1> QED
  BY <1>2, <1>5

\* The service before and after a run.
LEMMA NewService ==
  ASSUME \A r \in Records : request'[r] = "created", Served \in {{}, Records}
  PROVE  Service!NewRun
<1>1. Offloaded' = {} /\ Answers' = {} /\ Served' = {}
  BY DEF Offloaded, Answers, Served, Reached
<1>2. Accelerated' \in BOOLEAN
  BY DEF Accelerated
<1> QED
  BY <1>1, <1>2 DEF Service!NewRun, Answers, Served

\* The harness frees what the run used, or populates what later ones use.
LEMMA BetweenSimulates ==
  ASSUME FInv, SInv, TearDown \/ Populate
  PROVE  SInv' /\ [Service!SNext]_Service!svars
<1>1. CASE TearDown
  <2>1. at' = "set up" /\ \A r \in Records : request'[r] = "created"
    BY <1>1 DEF TearDown
  <2>2. InRun /\ cpu = "executor" /\ at = "schedule" /\ Done
    BY <1>1 DEF TearDown, InRun
  <2>3. Served = Records
    BY <2>2, EndOfLoop DEF Served
  <2> QED
    BY <2>1, <2>3, NewService DEF SInv, InRun, Service!SNext
<1>2. CASE Populate
  <2>1. /\ at' = "set up" /\ request' = request
        /\ \A r \in Records : request[r] = "created"
    BY <1>2 DEF Populate, FInv, Idle, InRun
  <2>2. Served = {}
    BY <2>1 DEF Served
  <2> QED
    BY <2>1, <2>2, NewService DEF SInv, InRun, Service!SNext
<1> QED
  BY <1>1, <1>2

\* A device answers: the service's answer, if it is to the last stage.
LEMMA AnswerSimulates ==
  ASSUME FInv, SInv, NEW c \in Records, Answer(c)
  PROVE  SInv' /\ [Service!SNext]_Service!svars
<1>z. Sized
  BY SizedFacts DEF FInv
<1>u. UNCHANGED <<plan, run, iter, at, request, stage>>
  BY DEF Answer, program, hvars
<1>s. Stages' = Stages /\ Finished' = Finished /\ Runner' = Runner
  BY <1>u, SameRun DEF program
<1>g. PICK d \in Devices, s \in {COMPLETED, ERROR} :
        /\ c \in wq[d]
        /\ wq' = [wq EXCEPT ![d] = @ \ {c}]
        /\ comp_status' = [comp_status EXCEPT ![c] = s]
  BY DEF Answer, DeviceCompletes
<1>w. wq \in [Devices -> SUBSET Records]
  BY DEF FInv, TypeOK, QTypeOK
<1>q. request[c] \in {"waiting", "yielded"} /\ comp_status[c] = PENDING
  BY <1>g DEF FInv, Queues, Devices
<1>r. InRun
  BY <1>q DEF FInv, Idle
<1>e. /\ comp_status'[c] # PENDING
      /\ \A r \in Records : r # c => comp_status'[r] = comp_status[r]
  BY <1>g, <1>z DEF Sized, PENDING, COMPLETED, ERROR
<1>1. SInv'
  <2>1. ASSUME NEW r \in Records PROVE Good(r)'
    <3>1. Good(r)
      BY <1>r DEF SInv
    <3>2. CASE r = c
      BY <3>1, <3>2, <1>q, <1>e, <1>u, <1>s DEF Good
    <3>3. CASE r # c
      <4>1. \A e \in Devices : r \in wq[e] => r \in wq'[e]
        BY <3>3, <1>g, <1>w
      <4>2. Held(r) => Held(r)'
        BY <4>1, <1>u, <1>s DEF Held
      <4> QED
        BY <3>1, <3>3, <4>2, <1>e, <1>u, <1>s DEF Good
    <3> QED
      BY <3>2, <3>3
  <2> QED
    BY <2>1 DEF SInv
<1>2. Accelerated' = Accelerated
  BY <1>s DEF Accelerated
<1>3. Offloaded' = Offloaded /\ Served' = Served
  BY <1>2, <1>s, <1>u DEF Offloaded, Served, Reached
<1>4. CASE c \in Offloaded
  <2>1. Answers' = Answers \cup {c} /\ c \notin Answers
    BY <1>3, <1>4, <1>e, <1>q DEF Answers, Offloaded
  <2>2. Service!Answer
    BY <2>1, <1>2, <1>3, <1>4 DEF Service!Answer, Answers, Served
  <2> QED
    BY <2>2, <1>1 DEF Service!SNext
<1>5. CASE c \notin Offloaded
  <2>1. Answers' = Answers
    BY <1>3, <1>5, <1>e DEF Answers, Offloaded
  <2> QED
    BY <2>1, <1>1, <1>2, <1>3, NothingServed
<1> QED
  BY <1>4, <1>5

-----------------------------------------------------------------------------
(***************************************************************************)
(* The refinement.                                                         *)
(***************************************************************************)
\* Every step of a program is one of the service or leaves it alone.
LEMMA StepServes ==
  ASSUME FInv, SInv, [Next]_vars
  PROVE  SInv' /\ [Service!SNext]_Service!svars
<1>1. CASE UNCHANGED vars
  BY <1>1, AsideStep DEF vars, hvars, InRun
<1>2. CASE Resumed \/ EnterFiller \/ YieldFiller \/ SubmitFails \/ GiveUp
  <2>1. UNCHANGED <<qvars, program, request, stage>> /\ (InRun' => InRun)
    BY <1>2
       DEF Resumed, EnterFiller, YieldFiller, SubmitFails, GiveUp, Return,
           Awaiting, InRun
  <2> QED
    BY <2>1, AsideStep
<1>3. CASE Host
  BY <1>2, <1>3, SetUpSimulates, BetweenSimulates, EnterSteps,
     PrepareSimulates, SubmitSimulates, SpinOnSimulates, CheckSimulates,
     CompleteSimulates DEF Host
<1>4. CASE \E c \in Records : Answer(c)
  BY <1>4, AnswerSimulates
<1> QED
  BY <1>1, <1>3, <1>4 DEF Next, Stopped

\* Before the first run nothing has been offloaded or served.
LEMMA InitServes == Init => SInv /\ Service!SInit
<1> SUFFICES ASSUME Init PROVE SInv /\ Service!SInit
  OBVIOUS
<1>1. at = "set up" /\ \A r \in Records : request[r] = "created"
  BY DEF Init
<1>2. Offloaded = {} /\ Answers = {} /\ Served = {}
  BY <1>1 DEF Offloaded, Answers, Served, Reached
<1>3. Accelerated \in BOOLEAN
  BY DEF Accelerated
<1> QED
  BY <1>1, <1>2, <1>3 DEF SInv, InRun, Service!SInit, Answers, Served

\* The executors of request_executors.cpp keep the promise of RequestService,
\* for every plan that pairs executors and requests as the programs do:
\* requests are offloaded and served in order, each after its own answer and
\* within the capacity of the queue, though the devices answer in any order.
THEOREM ExecutorsServeInOrder == PlansFit => (Spec => ServesInOrder)
<1> SUFFICES ASSUME PlansFit PROVE Spec => ServesInOrder
  OBVIOUS
<1>1. Init => FInv /\ SInv /\ Service!SInit
  BY FInvInit, InitServes
<1>2. FInv /\ SInv /\ [Next]_vars =>
        FInv' /\ SInv' /\ [Service!SNext]_Service!svars
  BY FInvNext, StepServes
<1> QED
  BY <1>1, <1>2, PTL DEF Spec, ServesInOrder, Service!SSpec
=============================================================================
