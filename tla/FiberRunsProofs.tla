--------------------------- MODULE FiberRunsProofs ---------------------------
(***************************************************************************)
(* Theorems about FiberRuns, for every number of requests, every size of    *)
(* the work queues, devices that fail or do not, and every plan whose runs  *)
(* pair executors and requests the way the programs do (Fits).             *)
(***************************************************************************)
EXTENDS FiberRuns, HwPlansProofs, FiniteSetTheorems, TLAPS

(***************************************************************************)
(* The theorems assume that the plans pair executors and requests that fit *)
(* each other (Fitting, in HwPlansProofs), which the programs of the       *)
(* repository do.                                                          *)
(***************************************************************************)
PlansFit == \A p \in Plans : Fitting(p)

\* What a fitting plan is made of.
LEMMA FittingPlans ==
  PlansFit =>
    \A p \in Plans :
      /\ Len(p) \in Nat
      /\ \A k \in 1 .. Len(p) : p[k].kind = "populates" \/ Fits(p[k])
<1> SUFFICES ASSUME PlansFit, NEW p \in Plans
             PROVE  /\ Len(p) \in Nat
                    /\ \A k \in 1 .. Len(p) :
                         p[k].kind = "populates" \/ Fits(p[k])
  OBVIOUS
<1>1. Len(p) \in Nat
  <2>1. PICK S : p \in Seq(S)
    BY DEF PlansFit, Fitting
  <2> QED
    BY <2>1
<1> QED
  BY <1>1 DEF PlansFit, Fitting, FitsOrPopulates

\* The repository's programs fit, whatever their options.
THEOREM CodesPlansFit == Plans \subseteq Programs => PlansFit
BY ProgramsFit DEF PlansFit

-----------------------------------------------------------------------------
(***************************************************************************)
(* The inductive invariant.                                                *)
(***************************************************************************)
InRun == at # "set up"
Schedule == Executor.schedule

RunFits == InRun => ~Finished /\ Fits(Runner) /\ Harnessed.interval # 0

Idle == ~InRun => cpu = "executor" /\ \A r \in Records : request[r] = "created"

\* A descriptor is queued at most once, for a request that waits for it.
Queues ==
  /\ wq["dsa"] \cap wq["iaa"] = {}
  /\ \A c \in Records :
       c \in wq["dsa"] \cup wq["iaa"] =>
         comp_status[c] = PENDING /\ request[c] \in {"waiting", "yielded"}
  /\ \A c \in Records : request[c] = "submitting" => comp_status[c] = PENDING

\* An overlapping executor looks at the records of requests not started, too.
Fresh ==
  InRun /\ Schedule = "overlapping" =>
    \A r \in Records : r >= next_unstarted => comp_status[r] = PENDING

Staged ==
  InRun =>
    \A r \in Records :
      /\ request[r] = "created" => stage[r] = 1
      /\ request[r] \in {"preparing", "submitting", "waiting", "yielded",
                         "checking"} => stage[r] <= Len(Stages)

\* The requests before Low are finished, those from High on not started, the
\* ones between have yielded, but for the one that has the processor.
Low ==
  IF Schedule = "overlapping"
  THEN IF at = "resumed" /\ cpu = "executor" THEN next_to_complete + 1
                                             ELSE next_to_complete
  ELSE IF Schedule = "sequential"
  THEN IF cpu = "request" THEN next_unstarted - 1 ELSE next_unstarted
  ELSE requests_completed

High ==
  IF Schedule # "one in flight" THEN next_unstarted
  ELSE IF at = "await" \/ cpu = "request" THEN requests_completed + 1
  ELSE requests_completed

Entered == {"preparing", "submitting", "waiting", "checking", "computing"}

Shape ==
  InRun =>
    /\ Low \in 0 .. TotalRequests /\ High \in Low .. TotalRequests
    /\ \A r \in Records :
         /\ r < Low => request[r] = "finished"
         /\ r >= High => request[r] = "created"
         /\ Low <= r /\ r < High /\ ~(cpu = "request" /\ r = running) =>
              request[r] = "yielded"
    /\ cpu = "request" =>
         /\ Low <= running /\ running < High
         /\ request[running] \in Entered
    /\ Runner.request.counts => requests_completed = Low

\* Where the executor is when a request or a filler has the processor.
Submitting == request[running] \in {"preparing", "submitting"}
Finishing == request[running] \in {"checking", "computing"}

Position ==
  InRun =>
    \/ /\ Schedule = "overlapping"
       /\ at \in {"schedule", "resumed"} /\ cpu \in {"executor", "request"}
       /\ at = "schedule" /\ cpu = "request" =>
            running = High - 1 /\ Submitting
       /\ at = "resumed" /\ cpu = "request" => running = Low /\ Finishing
       /\ at = "resumed" => next_to_complete < next_unstarted
    \/ Schedule = "sequential" /\ at = "schedule" /\ cpu # "filler"
    \/ /\ Schedule = "one in flight" /\ at \in {"schedule", "await"}
       /\ at = "await" => running = requests_completed
       /\ at = "await" /\ cpu = "request" => Submitting
       /\ at = "schedule" => cpu # "filler"
       /\ at = "schedule" /\ cpu = "request" => Finishing

FillerState ==
  IF cpu = "filler" THEN "running"
  ELSE IF interleaved_started THEN "yielded" ELSE "created"

Fillers ==
  InRun /\ Schedule = "one in flight" =>
    /\ cpu = "filler" =>
         /\ Executor.fillers # "none"
         /\ p_sig = requests_completed /\ interleaved_started
    /\ Executor.fillers = "one" => filler[0] = FillerState
    /\ Executor.fillers = "each" =>
         /\ \A f \in Records : f > requests_completed => filler[f] = "created"
         /\ at = "schedule" /\ cpu = "executor"
              /\ requests_completed \in Records =>
              filler[requests_completed] = "created"
         /\ at = "await" => filler[requests_completed] = FillerState

Stamped ==
  InRun /\ Executor.stamps =>
    stamps = 1 + next_to_complete \div Harnessed.interval

Exits ==
  /\ exit \in {"no", "refused", "failed", "division by zero"}
  /\ exit = "division by zero" => TotalRequests < SamplesPerRun
  /\ exit = "refused" =>
       InRun /\ Schedule = "overlapping" /\ TotalRequests > WqSize

FInv ==
  /\ TypeOK /\ RunFits /\ Idle /\ Queues /\ Fresh /\ Staged /\ Shape
  /\ Position /\ Fillers /\ Stamped /\ Exits

-----------------------------------------------------------------------------
(***************************************************************************)
(* What follows from the definitions.                                      *)
(***************************************************************************)
\* What a run is made of stays the same until its executor returns.
LEMMA SameRun ==
  ASSUME UNCHANGED program
  PROVE  /\ Runner' = Runner /\ Harnessed' = Harnessed
         /\ Executor' = Executor /\ Stages' = Stages /\ Schedule' = Schedule
         /\ Finished' = Finished
BY DEF program, Runner, Harnessed, Executor, Stages, Schedule, Finished

\* The parts of Fits, of the run in progress.
RunShape ==
  /\ Harnessed.interval \in Nat \ {0}
  /\ Runner.slots \in Nat
  /\ Stages \in Seq(StageKinds) /\ Len(Stages) <= 2
  /\ Runner.request.counts => Harnessed.resets
  /\ Executor.done_when = "requests_completed" => Runner.request.counts
  /\ Executor.stamps => Schedule = "overlapping" /\ Runner.request.counts
  /\ Runner.request.yields => Len(Stages) = 1
  /\ \/ /\ Schedule = "overlapping" /\ Runner.request.yields
        /\ Harnessed.records
        /\ Executor.done_when \in {"requests_completed", "next_to_complete"}
     \/ /\ Schedule = "sequential" /\ ~Runner.request.yields
        /\ Executor.done_when \in {"requests_completed", "next_unstarted"}
     \/ /\ Schedule = "one in flight" /\ Runner.request.yields
        /\ Executor.done_when = "requests_completed"
        /\ Executor.fillers \in {"none", "one", "each"}

\* A run of a fitting plan has that shape, once its interval was divided by.
LEMMA ShapeOfFits == Fits(Runner) /\ Harnessed.interval # 0 => RunShape
BY DEF Fits, IntervalFits, RunShape, Stages, Executor, Harnessed, Schedule

\* When the executor's loop ends.
LEMMA DoneMeans ==
  ASSUME RunShape
  PROVE  /\ Executor.done_when = "requests_completed" =>
              (Done <=> requests_completed >= TotalRequests)
         /\ Executor.done_when = "next_to_complete" =>
              (Done <=> next_to_complete >= TotalRequests)
         /\ Executor.done_when = "next_unstarted" =>
              (Done <=> next_unstarted >= TotalRequests)
BY DEF Done, Counter

\* One request more completes an interval or does not.
LEMMA NextInterval ==
  ASSUME NEW n \in Nat, NEW k \in Nat \ {0}
  PROVE  (n + 1) \div k = IF (n + 1) % k = 0 THEN n \div k + 1 ELSE n \div k
<1> DEFINE q == n \div k
           r == n % k
<1>1. n = k * q + r /\ q \in Nat /\ r \in 0 .. k - 1
  OBVIOUS
<1>2. CASE r = k - 1
  <2>1. n + 1 = k * (q + 1) + 0
    BY <1>1, <1>2
  <2> QED
    BY <1>1, <2>1
<1>3. CASE r # k - 1
  <2>1. n + 1 = k * q + (r + 1) /\ r + 1 \in 1 .. k - 1
    BY <1>1, <1>3
  <2> QED
    BY <1>1, <2>1
<1> QED
  BY <1>2, <1>3

\* Every kind of stage clears its record and names a device.
LEMMA StageFacts ==
  \A s \in StageKinds :
    s.prepare.clears /\ s.submit.device \in Devices
BY DEF StageKinds, Decompress, Compress, Memcpy, Memfill, Stage, Devices,
       prepare_iaa_decompress_desc_with_preallocated_comp,
       prepare_iaa_compress_desc_and_aecs_with_preallocated_comp,
       prepare_dsa_memcpy_desc_with_preallocated_comp,
       prepare_dsa_memfill_desc_with_preallocated_comp,
       blocking_iaa_submit, blocking_dsa_submit, dsa_submit

\* The numbers and functions of the state.
Sized ==
  /\ TotalRequests \in Nat \ {0} /\ Records = 0 .. TotalRequests - 1
  /\ running \in Records
  /\ next_unstarted \in 0 .. TotalRequests
  /\ next_to_complete \in 0 .. TotalRequests
  /\ requests_completed \in 0 .. TotalRequests
  /\ DOMAIN request = Records /\ DOMAIN stage = Records
  /\ DOMAIN filler = Records /\ DOMAIN comp_status = Records
  /\ request \in [Records -> RequestStates]
  /\ filler \in [Records -> {"created", "running", "yielded"}]
  /\ comp_status \in [Records -> {PENDING, COMPLETED, ERROR}]

\* They follow from the types.
LEMMA SizedFacts == TypeOK => Sized
BY HwPlansAssumption DEF TypeOK, QTypeOK, Sized

\* A number up to a bound and not equal to it.
LEMMA Below ==
  \A t \in Nat : \A n \in 0 .. t : n # t => n < t /\ n \in 0 .. t - 1
OBVIOUS

\* How the numbers around the index of a request compare.
Around(n) ==
  /\ n \in Nat /\ n + 1 \in n .. TotalRequests /\ n + 1 \in 0 .. TotalRequests
  /\ n \in 0 .. TotalRequests
  /\ n <= n /\ n < n + 1 /\ n + 1 - 1 = n
  /\ \A r \in Records :
       /\ r < n + 1 <=> r < n \/ r = n
       /\ n <= r <=> r >= n + 1 \/ r = n
       /\ ~(n <= r /\ r < n)
       /\ r >= n + 1 => r >= n /\ r > n

\* It is so around every index of a record.
LEMMA AroundRecord == Sized => \A n \in Records : Around(n)
BY DEF Sized, Around

\* An executor's loop ends when no request is left before Low.
LEMMA DoneIsLow ==
  ASSUME Sized, Shape, RunShape, InRun, cpu = "executor", at = "schedule"
  PROVE  Done <=> Low = TotalRequests
<1>1. /\ Low \in 0 .. TotalRequests
      /\ Runner.request.counts => requests_completed = Low
  BY DEF Shape
<1>2. /\ next_unstarted \in 0 .. TotalRequests
      /\ next_to_complete \in 0 .. TotalRequests
      /\ requests_completed \in 0 .. TotalRequests
      /\ TotalRequests \in Nat
  BY DEF Sized
<1>3. CASE Executor.done_when = "requests_completed"
  <2>1. requests_completed = Low
    BY <1>1, <1>3 DEF RunShape
  <2> QED
    BY <2>1, <1>1, <1>2, <1>3, DoneMeans
<1>4. CASE Schedule = "overlapping" /\ Executor.done_when = "next_to_complete"
  <2>1. Low = next_to_complete
    BY <1>4 DEF Low
  <2> QED
    BY <2>1, <1>1, <1>2, <1>4, DoneMeans
<1>5. CASE Schedule = "sequential" /\ Executor.done_when = "next_unstarted"
  <2>1. Low = next_unstarted
    BY <1>5 DEF Low
  <2> QED
    BY <2>1, <1>1, <1>2, <1>5, DoneMeans
<1> QED
  BY <1>3, <1>4, <1>5 DEF RunShape

\* The oldest request in flight has its answer and is entered again.
LEMMA ResumeOldestStep ==
  ASSUME FInv, Up, ResumeOldest
  PROVE  FInv'
<1>i. /\ TypeOK /\ RunFits /\ Idle /\ Queues /\ Fresh /\ Staged /\ Shape
      /\ Position /\ Fillers /\ Stamped /\ Exits
  BY DEF FInv
<1>z. Sized
  BY <1>i, SizedFacts
<1>c. /\ InRun /\ cpu = "executor" /\ at = "schedule" /\ ~Done
      /\ Schedule = "overlapping"
      /\ Passes(Executor.test, next_to_complete)
  BY DEF ResumeOldest, AtSchedule, InRun, Schedule
<1>r. RunShape
  BY <1>i, <1>c, ShapeOfFits DEF RunFits
<1>h. /\ Low \in 0 .. TotalRequests /\ High \in Low .. TotalRequests
      /\ \A r \in Records :
           /\ r < Low => request[r] = "finished"
           /\ r >= High => request[r] = "created"
           /\ Low <= r /\ r < High /\ ~(cpu = "request" /\ r = running) =>
                request[r] = "yielded"
      /\ cpu = "request" =>
           /\ Low <= running /\ running < High
           /\ request[running] \in Entered
      /\ Runner.request.counts => requests_completed = Low
  BY <1>i, <1>c DEF Shape
<1>l. Low = next_to_complete /\ High = next_unstarted
  BY <1>c DEF Low, High
<1>d. next_to_complete < TotalRequests /\ next_to_complete \in Records
  <2>1. next_to_complete # TotalRequests
    BY <1>c, <1>r, <1>l, <1>i, <1>z, DoneIsLow
  <2>2. /\ next_to_complete \in 0 .. TotalRequests
        /\ TotalRequests \in Nat /\ Records = 0 .. TotalRequests - 1
    BY <1>z DEF Sized
  <2> QED
    BY <2>1, <2>2, Below
<1>e. comp_status[next_to_complete] # PENDING
  BY <1>c DEF Passes, PENDING, COMPLETED
<1>f. /\ InRun /\ cpu = "executor" /\ at = "schedule"
      /\ Schedule = "overlapping"
      /\ next_to_complete \in Records /\ next_to_complete < next_unstarted
      /\ Low = next_to_complete /\ High = next_unstarted
      /\ request[next_to_complete] = "yielded"
      /\ comp_status[next_to_complete] # PENDING
  BY <1>c, <1>l, <1>d, <1>e, <1>i, <1>h, <1>z DEF Fresh, Shape, Sized
<1>u. UNCHANGED <<wq, comp_status, plan, run, iter, stage, next_unstarted,
                  next_to_complete, requests_completed, filler,
                  interleaved_started, p_sig, stamps, stored, reported, live,
                  exit>>
  BY <1>f DEF ResumeOldest, AtSchedule, Resume, Enter, qvars, program,
              counters, fillers, results
<1>g. /\ at' = "resumed" /\ cpu' = "request" /\ running' = next_to_complete
      /\ request' = [request EXCEPT ![next_to_complete] = "checking"]
  BY <1>f, <1>i DEF ResumeOldest, AtSchedule, Resume, Enter
<1>s. /\ Runner' = Runner /\ Harnessed' = Harnessed /\ Executor' = Executor
      /\ Stages' = Stages /\ Schedule' = Schedule /\ Finished' = Finished
  BY <1>u, SameRun DEF program
<1>n. Low' = next_to_complete /\ High' = next_unstarted /\ InRun'
  BY <1>f, <1>g, <1>u, <1>s, <1>z DEF Low, High, InRun, Sized
<1>1. TypeOK'
  BY <1>i, <1>f, <1>u, <1>g, <1>s, <1>n, <1>z
     DEF TypeOK, QTypeOK, RequestStates, Sized
<1>2. RunFits' /\ Idle' /\ Stamped' /\ Exits'
  BY <1>i, <1>f, <1>u, <1>g, <1>s, <1>n, <1>z
     DEF RunFits, Idle, Stamped, Exits, Sized
<1>3. Queues'
  BY <1>i, <1>f, <1>u, <1>g, <1>s, <1>n, <1>z
     DEF Queues, Sized
<1>4. Fresh' /\ Staged'
  BY <1>i, <1>f, <1>u, <1>g, <1>s, <1>n, <1>z
     DEF Fresh, Staged, Sized
<1>5. Shape'
  BY <1>i, <1>f, <1>u, <1>g, <1>s, <1>n, <1>z
     DEF Shape, Entered, Sized
<1>6. Position'
  BY <1>i, <1>f, <1>u, <1>g, <1>s, <1>n, <1>z
     DEF Position, Submitting, Finishing, Sized
<1>7. Fillers'
  BY <1>i, <1>f, <1>u, <1>g, <1>s, <1>n, <1>z
     DEF Fillers, FillerState, Sized
<1> QED
  BY <1>1, <1>2, <1>3, <1>4, <1>5, <1>6, <1>7 DEF FInv

\* The overlapping executor counts the request it resumed.
LEMMA ResumedStep ==
  ASSUME FInv, Up, Resumed
  PROVE  FInv'
<1>i. /\ TypeOK /\ RunFits /\ Idle /\ Queues /\ Fresh /\ Staged /\ Shape
      /\ Position /\ Fillers /\ Stamped /\ Exits
  BY DEF FInv
<1>z. Sized
  BY <1>i, SizedFacts
<1>c. InRun /\ cpu = "executor" /\ at = "resumed"
  BY DEF Resumed, InRun
<1>r. RunShape
  BY <1>i, <1>c, ShapeOfFits DEF RunFits
<1>h. /\ Low \in 0 .. TotalRequests /\ High \in Low .. TotalRequests
      /\ \A r \in Records :
           /\ r < Low => request[r] = "finished"
           /\ r >= High => request[r] = "created"
           /\ Low <= r /\ r < High /\ ~(cpu = "request" /\ r = running) =>
                request[r] = "yielded"
      /\ cpu = "request" =>
           /\ Low <= running /\ running < High
           /\ request[running] \in Entered
      /\ Runner.request.counts => requests_completed = Low
  BY <1>i, <1>c DEF Shape
<1>f. /\ InRun /\ cpu = "executor" /\ at = "resumed"
      /\ Schedule = "overlapping"
      /\ next_to_complete < next_unstarted
      /\ Low = next_to_complete + 1 /\ High = next_unstarted
  BY <1>c, <1>i DEF Position, Low, High
<1>a. next_to_complete + 1 \in 0 .. TotalRequests
  <2>1. /\ next_to_complete \in 0 .. TotalRequests
        /\ next_unstarted \in 0 .. TotalRequests /\ TotalRequests \in Nat
    BY <1>z DEF Sized
  <2> QED
    BY <2>1, <1>f
<1>t. Executor.stamps =>
        /\ requests_completed = next_to_complete + 1
        /\ Harnessed.interval \in Nat \ {0}
        /\ StampDue <=> (next_to_complete + 1) % Harnessed.interval = 0
  <2>1. SUFFICES ASSUME Executor.stamps
                 PROVE  /\ requests_completed = next_to_complete + 1
                        /\ Harnessed.interval \in Nat \ {0}
                        /\ StampDue <=>
                             (next_to_complete + 1) % Harnessed.interval = 0
    OBVIOUS
  <2>2. Harnessed.interval \in Nat \ {0} /\ Runner.request.counts
    BY <1>r, <2>1 DEF RunShape
  <2>3. requests_completed = next_to_complete + 1 /\ next_to_complete \in Nat
    BY <2>2, <1>h, <1>f, <1>z DEF Sized
  <2> QED
    BY <2>1, <2>2, <2>3 DEF StampDue
<1>v. Executor.stamps =>
        (next_to_complete + 1) \div Harnessed.interval =
          IF (next_to_complete + 1) % Harnessed.interval = 0
          THEN next_to_complete \div Harnessed.interval + 1
          ELSE next_to_complete \div Harnessed.interval
  <2>1. next_to_complete \in Nat
    BY <1>z DEF Sized
  <2> QED
    BY <2>1, <1>t, NextInterval
<1>u. UNCHANGED <<wq, comp_status, plan, run, iter, cpu, running, request,
                  stage, next_unstarted, requests_completed, filler,
                  interleaved_started, p_sig, stored, reported, live, exit>>
  BY <1>f DEF Resumed, qvars, program, counters, fillers, results
<1>g. /\ at' = "schedule" /\ next_to_complete' = next_to_complete + 1
      /\ stamps' = IF StampDue THEN stamps + 1 ELSE stamps
  BY <1>f, <1>i DEF Resumed
<1>s. /\ Runner' = Runner /\ Harnessed' = Harnessed /\ Executor' = Executor
      /\ Stages' = Stages /\ Schedule' = Schedule /\ Finished' = Finished
  BY <1>u, SameRun DEF program
<1>n. Low' = next_to_complete + 1 /\ High' = next_unstarted /\ InRun'
  BY <1>f, <1>g, <1>u, <1>s, <1>z DEF Low, High, InRun, Sized
<1>1. TypeOK'
  <2>1. stamps' \in Nat
    <3>1. stamps \in Nat
      BY <1>i DEF TypeOK
    <3>2. stamps' = stamps \/ stamps' = stamps + 1
      BY <1>g
    <3> QED
      BY <3>1, <3>2
  <2>2. next_to_complete' \in 0 .. TotalRequests
    BY <1>a, <1>g
  <2>3. at' \in {"set up", "schedule", "resumed", "await"}
    BY <1>g
  <2> QED
    BY <1>i, <1>u, <2>1, <2>2, <2>3 DEF TypeOK, QTypeOK
<1>2. RunFits' /\ Idle' /\ Exits'
  BY <1>i, <1>f, <1>u, <1>g, <1>s, <1>n, <1>z
     DEF RunFits, Idle, Exits, Sized
<1>3. Queues'
  BY <1>i, <1>f, <1>u, <1>g, <1>s, <1>n, <1>z
     DEF Queues, Sized
<1>4. Fresh' /\ Staged'
  BY <1>i, <1>f, <1>u, <1>g, <1>s, <1>n, <1>z
     DEF Fresh, Staged, Sized
<1>5. Shape'
  BY <1>i, <1>f, <1>u, <1>g, <1>s, <1>n, <1>z
     DEF Shape, Entered, Sized
<1>6. Position'
  BY <1>i, <1>f, <1>u, <1>g, <1>s, <1>n, <1>z
     DEF Position, Submitting, Finishing, Sized
<1>7. Fillers'
  BY <1>i, <1>f, <1>u, <1>g, <1>s, <1>n, <1>z
     DEF Fillers, FillerState, Sized
<1>8. Stamped'
  <2>1. Executor.stamps => next_to_complete \div Harnessed.interval \in Nat
    <3>1. next_to_complete \in Nat
      BY <1>z DEF Sized
    <3>2. \A n \in Nat : \A k \in Nat \ {0} : n \div k \in Nat
      OBVIOUS
    <3> QED
      BY <1>t, <3>1, <3>2
  <2> QED
    BY <1>t, <1>v, <2>1, <1>f, <1>i, <1>g, <1>s, <1>u, <1>n DEF Stamped, Sized
<1> QED
  BY <1>1, <1>2, <1>3, <1>4, <1>5, <1>6, <1>7, <1>8 DEF FInv

\* The overlapping executor starts one more request.
LEMMA StartAnotherStep ==
  ASSUME FInv, Up, StartAnother
  PROVE  FInv'
<1>i. /\ TypeOK /\ RunFits /\ Idle /\ Queues /\ Fresh /\ Staged /\ Shape
      /\ Position /\ Fillers /\ Stamped /\ Exits
  BY DEF FInv
<1>z. Sized
  BY <1>i, SizedFacts
<1>c. /\ InRun /\ cpu = "executor" /\ at = "schedule"
      /\ Schedule = "overlapping" /\ next_unstarted < TotalRequests
  BY DEF StartAnother, AtSchedule, InRun, Schedule
<1>r. RunShape
  BY <1>i, <1>c, ShapeOfFits DEF RunFits
<1>h. /\ Low \in 0 .. TotalRequests /\ High \in Low .. TotalRequests
      /\ \A r \in Records :
           /\ r < Low => request[r] = "finished"
           /\ r >= High => request[r] = "created"
           /\ Low <= r /\ r < High /\ ~(cpu = "request" /\ r = running) =>
                request[r] = "yielded"
      /\ cpu = "request" =>
           /\ Low <= running /\ running < High
           /\ request[running] \in Entered
      /\ Runner.request.counts => requests_completed = Low
  BY <1>i, <1>c DEF Shape
<1>e. Stages # <<>> /\ 1 <= Len(Stages)
  <2>1. Len(Stages) = 1
    BY <1>r, <1>c DEF RunShape
  <2> QED
    BY <2>1
<1>l. Low = next_to_complete /\ High = next_unstarted
  BY <1>c DEF Low, High
<1>d. next_unstarted \in Records
  BY <1>c, <1>z DEF Sized
<1>a. Around(next_unstarted)
  BY <1>d, <1>z, AroundRecord
<1>f. /\ InRun /\ cpu = "executor" /\ at = "schedule"
      /\ Schedule = "overlapping" /\ Stages # <<>> /\ 1 <= Len(Stages)
      /\ next_unstarted \in Records /\ next_to_complete <= next_unstarted
      /\ Low = next_to_complete /\ High = next_unstarted
      /\ request[next_unstarted] = "created"
  BY <1>c, <1>l, <1>e, <1>h, <1>z DEF Shape, Sized
<1>u. UNCHANGED <<wq, comp_status, plan, run, iter, at, stage,
                  next_to_complete, requests_completed, filler,
                  interleaved_started, p_sig, stamps, stored, reported, live,
                  exit>>
  BY <1>f DEF StartAnother, Start, Enter, qvars, program, counters, fillers,
              results
<1>g. /\ cpu' = "request" /\ running' = next_unstarted
      /\ request' = [request EXCEPT ![next_unstarted] = "preparing"]
      /\ next_unstarted' = next_unstarted + 1
  BY <1>f, <1>i DEF StartAnother, Start, Enter
<1>s. /\ Runner' = Runner /\ Harnessed' = Harnessed /\ Executor' = Executor
      /\ Stages' = Stages /\ Schedule' = Schedule /\ Finished' = Finished
  BY <1>u, SameRun DEF program
<1>n. Low' = next_to_complete /\ High' = next_unstarted + 1 /\ InRun'
  BY <1>f, <1>g, <1>u, <1>s, <1>z DEF Low, High, InRun, Sized
<1>1. TypeOK'
  BY <1>i, <1>a, <1>f, <1>u, <1>g, <1>s, <1>n, <1>z
     DEF TypeOK, QTypeOK, RequestStates, Sized, Around
<1>2. RunFits' /\ Idle' /\ Stamped' /\ Exits'
  BY <1>i, <1>f, <1>u, <1>g, <1>s, <1>n, <1>z
     DEF RunFits, Idle, Stamped, Exits, Sized
<1>3. Queues'
  BY <1>i, <1>f, <1>u, <1>g, <1>s, <1>n, <1>z
     DEF Queues, Sized
<1>4. Fresh' /\ Staged'
  BY <1>i, <1>f, <1>u, <1>g, <1>s, <1>n, <1>z
     DEF Fresh, Staged, Sized
<1>5. Shape'
  BY <1>i, <1>f, <1>u, <1>g, <1>s, <1>n, <1>z
     DEF Shape, Entered, Sized
<1>6. Position'
  BY <1>i, <1>f, <1>u, <1>g, <1>s, <1>n, <1>z
     DEF Position, Submitting, Finishing, Sized
<1>7. Fillers'
  BY <1>i, <1>f, <1>u, <1>g, <1>s, <1>n, <1>z
     DEF Fillers, FillerState, Sized
<1> QED
  BY <1>1, <1>2, <1>3, <1>4, <1>5, <1>6, <1>7 DEF FInv

\* The sequential executor starts its next request.
LEMMA StartNextStep ==
  ASSUME FInv, Up, StartNext
  PROVE  FInv'
<1>i. /\ TypeOK /\ RunFits /\ Idle /\ Queues /\ Fresh /\ Staged /\ Shape
      /\ Position /\ Fillers /\ Stamped /\ Exits
  BY DEF FInv
<1>z. Sized
  BY <1>i, SizedFacts
<1>c. /\ InRun /\ cpu = "executor" /\ at = "schedule" /\ ~Done
      /\ Schedule = "sequential"
  BY DEF StartNext, AtSchedule, InRun, Schedule
<1>r. RunShape
  BY <1>i, <1>c, ShapeOfFits DEF RunFits
<1>h. /\ Low \in 0 .. TotalRequests /\ High \in Low .. TotalRequests
      /\ \A r \in Records :
           /\ r < Low => request[r] = "finished"
           /\ r >= High => request[r] = "created"
           /\ Low <= r /\ r < High /\ ~(cpu = "request" /\ r = running) =>
                request[r] = "yielded"
      /\ cpu = "request" =>
           /\ Low <= running /\ running < High
           /\ request[running] \in Entered
      /\ Runner.request.counts => requests_completed = Low
  BY <1>i, <1>c DEF Shape
<1>e. Stages # <<>> => 1 <= Len(Stages)
  <2>1. Stages \in Seq(StageKinds)
    BY <1>r DEF RunShape
  <2> QED
    BY <2>1
<1>l. Low = next_unstarted /\ High = next_unstarted
  BY <1>c DEF Low, High
<1>d. next_unstarted < TotalRequests /\ next_unstarted \in Records
  <2>1. next_unstarted # TotalRequests
    BY <1>c, <1>r, <1>l, <1>i, <1>z, DoneIsLow
  <2>2. /\ next_unstarted \in 0 .. TotalRequests
        /\ TotalRequests \in Nat /\ Records = 0 .. TotalRequests - 1
    BY <1>z DEF Sized
  <2> QED
    BY <2>1, <2>2, Below
<1>a. Around(next_unstarted)
  BY <1>d, <1>z, AroundRecord
<1>f. /\ InRun /\ cpu = "executor" /\ at = "schedule"
      /\ Schedule = "sequential" /\ (Stages # <<>> => 1 <= Len(Stages))
      /\ next_unstarted \in Records
      /\ Low = next_unstarted /\ High = next_unstarted
      /\ request[next_unstarted] = "created"
  BY <1>c, <1>l, <1>d, <1>e, <1>h, <1>z DEF Sized
<1>u. UNCHANGED <<wq, comp_status, plan, run, iter, at, stage,
                  next_to_complete, requests_completed, filler,
                  interleaved_started, p_sig, stamps, stored, reported, live,
                  exit>>
  BY <1>f DEF StartNext, Start, Enter, qvars, program, counters, fillers,
              results
<1>g. /\ cpu' = "request" /\ running' = next_unstarted
      /\ \E s \in {"computing", "preparing"} :
           /\ request' = [request EXCEPT ![next_unstarted] = s]
           /\ s = "preparing" => 1 <= Len(Stages)
      /\ next_unstarted' = next_unstarted + 1
  BY <1>f, <1>i DEF StartNext, Start, Enter
<1>s. /\ Runner' = Runner /\ Harnessed' = Harnessed /\ Executor' = Executor
      /\ Stages' = Stages /\ Schedule' = Schedule /\ Finished' = Finished
  BY <1>u, SameRun DEF program
<1>q. cpu' = "request"
  BY <1>g
<1>n. Low' = next_unstarted /\ High' = next_unstarted + 1 /\ InRun'
  <2>1. Low' = next_unstarted' - 1 /\ High' = next_unstarted' /\ InRun'
    BY <1>f, <1>q, <1>u, <1>s DEF Low, High, InRun
  <2>2. next_unstarted' - 1 = next_unstarted
    BY <1>g, <1>a DEF Around
  <2> QED
    BY <1>g, <2>1, <2>2
<1>1. TypeOK'
  BY <1>i, <1>a, <1>f, <1>u, <1>g, <1>s, <1>n, <1>z, ZenonT(60)
     DEF TypeOK, QTypeOK, RequestStates, Sized, Around
<1>2. RunFits' /\ Idle' /\ Stamped' /\ Exits'
  BY <1>i, <1>f, <1>u, <1>g, <1>s, <1>n, <1>z
     DEF RunFits, Idle, Stamped, Exits, Sized
<1>3. Queues'
  BY <1>i, <1>f, <1>u, <1>g, <1>s, <1>n, <1>z
     DEF Queues, Sized
<1>4. Fresh' /\ Staged'
  BY <1>i, <1>f, <1>u, <1>g, <1>s, <1>n, <1>z
     DEF Fresh, Staged, Sized
<1>5. Shape'
  BY <1>i, <1>f, <1>u, <1>g, <1>s, <1>n, <1>z
     DEF Shape, Entered, Sized
<1>6. Position'
  BY <1>f, <1>u, <1>q, <1>s DEF Position
<1>7. Fillers'
  BY <1>i, <1>f, <1>u, <1>g, <1>s, <1>n, <1>z
     DEF Fillers, FillerState, Sized
<1> QED
  BY <1>1, <1>2, <1>3, <1>4, <1>5, <1>6, <1>7 DEF FInv

\* An executor with one request in flight starts it.
LEMMA StartOneStep ==
  ASSUME FInv, Up, StartOne
  PROVE  FInv'
<1>i. /\ TypeOK /\ RunFits /\ Idle /\ Queues /\ Fresh /\ Staged /\ Shape
      /\ Position /\ Fillers /\ Stamped /\ Exits
  BY DEF FInv
<1>z. Sized
  BY <1>i, SizedFacts
<1>c. /\ InRun /\ cpu = "executor" /\ at = "schedule" /\ ~Done
      /\ Schedule = "one in flight"
  BY DEF StartOne, AtSchedule, InRun, Schedule
<1>r. RunShape
  BY <1>i, <1>c, ShapeOfFits DEF RunFits
<1>h. /\ Low \in 0 .. TotalRequests /\ High \in Low .. TotalRequests
      /\ \A r \in Records :
           /\ r < Low => request[r] = "finished"
           /\ r >= High => request[r] = "created"
           /\ Low <= r /\ r < High /\ ~(cpu = "request" /\ r = running) =>
                request[r] = "yielded"
      /\ cpu = "request" =>
           /\ Low <= running /\ running < High
           /\ request[running] \in Entered
      /\ Runner.request.counts => requests_completed = Low
  BY <1>i, <1>c DEF Shape
<1>e. Stages # <<>> /\ 1 <= Len(Stages)
  <2>1. Len(Stages) = 1
    BY <1>r, <1>c DEF RunShape
  <2> QED
    BY <2>1
<1>l. Low = requests_completed /\ High = requests_completed
  BY <1>c DEF Low, High
<1>d. requests_completed < TotalRequests /\ requests_completed \in Records
  <2>1. requests_completed # TotalRequests
    BY <1>c, <1>r, <1>l, <1>i, <1>z, DoneIsLow
  <2>2. /\ requests_completed \in 0 .. TotalRequests
        /\ TotalRequests \in Nat /\ Records = 0 .. TotalRequests - 1
    BY <1>z DEF Sized
  <2> QED
    BY <2>1, <2>2, Below
<1>a. Around(requests_completed)
  BY <1>d, <1>z, AroundRecord
<1>f. /\ InRun /\ cpu = "executor" /\ at = "schedule"
      /\ Schedule = "one in flight" /\ Stages # <<>> /\ 1 <= Len(Stages)
      /\ requests_completed \in Records
      /\ Low = requests_completed /\ High = requests_completed
      /\ request[requests_completed] = "created"
  <2>1. request[requests_completed] = "created"
    BY <1>l, <1>d, <1>h, <1>a DEF Around
  <2> QED
    BY <2>1, <1>c, <1>l, <1>d, <1>e
<1>u. UNCHANGED <<wq, comp_status, plan, run, iter, stage, next_unstarted,
                  next_to_complete, requests_completed, filler, p_sig, stamps,
                  stored, reported, live, exit>>
  BY <1>f DEF StartOne, Start, Enter, qvars, program, counters, fillers,
              results
<1>g. /\ at' = "await" /\ cpu' = "request" /\ running' = requests_completed
      /\ request' = [request EXCEPT ![requests_completed] = "preparing"]
      /\ interleaved_started' =
           (Executor.fillers = "one" /\ interleaved_started)
  BY <1>f, <1>i DEF StartOne, Start, Enter
<1>s. /\ Runner' = Runner /\ Harnessed' = Harnessed /\ Executor' = Executor
      /\ Stages' = Stages /\ Schedule' = Schedule /\ Finished' = Finished
  BY <1>u, SameRun DEF program
<1>n. Low' = requests_completed /\ High' = requests_completed + 1 /\ InRun'
  BY <1>f, <1>g, <1>u, <1>s, <1>z DEF Low, High, InRun, Sized
<1>1. TypeOK'
  BY <1>i, <1>f, <1>u, <1>g, <1>s, <1>n, <1>z
     DEF TypeOK, QTypeOK, RequestStates, Sized
<1>2. RunFits' /\ Idle' /\ Stamped' /\ Exits'
  BY <1>i, <1>f, <1>u, <1>g, <1>s, <1>n, <1>z
     DEF RunFits, Idle, Stamped, Exits, Sized
<1>3. Queues'
  BY <1>i, <1>f, <1>u, <1>g, <1>s, <1>n, <1>z
     DEF Queues, Sized
<1>4. Fresh' /\ Staged'
  BY <1>i, <1>f, <1>u, <1>g, <1>s, <1>n, <1>z
     DEF Fresh, Staged, Sized
<1>5. Shape'
  BY <1>i, <1>a, <1>f, <1>u, <1>g, <1>s, <1>n, <1>z
     DEF Shape, Entered, Sized, Around
<1>6. Position'
  BY <1>i, <1>f, <1>u, <1>g, <1>s, <1>n, <1>z
     DEF Position, Submitting, Finishing, Sized
<1>7. Fillers'
  BY <1>i, <1>f, <1>u, <1>g, <1>s, <1>n, <1>z
     DEF Fillers, FillerState, Sized
<1> QED
  BY <1>1, <1>2, <1>3, <1>4, <1>5, <1>6, <1>7 DEF FInv

\* The executor enters a filler while its request waits.
LEMMA EnterFillerStep ==
  ASSUME FInv, Up, EnterFiller
  PROVE  FInv'
<1>i. /\ TypeOK /\ RunFits /\ Idle /\ Queues /\ Fresh /\ Staged /\ Shape
      /\ Position /\ Fillers /\ Stamped /\ Exits
  BY DEF FInv
<1>z. Sized
  BY <1>i, SizedFacts
<1>c. InRun /\ cpu = "executor" /\ at = "await" /\ Executor.fillers # "none"
  BY DEF EnterFiller, Awaiting, InRun
<1>r. RunShape
  BY <1>i, <1>c, ShapeOfFits DEF RunFits
<1>h. /\ Low \in 0 .. TotalRequests /\ High \in Low .. TotalRequests
      /\ \A r \in Records :
           /\ r < Low => request[r] = "finished"
           /\ r >= High => request[r] = "created"
           /\ Low <= r /\ r < High /\ ~(cpu = "request" /\ r = running) =>
                request[r] = "yielded"
      /\ cpu = "request" =>
           /\ Low <= running /\ running < High
           /\ request[running] \in Entered
      /\ Runner.request.counts => requests_completed = Low
  BY <1>i, <1>c DEF Shape
<1>l. /\ Schedule = "one in flight" /\ running = requests_completed
      /\ Low = requests_completed /\ High = requests_completed + 1
  BY <1>c, <1>i DEF Position, Low, High
<1>d. requests_completed \in Records /\ TheFiller \in Records
  <2>1. running \in Records /\ 0 \in Records
    BY <1>z DEF Sized
  <2> QED
    BY <2>1, <1>l DEF TheFiller
<1>a. Around(requests_completed)
  BY <1>d, <1>z, AroundRecord
<1>e. /\ Executor.fillers \in {"one", "each"}
      /\ TheFiller = IF Executor.fillers = "each" THEN requests_completed ELSE 0
  BY <1>c, <1>l, <1>r DEF RunShape, TheFiller
<1>y. request[running] = "yielded"
  <2>1. Low <= running /\ running < High
    BY <1>l, <1>a DEF Around
  <2> QED
    BY <1>c, <1>l, <1>d, <1>h, <2>1
<1>w. filler[TheFiller] = IF interleaved_started THEN "yielded" ELSE "created"
  BY <1>c, <1>l, <1>e, <1>i DEF Fillers, FillerState
<1>f. /\ InRun /\ cpu = "executor" /\ at = "await"
      /\ Schedule = "one in flight" /\ running = requests_completed
      /\ Low = requests_completed /\ High = requests_completed + 1
      /\ requests_completed \in Records /\ TheFiller \in Records
      /\ Executor.fillers \in {"one", "each"}
      /\ TheFiller = IF Executor.fillers = "each" THEN requests_completed ELSE 0
      /\ filler[TheFiller] =
            IF interleaved_started THEN "yielded" ELSE "created"
      /\ request[running] = "yielded"
  BY <1>c, <1>l, <1>d, <1>e, <1>y, <1>w
<1>u. UNCHANGED <<wq, comp_status, plan, run, iter, at, running, request,
                  stage, next_unstarted, next_to_complete, requests_completed,
                  stamps, stored, reported, live, exit>>
  BY <1>f DEF EnterFiller, Awaiting, Signal, qvars, program, counters,
              fillers, results
<1>g. /\ cpu' = "filler" /\ interleaved_started' = TRUE
      /\ filler' = [filler EXCEPT ![TheFiller] = "running"]
      /\ p_sig' = requests_completed
  BY <1>f, <1>i DEF EnterFiller, Awaiting, Signal
<1>s. /\ Runner' = Runner /\ Harnessed' = Harnessed /\ Executor' = Executor
      /\ Stages' = Stages /\ Schedule' = Schedule /\ Finished' = Finished
  BY <1>u, SameRun DEF program
<1>n. Low' = requests_completed /\ High' = requests_completed + 1 /\ InRun'
  BY <1>f, <1>g, <1>u, <1>s, <1>z DEF Low, High, InRun, Sized
<1>1. TypeOK'
  BY <1>i, <1>f, <1>u, <1>g, <1>s, <1>n, <1>z
     DEF TypeOK, QTypeOK, RequestStates, Sized
<1>2. RunFits' /\ Idle' /\ Stamped' /\ Exits'
  BY <1>i, <1>f, <1>u, <1>g, <1>s, <1>n, <1>z
     DEF RunFits, Idle, Stamped, Exits, Sized
<1>3. Queues'
  BY <1>i, <1>f, <1>u, <1>g, <1>s, <1>n, <1>z
     DEF Queues, Sized
<1>4. Fresh' /\ Staged'
  BY <1>i, <1>f, <1>u, <1>g, <1>s, <1>n, <1>z
     DEF Fresh, Staged, Sized
<1>5. Shape'
  BY <1>i, <1>a, <1>f, <1>u, <1>g, <1>s, <1>n, <1>z
     DEF Shape, Entered, Sized, Around
<1>6. Position'
  BY <1>i, <1>f, <1>u, <1>g, <1>s, <1>n, <1>z
     DEF Position, Submitting, Finishing, Sized
<1>7. Fillers'
  <2>1. filler' = [filler EXCEPT ![TheFiller] = FillerState']
    BY <1>g DEF FillerState
  <2>2. DOMAIN filler = Records
    BY <1>z DEF Sized
  <2>3. Executor.fillers = "one" => filler'[0] = FillerState'
    BY <1>f, <2>1, <2>2
  <2>4. Executor.fillers = "each" =>
          /\ \A f \in Records : f > requests_completed => filler'[f] = "created"
          /\ filler'[requests_completed] = FillerState'
    <3>1. \A f \in Records : f > requests_completed => f # requests_completed
      BY <1>a DEF Around
    <3> QED
      BY <3>1, <1>f, <1>i, <2>1, <2>2 DEF Fillers
  <2> QED
    BY <1>f, <1>g, <1>u, <1>s, <1>n, <2>3, <2>4 DEF Fillers
<1> QED
  BY <1>1, <1>2, <1>3, <1>4, <1>5, <1>6, <1>7 DEF FInv

\* The filler has seen its signal.
LEMMA YieldFillerStep ==
  ASSUME FInv, Up, YieldFiller
  PROVE  FInv'
<1>i. /\ TypeOK /\ RunFits /\ Idle /\ Queues /\ Fresh /\ Staged /\ Shape
      /\ Position /\ Fillers /\ Stamped /\ Exits
  BY DEF FInv
<1>z. Sized
  BY <1>i, SizedFacts
<1>c. InRun /\ cpu = "filler"
  BY <1>i DEF YieldFiller, InRun, Idle
<1>r. RunShape
  BY <1>i, <1>c, ShapeOfFits DEF RunFits
<1>h. /\ Low \in 0 .. TotalRequests /\ High \in Low .. TotalRequests
      /\ \A r \in Records :
           /\ r < Low => request[r] = "finished"
           /\ r >= High => request[r] = "created"
           /\ Low <= r /\ r < High /\ ~(cpu = "request" /\ r = running) =>
                request[r] = "yielded"
      /\ cpu = "request" =>
           /\ Low <= running /\ running < High
           /\ request[running] \in Entered
      /\ Runner.request.counts => requests_completed = Low
  BY <1>i, <1>c DEF Shape
<1>l. /\ Schedule = "one in flight" /\ running = requests_completed
      /\ at = "await"
  BY <1>c, <1>i, <1>r DEF Position
<1>d. requests_completed \in Records /\ TheFiller \in Records
  <2>1. running \in Records /\ 0 \in Records
    BY <1>z DEF Sized
  <2> QED
    BY <2>1, <1>l DEF TheFiller
<1>a. Around(requests_completed)
  BY <1>d, <1>z, AroundRecord
<1>e. /\ Executor.fillers \in {"one", "each"} /\ interleaved_started
      /\ TheFiller = IF Executor.fillers = "each" THEN requests_completed ELSE 0
  BY <1>c, <1>l, <1>r, <1>i DEF RunShape, TheFiller, Fillers
<1>f. /\ InRun /\ cpu = "filler" /\ at = "await"
      /\ Schedule = "one in flight" /\ running = requests_completed
      /\ Low = requests_completed /\ High = requests_completed + 1
      /\ requests_completed \in Records /\ TheFiller \in Records
      /\ Executor.fillers \in {"one", "each"} /\ interleaved_started
      /\ TheFiller = IF Executor.fillers = "each" THEN requests_completed ELSE 0
  BY <1>c, <1>l, <1>d, <1>e DEF Low, High
<1>u. UNCHANGED <<wq, comp_status, plan, run, iter, at, running, request,
                  stage, next_unstarted, next_to_complete, requests_completed,
                  interleaved_started, p_sig, stamps, stored, reported, live,
                  exit>>
  BY <1>f DEF YieldFiller, qvars, program, counters, fillers, results
<1>g. /\ cpu' = "executor"
      /\ filler' = [filler EXCEPT ![TheFiller] = "yielded"]
  BY <1>f, <1>i DEF YieldFiller
<1>s. /\ Runner' = Runner /\ Harnessed' = Harnessed /\ Executor' = Executor
      /\ Stages' = Stages /\ Schedule' = Schedule /\ Finished' = Finished
  BY <1>u, SameRun DEF program
<1>n. Low' = requests_completed /\ High' = requests_completed + 1 /\ InRun'
  BY <1>f, <1>g, <1>u, <1>s, <1>z DEF Low, High, InRun, Sized
<1>1. TypeOK'
  BY <1>i, <1>f, <1>u, <1>g, <1>s, <1>n, <1>z
     DEF TypeOK, QTypeOK, RequestStates, Sized
<1>2. RunFits' /\ Idle' /\ Stamped' /\ Exits'
  BY <1>i, <1>f, <1>u, <1>g, <1>s, <1>n, <1>z
     DEF RunFits, Idle, Stamped, Exits, Sized
<1>3. Queues'
  BY <1>i, <1>f, <1>u, <1>g, <1>s, <1>n, <1>z
     DEF Queues, Sized
<1>4. Fresh' /\ Staged'
  BY <1>i, <1>f, <1>u, <1>g, <1>s, <1>n, <1>z
     DEF Fresh, Staged, Sized
<1>5. Shape'
  BY <1>i, <1>a, <1>f, <1>u, <1>g, <1>s, <1>n, <1>z
     DEF Shape, Entered, Sized, Around
<1>6. Position'
  BY <1>i, <1>f, <1>u, <1>g, <1>s, <1>n, <1>z
     DEF Position, Submitting, Finishing, Sized
<1>7. Fillers'
  BY <1>i, <1>f, <1>u, <1>g, <1>s, <1>n, <1>z
     DEF Fillers, FillerState, Sized
<1> QED
  BY <1>1, <1>2, <1>3, <1>4, <1>5, <1>6, <1>7 DEF FInv

\* The one request in flight is entered again.
LEMMA ResumeOneStep ==
  ASSUME FInv, Up, ResumeOne
  PROVE  FInv'
<1>i. /\ TypeOK /\ RunFits /\ Idle /\ Queues /\ Fresh /\ Staged /\ Shape
      /\ Position /\ Fillers /\ Stamped /\ Exits
  BY DEF FInv
<1>z. Sized
  BY <1>i, SizedFacts
<1>c. InRun /\ cpu = "executor" /\ at = "await"
  BY DEF ResumeOne, Awaiting, InRun
<1>r. RunShape
  BY <1>i, <1>c, ShapeOfFits DEF RunFits
<1>h. /\ Low \in 0 .. TotalRequests /\ High \in Low .. TotalRequests
      /\ \A r \in Records :
           /\ r < Low => request[r] = "finished"
           /\ r >= High => request[r] = "created"
           /\ Low <= r /\ r < High /\ ~(cpu = "request" /\ r = running) =>
                request[r] = "yielded"
      /\ cpu = "request" =>
           /\ Low <= running /\ running < High
           /\ request[running] \in Entered
      /\ Runner.request.counts => requests_completed = Low
  BY <1>i, <1>c DEF Shape
<1>l. /\ Schedule = "one in flight" /\ running = requests_completed
      /\ Low = requests_completed /\ High = requests_completed + 1
  BY <1>c, <1>i DEF Position, Low, High
<1>d. requests_completed \in Records
  <2>1. running \in Records
    BY <1>z DEF Sized
  <2> QED
    BY <2>1, <1>l
<1>a. Around(requests_completed)
  BY <1>d, <1>z, AroundRecord
<1>e. comp_status[requests_completed] # PENDING
  BY DEF ResumeOne, Passes, PENDING, COMPLETED
<1>f. /\ InRun /\ cpu = "executor" /\ at = "await"
      /\ Schedule = "one in flight" /\ running = requests_completed
      /\ Low = requests_completed /\ High = requests_completed + 1
      /\ requests_completed \in Records
      /\ request[requests_completed] = "yielded"
      /\ comp_status[requests_completed] # PENDING
  <2>1. Low <= running /\ running < High
    BY <1>l, <1>a DEF Around
  <2> QED
    BY <1>c, <1>l, <1>d, <1>e, <1>h, <2>1
<1>u. UNCHANGED <<wq, comp_status, plan, run, iter, stage, next_unstarted,
                  next_to_complete, requests_completed, filler,
                  interleaved_started, p_sig, stamps, stored, reported, live,
                  exit>>
  BY <1>f DEF ResumeOne, Awaiting, Resume, Enter, qvars, program, counters,
              fillers, results
<1>g. /\ at' = "schedule" /\ cpu' = "request" /\ running' = requests_completed
      /\ request' = [request EXCEPT ![requests_completed] = "checking"]
  BY <1>f, <1>i DEF ResumeOne, Awaiting, Resume, Enter
<1>s. /\ Runner' = Runner /\ Harnessed' = Harnessed /\ Executor' = Executor
      /\ Stages' = Stages /\ Schedule' = Schedule /\ Finished' = Finished
  BY <1>u, SameRun DEF program
<1>n. Low' = requests_completed /\ High' = requests_completed + 1 /\ InRun'
  BY <1>f, <1>g, <1>u, <1>s, <1>z DEF Low, High, InRun, Sized
<1>1. TypeOK'
  BY <1>i, <1>f, <1>u, <1>g, <1>s, <1>n, <1>z
     DEF TypeOK, QTypeOK, RequestStates, Sized
<1>2. RunFits' /\ Idle' /\ Stamped' /\ Exits'
  BY <1>i, <1>f, <1>u, <1>g, <1>s, <1>n, <1>z
     DEF RunFits, Idle, Stamped, Exits, Sized
<1>3. Queues'
  BY <1>i, <1>f, <1>u, <1>g, <1>s, <1>n, <1>z
     DEF Queues, Sized
<1>4. Fresh' /\ Staged'
  BY <1>i, <1>f, <1>u, <1>g, <1>s, <1>n, <1>z
     DEF Fresh, Staged, Sized
<1>5. Shape'
  BY <1>i, <1>a, <1>f, <1>u, <1>g, <1>s, <1>n, <1>z
     DEF Shape, Entered, Sized, Around
<1>6. Position'
  BY <1>i, <1>f, <1>u, <1>g, <1>s, <1>n, <1>z
     DEF Position, Submitting, Finishing, Sized
<1>7. Fillers'
  BY <1>i, <1>f, <1>u, <1>g, <1>s, <1>n, <1>z
     DEF Fillers, FillerState, Sized
<1> QED
  BY <1>1, <1>2, <1>3, <1>4, <1>5, <1>6, <1>7 DEF FInv

\* A request clears its record before it submits.
LEMMA PrepareStep ==
  ASSUME FInv, Up, Prepare
  PROVE  FInv'
<1>i. /\ TypeOK /\ RunFits /\ Idle /\ Queues /\ Fresh /\ Staged /\ Shape
      /\ Position /\ Fillers /\ Stamped /\ Exits
  BY DEF FInv
<1>z. Sized
  BY <1>i, SizedFacts
<1>c. InRun /\ cpu = "request" /\ request[running] = "preparing"
  BY <1>i DEF Prepare, InRequest, InRun, Idle
<1>r. RunShape
  BY <1>i, <1>c, ShapeOfFits DEF RunFits
<1>h. /\ Low \in 0 .. TotalRequests /\ High \in Low .. TotalRequests
      /\ \A r \in Records :
           /\ r < Low => request[r] = "finished"
           /\ r >= High => request[r] = "created"
           /\ Low <= r /\ r < High /\ ~(cpu = "request" /\ r = running) =>
                request[r] = "yielded"
      /\ cpu = "request" =>
           /\ Low <= running /\ running < High
           /\ request[running] \in Entered
      /\ Runner.request.counts => requests_completed = Low
  BY <1>i, <1>c DEF Shape
<1>w. /\ Low <= running /\ running < High /\ running \in Records
      /\ Low \in 0 .. TotalRequests /\ High \in Low .. TotalRequests
  BY <1>c, <1>h, <1>z DEF Sized
<1>p. /\ Schedule = "overlapping" => at = "schedule" /\ running = High - 1
      /\ Schedule = "one in flight" => at = "await"
      /\ Schedule = "sequential" => at = "schedule"
      /\ Schedule \in {"overlapping", "sequential", "one in flight"}
  BY <1>c, <1>i DEF Position, Submitting, Finishing
<1>k. /\ Stages[stage[running]] \in StageKinds
      /\ stage[running] \in 1 .. Len(Stages)
  <2>1. Stages \in Seq(StageKinds)
    BY <1>r DEF RunShape
  <2>2. stage[running] \in 1 .. 2 /\ stage[running] <= Len(Stages)
    BY <1>c, <1>i, <1>z DEF Staged, TypeOK, Sized
  <2>3. stage[running] \in 1 .. Len(Stages)
    BY <2>1, <2>2
  <2> QED
    BY <2>1, <2>3
<1>f. /\ InRun /\ cpu = "request" /\ running \in Records
      /\ request[running] = "preparing"
  BY <1>c, <1>w
<1>u. UNCHANGED <<wq, plan, run, iter, at, cpu, running, stage,
                  next_unstarted, next_to_complete, requests_completed,
                  filler, interleaved_started, p_sig, stamps, stored,
                  reported, live, exit>>
  BY <1>f DEF Prepare, InRequest, Become, Prepared, qvars, program, counters,
              fillers, results
<1>g. /\ request' = [request EXCEPT ![running] = "submitting"]
      /\ comp_status' = [comp_status EXCEPT ![running] = PENDING]
  BY <1>k, StageFacts DEF Prepare, Become, Prepared
<1>s. /\ Runner' = Runner /\ Harnessed' = Harnessed /\ Executor' = Executor
      /\ Stages' = Stages /\ Schedule' = Schedule /\ Finished' = Finished
  BY <1>u, SameRun DEF program
<1>n. Low' = Low /\ High' = High /\ InRun'
  BY <1>c, <1>p, <1>g, <1>u, <1>s DEF Low, High, InRun
<1>1. TypeOK'
  BY <1>i, <1>f, <1>u, <1>g, <1>s, <1>n, <1>z
     DEF TypeOK, QTypeOK, RequestStates, Sized
<1>2. RunFits' /\ Idle' /\ Stamped' /\ Exits'
  BY <1>i, <1>f, <1>u, <1>g, <1>s, <1>n, <1>z
     DEF RunFits, Idle, Stamped, Exits, Sized
<1>3. Queues'
  BY <1>i, <1>f, <1>u, <1>g, <1>s, <1>n, <1>z
     DEF Queues, Sized
<1>4. Fresh' /\ Staged'
  BY <1>i, <1>f, <1>u, <1>g, <1>s, <1>n, <1>z
     DEF Fresh, Staged, Sized
<1>5. Shape'
  BY <1>i, <1>f, <1>u, <1>g, <1>s, <1>n, <1>z
     DEF Shape, Entered, Sized
<1>6. Position'
  BY <1>i, <1>p, <1>f, <1>u, <1>g, <1>s, <1>n, <1>z
     DEF Position, Submitting, Finishing, Sized
<1>7. Fillers'
  BY <1>i, <1>f, <1>u, <1>g, <1>s, <1>n, <1>z
     DEF Fillers, FillerState, Sized
<1> QED
  BY <1>1, <1>2, <1>3, <1>4, <1>5, <1>6, <1>7 DEF FInv

\* A request hands its descriptor to a device.
LEMMA SubmitStep ==
  ASSUME FInv, Up, Submit
  PROVE  FInv'
<1>i. /\ TypeOK /\ RunFits /\ Idle /\ Queues /\ Fresh /\ Staged /\ Shape
      /\ Position /\ Fillers /\ Stamped /\ Exits
  BY DEF FInv
<1>z. Sized
  BY <1>i, SizedFacts
<1>c. InRun /\ cpu = "request" /\ request[running] = "submitting"
  BY <1>i DEF Submit, InRequest, InRun, Idle
<1>r. RunShape
  BY <1>i, <1>c, ShapeOfFits DEF RunFits
<1>h. /\ Low \in 0 .. TotalRequests /\ High \in Low .. TotalRequests
      /\ \A r \in Records :
           /\ r < Low => request[r] = "finished"
           /\ r >= High => request[r] = "created"
           /\ Low <= r /\ r < High /\ ~(cpu = "request" /\ r = running) =>
                request[r] = "yielded"
      /\ cpu = "request" =>
           /\ Low <= running /\ running < High
           /\ request[running] \in Entered
      /\ Runner.request.counts => requests_completed = Low
  BY <1>i, <1>c DEF Shape
<1>w. /\ Low <= running /\ running < High /\ running \in Records
      /\ Low \in 0 .. TotalRequests /\ High \in Low .. TotalRequests
  BY <1>c, <1>h, <1>z DEF Sized
<1>p. /\ Schedule = "overlapping" => at = "schedule" /\ running = High - 1
      /\ Schedule = "one in flight" => at = "await"
      /\ Schedule = "sequential" => at = "schedule"
      /\ Schedule \in {"overlapping", "sequential", "one in flight"}
  BY <1>c, <1>i DEF Position, Submitting, Finishing
<1>k. /\ Stages[stage[running]] \in StageKinds
      /\ stage[running] \in 1 .. Len(Stages)
  <2>1. Stages \in Seq(StageKinds)
    BY <1>r DEF RunShape
  <2>2. stage[running] \in 1 .. 2 /\ stage[running] <= Len(Stages)
    BY <1>c, <1>i, <1>z DEF Staged, TypeOK, Sized
  <2>3. stage[running] \in 1 .. Len(Stages)
    BY <2>1, <2>2
  <2> QED
    BY <2>1, <2>3
<1>f. /\ InRun /\ cpu = "request" /\ running \in Records
      /\ request[running] = "submitting"
  BY <1>c, <1>w
<1>u. UNCHANGED <<comp_status, plan, run, iter, at, running, stage,
                  next_unstarted, next_to_complete, requests_completed,
                  filler, interleaved_started, p_sig, stamps, stored,
                  reported, live, exit>>
  BY <1>f DEF Submit, InRequest, Become, Enqueue, qvars, program, counters,
              fillers, results
<1>g. /\ request' = [request EXCEPT ![running] =
              IF Runner.request.yields THEN "yielded" ELSE "waiting"]
      /\ cpu' = IF Runner.request.yields THEN "executor" ELSE "request"
      /\ \E d \in Devices : wq' = [wq EXCEPT ![d] = @ \cup {running}]
  BY <1>c, <1>k, StageFacts DEF Submit, Become, Enqueue
<1>s. /\ Runner' = Runner /\ Harnessed' = Harnessed /\ Executor' = Executor
      /\ Stages' = Stages /\ Schedule' = Schedule /\ Finished' = Finished
  BY <1>u, SameRun DEF program
<1>q. /\ cpu' \in {"executor", "request"}
      /\ Schedule # "sequential" => cpu' = "executor"
      /\ Runner.request.yields => cpu' = "executor"
  <2>1. Schedule # "sequential" => Runner.request.yields
    BY <1>r DEF RunShape
  <2> QED
    BY <2>1, <1>g
<1>n. Low' = Low /\ High' = High /\ InRun'
  <2>1. Schedule = "sequential" => ~Runner.request.yields
    BY <1>r DEF RunShape
  <2> QED
    BY <2>1, <1>c, <1>p, <1>g, <1>u, <1>s DEF Low, High, InRun
<1>1. TypeOK'
  BY <1>i, <1>f, <1>u, <1>g, <1>s, <1>n, <1>z, ZenonT(60)
     DEF TypeOK, QTypeOK, RequestStates, Sized
<1>2. RunFits' /\ Idle' /\ Stamped' /\ Exits'
  BY <1>i, <1>f, <1>u, <1>g, <1>s, <1>n, <1>z
     DEF RunFits, Idle, Stamped, Exits, Sized
<1>3. Queues'
  BY <1>i, <1>f, <1>u, <1>g, <1>s, <1>n, <1>z
     DEF Queues, Sized
<1>4. Fresh' /\ Staged'
  BY <1>i, <1>f, <1>u, <1>g, <1>s, <1>n, <1>z
     DEF Fresh, Staged, Sized
<1>5. Shape'
  BY <1>i, <1>f, <1>u, <1>g, <1>s, <1>n, <1>z
     DEF Shape, Entered, Sized
<1>6. Position'
  BY <1>c, <1>p, <1>q, <1>i, <1>u, <1>s, <1>n DEF Position
<1>7. Fillers'
  BY <1>c, <1>p, <1>q, <1>i, <1>u, <1>s, <1>n DEF Fillers, FillerState, Position
<1> QED
  BY <1>1, <1>2, <1>3, <1>4, <1>5, <1>6, <1>7 DEF FInv

\* A blocking request has its answer.
LEMMA SpinOnStep ==
  ASSUME FInv, Up, SpinOn
  PROVE  FInv'
<1>i. /\ TypeOK /\ RunFits /\ Idle /\ Queues /\ Fresh /\ Staged /\ Shape
      /\ Position /\ Fillers /\ Stamped /\ Exits
  BY DEF FInv
<1>z. Sized
  BY <1>i, SizedFacts
<1>c. InRun /\ cpu = "request" /\ request[running] = "waiting"
  BY <1>i DEF SpinOn, InRequest, InRun, Idle
<1>r. RunShape
  BY <1>i, <1>c, ShapeOfFits DEF RunFits
<1>h. /\ Low \in 0 .. TotalRequests /\ High \in Low .. TotalRequests
      /\ \A r \in Records :
           /\ r < Low => request[r] = "finished"
           /\ r >= High => request[r] = "created"
           /\ Low <= r /\ r < High /\ ~(cpu = "request" /\ r = running) =>
                request[r] = "yielded"
      /\ cpu = "request" =>
           /\ Low <= running /\ running < High
           /\ request[running] \in Entered
      /\ Runner.request.counts => requests_completed = Low
  BY <1>i, <1>c DEF Shape
<1>w. /\ Low <= running /\ running < High /\ running \in Records
      /\ Low \in 0 .. TotalRequests /\ High \in Low .. TotalRequests
  BY <1>c, <1>h, <1>z DEF Sized
<1>p. Schedule = "sequential" /\ at = "schedule"
  BY <1>c, <1>i DEF Position, Submitting, Finishing
<1>f. /\ InRun /\ cpu = "request" /\ running \in Records
      /\ request[running] = "waiting"
  BY <1>c, <1>w
<1>e. comp_status[running] # PENDING
  BY DEF SpinOn, spin_on
<1>u. UNCHANGED <<wq, comp_status, plan, run, iter, at, cpu, running, stage,
                  next_unstarted, next_to_complete, requests_completed,
                  filler, interleaved_started, p_sig, stamps, stored,
                  reported, live, exit>>
  BY <1>f DEF SpinOn, InRequest, Become, qvars, program, counters, fillers,
              results
<1>g. /\ request' = [request EXCEPT ![running] = "checking"]
  BY <1>f, <1>i DEF SpinOn, InRequest, Become
<1>s. /\ Runner' = Runner /\ Harnessed' = Harnessed /\ Executor' = Executor
      /\ Stages' = Stages /\ Schedule' = Schedule /\ Finished' = Finished
  BY <1>u, SameRun DEF program
<1>n. Low' = Low /\ High' = High /\ InRun'
  BY <1>c, <1>p, <1>g, <1>u, <1>s DEF Low, High, InRun
<1>1. TypeOK'
  BY <1>i, <1>f, <1>u, <1>g, <1>s, <1>n, <1>z
     DEF TypeOK, QTypeOK, RequestStates, Sized
<1>2. RunFits' /\ Idle' /\ Stamped' /\ Exits'
  BY <1>i, <1>f, <1>u, <1>g, <1>s, <1>n, <1>z
     DEF RunFits, Idle, Stamped, Exits, Sized
<1>3. Queues'
  BY <1>i, <1>e, <1>f, <1>u, <1>g, <1>s, <1>n, <1>z
     DEF Queues, Sized
<1>4. Fresh' /\ Staged'
  BY <1>i, <1>f, <1>u, <1>g, <1>s, <1>n, <1>z
     DEF Fresh, Staged, Sized
<1>5. Shape'
  BY <1>i, <1>f, <1>u, <1>g, <1>s, <1>n, <1>z
     DEF Shape, Entered, Sized
<1>6. Position'
  BY <1>i, <1>p, <1>f, <1>u, <1>g, <1>s, <1>n, <1>z
     DEF Position, Submitting, Finishing, Sized
<1>7. Fillers'
  BY <1>i, <1>f, <1>u, <1>g, <1>s, <1>n, <1>z
     DEF Fillers, FillerState, Sized
<1> QED
  BY <1>1, <1>2, <1>3, <1>4, <1>5, <1>6, <1>7 DEF FInv

\* A request goes on to its next stage or to its computation.
LEMMA CheckStep ==
  ASSUME FInv, Up, Check
  PROVE  FInv'
<1>i. /\ TypeOK /\ RunFits /\ Idle /\ Queues /\ Fresh /\ Staged /\ Shape
      /\ Position /\ Fillers /\ Stamped /\ Exits
  BY DEF FInv
<1>z. Sized
  BY <1>i, SizedFacts
<1>c. InRun /\ cpu = "request" /\ request[running] = "checking"
  BY <1>i DEF Check, InRequest, InRun, Idle
<1>r. RunShape
  BY <1>i, <1>c, ShapeOfFits DEF RunFits
<1>h. /\ Low \in 0 .. TotalRequests /\ High \in Low .. TotalRequests
      /\ \A r \in Records :
           /\ r < Low => request[r] = "finished"
           /\ r >= High => request[r] = "created"
           /\ Low <= r /\ r < High /\ ~(cpu = "request" /\ r = running) =>
                request[r] = "yielded"
      /\ cpu = "request" =>
           /\ Low <= running /\ running < High
           /\ request[running] \in Entered
      /\ Runner.request.counts => requests_completed = Low
  BY <1>i, <1>c DEF Shape
<1>w. /\ Low <= running /\ running < High /\ running \in Records
      /\ Low \in 0 .. TotalRequests /\ High \in Low .. TotalRequests
  BY <1>c, <1>h, <1>z DEF Sized
<1>p. /\ Schedule = "overlapping" => at = "resumed" /\ running = Low
      /\ Schedule = "one in flight" => at = "schedule"
      /\ Schedule = "sequential" => at = "schedule"
      /\ Schedule \in {"overlapping", "sequential", "one in flight"}
  BY <1>c, <1>i DEF Position, Submitting, Finishing
<1>k. /\ Stages[stage[running]] \in StageKinds
      /\ stage[running] \in 1 .. Len(Stages)
  <2>1. Stages \in Seq(StageKinds)
    BY <1>r DEF RunShape
  <2>2. stage[running] \in 1 .. 2 /\ stage[running] <= Len(Stages)
    BY <1>c, <1>i, <1>z DEF Staged, TypeOK, Sized
  <2>3. stage[running] \in 1 .. Len(Stages)
    BY <2>1, <2>2
  <2> QED
    BY <2>1, <2>3
<1>f. /\ InRun /\ cpu = "request" /\ running \in Records
      /\ request[running] = "checking"
  BY <1>c, <1>w
<1>q. /\ Schedule # "sequential" => ~(stage[running] < Len(Stages))
      /\ stage[running] < Len(Stages) =>
           stage[running] + 1 \in 1 .. 2 /\ stage[running] + 1 <= Len(Stages)
  <2>0. Stages \in Seq(StageKinds) /\ Len(Stages) <= 2
    BY <1>r DEF RunShape
  <2>1. Len(Stages) \in Nat /\ Len(Stages) <= 2
    BY <2>0
  <2>2. Schedule # "sequential" => Len(Stages) = 1
    BY <1>r DEF RunShape
  <2> QED
    <3>1. \A n \in Nat : \A s \in 1 .. n :
            /\ n <= 2 /\ s < n => s + 1 \in 1 .. 2 /\ s + 1 <= n
            /\ n = 1 => ~(s < n)
      OBVIOUS
    <3> QED
      BY <1>k, <2>1, <2>2, <3>1
<1>u. UNCHANGED <<wq, comp_status, plan, run, iter, at, cpu, running,
                  next_unstarted, next_to_complete, requests_completed,
                  filler, interleaved_started, p_sig, stamps, stored, live,
                  exit>>
  BY <1>f DEF Check, InRequest, Become, qvars, program, counters, fillers,
              results
<1>g. /\ \/ /\ request' = [request EXCEPT ![running] = "preparing"]
            /\ stage' = [stage EXCEPT ![running] = @ + 1]
            /\ stage[running] < Len(Stages)
         \/ /\ request' = [request EXCEPT ![running] = "computing"]
            /\ stage' = stage
      /\ reported' \subseteq Records
  <2>1. reported' \subseteq Records
    BY <1>f, <1>i DEF Check, TypeOK, Failed
  <2> QED
    BY <2>1 DEF Check, Become
<1>s. /\ Runner' = Runner /\ Harnessed' = Harnessed /\ Executor' = Executor
      /\ Stages' = Stages /\ Schedule' = Schedule /\ Finished' = Finished
  BY <1>u, SameRun DEF program
<1>n. Low' = Low /\ High' = High /\ InRun'
  BY <1>c, <1>p, <1>g, <1>u, <1>s DEF Low, High, InRun
<1>1. TypeOK'
  BY <1>i, <1>q, <1>f, <1>u, <1>g, <1>s, <1>n, <1>z, ZenonT(60)
     DEF TypeOK, QTypeOK, RequestStates, Sized
<1>2. RunFits' /\ Idle' /\ Stamped' /\ Exits'
  BY <1>i, <1>f, <1>u, <1>g, <1>s, <1>n, <1>z
     DEF RunFits, Idle, Stamped, Exits, Sized
<1>3. Queues'
  BY <1>i, <1>f, <1>u, <1>g, <1>s, <1>n, <1>z
     DEF Queues, Sized
<1>4. Fresh'
  BY <1>i, <1>f, <1>u, <1>g, <1>s, <1>n, <1>z
     DEF Fresh, Sized
<1>5. Staged'
  BY <1>i, <1>q, <1>f, <1>u, <1>g, <1>s, <1>n, <1>z
     DEF Staged, Sized
<1>6. Shape'
  BY <1>i, <1>f, <1>u, <1>g, <1>s, <1>n, <1>z
     DEF Shape, Entered, Sized
<1>7. Position'
  <2>1. Schedule # "sequential" => request'[running] = "computing"
    BY <1>g, <1>q, <1>f, <1>z DEF Sized
  <2> QED
    BY <2>1, <1>c, <1>p, <1>i, <1>u, <1>s, <1>n DEF Position, Finishing
<1>8. Fillers'
  BY <1>i, <1>f, <1>u, <1>g, <1>s, <1>n, <1>z
     DEF Fillers, FillerState, Sized
<1> QED
  BY <1>1, <1>2, <1>3, <1>4, <1>5, <1>6, <1>7, <1>8 DEF FInv

\* A request is done.
LEMMA CompleteStep ==
  ASSUME FInv, Up, Complete
  PROVE  FInv'
<1>i. /\ TypeOK /\ RunFits /\ Idle /\ Queues /\ Fresh /\ Staged /\ Shape
      /\ Position /\ Fillers /\ Stamped /\ Exits
  BY DEF FInv
<1>z. Sized
  BY <1>i, SizedFacts
<1>c. InRun /\ cpu = "request" /\ request[running] = "computing"
  BY <1>i DEF Complete, InRequest, InRun, Idle
<1>r. RunShape
  BY <1>i, <1>c, ShapeOfFits DEF RunFits
<1>h. /\ Low \in 0 .. TotalRequests /\ High \in Low .. TotalRequests
      /\ \A r \in Records :
           /\ r < Low => request[r] = "finished"
           /\ r >= High => request[r] = "created"
           /\ Low <= r /\ r < High /\ ~(cpu = "request" /\ r = running) =>
                request[r] = "yielded"
      /\ cpu = "request" =>
           /\ Low <= running /\ running < High
           /\ request[running] \in Entered
      /\ Runner.request.counts => requests_completed = Low
  BY <1>i, <1>c DEF Shape
<1>w. /\ Low <= running /\ running < High /\ running \in Records
      /\ Low \in 0 .. TotalRequests /\ High \in Low .. TotalRequests
  BY <1>c, <1>h, <1>z DEF Sized
<1>p. /\ Schedule = "overlapping" => at = "resumed" /\ running = Low
      /\ Schedule = "one in flight" => at = "schedule"
      /\ Schedule = "sequential" => at = "schedule"
      /\ Schedule \in {"overlapping", "sequential", "one in flight"}
  BY <1>c, <1>i DEF Position, Submitting, Finishing
<1>f. /\ InRun /\ cpu = "request" /\ running \in Records
      /\ request[running] = "computing"
  BY <1>c, <1>w
<1>q. running = Low
  <2>1. Schedule = "sequential" =>
          Low = next_unstarted - 1 /\ High = next_unstarted
    BY <1>c DEF Low, High
  <2>2. Schedule = "one in flight" =>
          Low = requests_completed /\ High = requests_completed + 1
    BY <1>c DEF Low, High
  <2>3. next_unstarted \in Nat /\ requests_completed \in Nat /\ running \in Nat
    BY <1>z DEF Sized
  <2>4. CASE Schedule = "sequential"
    BY <2>1, <2>3, <2>4, <1>w
  <2>5. CASE Schedule = "one in flight"
    <3>1. \A n \in Nat : \A k \in Nat : n <= k /\ k < n + 1 => k = n
      OBVIOUS
    <3> QED
      BY <2>2, <2>3, <2>5, <1>w, <3>1
  <2> QED
    BY <2>4, <2>5, <1>p
<1>x. /\ Runner.request.counts => requests_completed = running
      /\ Schedule = "one in flight" => Runner.request.counts
  BY <1>q, <1>h, <1>r DEF RunShape
<1>a. /\ Low \in Nat /\ Low + 1 \in 0 .. TotalRequests
      /\ Low + 1 <= High
      /\ \A r \in Records :
           /\ r < Low + 1 <=> r < Low \/ r = Low
           /\ Low + 1 <= r => Low <= r /\ r # Low
  <2>1. TotalRequests \in Nat /\ Records = 0 .. TotalRequests - 1
    BY <1>z DEF Sized
  <2> QED
    BY <2>1, <1>q, <1>w
<1>u. UNCHANGED <<wq, comp_status, plan, run, iter, at, running, stage,
                  next_unstarted, next_to_complete, filler,
                  interleaved_started, p_sig, stamps, stored, reported, live,
                  exit>>
  BY <1>f DEF Complete, InRequest, Become, qvars, program, counters, fillers,
              results
<1>g. /\ request' = [request EXCEPT ![running] = "finished"]
      /\ cpu' = "executor"
      /\ requests_completed' =
           IF Runner.request.counts THEN requests_completed + 1
                                    ELSE requests_completed
  BY <1>f, <1>i DEF Complete, InRequest, Become
<1>s. /\ Runner' = Runner /\ Harnessed' = Harnessed /\ Executor' = Executor
      /\ Stages' = Stages /\ Schedule' = Schedule /\ Finished' = Finished
  BY <1>u, SameRun DEF program
<1>n. Low' = Low + 1 /\ High' = High /\ InRun'
  <2>1. CASE Schedule = "overlapping"
    BY <2>1, <1>c, <1>p, <1>g, <1>u, <1>s DEF Low, High, InRun
  <2>2. CASE Schedule = "sequential"
    <3>1. Low = next_unstarted - 1 /\ Low' = next_unstarted
      BY <2>2, <1>c, <1>g, <1>u, <1>s DEF Low
    <3>2. next_unstarted - 1 + 1 = next_unstarted
      BY <1>z DEF Sized
    <3>3. High' = High /\ InRun'
      BY <2>2, <1>c, <1>u, <1>s DEF High, InRun
    <3> QED
      BY <3>1, <3>2, <3>3
  <2>3. CASE Schedule = "one in flight"
    <3>1. Low = requests_completed /\ High = requests_completed + 1
      BY <2>3, <1>c DEF Low, High
    <3>2. requests_completed' = requests_completed + 1
      BY <2>3, <1>x, <1>g
    <3>3. Low' = requests_completed' /\ High' = requests_completed' /\ InRun'
      BY <2>3, <1>c, <1>p, <1>g, <1>u, <1>s DEF Low, High, InRun
    <3> QED
      BY <3>1, <3>2, <3>3
  <2> QED
    BY <2>1, <2>2, <2>3, <1>p
<1>1. TypeOK'
  <2>1. requests_completed' \in 0 .. TotalRequests
    BY <1>a, <1>q, <1>x, <1>g, <1>z DEF Sized
  <2> QED
    BY <2>1, <1>f, <1>i, <1>g, <1>u DEF TypeOK, QTypeOK, RequestStates
<1>2. RunFits' /\ Idle' /\ Stamped' /\ Exits'
  BY <1>i, <1>f, <1>u, <1>g, <1>s, <1>n, <1>z
     DEF RunFits, Idle, Stamped, Exits, Sized
<1>3. Queues'
  BY <1>i, <1>f, <1>u, <1>g, <1>s, <1>n, <1>z
     DEF Queues, Sized
<1>4. Fresh' /\ Staged'
  BY <1>i, <1>f, <1>u, <1>g, <1>s, <1>n, <1>z
     DEF Fresh, Staged, Sized
<1>5. Shape'
  <2>1. /\ Low' \in 0 .. TotalRequests /\ High' \in Low' .. TotalRequests
    BY <1>a, <1>n, <1>w
  <2>2. \A r \in Records :
          request'[r] = IF r = Low THEN "finished" ELSE request[r]
    BY <1>g, <1>q, <1>z DEF Sized
  <2>3. \A r \in Records :
          /\ r < Low' => request'[r] = "finished"
          /\ r >= High' => request'[r] = "created"
          /\ Low' <= r /\ r < High' => request'[r] = "yielded"
    BY <2>2, <1>a, <1>n, <1>h, <1>q, <1>w, <1>z DEF Sized
  <2>4. Runner.request.counts => requests_completed' = Low'
    BY <1>x, <1>q, <1>g, <1>n
  <2> QED
    BY <2>1, <2>3, <2>4, <1>g, <1>n, <1>s DEF Shape
<1>6. Position'
  BY <1>i, <1>f, <1>u, <1>g, <1>s, <1>n, <1>z
     DEF Position, Submitting, Finishing, Sized
<1>7. Fillers'
  <2>1. SUFFICES ASSUME Schedule = "one in flight" PROVE Fillers'
    BY <1>s DEF Fillers
  <2>2. at = "schedule" /\ requests_completed' = requests_completed + 1
    BY <2>1, <1>p, <1>x, <1>g
  <2>3. \A f \in Records : f >= requests_completed + 1 => f > requests_completed
    BY <1>z DEF Sized
  <2>4. Executor.fillers = "each" =>
          \A f \in Records : f >= requests_completed' => filler[f] = "created"
    BY <2>1, <2>2, <2>3, <1>c, <1>i DEF Fillers
  <2>5. requests_completed + 1 \in Nat /\ Records \subseteq Nat
    BY <1>z DEF Sized
  <2>6. Executor.fillers = "each" =>
          /\ \A f \in Records :
               f > requests_completed' => filler'[f] = "created"
          /\ requests_completed' \in Records =>
               filler'[requests_completed'] = "created"
    BY <2>2, <2>4, <2>5, <1>u
  <2>7. Executor.fillers = "one" => filler'[0] = FillerState'
    BY <2>1, <1>c, <1>i, <1>u, <1>g DEF Fillers, FillerState
  <2> QED
    BY <2>1, <2>2, <2>6, <2>7, <1>c, <1>g, <1>u, <1>s DEF Fillers
<1> QED
  BY <1>1, <1>2, <1>3, <1>4, <1>5, <1>6, <1>7 DEF FInv

\* No request was rejected by a full queue but one of many in flight.
LEMMA RejectedMeans ==
  ASSUME FInv, Up, SubmitFails
  PROVE  InRun /\ Schedule = "overlapping" /\ TotalRequests > WqSize
<1>i. /\ TypeOK /\ RunFits /\ Idle /\ Queues /\ Fresh /\ Staged /\ Shape
      /\ Position /\ Fillers /\ Stamped /\ Exits
  BY DEF FInv
<1>z. Sized
  BY <1>i, SizedFacts
<1>c. InRun /\ cpu = "request" /\ request[running] = "submitting"
  BY <1>i DEF SubmitFails, InRequest, InRun, Idle
<1>r. RunShape
  BY <1>i, <1>c, ShapeOfFits DEF RunFits
<1>h. /\ Low \in 0 .. TotalRequests /\ High \in Low .. TotalRequests
      /\ \A r \in Records :
           /\ r < Low => request[r] = "finished"
           /\ r >= High => request[r] = "created"
      /\ Low <= running /\ running < High
  BY <1>i, <1>c DEF Shape
<1>k. PICK d \in Devices : ~(Cardinality(wq[d]) < WqSize)
  <2>1. Stages \in Seq(StageKinds)
    BY <1>r DEF RunShape
  <2>2. stage[running] \in 1 .. 2 /\ stage[running] <= Len(Stages)
    BY <1>c, <1>i, <1>z DEF Staged, TypeOK, Sized
  <2>3. Stages[stage[running]] \in StageKinds
    BY <2>1, <2>2
  <2> QED
    BY <2>3, StageFacts DEF SubmitFails, Rejected, Room
<1>w. wq[d] \subseteq Records
  BY <1>i DEF TypeOK, QTypeOK
<1>q. \A c \in wq[d] : request[c] \in {"waiting", "yielded"}
  <2>1. d = "dsa" \/ d = "iaa"
    BY DEF Devices
  <2> QED
    BY <2>1, <1>w, <1>i DEF Queues
<1>x. wq[d] \subseteq Records \ {running}
  BY <1>w, <1>q, <1>c
<1>y. IsFiniteSet(Records) /\ Cardinality(Records) = TotalRequests
  <2>1. TotalRequests - 1 \in Int /\ TotalRequests \in Nat /\ 0 \in Int
        /\ Records = 0 .. TotalRequests - 1
    BY <1>z DEF Sized
  <2>2. IsFiniteSet(0 .. TotalRequests - 1)
        /\ Cardinality(0 .. TotalRequests - 1) =
             IF 0 > TotalRequests - 1 THEN 0 ELSE (TotalRequests - 1) - 0 + 1
    BY <2>1, FS_Interval
  <2>3. TotalRequests # 0
    BY <1>z DEF Sized
  <2> QED
    BY <2>1, <2>2, <2>3
<1>v. /\ IsFiniteSet(Records \ {running})
      /\ Cardinality(Records \ {running}) = TotalRequests - 1
  <2>1. running \in Records
    BY <1>z DEF Sized
  <2> QED
    BY <2>1, <1>y, FS_RemoveElement
<1>1. Cardinality(wq[d]) <= TotalRequests - 1 /\ Cardinality(wq[d]) \in Nat
  <2>1. /\ IsFiniteSet(wq[d])
        /\ Cardinality(wq[d]) <= Cardinality(Records \ {running})
    BY <1>x, <1>v, FS_Subset
  <2> QED
    BY <2>1, <1>v, FS_CardinalityType
<1>2. TotalRequests > WqSize
  BY <1>1, <1>k, <1>z, HwQueueAssumption DEF Sized
<1>3. wq[d] # {}
  BY <1>k, FS_EmptySet, HwQueueAssumption
<1>4. PICK c \in wq[d] : c # running
  BY <1>3, <1>x
<1>5. Low <= c /\ c < High /\ c \in Records
  BY <1>4, <1>w, <1>q, <1>h, <1>z DEF Sized
<1>6. Schedule = "overlapping"
  <2>1. Schedule = "sequential" =>
          Low = next_unstarted - 1 /\ High = next_unstarted
    BY <1>c DEF Low, High
  <2>2. Schedule = "one in flight" =>
          Low = requests_completed /\ High = requests_completed + 1
    BY <1>c DEF Low, High
  <2>3. /\ next_unstarted \in Nat /\ requests_completed \in Nat
        /\ running \in Nat /\ c \in Nat
    BY <1>z, <1>5 DEF Sized
  <2>4. \A n \in Nat : \A k, m \in Nat :
          /\ n - 1 <= k /\ k < n /\ n - 1 <= m /\ m < n => k = m
          /\ n <= k /\ k < n + 1 /\ n <= m /\ m < n + 1 => k = m
    OBVIOUS
  <2>5. Schedule # "sequential"
    BY <2>1, <2>3, <2>4, <1>h, <1>4, <1>5
  <2>6. Schedule # "one in flight"
    BY <2>2, <2>3, <2>4, <1>h, <1>4, <1>5
  <2> QED
    BY <2>5, <2>6, <1>r DEF RunShape
<1> QED
  BY <1>c, <1>2, <1>6

\* A request that gives up, or is rejected, leaves everything as it was.
LEMMA ReturnStep ==
  ASSUME FInv, Up, SubmitFails \/ GiveUp
  PROVE  FInv'
<1>1. /\ TypeOK /\ RunFits /\ Idle /\ Queues /\ Fresh /\ Staged /\ Shape
      /\ Position /\ Fillers /\ Stamped /\ Exits
  BY DEF FInv
<1>u. UNCHANGED <<wq, comp_status, plan, run, iter, at, cpu, running, request,
                  stage, next_unstarted, next_to_complete, requests_completed,
                  filler, interleaved_started, p_sig, stamps, stored, reported,
                  live>>
  BY DEF SubmitFails, GiveUp, Return, qvars, program, counters, fillers, results
<1>s. /\ Runner' = Runner /\ Harnessed' = Harnessed /\ Executor' = Executor
      /\ Stages' = Stages /\ Schedule' = Schedule /\ Finished' = Finished
  BY <1>u, SameRun DEF program
<1>n. Low' = Low /\ High' = High /\ InRun' = InRun
  BY <1>u, <1>s DEF Low, High, InRun
<1>e. Exits'
  <2>1. CASE SubmitFails
    BY <2>1, <1>n, <1>s, RejectedMeans DEF SubmitFails, Return, Exits
  <2>2. CASE GiveUp
    BY <2>2 DEF GiveUp, Return, Exits
  <2> QED
    BY <2>1, <2>2
<1>2. TypeOK'
  BY <1>1, <1>u, <1>e DEF TypeOK, QTypeOK, Exits
<1>3. RunFits' /\ Idle' /\ Queues' /\ Fresh' /\ Staged'
  BY <1>1, <1>u, <1>s, <1>n DEF RunFits, Idle, Queues, Fresh, Staged
<1>4. Shape' /\ Position'
  BY <1>1, <1>u, <1>s, <1>n DEF Shape, Position, Submitting, Finishing
<1>5. Fillers' /\ Stamped'
  BY <1>1, <1>u, <1>s, <1>n DEF Fillers, FillerState, Stamped
<1> QED
  BY <1>2, <1>3, <1>4, <1>5, <1>e DEF FInv

-----------------------------------------------------------------------------
(***************************************************************************)
(* Between runs.                                                           *)
(***************************************************************************)
\* When an executor's loop has ended, every request is finished and no
\* descriptor is queued.
LEMMA EndOfLoop ==
  ASSUME FInv, InRun, cpu = "executor", at = "schedule", Done
  PROVE  /\ \A r \in Records : request[r] = "finished"
         /\ wq["dsa"] = {} /\ wq["iaa"] = {}
<1>i. TypeOK /\ RunFits /\ Queues /\ Shape
  BY DEF FInv
<1>z. Sized
  BY <1>i, SizedFacts
<1>r. RunShape
  BY <1>i, ShapeOfFits DEF RunFits
<1>1. Low = TotalRequests
  BY <1>i, <1>z, <1>r, DoneIsLow
<1>2. \A r \in Records : r < TotalRequests
  BY <1>z DEF Sized
<1>3. \A r \in Records : request[r] = "finished"
  BY <1>1, <1>2, <1>i DEF Shape
<1>4. wq["dsa"] \subseteq Records /\ wq["iaa"] \subseteq Records
  BY <1>i DEF TypeOK, QTypeOK, Devices
<1> QED
  BY <1>3, <1>4, <1>i DEF Queues

\* A program between two runs: no request is under way.
LEMMA BetweenRuns ==
  ASSUME at' = "set up", cpu' = "executor",
         \A r \in Records : request'[r] = "created",
         wq'["dsa"] = {} /\ wq'["iaa"] = {}, TypeOK',
         \/ exit' = "no"
         \/ exit' = "division by zero" /\ TotalRequests < SamplesPerRun
  PROVE  FInv'
<1>1. ~InRun'
  BY DEF InRun
<1> QED
  BY <1>1 DEF FInv, RunFits, Idle, Queues, Fresh, Staged, Shape, Position,
              Fillers, Stamped, Exits

\* A harness sets up a run.
LEMMA SetUpStep ==
  ASSUME PlansFit, FInv, Up, SetUp
  PROVE  FInv'
<1>i. /\ TypeOK /\ RunFits /\ Idle /\ Queues /\ Exits
  BY DEF FInv
<1>z. Sized
  BY <1>i, SizedFacts
<1>c. at = "set up" /\ cpu = "executor" /\ Runner.kind = "runs"
  BY <1>i DEF SetUp, Idle, InRun
<1>d. Fits(Runner) /\ ~Finished
  <2>1. plan \in Plans /\ run \in 1 .. Len(plan) + 1 /\ ~(run > Len(plan))
    BY <1>i DEF TypeOK, Up, Finished
  <2>2. Len(plan) \in Nat
    BY <2>1, FittingPlans
  <2>3. run \in 1 .. Len(plan)
    BY <2>1, <2>2
  <2>4. plan[run].kind = "populates" \/ Fits(plan[run])
    BY <2>1, <2>3, FittingPlans
  <2> QED
    BY <2>4, <1>c DEF Runner, Up
<1>q. wq["dsa"] = {} /\ wq["iaa"] = {}
  <2>1. wq["dsa"] \subseteq Records /\ wq["iaa"] \subseteq Records
    BY <1>i DEF TypeOK, QTypeOK, Devices
  <2> QED
    BY <2>1, <1>i, <1>c DEF Queues, Idle, InRun
<1>0. CASE Harnessed.interval = 0
  <2>1. /\ exit' = "division by zero"
        /\ UNCHANGED <<qvars, at, counters, request, stage, filler,
                       interleaved_started, results, live, program, cpu,
                       running, p_sig>>
    BY <1>0 DEF SetUp
  <2>2. TotalRequests < SamplesPerRun
    BY <1>0, <1>d DEF Fits, IntervalFits, Harnessed
  <2>3. TypeOK'
    BY <2>1, <1>i
       DEF TypeOK, QTypeOK, qvars, counters, results, program
  <2>4. /\ at' = "set up" /\ cpu' = "executor"
        /\ \A r \in Records : request'[r] = "created"
        /\ wq'["dsa"] = {} /\ wq'["iaa"] = {}
    BY <2>1, <1>c, <1>q, <1>i DEF Idle, InRun, qvars
  <2> QED
    BY <2>1, <2>2, <2>3, <2>4, BetweenRuns
<1> SUFFICES ASSUME Harnessed.interval # 0
             PROVE  FInv'
  BY <1>0
<1>f. Harnessed.interval # 0
  OBVIOUS
<1>r. RunShape
  BY <1>d, <1>f, ShapeOfFits
<1>u. UNCHANGED <<wq, plan, run, iter, cpu, running, p_sig, exit>>
  BY <1>f DEF SetUp, program
<1>g. /\ at' = "schedule"
      /\ comp_status' = IF Harnessed.records THEN [c \in Records |-> PENDING]
                                             ELSE comp_status
      /\ request' = [r \in Records |-> "created"]
      /\ stage' = [r \in Records |-> 1]
      /\ next_unstarted' = 0 /\ next_to_complete' = 0
      /\ requests_completed' =
           IF Harnessed.resets THEN 0 ELSE requests_completed
      /\ filler' = [f \in Records |-> "created"]
      /\ interleaved_started' = FALSE
      /\ stamps' = IF Executor.stamps THEN 1 ELSE 0
      /\ stored' = IF iter = 1 THEN {} ELSE stored
      /\ reported' = IF Harnessed.records THEN {} ELSE reported
  BY <1>f DEF SetUp, allocate_crs
<1>s. /\ Runner' = Runner /\ Harnessed' = Harnessed /\ Executor' = Executor
      /\ Stages' = Stages /\ Schedule' = Schedule /\ Finished' = Finished
  BY <1>u, SameRun DEF program
<1>o. Schedule = "one in flight" \/ Runner.request.counts =>
        requests_completed' = 0
  BY <1>r, <1>g DEF RunShape
<1>n. Low' = 0 /\ High' = 0 /\ InRun'
  <2>1. Schedule' # "one in flight" =>
          Low' = next_unstarted' /\ High' = next_unstarted'
    BY <1>r, <1>g, <1>u, <1>s, <1>c DEF Low, High, RunShape
  <2>2. Schedule' = "one in flight" =>
          Low' = requests_completed' /\ High' = requests_completed'
    BY <1>g, <1>u, <1>s, <1>c DEF Low, High
  <2> QED
    BY <2>1, <2>2, <1>g, <1>o, <1>s DEF InRun
<1>x. 0 \in 0 .. TotalRequests /\ TotalRequests \in Nat /\ Records \subseteq Nat
  BY <1>z DEF Sized
<1>1. TypeOK'
  <2>1. QTypeOK'
    BY <1>i, <1>u, <1>g DEF TypeOK, QTypeOK
  <2>2. stamps' \in Nat
    BY <1>g
  <2>3. stored' \subseteq Nat /\ reported' \subseteq Records
    BY <1>g, <1>i DEF TypeOK
  <2>4. "created" \in RequestStates /\ 1 \in 1 .. 2
    BY DEF RequestStates
  <2>5. request' \in [Records -> RequestStates]
    BY <2>4, <1>g
  <2>6. stage' \in [Records -> 1 .. 2]
    BY <2>4, <1>g
  <2>7. filler' \in [Records -> {"created", "running", "yielded"}]
    BY <1>g
  <2>8. /\ next_unstarted' \in 0 .. TotalRequests
        /\ next_to_complete' \in 0 .. TotalRequests
        /\ requests_completed' \in 0 .. TotalRequests
    BY <1>g, <1>x, <1>i DEF TypeOK
  <2>9. /\ at' \in {"set up", "schedule", "resumed", "await"}
        /\ interleaved_started' \in BOOLEAN
    BY <1>g
  <2> QED
    BY <2>1, <2>2, <2>3, <2>5, <2>6, <2>7, <2>8, <2>9, <1>i, <1>u DEF TypeOK
<1>2. RunFits' /\ Idle'
  BY <1>d, <1>f, <1>n, <1>s DEF RunFits, Idle, Fits
<1>3. Queues'
  BY <1>q, <1>u, <1>g DEF Queues
<1>4. Fresh'
  BY <1>r, <1>g, <1>s DEF Fresh, RunShape
<1>5. Staged'
  BY <1>g DEF Staged
<1>6. Shape'
  <2>1. \A r \in Records : ~(r < 0) /\ r >= 0
    BY <1>x
  <2>2. Low' \in 0 .. TotalRequests /\ High' \in Low' .. TotalRequests
    BY <1>n, <1>x
  <2>3. \A r \in Records : request'[r] = "created"
    BY <1>g
  <2>4. Runner.request.counts => requests_completed' = 0
    BY <1>o
  <2> QED
    BY <2>1, <2>2, <2>3, <2>4, <1>n, <1>c, <1>u, <1>s DEF Shape
<1>7. Position'
  BY <1>r, <1>c, <1>g, <1>u, <1>s DEF Position, RunShape
<1>8. Fillers'
  <2>1. 0 \in Records
    BY <1>z DEF Sized
  <2> QED
    BY <2>1, <1>c, <1>g, <1>u, <1>s DEF Fillers, FillerState
<1>9. Stamped'
  <2>1. Executor.stamps => Harnessed.interval \in Nat \ {0}
    BY <1>r DEF RunShape
  <2>2. \A k \in Nat \ {0} : 1 + 0 \div k = 1
    OBVIOUS
  <2>3. Executor.stamps => 1 + 0 \div Harnessed.interval = 1
    BY <2>1, <2>2
  <2>4. Executor.stamps => stamps' = 1
    BY <1>g
  <2>5. next_to_complete' = 0
    BY <1>g
  <2> QED
    BY <2>3, <2>4, <2>5, <1>s DEF Stamped
<1>10. Exits'
  BY <1>i, <1>c, <1>u DEF Exits, InRun
<1> QED
  BY <1>1, <1>2, <1>3, <1>4, <1>5, <1>6, <1>7, <1>8, <1>9, <1>10 DEF FInv

\* A program fills a global buffer between two runs.
LEMMA PopulateStep ==
  ASSUME PlansFit, FInv, Up, Populate
  PROVE  FInv'
<1>i. TypeOK /\ Idle /\ Queues
  BY DEF FInv
<1>u. /\ at = "set up" /\ run' = run + 1
      /\ UNCHANGED <<wq, comp_status, plan, iter, at, cpu, running, request,
                     stage, next_unstarted, next_to_complete,
                     requests_completed, filler, interleaved_started, p_sig,
                     stamps, stored, reported, exit>>
  BY DEF Populate, qvars, counters, fillers, results
<1>1. run' \in 1 .. Len(plan) + 1
  <2>1. plan \in Plans /\ run \in 1 .. Len(plan) + 1 /\ ~(run > Len(plan))
    BY <1>i DEF TypeOK, Up, Finished
  <2>2. Len(plan) \in Nat
    BY <2>1, FittingPlans
  <2>3. \A n \in Nat : \A k \in 1 .. n + 1 :
          /\ 1 \in 1 .. n + 1
          /\ ~(k > n) => k + 1 \in 1 .. n + 1
    OBVIOUS
  <2> QED
    BY <2>1, <2>2, <2>3, <1>u
<1>2. TypeOK'
  BY <1>i, <1>u, <1>1 DEF TypeOK, QTypeOK
<1>3. wq["dsa"] = {} /\ wq["iaa"] = {}
  <2>1. wq["dsa"] \subseteq Records /\ wq["iaa"] \subseteq Records
    BY <1>i DEF TypeOK, QTypeOK, Devices
  <2> QED
    BY <2>1, <1>i, <1>u DEF Queues, Idle, InRun
<1>4. cpu = "executor" /\ \A r \in Records : request[r] = "created"
  BY <1>i, <1>u DEF Idle, InRun
<1> QED
  BY <1>2, <1>3, <1>4, <1>u, BetweenRuns DEF Up

\* A harness tears down what it set up.
LEMMA TearDownStep ==
  ASSUME PlansFit, FInv, Up, TearDown
  PROVE  FInv'
<1>i. TypeOK /\ RunFits
  BY DEF FInv
<1>c. InRun /\ cpu = "executor" /\ at = "schedule" /\ Done
  BY DEF TearDown, InRun
<1>r. RunShape
  BY <1>i, <1>c, ShapeOfFits DEF RunFits
<1>u. /\ request' = [r \in Records |-> "created"] /\ p_sig' = Dangling
      /\ at' = "set up"
      /\ \/ iter < Iterations /\ iter' = iter + 1 /\ run' = run
         \/ iter' = 1 /\ run' = run + 1
      /\ UNCHANGED <<wq, comp_status, plan, cpu, running, stage,
                     next_unstarted, next_to_complete, requests_completed,
                     filler, interleaved_started, stamps, reported, exit>>
  BY DEF TearDown, qvars, counters
<1>q. wq["dsa"] = {} /\ wq["iaa"] = {}
  BY <1>c, EndOfLoop
<1>1. run' \in 1 .. Len(plan) + 1
  <2>1. plan \in Plans /\ run \in 1 .. Len(plan) + 1 /\ ~(run > Len(plan))
    BY <1>i DEF TypeOK, Up, Finished
  <2>2. Len(plan) \in Nat
    BY <2>1, FittingPlans
  <2>3. \A n \in Nat : \A k \in 1 .. n + 1 :
          /\ 1 \in 1 .. n + 1
          /\ ~(k > n) => k + 1 \in 1 .. n + 1
    OBVIOUS
  <2> QED
    BY <2>1, <2>2, <2>3, <1>u
<1>2. iter' \in 1 .. Iterations
  <2>1. iter \in 1 .. Iterations /\ Iterations \in Nat \ {0}
    BY <1>i, HwPlansAssumption DEF TypeOK
  <2>2. \A n \in Nat \ {0} : \A k \in 1 .. n :
          /\ 1 \in 1 .. n
          /\ k < n => k + 1 \in 1 .. n
    OBVIOUS
  <2> QED
    BY <2>1, <2>2, <1>u
<1>3. stored' \subseteq Nat
  <2>1. (iter - 1) * Runner.slots \in Nat
    <3>1. iter - 1 \in Nat
      <4>1. iter \in 1 .. Iterations /\ Iterations \in Nat
        BY <1>i, HwPlansAssumption DEF TypeOK
      <4>2. \A n \in Nat : \A k \in 1 .. n : k - 1 \in Nat
        OBVIOUS
      <4> QED
        BY <4>1, <4>2
    <3>2. Runner.slots \in Nat
      BY <1>r DEF RunShape
    <3>3. \A a, b \in Nat : a * b \in Nat
      OBVIOUS
    <3> QED
      BY <3>1, <3>2, <3>3
  <2>2. \A a \in Nat : \A b : a .. b \subseteq Nat
    OBVIOUS
  <2> QED
    BY <2>1, <2>2, <1>i DEF TearDown, TypeOK
<1>4. TypeOK'
  BY <1>i, <1>u, <1>1, <1>2, <1>3 DEF TypeOK, QTypeOK, RequestStates
<1> QED
  BY <1>4, <1>q, <1>c, <1>u, BetweenRuns DEF Up

-----------------------------------------------------------------------------
(***************************************************************************)
(* The devices.                                                            *)
(***************************************************************************)
\* A device answers one descriptor.
LEMMA AnswerStep ==
  ASSUME FInv, Up, NEW c \in Records, Answer(c)
  PROVE  FInv'
<1>i. /\ TypeOK /\ RunFits /\ Idle /\ Queues /\ Fresh /\ Staged /\ Shape
      /\ Position /\ Fillers /\ Stamped /\ Exits
  BY DEF FInv
<1>z. Sized
  BY <1>i, SizedFacts
<1>u. UNCHANGED <<plan, run, iter, at, cpu, running, request, stage,
                  next_unstarted, next_to_complete, requests_completed, filler,
                  interleaved_started, p_sig, stamps, stored, reported, live,
                  exit>>
  BY DEF Answer, program, hvars, counters, fillers, results
<1>g. PICK d \in Devices, s \in {COMPLETED, ERROR} :
        /\ c \in wq[d]
        /\ wq' = [wq EXCEPT ![d] = @ \ {c}]
        /\ comp_status' = [comp_status EXCEPT ![c] = s]
  BY DEF Answer, DeviceCompletes
<1>s. /\ Runner' = Runner /\ Harnessed' = Harnessed /\ Executor' = Executor
      /\ Stages' = Stages /\ Schedule' = Schedule /\ Finished' = Finished
  BY <1>u, SameRun DEF program
<1>n. Low' = Low /\ High' = High /\ InRun' = InRun
  BY <1>u, <1>s DEF Low, High, InRun
<1>q. request[c] \in {"waiting", "yielded"}
  <2>1. d = "dsa" \/ d = "iaa"
    BY DEF Devices
  <2> QED
    BY <2>1, <1>g, <1>i DEF Queues
<1>w. wq \in [Devices -> SUBSET Records] /\ wq' \in [Devices -> SUBSET Records]
  BY <1>i, <1>g DEF TypeOK, QTypeOK
<1>1. TypeOK'
  <2>1. QTypeOK'
    BY <1>i, <1>g, <1>w DEF TypeOK, QTypeOK
  <2> QED
    BY <2>1, <1>i, <1>u DEF TypeOK
<1>2. Queues'
  <2>1. /\ wq'["dsa"] = IF d = "dsa" THEN wq["dsa"] \ {c} ELSE wq["dsa"]
        /\ wq'["iaa"] = IF d = "iaa" THEN wq["iaa"] \ {c} ELSE wq["iaa"]
    BY <1>g, <1>w DEF Devices
  <2>2. c \notin wq'["dsa"] /\ c \notin wq'["iaa"]
    BY <2>1, <1>g, <1>i DEF Queues, Devices
  <2>3. /\ wq'["dsa"] \subseteq wq["dsa"] /\ wq'["iaa"] \subseteq wq["iaa"]
    BY <2>1
  <2>4. \A r \in Records : r # c => comp_status'[r] = comp_status[r]
    BY <1>g, <1>z DEF Sized
  <2> QED
    BY <2>2, <2>3, <2>4, <1>q, <1>i, <1>u DEF Queues
<1>3. Fresh'
  <2>1. \A r \in Records :
          InRun /\ Schedule = "overlapping" /\ r >= next_unstarted =>
            request[r] = "created"
    <3>1. Schedule = "overlapping" => High = next_unstarted
      BY DEF High
    <3> QED
      BY <3>1, <1>i DEF Shape
  <2>2. \A r \in Records : r # c => comp_status'[r] = comp_status[r]
    BY <1>g, <1>z DEF Sized
  <2> QED
    BY <2>1, <2>2, <1>q, <1>i, <1>n, <1>s, <1>u DEF Fresh
<1>4. RunFits' /\ Idle' /\ Staged' /\ Exits'
  BY <1>i, <1>u, <1>s, <1>n DEF RunFits, Idle, Staged, Exits
<1>5. Shape' /\ Position'
  BY <1>i, <1>u, <1>s, <1>n DEF Shape, Position, Submitting, Finishing
<1>6. Fillers' /\ Stamped'
  BY <1>i, <1>u, <1>s, <1>n DEF Fillers, FillerState, Stamped
<1> QED
  BY <1>1, <1>2, <1>3, <1>4, <1>5, <1>6 DEF FInv

-----------------------------------------------------------------------------
(***************************************************************************)
(* The invariant and what follows from it.                                 *)
(***************************************************************************)
\* The invariant holds before the first run,
LEMMA FInvInit ==
  ASSUME PlansFit, Init
  PROVE  FInv
<1>1. TotalRequests \in Nat \ {0} /\ Records = 0 .. TotalRequests - 1
      /\ Iterations \in Nat \ {0}
  BY HwPlansAssumption
<1>2. 0 \in Records /\ 0 \in 0 .. TotalRequests /\ 1 \in 1 .. Iterations
  BY <1>1
<1>3. 1 \in 1 .. Len(plan) + 1
  <2>1. Len(plan) \in Nat
    BY FittingPlans DEF Init
  <2> QED
    BY <2>1
<1>4. TypeOK
  <2>1. QTypeOK
    BY DEF Init, QInit, QTypeOK
  <2>2. /\ plan \in Plans /\ run \in 1 .. Len(plan) + 1
        /\ iter \in 1 .. Iterations
    BY <1>2, <1>3 DEF Init
  <2>3. /\ running \in Records
        /\ next_unstarted \in 0 .. TotalRequests
        /\ next_to_complete \in 0 .. TotalRequests
        /\ requests_completed \in 0 .. TotalRequests
    BY <1>2 DEF Init
  <2>4. /\ request \in [Records -> RequestStates]
        /\ stage \in [Records -> 1 .. 2]
        /\ filler \in [Records -> {"created", "running", "yielded"}]
    <3>1. "created" \in RequestStates /\ 1 \in 1 .. 2
      BY DEF RequestStates
    <3>2. request \in [Records -> RequestStates]
      BY <3>1 DEF Init
    <3>3. stage \in [Records -> 1 .. 2]
      BY <3>1 DEF Init
    <3>4. filler \in [Records -> {"created", "running", "yielded"}]
      BY DEF Init
    <3> QED
      BY <3>2, <3>3, <3>4
  <2>5. /\ at \in {"set up", "schedule", "resumed", "await"}
        /\ cpu \in {"executor", "request", "filler"}
        /\ interleaved_started \in BOOLEAN
        /\ p_sig \in Records \cup {Dangling}
        /\ stamps \in Nat /\ stored \subseteq Nat /\ reported \subseteq Records
        /\ exit \in {"no", "refused", "failed", "stray", "division by zero"}
    BY DEF Init
  <2> QED
    BY <2>1, <2>2, <2>3, <2>4, <2>5 DEF TypeOK
<1>5. ~InRun
  BY DEF InRun, Init
<1>6. wq["dsa"] = {} /\ wq["iaa"] = {}
  BY DEF Init, QInit, Devices
<1> QED
  BY <1>4, <1>5, <1>6
     DEF Init, FInv, RunFits, Idle, Queues, Fresh, Staged, Shape, Position,
         Fillers, Stamped, Exits

\* and every step keeps it.
LEMMA FInvNext ==
  ASSUME PlansFit, FInv, [Next]_vars
  PROVE  FInv'
<1>1. ASSUME Host PROVE FInv'
  BY <1>1, SetUpStep, PopulateStep, TearDownStep, ResumeOldestStep,
     ResumedStep, StartAnotherStep, StartNextStep, StartOneStep,
     EnterFillerStep, YieldFillerStep, ResumeOneStep, PrepareStep, SubmitStep,
     ReturnStep, SpinOnStep, CheckStep, CompleteStep DEF Host
<1>2. ASSUME Up, NEW c \in Records, Answer(c) PROVE FInv'
  BY <1>2, AnswerStep
<1>3. ASSUME UNCHANGED vars PROVE FInv'
  <2>u. UNCHANGED <<wq, comp_status, plan, run, iter, at, cpu, running,
                    request, stage, next_unstarted, next_to_complete,
                    requests_completed, filler, interleaved_started, p_sig,
                    stamps, stored, reported, live, exit>>
    BY <1>3 DEF vars, qvars, program, hvars, counters, fillers, results
  <2>s. /\ Runner' = Runner /\ Harnessed' = Harnessed /\ Executor' = Executor
        /\ Stages' = Stages /\ Schedule' = Schedule /\ Finished' = Finished
    BY <2>u, SameRun DEF program
  <2>n. Low' = Low /\ High' = High /\ InRun' = InRun
    BY <2>u, <2>s DEF Low, High, InRun
  <2>1. TypeOK'
    BY <2>u DEF FInv, TypeOK, QTypeOK
  <2>2. RunFits' /\ Idle' /\ Queues' /\ Fresh' /\ Staged' /\ Exits'
    BY <2>u, <2>s, <2>n
       DEF FInv, RunFits, Idle, Queues, Fresh, Staged, Exits
  <2>3. Shape' /\ Position'
    BY <2>u, <2>s, <2>n DEF FInv, Shape, Position, Submitting, Finishing
  <2>4. Fillers' /\ Stamped'
    BY <2>u, <2>s, <2>n DEF FInv, Fillers, FillerState, Stamped
  <2> QED
    BY <2>1, <2>2, <2>3, <2>4 DEF FInv
<1> QED
  BY <1>1, <1>2, <1>3 DEF Next, Stopped

\* The invariant holds of every program that pairs executors and requests the
\* way the programs of the repository do.
THEOREM RunsInvariant == PlansFit => (Spec => []FInv)
<1> SUFFICES ASSUME PlansFit PROVE Spec => []FInv
  OBVIOUS
<1>1. Init => FInv
  BY FInvInit
<1>2. FInv /\ [Next]_vars => FInv'
  BY FInvNext
<1> QED
  BY <1>1, <1>2, PTL DEF Spec

\* Types: every index the executors use stays in its array.
THEOREM RunsTypes == PlansFit => (Spec => []TypeOK)
<1>1. FInv => TypeOK
  BY DEF FInv
<1> QED
  BY <1>1, RunsInvariant, PTL

\* The executors enter only fibers that have not started or have yielded,
\* and no sampling interval is zero unless a run is to have more samples than
\* requests (fcontext_swap in request_executors.cpp, the division in
\* test_harness.cpp).
THEOREM NeverEntersStrayFiber == PlansFit => (Spec => []NeverStray)
<1>1. FInv => NeverStray
  BY DEF FInv, Exits, NeverStray
<1> QED
  BY <1>1, RunsInvariant, PTL

\* A filler that runs probes the record of the request in flight.
THEOREM FillerProbesTheRecord == PlansFit => (Spec => []FillerWatches)
<1>1. FInv => FillerWatches
  <2> SUFFICES ASSUME FInv, cpu = "filler" PROVE FillerWatches
    BY DEF FillerWatches
  <2>1. InRun
    BY DEF FInv, Idle
  <2>2. /\ Schedule = "one in flight" /\ at = "await"
        /\ running = requests_completed
    BY <2>1 DEF FInv, Position
  <2>3. p_sig = requests_completed
    BY <2>1, <2>2 DEF FInv, Fillers
  <2>4. running \in Records /\ Records = 0 .. TotalRequests - 1
    BY SizedFacts DEF FInv, Sized
  <2>5. Low = running /\ High = running + 1
    BY <2>2 DEF Low, High
  <2>6. Low <= running /\ running < High
    <3>1. \A n \in 0 .. TotalRequests - 1 : n <= n /\ n < n + 1
      BY HwPlansAssumption
    <3> QED
      BY <3>1, <2>4, <2>5
  <2>7. request[running] = "yielded"
    BY <2>1, <2>4, <2>6 DEF FInv, Shape
  <2> QED
    BY <2>2, <2>3, <2>7 DEF FillerWatches
<1> QED
  BY <1>1, RunsInvariant, PTL

\* When a harness frees contexts, records and buffers, every request is
\* finished and no device holds a descriptor.
THEOREM FreesAfterTheLast == PlansFit => (Spec => []TeardownSafe)
<1>1. FInv => TeardownSafe
  <2> SUFFICES ASSUME FInv, Up, cpu = "executor", at = "schedule", Done
               PROVE  /\ InFlight = {}
                      /\ \A r \in Records : request[r] = "finished"
    BY DEF TeardownSafe
  <2>1. InRun
    BY DEF InRun
  <2> QED
    BY <2>1, EndOfLoop DEF InFlight, Devices
<1> QED
  BY <1>1, RunsInvariant, PTL

\* A record that has an answer is in no queue: no device writes it again.
THEOREM NoLateAnswer == PlansFit => (Spec => []QuietOnceAnswered)
<1>1. FInv => QuietOnceAnswered
  BY DEF FInv, Queues, QuietOnceAnswered, InFlight, Devices
<1> QED
  BY <1>1, RunsInvariant, PTL

\* The sampling executor has stamped its start and each interval completed.
THEOREM StampsEachInterval == PlansFit => (Spec => []StampsExact)
<1>1. FInv => StampsExact
  <2> SUFFICES ASSUME FInv, at = "schedule", cpu = "executor", Executor.stamps
               PROVE  stamps = 1 + requests_completed \div Harnessed.interval
    BY DEF StampsExact
  <2>1. InRun
    BY DEF InRun
  <2>2. RunShape
    BY <2>1, ShapeOfFits DEF FInv, RunFits
  <2>3. Schedule = "overlapping" /\ Runner.request.counts
    BY <2>2 DEF RunShape
  <2>4. requests_completed = Low /\ Low = next_to_complete
    BY <2>1, <2>3 DEF FInv, Shape, Low
  <2> QED
    BY <2>1, <2>4 DEF FInv, Stamped
<1> QED
  BY <1>1, RunsInvariant, PTL

\* A refused submission can end the process only in a run that overlaps more
\* requests than the queue holds.
THEOREM RefusalNeedsLoad == PlansFit => (Spec => []RefusedOnlyUnderLoad)
<1>1. FInv => RefusedOnlyUnderLoad
  BY DEF FInv, Exits, RefusedOnlyUnderLoad, Schedule
<1> QED
  BY <1>1, RunsInvariant, PTL
-----------------------------------------------------------------------------
(***************************************************************************)
(* Where results are stored.                                               *)
(***************************************************************************)
\* The runs of the plans have as many slots as their executors have results.
SlotsFit == \A p \in Plans : \A k \in 1 .. Len(p) : SlotsOf(p[k])

\* Those of the repository's programs do, if the samples of a run divide its
\* requests.
THEOREM CodesSlotsFit ==
  Plans \subseteq Programs /\ SamplesDivide => SlotsFit
<1> SUFFICES ASSUME Plans \subseteq Programs, SamplesDivide,
                    NEW p \in Plans, NEW k \in 1 .. Len(p)
             PROVE  SlotsOf(p[k])
  BY DEF SlotsFit
<1>1. PICK S : p \in Seq(S) /\ \A x \in S : SlotsOf(x)
  BY ProgramsSlotted DEF Slotted
<1>2. p[k] \in S
  BY <1>1
<1> QED
  BY <1>1, <1>2

\* What the iterations of a run before this one have stored.
Before == (iter - 1) * Runner.slots

Filled ==
  /\ iter > 1 => ~Finished /\ Runner.kind = "runs"
  /\ InRun \/ iter > 1 => stored = 0 .. Before - 1

\* The slots of one iteration follow those of the ones before.
LEMMA NextSlots ==
  \A i \in Nat \ {0} : \A s \in Nat :
    /\ (i - 1) * s \in Nat
    /\ i * s = (i - 1) * s + s
    /\ (i + 1 - 1) * s = i * s
    /\ 0 .. (i - 1) * s - 1 \cup (i - 1) * s .. (i - 1) * s + s - 1
         = 0 .. i * s - 1
<1> TAKE i \in Nat \ {0}
<1> TAKE s \in Nat
<1>1. (i - 1) * s \in Nat /\ i * s = (i - 1) * s + s /\ i + 1 - 1 = i
  OBVIOUS
<1>2. \A m \in Nat : 0 .. m - 1 \cup m .. m + s - 1 = 0 .. m + s - 1
  OBVIOUS
<1> QED
  BY <1>1, <1>2

\* An executor stores as many results as its run has slots.
LEMMA SlotsOfRun ==
  ASSUME SlotsFit, FInv, InRun
  PROVE  SlotsWritten = Runner.slots /\ Runner.slots \in Nat
<1>1. ~Finished /\ Fits(Runner)
  BY DEF FInv, RunFits
<1>2. Runner.kind = "runs" /\ Runner.slots \in Nat
  BY <1>1 DEF Fits
<1>3. plan \in Plans /\ run \in 1 .. Len(plan)
  <2>1. plan \in Plans /\ run \in 1 .. Len(plan) + 1
    BY DEF FInv, TypeOK
  <2> QED
    BY <2>1, <1>1 DEF Finished
<1> QED
  BY <1>2, <1>3
     DEF SlotsFit, SlotsOf, SlotsWritten, Runner, Executor, Harnessed

\* Each run stores its results behind those of the iterations before it.
LEMMA FilledNext ==
  ASSUME SlotsFit, PlansFit, FInv, Filled, [Next]_vars
  PROVE  /\ Filled'
         /\ at = "schedule" /\ at' = "set up" =>
              stored' = 0 .. iter * Runner.slots - 1
<1>i. iter \in Nat \ {0} /\ Iterations \in Nat
  <2>1. iter \in 1 .. Iterations
    BY DEF FInv, TypeOK
  <2>2. Iterations \in Nat
    BY HwPlansAssumption
  <2> QED
    BY <2>1, <2>2
<1>1. ASSUME UNCHANGED <<program, stored>>, InRun' <=> InRun
      PROVE  Filled' /\ ~(at = "schedule" /\ at' = "set up")
  <2>1. Runner' = Runner /\ Finished' = Finished /\ iter' = iter
    BY <1>1, SameRun DEF program
  <2>2. Before' = Before
    BY <2>1 DEF Before
  <2> QED
    BY <1>1, <2>1, <2>2 DEF Filled, InRun
<1>2. CASE UNCHANGED vars
  BY <1>1, <1>2 DEF vars, hvars, results, InRun
<1>3. CASE \E c \in Records : Answer(c)
  BY <1>1, <1>3 DEF Answer, hvars, results, InRun
<1>4. CASE \/ ResumeOldest \/ Resumed \/ StartAnother \/ StartNext
           \/ StartOne \/ EnterFiller \/ YieldFiller \/ ResumeOne
  <2>1. UNCHANGED <<program, stored>> /\ (InRun' <=> InRun)
    BY <1>4
       DEF ResumeOldest, Resumed, StartAnother, StartNext, StartOne,
           EnterFiller, YieldFiller, ResumeOne, AtSchedule, Awaiting, results,
           FInv, Idle, InRun
  <2> QED
    BY <2>1, <1>1
<1>5. CASE Prepare \/ Submit \/ SubmitFails \/ SpinOn \/ Check \/ GiveUp
           \/ Complete
  <2>1. UNCHANGED <<program, stored>> /\ (InRun' <=> InRun)
    BY <1>5
       DEF Prepare, Submit, SubmitFails, SpinOn, Check, GiveUp, Complete,
           Return, results, InRun
  <2> QED
    BY <2>1, <1>1
<1>6. CASE SetUp
  <2>1. UNCHANGED program /\ ~(at = "schedule")
    BY <1>6 DEF SetUp
  <2>2. Runner' = Runner /\ Finished' = Finished /\ iter' = iter
    BY <2>1, SameRun DEF program
  <2>3. Before' = Before
    BY <2>2 DEF Before
  <2>4. CASE Harnessed.interval = 0
    <3>1. stored' = stored /\ (InRun' <=> InRun)
      BY <1>6, <2>4 DEF SetUp, results, InRun
    <3> QED
      BY <3>1, <2>1, <1>1
  <2>5. CASE Harnessed.interval # 0
    <3>1. stored' = (IF iter = 1 THEN {} ELSE stored) /\ InRun'
      BY <1>6, <2>5 DEF SetUp, InRun
    <3>2. ~Finished /\ Fits(Runner)
      BY <3>1, <2>2, FInvNext DEF FInv, RunFits
    <3>3. Runner.slots \in Nat /\ Runner.kind = "runs"
      BY <3>2 DEF Fits
    <3>4. CASE iter = 1
      <4>1. Before = 0 /\ 0 .. 0 - 1 = {}
        <5>1. \A s \in Nat : (1 - 1) * s = 0
          OBVIOUS
        <5> QED
          BY <5>1, <3>3, <3>4 DEF Before
      <4> QED
        BY <4>1, <3>1, <3>2, <3>3, <3>4, <2>1, <2>2, <2>3 DEF Filled
    <3>5. CASE iter # 1
      <4>1. iter > 1
        BY <3>5, <1>i
      <4>2. stored = 0 .. Before - 1
        BY <4>1 DEF Filled
      <4> QED
        BY <4>2, <3>1, <3>2, <3>3, <3>5, <2>1, <2>2, <2>3 DEF Filled
    <3> QED
      BY <3>4, <3>5, <2>1
  <2> QED
    BY <2>4, <2>5
<1>7. CASE Populate
  <2>1. /\ at = "set up" /\ Runner.kind = "populates" /\ ~InRun'
        /\ iter' = iter
    BY <1>7 DEF Populate, InRun
  <2>2. ~(iter > 1)
    BY <2>1 DEF Filled
  <2> QED
    BY <2>1, <2>2 DEF Filled
<1>8. CASE TearDown
  <2>1. InRun /\ ~InRun'
    BY <1>8 DEF TearDown, InRun
  <2>2. SlotsWritten = Runner.slots /\ Runner.slots \in Nat
    BY <2>1, SlotsOfRun
  <2>3. stored = 0 .. Before - 1
    BY <2>1 DEF Filled
  <2>4. stored' = stored \cup Before .. Before + Runner.slots - 1
    BY <1>8, <2>2 DEF TearDown, Before
  <2>5. stored' = 0 .. iter * Runner.slots - 1
    BY <2>2, <2>3, <2>4, <1>i, NextSlots DEF Before
  <2>6. CASE iter < Iterations
    <3>1. iter' = iter + 1 /\ run' = run /\ plan' = plan
      BY <1>8, <2>6 DEF TearDown
    <3>2. Runner' = Runner /\ Finished' = Finished
      BY <3>1 DEF Runner, Finished
    <3>3. ~Finished /\ Runner.kind = "runs"
      BY <2>1 DEF FInv, RunFits, Fits
    <3>4. Before' = iter * Runner.slots
      BY <3>1, <3>2, <2>2, <1>i, NextSlots DEF Before
    <3> QED
      BY <2>5, <3>2, <3>3, <3>4 DEF Filled
  <2>7. CASE ~(iter < Iterations)
    <3>1. iter' = 1
      BY <1>8, <2>7 DEF TearDown
    <3>2. ~(iter' > 1)
      BY <3>1
    <3> QED
      BY <2>1, <2>5, <3>2 DEF Filled
  <2> QED
    BY <2>6, <2>7
<1> QED
  BY <1>2, <1>3, <1>4, <1>5, <1>6, <1>7, <1>8 DEF Next, Host, Stopped

\* After iteration i of a runner exactly its first i * slots results are
\* there (the arrays of exetime in test_harness.cpp), if its executor has as
\* many results as it has slots.
THEOREM StoresInPlace == PlansFit /\ SlotsFit => (Spec => SamplesExact)
<1> SUFFICES ASSUME PlansFit, SlotsFit PROVE Spec => SamplesExact
  OBVIOUS
<1>1. Init => FInv /\ Filled
  <2>1. Init => Filled
    <3>1. Init => iter = 1 /\ ~InRun
      BY DEF Init, InRun
    <3>2. \A i : i = 1 => ~(i > 1)
      OBVIOUS
    <3> QED
      BY <3>1, <3>2 DEF Filled
  <2> QED
    BY <2>1, FInvInit
<1>2. FInv /\ Filled /\ [Next]_vars => FInv' /\ Filled'
  BY FInvNext, FilledNext
<1>3. FInv /\ Filled /\ [Next]_vars =>
        [at = "schedule" /\ at' = "set up" =>
           stored' = 0 .. iter * Runner.slots - 1]_vars
  BY FilledNext
<1> QED
  BY <1>1, <1>2, <1>3, PTL DEF Spec, SamplesExact

-----------------------------------------------------------------------------
(***************************************************************************)
(* The buffers: the plans set up what their runs touch, but for mlp.       *)
(***************************************************************************)
BuffersHeld == \A p \in Plans : BuffersFit(p)

\* The repository's programs other than mlp do.
THEOREM CodesBuffersHeld == Plans \subseteq Programs \ {Mlp} => BuffersHeld
BY ProgramsBuffersFit DEF BuffersHeld

\* What the plan has filled so far is there, and in a run what it set up.
LiveInv ==
  /\ Populated(plan, run) \subseteq live
  /\ InRun => Runner.alloc \subseteq live

\* A plan fills only global variables, and a run has what it touches.
LEMMA HeldByRun ==
  ASSUME BuffersHeld, PlansFit, TypeOK
  PROVE  /\ Populated(plan, run) \subseteq Globals
         /\ ~Finished /\ Runner.kind # "populates" =>
              Holds(Populated(plan, run), Runner)
<1>1. plan \in Plans /\ run \in 1 .. Len(plan) + 1 /\ Len(plan) \in Nat
  BY FittingPlans DEF TypeOK
<1>2. BuffersFit(plan)
  BY <1>1 DEF BuffersHeld
<1>3. \A l \in 1 .. run - 1 :
        l \in 1 .. Len(plan) /\ (plan[l].kind = "populates" =>
                                   plan[l].buffer \in Globals)
  <2> TAKE l \in 1 .. run - 1
  <2>1. l \in 1 .. Len(plan)
    BY <1>1
  <2> QED
    BY <1>2, <2>1 DEF BuffersFit, Has
<1>4. Populated(plan, run) \subseteq Globals
  BY <1>3 DEF Populated
<1>5. ASSUME ~Finished, Runner.kind # "populates"
      PROVE  Holds(Populated(plan, run), Runner)
  <2>1. run \in 1 .. Len(plan)
    BY <1>1, <1>5 DEF Finished
  <2> QED
    BY <1>2, <1>5, <2>1 DEF BuffersFit, Has, Runner
<1> QED
  BY <1>4, <1>5

\* Going on to the next runner adds what the program filled.
LEMMA PopulatedNext ==
  ASSUME NEW p, NEW k \in Nat \ {0}
  PROVE  Populated(p, k + 1) =
           IF p[k].kind = "populates" THEN Populated(p, k) \cup {p[k].buffer}
                                      ELSE Populated(p, k)
<1>1. 1 .. (k + 1) - 1 = (1 .. k - 1) \cup {k}
  OBVIOUS
<1> QED
  BY <1>1 DEF Populated

\* Every step keeps them: buffers of the program outlive the runs.
LEMMA LiveNext ==
  ASSUME BuffersHeld, PlansFit, FInv, LiveInv, [Next]_vars
  PROVE  LiveInv'
<1>t. TypeOK /\ TypeOK' /\ FInv'
  BY FInvNext DEF FInv
<1>r. run \in Nat \ {0}
  <2>1. plan \in Plans /\ run \in 1 .. Len(plan) + 1 /\ Len(plan) \in Nat
    BY <1>t, FittingPlans DEF TypeOK
  <2> QED
    BY <2>1
<1>1. ASSUME UNCHANGED <<program, live>>, InRun' => InRun
      PROVE  LiveInv'
  BY <1>1, SameRun DEF LiveInv, program
<1>2. CASE UNCHANGED vars
  BY <1>1, <1>2 DEF vars, hvars, InRun
<1>3. CASE \E c \in Records : Answer(c)
  BY <1>1, <1>3 DEF Answer, hvars, InRun
<1>4. CASE \/ ResumeOldest \/ Resumed \/ StartAnother \/ StartNext
           \/ StartOne \/ EnterFiller \/ YieldFiller \/ ResumeOne
  <2>1. UNCHANGED <<program, live>> /\ (InRun' => InRun)
    BY <1>4
       DEF ResumeOldest, Resumed, StartAnother, StartNext, StartOne,
           EnterFiller, YieldFiller, ResumeOne, AtSchedule, Awaiting, results,
           FInv, Idle, InRun
  <2> QED
    BY <2>1, <1>1
<1>5. CASE Prepare \/ Submit \/ SubmitFails \/ SpinOn \/ Check \/ GiveUp
           \/ Complete
  <2>1. UNCHANGED <<program, live>> /\ (InRun' => InRun)
    BY <1>5
       DEF Prepare, Submit, SubmitFails, SpinOn, Check, GiveUp, Complete,
           Return, results, InRun
  <2> QED
    BY <2>1, <1>1
<1>6. CASE SetUp
  <2>1. UNCHANGED program
    BY <1>6 DEF SetUp
  <2>2. CASE Harnessed.interval = 0
    BY <1>1, <1>6, <2>1, <2>2 DEF SetUp, InRun
  <2>3. CASE Harnessed.interval # 0
    <3>1. live' = (live \cap Globals) \cup Runner.alloc
      BY <1>6, <2>3 DEF SetUp
    <3>2. Populated(plan, run) \subseteq Globals
      BY <1>t, HeldByRun
    <3>3. Runner' = Runner /\ plan' = plan /\ run' = run
      BY <2>1, SameRun DEF program
    <3> QED
      BY <3>1, <3>2, <3>3 DEF LiveInv
  <2> QED
    BY <2>2, <2>3
<1>7. CASE Populate
  <2>1. /\ plan' = plan /\ run' = run + 1 /\ live' = live \cup {Runner.buffer}
        /\ ~InRun' /\ plan[run].kind = "populates"
    BY <1>7 DEF Populate, InRun, Runner
  <2>2. Populated(plan, run + 1) = Populated(plan, run) \cup {Runner.buffer}
    BY <1>r, <2>1, PopulatedNext DEF Runner
  <2> QED
    BY <2>1, <2>2 DEF LiveInv
<1>8. CASE TearDown
  <2>1. /\ plan' = plan /\ run' \in {run, run + 1}
        /\ live' = live \ Runner.free /\ ~InRun' /\ InRun
    BY <1>8 DEF TearDown, InRun
  <2>2. ~Finished /\ Runner.kind = "runs"
    BY <2>1 DEF FInv, RunFits, Fits
  <2>3. Populated(plan, run + 1) = Populated(plan, run)
    BY <1>r, <2>2, PopulatedNext DEF Runner
  <2>4. Runner.free \cap Populated(plan, run) = {}
    BY <1>t, <2>2, HeldByRun DEF Holds
  <2> QED
    BY <2>1, <2>3, <2>4 DEF LiveInv
<1> QED
  BY <1>2, <1>3, <1>4, <1>5, <1>6, <1>7, <1>8 DEF Next, Host, Stopped

\* So the buffers of the plan and of the run in progress are always there.
LEMMA BuffersStay ==
  PlansFit /\ BuffersHeld => (Spec => [](FInv /\ LiveInv))
<1> SUFFICES ASSUME PlansFit, BuffersHeld PROVE Spec => [](FInv /\ LiveInv)
  OBVIOUS
<1>1. Init => FInv /\ LiveInv
  <2> SUFFICES ASSUME Init PROVE FInv /\ LiveInv
    OBVIOUS
  <2>1. run = 1 /\ ~InRun
    BY DEF Init, InRun
  <2>2. 1 .. run - 1 = {}
    BY <2>1
  <2> QED
    BY <2>1, <2>2, FInvInit DEF LiveInv, Populated
<1>2. FInv /\ LiveInv /\ [Next]_vars => FInv' /\ LiveInv'
  BY FInvNext, LiveNext
<1> QED
  BY <1>1, <1>2, PTL DEF Spec

\* The request functions and the fillers of every plan touch only buffers
\* that an allocator set up and no free function has freed.
THEOREM TouchesOnlyLive == PlansFit /\ BuffersHeld => (Spec => []ReadsLive)
<1> SUFFICES ASSUME PlansFit, BuffersHeld PROVE Spec => []ReadsLive
  OBVIOUS
<1>1. FInv /\ LiveInv => ReadsLive
  <2> SUFFICES ASSUME FInv, LiveInv, cpu # "executor"
               PROVE  /\ Runner.request.uses \subseteq live
                      /\ Runner.filler \subseteq live
    BY DEF ReadsLive
  <2>1. InRun
    BY DEF FInv, Idle
  <2>2. ~Finished /\ Runner.kind = "runs" /\ TypeOK
    BY <2>1 DEF FInv, RunFits, Fits
  <2>3. Holds(Populated(plan, run), Runner)
    BY <2>2, HeldByRun
  <2> QED
    BY <2>1, <2>3 DEF Holds, LiveInv
<1> QED
  BY <1>1, BuffersStay, PTL

\* When an executor's loop ends, the free function of its run frees buffers
\* that are allocated: nothing is freed twice.
THEOREM FreesOnlyLive == PlansFit /\ BuffersHeld => (Spec => []FreesLive)
<1> SUFFICES ASSUME PlansFit, BuffersHeld PROVE Spec => []FreesLive
  OBVIOUS
<1>1. FInv /\ LiveInv => FreesLive
  <2> SUFFICES ASSUME FInv, LiveInv, InRun
               PROVE  Runner.free \subseteq live
    BY DEF FreesLive, InRun
  <2>1. ~Finished /\ Runner.kind = "runs" /\ TypeOK
    BY DEF FInv, RunFits, Fits
  <2>2. Holds(Populated(plan, run), Runner)
    BY <2>1, HeldByRun
  <2> QED
    BY <2>2 DEF Holds, LiveInv
<1> QED
  BY <1>1, BuffersStay, PTL
=============================================================================
