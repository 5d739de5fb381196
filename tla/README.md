# XMPGym in TLA+

XMPGym measures how software should use on-chip accelerators: a request does
some work on the CPU, hands a part to an accelerator, and either spins until it
is done, or yields its fiber so that another request fills the time. This
directory models that machinery, over the emulated accelerator and over the DSA
and IAA hardware queues, and the data algorithms the requests are made of. It
model-checks them, and proves for every size of the instance what the runs check
of them, but for liveness. Paths start with `src/`, the directory that holds the
repository.

## 1. Inventory of the system

| part | state it keeps | operations | interacts with |
|---|---|---|---|
| emulated accelerator, `src/src/emul_ax.cpp` | atomics `submit_flag`, `submit_status`, `compl_addr`, `p_dst_buf`, `total_offloads`; the thread's list of offloads and three redundant locals | start, stop, the thread's polling loop | host thread, through the atomics and the completion records |
| mailbox submission, `src/src/offload.cpp` | retries left (local), completion records | `submit_offload`, `allocate_crs` | the ax thread |
| hardware submission, `src/inc/inline/submit.ipp`, `src/src/iaa_offloads.cpp`, `src/src/dsa_offloads.cpp` | descriptors, completion records, the device's work queue | prepare, submit (once, or until accepted) | IAA and DSA devices |
| request functions, `src/src/*_request*.cpp`, `src/three_phase*.cpp` | `requests_completed`, time stamps | one fiber per request: prepare, submit, wait or yield, post-process | executor (fiber switches), accelerator |
| executors, `src/src/request_executors.cpp` | indices of the next request to start and the oldest in flight, saved fiber handles | start, resume, run a filler | request fibers, completion records |
| fillers and probes, `src/inc/filler_*.h`, `src/inc/probe_point.h` | the record a filler watches | yield when the watched record completes | executor |
| harnesses, `src/src/test_harness.cpp` | arrays of records, arguments, fibers | allocate, execute, free | executors |
| runners and statistics, `src/src/runners.cpp`, `src/src/stats.cpp`, `src/inc/timer_utils.h` | sample arrays | repeat a harness, average | harnesses |
| programs, `src/walker.cpp`, `src/switch_to_fill.cpp`, `src/decomp_and_*.cpp`, ... | the ax thread's handle, log level | a plan of runs | all of the above |
| hashing, `src/src/ch3_hash.cpp` | a cache of words on the stack | `furc_hash`: bits of a stream until they spell a shard | decompress-and-hash and router requests |
| posting lists, `src/src/posting_list.cpp`, `src/src/dsa_alloc.cpp` | the lists on the heap | build (by the host, or node by node by the DSA, again after a fault), intersect, walk, free | walker's requests, DSA |
| pointer chains, `src/src/payload_gen.cpp`, `src/src/pointer_chase.cpp` | the chains in the requests' buffers | permute, link, chase | three-phase requests |
| gather and scatter, `src/src/gather_scatter.cpp` | index arrays and buffers | scatter, gather, validate | memfill-and-gather, decompress-and-scatter |
| `src/inc/fcontext.h`, `src/src/*.S` | saved stack pointers | create, switch, destroy | executors, requests |

What is hard about it:

* two threads share a mailbox of several words and no lock; the order of the
  stores is the protocol;
* the thread keeps raw pointers to completion records the host frees and
  reuses;
* what the thread knows is stored several times over (list, count, flag, due
  time of the head);
* a full device refuses, and a refusal ends the process (a context function
  that returns calls `exit(0)`);
* a program interleaves up to `max_inflight` fibers; executors find them again
  by two indices, while the fibers themselves advance the count that ends the
  loop;
* counters are exported to monitoring requests after the fact;
* the hardware answers out of order, with success or with an error, while the
  executors resume in index order and some of them only on success;
* one host thread is handed around between an executor, the requests and
  endless fillers: a filler gives it back only if it probes the right record,
  and a request that spins on a full queue keeps it from everybody;
* records, arguments and global buffers live across some runs of a program and
  not across others.

The properties that make each part correct are the ones stated in the modules
(section 3); `PROJECT.json` lists each hazard with the line where it bites.

## 2. Modules

`OffloadDevice` is what an asynchronous device promises: a call is answered
with success and joins a FIFO queue, or with failure because the queue is full;
records complete from the head of the queue.

`EmulAx` is the ax thread and `submit_offload`. Every read or write of a shared
location is an action, named after what it does (`AxCheck`, `AxAcceptStatus`,
`AxReadAddr`, `AxReceive`, `SubmitAddr`, `SubmitFlag`, ...); statements on the
thread's locals are folded into the neighbouring action, since no other thread
can tell. `axpc` and `hpc` say where each thread is. The atomics are
sequentially consistent (default `std::atomic` operations), so interleaving
steps is what the hardware allows. Time: the code only asks whether a stamp has
passed, so an offload carries the ticks it has `left`, and `Tick` may happen
between any two steps. The host outside `submit_offload` is the most general
client: any record it does not wait for may be submitted, waited-for records
may be looked at, and the thread is stopped when nothing is waited for.
`EagerHost` says whether the host may submit before the thread reached its loop
(`src/emul_ax_router_request_breakdown.cpp` does so; the other programs spend
milliseconds on allocation first, which the code does not enforce).

`AxProgram` EXTENDS `EmulAx` and replaces the general client by the real one.
Request functions, executors and harnesses are definitions under their names in
the source: a request function offloads or not, spins or yields, and watches
`total_offloads` or not; a harness hands one to an executor, `OldestFirst` or
`OneByOne`. The `main` functions of `src/walker.cpp` and `src/switch_to_fill.cpp`
are sequences (`Plans`) of runs, starts and stops over these (`Items`), for every
number of requests in `Totals`. The actions are the set-up and tear-down of a
harness, the rounds of an executor and the stages of a request. A fiber switch hands control over within the host
thread, so the host is one process whose position is `ppc` (with `hpc` inside
`submit_offload`). That this client stays within what the general one may do is
the property `UsesAxProperly` (the program's steps are steps of `EmulAx`'s
`Spec`), so everything proved of `EmulAx` holds for the programs.

`HwQueue` is the hardware side of an offload: the completion records, the
descriptors each device holds (`wq`, with room for `WqSize`), the prepare
functions (which clear the record), the submit functions (`blocking_...`: wait
until there is room; `dsa_submit`: once) and the devices, which may answer any
descriptor they hold, with an error if `DeviceMayFail`.

`RequestKinds` says what every request function, allocator, free function and
filler of the programs is made of, one definition per function under its name in
the source: a request is its stages (prepare, submit), whether it yields, what it
does about an error (`Reports`, `GivesUp`, `Ignores`), whether it advances
`requests_completed`, and the buffers it uses. `HwPlans` does the same for
executors (the loop's kind, the test on a record, the count that ends it),
harnesses (whether they reset the counter and allocate records, their
interval), runners and the `main` functions: a program is a sequence of runs.

`FiberRuns` EXTENDS both and runs a program: `SetUp` and `TearDown` are the
harness around an executor; `ResumeOldest`, `Resumed`, `StartAnother` the rounds
of an overlapping executor's loop; `StartNext` a sequential one's; `StartOne`,
`EnterFiller`, `ResumeOne` those of an executor with one request in flight;
`YieldFiller` is `probe_point`; `Prepare`, `Submit`, `SubmitFails`, `SpinOn`,
`Check`, `GiveUp`, `Complete` the request functions. `cpu` says which fiber has
the thread; only the devices (`Answer`) run beside it. `RequestService` is the
abstract specification of what executors and requests promise together: at
most `Capacity` offloads unanswered, an offload is answered once, and requests are
served in order, each after its own answer. It is an INSTANCE of `FiberRuns`,
whose mapping reads off the requests' states and the records.

Five modules model the algorithms the requests run on their data, each as a
state machine of its own that takes the code's steps:

* `FurcHash`: `furc_hash` with the bit index, the tries and the cache of
  `furc_get_bit`. A key is the set of the stream's indices that hold a one, so
  what the murmur hashes make of its characters is left open. The same key is
  hashed into pools of 1, 2, ... shards (`Grow`), which is what consistency is
  about.
* `PostingLists`: a heap of nodes, `build_llc_ll` with `dsa_llc_realloc` (whose
  copies may fail and leave anything, up to the retries and the `memcpy` behind
  them), `build_host_ll`, the intersection, the walk and `free_ll`.
* `PointerChain`: `random_permutation` with every possible `rand()`, the links
  that make a circle of it, the offload that copies the chain to its
  destination, or any part of it when it fails, and `chase_pointers`.
* `GatherScatter`: scatter, sort and `validate_scatter_array`, with the words
  behind the end of the index array that it reads.
* `Statistics`: the averages, median and spread of `timer_utils.h` and
  `stats.cpp` as operators on unsigned words.

They share no state and interact with nothing but the request that calls them;
`MCDataPaths` puts them side by side for one run. `Sorting` is `std::sort`, which
the last two use: an arrangement of the entries that is ascending. Sums and walks
are recursive functions on indices, so that the model checker evaluates them and
the proofs can reason about them.

`EmulAxProofs`, `AxProgramProofs`, `HwPlansProofs`, `FiberRunsProofs` and
`FurcHashProofs` hold the theorems about the modules they are named after
(`EmulAxProofs` also that `EmulAx` implements `OffloadDevice`), `FiberRunsRefinement`
that `FiberRuns` implements `RequestService`, `DataPathProofs` the theorems about the
other four data algorithms, and `NaturalFacts` the arithmetic and the induction that
these and the hash need; `MCEmulAx`, `MCAxProgram`, `MCFiberRuns` and `MCDataPaths`
hold the definitions the model checker needs. Definitions named
`Mut_...` are plausible mistakes in the definition next to them; they are used by no
specification and exist to show that each property notices one.

## 3. Runs

| run | question | result |
|---|---|---|
| `ax_device` | whatever the host does and however early it starts: do the thread's counters agree with its list, are due times in order, does the thread hold only records it should, is only a full device refusing, is the list empty after a stop, is only a due head completed; do `submit_offload` and `stop_non_blocking_ax` return? | holds |
| `ax_refine` | with the first submission after the thread reached its loop: does the protocol implement `OffloadDevice`, is nothing lost, does every offload complete? | holds |
| `ax_lost` | the same with an eager host: is nothing lost? | violated: the thread's initial store of `OFFLOAD_RECEIVED` (`src/src/emul_ax.cpp:35`) is taken for the answer |
| `ax_retry` | does a retry offer the offload again, that is, store the flag once more before the answer is next read? | violated: `goto retry` lands behind the store of the flag |
| `ax_programs` | walker's and the router's plan, with as many requests as the device holds and with one more: executors' indices, lifetime of records, early exits, monitored count, proper use of the device, termination | holds |
| `program_count` | is the number "offloaded while away" the number of requests started meanwhile? | violated: the counter lags behind the answers |
| `program_loglevel` | the same program at `LOG_DEBUG`: is the number at least not negative? | violated: `==` against `>=` on the log level |
| `hw_programs` | every hardware program but `mlp`, twice each, on devices that answer in any order with success or an error: are fibers and fillers entered only where they may be, does a filler watch the record its executor waits for, are records, contexts and buffers in use never freed and freed ones never used, are samples complete and in place, is the order of `RequestService` kept, is a failure reported wherever the request gets to see it, and does the program end unless it waits for the success of an offload that failed? | holds |
| `hw_unreported` | decompress-and-hash on such devices: is every failure reported? | violated: an executor that waits for `COMP_STATUS_COMPLETED` never resumes the request whose code reports it |
| `hw_samples` | the sampling runner with 4 requests and 3 samples: does every iteration write its own slots? | violated: the interval is rounded down, so there are more samples than slots |
| `hw_mlp` | `mlp`: are buffers set up before they are read? | violated: the filler reads `user_filler_buf` before `main` populates it |
| `data_paths` | does a key stay or move to the new shard when a pool grows, and does the hash keep inside its cache; are lists whole and their nodes freed once whatever the DSA did; does a chase visit every line, up to one that a failed copy left out; is the validation of a scatter right, as far as the word it reads behind its array allows; are averages, median and spread what they are printed as; do the loops end? | holds |

Bounds. `EmulAx`: three records on a device for two, so that the device is
full, refuses, and a record can be reused while others are in flight; an
offload takes two ticks, so that due times differ and several are due at once.
`MCEmulAx` bounds the number of submissions by `MaxOffloads` (four: every
record, and one again) when `total_offloads` is exported; in `ax_refine` it is
not exported and the number of submissions is unbounded. `AxProgram`: `Totals`
are two and three on a device for two: two are all accepted, three suffice for a
refusal after two accepted, and for an oldest, a middle and a youngest request;
a plan has several runs, so each starts with the mailbox as the one before left
it; the router program repeats its harnesses twice (`iter`).
`FiberRuns`: four requests (`TotalRequests`) on queues for three fill a queue and
leave one to be submitted afterwards, so that `enqcmd` refuses and is retried, and
the answers of an oldest, a middle and a youngest request overtake one another;
two samples make intervals of two requests, so that a stamp is due after some
resumptions and not after others; two iterations (`Iterations`) start from what
the first left. Any offload may fail, at any stage of its request.
`stamps` and `stored` are bounded by the number of requests and iterations.
`MCDataPaths`: pools up to eight shards (`FURC_SHIFT` 3) and two tries let every
branch of the hash happen, words of four bits make an index cross them often;
keys differ in every bit of the stream that such a hash can read
(`const_Keys`, so all 2048 of them). Lists of one to three nodes have a first, a
middle and a last one; three of them are what an intersection takes. The DSA may
fail on each copy, once more than `RetryLimit` included. Four lines and nine
accesses go round a circle twice, and a copy that fails may have written any part of
its destination. Three accesses to three entries give every
pattern of repeated, missing and last entries, and the words behind the array
may be any index or none. Words are taken modulo 64 (`WordSize`), so that stamps,
differences and squares do wrap.

Fairness. The operating system runs both threads (weak fairness of the thread's
steps, and of the host inside a call or a join) and time passes (weak fairness
of `Tick`). The general client is not obliged to submit, look or stop. In
`AxProgram` and `FiberRuns` the program is obliged to go on, as its code is; in
`FiberRuns` that is one weak fairness for the one host thread, whichever fiber
has it, and one for each descriptor a device holds: a device answers what it
accepted, in no promised order. The exit of the
process stops both threads; liveness properties except that case explicitly.
The algorithms of `MCDataPaths` are loops of one thread: weak fairness of its next
step.

Deadlock is checked in every run but `data_paths`, whose algorithms simply end
(`PartsEnd` says that they do), `hw_programs` and `hw_unreported`: a host
that ended is a stuttering step (`Exited`, `Ended`, `Stopped`), any other stop is
reported. In those two an executor may spin for ever on a record that failed,
which changes nothing and shows as a stop of the model; `EndsOrHangs` says that
there is no other stop, and in particular that every program ends when no offload
fails.

## 4. Proofs

`EmulAxProofs` proves, for every set of records, every `max_inflight`, every
offload duration and both kinds of host:

* `DeviceInvariant`, and from it `TypeCorrect`, `BookkeepingAgrees`,
  `HeadIsEarliest` and `CompletesOnlyHead`. The bookkeeping alone is not
  inductive: that the list does not outgrow `max_inflight` needs to know that
  there was room when the thread began to accept (`RoomForNew`), and that due
  times stay in order needs to know that the offload being accepted is due no
  earlier than any other (`NewIsLast`), which holds because it was stamped last
  and all stamps run down together (`SoonerFacts`: ticks are monotone).
* `HoldInvariant`, and from it `OnlyPendingHeld` and `StopLeavesNothing`. The
  strengthening is the mailbox protocol: who owns the flag at which pair of
  program counters (`FlagOwner`), what the record being submitted is
  (`HostRecord`), that a status of `SUBMIT_FAIL` is never about a record the
  thread took (`StatusTrue`), and the thread's life cycle (`Lifecycle`).
* `RefusedOnlyWhenFull`: a refusal is given while the list holds `max_inflight`
  records, the list maps injectively into the records waited for
  (`ListFitsOutstanding`), and those do not change until the call returns.
* `NoSubmissionLost`, under the assumption `EagerHost = FALSE`, without which
  the run `ax_lost` refutes it.

`EmulAxProofs` also proves that `EmulAx` implements `OffloadDevice`
(`RefinesOffloadDevice`). The mapping is the one the run `ax_refine` checks: a call
is made once the record is set pending and answered once the flag is given back;
a record joins the queue with its answer, so the abstract queue is one longer than
the thread's list while the thread is about to enqueue. `SubmitComp` is the
abstract `Call`, `AxReceive` and `AxRefuse` are `Accept` and `Refuse`, the two ends
of `submit_offload` are `Return`, `AxComplete` is `Complete`, `ClientAllocate` is
`Forget`, and every other step leaves the abstract device alone (`StepSimulates`).
It needs the four invariants above together (`RefInv`). Two assumptions: the
first submission comes after the thread reached its loop (`EagerHost = FALSE`,
without which `ax_lost` loses it), and the value that stands for no record is none
of the two answers.

The other theorems of `EmulAxProofs` assume only `EmulAxAssumption` (the constants have
the right types).

`AxProgramProofs` carries them over to the programs, for every number of
requests, every plan made of the runs of the source (`PlansAssumption`; that the
two programs are such plans is `ProgramsOfTheCode`) and every device:

* `ProgramInvariant` is the inductive invariant: `EmulAx`'s own two (`DeviceInv`,
  `HoldInv`), and about the program its types, `Flight` (which records are waited
  for, given the executor's two indices), `Calls` (where the program is while
  `submit_offload` runs), `Fresh` (what a record in `submit_offload` is) and
  `Allocation` (records exist exactly during a run). Each step of the program
  is shown to be a step the general client may take, so the invariants of
  `EmulAx` are kept by what was proved before and only the program's own part
  remains.
* From it `ProgramTypes`, `IndicesAreTheFlight`, `FreesNoHeldRecord`,
  `ProgramSeesDevice` (a program sees an `OffloadDevice`), and
  `ProgramUsesAxProperly`: a program's behaviours are behaviours of `EmulAx`'s
  `Spec`, that is, `AxProgram` implements `EmulAx` and its theorems hold for it.
* `ExitsWhenOverloaded` (for `MaxInflight > 0`): the process exits early only with
  more requests than the device holds. It needs the refusal's reason, which is
  `ListFitsOutstanding` again, and that all records waited for are the executor's.
* `ReportsCount`, for `gLogLevel <= LOG_MONITOR` and `EagerHost = FALSE`: the
  number a request reports is not negative. Both assumptions are needed, as the
  run `program_loglevel` shows for the first one. The strengthening relates the
  number read before the request left to the counter now (`CountInv`).

`FiberRunsProofs`, for every number of requests, every queue size, devices that fail
or not, and every plan that fits (`PlansFit`):

* what a plan has to be is said in `HwPlansProofs` (`Fits`): a request that yields has one
  stage and an executor that resumes it, an executor that overlaps several looks at
  records that the harness creates, one that spins is run in sequence, the
  counter that ends a loop is one that the request advances, and the harness resets
  it; an interval is zero only for a run of more samples than requests (`IntervalFits`). Nothing in the code enforces this pairing: executors, harnesses and request
  functions meet as function pointers in each `main`. `ProgramsFit` proves it for
  every program of the repository, whatever its options, and `CodesPlansFit` hands
  that to the theorems.
* `RunsInvariant` is the inductive invariant `FInv`. None of the properties is
  inductive: that an executor resumes only a fiber that has yielded needs to know
  where all requests are (`Shape`: those before `Low` are finished, those from `High` on
  not started, the ones between have yielded, except the one that has the
  processor), that a record seen answered belongs to a request that can go on needs
  `Queues` (a descriptor is queued at most once, for a request that waits) and, for
  executors that overlap, that the records of requests not started are still
  pending (`Fresh`); `Fillers` relates the filler fibers, `p_sig` and the request in
  flight.
* From it `RunsTypes`, `NeverEntersStrayFiber` (which with more samples than requests
  allows the division by zero, and nothing else), `FillerProbesTheRecord`, `FreesAfterTheLast`,
  `NoLateAnswer`, `StampsEachInterval` and `RefusalNeedsLoad`.
* `StoresInPlace` (`SamplesExact`) needs one more hypothesis, `SlotsFit`: an executor has as
  many results as its run has slots. The programs of the repository satisfy it if the
  samples of a run divide its requests (`CodesSlotsFit`); the run `hw_samples` breaks
  just that.
* `TouchesOnlyLive` (`ReadsLive`) and `FreesOnlyLive` (`FreesLive`) need `BuffersHeld`: what a
  run's requests and fillers use and its free function frees is set up by its own
  allocator or was filled by `main` before (`Populated`), and no free function frees a
  global variable that was filled. `CodesBuffersHeld` proves it of every program but
  `mlp`, each with its loops over any number of iterations; that `mlp` does not have it
  is what the run `hw_mlp` shows, so the exclusion cannot be dropped. The invariant (`LiveInv`) says
  that what the plan filled so far is still there, and in a run what it set up. That
  a buffer is not taken away under a fiber that still reads it is not visible in the plan: it needs
  `FInv`, by which a harness frees only when every request is finished.

`FiberRunsRefinement` proves that `FiberRuns` implements `RequestService`
(`ExecutorsServeInOrder`), under `PlansFit`. The last stage of a request is what the
service calls its offload: `Submit` there is `Offload`, the answer to it `Answer`,
`Complete` is `Serve`, and what happens between two runs is `NewRun`; earlier stages
and every other step leave the service alone (`StepServes`). That requests are
offloaded in order is `OffloadedBefore`: the request that submits is the youngest one
(`WhoRuns`), all before it have submitted. Order of service is `ServedBefore`. That a
request is served only after its answer, and the capacity, need what `FInv` leaves
out (`SInv`): a request that checks or computes has an answer, and one that waits for
its answer is held by the device of its stage, so unanswered requests are no more
than the descriptors in that queue.

`FurcHashProofs`, for every key, every `FURC_SHIFT` and number of tries:

* `FurcInvariant`, and from it `CacheSuffices` (`CacheFilled`) and `ShardInPool`. What has
  to be found is how far the index can get: within a try it restarts from at most
  `FURC_SHIFT` and takes at most `FURC_SHIFT` steps of `FURC_SHIFT` (`Reach`), and the
  comment in `ch3_hash.h` on the size of the cache is what makes that fit.
* `StaysOrMoves` (`OnlyToNewBucket`): a key stays where it was, or moves to the shard that
  was added, in a pool of any size. It compares two calls of the hash, so the
  invariant `HashInv` says what a call returns as a relation of key and pool
  (`Hash`): the first try whose number is a shard, where a try is the start index at
  the pool's number of bits, moved down over zero bits to the first bit that is
  one, and its number is what the bits from there spell (`Value`). A larger
  pool with the same number of bits accepts the tries of the smaller one
  and the new shard; one with a bit more starts one bit higher and either falls
  through to where the smaller one starts or spells a number that only the new
  shard can be. The case of a key that ran out of tries is the exception that the property
  itself names.

`DataPathProofs`:

* Pointer chains, for every number of lines, whatever `rand()` gives:
  `ShufflePermutes` (each exchange keeps the indices a permutation) and
  `ChaseVisitsEveryLine`. The chase is at some position of the permutation and
  the lines it visited in this round are the arc of positions behind it
  (`ChainInvariant`), so the line it is on is new until the arc is the whole circle.
  A copy that failed may have left out any of the lines (`Chain`); the chase then
  follows the circle up to the first of them, where it reads no link.
* Posting lists, for every number and length of lists and every retry limit:
  `ListsWhole` (`ListWhole`) and `NodesAreFreedOnce` (`NodesFreedOnce`). Both properties
  follow pointers, which no induction on steps can. `ListInvariant` therefore says
  what every address holds: lists lie one behind the other, each one span of
  addresses with the documents in order, the spare target of `build_llc_ll` hanging
  behind it; the list under construction is whole up to `cpy_dst`; the three
  cursors of the intersection are at the same place of their lists, because the
  lists are equal. The properties follow by induction over the nodes of one list
  (`NodesFrom`) and by counting what is left of the heap. It assumes that what an
  unwritten node holds is not a node (`GARBAGE`).
* Scatter, for every number of accesses and entries: `ValidationJudges`
  (`JudgesBuffer`). As long as the validation has found no error, `sorted_idx` separates
  the indices below the loop index from the others (`Validating`), until the last index is
  passed. From there on it stays at the first word behind the array. If that word is
  not an index (`Harmless`) the verdict is exact; if it is one, the validation still
  passes no wrong entry up to the last index, and behind it only one that looks scattered
  (`Passed`). That every array has a
  sorted arrangement (`OrderExists`) is proved by induction on its length.
* Statistics, for every word size and number of samples: `PrintedIsSound`
  (`StatisticsSound`) of any two arrays of stamps that are words. Sums taken
  modulo the word size are the exact sums modulo it, a wrapped difference has the square of
  the exact one (`ModSquare`), division splits off the first sample up to one
  (`DivSplit`), and the entries below the median take less than the places before it.

`NaturalFacts` holds what these rest on. The library's induction theorems take a
predicate as parameter, which the provers cannot instantiate; induction is
therefore stated about a set (`NatInd`: one that holds zero, and with a number the
next, is `Nat`), and recursive functions are unfolded once through the library's theorem
on them (`RecursiveFunction`).

Only model-checked: the liveness properties, whose proofs need fairness and `ENABLED`,
which is out of these provers' reach. These are `SubmitReturns`, `StopReturns` and
`EveryOffloadCompletes` of the emulated accelerator, `Terminates` of its programs,
`FailureSeen` and `EndsOrHangs` of the hardware programs and `PartsEnd` of the data
algorithms. Every other property of a run that holds is stated by a theorem.

## 5. Not modelled, and the plan

The hardware model leaves these aside:

* for the applications `AX_AX`, `AX_AX_COMP`, `GP_AX`, `GP_AX_COMP`, `AX_GP` and
  `GP_GP` of `src/three_phase_composable.cpp` only the blocking breakdown is
  modelled, since `main` selects no other function for them;
* the best-case runner of `src/inc/runners.h` is called by no program; `MCFiberRuns`
  runs it with the requests of decompress-and-hash;
* past its first unset buffer `mlp` is not followed to the end: its throughput
  requests also read `item_buf` after `free_cpu_memcpy_and_compute_args`
  (`src/src/memcpy_dp_request.cpp:14`) freed it, as the untimed offload
  allocator does not populate it again;
  `hw_mlp` is therefore the only run of `mlp`;
* fewer requests than samples make an interval of zero, and
  `src/src/test_harness.cpp:727` divides by it. This is what
  `src/decomp_and_scatter.cpp` does by default: one request (line 53) and ten samples
  (line 148). The model has that exit, `NeverStray` says that nothing else leads to
  it, and the theorems about `FiberRuns` hold of such runs, too; the bounds of the
  runs keep away from it, so that they have a sampling run to check;
* functions that no application of `three_phase_composable.cpp` selects;
* `src/scan_and_gather.cpp`: its `main` submits one IAA filter descriptor
  (`src/scan_and_gather.cpp:369`), waits for its record and ends. It ignores the
  result of `iaa_submit`, so that a refused descriptor, which a queue shared with
  other processes may give, leaves it spinning on a record nobody writes; the
  request functions it defines are called by nobody;
* of the walker, `ll_dynamic_rank` and `dot_product`, which nobody calls, and
  `src/src/rps.cpp`, likewise; of the statistics, the conversion to requests per
  second and the printing;
* the murmur hashes: a key is the stream of bits they make of it;
* payload sizes: the sizes of compressed buffers pass through an `int` and a
  `char` pointer (`src/src/decompress_and_hash_request.cpp:82`), which is listed as a
  hazard and no state of the model.

What comes next, in this order:

1. A client of a shared hardware queue outside the program, which may fill it: the
   refusals of `dsa_submit` and the waits of the blocking submissions would then no
   longer depend on the program's own load only. `main` of `scan_and_gather.cpp` is
   of interest with that client alone.
2. The safety half of `EndsOrHangs` as a theorem: in every state that is no end, some
   process has a step or waits for a record that the device holds.
3. A statement of what a violated hypothesis of the proofs costs, for each run
   that breaks one, so that the hypotheses are seen to be as weak as they can be.

Left out for good: vendor libraries, payload generation and compression (calls
into zlib and IPP), generated protobuf code, assembly of the fiber switch (its
contract is modelled), thread affinity, logging, scripts and build files.
