------------------------------- MODULE HwQueue -------------------------------
(***************************************************************************)
(* The work queues of the DSA and IAA devices as the host sees them:       *)
(* prepared descriptors, enqcmd and completion records (src/src/           *)
(* iaa_offloads.cpp, src/src/dsa_offloads.cpp, src/inc/inline/submit.ipp). *)
(* The devices are hardware.  All that is assumed of them: a queue takes   *)
(* WqSize descriptors at most and answers them in any order.               *)
(***************************************************************************)
EXTENDS Naturals, FiniteSets

CONSTANTS
  Records,       \* the completion records of a run, comps[0 ..]
  WqSize,        \* entries of a work queue
  DeviceMayFail  \* whether a device may answer with an error

ASSUME HwQueueAssumption ==
  /\ WqSize \in Nat \ {0}
  /\ DeviceMayFail \in BOOLEAN

PENDING == "pending"      \* COMP_STATUS_PENDING, IAX_COMP_NONE
COMPLETED == "completed"  \* COMP_STATUS_COMPLETED, IAX_COMP_SUCCESS
ERROR == "error"          \* any other status

Devices == {"dsa", "iaa"}

VARIABLES
  comp_status,  \* status of each completion record
  wq            \* the records whose descriptors each device holds

qvars == <<comp_status, wq>>

QTypeOK ==
  /\ comp_status \in [Records -> {PENDING, COMPLETED, ERROR}]
  /\ wq \in [Devices -> SUBSET Records]

QInit ==
  /\ comp_status = [c \in Records |-> PENDING]
  /\ wq = [d \in Devices |-> {}]

InFlight == UNION {wq[d] : d \in Devices}

\* allocate_crs: a new array, every record pending.
allocate_crs == comp_status' = [c \in Records |-> PENDING]

-----------------------------------------------------------------------------
\* The prepare functions fill in a descriptor and clear its completion record.
Mut_NotCleared == [opcode |-> "decompress", clears |-> FALSE]
prepare_iaa_decompress_desc_with_preallocated_comp ==
  [opcode |-> "decompress", clears |-> TRUE]
prepare_iaa_compress_desc_and_aecs_with_preallocated_comp ==
  [opcode |-> "compress", clears |-> TRUE]
prepare_dsa_memcpy_desc_with_preallocated_comp ==
  [opcode |-> "memmove", clears |-> TRUE]
prepare_dsa_memfill_desc_with_preallocated_comp ==
  [opcode |-> "memfill", clears |-> TRUE]

Prepared(prepare, c) ==
  comp_status' = IF prepare.clears THEN [comp_status EXCEPT ![c] = PENDING]
                                   ELSE comp_status

-----------------------------------------------------------------------------
\* A submit function enqueues once or until the queue has room.
blocking_iaa_submit == [device |-> "iaa", once |-> FALSE]
dsa_submit == [device |-> "dsa", once |-> TRUE]
blocking_dsa_submit == [device |-> "dsa", once |-> FALSE]

Mut_Room(d) == TRUE
Room(d) == Cardinality(wq[d]) < WqSize

\* enqcmd: zero, with the descriptor queued, or nonzero when there is no room.
Enqueue(submit, c) ==
  /\ Room(submit.device)
  /\ wq' = [wq EXCEPT ![submit.device] = @ \cup {c}]

Rejected(submit) == submit.once /\ ~Room(submit.device)

\* spin_on, pause_on: the loop ends.
spin_on(c) == comp_status[c] # PENDING

\* The device is done with a descriptor and writes its record.
DeviceCompletes(c) ==
  \E d \in Devices :
    /\ c \in wq[d]
    /\ wq' = [wq EXCEPT ![d] = @ \ {c}]
    /\ \E s \in {COMPLETED} \cup (IF DeviceMayFail THEN {ERROR} ELSE {}) :
         comp_status' = [comp_status EXCEPT ![c] = s]

\* A record that has an answer is in no queue: no device will write it again.
\* A request that prepared a second descriptor over a record it had not seen
\* answered, or a run that replaced records in use, would break this.
QuietOnceAnswered ==
  \A c \in Records : comp_status[c] # PENDING => c \notin InFlight
=============================================================================
