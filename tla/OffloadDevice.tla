---------------------------- MODULE OffloadDevice ----------------------------
(***************************************************************************)
(* What an asynchronous offload device promises the host that submits to   *)
(* it: a call is answered with success and the record joins a first-in     *)
(* first-out queue, or with failure because the queue holds Capacity       *)
(* records; records complete one by one from the head of the queue.        *)
(***************************************************************************)
EXTENDS Naturals, Sequences

CONSTANTS Records, Capacity, None

VARIABLES
  queue,     \* accepted records, oldest first
  completed, \* records whose completion the host can see
  call,      \* the record being submitted, or None
  answer     \* None until the device answered the call

dvars == <<queue, completed, call, answer>>

DInit ==
  /\ queue = <<>> /\ completed = {} /\ call = None /\ answer = None

\* The host submits a record that is not queued; it is pending from here on.
Call(r) ==
  /\ call = None /\ answer = None
  /\ r \notin {queue[i] : i \in 1 .. Len(queue)}
  /\ call' = r
  /\ completed' = completed \ {r}
  /\ UNCHANGED <<queue, answer>>

Accept ==
  /\ call # None /\ answer = None
  /\ Len(queue) < Capacity
  /\ queue' = Append(queue, call)
  /\ answer' = "success"
  /\ UNCHANGED <<completed, call>>

Refuse ==
  /\ call # None /\ answer = None
  /\ Len(queue) = Capacity
  /\ answer' = "failure"
  /\ UNCHANGED <<queue, completed, call>>

\* The host returns from the call.
Return ==
  /\ answer # None
  /\ call' = None /\ answer' = None
  /\ UNCHANGED <<queue, completed>>

Complete ==
  /\ queue # <<>>
  /\ queue' = Tail(queue)
  /\ completed' = completed \cup {Head(queue)}
  /\ UNCHANGED <<call, answer>>

\* The host forgets old completions when it reuses its records.
Forget ==
  /\ queue = <<>> /\ call = None
  /\ completed' = {}
  /\ UNCHANGED <<queue, call, answer>>

\* A caller that was refused ends the process, and the device with it.
DNext ==
  \/ \E r \in Records : Call(r)
  \/ Accept \/ Refuse \/ Return \/ Complete \/ Forget

DSpec == DInit /\ [][DNext]_dvars
=============================================================================
