---------------------------- MODULE RequestService ----------------------------
(***************************************************************************)
(* What a run of requests over a work queue promises, whatever its         *)
(* executor: requests are offloaded and served in the order of their       *)
(* indices, none is served before its offload is answered, and no more     *)
(* than Capacity offloads are unanswered.  A run on the core alone serves  *)
(* its requests in order.                                                  *)
(***************************************************************************)
EXTENDS Naturals, FiniteSets

CONSTANTS Requests, Capacity  \* Requests = 0 .. n - 1

VARIABLES
  accelerated,  \* whether the run offloads
  offloaded, answered, served  \* the requests that got that far

svars == <<accelerated, offloaded, answered, served>>

SInit ==
  /\ accelerated \in BOOLEAN
  /\ offloaded = {} /\ answered = {} /\ served = {}

Offload ==
  LET r == Cardinality(offloaded) IN
  /\ accelerated
  /\ r \in Requests
  /\ Cardinality(offloaded \ answered) < Capacity
  /\ offloaded' = offloaded \cup {r}
  /\ UNCHANGED <<accelerated, answered, served>>

Answer ==
  /\ \E r \in offloaded \ answered : answered' = answered \cup {r}
  /\ UNCHANGED <<accelerated, offloaded, served>>

Serve ==
  LET r == Cardinality(served) IN
  /\ r \in Requests
  /\ accelerated => r \in answered
  /\ served' = served \cup {r}
  /\ UNCHANGED <<accelerated, offloaded, answered>>

\* The next run, once this one has served every request.
NewRun ==
  /\ served \in {{}, Requests}
  /\ accelerated' \in BOOLEAN
  /\ offloaded' = {} /\ answered' = {} /\ served' = {}

SNext == Offload \/ Answer \/ Serve \/ NewRun

SSpec == SInit /\ [][SNext]_svars
=============================================================================
