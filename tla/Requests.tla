------------------------------ MODULE Requests ------------------------------
(***************************************************************************)
(* What the records of the school (Students, Attendance, Fees) have in     *)
(* common: requests served by goroutines of their own, none of which opens *)
(* a transaction, and statements that fail.  "load" is the traffic of a    *)
(* behaviour, chosen in the beginning.                                     *)
(***************************************************************************)
EXTENDS Naturals, Sequences, FiniteSets

CONSTANTS
  Handlers, \* goroutines serving HTTP requests
  Students, \* ids of rows of students
  Classes,  \* ids of rows of classes
  Loads     \* bounds: the requests a behaviour may have, and how many overlap

\* A load names the handlers that serve each kind of request.
ASSUME RequestsAssumption ==
  \A l \in Loads :
    /\ {l.promoters, l.markers, l.bursars} \subseteq SUBSET Handlers
    /\ IsFiniteSet(l.promoters) /\ IsFiniteSet(l.markers) /\ IsFiniteSet(l.bursars)
    /\ l.faults \in Nat

VARIABLES
  load,   \* one of Loads
  faults  \* statements and enqueues that have failed

Fault == faults < load.faults /\ faults' = faults + 1

RequestsTypeOK == load \in Loads /\ faults \in Nat

=============================================================================
