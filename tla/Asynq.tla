------------------------------- MODULE Asynq -------------------------------
(***************************************************************************)
(* The task queue the server relies on (hibiken/asynq over Redis), as far  *)
(* as internal/jobs uses it.  The library is not under src/: it is         *)
(* modelled from the options the code passes to it.                        *)
(*                                                                         *)
(* A queue is a set of tasks.  Ten worker goroutines serve all queues, a   *)
(* failed task waits for a back-off, and two tasks due at the same moment  *)
(* are taken in any order, so no order of delivery is modelled.  A task    *)
(* whose handler returns an error, or whose worker dies, is delivered      *)
(* again until MaxRetry deliveries have failed; it is then archived and    *)
(* never delivered again.                                                  *)
(***************************************************************************)
EXTENDS Naturals

\* A task of a type, for a row, that may still be retried n times.
Task(type, row, n) == [type |-> type, row |-> row, left |-> n]

\* The queue after t failed: t waits with one retry fewer, or is archived.
Retry(queue, t) ==
  (queue \ {t}) \cup {r \in {[t EXCEPT !.left = t.left - 1]} : t.left > 0}

=============================================================================
