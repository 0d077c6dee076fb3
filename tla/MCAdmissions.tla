---------------------------- MODULE MCAdmissions ----------------------------
(* Small instances of Admissions. *)
EXTENDS Admissions, TLC

CONSTANTS a1, a2, c1, c2, c3, d1, h1, h2, w1

\* Two applications, requests one at a time, on two instants of a day.
OneAtATime ==
  [apps |-> {a1, a2}, children |-> {c1, c2, c3}, reschedulable |-> {a1}, overridable |-> {},
   handlers |-> {h1}, workers |-> {}, ticks |-> 1, reschedules |-> 2, faults |-> 0]

\* A decision or two overlap a submission and the worker.
TwoAtATime ==
  [apps |-> {a1}, children |-> {c1}, reschedulable |-> {}, overridable |-> {a1},
   handlers |-> {h1, h2}, workers |-> {w1}, ticks |-> 1, reschedules |-> 0, faults |-> 1]

\* Two submissions for a child overlap.
Twice ==
  [apps |-> {a1, a2}, children |-> {c1}, reschedulable |-> {}, overridable |-> {},
   handlers |-> {h1, h2}, workers |-> {}, ticks |-> 0, reschedules |-> 0, faults |-> 0]

\* Every request on one application, and a statement that fails.
Failing ==
  [apps |-> {a1}, children |-> {c1, c3}, reschedulable |-> {a1}, overridable |-> {a1},
   handlers |-> {h1}, workers |-> {w1}, ticks |-> 1, reschedules |-> 1, faults |-> 1]

AllLoads == {OneAtATime, TwoAtATime, Twice, Failing}

\* Two submissions, the second only when the first is answered, on one day.
OneAfterTheOther ==
  [apps |-> {a1, a2}, children |-> {c1, c2}, reschedulable |-> {}, overridable |-> {},
   handlers |-> {h1}, workers |-> {}, ticks |-> 1, reschedules |-> 0, faults |-> 0]

SerialLoads == {OneAfterTheOther}

=============================================================================
