------------------------------ MODULE MCResults ------------------------------
(* Small instances of Results. *)
EXTENDS Results, TLC

CONSTANTS s1, s2, h1, h2, w1

\* Two scales whose bands are disjoint, sent from the highest down, and none.
Strict  == <<[grade |-> "A", min |-> 2, max |-> 2], [grade |-> "C", min |-> 1, max |-> 1]>>
Lenient == <<[grade |-> "B", min |-> 2, max |-> 9], [grade |-> "P", min |-> 0, max |-> 1]>>
AllScales == {Strict, Lenient, <<>>}

\* Two students, requests one at a time.
OneAtATime ==
  [students |-> {s1, s2}, returnable |-> {}, scales |-> AllScales, office |-> TRUE,
   handlers |-> {h1}, workers |-> {}, faults |-> 0]

\* Overlapping requests while the mark of a student is approved and sent back.
TwoAtATime ==
  [students |-> {s1}, returnable |-> {s1}, scales |-> {}, office |-> TRUE,
   handlers |-> {h1, h2}, workers |-> {}, faults |-> 0]

\* A worker makes report cards, and a statement anywhere fails.
Failing ==
  [students |-> {s1}, returnable |-> {s1}, scales |-> {}, office |-> TRUE,
   handlers |-> {h1}, workers |-> {w1}, faults |-> 1]

\* A statement fails while scales are sent again and results calculated.
FailingScales ==
  [students |-> {s1}, returnable |-> {}, scales |-> AllScales, office |-> FALSE,
   handlers |-> {h1}, workers |-> {}, faults |-> 1]

\* New scales and calculations overlap.
Grading ==
  [students |-> {s1}, returnable |-> {}, scales |-> AllScales, office |-> FALSE,
   handlers |-> {h1, h2}, workers |-> {}, faults |-> 0]

AllLoads == {OneAtATime, TwoAtATime, Failing, FailingScales, Grading}

=============================================================================
