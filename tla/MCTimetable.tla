----------------------------- MODULE MCTimetable -----------------------------
(* Small instances of Timetable. *)
EXTENDS Timetable, TLC

CONSTANTS k1, k2, t1, t2, t3, t4, h1, h2, h3

\* Rows, handlers and classes are told apart by nothing but their content.
Symmetry == Permutations(Ids) \cup Permutations(Handlers) \cup Permutations(Classes)

=============================================================================
