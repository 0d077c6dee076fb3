------------------------------- MODULE MCQuiz -------------------------------
(* Model values and the symmetry of Quiz for TLC. *)
EXTENDS Quiz, TLC

CONSTANTS s1, s2, a1, a2, h1, h2, w1

\* Rows, handlers and students are interchangeable in every safety property.
QuizSymmetry ==
  Permutations(Attempts) \cup Permutations(Handlers) \cup Permutations(Students)

=============================================================================
