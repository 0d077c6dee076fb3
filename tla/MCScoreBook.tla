----------------------------- MODULE MCScoreBook -----------------------------
(* Small instances of ScoreBook. *)
EXTENDS ScoreBook, TLC

CONSTANTS s1, s2, s3, h1, h2

Line == [student : {s1, s2}, mark : Marks]
Singles == {<<l>> : l \in Line}
Sheets == {l \in Line \X Line : l[1].student = s1 /\ l[2].student = s2}

\* A sheet, and one that names a student of another class.
WithOutsider == {<<[student |-> s, mark |-> 1], [student |-> t, mark |-> 1]>> :
                   s \in {s1}, t \in {s2, s3}}

\* Requests one at a time: one line, one of each student, or two of the same.
OneAtATime ==
  [students |-> {s1, s2}, entries |-> {1, 2}, structures |-> {1},
   lists |-> Singles \cup (Line \X Line), handlers |-> {h1}, faults |-> 0]

\* Overlapping requests for one student, and a statement that fails.
TwoAtATime ==
  [students |-> {s1}, entries |-> {1, 2}, structures |-> {1, 2},
   lists |-> {<<[student |-> s1, mark |-> 1]>>}, handlers |-> {h1, h2}, faults |-> 1]

\* The sheet of the class or a single line, and a statement that fails, so that a
\* row or the marking scheme may be there twice.
WholeSheet ==
  [students |-> {s1, s2}, entries |-> {1, 2, 3}, structures |-> {1, 2},
   lists |-> {l \in Sheets : l[1].mark + l[2].mark = 2} \cup {<<[student |-> s1, mark |-> 2]>>},
   handlers |-> {h1}, faults |-> 1]

\* Lists with as many lines as there are students, of the class or not.
Outsiders ==
  [students |-> {s1, s2}, entries |-> {1, 2, 3}, structures |-> {1},
   lists |-> WithOutsider, handlers |-> {h1}, faults |-> 0]

AllLoads == {OneAtATime, TwoAtATime, WholeSheet, Outsiders}

=============================================================================
