---------------------------- MODULE ScoreWorkflow ----------------------------
(***************************************************************************)
(* What the score sheet of a subject promises for each of its marks: a     *)
(* mark is entered and submitted by the teacher, then approved or sent     *)
(* back; while it is submitted it changes only after an unlock request,    *)
(* and once it is approved it changes only after it was sent back.         *)
(***************************************************************************)
EXTENDS Integers

CONSTANTS
  Cells,  \* the marks of the sheet: one per student
  Marks   \* the marks that can be entered

VARIABLE sheet

NoMark == [status |-> "none", mark |-> 0, unlock |-> FALSE]

Editable(c) ==
  \/ sheet[c].status \in {"none", "DRAFT"}
  \/ sheet[c].status = "SUBMITTED" /\ sheet[c].unlock

Enter(c) ==
  /\ Editable(c)
  /\ \E mark \in Marks, status \in {"DRAFT", "SUBMITTED"} :
       sheet' = [sheet EXCEPT ![c].mark = mark, ![c].status = status]

Approve(c) ==
  /\ sheet[c].status = "SUBMITTED"
  /\ sheet' = [sheet EXCEPT ![c].status = "APPROVED"]

SendBack(c) ==
  /\ sheet[c].status # "none"
  /\ sheet' = [sheet EXCEPT ![c].status = "DRAFT"]

Unlock(c) ==
  /\ sheet[c].status # "none"
  /\ sheet' = [sheet EXCEPT ![c].unlock = TRUE]

Init == sheet = [c \in Cells |-> NoMark]

Next == \E c \in Cells : Enter(c) \/ Approve(c) \/ SendBack(c) \/ Unlock(c)

Spec == Init /\ [][Next]_sheet

=============================================================================
