------------------------------ MODULE ScoreBook ------------------------------
(***************************************************************************)
(* The score sheet of one subject in one class and term:                   *)
(* internal/handlers/scores.go, and the term's switch of                   *)
(* internal/handlers/academic.go.                                          *)
(*                                                                         *)
(* SaveScores looks every student's row up, decides on what it read and    *)
(* saves the whole row: one action each, the row kept in between.  Neither *)
(* score_structures nor score_entries has a unique index, and First orders *)
(* rows by their random id.                                                *)
(*                                                                         *)
(* Marks stand for the exam score, the only one whose check depends on     *)
(* another line of the request; component scores are left out, and so are  *)
(* requests without lines, which change nothing.                           *)
(***************************************************************************)
EXTENDS Integers, FiniteSets, Sequences, FiniteSetsExt, Functions

CONSTANTS
  Students,
  NoStudent,  \* student_id of a row that does not exist
  Entries,    \* ids of rows of score_entries: numbers, for their order
  Structures, \* ids of rows of score_structures, likewise
  Marks,      \* exam scores a teacher can send
  Handlers,   \* goroutines serving HTTP requests
  Loads       \* bounds: the classes and the traffic a behaviour may have

ASSUME ScoreAssumption ==
  /\ NoStudent \notin Students
  /\ Entries \subseteq Nat /\ Structures \subseteq Nat \ {0}
  /\ Marks \subseteq Nat \ {0}
  /\ \A l \in Loads :
       /\ l.students \subseteq Students /\ IsFiniteSet(l.students)
       /\ l.entries \subseteq Entries /\ l.structures \subseteq Structures
       /\ l.lists \subseteq Seq([student : Students, mark : Marks]) \ {<<>>}
       /\ l.handlers \subseteq Handlers /\ IsFiniteSet(l.handlers) /\ l.faults \in Nat

\* students: those enrolled, rows of student_class_histories; lists: the scores
\* of a request, sequences of [student, mark], of whomever they name: SaveScores
\* does not look whether a student is enrolled.
VARIABLES
  load,       \* one of Loads, chosen in the beginning
  structures, \* score_structures.exam_marks; 0 when there is no such row
  termOpen,   \* terms.is_active
  entries,    \* score_entries
  local,      \* what each handler is doing, with its snapshot
  acked,      \* history: whom the last submission named whose teacher was told
              \* "Scores submitted for approval", line by line
  faults

vars == <<load, structures, termOpen, entries, local, acked, faults>>

Statuses == {"none", "DRAFT", "SUBMITTED", "APPROVED"}

Entry == [student : Students \cup {NoStudent}, mark : Marks \cup {0},
          status : Statuses, unlock : BOOLEAN]

NoEntry == [student |-> NoStudent, mark |-> 0, status |-> "none", unlock |-> FALSE]

Rows == {e \in Entries : entries[e].student # NoStudent}
RowsOf(s) == {e \in Rows : entries[e].student = s}
Present == {t \in Structures : structures[t] # 0}

\* list: the lines of the request not dealt with yet; sent is history, whom
\* the lines of a submission name.
Idle == [op |-> "idle", list |-> <<>>, submit |-> FALSE, sent |-> <<>>,
         row |-> NoEntry, id |-> 0]

Goto(h, rec) == local' = [local EXCEPT ![h] = rec]
Fault == faults < load.faults /\ faults' = faults + 1

-----------------------------------------------------------------------------
(* The marking scheme of the subject, and the term. *)

\* FirstOrInit; its error is not looked at, so a failed lookup is a new row.
UpsertScoreStructure_Read(h, exam) ==
  /\ local[h] = Idle
  /\ \E id \in Structures \cup {0} :
       /\ \/ id \in Present /\ id = Min(Present) /\ UNCHANGED faults
          \/ id = 0 /\ Present = {} /\ UNCHANGED faults
          \/ id = 0 /\ Fault
       /\ Goto(h, [Idle EXCEPT !.op = "structureWrite", !.row = [NoEntry EXCEPT !.mark = exam],
                               !.id = id])
  /\ UNCHANGED <<load, structures, termOpen, entries, acked>>

UpsertScoreStructure_Write(h) ==
  LET exam == local[h].row.mark
  IN /\ local[h].op = "structureWrite"
     /\ \/ /\ \E t \in load.structures :
                /\ IF local[h].id = 0 THEN t \notin Present ELSE t = local[h].id
                /\ structures' = [structures EXCEPT ![t] = exam]
           /\ UNCHANGED faults
        \/ Fault /\ UNCHANGED structures
     /\ Goto(h, Idle)
     /\ UNCHANGED <<load, termOpen, entries, acked>>

OpenCloseTerm(h) ==
  /\ local[h] = Idle
  /\ termOpen' \in BOOLEAN
  /\ UNCHANGED <<load, structures, entries, local, acked, faults>>

-----------------------------------------------------------------------------
(* SaveScores. *)

\* Every line is checked with the exam score of the first.
WithinMaximums(list, max) == \A i \in DOMAIN list : list[1].mark <= max

\* Mutant: the number of lines is not compared with the enrolment.
CompleteAlways(list) == TRUE

Complete(list) == Len(list) >= Cardinality(load.students)

Names(list) == [i \in DOMAIN list |-> list[i].student]

\* The error of the count is not looked at: enrolledCount is then 0.
SaveScores_Check(h, list, submit) ==
  /\ local[h] = Idle
  /\ Present # {}
  /\ WithinMaximums(list, structures[Min(Present)])
  /\ \/ (submit => Complete(list)) /\ UNCHANGED faults
     \/ submit /\ Fault
  /\ Goto(h, [Idle EXCEPT !.op = "saveRead", !.list = list, !.submit = submit,
                          !.sent = IF submit THEN Names(list) ELSE <<>>])
  /\ UNCHANGED <<load, structures, termOpen, entries, acked>>

\* The request goes on with the next line, or is answered.
NextLine(h) ==
  LET rest == Tail(local[h].list)
  IN /\ Goto(h, IF rest = <<>> THEN Idle
                ELSE [Idle EXCEPT !.op = "saveRead", !.list = rest,
                                  !.submit = local[h].submit, !.sent = local[h].sent])
     /\ acked' = IF rest = <<>> /\ local[h].submit THEN local[h].sent ELSE acked

\* Mutant: a new row is saved before its student is filled in.
WrittenNoStudent(row, line, submit) ==
  [row EXCEPT !.mark = line.mark, !.status = IF submit THEN "SUBMITTED" ELSE "DRAFT"]

\* Mutant: approved rows are locked only until an unlock is requested.
LockedUnlessRequested(row) == row.status \in {"SUBMITTED", "APPROVED"} /\ ~row.unlock

\* "Don't allow editing approved/submitted entries without unlock".
Locked(row) ==
  \/ row.status = "APPROVED"
  \/ row.status = "SUBMITTED" /\ ~row.unlock

\* FirstOrInit; its error is not looked at, so a failed lookup is a new row.
SaveScores_Read(h) ==
  LET s == local[h].list[1].student
      found == Min(RowsOf(s))
      go(row, id) == Goto(h, [local[h] EXCEPT !.op = "saveWrite", !.row = row, !.id = id])
  IN /\ local[h].op = "saveRead"
     /\ \/ /\ RowsOf(s) # {} /\ Locked(entries[found])
           /\ NextLine(h)
           /\ UNCHANGED faults
        \/ /\ RowsOf(s) # {} /\ ~Locked(entries[found])
           /\ go(entries[found], found)
           /\ UNCHANGED <<acked, faults>>
        \/ RowsOf(s) = {} /\ go(NoEntry, -1) /\ UNCHANGED <<acked, faults>>
        \/ Fault /\ go(NoEntry, -1) /\ UNCHANGED acked
     /\ UNCHANGED <<load, structures, termOpen, entries>>

\* Save writes every column: also those of the row as it was read.
Written(row, line, submit) ==
  [row EXCEPT !.student = line.student, !.mark = line.mark,
              !.status = IF submit THEN "SUBMITTED" ELSE "DRAFT"]

\* Its error is not looked at either.
SaveScores_Write(h) ==
  LET row == Written(local[h].row, local[h].list[1], local[h].submit)
  IN /\ local[h].op = "saveWrite"
     /\ \/ /\ local[h].id # -1
           /\ entries' = [entries EXCEPT ![local[h].id] = row]
           /\ UNCHANGED faults
        \/ /\ local[h].id = -1
           /\ \E e \in load.entries \ Rows : entries' = [entries EXCEPT ![e] = row]
           /\ UNCHANGED faults
        \/ Fault /\ UNCHANGED entries
     /\ NextLine(h)
     /\ UNCHANGED <<load, structures, termOpen>>

-----------------------------------------------------------------------------
(* The approver's and the teacher's requests on one row: one update each. *)

\* Mutant: the update is not restricted to submitted rows.
ApproveScoresAny(h, e) ==
  /\ local[h] = Idle
  /\ entries' = [entries EXCEPT ![e].status = "APPROVED"]
  /\ UNCHANGED <<load, structures, termOpen, local, acked, faults>>

ApproveScores(h, e) ==
  /\ local[h] = Idle
  /\ entries[e].status = "SUBMITTED"
  /\ entries' = [entries EXCEPT ![e].status = "APPROVED"]
  /\ UNCHANGED <<load, structures, termOpen, local, acked, faults>>

RejectScores(h, e) ==
  /\ local[h] = Idle
  /\ entries' = [entries EXCEPT ![e].status = "DRAFT"]
  /\ UNCHANGED <<load, structures, termOpen, local, acked, faults>>

RequestUnlock(h, e) ==
  /\ local[h] = Idle
  /\ entries' = [entries EXCEPT ![e].unlock = TRUE]
  /\ UNCHANGED <<load, structures, termOpen, local, acked, faults>>

-----------------------------------------------------------------------------
Init ==
  /\ load \in Loads
  /\ structures = [t \in Structures |-> 0]
  /\ termOpen = TRUE
  /\ entries = [e \in Entries |-> NoEntry]
  /\ local = [h \in Handlers |-> Idle]
  /\ acked = <<>>
  /\ faults = 0

Next ==
  \E h \in load.handlers :
    \/ \E exam \in Marks : UpsertScoreStructure_Read(h, exam)
    \/ UpsertScoreStructure_Write(h)
    \/ OpenCloseTerm(h)
    \/ \E list \in load.lists, submit \in BOOLEAN : SaveScores_Check(h, list, submit)
    \/ SaveScores_Read(h) \/ SaveScores_Write(h)
    \/ \E e \in Rows : ApproveScores(h, e) \/ RejectScores(h, e) \/ RequestUnlock(h, e)

Spec == Init /\ [][Next]_vars

-----------------------------------------------------------------------------
(* Properties. *)

Local == [op : {"idle", "structureWrite", "saveRead", "saveWrite"},
          list : Seq([student : Students, mark : Marks]), submit : BOOLEAN,
          sent : Seq(Students), row : Entry, id : Entries \cup Structures \cup {-1, 0}]

\* A row that does not exist has no mark and no status.
TypeOK ==
  /\ load \in Loads
  /\ structures \in [Structures -> Marks \cup {0}]
  /\ termOpen \in BOOLEAN
  /\ entries \in [Entries -> Entry]
  /\ \A e \in Entries : entries[e].status = "none" <=> e \notin Rows
  /\ local \in [Handlers -> Local]
  /\ acked \in Seq(Students)
  /\ faults \in Nat

\* SaveScores, scores.go:325, and ApproveScores: whatever overlaps, a row
\* becomes approved only by an approval of a submitted row; a save that read
\* the row while it was approved never brings an approval back after the mark
\* was returned to the teacher.
ApprovalOnlyByApprover ==
  [][\A e \in Entries :
       entries'[e].status = "APPROVED" /\ entries[e].status # "APPROVED" =>
         entries[e].status = "SUBMITTED" /\ entries'[e].mark = entries[e].mark]_vars

\* Requests come one at a time and their statements succeed.
Serial == Cardinality(load.handlers) = 1 /\ faults = 0

\* A submission that names nobody twice and only students of the class.
Proper(names) ==
  names # <<>> /\ IsInjective(names) /\ Range(names) \subseteq load.students

\* SaveScores, scores.go:289-356: after "Scores submitted for approval", whatever
\* overlaps, at most as many of the students it named are without a row as
\* statements failed; and a proper submission named the whole class, so that
\* without a failure everybody has a row.  The code compares numbers only: a list
\* that names a student twice, or one of another class, passes and leaves a
\* student of the class out.
AllScored ==
  /\ Cardinality({s \in Range(acked) : RowsOf(s) = {}}) <= faults
  /\ faults = 0 /\ Proper(acked) => load.students \subseteq Range(acked)

\* FirstOrInit, scores.go:321: a student has one row, as long as requests come
\* one at a time and their statements succeed.
OneEntryPerStudent == Serial => \A s \in Students : Cardinality(RowsOf(s)) <= 1

\* The sheet as the approver sees it: the refinement mapping.
sheetOf == [s \in Students |->
  IF RowsOf(s) = {} THEN [status |-> "none", mark |-> 0, unlock |-> FALSE]
  ELSE LET row == entries[Min(RowsOf(s))]
       IN [status |-> row.status, mark |-> row.mark, unlock |-> row.unlock]]

Workflow == INSTANCE ScoreWorkflow WITH Cells <- Students, sheet <- sheetOf

\* Requests one at a time whose statements succeed keep the promise of
\* ScoreWorkflow to every mark: each of their steps is one of its steps or none.
WorkflowSpec ==
  /\ Workflow!Init
  /\ [][Serial /\ faults' = 0 => [Workflow!Next]_sheetOf]_vars

=============================================================================
