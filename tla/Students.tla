------------------------------ MODULE Students ------------------------------
(***************************************************************************)
(* Students, the classes they have been in, and the enrolment a score      *)
(* sheet is held against: internal/handlers/students.go, and of            *)
(* internal/handlers/scores.go the sheet shown to a teacher and the check  *)
(* of a submission (its lines are saved in ScoreBook).                     *)
(*                                                                         *)
(* A promotion works its records off one by one: a row of history and then *)
(* the student's division, and no error is looked at.  Students, and their *)
(* first row of history, come from the demo seed only.  A term stands for  *)
(* a session and a term; names and photographs are left out.               *)
(***************************************************************************)
EXTENDS Requests

CONSTANTS
  NoClass,     \* new_class_id left empty: uuid.Nil, which no class has
  Terms,
  Divisions,
  DivisionOf,  \* the division of each class; nothing updates a class
  Roster,      \* the students in the order the seed creates them
  FirstClass,  \* and the class each is seeded into
  FirstTerm,
  Teachers,
  MaxHistory   \* bound: rows of student_class_histories

\* Of a load: lists are the requests to promote, sequences of records; clerks
\* the students whose row is edited or archived; teachers those who enter scores.
ASSUME StudentsAssumption ==
  /\ NoClass \notin Classes /\ FirstTerm \in Terms
  /\ DivisionOf \in [Classes -> Divisions] /\ FirstClass \in [Students -> Classes]
  /\ Roster \in Seq(Students) /\ \A s \in Students : \E i \in DOMAIN Roster : Roster[i] = s
  /\ MaxHistory \in Nat
  /\ \A l \in Loads :
       /\ l.lists \subseteq Seq([student : Students, class : Classes \cup {NoClass},
                                 action : {"promote", "retain", "graduate"}])
       /\ l.edited \subseteq Students /\ l.teachers \subseteq Teachers

VARIABLES
  students,  \* the row of each student
  histories, \* student_class_histories, in the order of created_at
  promoting, \* the promotion each handler is working off
  sheets     \* the score sheet each teacher has on the screen

studentVars == <<students, histories, promoting, sheets>>

Student == [division : Divisions, active : BOOLEAN, alumni : BOOLEAN, archived : BOOLEAN]

StudentClassHistory ==
  [student : Students, class : Classes, term : Terms, action : {"admit", "promote", "retain"}]

Record == [student : Students, class : Classes \cup {NoClass},
           action : {"promote", "retain", "graduate"}]

NotPromoting == [op |-> "idle", records |-> <<>>, first |-> NoClass, term |-> FirstTerm]
NoSheet == [state |-> "none", class |-> NoClass, term |-> FirstTerm, lines |-> <<>>]

HistoryRow(s, c, t, a) == [student |-> s, class |-> c, term |-> t, action |-> a]

-----------------------------------------------------------------------------
(* Promotion. *)

\* Handler h goes on with the records rs, or has answered.
WorkOff(h, rs) ==
  promoting' = [promoting EXCEPT ![h] =
    IF rs = <<>> THEN NotPromoting ELSE [@ EXCEPT !.op = "record", !.records = rs]]

PromoteStudents(h, records, t) ==
  /\ promoting[h] = NotPromoting
  /\ records # <<>>
  /\ Len(histories) < MaxHistory
  /\ promoting' = [promoting EXCEPT ![h] =
       [op |-> "record", records |-> records, first |-> records[1].class, term |-> t]]
  /\ UNCHANGED <<students, histories, sheets, faults>>

PromoteStudents_Graduate(h) ==
  LET rec == Head(promoting[h].records)
  IN /\ promoting[h].op = "record"
     /\ rec.action = "graduate"
     /\ \/ /\ students' = [students EXCEPT ![rec.student].alumni = TRUE,
                                           ![rec.student].active = FALSE]
           /\ UNCHANGED faults
        \/ Fault /\ UNCHANGED students
     /\ WorkOff(h, Tail(promoting[h].records))
     /\ UNCHANGED <<histories, sheets>>

\* A row without a class is refused by its foreign key; no one looks at that.
PromoteStudents_Retain(h) ==
  LET rec == Head(promoting[h].records)
  IN /\ promoting[h].op = "record"
     /\ rec.action = "retain"
     /\ \/ /\ rec.class # NoClass
           /\ histories' = Append(histories,
                             HistoryRow(rec.student, rec.class, promoting[h].term, "retain"))
           /\ UNCHANGED faults
        \/ rec.class = NoClass /\ UNCHANGED <<histories, faults>>
        \/ Fault /\ UNCHANGED histories
     /\ WorkOff(h, Tail(promoting[h].records))
     /\ UNCHANGED <<students, sheets>>

\* A record without a class is passed over.
PromoteStudents_Create(h) ==
  LET rec == Head(promoting[h].records)
  IN /\ promoting[h].op = "record"
     /\ rec.action = "promote"
     /\ IF rec.class = NoClass
        THEN /\ WorkOff(h, Tail(promoting[h].records))
             /\ UNCHANGED <<histories, faults>>
        ELSE /\ \/ /\ histories' = Append(histories,
                     HistoryRow(rec.student, rec.class, promoting[h].term, "promote"))
                   /\ UNCHANGED faults
                \/ Fault /\ UNCHANGED histories
             /\ promoting' = [promoting EXCEPT ![h].op = "place"]
     /\ UNCHANGED <<students, sheets>>

\* Mutant: the division is looked up once, for the class of the first record.
getClassDivisionIDOnce(p) == DivisionOf[IF p.first = NoClass THEN Head(p.records).class
                                        ELSE p.first]

getClassDivisionID(p) == DivisionOf[Head(p.records).class]

\* A failed lookup gives the nil id, with which the foreign key refuses the
\* update; a class keeps its division, so both statements are one step.
PromoteStudents_Place(h) ==
  LET rec == Head(promoting[h].records)
  IN /\ promoting[h].op = "place"
     /\ \/ /\ students' = [students EXCEPT ![rec.student].division =
                                             getClassDivisionID(promoting[h])]
           /\ UNCHANGED faults
        \/ Fault /\ UNCHANGED students
     /\ WorkOff(h, Tail(promoting[h].records))
     /\ UNCHANGED <<histories, sheets>>

-----------------------------------------------------------------------------
(* Single rows. *)

UpdateStudent(s, active) ==
  /\ students' = [students EXCEPT ![s].active = active]
  /\ UNCHANGED <<histories, promoting, sheets, faults>>

\* The error of the update is not looked at: it may change nothing.
ArchiveStudent(s) ==
  /\ \/ /\ students' = [students EXCEPT ![s].archived = TRUE, ![s].active = FALSE]
        /\ UNCHANGED faults
     \/ Fault /\ UNCHANGED students
  /\ UNCHANGED <<histories, promoting, sheets>>

-----------------------------------------------------------------------------
(* The score sheet of a class. *)

\* The rows of history of a class in a term, by their numbers.
RowsOfClass(c, t) == {i \in DOMAIN histories : histories[i].class = c /\ histories[i].term = t}

\* One line for each row of history, whether or not the student had one already.
GetScoreSheet(n, c, t) ==
  /\ sheets' = [sheets EXCEPT ![n] =
       [state |-> "shown", class |-> c, term |-> t,
        lines |-> [i \in RowsOfClass(c, t) |-> histories[i].student]]]
  /\ UNCHANGED <<students, histories, promoting, faults>>

Enrolled(c, t) == {histories[i].student : i \in RowsOfClass(c, t)}

\* Mutant: students are counted, not rows.
enrolledCountDistinct(c, t) == Cardinality(Enrolled(c, t))

enrolledCount(c, t) == Cardinality(RowsOfClass(c, t))

\* The teacher submits the sheet with the lines shown.  The error of the count
\* is not looked at: enrolledCount is then 0.
SaveScores_Complete(n) ==
  LET sh == sheets[n]
      sent == Cardinality(DOMAIN sh.lines)
      answer(state) == sheets' = [sheets EXCEPT ![n].state = state]
  IN /\ sh.state = "shown"
     /\ \/ sent < enrolledCount(sh.class, sh.term) /\ answer("refused") /\ UNCHANGED faults
        \/ sent >= enrolledCount(sh.class, sh.term) /\ answer("accepted") /\ UNCHANGED faults
        \/ answer("accepted") /\ Fault
     /\ UNCHANGED <<students, histories, promoting>>

-----------------------------------------------------------------------------
\* Everyone is in the class of the seed, with its row of history.
StudentsInit ==
  /\ students = [s \in Students |-> [division |-> DivisionOf[FirstClass[s]],
                                     active |-> TRUE, alumni |-> FALSE, archived |-> FALSE]]
  /\ histories = [i \in DOMAIN Roster |->
                    HistoryRow(Roster[i], FirstClass[Roster[i]], FirstTerm, "admit")]
  /\ promoting = [h \in Handlers |-> NotPromoting]
  /\ sheets = [n \in Teachers |-> NoSheet]

StudentsNext ==
  \/ \E h \in load.promoters :
       \/ \E records \in load.lists, t \in Terms : PromoteStudents(h, records, t)
       \/ PromoteStudents_Graduate(h) \/ PromoteStudents_Retain(h)
       \/ PromoteStudents_Create(h) \/ PromoteStudents_Place(h)
  \/ \E s \in load.edited : ArchiveStudent(s) \/ \E on \in BOOLEAN : UpdateStudent(s, on)
  \/ \E n \in load.teachers : \/ \E c \in Classes, t \in Terms : GetScoreSheet(n, c, t)
                              \/ SaveScores_Complete(n)

StudentsTypeOK ==
  /\ students \in [Students -> Student]
  /\ histories \in Seq(StudentClassHistory)
  /\ promoting \in [Handlers -> [op : {"idle", "record", "place"}, records : Seq(Record),
                                 first : Classes \cup {NoClass}, term : Terms]]
  /\ sheets \in [Teachers -> [state : {"none", "shown", "accepted", "refused"},
                              class : Classes \cup {NoClass}, term : Terms,
                              lines : UNION {[R -> Students] : R \in SUBSET DOMAIN histories}]]

-----------------------------------------------------------------------------
(* Properties. *)

\* SaveScores, scores.go:291-298, "Validate all students are scored before
\* submitting": however often a class was promoted into, by requests repeated or
\* overlapping, between the moment the sheet was shown and the moment it is
\* submitted, a sheet that is accepted names every student then enrolled,
\* although only numbers of rows are compared.
SheetComplete ==
  [][\A n \in Teachers :
       sheets[n].state = "shown" /\ sheets'[n].state = "accepted" /\ faults' = faults =>
         \A s \in Enrolled(sheets[n].class, sheets[n].term) :
           \E i \in DOMAIN sheets[n].lines : sheets[n].lines[i] = s]_<<sheets, histories>>

PromotionsOf(s) ==
  {i \in DOMAIN histories : histories[i].student = s /\ histories[i].action = "promote"}

\* PromoteStudents, students.go:188-191, "Update student's current class": when
\* no promotion is under way and no statement failed, a student is in the
\* division of a class they were promoted to (or seeded into), however many
\* promotions overlapped; of the last one if promotions come one at a time.
PlacedAsPromoted ==
  faults = 0 /\ (\A h \in Handlers : promoting[h] = NotPromoting) =>
    \A s \in Students :
      LET reached == PromotionsOf(s)
          division(i) == DivisionOf[histories[i].class]
      IN /\ reached = {} => students[s].division = DivisionOf[FirstClass[s]]
         /\ reached # {} => \E i \in reached :
              /\ students[s].division = division(i)
              /\ Cardinality(load.promoters) <= 1 => \A j \in reached : j <= i

=============================================================================
