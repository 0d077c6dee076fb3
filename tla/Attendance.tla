----------------------------- MODULE Attendance -----------------------------
(***************************************************************************)
(* The roll: internal/handlers/attendance.go, and the days counted for a   *)
(* report card in internal/services/results.go.                            *)
(*                                                                         *)
(* For each line of a roll MarkAttendance looks for the row of the student,*)
(* class and day, and then updates it or inserts one: two statements, with *)
(* no transaction, no unique index and no look at the error of the second. *)
(* First orders rows by their random id, so rows are numbered and an       *)
(* insert takes any free number.  All rolls are of one term; the subject   *)
(* is stored but not looked for, and left out.                             *)
(***************************************************************************)
EXTENDS Requests

CONSTANTS
  NoStudent,      \* student_id of a row that does not exist
  Days,
  AttendanceRows  \* ids of rows: numbers, for their order

\* Of a load: rolls are the requests, each with a class, a day and its lines.
ASSUME AttendanceAssumption ==
  /\ NoStudent \notin Students
  /\ AttendanceRows \subseteq Nat \ {0}
  /\ \A l \in Loads :
       l.rolls \subseteq [class : Classes, day : Days,
                          lines : Seq([student : Students, status : STRING])]

VARIABLES
  attendance, \* attendances
  marking,    \* the roll each handler is working off, and the row it found
  marked      \* history: the status last answered with 200 for a student,
              \* class and day

attendanceVars == <<attendance, marking, marked>>

Statuses == {"PRESENT", "ABSENT", "LATE"}
NoRecord == [student |-> NoStudent, class |-> "none", day |-> 0, status |-> "ABSENT"]
Marks == Students \X Classes \X Days

NotMarking == [op |-> "idle", class |-> "none", day |-> 0, lines |-> <<>>, found |-> 0]

Present == {r \in AttendanceRows : attendance[r].student # NoStudent}

\* Mutant: the status is stored as sent.
StatusAsSent(status) == status

\* Whatever else a line says counts as absent.
StatusOf(status) == IF status \in Statuses THEN status ELSE "ABSENT"

-----------------------------------------------------------------------------
MarkAttendance(h, roll) ==
  /\ marking[h] = NotMarking
  /\ roll.lines # <<>>
  /\ marking' = [marking EXCEPT ![h] =
       [op |-> "find", class |-> roll.class, day |-> roll.day, lines |-> roll.lines, found |-> 0]]
  /\ UNCHANGED <<attendance, marked, faults>>

\* Mutant: the day is missing from the lookup.
ExistingAnyDay(s, c, d) ==
  {r \in Present : attendance[r].student = s /\ attendance[r].class = c}

Existing(s, c, d) ==
  {r \in Present : /\ attendance[r].student = s /\ attendance[r].class = c
                   /\ attendance[r].day = d}

\* Any error of the lookup counts as "no such row".
MarkAttendance_Find(h) ==
  LET m == marking[h]
      rows == Existing(Head(m.lines).student, m.class, m.day)
      found(r) == marking' = [marking EXCEPT ![h].op = "write", ![h].found = r]
  IN /\ m.op = "find"
     /\ \/ rows = {} /\ found(0) /\ UNCHANGED faults
        \/ rows # {} /\ (\E r \in rows : (\A q \in rows : r <= q) /\ found(r)) /\ UNCHANGED faults
        \/ found(0) /\ Fault
     /\ UNCHANGED <<attendance, marked>>

MarkAttendance_Write(h) ==
  LET m == marking[h]
      line == Head(m.lines)
      status == StatusOf(line.status)
      row == [student |-> line.student, class |-> m.class, day |-> m.day, status |-> status]
  IN /\ m.op = "write"
     /\ \/ /\ m.found # 0
           /\ attendance' = [attendance EXCEPT ![m.found].status = status]
           /\ UNCHANGED faults
        \/ /\ m.found = 0
           /\ \E r \in AttendanceRows \ Present : attendance' = [attendance EXCEPT ![r] = row]
           /\ UNCHANGED faults
        \/ Fault /\ UNCHANGED attendance
     /\ marked' = [marked EXCEPT ![<<line.student, m.class, m.day>>] = status]
     /\ marking' = [marking EXCEPT ![h] =
          IF Tail(m.lines) = <<>> THEN NotMarking
          ELSE [m EXCEPT !.op = "find", !.lines = Tail(m.lines), !.found = 0]]

-----------------------------------------------------------------------------
(* What is counted. *)

\* A student's days of one status, in the classes given: GetStudentAttendanceSummary
\* counts those of all classes, a report card those of its own.
DaysOf(s, classes, status) ==
  Cardinality({r \in Present : /\ attendance[r].student = s
                               /\ attendance[r].class \in classes
                               /\ attendance[r].status = status})

GetStudentAttendanceSummary(s) ==
  [present |-> DaysOf(s, Classes, "PRESENT"), absent |-> DaysOf(s, Classes, "ABSENT"),
   late |-> DaysOf(s, Classes, "LATE")]

attendanceRecord(s, c) ==
  [present |-> DaysOf(s, {c}, "PRESENT"),
   total |-> DaysOf(s, {c}, "PRESENT") + DaysOf(s, {c}, "ABSENT") + DaysOf(s, {c}, "LATE")]

-----------------------------------------------------------------------------
AttendanceInit ==
  /\ attendance = [r \in AttendanceRows |-> NoRecord]
  /\ marking = [h \in Handlers |-> NotMarking]
  /\ marked = [k \in Marks |-> "none"]

AttendanceNext ==
  \E h \in load.markers : \/ \E roll \in load.rolls : MarkAttendance(h, roll)
                          \/ MarkAttendance_Find(h) \/ MarkAttendance_Write(h)

AttendanceTypeOK ==
  /\ attendance \in [AttendanceRows ->
       [student : Students, class : Classes, day : Days, status : Statuses] \cup {NoRecord}]
  /\ marking \in [Handlers ->
       [op : {"find", "write"}, class : Classes, day : Days,
        lines : Seq([student : Students, status : STRING]),
        found : AttendanceRows \cup {0}] \cup {NotMarking}]
  /\ marked \in [Marks -> Statuses \cup {"none"}]

-----------------------------------------------------------------------------
(* Properties. *)

MarkedDays(s, classes, statuses) ==
  Cardinality({k \in Marks : k[1] = s /\ k[2] \in classes /\ marked[k] \in statuses})

\* MarkAttendance, attendance.go:82-98, and services/results.go:116-126: rolls
\* may be repeated, corrected and contain a student twice, a student may be
\* marked in several classes; as long as rolls do not overlap and nothing
\* fails, the days a student's summary and report card count are exactly the
\* days the roll was called, each with the status last given.  When rolls
\* overlap a day may count twice, but none is missing.
SummaryExact ==
  faults = 0 /\ (\A h \in Handlers : marking[h] = NotMarking) =>
    \A s \in Students :
      LET summary == GetStudentAttendanceSummary(s)
          days(statuses) == MarkedDays(s, Classes, statuses)
      IN /\ Cardinality(load.markers) <= 1 =>
              /\ summary.present = days({"PRESENT"})
              /\ summary.absent = days({"ABSENT"})
              /\ summary.late = days({"LATE"})
              /\ \A c \in Classes :
                   attendanceRecord(s, c) = [present |-> MarkedDays(s, {c}, {"PRESENT"}),
                                             total |-> MarkedDays(s, {c}, Statuses)]
         /\ \A c \in Classes : attendanceRecord(s, c).total >= MarkedDays(s, {c}, Statuses)
         /\ \A k \in Marks : marked[k] # "none" =>
              \E r \in Existing(k[1], k[2], k[3]) : attendance[r].status = marked[k]

=============================================================================
