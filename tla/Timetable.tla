------------------------------ MODULE Timetable ------------------------------
(***************************************************************************)
(* The timetables of one division, session and term:                       *)
(* internal/handlers/timetable.go.                                         *)
(*                                                                         *)
(* A save, by the builder or by upload, is three statements without a      *)
(* transaction: the current timetable of the class is archived, the        *)
(* highest version of the division is looked up, the new row is created.   *)
(* A class stands for a class_id or for the division as a whole (no        *)
(* class_id).  Grids, files and the dates of validity are left out, and    *)
(* with them CheckTeacherConflict, which changes nothing.                  *)
(***************************************************************************)
EXTENDS Integers, FiniteSets

CONSTANTS
  Classes,   \* values of class_id, null included
  NoClass,   \* class of a row that does not exist
  Ids,       \* ids of rows of timetables
  Handlers,  \* goroutines serving HTTP requests
  MaxFaults  \* bound: failed statements

ASSUME TimetableAssumption ==
  /\ NoClass \notin Classes
  /\ MaxFaults \in Nat

VARIABLES
  timetables, \* timetables: class_id, version, is_current
  local,      \* what each handler is doing, for which class, with which version
  overlapped, \* history: a save began while another was in progress
  faults

vars == <<timetables, local, overlapped, faults>>

NoRow == [class |-> NoClass, version |-> 0, current |-> FALSE]
Idle == [op |-> "idle", class |-> NoClass, version |-> 0]

Rows == {t \in Ids : timetables[t].class # NoClass}
RowsOf(c) == {t \in Rows : timetables[t].class = c}

Goto(h, op, c, v) == local' = [local EXCEPT ![h] = [op |-> op, class |-> c, version |-> v]]
Fault == faults < MaxFaults /\ faults' = faults + 1

-----------------------------------------------------------------------------
Archived(c) ==
  [t \in Ids |-> IF timetables[t].class = c THEN [timetables[t] EXCEPT !.current = FALSE]
                 ELSE timetables[t]]

\* Bound: an id is left for every save on its way.
RoomForOne ==
  Cardinality(Rows) + Cardinality({h \in Handlers : local[h] # Idle}) < Cardinality(Ids)

\* archiveCurrentTimetable; its error is not looked at.
archiveCurrentTimetable(h, c) ==
  /\ local[h] = Idle
  /\ RoomForOne
  /\ \/ timetables' = Archived(c) /\ UNCHANGED faults
     \/ Fault /\ UNCHANGED timetables
  /\ overlapped' = (overlapped \/ \E g \in Handlers : local[g] # Idle)
  /\ Goto(h, "version", c, 0)

\* Mutant: versions are counted from the rows that are current.
IsMaxVersionCurrent(v) ==
  LET versions == {timetables[t].version : t \in {u \in Rows : timetables[u].current}}
  IN v \in versions \cup {0} /\ \A w \in versions : w <= v

\* Mutant: without a row the highest version is -1.
IsMaxVersionNone(v) ==
  LET versions == {timetables[t].version : t \in Rows}
  IN v \in versions \cup {-1} /\ \A w \in versions : w <= v

\* COALESCE(MAX(version), 0) over the rows of the division.
IsMaxVersion(v) ==
  LET versions == {timetables[t].version : t \in Rows}
  IN v \in versions \cup {0} /\ \A w \in versions : w <= v

\* The versions of all classes; an error is not looked at and leaves zero.
CreateBuilderTimetable_Version(h) ==
  /\ local[h].op = "version"
  /\ \/ /\ \E v \in {timetables[t].version : t \in Ids} \cup {-1, 0} :
             IsMaxVersion(v) /\ Goto(h, "create", local[h].class, v + 1)
        /\ UNCHANGED faults
     \/ Goto(h, "create", local[h].class, 1) /\ Fault
  /\ UNCHANGED <<timetables, overlapped>>

\* Mutant: a new row has to be made current by hand.
NewDraft(h) == [class |-> local[h].class, version |-> local[h].version, current |-> FALSE]

New(h) == [class |-> local[h].class, version |-> local[h].version, current |-> TRUE]

CreateBuilderTimetable_Create(h) ==
  /\ local[h].op = "create"
  /\ \/ /\ \E t \in Ids \ Rows : timetables' = [timetables EXCEPT ![t] = New(h)]
        /\ UNCHANGED faults
     \/ Fault /\ UNCHANGED timetables
  /\ Goto(h, "idle", NoClass, 0)
  /\ UNCHANGED overlapped

\* UploadTimetable makes the same three statements for a file.
Save(h) ==
  \/ \E c \in Classes : archiveCurrentTimetable(h, c)
  \/ CreateBuilderTimetable_Version(h)
  \/ CreateBuilderTimetable_Create(h)

-----------------------------------------------------------------------------
Init ==
  /\ timetables = [t \in Ids |-> NoRow]
  /\ local = [h \in Handlers |-> Idle]
  /\ overlapped = FALSE
  /\ faults = 0

Next == \E h \in Handlers : Save(h)

Spec == Init /\ [][Next]_vars

-----------------------------------------------------------------------------
(* Properties. *)

Row == [class : Classes \cup {NoClass}, version : Nat, current : BOOLEAN]

\* A row that does not exist is not current.
TypeOK ==
  /\ timetables \in [Ids -> Row]
  /\ \A t \in Rows : timetables[t].version > 0
  /\ \A t \in Ids \ Rows : timetables[t] = NoRow
  /\ local \in [Handlers -> [op : {"idle", "version", "create"},
                             class : Classes \cup {NoClass}, version : Nat]]
  /\ overlapped \in BOOLEAN
  /\ faults \in Nat

\* timetable.go:118-123: when no save is in progress and no statement failed,
\* the timetables of a class with the highest version are current, however the
\* saves of that class and of the others overlapped: the one students see is
\* never an old one only.
NewestCurrent ==
  (\A h \in Handlers : local[h] = Idle) /\ faults = 0 =>
    \A t \in Rows :
      \/ timetables[t].current
      \/ \E u \in RowsOf(timetables[t].class) : timetables[u].version > timetables[t].version

\* archiveCurrentTimetable, timetable.go:292: a class has one current timetable
\* and no two rows of the division have the same version, as long as no two
\* saves overlap and no statement fails.
OneCurrent ==
  ~overlapped /\ faults = 0 =>
    \A t, u \in Rows : t # u =>
      /\ timetables[t].version # timetables[u].version
      /\ timetables[t].class = timetables[u].class =>
           ~timetables[t].current \/ ~timetables[u].current

\* A save of one class takes no other class its current timetable.
OthersKept ==
  [][\A t \in Ids : timetables[t].current /\ ~timetables'[t].current =>
       \E h \in Handlers : local'[h].op = "version" /\ local'[h].class = timetables[t].class]_vars

=============================================================================
