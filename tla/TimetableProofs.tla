--------------------------- MODULE TimetableProofs ---------------------------
(***************************************************************************)
(* What holds of the timetables for any classes, handlers and rows.        *)
(*                                                                         *)
(* The invariant follows a save through its statements.  Covered: a row    *)
(* that is no longer current has a newer row of its class, or a save of    *)
(* its class that will create one.  Serial, as long as no two saves        *)
(* overlapped: at most one is on its way, its class has no current row     *)
(* and the version it looked up is above all.                              *)
(***************************************************************************)
EXTENDS Timetable, TLAPS

Record == [op : {"idle", "version", "create"}, class : Classes \cup {NoClass}, version : Nat]

LocalOK ==
  \A h \in Handlers :
    /\ local[h].op = "idle" => local[h] = Idle
    /\ local[h].op # "idle" => local[h].class \in Classes
    /\ local[h].op = "create" => local[h].version > 0

WillCover(h, t) ==
  /\ local[h].class = timetables[t].class
  /\ \/ local[h].op = "version"
     \/ local[h].op = "create" /\ local[h].version > timetables[t].version

CoveredRow(t) ==
  \/ timetables[t].current
  \/ \E u \in RowsOf(timetables[t].class) : timetables[u].version > timetables[t].version
  \/ \E h \in Handlers : WillCover(h, t)

Covered == faults = 0 => \A t \in Rows : CoveredRow(t)

OneSave == \A g, h \in Handlers : local[g].op # "idle" /\ local[h].op # "idle" => g = h

MayCreate(h) ==
  /\ local[h].op # "idle" =>
       \A t \in Rows : timetables[t].class = local[h].class => ~timetables[t].current
  /\ local[h].op = "create" =>
       \A t \in Rows : local[h].version > timetables[t].version

Distinct ==
  \A t, u \in Rows : t # u =>
    /\ timetables[t].version # timetables[u].version
    /\ timetables[t].class = timetables[u].class =>
         ~timetables[t].current \/ ~timetables[u].current

Serial ==
  ~overlapped /\ faults = 0 => OneSave /\ Distinct /\ \A h \in Handlers : MayCreate(h)

IInv == TypeOK /\ LocalOK /\ Covered /\ Serial

-----------------------------------------------------------------------------
(* What a step does to the rows and to what the handlers hold. *)

LEMMA InitIInv == Init => IInv
<1> SUFFICES ASSUME Init PROVE IInv
  OBVIOUS
<1> USE TimetableAssumption DEF Init
<1>1. NoRow \in Row /\ Idle \in Record /\ NoRow.class = NoClass /\ Idle.op = "idle"
  BY DEF NoRow, Row, Idle, Record
<1>2. Rows = {}
  BY <1>1 DEF Rows
<1>3. TypeOK
  BY <1>1, <1>2 DEF TypeOK, Record
<1>4. LocalOK
  BY <1>1 DEF LocalOK
<1>5. Covered
  BY <1>2 DEF Covered
<1>6. Serial
  BY <1>1, <1>2 DEF Serial, OneSave, Distinct, MayCreate
<1> QED BY <1>3, <1>4, <1>5, <1>6 DEF IInv

\* Where a handler goes is recorded and touches no other.
LEMMA GotoLocal ==
  ASSUME TypeOK, LocalOK, NEW h \in Handlers,
         NEW op \in {"idle", "version", "create"}, NEW c, NEW v \in Nat,
         op = "idle" => c = NoClass /\ v = 0,
         op # "idle" => c \in Classes,
         op = "create" => v > 0,
         Goto(h, op, c, v)
  PROVE  /\ local' \in [Handlers -> Record]
         /\ LocalOK'
         /\ local'[h] = [op |-> op, class |-> c, version |-> v]
         /\ \A g \in Handlers : g # h => local'[g] = local[g]
<1>1. [op |-> op, class |-> c, version |-> v] \in Record
  BY DEF Record
<1>2. local \in [Handlers -> Record]
  BY DEF TypeOK, Record
<1>3. /\ local' \in [Handlers -> Record]
      /\ local'[h] = [op |-> op, class |-> c, version |-> v]
      /\ \A g \in Handlers : g # h => local'[g] = local[g]
  BY <1>1, <1>2 DEF Goto
<1>4. LocalOK'
  BY <1>3 DEF LocalOK, Idle
<1> QED BY <1>3, <1>4

\* Archiving changes which rows of the class are current and nothing else.
LEMMA ArchivedRows ==
  ASSUME TypeOK, NEW c \in Classes
  PROVE  /\ Archived(c) \in [Ids -> Row]
         /\ \A t \in Ids :
              /\ Archived(c)[t].class = timetables[t].class
              /\ Archived(c)[t].version = timetables[t].version
              /\ timetables[t].class = c => ~Archived(c)[t].current
              /\ timetables[t].class # c => Archived(c)[t] = timetables[t]
<1>1. timetables \in [Ids -> Row]
  BY DEF TypeOK
<1>2. ASSUME NEW t \in Ids, NEW r \in Row
      PROVE  /\ [r EXCEPT !.current = FALSE] \in Row
             /\ [r EXCEPT !.current = FALSE].class = r.class
             /\ [r EXCEPT !.current = FALSE].version = r.version
             /\ ~[r EXCEPT !.current = FALSE].current
  BY DEF Row
<1> QED BY <1>1, <1>2 DEF Archived

-----------------------------------------------------------------------------
(* Each statement of a save preserves the invariant. *)

LEMMA ArchivePreserves ==
  ASSUME IInv, NEW h \in Handlers, NEW c \in Classes, archiveCurrentTimetable(h, c)
  PROVE  IInv'
<1> USE DEF IInv
<1>1. /\ local[h].op = "idle" /\ local[h] = Idle /\ Goto(h, "version", c, 0)
      /\ overlapped' = (overlapped \/ \E g \in Handlers : local[g] # Idle)
  BY DEF archiveCurrentTimetable, Idle
<1>2. /\ local' \in [Handlers -> Record] /\ LocalOK'
      /\ local'[h] = [op |-> "version", class |-> c, version |-> 0]
      /\ \A g \in Handlers : g # h => local'[g] = local[g]
  BY <1>1, GotoLocal
<1>3. /\ timetables' \in [Ids -> Row]
      /\ \A t \in Ids : timetables'[t].class = timetables[t].class
                        /\ timetables'[t].version = timetables[t].version
      /\ \A t \in Ids : timetables[t].class # c => timetables'[t] = timetables[t]
      /\ \A t \in Ids : timetables'[t].current => timetables[t].current
      /\ faults' = 0 => \A t \in Ids : timetables[t].class = c => ~timetables'[t].current
  <2>1. CASE timetables' = Archived(c) /\ UNCHANGED faults
    <3>1. \A t \in Ids : timetables'[t].current => timetables[t].current
      BY <2>1, ArchivedRows
    <3> QED BY <2>1, <3>1, ArchivedRows
  <2>2. CASE Fault /\ UNCHANGED timetables
    BY <2>2 DEF Fault, TypeOK
  <2> QED BY <2>1, <2>2 DEF archiveCurrentTimetable
<1>4. faults \in Nat /\ faults' \in Nat /\ (faults' = 0 => faults = 0)
  BY DEF archiveCurrentTimetable, Fault, TypeOK
<1>5. Rows' = Rows /\ \A d : RowsOf(d)' = RowsOf(d)
  BY <1>3 DEF Rows, RowsOf
<1>6. TypeOK'
  <2>1. \A t \in Ids \ Rows : timetables[t].class # c /\ timetables[t] = NoRow
    BY TimetableAssumption DEF TypeOK, NoRow
  <2>2. overlapped' \in BOOLEAN
    BY <1>1 DEF TypeOK
  <2>3. \A t \in Ids \ Rows : timetables'[t] = NoRow
    BY <1>3, <2>1
  <2>4. \A t \in Rows : timetables'[t].version > 0
    BY <1>3 DEF TypeOK, Rows
  <2> QED BY <1>2, <1>3, <1>4, <1>5, <2>2, <2>3, <2>4 DEF TypeOK, Record
<1>7. Covered'
  <2> SUFFICES ASSUME faults' = 0, NEW t \in Rows PROVE CoveredRow(t)'
    BY <1>5 DEF Covered
  <2>1. CoveredRow(t) /\ t \in Ids
    BY <1>4 DEF Covered, Rows
  <2>2. CASE timetables[t].class = c
    BY <1>2, <1>3, <2>1, <2>2 DEF CoveredRow, WillCover
  <2>3. CASE timetables[t].current /\ timetables[t].class # c
    BY <1>3, <2>1, <2>3 DEF CoveredRow
  <2>4. CASE \E u \in RowsOf(timetables[t].class) : timetables[u].version > timetables[t].version
    BY <1>3, <1>5, <2>1, <2>4 DEF CoveredRow, RowsOf, Rows
  <2>5. CASE \E g \in Handlers : WillCover(g, t)
    <3>1. PICK g \in Handlers : WillCover(g, t)
      BY <2>5
    <3>2. g # h
      BY <1>1, <3>1 DEF WillCover
    <3> QED BY <1>2, <1>3, <2>1, <3>1, <3>2 DEF CoveredRow, WillCover
  <2> QED BY <2>1, <2>2, <2>3, <2>4, <2>5 DEF CoveredRow
<1>8. Serial'
  <2> SUFFICES ASSUME ~overlapped', faults' = 0
               PROVE  OneSave' /\ Distinct' /\ \A g \in Handlers : MayCreate(g)'
    BY DEF Serial
  <2>1. \A g \in Handlers : g # h => local'[g].op = "idle"
    BY <1>1, <1>2 DEF Idle
  <2>2. OneSave'
    BY <2>1 DEF OneSave
  <2>3. Distinct'
    <3>1. Distinct /\ Rows \subseteq Ids
      BY <1>1, <1>4 DEF Serial, Rows
    <3>2. ASSUME NEW t \in Rows, NEW u \in Rows, t # u
          PROVE  /\ timetables'[t].version # timetables'[u].version
                 /\ timetables'[t].class = timetables'[u].class =>
                      ~timetables'[t].current \/ ~timetables'[u].current
      <4>1. timetables[t].version # timetables[u].version
        BY <3>1, <3>2 DEF Distinct
      <4>2. timetables[t].class = timetables[u].class =>
              ~timetables[t].current \/ ~timetables[u].current
        BY <3>1, <3>2, Zenon DEF Distinct
      <4>3. t \in Ids /\ u \in Ids
        BY <3>1
      <4> QED BY <1>3, <4>1, <4>2, <4>3
    <3> QED BY <1>5, <3>2 DEF Distinct
  <2>4. \A g \in Handlers : MayCreate(g)'
    BY <1>2, <1>3, <1>5, <2>1 DEF MayCreate, Rows
  <2> QED BY <2>2, <2>3, <2>4
<1> QED BY <1>2, <1>6, <1>7, <1>8

LEMMA VersionPreserves ==
  ASSUME IInv, NEW h \in Handlers, CreateBuilderTimetable_Version(h)
  PROVE  IInv'
<1> USE DEF IInv
<1>1. /\ local[h].op = "version" /\ local[h].class \in Classes
      /\ UNCHANGED <<timetables, overlapped>>
  BY DEF CreateBuilderTimetable_Version, LocalOK
<1>2. PICK n \in Nat : /\ n > 0 /\ Goto(h, "create", local[h].class, n)
                       /\ faults' = 0 => faults = 0 /\ \A t \in Rows : n > timetables[t].version
  <2>1. CASE /\ \E v \in {timetables[t].version : t \in Ids} \cup {-1, 0} :
                  IsMaxVersion(v) /\ Goto(h, "create", local[h].class, v + 1)
             /\ UNCHANGED faults
    <3>1. PICK v : IsMaxVersion(v) /\ Goto(h, "create", local[h].class, v + 1)
      BY <2>1
    <3>2. \A t \in Rows : timetables[t].version \in Nat
      BY DEF TypeOK, Rows, Row
    <3>3. v \in Nat
      BY <3>1, <3>2 DEF IsMaxVersion
    <3>4. \A t \in Rows : timetables[t].version <= v
      BY <3>1 DEF IsMaxVersion
    <3>5. \A t \in Rows : v + 1 > timetables[t].version
      BY <3>2, <3>3, <3>4
    <3>6. v + 1 \in Nat /\ v + 1 > 0
      BY <3>3
    <3> QED BY <2>1, <3>1, <3>5, <3>6
  <2>2. CASE Goto(h, "create", local[h].class, 1) /\ Fault
    BY <2>2 DEF Fault, TypeOK
  <2> QED BY <2>1, <2>2 DEF CreateBuilderTimetable_Version
<1>3. /\ local' \in [Handlers -> Record] /\ LocalOK'
      /\ local'[h] = [op |-> "create", class |-> local[h].class, version |-> n]
      /\ \A g \in Handlers : g # h => local'[g] = local[g]
  BY <1>1, <1>2, GotoLocal
<1>4. Rows' = Rows /\ \A d : RowsOf(d)' = RowsOf(d)
  BY <1>1 DEF Rows, RowsOf
<1>5. faults' \in Nat
  BY DEF CreateBuilderTimetable_Version, Fault, TypeOK
<1>6. TypeOK'
  BY <1>1, <1>3, <1>4, <1>5 DEF TypeOK, Record
<1>7. Covered'
  <2> SUFFICES ASSUME faults' = 0, NEW t \in Rows PROVE CoveredRow(t)'
    BY <1>4 DEF Covered
  <2>1. CoveredRow(t)
    BY <1>2 DEF Covered
  <2>2. CASE \E g \in Handlers : WillCover(g, t)
    <3>1. PICK g \in Handlers : WillCover(g, t)
      BY <2>2
    <3>2. WillCover(g, t)'
      BY <1>1, <1>2, <1>3, <3>1 DEF WillCover
    <3> QED BY <3>2 DEF CoveredRow
  <2> QED BY <1>1, <1>4, <2>1, <2>2 DEF CoveredRow
<1>8. Serial'
  <2> SUFFICES ASSUME ~overlapped', faults' = 0
               PROVE  OneSave' /\ Distinct' /\ \A g \in Handlers : MayCreate(g)'
    BY DEF Serial
  <2>1. OneSave /\ Distinct /\ \A g \in Handlers : MayCreate(g)
    BY <1>1, <1>2 DEF Serial
  <2>2. OneSave'
    BY <1>1, <1>3, <2>1 DEF OneSave
  <2>3. Distinct'
    BY <1>1, <1>4, <2>1 DEF Distinct
  <2>4. \A g \in Handlers : MayCreate(g)'
    BY <1>1, <1>2, <1>3, <1>4, <2>1 DEF MayCreate
  <2> QED BY <2>2, <2>3, <2>4
<1> QED BY <1>3, <1>6, <1>7, <1>8

LEMMA CreatePreserves ==
  ASSUME IInv, NEW h \in Handlers, CreateBuilderTimetable_Create(h)
  PROVE  IInv'
<1> USE DEF IInv
<1>1. /\ local[h].op = "create" /\ local[h].class \in Classes
      /\ local[h].version \in Nat /\ local[h].version > 0
      /\ Goto(h, "idle", NoClass, 0) /\ UNCHANGED overlapped
  BY DEF CreateBuilderTimetable_Create, LocalOK, TypeOK
<1>2. /\ local' \in [Handlers -> Record] /\ LocalOK'
      /\ local'[h].op = "idle"
      /\ \A g \in Handlers : g # h => local'[g] = local[g]
  <2>1. /\ local' \in [Handlers -> Record] /\ LocalOK'
        /\ local'[h] = [op |-> "idle", class |-> NoClass, version |-> 0]
        /\ \A g \in Handlers : g # h => local'[g] = local[g]
    BY <1>1, GotoLocal
  <2> QED BY <2>1
<1>3. CASE Fault /\ UNCHANGED timetables
  <2>1. faults' \in Nat /\ faults' # 0
    BY <1>3 DEF Fault, TypeOK
  <2>2. Rows' = Rows
    BY <1>3 DEF Rows
  <2>3. TypeOK'
    BY <1>1, <1>2, <1>3, <2>1, <2>2 DEF TypeOK, Record
  <2> QED BY <1>2, <2>1, <2>3 DEF Covered, Serial
<1>4. CASE /\ \E t \in Ids \ Rows : timetables' = [timetables EXCEPT ![t] = New(h)]
           /\ UNCHANGED faults
  <2>1. PICK r \in Ids \ Rows : timetables' = [timetables EXCEPT ![r] = New(h)]
    BY <1>4
  <2>2. /\ timetables' \in [Ids -> Row]
        /\ \A t \in Ids : t # r => timetables'[t] = timetables[t]
        /\ timetables'[r].class = local[h].class
        /\ timetables'[r].version = local[h].version
        /\ timetables'[r].current
    <3>1. /\ New(h) \in Row
          /\ New(h).class = local[h].class
          /\ New(h).version = local[h].version
          /\ New(h).current
      BY <1>1 DEF New, Row
    <3> QED BY <2>1, <3>1 DEF TypeOK
  <2>3. /\ Rows' = Rows \cup {r} /\ r \notin Rows
        /\ Rows \subseteq Ids /\ r \in Ids
    BY <1>1, <2>1, <2>2, TimetableAssumption DEF Rows
  <2>4. TypeOK'
    BY <1>1, <1>2, <1>4, <2>2, <2>3 DEF TypeOK, Record
  <2>5. Covered'
    <3> SUFFICES ASSUME faults' = 0, NEW t \in Rows, t # r PROVE CoveredRow(t)'
      BY <2>2, <2>3 DEF Covered, CoveredRow
    <3>1. CoveredRow(t) /\ t \in Ids /\ timetables'[t] = timetables[t]
      BY <1>4, <2>2, <2>3 DEF Covered
    <3>2. CASE \E u \in RowsOf(timetables[t].class) :
                 timetables[u].version > timetables[t].version
      BY <2>2, <2>3, <3>1, <3>2 DEF CoveredRow, RowsOf
    <3>3. CASE \E g \in Handlers : WillCover(g, t)
      <4>1. PICK g \in Handlers : WillCover(g, t)
        BY <3>3
      <4>2. CASE g = h
        <5>1. r \in RowsOf(timetables[t].class)'
          BY <1>1, <2>2, <2>3, <3>1, <4>1, <4>2 DEF RowsOf, WillCover
        <5>2. timetables'[r].version > timetables'[t].version
          BY <1>1, <2>2, <3>1, <4>1, <4>2 DEF WillCover
        <5> QED BY <3>1, <5>1, <5>2 DEF CoveredRow
      <4>3. CASE g # h
        BY <1>2, <3>1, <4>1, <4>3 DEF CoveredRow, WillCover
      <4> QED BY <4>2, <4>3
    <3> QED BY <3>1, <3>2, <3>3 DEF CoveredRow
  <2>6. Serial'
    <3> SUFFICES ASSUME ~overlapped', faults' = 0
                 PROVE  OneSave' /\ Distinct' /\ \A g \in Handlers : MayCreate(g)'
      BY DEF Serial
    <3>1. OneSave /\ Distinct /\ MayCreate(h)
      BY <1>1, <1>4 DEF Serial
    <3>2. \A g \in Handlers : local'[g].op = "idle"
      BY <1>1, <1>2, <3>1 DEF OneSave
    <3>3. Distinct'
      <4>1. ASSUME NEW t \in Rows
            PROVE  /\ t \in Ids /\ t # r
                   /\ timetables[t].version \in Nat
                   /\ timetables[t].version < local[h].version
                   /\ timetables[t].class = local[h].class => ~timetables[t].current
        BY <1>1, <2>3, <3>1 DEF MayCreate, TypeOK, Row
      <4>2. ASSUME NEW t \in Rows, NEW u \in Rows, t # u
            PROVE  /\ timetables[t].version # timetables[u].version
                   /\ timetables[t].class = timetables[u].class =>
                        ~timetables[t].current \/ ~timetables[u].current
        BY <3>1, <4>2, Zenon DEF Distinct
      <4> QED BY <1>1, <2>2, <2>3, <4>1, <4>2 DEF Distinct
    <3> QED BY <3>2, <3>3 DEF OneSave, MayCreate
  <2> QED BY <1>2, <2>4, <2>5, <2>6
<1> QED BY <1>3, <1>4 DEF CreateBuilderTimetable_Create

LEMMA StepIInv == IInv /\ [Next]_vars => IInv'
<1> SUFFICES ASSUME IInv, [Next]_vars PROVE IInv'
  OBVIOUS
<1>1. ASSUME NEW h \in Handlers, Save(h) PROVE IInv'
  BY <1>1, ArchivePreserves, VersionPreserves, CreatePreserves DEF Save
<1>2. CASE UNCHANGED vars
  <2>1. Rows' = Rows /\ \A c : RowsOf(c)' = RowsOf(c)
    BY <1>2 DEF vars, Rows, RowsOf
  <2>2. TypeOK' /\ LocalOK'
    BY <1>2, <2>1 DEF IInv, TypeOK, LocalOK, vars
  <2>3. Covered'
    BY <1>2, <2>1 DEF IInv, Covered, CoveredRow, WillCover, vars
  <2>4. Serial'
    BY <1>2, <2>1 DEF IInv, Serial, OneSave, Distinct, MayCreate, vars
  <2> QED BY <2>2, <2>3, <2>4 DEF IInv
<1> QED BY <1>1, <1>2 DEF Next

LEMMA Invariance == Spec => []IInv
BY InitIInv, StepIInv, PTL DEF Spec

-----------------------------------------------------------------------------
\* The rows, and what a handler holds of a save, are well formed: a row that
\* was not created is empty, versions count from one (timetable.go:123).
THEOREM TypeCorrect == Spec => []TypeOK
<1>1. IInv => TypeOK
  BY DEF IInv
<1> QED BY <1>1, Invariance, PTL

\* However the saves of a class overlap, once they are done the newest
\* timetable of the class is current (timetable.go:118-123).
THEOREM NewestIsCurrent == Spec => []NewestCurrent
<1>1. IInv => NewestCurrent
  <2> SUFFICES ASSUME IInv, \A h \in Handlers : local[h] = Idle, faults = 0, NEW t \in Rows
               PROVE  \/ timetables[t].current
                      \/ \E u \in RowsOf(timetables[t].class) :
                           timetables[u].version > timetables[t].version
    BY DEF NewestCurrent
  <2>1. \A h \in Handlers : ~WillCover(h, t)
    BY DEF WillCover, Idle
  <2>2. CoveredRow(t)
    BY DEF IInv, Covered
  <2> QED BY <2>1, <2>2 DEF CoveredRow
<1> QED BY <1>1, Invariance, PTL

\* Saves that do not overlap leave a class one current timetable, and the
\* versions of a division are never given twice (timetable.go:292).
THEOREM OneIsCurrent == Spec => []OneCurrent
<1>1. IInv => OneCurrent
  <2> SUFFICES ASSUME IInv, ~overlapped, faults = 0 PROVE Distinct
    BY DEF OneCurrent, Distinct
  <2> QED BY DEF IInv, Serial
<1> QED BY <1>1, Invariance, PTL

\* A save archives the timetables of its own class only (timetable.go:301-305).
THEOREM OthersAreKept == Spec => OthersKept
<1> DEFINE Kept == \A t \in Ids : timetables[t].current /\ ~timetables'[t].current =>
             \E h \in Handlers : local'[h].op = "version" /\ local'[h].class = timetables[t].class
<1>1. IInv /\ [Next]_vars => [Kept]_vars
  <2> SUFFICES ASSUME IInv, Next, NEW t \in Ids, timetables[t].current, ~timetables'[t].current
               PROVE  \E h \in Handlers : /\ local'[h].op = "version"
                                          /\ local'[h].class = timetables[t].class
    OBVIOUS
  <2>1. PICK h \in Handlers : Save(h)
    BY DEF Next
  <2>2. ASSUME NEW c \in Classes, archiveCurrentTimetable(h, c)
        PROVE  local'[h].op = "version" /\ local'[h].class = timetables[t].class
    <3>1. local'[h] = [op |-> "version", class |-> c, version |-> 0]
      BY <2>2, GotoLocal DEF IInv, archiveCurrentTimetable
    <3>2. timetables' = Archived(c)
      BY <2>2 DEF archiveCurrentTimetable
    <3>3. timetables[t].class = c
      BY <3>2, ArchivedRows DEF IInv
    <3> QED BY <3>1, <3>3
  <2>3. ~CreateBuilderTimetable_Version(h)
    BY DEF CreateBuilderTimetable_Version
  <2>4. ~CreateBuilderTimetable_Create(h)
    <3>1. \A r \in Ids \ Rows : \A n : timetables' = [timetables EXCEPT ![r] = n] =>
            r = t
      BY DEF IInv, TypeOK
    <3>2. \A r \in Ids \ Rows : ~timetables[r].current
      BY DEF IInv, TypeOK, NoRow
    <3> QED BY <3>1, <3>2 DEF CreateBuilderTimetable_Create
  <2> QED BY <2>1, <2>2, <2>3, <2>4 DEF Save
<1> QED BY <1>1, Invariance, PTL DEF Spec, OthersKept

=============================================================================
