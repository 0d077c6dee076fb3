--------------------------- MODULE ScoreBookProofs ---------------------------
(***************************************************************************)
(* What holds of a score sheet for any students, marks, rows, requests and *)
(* failures: its types, that only an approver approves, whom an accepted   *)
(* submission leaves without a row, and that requests coming one at a time *)
(* keep one row per student and the promise of ScoreWorkflow.              *)
(*                                                                         *)
(* The last two need what a save knows between its two steps: the row it   *)
(* holds is the row of its student, or its student has none (Looked), and  *)
(* it is still as it was read (Fresh).  Who is left out is about every     *)
(* submission on its way, overlapping or not: whom it names and who has    *)
(* neither a row nor a line still to come is paid for by a failure each    *)
(* (Fine); and as many lines as students, which name nobody twice and no   *)
(* other, name them all.                                                   *)
(***************************************************************************)
EXTENDS ScoreBook, TLAPS, WellFoundedInduction, FiniteSetTheorems, SequenceTheorems

Line == [student : Students, mark : Marks]

\* What a handler holds of its request: a save has lines left, and an update
\* of the marking scheme has the marks it was sent.
Holds(rec) ==
  /\ rec.op \in {"saveRead", "saveWrite"} => rec.list # <<>>
  /\ rec.op = "saveWrite" => rec.id \in Entries \cup {-1}
  /\ rec.op = "structureWrite" => rec.row.mark \in Marks /\ rec.id \in Structures \cup {0}

Holding == \A h \in Handlers : Holds(local[h])

\* Whatever save is between its steps, it knows the rows of its student.
Looked(h) ==
  local[h].op = "saveWrite" =>
    IF local[h].id = -1 THEN RowsOf(local[h].list[1].student) = {}
    ELSE local[h].id \in RowsOf(local[h].list[1].student)

OneRow == \A d, e \in Rows : entries[d].student = entries[e].student => d = e

Single == Serial => OneRow /\ \A h \in load.handlers : Looked(h)

IInv == TypeOK /\ Holding

-----------------------------------------------------------------------------
(* A query with First and no order takes the row with the lowest id; that    *)
(* there is one, whatever the set of ids, is the least-number principle.  It *)
(* follows from the well-foundedness of strict inclusion among finite sets,  *)
(* applied to the intervals 1..n.                                            *)

LEMMA IntervalInclusion ==
  ASSUME NEW m \in Nat, NEW n \in Nat, m < n
  PROVE  1..m \subseteq 1..n /\ 1..m # 1..n
<1>1. n \in 1..n /\ n \notin 1..m
  OBVIOUS
<1> QED BY <1>1

\* A non-empty set of ids has a lowest one.
LEMMA MinMember ==
  ASSUME NEW S \in SUBSET Nat, S # {}
  PROVE  Min(S) \in S
<1> DEFINE T == {1..n : n \in S}
           R == StrictSubsetOrdering(Nat)
<1>1. T \subseteq FiniteSubsetsOf(Nat) /\ T # {}
  <2>1. ASSUME NEW n \in S PROVE 1..n \in SUBSET Nat /\ IsFiniteSet(1..n)
    BY FS_Interval
  <2> QED BY <2>1 DEF FiniteSubsetsOf
<1>2. IsWellFoundedOn(R, FiniteSubsetsOf(Nat))
  BY FS_StrictSubsetOrderingWellFounded
<1>3. ASSUME NEW m \in S, NEW n \in S, m < n PROVE <<1..m, 1..n>> \in R
  <2>1. 1..m \subseteq 1..n /\ 1..m # 1..n /\ 1..m \in SUBSET Nat /\ 1..n \in SUBSET Nat
    BY <1>3, IntervalInclusion
  <2> QED BY <2>1 DEF StrictSubsetOrdering
<1> HIDE DEF R
<1> HIDE DEF T
<1>4. PICK x \in T : \A y \in T : ~(<<y, x>> \in R)
  <2> DEFINE W == FiniteSubsetsOf(Nat)
  <2>1. IsWellFoundedOn(R, W) /\ T \subseteq W /\ T # {}
    BY <1>1, <1>2
  <2> HIDE DEF W
  <2> QED BY <2>1, WFMin
<1> USE DEF T
<1>5. PICK n \in S : x = 1..n
  OBVIOUS
<1>6. ASSUME NEW m \in S PROVE n <= m
  <2>1. 1..m \in T
    OBVIOUS
  <2>2. ~(<<1..m, 1..n>> \in R)
    BY <2>1, <1>4, <1>5
  <2>3. ~(m < n)
    BY <2>2, <1>3
  <2> QED BY <2>3
<1> QED BY <1>6 DEF Min

-----------------------------------------------------------------------------
(* Facts about rows, requests and handlers. *)

LEMMA LoadHandlers ==
  ASSUME TypeOK, NEW h \in load.handlers
  PROVE  h \in Handlers
BY ScoreAssumption DEF TypeOK

LEMMA LoadLists ==
  ASSUME TypeOK, NEW list \in load.lists
  PROVE  list \in Seq(Line) /\ list # <<>>
BY ScoreAssumption DEF TypeOK, Line

\* The first line of a request names a student and a mark.
LEMMA FirstLine ==
  ASSUME TypeOK, Holding, NEW h \in Handlers, local[h].op \in {"saveRead", "saveWrite"}
  PROVE  /\ local[h].list \in Seq(Line) /\ local[h].list # <<>>
         /\ local[h].list[1].student \in Students
         /\ local[h].list[1].mark \in Marks
<1>1. local[h].list \in Seq(Line) /\ local[h].list # <<>>
  BY DEF TypeOK, Holding, Holds, Local, Line
<1>2. local[h].list[1] \in Line
  BY <1>1
<1> QED BY <1>1, <1>2 DEF Line

LEMMA IdleTyped == Idle \in Local /\ Holds(Idle) /\ Idle.op = "idle" /\ NoEntry \in Entry
<1>1. NoEntry \in Entry
  BY DEF NoEntry, Entry, Statuses
<1>2. Idle \in Local
  BY <1>1 DEF Idle, Local
<1> QED BY <1>1, <1>2 DEF Idle, Holds

\* Where a handler goes is recorded and touches no other.
LEMMA GotoTyped ==
  ASSUME TypeOK, Holding, NEW h \in Handlers, NEW rec \in Local, Holds(rec), Goto(h, rec)
  PROVE  /\ local' \in [Handlers -> Local] /\ Holding'
         /\ local'[h] = rec /\ \A g \in Handlers : g # h => local'[g] = local[g]
<1>1. /\ local' \in [Handlers -> Local] /\ local'[h] = rec
      /\ \A g \in Handlers : g # h => local'[g] = local[g]
  BY DEF TypeOK, Goto
<1>2. ASSUME NEW g \in Handlers PROVE Holds(local[g])'
  BY <1>1 DEF Holding, Holds
<1> QED BY <1>1, <1>2 DEF Holding

\* A row is written whole: a student's row has a status, the others have none.
LEMMA EntryWritten ==
  ASSUME TypeOK, NEW e \in Entries, NEW row \in Entry,
         row.student # NoStudent, row.status # "none",
         entries' = [entries EXCEPT ![e] = row]
  PROVE  /\ entries' \in [Entries -> Entry]
         /\ \A d \in Entries : entries'[d].status = "none" <=> d \notin Rows'
         /\ Rows' = Rows \cup {e}
         /\ entries'[e] = row /\ \A d \in Entries : d # e => entries'[d] = entries[d]
<1>1. /\ entries' \in [Entries -> Entry] /\ entries'[e] = row
      /\ \A d \in Entries : d # e => entries'[d] = entries[d]
  BY DEF TypeOK
<1> QED BY <1>1 DEF TypeOK, Rows

LEMMA WrittenTyped ==
  ASSUME NEW row \in Entry, NEW line \in Line, NEW submit \in BOOLEAN
  PROVE  /\ Written(row, line, submit) \in Entry
         /\ Written(row, line, submit).student = line.student
         /\ Written(row, line, submit).student # NoStudent
         /\ Written(row, line, submit).status \in {"DRAFT", "SUBMITTED"}
BY ScoreAssumption DEF Written, Line, Entry, Statuses

-----------------------------------------------------------------------------
(* The invariant, action by action. *)

LEMMA InitIInv == Init => IInv
<1> SUFFICES ASSUME Init PROVE IInv
  OBVIOUS
<1> USE IdleTyped, ScoreAssumption DEF Init
<1>1. Rows = {} /\ NoEntry.status = "none"
  BY DEF Rows, NoEntry
<1>2. faults \in Nat /\ structures \in [Structures -> Marks \cup {0}]
  OBVIOUS
<1>3. TypeOK
  BY <1>1, <1>2 DEF TypeOK
<1>4. Holding
  BY DEF Holding
<1> QED BY <1>3, <1>4 DEF IInv

\* A request with a marking scheme holds the row it found, or none.
LEMMA StructureReadCases ==
  ASSUME IInv, NEW h \in Handlers, NEW exam \in Marks, UpsertScoreStructure_Read(h, exam)
  PROVE  \E rec \in Local :
           /\ Goto(h, rec) /\ Holds(rec) /\ rec.op = "structureWrite" /\ rec.sent = <<>>
           /\ UNCHANGED <<load, structures, termOpen, entries, acked>>
           /\ faults' \in Nat
<1>1. PICK id \in Structures \cup {0} :
        Goto(h, [Idle EXCEPT !.op = "structureWrite", !.row = [NoEntry EXCEPT !.mark = exam],
                             !.id = id])
  BY DEF UpsertScoreStructure_Read
<1>2. /\ UNCHANGED <<load, structures, termOpen, entries, acked>>
      /\ faults' \in Nat
  BY DEF UpsertScoreStructure_Read, Fault, IInv, TypeOK
<1> DEFINE rec == [Idle EXCEPT !.op = "structureWrite", !.row = [NoEntry EXCEPT !.mark = exam],
                             !.id = id]
           row == [NoEntry EXCEPT !.mark = exam]
<1>3. row \in Entry /\ row.mark = exam
  BY IdleTyped DEF Entry
<1> HIDE DEF row
<1>4. /\ rec.op = "structureWrite" /\ rec.row = row /\ rec.id = id /\ rec.sent = <<>>
      /\ rec \in Local
  BY <1>3, IdleTyped DEF Idle, Local, row
<1>5. Goto(h, rec)
  BY <1>1
<1> HIDE DEF rec
<1>6. Holds(rec)
  BY <1>3, <1>4 DEF Holds
<1> QED BY <1>2, <1>4, <1>5, <1>6

LEMMA StructureReadIInv ==
  ASSUME IInv, NEW h \in Handlers, NEW exam \in Marks, UpsertScoreStructure_Read(h, exam)
  PROVE  IInv'
<1>1. /\ local' \in [Handlers -> Local] /\ Holding'
      /\ UNCHANGED <<load, structures, termOpen, entries, acked>>
      /\ faults' \in Nat
  BY StructureReadCases, GotoTyped DEF IInv
<1> QED BY <1>1 DEF IInv, TypeOK, Rows

LEMMA StructureWriteIInv ==
  ASSUME IInv, NEW h \in Handlers, UpsertScoreStructure_Write(h)
  PROVE  IInv'
<1>1. Goto(h, Idle) /\ UNCHANGED <<load, termOpen, entries, acked>>
  BY DEF UpsertScoreStructure_Write
<1>2. local[h].row.mark \in Marks /\ faults' \in Nat
  BY DEF UpsertScoreStructure_Write, Fault, IInv, TypeOK, Holding, Holds
<1>3. structures' \in [Structures -> Marks \cup {0}]
  BY <1>2 DEF UpsertScoreStructure_Write, IInv, TypeOK
<1>4. local' \in [Handlers -> Local] /\ Holding'
  BY <1>1, IdleTyped, GotoTyped DEF IInv
<1> QED BY <1>1, <1>2, <1>3, <1>4 DEF IInv, TypeOK, Rows

\* Whom a list names.
LEMMA NamesTyped ==
  ASSUME NEW list \in Seq(Line)
  PROVE  Names(list) \in Seq(Students) /\ DOMAIN Names(list) = DOMAIN list
<1>1. Len(list) \in Nat /\ DOMAIN list = 1..Len(list)
  BY LenProperties
<1>2. ASSUME NEW i \in 1..Len(list) PROVE list[i].student \in Students
  <2>1. list[i] \in Line
    BY <1>2, ElementOfSeq
  <2> QED BY <2>1 DEF Line
<1>3. Names(list) \in [1..Len(list) -> Students]
  BY <1>1, <1>2 DEF Names
<1> QED BY <1>1, <1>3, SeqDef

LEMMA CheckIInv ==
  ASSUME IInv, NEW h \in Handlers, NEW list \in load.lists, NEW submit \in BOOLEAN,
         SaveScores_Check(h, list, submit)
  PROVE  IInv'
<1> DEFINE sent == IF submit THEN Names(list) ELSE <<>>
           rec == [Idle EXCEPT !.op = "saveRead", !.list = list, !.submit = submit, !.sent = sent]
<1>1. list \in Seq(Line) /\ list # <<>> /\ sent \in Seq(Students)
  <2>1. list \in Seq(Line) /\ list # <<>>
    BY LoadLists DEF IInv
  <2> QED BY <2>1, NamesTyped
<1> HIDE DEF sent
<1>2. rec \in Local /\ Holds(rec)
  BY <1>1, IdleTyped DEF Idle, Local, Holds, Line
<1>3. Goto(h, rec) /\ UNCHANGED <<load, structures, termOpen, entries, acked>>
  BY DEF SaveScores_Check, sent
<1>4. faults' \in Nat
  BY DEF SaveScores_Check, Fault, IInv, TypeOK
<1> HIDE DEF rec
<1>5. local' \in [Handlers -> Local] /\ Holding'
  BY <1>2, <1>3, GotoTyped DEF IInv
<1> QED BY <1>3, <1>4, <1>5 DEF IInv, TypeOK, Rows

\* Going on with the next line, or answering.
LEMMA NextLineTyped ==
  ASSUME IInv, NEW h \in Handlers, local[h].op \in {"saveRead", "saveWrite"}, NextLine(h)
  PROVE  /\ local' \in [Handlers -> Local] /\ Holding' /\ acked' \in Seq(Students)
         /\ local'[h].op \in {"idle", "saveRead"}
         /\ \A g \in Handlers : g # h => local'[g] = local[g]
<1> DEFINE rest == Tail(local[h].list)
           next == [Idle EXCEPT !.op = "saveRead", !.list = rest, !.submit = local[h].submit,
                                !.sent = local[h].sent]
           rec == IF rest = <<>> THEN Idle ELSE next
<1>1. /\ local[h].list \in Seq(Line) /\ local[h].list # <<>> /\ local[h].submit \in BOOLEAN
      /\ local[h].sent \in Seq(Students)
  BY FirstLine DEF IInv, TypeOK, Local
<1>2. rest \in Seq(Line)
  BY <1>1
<1>3. Goto(h, rec) /\ acked' \in {local[h].sent, acked}
  BY DEF NextLine
<1>4. acked' \in Seq(Students)
  BY <1>1, <1>3 DEF IInv, TypeOK
<1> HIDE DEF rest
<1>5. rec \in Local /\ Holds(rec) /\ rec.op \in {"idle", "saveRead"}
  <2>1. CASE rest = <<>>
    BY <2>1, IdleTyped
  <2>2. CASE rest # <<>>
    <3>1. next \in Local /\ Holds(next) /\ next.op = "saveRead"
      BY <1>1, <1>2, <2>2, IdleTyped DEF Idle, Local, Holds, Line
    <3> QED BY <2>2, <3>1
  <2> QED BY <2>1, <2>2
<1> HIDE DEF rec
<1> QED BY <1>3, <1>4, <1>5, GotoTyped DEF IInv

\* The row First takes is a row of the student.
LEMMA Found ==
  ASSUME NEW s, RowsOf(s) # {}
  PROVE  Min(RowsOf(s)) \in RowsOf(s)
<1>1. RowsOf(s) \in SUBSET Nat
  BY ScoreAssumption DEF RowsOf, Rows
<1> QED BY <1>1, MinMember

\* A lookup finds the lowest row of the student, finds none, or fails.
LEMMA ReadCases ==
  ASSUME IInv, NEW h \in Handlers, SaveScores_Read(h)
  PROVE  /\ local[h].op = "saveRead" /\ UNCHANGED <<load, structures, termOpen, entries>>
         /\ \/ /\ RowsOf(local[h].list[1].student) # {}
               /\ NextLine(h) /\ UNCHANGED faults
            \/ \E row \in Entry, id \in Entries \cup {-1} :
                 /\ Goto(h, [local[h] EXCEPT !.op = "saveWrite", !.row = row, !.id = id])
                 /\ UNCHANGED acked /\ (id = -1 => row = NoEntry)
                 /\ \/ /\ id \in RowsOf(local[h].list[1].student) /\ UNCHANGED faults
                       /\ row = entries[id] /\ ~Locked(row)
                    \/ id = -1 /\ RowsOf(local[h].list[1].student) = {} /\ UNCHANGED faults
                    \/ id = -1 /\ Fault
<1> DEFINE s == local[h].list[1].student
           found == Min(RowsOf(s))
           go(row, id) == Goto(h, [local[h] EXCEPT !.op = "saveWrite", !.row = row, !.id = id])
<1>1. local[h].op = "saveRead" /\ UNCHANGED <<load, structures, termOpen, entries>>
  BY DEF SaveScores_Read
<1>2. \/ RowsOf(s) # {} /\ NextLine(h) /\ UNCHANGED faults
      \/ RowsOf(s) # {} /\ ~Locked(entries[found]) /\ go(entries[found], found) /\ UNCHANGED <<acked, faults>>
      \/ RowsOf(s) = {} /\ go(NoEntry, -1) /\ UNCHANGED <<acked, faults>>
      \/ Fault /\ go(NoEntry, -1) /\ UNCHANGED acked
  BY Zenon DEF SaveScores_Read
<1>3. NoEntry \in Entry
  BY IdleTyped
<1>4. RowsOf(s) # {} => found \in RowsOf(s) /\ found \in Entries /\ entries[found] \in Entry
                        /\ found # -1
  <2>1. RowsOf(s) \subseteq Entries /\ -1 \notin Entries
    BY ScoreAssumption DEF RowsOf, Rows
  <2> QED BY <2>1, Found DEF IInv, TypeOK
<1> HIDE DEF s, found, go
<1>5. CASE /\ RowsOf(s) # {} /\ ~Locked(entries[found]) /\ go(entries[found], found)
           /\ UNCHANGED <<acked, faults>>
  BY <1>1, <1>4, <1>5 DEF s, go
<1>6. CASE RowsOf(s) = {} /\ go(NoEntry, -1) /\ UNCHANGED <<acked, faults>>
  BY <1>1, <1>3, <1>6 DEF s, go
<1>7. CASE Fault /\ go(NoEntry, -1) /\ UNCHANGED acked
  BY <1>1, <1>3, <1>7 DEF go
<1>8. CASE RowsOf(s) # {} /\ NextLine(h) /\ UNCHANGED faults
  BY <1>1, <1>8 DEF s
<1> QED BY <1>1, <1>2, <1>5, <1>6, <1>7, <1>8

\* The row read and the line are kept for the write.
LEMMA ReadGoes ==
  ASSUME IInv, NEW h \in Handlers, local[h].op = "saveRead",
         NEW row \in Entry, NEW id \in Entries \cup {-1},
         Goto(h, [local[h] EXCEPT !.op = "saveWrite", !.row = row, !.id = id])
  PROVE  /\ local' \in [Handlers -> Local] /\ Holding'
         /\ local'[h].op = "saveWrite" /\ local'[h].id = id
         /\ local'[h].list = local[h].list /\ local'[h].sent = local[h].sent
         /\ \A g \in Handlers : g # h => local'[g] = local[g]
<1> DEFINE rec == [local[h] EXCEPT !.op = "saveWrite", !.row = row, !.id = id]
<1>1. local[h] \in Local /\ local[h].list # <<>>
  BY DEF IInv, TypeOK, Holding, Holds
<1>2. /\ rec \in Local /\ rec.op = "saveWrite" /\ rec.id = id
      /\ rec.list = local[h].list /\ rec.sent = local[h].sent
  BY <1>1 DEF Local
<1> HIDE DEF rec
<1>3. Holds(rec)
  BY <1>1, <1>2 DEF Holds
<1>4. Goto(h, rec)
  BY DEF rec
<1> QED BY <1>2, <1>3, <1>4, GotoTyped DEF IInv

LEMMA ReadIInv ==
  ASSUME IInv, NEW h \in Handlers, SaveScores_Read(h)
  PROVE  IInv'
<1>1. local[h].op = "saveRead" /\ UNCHANGED <<load, structures, termOpen, entries>>
  BY ReadCases
<1>2. local' \in [Handlers -> Local] /\ Holding' /\ acked' \in Seq(Students) /\ faults' \in Nat
  <2>1. CASE NextLine(h) /\ UNCHANGED faults
    BY <1>1, <2>1, NextLineTyped DEF IInv, TypeOK
  <2>2. ASSUME NEW row \in Entry, NEW id \in Entries \cup {-1},
               Goto(h, [local[h] EXCEPT !.op = "saveWrite", !.row = row, !.id = id]),
               UNCHANGED acked, UNCHANGED faults \/ Fault
        PROVE  local' \in [Handlers -> Local] /\ Holding' /\ acked' \in Seq(Students) /\ faults' \in Nat
    <3>1. local' \in [Handlers -> Local] /\ Holding'
      BY <1>1, <2>2, ReadGoes
    <3>2. faults' \in Nat /\ acked' \in Seq(Students)
      BY <2>2 DEF Fault, IInv, TypeOK
    <3> QED BY <3>1, <3>2
  <2> QED BY <2>1, <2>2, ReadCases
<1> QED BY <1>1, <1>2 DEF IInv, TypeOK, Rows

\* A write changes one row to that of its student, creates it, or fails.
LEMMA WriteCases ==
  ASSUME IInv, NEW h \in Handlers, SaveScores_Write(h)
  PROVE  /\ local[h].op = "saveWrite" /\ NextLine(h) /\ UNCHANGED <<load, structures, termOpen>>
         /\ \/ UNCHANGED entries /\ Fault
            \/ \E e \in Entries, row \in Entry :
                 /\ entries' = [entries EXCEPT ![e] = row]
                 /\ row.student = local[h].list[1].student /\ row.student # NoStudent
                 /\ row.status \in {"DRAFT", "SUBMITTED"}
                 /\ e = local[h].id \/ (local[h].id = -1 /\ e \notin Rows)
                 /\ UNCHANGED faults
<1> DEFINE row == Written(local[h].row, local[h].list[1], local[h].submit)
<1>1. /\ local[h].op = "saveWrite" /\ NextLine(h) /\ UNCHANGED <<load, structures, termOpen>>
      /\ \/ local[h].id # -1 /\ entries' = [entries EXCEPT ![local[h].id] = row] /\ UNCHANGED faults
         \/ /\ local[h].id = -1 /\ UNCHANGED faults
            /\ \E e \in load.entries \ Rows : entries' = [entries EXCEPT ![e] = row]
         \/ Fault /\ UNCHANGED entries
  BY DEF SaveScores_Write
<1>2. local[h].row \in Entry /\ local[h].submit \in BOOLEAN /\ local[h].list[1] \in Line
  <2>1. local[h] \in Local
    BY DEF IInv, TypeOK
  <2>2. local[h].list \in Seq(Line) /\ local[h].list # <<>>
    BY <1>1, FirstLine DEF IInv
  <2> QED BY <2>1, <2>2 DEF Local
<1>3. /\ row \in Entry /\ row.student = local[h].list[1].student
      /\ row.student # NoStudent /\ row.status \in {"DRAFT", "SUBMITTED"}
  BY <1>2, WrittenTyped
<1>4. local[h].id \in Entries \cup {-1} /\ load.entries \subseteq Entries
  BY <1>1, ScoreAssumption DEF IInv, TypeOK, Holding, Holds
<1> HIDE DEF row
<1>5. CASE local[h].id # -1 /\ entries' = [entries EXCEPT ![local[h].id] = row] /\ UNCHANGED faults
  BY <1>1, <1>3, <1>4, <1>5
<1>6. CASE /\ local[h].id = -1 /\ UNCHANGED faults
           /\ \E e \in load.entries \ Rows : entries' = [entries EXCEPT ![e] = row]
  BY <1>1, <1>3, <1>4, <1>6
<1>7. CASE Fault /\ UNCHANGED entries
  BY <1>1, <1>7
<1>8. \/ local[h].id # -1 /\ entries' = [entries EXCEPT ![local[h].id] = row] /\ UNCHANGED faults
      \/ /\ local[h].id = -1 /\ UNCHANGED faults
         /\ \E e \in load.entries \ Rows : entries' = [entries EXCEPT ![e] = row]
      \/ Fault /\ UNCHANGED entries
  BY <1>1
<1> QED BY <1>5, <1>6, <1>7, <1>8

LEMMA WriteIInv ==
  ASSUME IInv, NEW h \in Handlers, SaveScores_Write(h)
  PROVE  IInv'
<1>1. /\ local[h].op = "saveWrite" /\ NextLine(h) /\ UNCHANGED <<load, structures, termOpen>>
      /\ faults' \in Nat
  BY WriteCases DEF Fault, IInv, TypeOK
<1>2. local' \in [Handlers -> Local] /\ Holding' /\ acked' \in Seq(Students)
  BY <1>1, NextLineTyped
<1>3. /\ entries' \in [Entries -> Entry]
      /\ \A d \in Entries : entries'[d].status = "none" <=> d \notin Rows'
  <2>1. CASE UNCHANGED entries
    BY <2>1 DEF IInv, TypeOK, Rows
  <2>2. ASSUME NEW e \in Entries, NEW row \in Entry, entries' = [entries EXCEPT ![e] = row],
               row.student # NoStudent, row.status \in {"DRAFT", "SUBMITTED"}
        PROVE  /\ entries' \in [Entries -> Entry]
               /\ \A d \in Entries : entries'[d].status = "none" <=> d \notin Rows'
    BY <2>2, EntryWritten DEF IInv
  <2> QED BY <2>1, <2>2, WriteCases
<1> QED BY <1>1, <1>2, <1>3 DEF IInv, TypeOK

\* The requests on one row leave it its student and give it a status.
LEMMA SheetCases ==
  ASSUME IInv, NEW h \in Handlers, NEW e \in Rows,
         ApproveScores(h, e) \/ RejectScores(h, e) \/ RequestUnlock(h, e)
  PROVE  /\ local[h] = Idle /\ UNCHANGED <<load, structures, termOpen, local, acked, faults>>
         /\ entries' \in [Entries -> Entry] /\ Rows' = Rows
         /\ \A d \in Entries : /\ entries'[d].student = entries[d].student
                               /\ entries'[d].status = "none" <=> d \notin Rows'
<1>1. /\ e \in Entries /\ entries[e] \in Entry /\ entries[e].student # NoStudent
      /\ entries[e].status # "none" /\ entries \in [Entries -> Entry]
  BY DEF IInv, TypeOK, Rows
<1>2. local[h] = Idle /\ UNCHANGED <<load, structures, termOpen, local, acked, faults>>
  BY DEF ApproveScores, RejectScores, RequestUnlock
<1>3. PICK row \in Entry : /\ row.student = entries[e].student /\ row.status # "none"
                           /\ entries' = [entries EXCEPT ![e] = row]
  <2>1. CASE ApproveScores(h, e)
    <3>1. [entries[e] EXCEPT !.status = "APPROVED"] \in Entry
      BY <1>1 DEF Entry, Statuses
    <3> QED BY <1>1, <2>1, <3>1 DEF ApproveScores, Entry
  <2>2. CASE RejectScores(h, e)
    <3>1. [entries[e] EXCEPT !.status = "DRAFT"] \in Entry
      BY <1>1 DEF Entry, Statuses
    <3> QED BY <1>1, <2>2, <3>1 DEF RejectScores, Entry
  <2>3. CASE RequestUnlock(h, e)
    <3>1. [entries[e] EXCEPT !.unlock = TRUE] \in Entry
      BY <1>1 DEF Entry, Statuses
    <3> QED BY <1>1, <2>3, <3>1 DEF RequestUnlock, Entry
  <2> QED BY <2>1, <2>2, <2>3
<1>4. /\ entries' \in [Entries -> Entry] /\ Rows' = Rows \cup {e} /\ entries'[e] = row
      /\ \A d \in Entries : entries'[d].status = "none" <=> d \notin Rows'
      /\ \A d \in Entries : d # e => entries'[d] = entries[d]
  BY <1>1, <1>3, EntryWritten DEF IInv
<1>5. ASSUME NEW d \in Entries PROVE entries'[d].student = entries[d].student
  BY <1>3, <1>4
<1> QED BY <1>2, <1>4, <1>5

LEMMA SheetIInv ==
  ASSUME IInv, NEW h \in Handlers, NEW e \in Rows,
         ApproveScores(h, e) \/ RejectScores(h, e) \/ RequestUnlock(h, e)
  PROVE  IInv'
<1>1. Holding'
  BY SheetCases DEF IInv, Holding, Holds
<1> QED BY <1>1, SheetCases DEF IInv, TypeOK

LEMMA StepIInv == IInv /\ [Next]_vars => IInv'
<1> SUFFICES ASSUME IInv, [Next]_vars PROVE IInv'
  OBVIOUS
<1>1. CASE UNCHANGED vars
  BY <1>1 DEF vars, IInv, TypeOK, Holding, Holds, Rows
<1>2. ASSUME NEW h \in load.handlers, NEW exam \in Marks, UpsertScoreStructure_Read(h, exam)
      PROVE  IInv'
  BY <1>2, LoadHandlers, StructureReadIInv DEF IInv
<1>3. ASSUME NEW h \in load.handlers, UpsertScoreStructure_Write(h) PROVE IInv'
  BY <1>3, LoadHandlers, StructureWriteIInv DEF IInv
<1>4. ASSUME NEW h \in load.handlers, OpenCloseTerm(h) PROVE IInv'
  BY <1>4 DEF OpenCloseTerm, IInv, TypeOK, Holding, Holds, Rows
<1>5. ASSUME NEW h \in load.handlers, NEW list \in load.lists, NEW submit \in BOOLEAN,
             SaveScores_Check(h, list, submit)
      PROVE  IInv'
  BY <1>5, LoadHandlers, CheckIInv DEF IInv
<1>6. ASSUME NEW h \in load.handlers, SaveScores_Read(h) PROVE IInv'
  BY <1>6, LoadHandlers, ReadIInv DEF IInv
<1>7. ASSUME NEW h \in load.handlers, SaveScores_Write(h) PROVE IInv'
  BY <1>7, LoadHandlers, WriteIInv DEF IInv
<1>8. ASSUME NEW h \in load.handlers, NEW e \in Rows,
             ApproveScores(h, e) \/ RejectScores(h, e) \/ RequestUnlock(h, e)
      PROVE  IInv'
  BY <1>8, LoadHandlers, SheetIInv DEF IInv
<1> QED BY <1>1, <1>2, <1>3, <1>4, <1>5, <1>6, <1>7, <1>8 DEF Next

LEMMA AlwaysIInv == Spec => []IInv
BY InitIInv, StepIInv, PTL DEF Spec

\* The rows, the requests in progress and the counters have their types: no
\* row is written without its student, whatever overlaps or fails
\* (scores.go:332-344).
THEOREM TypeCorrect == Spec => []TypeOK
<1>1. IInv => TypeOK
  BY DEF IInv
<1> QED BY <1>1, AlwaysIInv, PTL

-----------------------------------------------------------------------------
(* Approvals. *)

ApprovesOnlySubmitted ==
  \A e \in Entries :
    entries'[e].status = "APPROVED" /\ entries[e].status # "APPROVED" =>
      entries[e].status = "SUBMITTED" /\ entries'[e].mark = entries[e].mark

\* What a save writes is never approved.
LEMMA WriteApproves ==
  ASSUME IInv, NEW h \in Handlers, SaveScores_Write(h)
  PROVE  ApprovesOnlySubmitted
<1>1. CASE UNCHANGED entries
  BY <1>1 DEF ApprovesOnlySubmitted
<1>2. ASSUME NEW e \in Entries, NEW row \in Entry, entries' = [entries EXCEPT ![e] = row],
             row.status \in {"DRAFT", "SUBMITTED"}
      PROVE  ApprovesOnlySubmitted
  BY <1>2 DEF ApprovesOnlySubmitted, IInv, TypeOK
<1> QED BY <1>1, <1>2, WriteCases

LEMMA SheetApproves ==
  ASSUME IInv, NEW h \in Handlers, NEW e \in Rows,
         ApproveScores(h, e) \/ RejectScores(h, e) \/ RequestUnlock(h, e)
  PROVE  ApprovesOnlySubmitted
<1>1. e \in Entries /\ entries[e] \in Entry /\ entries \in [Entries -> Entry]
  BY DEF IInv, TypeOK, Rows
<1>2. CASE ApproveScores(h, e)
  BY <1>1, <1>2 DEF ApproveScores, ApprovesOnlySubmitted, Entry
<1>3. CASE RejectScores(h, e)
  BY <1>1, <1>3 DEF RejectScores, ApprovesOnlySubmitted, Entry
<1>4. CASE RequestUnlock(h, e)
  BY <1>1, <1>4 DEF RequestUnlock, ApprovesOnlySubmitted, Entry
<1> QED BY <1>2, <1>3, <1>4

LEMMA StepApproves == IInv /\ [Next]_vars => ApprovesOnlySubmitted
<1> SUFFICES ASSUME IInv, [Next]_vars PROVE ApprovesOnlySubmitted
  OBVIOUS
<1>1. CASE UNCHANGED entries
  BY <1>1 DEF ApprovesOnlySubmitted
<1>2. ASSUME NEW h \in load.handlers, SaveScores_Write(h) PROVE ApprovesOnlySubmitted
  BY <1>2, LoadHandlers, WriteApproves DEF IInv
<1>3. ASSUME NEW h \in load.handlers, NEW e \in Rows,
             ApproveScores(h, e) \/ RejectScores(h, e) \/ RequestUnlock(h, e)
      PROVE  ApprovesOnlySubmitted
  BY <1>3, LoadHandlers, SheetApproves DEF IInv
<1>4. \/ UNCHANGED entries
      \/ \E h \in load.handlers : SaveScores_Write(h)
      \/ \E h \in load.handlers, e \in Rows :
           ApproveScores(h, e) \/ RejectScores(h, e) \/ RequestUnlock(h, e)
  <2>1. CASE UNCHANGED vars
    BY <2>1 DEF vars
  <2>2. CASE Next
    BY <2>2 DEF Next, UpsertScoreStructure_Read, UpsertScoreStructure_Write, OpenCloseTerm,
                SaveScores_Check, SaveScores_Read
  <2> QED BY <2>1, <2>2
<1> QED BY <1>1, <1>2, <1>3, <1>4

\* A row becomes approved only by approving it while it is submitted, with the
\* mark it had, whatever saves overlap (scores.go:325, 371-377).
THEOREM OnlyApproversApprove == Spec => ApprovalOnlyByApprover
<1>1. IInv /\ [Next]_vars =>
        [\A e \in Entries :
           entries'[e].status = "APPROVED" /\ entries[e].status # "APPROVED" =>
             entries[e].status = "SUBMITTED" /\ entries'[e].mark = entries[e].mark]_vars
  BY StepApproves DEF ApprovesOnlySubmitted
<1> QED BY <1>1, AlwaysIInv, PTL DEF Spec, ApprovalOnlyByApprover

-----------------------------------------------------------------------------
(* One row per student. *)

\* Requests one at a time are those of one handler.
LEMMA OneHandler ==
  ASSUME TypeOK, Serial, NEW g \in load.handlers, NEW h \in load.handlers
  PROVE  g = h
<1>1. IsFiniteSet(load.handlers) /\ Cardinality(load.handlers) = 1
  BY ScoreAssumption DEF TypeOK, Serial
<1>2. PICK x : load.handlers = {x}
  BY <1>1, FS_Singleton
<1> QED BY <1>2

LEMMA LoadStays == Next => load' = load /\ (faults' = faults \/ Fault)
<1> SUFFICES ASSUME Next PROVE load' = load /\ (faults' = faults \/ Fault)
  OBVIOUS
<1> QED BY Zenon
        DEF Next, UpsertScoreStructure_Read, UpsertScoreStructure_Write, OpenCloseTerm,
            SaveScores_Check, SaveScores_Read, SaveScores_Write,
            ApproveScores, RejectScores, RequestUnlock

\* A step with failures, or after one, is not serial.
LEMMA SerialBefore ==
  ASSUME IInv, [Next]_vars, Serial'
  PROVE  Serial /\ load' = load /\ ~Fault /\ faults' = faults
<1>1. load' = load /\ (faults' = faults \/ Fault)
  BY LoadStays DEF vars
<1>2. faults \in Nat /\ faults' = 0
  BY DEF IInv, TypeOK, Serial
<1> QED BY <1>1, <1>2 DEF Serial, Fault

\* A step that leaves the rows alone, and takes no handler to a write, leaves
\* what every save knows.
LEMMA KeepsSingle ==
  ASSUME OneRow, \A g \in load.handlers : Looked(g),
         NEW h \in load.handlers, load' = load, entries' = entries,
         local'[h].op # "saveWrite",
         \A g \in load.handlers : g # h => local'[g] = local[g]
  PROVE  OneRow' /\ \A g \in load'.handlers : Looked(g)'
<1>1. Rows' = Rows /\ \A s : RowsOf(s)' = RowsOf(s)
  BY DEF Rows, RowsOf
<1>2. OneRow'
  BY <1>1 DEF OneRow
<1>3. ASSUME NEW g \in load'.handlers PROVE Looked(g)'
  BY <1>1 DEF Looked
<1> QED BY <1>2, <1>3

LEMMA ReadSingle ==
  ASSUME IInv, Serial, OneRow, \A g \in load.handlers : Looked(g),
         NEW h \in load.handlers, SaveScores_Read(h), ~Fault
  PROVE  OneRow' /\ \A g \in load'.handlers : Looked(g)'
<1>1. h \in Handlers /\ load.handlers \subseteq Handlers
  BY LoadHandlers DEF IInv
<1>2. local[h].op = "saveRead" /\ UNCHANGED <<load, structures, termOpen, entries>>
  BY <1>1, ReadCases
<1>3. Rows' = Rows /\ \A s : RowsOf(s)' = RowsOf(s)
  BY <1>2 DEF Rows, RowsOf
<1>4. CASE NextLine(h)
  <2>1. local'[h].op # "saveWrite" /\ \A g \in Handlers : g # h => local'[g] = local[g]
    BY <1>1, <1>2, <1>4, NextLineTyped
  <2> QED BY <1>1, <1>2, <2>1, KeepsSingle
<1>5. ASSUME NEW row \in Entry, NEW id \in Entries \cup {-1},
             Goto(h, [local[h] EXCEPT !.op = "saveWrite", !.row = row, !.id = id]),
             \/ id \in RowsOf(local[h].list[1].student)
             \/ id = -1 /\ RowsOf(local[h].list[1].student) = {}
      PROVE  OneRow' /\ \A g \in load'.handlers : Looked(g)'
  <2>1. local'[h].id = id /\ local'[h].list = local[h].list
    BY <1>1, <1>2, <1>5, ReadGoes
  <2>2. -1 \notin RowsOf(local[h].list[1].student)
    BY ScoreAssumption DEF RowsOf, Rows
  <2>3. Looked(h)'
    BY <1>3, <1>5, <2>1, <2>2 DEF Looked
  <2>4. \A g \in load'.handlers : g = h
    BY <1>2, OneHandler DEF IInv
  <2> QED BY <1>2, <1>3, <2>3, <2>4 DEF OneRow
<1> QED BY <1>1, <1>4, <1>5, ReadCases

\* The row written is the one of its student, or the first.
LEMMA WriteSingle ==
  ASSUME IInv, Serial, OneRow, NEW h \in load.handlers, Looked(h), SaveScores_Write(h), ~Fault
  PROVE  OneRow' /\ \A g \in load'.handlers : Looked(g)'
<1>1. h \in Handlers
  BY LoadHandlers DEF IInv
<1>2. local[h].op = "saveWrite" /\ NextLine(h) /\ load' = load
  BY <1>1, WriteCases
<1>3. local'[h].op # "saveWrite"
  BY <1>1, <1>2, NextLineTyped
<1>4. \A g \in load'.handlers : g = h
  BY <1>2, OneHandler DEF IInv
<1> DEFINE s == local[h].list[1].student
<1>5. PICK e \in Entries, row \in Entry :
        /\ entries' = [entries EXCEPT ![e] = row]
        /\ row.student = s /\ row.student # NoStudent /\ row.status \in {"DRAFT", "SUBMITTED"}
        /\ e = local[h].id \/ (local[h].id = -1 /\ e \notin Rows)
  BY <1>1, WriteCases
<1>6. /\ Rows' = Rows \cup {e} /\ entries'[e] = row
      /\ \A d \in Entries : d # e => entries'[d] = entries[d]
  BY <1>5, EntryWritten DEF IInv
<1>7. \A d \in Rows : entries[d].student = s => d = e
  <2>1. CASE local[h].id = -1
    BY <1>2, <2>1 DEF Looked, RowsOf
  <2>2. CASE local[h].id # -1
    BY <1>2, <1>5, <2>2 DEF Looked, RowsOf, OneRow
  <2> QED BY <2>1, <2>2
<1> HIDE DEF s
<1>8. OneRow'
  <2>1. Rows \subseteq Entries
    BY DEF Rows
  <2> QED BY <1>5, <1>6, <1>7, <2>1 DEF OneRow
<1> QED BY <1>3, <1>4, <1>8 DEF Looked

\* A request on one row comes when no save is on its way.
LEMMA SheetSingle ==
  ASSUME IInv, Serial, OneRow, NEW h \in load.handlers, NEW e \in Rows,
         ApproveScores(h, e) \/ RejectScores(h, e) \/ RequestUnlock(h, e)
  PROVE  OneRow' /\ \A g \in load'.handlers : Looked(g)'
<1>1. h \in Handlers
  BY LoadHandlers DEF IInv
<1>2. /\ local' = local /\ load' = load /\ local[h] = Idle /\ Rows' = Rows
      /\ \A d \in Entries : entries'[d].student = entries[d].student
  BY <1>1, SheetCases
<1>3. OneRow'
  BY <1>2 DEF OneRow, Rows
<1>4. \A g \in load'.handlers : g = h
  BY <1>2, OneHandler DEF IInv
<1>5. Looked(h)'
  BY <1>2, IdleTyped DEF Looked
<1> QED BY <1>3, <1>4, <1>5

LEMMA StepSingle == IInv /\ Single /\ [Next]_vars => Single'
<1> SUFFICES ASSUME IInv, Single, [Next]_vars, Serial'
             PROVE  OneRow' /\ \A g \in load'.handlers : Looked(g)'
  BY DEF Single
<1>1. Serial /\ ~Fault /\ OneRow /\ \A g \in load.handlers : Looked(g)
  BY SerialBefore DEF Single
<1>2. CASE UNCHANGED vars
  BY <1>1, <1>2 DEF vars, OneRow, Looked, Rows, RowsOf
<1>3. ASSUME NEW h \in load.handlers, NEW rec, Goto(h, rec), rec.op # "saveWrite",
             load' = load, entries' = entries
      PROVE  OneRow' /\ \A g \in load'.handlers : Looked(g)'
  <2>1. local'[h] = rec /\ \A g \in load.handlers : g # h => local'[g] = local[g]
    BY <1>3, LoadHandlers DEF Goto, IInv, TypeOK
  <2> QED BY <1>1, <1>3, <2>1, KeepsSingle
<1>4. ASSUME NEW h \in load.handlers, NEW exam \in Marks, UpsertScoreStructure_Read(h, exam)
      PROVE  OneRow' /\ \A g \in load'.handlers : Looked(g)'
  BY <1>3, <1>4, LoadHandlers, StructureReadCases DEF IInv
<1>5. ASSUME NEW h \in load.handlers, UpsertScoreStructure_Write(h)
      PROVE  OneRow' /\ \A g \in load'.handlers : Looked(g)'
  BY <1>3, <1>5, IdleTyped DEF UpsertScoreStructure_Write
<1>6. ASSUME NEW h \in load.handlers, OpenCloseTerm(h)
      PROVE  OneRow' /\ \A g \in load'.handlers : Looked(g)'
  BY <1>1, <1>6 DEF OpenCloseTerm, OneRow, Looked, Rows, RowsOf
<1>7. ASSUME NEW h \in load.handlers, NEW list \in load.lists, NEW submit \in BOOLEAN,
             SaveScores_Check(h, list, submit)
      PROVE  OneRow' /\ \A g \in load'.handlers : Looked(g)'
  <2> DEFINE rec == [Idle EXCEPT !.op = "saveRead", !.list = list, !.submit = submit,
                                 !.sent = IF submit THEN Names(list) ELSE <<>>]
  <2>1. Goto(h, rec) /\ load' = load /\ entries' = entries
    BY <1>7 DEF SaveScores_Check
  <2>2. rec.op = "saveRead"
    BY DEF Idle
  <2> HIDE DEF rec
  <2> QED BY <1>3, <2>1, <2>2
<1>8. ASSUME NEW h \in load.handlers, SaveScores_Read(h)
      PROVE  OneRow' /\ \A g \in load'.handlers : Looked(g)'
  BY <1>1, <1>8, ReadSingle
<1>9. ASSUME NEW h \in load.handlers, SaveScores_Write(h)
      PROVE  OneRow' /\ \A g \in load'.handlers : Looked(g)'
  BY <1>1, <1>9, WriteSingle
<1>10. ASSUME NEW h \in load.handlers, NEW e \in Rows,
              ApproveScores(h, e) \/ RejectScores(h, e) \/ RequestUnlock(h, e)
       PROVE  OneRow' /\ \A g \in load'.handlers : Looked(g)'
  BY <1>1, <1>10, SheetSingle
<1> QED BY <1>2, <1>4, <1>5, <1>6, <1>7, <1>8, <1>9, <1>10 DEF Next

LEMMA InitSingle == Init => Single
<1> SUFFICES ASSUME Init PROVE Single
  OBVIOUS
<1>1. Rows = {}
  BY DEF Init, Rows, NoEntry
<1>2. \A h \in load.handlers : local[h] = Idle
  BY ScoreAssumption DEF Init
<1> QED BY <1>1, <1>2, IdleTyped DEF Single, OneRow, Looked

\* A student has one row, as long as requests come one at a time and their
\* statements succeed: the lookup of a save is still right when it writes
\* (scores.go:320-347).
THEOREM OneEntryEach == Spec => []OneEntryPerStudent
<1>1. TypeOK /\ Single => OneEntryPerStudent
  <2> SUFFICES ASSUME TypeOK, Single, Serial, NEW s \in Students
               PROVE  Cardinality(RowsOf(s)) <= 1
    BY DEF OneEntryPerStudent
  <2>1. \A d, e \in RowsOf(s) : d = e
    BY DEF Single, OneRow, RowsOf
  <2>2. CASE RowsOf(s) = {}
    BY <2>2, FS_EmptySet
  <2>3. CASE RowsOf(s) # {}
    <3>1. PICK x : RowsOf(s) = {x}
      BY <2>1, <2>3
    <3> QED BY <3>1, FS_Singleton
  <2> QED BY <2>2, <2>3
<1>2. IInv => TypeOK
  BY DEF IInv
<1> QED BY <1>1, <1>2, AlwaysIInv, InitSingle, StepSingle, PTL DEF Spec

-----------------------------------------------------------------------------
(* Whom a submission leaves without a row. *)

\* The students of the lines a save has left.
Named(list) == {list[i].student : i \in DOMAIN list}

\* A row that a save found stays a row of its student.
Owned ==
  \A h \in Handlers : local[h].op = "saveWrite" /\ local[h].id # -1 =>
    local[h].id \in RowsOf(local[h].list[1].student)

Few(S, n) == IsFiniteSet(S) /\ Cardinality(S) <= n

\* Of those a submission names, the ones with no row and no line to come.
Left(names, list) == {s \in Range(names) : RowsOf(s) = {} /\ s \notin Named(list)}

\* A failure has left each of them out, and a proper submission whose count did
\* not fail names the class.
Fine(names, list) ==
  /\ Few(Left(names, list), faults)
  /\ faults = 0 /\ Proper(names) => load.students \subseteq Range(names)

Due == (\A h \in Handlers : Fine(local[h].sent, local[h].list)) /\ Fine(acked, <<>>)

Scoring == Owned /\ Due

LEMMA FewerStill ==
  ASSUME NEW S, NEW T, NEW m \in Nat, NEW n \in Nat, Few(S, m), T \subseteq S, m <= n
  PROVE  Few(T, n)
<1>1. IsFiniteSet(S) /\ Cardinality(S) <= m
  BY DEF Few
<1>2. IsFiniteSet(T) /\ Cardinality(T) <= Cardinality(S)
  BY <1>1, FS_Subset
<1>3. Cardinality(S) \in Nat /\ Cardinality(T) \in Nat
  BY <1>1, <1>2, FS_CardinalityType
<1> QED BY <1>1, <1>2, <1>3 DEF Few

LEMMA OneMore ==
  ASSUME NEW S, NEW T, NEW x, NEW m \in Nat, Few(S, m), T \subseteq S \cup {x}
  PROVE  Few(T, m + 1)
<1>1. IsFiniteSet(S) /\ Cardinality(S) <= m /\ Cardinality(S) \in Nat
  BY FS_CardinalityType DEF Few
<1>2. /\ IsFiniteSet(S \cup {x})
      /\ Cardinality(S \cup {x}) = IF x \in S THEN Cardinality(S) ELSE Cardinality(S) + 1
  BY <1>1, FS_AddElement
<1>3. Few(S \cup {x}, m + 1)
  BY <1>1, <1>2 DEF Few
<1> QED BY <1>3, FewerStill

\* As many lines as there are students, none of them twice and none of another,
\* name them all.
LEMMA CompleteNamesAll ==
  ASSUME TypeOK, NEW list \in load.lists, Complete(list), Proper(Names(list))
  PROVE  load.students \subseteq Range(Names(list))
<1> DEFINE f == Names(list)
           R == Range(f)
<1>1. IsFiniteSet(load.students) /\ list \in Seq(Line)
  BY LoadLists, ScoreAssumption DEF TypeOK
<1>2. Len(list) \in Nat /\ DOMAIN f = 1..Len(list)
  BY <1>1, NamesTyped, LenProperties
<1>3. IsFiniteSet(1..Len(list)) /\ Cardinality(1..Len(list)) = Len(list)
  <2>1. 1 \in Int /\ Len(list) \in Int
    BY <1>2
  <2>2. IsFiniteSet(1..Len(list)) /\ Cardinality(1..Len(list)) = IF 1 > Len(list) THEN 0 ELSE Len(list) - 1 + 1
    BY <2>1, FS_Interval
  <2> QED BY <1>2, <2>2
<1>4. f \in Injection(1..Len(list), R) /\ R \subseteq load.students
  <2>1. \A i, j \in 1..Len(list) : f[i] = f[j] => i = j
    BY <1>2 DEF Proper, IsInjective
  <2>2. f \in [1..Len(list) -> R]
    BY <1>2 DEF Range, Names
  <2> QED BY <2>1, <2>2 DEF Injection, IsInjective, Proper
<1> HIDE DEF f, R
<1>5. /\ IsFiniteSet(R) /\ Cardinality(R) <= Cardinality(load.students)
      /\ (Cardinality(load.students) = Cardinality(R) => load.students = R)
  BY <1>1, <1>4, FS_Subset
<1>6. Cardinality(1..Len(list)) <= Cardinality(R)
  BY <1>3, <1>4, <1>5, FS_Injection
<1>7. /\ Cardinality(load.students) \in Nat /\ Cardinality(R) \in Nat
      /\ Len(list) >= Cardinality(load.students)
  BY <1>1, <1>5, FS_CardinalityType DEF Complete
<1>8. load.students = R
  BY <1>2, <1>3, <1>5, <1>6, <1>7
<1> QED BY <1>8 DEF f, R

\* Going on: the first line is done, the others are left.
LEMMA NextLineLeaves ==
  ASSUME IInv, NEW h \in Handlers, local[h].op \in {"saveRead", "saveWrite"}, NextLine(h)
  PROVE  /\ Named(local[h].list) \subseteq {local[h].list[1].student} \cup Named(Tail(local[h].list))
         /\ \/ /\ local'[h] = Idle /\ Tail(local[h].list) = <<>>
               /\ acked' \in {acked, local[h].sent}
            \/ /\ local'[h].op = "saveRead" /\ local'[h].list = Tail(local[h].list)
               /\ local'[h].sent = local[h].sent /\ acked' = acked
<1> DEFINE list == local[h].list
           next == [Idle EXCEPT !.op = "saveRead", !.list = Tail(list), !.submit = local[h].submit,
                                !.sent = local[h].sent]
<1>1. list \in Seq(Line) /\ list # <<>>
  BY FirstLine DEF IInv
<1>2. Named(list) \subseteq {list[1].student} \cup Named(Tail(list))
  <2>1. /\ Len(list) \in Nat \ {0} /\ DOMAIN list = 1..Len(list)
        /\ Tail(list) \in Seq(Line) /\ Len(Tail(list)) = Len(list) - 1
        /\ DOMAIN Tail(list) = 1..Len(Tail(list))
        /\ \A i \in 1..Len(Tail(list)) : Tail(list)[i] = list[i + 1]
    BY <1>1, EmptySeq, LenProperties, HeadTailProperties
  <2>2. ASSUME NEW i \in DOMAIN list, i # 1 PROVE list[i].student \in Named(Tail(list))
    <3>1. i - 1 \in DOMAIN Tail(list) /\ Tail(list)[i - 1] = list[i]
      BY <2>1, <2>2
    <3> QED BY <3>1 DEF Named
  <2> QED BY <2>2 DEF Named
<1>3. /\ Goto(h, IF Tail(list) = <<>> THEN Idle ELSE next)
      /\ acked' = IF Tail(list) = <<>> /\ local[h].submit THEN local[h].sent ELSE acked
      /\ local \in [Handlers -> Local]
  BY DEF NextLine, IInv, TypeOK
<1>4. CASE Tail(list) = <<>>
  <2>1. local'[h] = Idle
    BY <1>3, <1>4 DEF Goto
  <2> QED BY <1>2, <1>3, <1>4, <2>1
<1>5. CASE Tail(list) # <<>>
  <2>1. local'[h] = next
    BY <1>3, <1>5 DEF Goto
  <2>2. next.op = "saveRead" /\ next.list = Tail(list) /\ next.sent = local[h].sent
    BY DEF Idle
  <2> QED BY <1>2, <1>3, <1>5, <2>1, <2>2
<1> QED BY <1>4, <1>5

\* The rows of a student after a step, and who is left out then.
After(s) == {e \in Rows' : entries'[e].student = s}

LeftAfter(names, list) == {s \in Range(names) : After(s) = {} /\ s \notin Named(list)}

FineAfter(names, list) ==
  /\ Few(LeftAfter(names, list), faults')
  /\ faults' = 0 /\ Proper(names) => load.students \subseteq Range(names)

\* No step takes a row from a student.
LEMMA RowsGrow ==
  ASSUME IInv, Owned, [Next]_vars
  PROVE  /\ load' = load
         /\ faults \in Nat /\ faults' \in Nat /\ faults' >= faults
         /\ \A s : RowsOf(s) \subseteq After(s)
<1>1. load' = load /\ (faults' = faults \/ Fault)
  BY LoadStays DEF vars
<1>2. faults \in Nat /\ faults' \in Nat /\ faults' >= faults
  BY <1>1 DEF Fault, IInv, TypeOK
<1>3. ASSUME \A d \in Rows : d \in Rows' /\ entries'[d].student = entries[d].student, NEW s
      PROVE  RowsOf(s) \subseteq After(s)
  BY <1>3 DEF RowsOf, After
<1>4. \A d \in Rows : d \in Rows' /\ entries'[d].student = entries[d].student
  <2>1. CASE UNCHANGED entries
    BY <2>1 DEF Rows
  <2>2. ASSUME NEW h \in load.handlers, SaveScores_Write(h)
        PROVE  \A d \in Rows : d \in Rows' /\ entries'[d].student = entries[d].student
    <3>1. h \in Handlers /\ local[h].op = "saveWrite"
      BY <2>2, LoadHandlers, WriteCases DEF IInv
    <3>2. ASSUME NEW e \in Entries, NEW row \in Entry, entries' = [entries EXCEPT ![e] = row],
                 row.student = local[h].list[1].student, row.student # NoStudent,
                 row.status \in {"DRAFT", "SUBMITTED"},
                 e = local[h].id \/ (local[h].id = -1 /\ e \notin Rows)
          PROVE  \A d \in Rows : d \in Rows' /\ entries'[d].student = entries[d].student
      <4>1. /\ Rows' = Rows \cup {e} /\ entries'[e] = row
            /\ \A d \in Entries : d # e => entries'[d] = entries[d]
        BY <3>2, EntryWritten DEF IInv
      <4>2. e \in Rows => entries[e].student = row.student
        <5>1. -1 \notin Entries
          BY ScoreAssumption
        <5> QED BY <3>1, <3>2, <5>1 DEF Owned, RowsOf
      <4>3. Rows \subseteq Entries
        BY DEF Rows
      <4> QED BY <4>1, <4>2, <4>3
    <3> QED BY <2>1, <2>2, <3>1, <3>2, WriteCases
  <2>3. ASSUME NEW h \in load.handlers, NEW e \in Rows,
               ApproveScores(h, e) \/ RejectScores(h, e) \/ RequestUnlock(h, e)
        PROVE  \A d \in Rows : d \in Rows' /\ entries'[d].student = entries[d].student
    <3>1. /\ Rows' = Rows /\ Rows \subseteq Entries
          /\ \A d \in Entries : entries'[d].student = entries[d].student
      BY <2>3, LoadHandlers, SheetCases DEF IInv, Rows
    <3> QED BY <3>1
  <2>4. \/ UNCHANGED entries
        \/ \E h \in load.handlers : SaveScores_Write(h)
        \/ \E h \in load.handlers, e \in Rows :
             ApproveScores(h, e) \/ RejectScores(h, e) \/ RequestUnlock(h, e)
    <3>1. CASE UNCHANGED vars
      BY <3>1 DEF vars
    <3>2. CASE Next
      BY <3>2 DEF Next, UpsertScoreStructure_Read, UpsertScoreStructure_Write, OpenCloseTerm,
                  SaveScores_Check, SaveScores_Read
    <3> QED BY <3>1, <3>2
  <2> QED BY <2>1, <2>2, <2>3, <2>4
<1> QED BY <1>1, <1>2, <1>3, <1>4

\* A request that names nobody leaves nobody out.
LEMMA NobodyNamed ==
  ASSUME NEW list, faults' \in Nat
  PROVE  FineAfter(<<>>, list)
<1>1. Range(<<>>) = {}
  BY DEF Range
<1>2. LeftAfter(<<>>, list) = {}
  BY <1>1 DEF LeftAfter
<1>3. Few({}, faults')
  BY FS_EmptySet DEF Few
<1> QED BY <1>2, <1>3 DEF FineAfter, Proper

\* What is fine stays so while rows and failures are added.
LEMMA FineStays ==
  ASSUME IInv, Owned, [Next]_vars, NEW names, NEW list, Fine(names, list)
  PROVE  FineAfter(names, list)
<1>1. LeftAfter(names, list) \subseteq Left(names, list)
  BY RowsGrow DEF LeftAfter, Left
<1>2. Few(LeftAfter(names, list), faults')
  BY <1>1, RowsGrow, FewerStill DEF Fine
<1> QED BY <1>2, RowsGrow DEF Fine, FineAfter

LEMMA InitScoring == Init => Scoring
<1> SUFFICES ASSUME Init PROVE Scoring
  OBVIOUS
<1>1. \A h \in Handlers : local[h].op = "idle" /\ local[h].sent = <<>>
  BY DEF Init, Idle
<1>2. ASSUME NEW list PROVE Fine(<<>>, list)
  <2>1. Range(<<>>) = {} /\ faults = 0
    BY DEF Range, Init
  <2>2. Left(<<>>, list) = {}
    BY <2>1 DEF Left
  <2>3. Few({}, 0)
    BY FS_EmptySet DEF Few
  <2> QED BY <2>1, <2>2, <2>3 DEF Fine, Proper
<1> QED BY <1>1, <1>2 DEF Scoring, Owned, Due, Init

\* What a step of handler h does to the saves: the others go on as they were.
LEMMA KeepsScoring ==
  ASSUME IInv, Scoring, [Next]_vars, NEW h \in Handlers,
         \A g \in Handlers : g # h => local'[g] = local[g],
         local'[h].op = "saveWrite" /\ local'[h].id # -1 =>
           local'[h].id \in RowsOf(local'[h].list[1].student),
         FineAfter(local'[h].sent, local'[h].list),
         acked' = acked \/ FineAfter(acked', <<>>)
  PROVE  Scoring'
<1>1. load' = load /\ \A s : RowsOf(s) \subseteq After(s)
  BY RowsGrow DEF Scoring
<1>2. Owned'
  <2>1. ASSUME NEW g \in Handlers, local'[g].op = "saveWrite", local'[g].id # -1
        PROVE  local'[g].id \in After(local'[g].list[1].student)
    <3>1. local'[g].id \in RowsOf(local'[g].list[1].student)
      BY <2>1 DEF Scoring, Owned
    <3> QED BY <1>1, <3>1
  <2> QED BY <2>1 DEF Owned, RowsOf, After
<1>3. ASSUME NEW g \in Handlers PROVE FineAfter(local'[g].sent, local'[g].list)
  <2>1. CASE g = h
    BY <2>1
  <2>2. CASE g # h
    <3>1. Fine(local[g].sent, local[g].list) /\ local'[g] = local[g]
      BY <2>2 DEF Scoring, Due
    <3> QED BY <3>1, FineStays DEF Scoring
  <2> QED BY <2>1, <2>2
<1>4. FineAfter(acked', <<>>)
  <2>1. Fine(acked, <<>>)
    BY DEF Scoring, Due
  <2>2. FineAfter(acked, <<>>)
    BY <2>1, FineStays DEF Scoring
  <2> QED BY <2>2
<1>5. Due'
  BY <1>1, <1>3, <1>4 DEF Due, Fine, FineAfter, Left, LeftAfter, Named, Proper, Few, RowsOf, After
<1> QED BY <1>2, <1>5 DEF Scoring

\* The same when h saves nothing.
LEMMA AsideScoring ==
  ASSUME IInv, Scoring, [Next]_vars, NEW h \in Handlers, NEW rec, Goto(h, rec),
         rec.op # "saveWrite", rec.sent = <<>>, acked' = acked
  PROVE  Scoring'
<1>1. local'[h] = rec /\ \A g \in Handlers : g # h => local'[g] = local[g]
  BY DEF Goto, IInv, TypeOK
<1>2. FineAfter(<<>>, rec.list)
  BY RowsGrow, NobodyNamed DEF Scoring
<1> QED BY <1>1, <1>2, KeepsScoring

\* A save starts with a line for everybody it names, as many as there are
\* students, or counted wrongly.
LEMMA CheckScoring ==
  ASSUME IInv, Scoring, [Next]_vars, NEW h \in Handlers, NEW list \in load.lists,
         NEW submit \in BOOLEAN, SaveScores_Check(h, list, submit)
  PROVE  Scoring'
<1> DEFINE rec == [Idle EXCEPT !.op = "saveRead", !.list = list, !.submit = submit,
                               !.sent = IF submit THEN Names(list) ELSE <<>>]
<1>1. /\ Goto(h, rec) /\ acked' = acked
      /\ ((submit => Complete(list)) /\ UNCHANGED faults) \/ Fault
  BY DEF SaveScores_Check
<1>2. rec.op = "saveRead" /\ rec.list = list /\ rec.sent = IF submit THEN Names(list) ELSE <<>>
  BY DEF Idle
<1> HIDE DEF rec
<1>3. local'[h] = rec /\ \A g \in Handlers : g # h => local'[g] = local[g]
  BY <1>1 DEF Goto, IInv, TypeOK
<1>4. CASE ~submit
  BY <1>1, <1>2, <1>4, AsideScoring
<1>5. CASE submit
  <2>1. LeftAfter(Names(list), list) = {}
    BY DEF LeftAfter, Named, Names, Range
  <2>2. faults' \in Nat
    BY RowsGrow DEF Scoring
  <2>3. Few({}, faults')
    BY <2>2, FS_EmptySet DEF Few
  <2>4. ASSUME faults' = 0, Proper(Names(list)) PROVE load.students \subseteq Range(Names(list))
    <3>1. Complete(list)
      BY <1>1, <1>5, <2>4 DEF Fault, IInv, TypeOK
    <3> QED BY <2>4, <3>1, CompleteNamesAll DEF IInv
  <2>5. FineAfter(Names(list), list)
    BY <2>1, <2>3, <2>4 DEF FineAfter
  <2> QED BY <1>1, <1>2, <1>3, <1>5, <2>5, KeepsScoring
<1> QED BY <1>4, <1>5

\* Done with a line: its student has a row, or its statement failed.
LEMMA LineScoring ==
  ASSUME IInv, Scoring, [Next]_vars, NEW h \in Handlers,
         local[h].op \in {"saveRead", "saveWrite"}, NextLine(h),
         After(local[h].list[1].student) # {} \/ Fault
  PROVE  Scoring'
<1> DEFINE first == local[h].list[1].student
           list == local[h].list
           rest == Tail(local[h].list)
           sent == local[h].sent
<1>1. /\ Named(list) \subseteq {first} \cup Named(rest)
      /\ \/ local'[h] = Idle /\ rest = <<>> /\ acked' \in {acked, sent}
         \/ /\ local'[h].op = "saveRead" /\ local'[h].list = rest
            /\ local'[h].sent = sent /\ acked' = acked
  BY NextLineLeaves
<1>2. \A g \in Handlers : g # h => local'[g] = local[g]
  BY NextLineTyped
<1>3. /\ faults \in Nat /\ faults' \in Nat /\ faults' >= faults
      /\ \A s : RowsOf(s) \subseteq After(s)
  BY RowsGrow DEF Scoring
<1>4. Fine(sent, list)
  BY DEF Scoring, Due
<1>5. After(first) # {} \/ Fault
  OBVIOUS
<1> HIDE DEF first, list, rest, sent
<1>6. LeftAfter(sent, rest) \subseteq Left(sent, list) \cup {first}
  BY <1>1, <1>3 DEF LeftAfter, Left
<1>7. Few(LeftAfter(sent, rest), faults')
  <2>1. CASE After(first) # {}
    <3>1. LeftAfter(sent, rest) \subseteq Left(sent, list)
      BY <1>6, <2>1 DEF LeftAfter
    <3> QED BY <1>3, <1>4, <3>1, FewerStill DEF Fine
  <2>2. CASE Fault
    BY <1>3, <1>4, <1>6, <2>2, OneMore DEF Fine, Fault
  <2> QED BY <1>5, <2>1, <2>2
<1>8. FineAfter(sent, rest)
  BY <1>3, <1>4, <1>7 DEF Fine, FineAfter
<1>9. CASE local'[h] = Idle /\ rest = <<>> /\ acked' \in {acked, sent}
  <2>1. FineAfter(local'[h].sent, local'[h].list) /\ local'[h].op = "idle"
    BY <1>3, <1>9, NobodyNamed DEF Idle
  <2> QED BY <1>2, <1>8, <1>9, <2>1, KeepsScoring
<1>10. CASE /\ local'[h].op = "saveRead" /\ local'[h].list = rest
            /\ local'[h].sent = sent /\ acked' = acked
  BY <1>2, <1>8, <1>10, KeepsScoring
<1> QED BY <1>1, <1>9, <1>10

LEMMA ReadScoring ==
  ASSUME IInv, Scoring, [Next]_vars, NEW h \in Handlers, SaveScores_Read(h)
  PROVE  Scoring'
<1>1. local[h].op = "saveRead" /\ entries' = entries
  BY ReadCases
<1>2. \A s : After(s) = RowsOf(s)
  BY <1>1 DEF After, RowsOf, Rows
<1>3. CASE RowsOf(local[h].list[1].student) # {} /\ NextLine(h)
  BY <1>1, <1>2, <1>3, LineScoring
<1>4. ASSUME NEW row \in Entry, NEW id \in Entries \cup {-1},
             Goto(h, [local[h] EXCEPT !.op = "saveWrite", !.row = row, !.id = id]),
             id = -1 \/ id \in RowsOf(local[h].list[1].student), UNCHANGED acked
      PROVE  Scoring'
  <2>1. /\ local'[h].op = "saveWrite" /\ local'[h].id = id /\ local'[h].list = local[h].list
        /\ local'[h].sent = local[h].sent
        /\ \A g \in Handlers : g # h => local'[g] = local[g]
    BY <1>1, <1>4, ReadGoes
  <2>2. FineAfter(local'[h].sent, local'[h].list)
    <3>1. Fine(local[h].sent, local[h].list)
      BY DEF Scoring, Due
    <3>2. FineAfter(local[h].sent, local[h].list)
      BY <3>1, FineStays DEF Scoring
    <3> QED BY <2>1, <3>2
  <2>3. local'[h].id # -1 => local'[h].id \in RowsOf(local'[h].list[1].student)
    BY <1>4, <2>1
  <2> QED BY <1>4, <2>1, <2>2, <2>3, KeepsScoring
<1> QED BY <1>3, <1>4, ReadCases

LEMMA WriteScoring ==
  ASSUME IInv, Scoring, [Next]_vars, NEW h \in Handlers, SaveScores_Write(h)
  PROVE  Scoring'
<1>1. local[h].op = "saveWrite" /\ NextLine(h)
  BY WriteCases
<1>2. After(local[h].list[1].student) # {} \/ Fault
  <2>1. ASSUME NEW e \in Entries, NEW row \in Entry, entries' = [entries EXCEPT ![e] = row],
               row.student = local[h].list[1].student, row.student # NoStudent,
               row.status \in {"DRAFT", "SUBMITTED"}
        PROVE  After(local[h].list[1].student) # {}
    <3>1. Rows' = Rows \cup {e} /\ entries'[e] = row
      BY <2>1, EntryWritten DEF IInv
    <3> QED BY <2>1, <3>1 DEF After
  <2> QED BY <2>1, WriteCases
<1> QED BY <1>1, <1>2, LineScoring

\* Steps that only change rows.
LEMMA StillScoring ==
  ASSUME IInv, Scoring, [Next]_vars, NEW h \in Handlers, local' = local, acked' = acked
  PROVE  Scoring'
<1>1. local[h].op = "saveWrite" /\ local[h].id # -1 => local[h].id \in RowsOf(local[h].list[1].student)
  BY DEF Scoring, Owned
<1>2. Fine(local[h].sent, local[h].list)
  BY DEF Scoring, Due
<1>3. FineAfter(local[h].sent, local[h].list)
  BY <1>2, FineStays DEF Scoring
<1> QED BY <1>1, <1>3, KeepsScoring

LEMMA StepScoring == IInv /\ Scoring /\ [Next]_vars => Scoring'
<1> SUFFICES ASSUME IInv, Scoring, [Next]_vars PROVE Scoring'
  OBVIOUS
<1>1. \A h \in load.handlers : h \in Handlers
  BY LoadHandlers DEF IInv
<1>2. CASE UNCHANGED vars
  BY <1>2 DEF vars, Scoring, Owned, Due, Fine, Few, Left, Named, Proper, RowsOf, Rows
<1>3. ASSUME NEW h \in load.handlers, NEW exam \in Marks, UpsertScoreStructure_Read(h, exam)
      PROVE  Scoring'
  <2>1. PICK rec \in Local : /\ Goto(h, rec) /\ rec.op = "structureWrite" /\ rec.sent = <<>>
                             /\ acked' = acked
    BY <1>1, <1>3, StructureReadCases
  <2> QED BY <1>1, <2>1, AsideScoring
<1>4. ASSUME NEW h \in load.handlers, UpsertScoreStructure_Write(h) PROVE Scoring'
  <2>1. Goto(h, Idle) /\ acked' = acked /\ Idle.op = "idle" /\ Idle.sent = <<>>
    BY <1>4 DEF UpsertScoreStructure_Write, Idle
  <2> QED BY <1>1, <2>1, AsideScoring
<1>5. ASSUME NEW h \in load.handlers, OpenCloseTerm(h) PROVE Scoring'
  BY <1>1, <1>5, StillScoring DEF OpenCloseTerm
<1>6. ASSUME NEW h \in load.handlers, NEW list \in load.lists, NEW submit \in BOOLEAN,
             SaveScores_Check(h, list, submit)
      PROVE  Scoring'
  BY <1>1, <1>6, CheckScoring
<1>7. ASSUME NEW h \in load.handlers, SaveScores_Read(h) PROVE Scoring'
  BY <1>1, <1>7, ReadScoring
<1>8. ASSUME NEW h \in load.handlers, SaveScores_Write(h) PROVE Scoring'
  BY <1>1, <1>8, WriteScoring
<1>9. ASSUME NEW h \in load.handlers, NEW e \in Rows,
             ApproveScores(h, e) \/ RejectScores(h, e) \/ RequestUnlock(h, e)
      PROVE  Scoring'
  <2>1. local' = local /\ acked' = acked
    BY <1>1, <1>9, SheetCases
  <2> QED BY <1>1, <2>1, StillScoring
<1> QED BY <1>2, <1>3, <1>4, <1>5, <1>6, <1>7, <1>8, <1>9 DEF Next

\* SaveScores, scores.go:289-356: once an accepted submission is answered, at
\* most as many of those it named have no row as statements failed, whatever
\* requests come in between and whomever it names.  The code compares the number
\* of lines with the number of students enrolled: only when the lines name nobody
\* twice and no student of another class did it name the whole class.
THEOREM SubmittedScoresAreAll == Spec => []AllScored
<1>1. Scoring => AllScored
  <2> SUFFICES ASSUME Scoring PROVE AllScored
    OBVIOUS
  <2>1. Fine(acked, <<>>)
    BY DEF Scoring, Due
  <2>2. Left(acked, <<>>) = {s \in Range(acked) : RowsOf(s) = {}}
    BY DEF Left, Named
  <2> QED BY <2>1, <2>2 DEF Fine, Few, AllScored
<1> QED BY <1>1, AlwaysIInv, InitScoring, StepScoring, PTL DEF Spec

-----------------------------------------------------------------------------
(* The sheet keeps the promise of ScoreWorkflow.  A save that comes alone    *)
(* writes back the row it read, so that it decided on what it overwrites.    *)

Fresh(h) ==
  local[h].op = "saveWrite" =>
    IF local[h].id = -1 THEN local[h].row = NoEntry
    ELSE local[h].row = entries[local[h].id] /\ ~Locked(local[h].row)

Freshly == Serial => \A h \in load.handlers : Fresh(h)

LEMMA StepFreshly == IInv /\ Freshly /\ [Next]_vars => Freshly'
<1> SUFFICES ASSUME IInv, Freshly, [Next]_vars, Serial', NEW g \in load'.handlers
             PROVE  Fresh(g)'
  BY DEF Freshly
<1>1. Serial /\ ~Fault /\ load' = load /\ \A h \in load.handlers : h = g /\ h \in Handlers
  BY SerialBefore, OneHandler, LoadHandlers DEF IInv
<1>2. CASE UNCHANGED vars
  BY <1>1, <1>2 DEF vars, Freshly, Fresh
<1>3. ASSUME NEW h \in load.handlers, local'[h].op # "saveWrite" PROVE Fresh(g)'
  BY <1>1, <1>3 DEF Fresh
<1>4. ASSUME NEW h \in load.handlers, NEW rec, Goto(h, rec), rec.op # "saveWrite"
      PROVE  Fresh(g)'
  <2>1. local'[h] = rec
    BY <1>1, <1>4 DEF Goto, IInv, TypeOK
  <2> QED BY <1>3, <1>4, <2>1
<1>5. ASSUME NEW h \in load.handlers, NEW exam \in Marks, UpsertScoreStructure_Read(h, exam)
      PROVE  Fresh(g)'
  BY <1>1, <1>4, <1>5, StructureReadCases
<1>6. ASSUME NEW h \in load.handlers, UpsertScoreStructure_Write(h) PROVE Fresh(g)'
  BY <1>4, <1>6, IdleTyped DEF UpsertScoreStructure_Write
<1>7. ASSUME NEW h \in load.handlers, OpenCloseTerm(h) PROVE Fresh(g)'
  BY <1>3, <1>7, IdleTyped DEF OpenCloseTerm
<1>8. ASSUME NEW h \in load.handlers, NEW list \in load.lists, NEW submit \in BOOLEAN,
             SaveScores_Check(h, list, submit)
      PROVE  Fresh(g)'
  <2> DEFINE rec == [Idle EXCEPT !.op = "saveRead", !.list = list, !.submit = submit,
                                 !.sent = IF submit THEN Names(list) ELSE <<>>]
  <2>1. Goto(h, rec)
    BY <1>8 DEF SaveScores_Check
  <2>2. rec.op = "saveRead"
    BY DEF Idle
  <2> HIDE DEF rec
  <2> QED BY <1>4, <2>1, <2>2
<1>9. ASSUME NEW h \in load.handlers, SaveScores_Read(h) PROVE Fresh(g)'
  <2>1. h \in Handlers /\ h = g
    BY <1>1
  <2>2. local[h].op = "saveRead" /\ entries' = entries /\ local[h] \in Local
    BY <1>9, <2>1, ReadCases DEF IInv, TypeOK
  <2>3. CASE NextLine(h)
    <3>1. local'[h].op # "saveWrite"
      BY <2>1, <2>2, <2>3, NextLineTyped
    <3> QED BY <1>3, <3>1
  <2>4. ASSUME NEW row \in Entry, NEW id \in Entries \cup {-1},
               Goto(h, [local[h] EXCEPT !.op = "saveWrite", !.row = row, !.id = id]),
               id = -1 => row = NoEntry,
               (id \in RowsOf(local[h].list[1].student) /\ row = entries[id] /\ ~Locked(row)) \/ id = -1
        PROVE  Fresh(g)'
    <3>1. local'[h].id = id /\ local'[h].row = row
      BY <2>1, <2>2, <2>4 DEF Goto, IInv, TypeOK, Local
    <3>2. Locked(local'[h].row) <=> Locked(row)
      BY <3>1
    <3> QED BY <2>1, <2>2, <2>4, <3>1, <3>2 DEF Fresh, Locked
  <2> QED BY <1>9, <2>1, <2>3, <2>4, ReadCases
<1>10. ASSUME NEW h \in load.handlers, SaveScores_Write(h) PROVE Fresh(g)'
  <2>1. local'[h].op # "saveWrite"
    BY <1>1, <1>10, WriteCases, NextLineTyped
  <2> QED BY <1>3, <2>1
<1>11. ASSUME NEW h \in load.handlers, NEW e \in Rows,
              ApproveScores(h, e) \/ RejectScores(h, e) \/ RequestUnlock(h, e)
       PROVE  Fresh(g)'
  <2>1. local' = local /\ local[h] = Idle
    BY <1>1, <1>11, SheetCases
  <2> QED BY <1>3, <2>1, IdleTyped
<1> QED BY <1>2, <1>5, <1>6, <1>7, <1>8, <1>9, <1>10, <1>11 DEF Next

LEMMA InitFreshly == Init => Freshly
<1> SUFFICES ASSUME Init PROVE Freshly
  OBVIOUS
<1>1. \A h \in load.handlers : local[h] = Idle
  BY ScoreAssumption DEF Init
<1> QED BY <1>1, IdleTyped DEF Freshly, Fresh

\* The sheet that rows ent show.
RowsIn(ent, s) == {e \in Entries : ent[e].student = s}

Shown(row) == [status |-> row.status, mark |-> row.mark, unlock |-> row.unlock]

View(ent) == [s \in Students |->
  IF RowsIn(ent, s) = {} THEN Shown(NoEntry) ELSE Shown(ent[Min(RowsIn(ent, s))])]

LEMMA SheetIsView == sheetOf = View(entries) /\ sheetOf' = View(entries')
<1>1. /\ \A s \in Students : RowsOf(s) = RowsIn(entries, s)
      /\ \A s \in Students : RowsOf(s)' = RowsIn(entries', s)
  BY ScoreAssumption DEF RowsOf, Rows, RowsIn
<1> QED BY <1>1 DEF sheetOf, View, Shown, NoEntry

\* With one row for each student the sheet is the rows.
OneEach(ent) == \A d, e \in Entries :
  ent[d].student \in Students /\ ent[d].student = ent[e].student => d = e

LEMMA ViewAt ==
  ASSUME NEW ent \in [Entries -> Entry], OneEach(ent), NEW e \in Entries,
         ent[e].student \in Students
  PROVE  View(ent)[ent[e].student] = Shown(ent[e])
<1>1. RowsIn(ent, ent[e].student) = {e}
  BY DEF RowsIn, OneEach
<1>2. Min({e}) = e
  <2>1. e \in Nat
    BY ScoreAssumption
  <2>2. {e} \in SUBSET Nat /\ {e} # {}
    BY <2>1
  <2> QED BY <2>2, MinMember
<1>3. RowsIn(ent, ent[e].student) # {}
  BY <1>1
<1> QED BY <1>1, <1>2, <1>3 DEF View

\* Writing the row of a student changes what the sheet shows of that one.
LEMMA ViewChanged ==
  ASSUME NEW ent \in [Entries -> Entry], NEW next \in [Entries -> Entry],
         OneEach(ent), OneEach(next), NEW e \in Entries,
         next[e].student \in Students, ent[e].student \in {next[e].student, NoStudent},
         \A d \in Entries : d # e => next[d] = ent[d]
  PROVE  View(next) = [View(ent) EXCEPT ![next[e].student] = Shown(next[e])]
<1> DEFINE s == next[e].student
<1>1. View(next)[s] = Shown(next[e])
  BY ViewAt
<1>2. ASSUME NEW t \in Students, t # s PROVE View(next)[t] = View(ent)[t]
  <2>1. RowsIn(next, t) = RowsIn(ent, t) /\ e \notin RowsIn(ent, t)
    BY <1>2, ScoreAssumption DEF RowsIn
  <2>2. CASE RowsIn(ent, t) = {}
    BY <2>1, <2>2 DEF View
  <2>3. CASE RowsIn(ent, t) # {}
    <3>1. RowsIn(ent, t) \in SUBSET Nat
      BY ScoreAssumption DEF RowsIn
    <3>2. Min(RowsIn(ent, t)) \in RowsIn(ent, t)
      BY <2>3, <3>1, MinMember
    <3>3. next[Min(RowsIn(ent, t))] = ent[Min(RowsIn(ent, t))]
      BY <2>1, <3>2 DEF RowsIn
    <3> QED BY <2>1, <2>3, <3>3 DEF View
  <2> QED BY <2>2, <2>3
<1> HIDE DEF s
<1>3. DOMAIN View(next) = Students /\ DOMAIN View(ent) = Students
  BY DEF View
<1>4. /\ View(next) = [t \in Students |-> View(next)[t]]
      /\ View(ent) = [t \in Students |-> View(ent)[t]]
  BY DEF View
<1> QED BY <1>1, <1>2, <1>3, <1>4 DEF s

\* A step that changes the row of student s to row is a step of the workflow,
\* if row is what the sheet's mark of s becomes by one of its actions.
WorkflowStep(s, old, new) ==
  \/ /\ old.status \in {"none", "DRAFT"} \/ (old.status = "SUBMITTED" /\ old.unlock)
     /\ new.status \in {"DRAFT", "SUBMITTED"} /\ new.mark \in Marks /\ new.unlock = old.unlock
  \/ /\ old.status = "SUBMITTED"
     /\ new = [old EXCEPT !.status = "APPROVED"]
  \/ /\ old.status # "none"
     /\ new = [old EXCEPT !.status = "DRAFT"]
  \/ /\ old.status # "none"
     /\ new = [old EXCEPT !.unlock = TRUE]

LEMMA WorkflowNext ==
  ASSUME NEW s \in Students, NEW new \in Entry,
         sheetOf' = [sheetOf EXCEPT ![s] = Shown(new)],
         WorkflowStep(s, sheetOf[s], Shown(new))
  PROVE  Workflow!Next
<1> DEFINE old == sheetOf[s]
<1>1. /\ Shown(new).status = new.status /\ Shown(new).mark = new.mark
      /\ Shown(new).unlock = new.unlock
      /\ Shown(new) = [status |-> new.status, mark |-> new.mark, unlock |-> new.unlock]
  BY DEF Shown
<1>2. \E row : old = Shown(row)
  BY DEF sheetOf, Shown, NoEntry
<1>3. /\ old = [status |-> old.status, mark |-> old.mark, unlock |-> old.unlock]
      /\ s \in DOMAIN sheetOf
  BY <1>2 DEF Shown, sheetOf
<1> HIDE DEF old
<1>4. CASE /\ old.status \in {"none", "DRAFT"} \/ (old.status = "SUBMITTED" /\ old.unlock)
           /\ new.status \in {"DRAFT", "SUBMITTED"} /\ new.mark \in Marks /\ new.unlock = old.unlock
  <2>1. Workflow!Editable(s)
    BY <1>4 DEF Workflow!Editable, old
  <2>2. sheetOf' = [sheetOf EXCEPT ![s].mark = new.mark, ![s].status = new.status]
    <3>1. Shown(new) = [old EXCEPT !.mark = new.mark, !.status = new.status]
      BY <1>1, <1>3, <1>4
    <3> QED BY <1>3, <3>1 DEF old
  <2> QED BY <1>4, <2>1, <2>2 DEF Workflow!Next, Workflow!Enter
<1>5. CASE old.status = "SUBMITTED" /\ Shown(new) = [old EXCEPT !.status = "APPROVED"]
  BY <1>5 DEF Workflow!Next, Workflow!Approve, old
<1>6. CASE old.status # "none" /\ Shown(new) = [old EXCEPT !.status = "DRAFT"]
  BY <1>6 DEF Workflow!Next, Workflow!SendBack, old
<1>7. CASE old.status # "none" /\ Shown(new) = [old EXCEPT !.unlock = TRUE]
  BY <1>7 DEF Workflow!Next, Workflow!Unlock, old
<1> QED BY <1>1, <1>4, <1>5, <1>6, <1>7 DEF WorkflowStep, old

LEMMA RowsOneEach ==
  ASSUME TypeOK
  PROVE  OneRow <=> OneEach(entries)
BY ScoreAssumption DEF OneRow, OneEach, Rows, TypeOK, Entry

LEMMA RowsStayOneEach ==
  ASSUME TypeOK'
  PROVE  OneRow' <=> OneEach(entries')
BY ScoreAssumption DEF OneRow, OneEach, Rows, TypeOK, Entry

\* A save that comes alone enters a mark.
LEMMA WriteMaps ==
  ASSUME IInv, OneRow, OneEach(entries'), NEW h \in load.handlers, Looked(h), Fresh(h),
         SaveScores_Write(h)
  PROVE  [Workflow!Next]_sheetOf
<1>1. h \in Handlers
  BY LoadHandlers DEF IInv
<1> DEFINE line == local[h].list[1]
           new == Written(local[h].row, line, local[h].submit)
<1>2. /\ local[h].op = "saveWrite"
      /\ \/ /\ local[h].id # -1
            /\ entries' = [entries EXCEPT ![local[h].id] = new]
         \/ /\ local[h].id = -1
            /\ \E e \in load.entries \ Rows : entries' = [entries EXCEPT ![e] = new]
         \/ UNCHANGED entries
  BY DEF SaveScores_Write
<1>3. /\ local[h] \in Local /\ line \in Line /\ local[h].row \in Entry /\ local[h].submit \in BOOLEAN
  <2>1. local[h] \in Local
    BY <1>1 DEF IInv, TypeOK
  <2>2. local[h].list \in Seq(Line) /\ local[h].list # <<>>
    BY <1>1, <1>2, FirstLine DEF IInv
  <2> QED BY <2>1, <2>2 DEF Local
<1>4. /\ new \in Entry /\ new.student = line.student /\ new.mark = line.mark
      /\ new.status \in {"DRAFT", "SUBMITTED"} /\ new.unlock = local[h].row.unlock
      /\ line.student \in Students /\ line.mark \in Marks
  BY <1>3, ScoreAssumption DEF Written, Line, Entry, Statuses
<1>5. PICK s \in Students : s = line.student
  BY <1>4
<1>6. entries \in [Entries -> Entry] /\ OneEach(entries) /\ load.entries \subseteq Entries
  BY RowsOneEach, ScoreAssumption DEF IInv, TypeOK
<1> HIDE DEF new, line
<1>7. CASE UNCHANGED entries
  BY <1>7, SheetIsView
<1>8. ASSUME NEW e \in Entries, entries' = [entries EXCEPT ![e] = new],
             entries[e].student \in {s, NoStudent},
             WorkflowStep(s, sheetOf[s], Shown(new))
      PROVE  Workflow!Next
  <2>1. /\ entries' \in [Entries -> Entry] /\ entries'[e] = new
        /\ \A d \in Entries : d # e => entries'[d] = entries[d]
    BY <1>4, <1>6, <1>8
  <2>2. View(entries') = [View(entries) EXCEPT ![s] = Shown(new)]
    <3>1. entries'[e].student = s
      BY <1>4, <1>5, <2>1
    <3>2. View(entries') = [View(entries) EXCEPT ![entries'[e].student] = Shown(entries'[e])]
      BY <1>6, <1>8, <2>1, <3>1, ViewChanged
    <3> QED BY <2>1, <3>1, <3>2
  <2>3. sheetOf' = [sheetOf EXCEPT ![s] = Shown(new)]
    BY <2>2, SheetIsView
  <2> QED BY <1>4, <1>8, <2>3, WorkflowNext
<1>9. CASE local[h].id # -1 /\ entries' = [entries EXCEPT ![local[h].id] = new]
  <2>1. /\ local[h].id \in RowsOf(s) /\ local[h].row = entries[local[h].id]
        /\ ~Locked(local[h].row)
    BY <1>2, <1>5, <1>9 DEF Looked, Fresh, line
  <2>2. PICK e \in Entries : e = local[h].id
    BY <2>1 DEF RowsOf, Rows
  <2>3. entries[e].student = s /\ local[h].row = entries[e]
    BY <2>1, <2>2 DEF RowsOf
  <2>4. sheetOf[s] = Shown(entries[e])
    BY <1>6, <2>3, ViewAt, SheetIsView
  <2>5. /\ Shown(new).status = new.status /\ Shown(new).mark = new.mark /\ Shown(new).unlock = new.unlock
        /\ Shown(entries[e]).status = entries[e].status /\ Shown(entries[e]).unlock = entries[e].unlock
    BY DEF Shown
  <2>6. WorkflowStep(s, sheetOf[s], Shown(new))
    BY <1>3, <1>4, <2>1, <2>3, <2>4, <2>5 DEF WorkflowStep, Locked, Entry, Statuses
  <2> QED BY <1>8, <1>9, <2>2, <2>3, <2>6
<1>10. ASSUME local[h].id = -1, NEW e \in load.entries \ Rows, entries' = [entries EXCEPT ![e] = new]
       PROVE  Workflow!Next
  <2>1. RowsOf(s) = {} /\ local[h].row = NoEntry /\ e \in Entries /\ entries[e].student = NoStudent
    BY <1>2, <1>5, <1>6, <1>10 DEF Looked, Fresh, line, Rows
  <2>2. sheetOf[s] = [status |-> "none", mark |-> 0, unlock |-> FALSE]
    BY <2>1 DEF sheetOf
  <2>3. Shown(new).status = new.status /\ Shown(new).mark = new.mark /\ Shown(new).unlock = new.unlock
    BY DEF Shown
  <2>4. sheetOf[s].status = "none" /\ sheetOf[s].unlock = FALSE /\ new.unlock = FALSE
    BY <1>4, <2>1, <2>2 DEF NoEntry
  <2>5. WorkflowStep(s, sheetOf[s], Shown(new))
    BY <1>4, <2>3, <2>4 DEF WorkflowStep
  <2> QED BY <1>8, <1>10, <2>1, <2>5
<1> QED BY <1>2, <1>7, <1>9, <1>10

LEMMA UnlockTo ==
  ASSUME NEW status, NEW mark, NEW unlock, NEW old, NEW on,
         old = [status |-> status, mark |-> mark, unlock |-> unlock]
  PROVE  [old EXCEPT !.unlock = on] = [status |-> status, mark |-> mark, unlock |-> on]
<1> DEFINE f == [k \in {"status", "mark", "unlock"} |-> IF k = "unlock" THEN on ELSE old[k]]
<1>1. [old EXCEPT !.unlock = on] = f
  OBVIOUS
<1>2. [status |-> status, mark |-> mark, unlock |-> on] = f
  OBVIOUS
<1> QED BY <1>1, <1>2

\* A request on one row is the action of its name.
LEMMA SheetMaps ==
  ASSUME IInv, OneRow, OneEach(entries'), NEW h \in load.handlers, NEW e \in Rows,
         ApproveScores(h, e) \/ RejectScores(h, e) \/ RequestUnlock(h, e)
  PROVE  Workflow!Next
<1>1. /\ e \in Entries /\ entries[e] \in Entry /\ entries[e].student \in Students
      /\ entries[e].status # "none" /\ entries \in [Entries -> Entry] /\ OneEach(entries)
  BY RowsOneEach DEF IInv, TypeOK, Rows, Entry
<1>2. PICK s \in Students : s = entries[e].student
  BY <1>1
<1>3. sheetOf[s] = Shown(entries[e])
  BY <1>1, <1>2, ViewAt, SheetIsView
<1>4. ASSUME NEW new \in Entry, entries' = [entries EXCEPT ![e] = new], new.student = s,
             WorkflowStep(s, Shown(entries[e]), Shown(new))
      PROVE  Workflow!Next
  <2>1. /\ entries' \in [Entries -> Entry] /\ entries'[e] = new
        /\ \A d \in Entries : d # e => entries'[d] = entries[d]
    BY <1>1, <1>4
  <2>2. View(entries') = [View(entries) EXCEPT ![s] = Shown(new)]
    <3>1. entries'[e].student = s
      BY <1>4, <2>1
    <3>2. View(entries') = [View(entries) EXCEPT ![entries'[e].student] = Shown(entries'[e])]
      BY <1>1, <1>2, <2>1, <3>1, ViewChanged
    <3> QED BY <2>1, <3>1, <3>2
  <2>3. sheetOf' = [sheetOf EXCEPT ![s] = Shown(new)]
    BY <2>2, SheetIsView
  <2> QED BY <1>3, <1>4, <2>3, WorkflowNext
<1>5. CASE ApproveScores(h, e)
  <2> DEFINE new == [entries[e] EXCEPT !.status = "APPROVED"]
  <2>1. entries[e].status = "SUBMITTED" /\ entries' = [entries EXCEPT ![e] = new]
    BY <1>1, <1>5 DEF ApproveScores
  <2>2. new \in Entry /\ new.student = s
    BY <1>1, <1>2 DEF Entry, Statuses
  <2>3. Shown(new) = [Shown(entries[e]) EXCEPT !.status = "APPROVED"]
        /\ Shown(entries[e]).status = "SUBMITTED"
    BY <1>1, <2>1 DEF Shown, Entry
  <2> HIDE DEF new
  <2> QED BY <1>4, <2>1, <2>2, <2>3 DEF WorkflowStep
<1>6. CASE RejectScores(h, e)
  <2> DEFINE new == [entries[e] EXCEPT !.status = "DRAFT"]
  <2>1. entries' = [entries EXCEPT ![e] = new]
    BY <1>1, <1>6 DEF RejectScores
  <2>2. new \in Entry /\ new.student = s
    BY <1>1, <1>2 DEF Entry, Statuses
  <2>3. Shown(new) = [Shown(entries[e]) EXCEPT !.status = "DRAFT"]
        /\ Shown(entries[e]).status # "none"
    BY <1>1 DEF Shown, Entry
  <2> HIDE DEF new
  <2> QED BY <1>4, <2>1, <2>2, <2>3 DEF WorkflowStep
<1>7. CASE RequestUnlock(h, e)
  <2> DEFINE new == [entries[e] EXCEPT !.unlock = TRUE]
  <2>1. entries' = [entries EXCEPT ![e] = new]
    BY <1>1, <1>7 DEF RequestUnlock
  <2>2. new \in Entry /\ new.student = s
    BY <1>1, <1>2 DEF Entry, Statuses
  <2>3. Shown(new) = [Shown(entries[e]) EXCEPT !.unlock = TRUE]
        /\ Shown(entries[e]).status # "none"
    <3>1. new.status = entries[e].status /\ new.mark = entries[e].mark /\ new.unlock = TRUE
      BY <1>1 DEF Entry
    <3>2. Shown(new) = [status |-> entries[e].status, mark |-> entries[e].mark, unlock |-> TRUE]
      BY <3>1 DEF Shown
    <3>3. Shown(entries[e]) = [status |-> entries[e].status, mark |-> entries[e].mark,
                               unlock |-> entries[e].unlock]
      BY DEF Shown
    <3> HIDE DEF new
    <3>4. Shown(entries[e]).status = entries[e].status
      BY <3>3
    <3>5. [Shown(entries[e]) EXCEPT !.unlock = TRUE]
            = [status |-> entries[e].status, mark |-> entries[e].mark, unlock |-> TRUE]
      <4>1. PICK old : old = Shown(entries[e])
        BY Zenon
      <4>2. PICK on : on = TRUE
        BY Zenon
      <4>3. old = [status |-> entries[e].status, mark |-> entries[e].mark,
                   unlock |-> entries[e].unlock]
        BY <3>3, <4>1, Zenon
      <4>4. [old EXCEPT !.unlock = on]
              = [status |-> entries[e].status, mark |-> entries[e].mark, unlock |-> on]
        BY <4>3, UnlockTo
      <4> QED BY <4>1, <4>2, <4>4, Zenon
    <3> QED BY <1>1, <3>2, <3>4, <3>5
  <2> HIDE DEF new
  <2> QED BY <1>4, <2>1, <2>2, <2>3 DEF WorkflowStep
<1> QED BY <1>5, <1>6, <1>7

LEMMA InitWorkflow == Init => Workflow!Init
<1> SUFFICES ASSUME Init PROVE Workflow!Init
  OBVIOUS
<1>1. \A s : RowsOf(s) = {}
  BY DEF Init, Rows, RowsOf, NoEntry
<1> QED BY <1>1 DEF Workflow!Init, Workflow!NoMark, sheetOf

\* Of a step that comes alone only the write of a save and the requests on a
\* row change the sheet.
LEMMA StepWorkflow ==
  IInv /\ Single /\ Freshly /\ [Next]_vars
  => [Serial /\ faults' = 0 => [Workflow!Next]_sheetOf]_vars
<1> SUFFICES ASSUME IInv, Single, Freshly, Next, Serial, faults' = 0
             PROVE  [Workflow!Next]_sheetOf
  OBVIOUS
<1>1. load' = load /\ Serial'
  BY LoadStays DEF Serial
<1>2. OneRow /\ (\A h \in load.handlers : Looked(h)) /\ (\A h \in load.handlers : Fresh(h))
  BY DEF Single, Freshly
<1>3. OneEach(entries')
  <2>1. TypeOK' /\ OneRow'
    BY <1>1, StepIInv, StepSingle DEF IInv, Single
  <2> QED BY <2>1, RowsStayOneEach
<1>4. CASE entries' = entries
  BY <1>4, SheetIsView
<1>5. ASSUME NEW h \in load.handlers, SaveScores_Write(h) PROVE [Workflow!Next]_sheetOf
  BY <1>2, <1>3, <1>5, WriteMaps
<1>6. ASSUME NEW h \in load.handlers, NEW e \in Rows,
             ApproveScores(h, e) \/ RejectScores(h, e) \/ RequestUnlock(h, e)
      PROVE  Workflow!Next
  BY <1>2, <1>3, <1>6, SheetMaps
<1>7. \/ entries' = entries
      \/ \E h \in load.handlers : SaveScores_Write(h)
      \/ \E h \in load.handlers, e \in Rows :
           ApproveScores(h, e) \/ RejectScores(h, e) \/ RequestUnlock(h, e)
  BY Zenon DEF Next, UpsertScoreStructure_Read, UpsertScoreStructure_Write, OpenCloseTerm,
               SaveScores_Check, SaveScores_Read
<1> QED BY <1>4, <1>5, <1>6, <1>7

\* SaveScores, ApproveScores, RejectScores and RequestUnlock
\* (scores.go:315-353, 359-446): requests that come one at a time, and whose
\* statements succeed, change the sheet as ScoreWorkflow says and in no other
\* way: a submitted mark changes only after an unlock, an approved one only
\* after it was sent back, and only a submitted mark is approved.
THEOREM WorkflowIsKept == Spec => WorkflowSpec
<1>1. Spec => [][Serial /\ faults' = 0 => [Workflow!Next]_sheetOf]_vars
  <2>1. IInv /\ Single /\ Freshly /\ [Next]_vars
        => [Serial /\ faults' = 0 => [Workflow!Next]_sheetOf]_vars
    BY StepWorkflow
  <2> QED BY <2>1, AlwaysIInv, InitSingle, StepSingle, InitFreshly, StepFreshly, PTL DEF Spec
<1>2. Spec => Workflow!Init
  BY InitWorkflow DEF Spec
<1> QED BY <1>1, <1>2 DEF WorkflowSpec

=============================================================================
