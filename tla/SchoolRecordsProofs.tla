----------------------------- MODULE SchoolRecordsProofs -----------------------------
(***************************************************************************)
(* What holds of students, rolls and fees for any school, any requests and *)
(* any failures.                                                           *)
(*                                                                         *)
(* Fees: the balance of a payment is computed from a sum that was read     *)
(* before the row is inserted.  Behind gives what is needed of that sum    *)
(* while it waits: it is at most what has been paid by now.  Settled says  *)
(* the same of the rows, and Exact that with one request at a time and no  *)
(* failure the sum is still what it was.                                   *)
(*                                                                         *)
(* Students: Promoted says where each student is while promotions are      *)
(* under way, but for those of whom one statement of two was executed      *)
(* (Placing); SheetsHeld that the lines of a sheet shown are rows of       *)
(* history that still name the same students.                              *)
(*                                                                         *)
(* Rolls: Seen says what a marking has found out while it waits, and       *)
(* OneRow that no student has two rows of a class and a day; the summaries *)
(* are then counts of days by a bijection of rows and days.                *)
(***************************************************************************)
EXTENDS SchoolRecords, TLAPS, FiniteSetTheorems, SequenceTheorems

Serial == Cardinality(load.bursars) <= 1 /\ faults = 0

Behind ==
  \A h \in Handlers : paying[h].op = "paymentCreate" => paying[h].prev <= paid[paying[h].key]

Settled == \A i \in DOMAIN payments : payments[i].after <= paid[payments[i].key]

Covering ==
  \A i \in DOMAIN payments : payments[i].balance >= payments[i].owed - payments[i].after

Exact ==
  Serial =>
    /\ \A h \in Handlers : paying[h].op = "paymentCreate" => paying[h].prev = paid[paying[h].key]
    /\ \A i \in DOMAIN payments : payments[i].balance = payments[i].owed - payments[i].after

\* Only a bursar's handler deals with fees.
Bursars == \A h \in Handlers : paying[h].op # "idle" => h \in load.bursars

IInv ==
  /\ RequestsTypeOK /\ FeesTypeOK
  /\ Bursars /\ Behind /\ Settled /\ Covering /\ Exact

-----------------------------------------------------------------------------
(* Facts about requests. *)

LEMMA UnpaidFacts == Unpaid \in Paying /\ Unpaid.op = "idle"
BY DEF Unpaid, Paying

Saving(d, id) == [Unpaid EXCEPT !.op = "structureSave", !.division = d, !.id = id]

LEMMA SavingFacts ==
  ASSUME NEW d \in Divisions, NEW id \in Nat
  PROVE  Saving(d, id) \in Paying /\ Saving(d, id).op = "structureSave" /\ Saving(d, id).id = id
BY DEF Unpaid, Paying, Saving

Creating(k, owed, amount, prev) ==
  [Unpaid EXCEPT !.op = "paymentCreate", !.key = k, !.owed = owed,
                 !.amount = amount, !.prev = prev]

LEMMA CreatingFacts ==
  ASSUME NEW k \in Keys, NEW owed \in Nat, NEW amount \in Nat, NEW prev \in Nat
  PROVE  LET r == Creating(k, owed, amount, prev)
         IN /\ r \in Paying /\ r.op = "paymentCreate"
            /\ r.key = k /\ r.owed = owed /\ r.amount = amount /\ r.prev = prev
BY DEF Unpaid, Paying, Creating

Enqueuing(id) == [Unpaid EXCEPT !.op = "receiptEnqueue", !.id = id]

LEMMA EnqueuingFacts ==
  ASSUME NEW id \in Nat
  PROVE  Enqueuing(id) \in Paying /\ Enqueuing(id).op = "receiptEnqueue" /\ Enqueuing(id).id = id
BY DEF Unpaid, Paying, Enqueuing

LEMMA LoadBursars ==
  ASSUME RequestsTypeOK
  PROVE  /\ load.bursars \subseteq Handlers /\ IsFiniteSet(load.bursars)
         /\ load.charged \subseteq Divisions /\ load.discounted \subseteq Students
BY RequestsAssumption, FeesAssumption DEF RequestsTypeOK

\* Of at most one handler, two are the same.
LEMMA AtMostOne ==
  ASSUME NEW S, IsFiniteSet(S), Cardinality(S) <= 1, NEW g \in S, NEW h \in S
  PROVE  g = h
<1>1. SUFFICES ASSUME g # h PROVE FALSE
  OBVIOUS
<1>2. IsFiniteSet({g}) /\ Cardinality({g}) = 1
  BY FS_Singleton
<1>3. Cardinality({g} \cup {h}) = 2
  <2>1. Cardinality({g} \cup {h}) = IF h \in {g} THEN Cardinality({g}) ELSE Cardinality({g}) + 1
    BY <1>2, FS_AddElement
  <2> QED BY <1>1, <1>2, <2>1
<1>4. Cardinality({g} \cup {h}) <= Cardinality(S)
  <2>1. {g} \cup {h} \subseteq S
    OBVIOUS
  <2> QED BY <2>1, FS_Subset
<1>5. Cardinality(S) \in Nat
  BY FS_CardinalityType
<1> QED BY <1>3, <1>4, <1>5

\* With at most one bursar, two that deal with fees are the same.
LEMMA OneBursar ==
  ASSUME RequestsTypeOK, Cardinality(load.bursars) <= 1,
         NEW g \in load.bursars, NEW h \in load.bursars
  PROVE  g = h
BY LoadBursars, AtMostOne

\* A failure is counted, and never forgotten.
LEMMA FaultsGrow ==
  ASSUME RequestsTypeOK, [Next]_vars
  PROVE  faults' \in Nat /\ faults' >= faults /\ load' = load
<1>1. faults \in Nat
  BY DEF RequestsTypeOK
<1>2. CASE UNCHANGED vars
  BY <1>1, <1>2 DEF vars
<1>3. CASE Next
  <2>1. StudentsNext => UNCHANGED faults \/ Fault
    BY DEF StudentsNext, PromoteStudents, PromoteStudents_Graduate, PromoteStudents_Retain,
       PromoteStudents_Create, PromoteStudents_Place, UpdateStudent, ArchiveStudent,
       GetScoreSheet, SaveScores_Complete
  <2>2. FeesNext => UNCHANGED faults \/ Fault
    BY DEF FeesNext, UpsertFeeStructure_Find, UpsertFeeStructure_Save, RecordPayment_Sum,
       RecordPayment_Create, RecordPayment_Enqueue, HandleGenerateFeeReceipt, ApplyDiscount
  <2>3. AttendanceNext => UNCHANGED faults \/ Fault
    BY DEF AttendanceNext, MarkAttendance, MarkAttendance_Find, MarkAttendance_Write
  <2>4. Fault => faults' = faults + 1
    BY DEF Fault
  <2>5. UNCHANGED faults \/ Fault
    BY <1>3, <2>1, <2>2, <2>3 DEF Next
  <2> QED BY <1>1, <1>3, <2>4, <2>5 DEF Next
<1> QED BY <1>2, <1>3

-----------------------------------------------------------------------------
(* Students: promotions and score sheets. *)

Promoting == [op : {"idle", "record", "place"}, records : Seq(Record),
              first : Classes \cup {NoClass}, term : Terms]

Sheet == [state : {"none", "shown", "accepted", "refused"}, class : Classes \cup {NoClass},
          term : Terms, lines : UNION {[R -> Students] : R \in SUBSET DOMAIN histories}]

\* Only a promoter's handler works on records, while there are some left, and
\* places a student in the class of the record at hand.
Promoters ==
  \A h \in Handlers : promoting[h].op # "idle" =>
    /\ h \in load.promoters /\ promoting[h].records # <<>>
    /\ promoting[h].op = "place" => promoting[h].records[1].class # NoClass

\* h has written the row of history of s, and not yet placed s.
Placing(h, s) == promoting[h].op = "place" /\ promoting[h].records[1].student = s

\* Promotion i of s is the last one, if promotions come one at a time.
Latest(i, s) == Cardinality(load.promoters) <= 1 => \A j \in PromotionsOf(s) : j <= i

\* Without failures a student is where a promotion says, or someone is about to
\* place them in the class of a promotion.
Promoted ==
  faults = 0 => \A s \in Students :
    /\ PromotionsOf(s) = {} => students[s].division = DivisionOf[FirstClass[s]]
    /\ \A h \in Handlers : Placing(h, s) =>
         \E i \in PromotionsOf(s) :
           histories[i].class = promoting[h].records[1].class /\ Latest(i, s)
    /\ PromotionsOf(s) # {} /\ (\A h \in Handlers : ~Placing(h, s)) =>
         \E i \in PromotionsOf(s) :
           students[s].division = DivisionOf[histories[i].class] /\ Latest(i, s)

\* A sheet on the screen has a line for rows that are still there.
SheetsHeld ==
  \A n \in Teachers : sheets[n].state = "shown" =>
    /\ DOMAIN sheets[n].lines \subseteq RowsOfClass(sheets[n].class, sheets[n].term)
    /\ \A i \in DOMAIN sheets[n].lines : sheets[n].lines[i] = histories[i].student

StudentsInv == StudentsTypeOK /\ Promoters /\ Promoted /\ SheetsHeld

LEMMA StudentLoad ==
  ASSUME RequestsTypeOK
  PROVE  /\ load.promoters \subseteq Handlers /\ IsFiniteSet(load.promoters)
         /\ load.lists \subseteq Seq(Record)
         /\ load.edited \subseteq Students /\ load.teachers \subseteq Teachers
BY RequestsAssumption, StudentsAssumption DEF RequestsTypeOK, Record

\* Rows of history stay as they are.
HistoryKept ==
  \A i \in DOMAIN histories : i \in DOMAIN histories' /\ histories'[i] = histories[i]

LEMMA SheetsStay ==
  ASSUME StudentsInv, HistoryKept, UNCHANGED sheets
  PROVE  sheets' \in [Teachers -> Sheet'] /\ SheetsHeld'
<1>1. sheets \in [Teachers -> Sheet] /\ DOMAIN histories \subseteq DOMAIN histories'
  BY DEF StudentsInv, StudentsTypeOK, Sheet, HistoryKept
<1>2. Sheet \subseteq Sheet'
  BY <1>1 DEF Sheet
<1>3. \A c, t : RowsOfClass(c, t) \subseteq RowsOfClass(c, t)'
  BY DEF HistoryKept, RowsOfClass
<1>4. SheetsHeld'
  <2>1. ASSUME NEW n \in Teachers, sheets[n].state = "shown"
        PROVE  (/\ DOMAIN sheets[n].lines \subseteq RowsOfClass(sheets[n].class, sheets[n].term)
                /\ \A i \in DOMAIN sheets[n].lines : sheets[n].lines[i] = histories[i].student)'
    <3>1. /\ DOMAIN sheets[n].lines \subseteq RowsOfClass(sheets[n].class, sheets[n].term)
          /\ \A i \in DOMAIN sheets[n].lines : sheets[n].lines[i] = histories[i].student
      BY <2>1 DEF StudentsInv, SheetsHeld
    <3>2. \A i \in DOMAIN sheets[n].lines : i \in DOMAIN histories
      BY <3>1 DEF RowsOfClass
    <3>3. \A i \in DOMAIN sheets[n].lines : sheets[n].lines[i] = histories'[i].student
      BY <3>1, <3>2 DEF HistoryKept
    <3> QED BY <1>3, <3>1, <3>3
  <2> QED BY <2>1 DEF SheetsHeld
<1> QED BY <1>1, <1>2, <1>4

LEMMA StudentsParts ==
  StudentsTypeOK <=> /\ students \in [Students -> Student]
                     /\ histories \in Seq(StudentClassHistory)
                     /\ promoting \in [Handlers -> Promoting]
                     /\ sheets \in [Teachers -> Sheet]
BY DEF StudentsTypeOK, Promoting, Sheet

LEMMA StudentsTyped ==
  ASSUME students' \in [Students -> Student], histories' \in Seq(StudentClassHistory),
         promoting' \in [Handlers -> Promoting], sheets' \in [Teachers -> Sheet']
  PROVE  StudentsTypeOK'
BY DEF StudentsTypeOK, Promoting, Sheet

\* A step without a promotion, a placement, or the beginning of one.
LEMMA PromotedStays ==
  ASSUME RequestsTypeOK, RequestsTypeOK', StudentsInv, [Next]_vars,
         \A s \in Students : PromotionsOf(s)' = PromotionsOf(s),
         HistoryKept,
         \A s \in Students : students'[s].division = students[s].division,
         \A h \in Handlers : IF promoting[h].op = "place" THEN promoting'[h] = promoting[h]
                             ELSE promoting'[h].op # "place"
  PROVE  Promoted'
<1> SUFFICES ASSUME faults' = 0, NEW s \in Students
             PROVE  /\ PromotionsOf(s)' = {} => students'[s].division = DivisionOf[FirstClass[s]]
                    /\ \A h \in Handlers : Placing(h, s)' =>
                         \E i \in PromotionsOf(s)' :
                           histories'[i].class = promoting'[h].records[1].class /\ Latest(i, s)'
                    /\ PromotionsOf(s)' # {} /\ (\A h \in Handlers : ~Placing(h, s)') =>
                         \E i \in PromotionsOf(s)' :
                           students'[s].division = DivisionOf[histories'[i].class] /\ Latest(i, s)'
  BY DEF Promoted
<1>1. faults = 0 /\ load' = load
  BY FaultsGrow DEF RequestsTypeOK
<1>2. \A i : Latest(i, s)' <=> Latest(i, s)
  BY <1>1 DEF Latest
<1>3. \A i \in PromotionsOf(s) : histories'[i] = histories[i]
  BY DEF PromotionsOf, HistoryKept
<1>4. \A h \in Handlers : Placing(h, s)' <=> Placing(h, s)
  BY DEF Placing
<1>5. \A h \in Handlers : Placing(h, s) => promoting'[h] = promoting[h]
  BY DEF Placing
<1> QED BY <1>1, <1>2, <1>3, <1>4, <1>5 DEF StudentsInv, Promoted

\* What becomes of a handler that has dealt with a record.
LEMMA WorkedOff ==
  ASSUME RequestsTypeOK, StudentsInv, load' = load, NEW h \in load.promoters,
         promoting[h].op # "idle", WorkOff(h, Tail(promoting[h].records))
  PROVE  /\ promoting' \in [Handlers -> Promoting] /\ Promoters'
         /\ promoting'[h].op # "place"
         /\ \A g \in Handlers : g # h => promoting'[g] = promoting[g]
<1>1. h \in Handlers /\ promoting \in [Handlers -> Promoting] /\ promoting[h] \in Promoting
  BY StudentLoad, StudentsParts DEF StudentsInv
<1> DEFINE rest == Tail(promoting[h].records)
<1>2. rest \in Seq(Record)
  <2>1. promoting[h].records \in Seq(Record) /\ promoting[h].records # <<>>
    BY <1>1 DEF StudentsInv, Promoters, Promoting
  <2> QED BY <2>1, HeadTailProperties
<1> HIDE DEF rest
<1>3. NotPromoting \in Promoting /\ NotPromoting.op = "idle"
  BY StudentsAssumption DEF NotPromoting, Promoting
<1>4. PICK rec : /\ rec = IF rest = <<>> THEN NotPromoting
                          ELSE [promoting[h] EXCEPT !.op = "record", !.records = rest]
                 /\ promoting' = [promoting EXCEPT ![h] = rec]
  BY <1>1 DEF WorkOff, rest
<1>5. rec \in Promoting /\ rec.op # "place" /\ (rec.op # "idle" => rec.records # <<>>)
  <2>1. CASE rest = <<>>
    BY <1>3, <1>4, <2>1
  <2>2. CASE rest # <<>>
    BY <1>1, <1>2, <1>4, <2>2 DEF Promoting
  <2> QED BY <2>1, <2>2
<1>6. promoting'[h] = rec /\ \A g \in Handlers : g # h => promoting'[g] = promoting[g]
  BY <1>1, <1>4
<1>7. Promoters'
  BY <1>5, <1>6 DEF StudentsInv, Promoters
<1> QED BY <1>1, <1>4, <1>5, <1>6, <1>7

\* The record a handler is at.
LEMMA AtRecord ==
  ASSUME RequestsTypeOK, StudentsInv, NEW h \in load.promoters, promoting[h].op # "idle"
  PROVE  /\ h \in Handlers /\ promoting[h] \in Promoting
         /\ Head(promoting[h].records) = promoting[h].records[1]
         /\ promoting[h].records[1] \in Record
<1>1. h \in Handlers /\ promoting[h] \in Promoting
  BY StudentLoad, StudentsParts DEF StudentsInv
<1>2. promoting[h].records \in Seq(Record) /\ promoting[h].records # <<>>
  BY <1>1 DEF StudentsInv, Promoters, Promoting
<1> QED BY <1>1, <1>2, HeadTailProperties

\* One row of history more.
LEMMA RowAdded ==
  ASSUME StudentsInv, NEW row \in StudentClassHistory, histories' = Append(histories, row)
  PROVE  /\ histories' \in Seq(StudentClassHistory) /\ HistoryKept
         /\ Len(histories) \in Nat /\ Len(histories) + 1 \notin DOMAIN histories
         /\ DOMAIN histories' = DOMAIN histories \cup {Len(histories) + 1}
         /\ histories'[Len(histories) + 1] = row
         /\ \A i \in DOMAIN histories : i < Len(histories) + 1
         /\ \A s : PromotionsOf(s)' =
                     IF row.student = s /\ row.action = "promote"
                     THEN PromotionsOf(s) \cup {Len(histories) + 1} ELSE PromotionsOf(s)
<1>1. histories \in Seq(StudentClassHistory)
  BY StudentsParts DEF StudentsInv
<1>2. /\ histories' \in Seq(StudentClassHistory) /\ HistoryKept
      /\ Len(histories) \in Nat /\ Len(histories) + 1 \notin DOMAIN histories
      /\ DOMAIN histories' = DOMAIN histories \cup {Len(histories) + 1}
      /\ histories'[Len(histories) + 1] = row
      /\ \A i \in DOMAIN histories : i < Len(histories) + 1
  BY <1>1, AppendProperties, LenProperties DEF HistoryKept
<1> QED BY <1>2 DEF HistoryKept, PromotionsOf

LEMMA NotPromotingFacts == NotPromoting \in Promoting /\ NotPromoting.op = "idle"
BY StudentsAssumption DEF NotPromoting, Promoting

LEMMA BeginPromotion ==
  ASSUME RequestsTypeOK, RequestsTypeOK', StudentsInv, [Next]_vars,
         NEW h \in load.promoters, NEW records \in load.lists, NEW t \in Terms,
         PromoteStudents(h, records, t)
  PROVE  StudentsInv'
<1>1. /\ h \in Handlers /\ promoting \in [Handlers -> Promoting] /\ load' = load
      /\ records \in Seq(Record) /\ records # <<>> /\ promoting[h].op = "idle"
  BY StudentLoad, StudentsParts, FaultsGrow, NotPromotingFacts DEF StudentsInv, PromoteStudents
<1>2. UNCHANGED <<students, histories, sheets>> /\ HistoryKept
  BY DEF PromoteStudents, HistoryKept
<1>3. records[1] \in Record
  BY <1>1
<1>4. PICK rec : /\ rec = [op |-> "record", records |-> records, first |-> records[1].class, term |-> t]
                 /\ promoting' = [promoting EXCEPT ![h] = rec]
  BY DEF PromoteStudents
<1>5. rec \in Promoting /\ rec.op = "record" /\ rec.records # <<>>
  BY <1>1, <1>3, <1>4 DEF Promoting, Record
<1>6. promoting'[h] = rec /\ \A g \in Handlers : g # h => promoting'[g] = promoting[g]
  BY <1>1, <1>4
<1>7. promoting' \in [Handlers -> Promoting] /\ Promoters'
  BY <1>1, <1>4, <1>5, <1>6 DEF StudentsInv, Promoters
<1>8. Promoted'
  BY <1>1, <1>2, <1>5, <1>6, PromotedStays DEF PromotionsOf
<1> QED BY <1>2, <1>7, <1>8, SheetsStay, StudentsParts, StudentsTyped DEF StudentsInv, Sheet

\* A record that does not promote: a graduation, a retention, a record passed over.
LEMMA OtherRecord ==
  ASSUME RequestsTypeOK, RequestsTypeOK', StudentsInv, [Next]_vars,
         NEW h \in load.promoters,
         promoting[h].op = "record", WorkOff(h, Tail(promoting[h].records)),
         \A s \in Students : PromotionsOf(s)' = PromotionsOf(s),
         histories' \in Seq(StudentClassHistory), HistoryKept,
         students' \in [Students -> Student],
         \A s \in Students : students'[s].division = students[s].division,
         UNCHANGED sheets
  PROVE  StudentsInv'
<1>1. /\ promoting' \in [Handlers -> Promoting] /\ Promoters'
      /\ promoting'[h].op # "place"
      /\ \A g \in Handlers : g # h => promoting'[g] = promoting[g]
  BY WorkedOff, FaultsGrow
<1>2. Promoted'
  BY <1>1, PromotedStays
<1> QED BY <1>1, <1>2, SheetsStay, StudentsParts, StudentsTyped DEF StudentsInv, Sheet

\* Edits of a student that leave the division.
Edited(row) == {row} \cup {[row EXCEPT !.alumni = TRUE, !.active = FALSE],
                           [row EXCEPT !.archived = TRUE, !.active = FALSE]}
                     \cup {[row EXCEPT !.active = on] : on \in BOOLEAN}

LEMMA EditedFacts ==
  ASSUME NEW row \in Student, NEW new \in Edited(row)
  PROVE  new \in Student /\ new.division = row.division
BY DEF Edited, Student

LEMMA StudentsEdited ==
  ASSUME StudentsInv,
         \/ UNCHANGED students
         \/ \E s \in Students : \E new \in Edited(students[s]) :
              students' = [students EXCEPT ![s] = new]
  PROVE  /\ students' \in [Students -> Student]
         /\ \A s \in Students : students'[s].division = students[s].division
<1>1. students \in [Students -> Student]
  BY StudentsParts DEF StudentsInv
<1>2. ASSUME NEW s \in Students, NEW new \in Edited(students[s]),
             students' = [students EXCEPT ![s] = new]
      PROVE  /\ students' \in [Students -> Student]
             /\ \A q \in Students : students'[q].division = students[q].division
  <2>1. new \in Student /\ new.division = students[s].division
    BY <1>1, EditedFacts
  <2> QED BY <1>1, <1>2, <2>1
<1> QED BY <1>1, <1>2

LEMMA Graduation ==
  ASSUME RequestsTypeOK, RequestsTypeOK', StudentsInv, [Next]_vars,
         NEW h \in load.promoters, PromoteStudents_Graduate(h)
  PROVE  StudentsInv'
<1> DEFINE s == promoting[h].records[1].student
<1>1. /\ s \in Students /\ promoting[h].op = "record" /\ Head(promoting[h].records).student = s
      /\ students \in [Students -> Student]
  BY AtRecord, StudentsParts DEF PromoteStudents_Graduate, Record, StudentsInv
<1> HIDE DEF s
<1>2. \/ UNCHANGED students
      \/ students' = [students EXCEPT ![s].alumni = TRUE, ![s].active = FALSE]
  BY <1>1 DEF PromoteStudents_Graduate
<1>3. ASSUME students' = [students EXCEPT ![s].alumni = TRUE, ![s].active = FALSE]
      PROVE  students' = [students EXCEPT ![s] = [students[s] EXCEPT !.alumni = TRUE, !.active = FALSE]]
  BY <1>1, <1>3
<1>4. \/ UNCHANGED students
      \/ \E new \in Edited(students[s]) : students' = [students EXCEPT ![s] = new]
  BY <1>2, <1>3 DEF Edited
<1>5. UNCHANGED <<histories, sheets>> /\ HistoryKept /\ histories \in Seq(StudentClassHistory)
  BY StudentsParts DEF PromoteStudents_Graduate, HistoryKept, StudentsInv
<1> QED BY <1>1, <1>4, <1>5, StudentsEdited, OtherRecord DEF PromoteStudents_Graduate, PromotionsOf

LEMMA Retention ==
  ASSUME RequestsTypeOK, RequestsTypeOK', StudentsInv, [Next]_vars,
         NEW h \in load.promoters, PromoteStudents_Retain(h)
  PROVE  StudentsInv'
<1> DEFINE rec == promoting[h].records[1]
           row == HistoryRow(rec.student, rec.class, promoting[h].term, "retain")
<1>1. /\ rec \in Record /\ promoting[h].op = "record" /\ Head(promoting[h].records) = rec
      /\ promoting[h] \in Promoting /\ histories \in Seq(StudentClassHistory)
  BY AtRecord, StudentsParts DEF PromoteStudents_Retain, StudentsInv
<1>2. \/ UNCHANGED histories
      \/ rec.class # NoClass /\ histories' = Append(histories, row)
  BY <1>1 DEF PromoteStudents_Retain
<1>3. rec.class # NoClass => row \in StudentClassHistory
  BY <1>1 DEF Record, HistoryRow, StudentClassHistory, Promoting
<1>4. row.action = "retain"
  BY DEF HistoryRow
<1> HIDE DEF row, rec
<1>5. /\ histories' \in Seq(StudentClassHistory) /\ HistoryKept
      /\ \A s \in Students : PromotionsOf(s)' = PromotionsOf(s)
  <2>1. CASE UNCHANGED histories
    BY <1>1, <2>1 DEF HistoryKept, PromotionsOf
  <2>2. CASE rec.class # NoClass /\ histories' = Append(histories, row)
    BY <1>3, <1>4, <2>2, RowAdded
  <2> QED BY <1>2, <2>1, <2>2
<1>6. UNCHANGED <<students, sheets>>
  BY DEF PromoteStudents_Retain
<1> QED BY <1>1, <1>5, <1>6, StudentsEdited, OtherRecord DEF PromoteStudents_Retain

\* The row of history of a promotion.
LEMMA Creation ==
  ASSUME RequestsTypeOK, RequestsTypeOK', StudentsInv, [Next]_vars,
         NEW h \in load.promoters, PromoteStudents_Create(h)
  PROVE  StudentsInv'
<1> DEFINE rec == promoting[h].records[1]
           row == HistoryRow(rec.student, rec.class, promoting[h].term, "promote")
<1>1. /\ rec \in Record /\ promoting[h].op = "record" /\ Head(promoting[h].records) = rec
      /\ h \in Handlers /\ promoting[h] \in Promoting /\ histories \in Seq(StudentClassHistory)
      /\ promoting \in [Handlers -> Promoting] /\ students \in [Students -> Student]
  BY AtRecord, StudentsParts DEF PromoteStudents_Create, StudentsInv
<1>2. UNCHANGED <<students, sheets>>
  BY DEF PromoteStudents_Create
<1>3. CASE rec.class = NoClass
  <2>1. WorkOff(h, Tail(promoting[h].records)) /\ UNCHANGED histories
    BY <1>1, <1>3 DEF PromoteStudents_Create
  <2>2. HistoryKept
    BY <2>1 DEF HistoryKept
  <2> QED BY <1>1, <1>2, <2>1, <2>2, StudentsEdited, OtherRecord DEF PromotionsOf
<1>4. CASE rec.class # NoClass
  <2>1. /\ \/ histories' = Append(histories, row) /\ UNCHANGED faults
           \/ Fault /\ UNCHANGED histories
        /\ promoting' = [promoting EXCEPT ![h].op = "place"]
    BY <1>1, <1>4 DEF PromoteStudents_Create
  <2>2. /\ row \in StudentClassHistory /\ row.student = rec.student /\ row.class = rec.class
        /\ row.action = "promote" /\ rec.student \in Students
    BY <1>1, <1>4 DEF Record, HistoryRow, StudentClassHistory, Promoting
  <2> HIDE DEF row
  <2>3. PICK p : p = [promoting[h] EXCEPT !.op = "place"]
    OBVIOUS
  <2>4. /\ p \in Promoting /\ p.op = "place" /\ p.records = promoting[h].records
        /\ promoting' = [promoting EXCEPT ![h] = p]
    BY <1>1, <2>1, <2>3 DEF Promoting
  <2>5. /\ promoting'[h] = p /\ promoting' \in [Handlers -> Promoting]
        /\ \A g \in Handlers : g # h => promoting'[g] = promoting[g]
    BY <1>1, <2>4
  <2>6. load' = load /\ Promoters'
    BY <1>1, <1>4, <2>4, <2>5, FaultsGrow DEF StudentsInv, Promoters
  <2>7. HistoryKept /\ histories' \in Seq(StudentClassHistory)
    BY <1>1, <2>1, <2>2, RowAdded DEF HistoryKept
  <2>8. Promoted'
    <3> SUFFICES ASSUME faults' = 0, NEW s \in Students
                 PROVE  /\ PromotionsOf(s)' = {} => students'[s].division = DivisionOf[FirstClass[s]]
                        /\ \A g \in Handlers : Placing(g, s)' =>
                             \E i \in PromotionsOf(s)' :
                               histories'[i].class = promoting'[g].records[1].class /\ Latest(i, s)'
                        /\ PromotionsOf(s)' # {} /\ (\A g \in Handlers : ~Placing(g, s)') =>
                             \E i \in PromotionsOf(s)' :
                               students'[s].division = DivisionOf[histories'[i].class] /\ Latest(i, s)'
      BY DEF Promoted
    <3>1. faults \in Nat /\ faults = 0 /\ ~Fault
      BY FaultsGrow DEF RequestsTypeOK, Fault
    <3>0. PICK new : new = Len(histories) + 1
      OBVIOUS
    <3>2. /\ histories'[new].class = rec.class
          /\ \A i \in PromotionsOf(s) : i < new /\ histories'[i] = histories[i]
          /\ PromotionsOf(s)' = IF rec.student = s THEN PromotionsOf(s) \cup {new} ELSE PromotionsOf(s)
          /\ new \in Nat
      BY <2>1, <2>2, <3>0, <3>1, RowAdded DEF HistoryKept, PromotionsOf
    <3> HIDE DEF rec
    <3>3. \A g \in Handlers : g # h => (Placing(g, s)' <=> Placing(g, s))
      BY <2>5 DEF Placing
    <3>4. Placing(h, s)' <=> rec.student = s
      BY <2>4, <2>5 DEF Placing, rec
    <3>5. ~Placing(h, s)
      BY <1>1 DEF Placing
    <3>6. CASE rec.student # s
      <4>1. \A i : Latest(i, s)' <=> Latest(i, s)
        BY <2>6, <3>2, <3>6 DEF Latest
      <4>2. \A g \in Handlers : Placing(g, s)' => g # h /\ Placing(g, s)
        BY <3>3, <3>4, <3>6
      <4>3. (\A g \in Handlers : ~Placing(g, s)') => \A g \in Handlers : ~Placing(g, s)
        BY <3>3, <3>5
      <4> QED BY <1>2, <2>5, <3>1, <3>2, <3>6, <4>1, <4>2, <4>3 DEF StudentsInv, Promoted
    <3>7. CASE rec.student = s
      <4>1. new \in PromotionsOf(s)' /\ Latest(new, s)'
        <5>1. /\ PromotionsOf(s)' = PromotionsOf(s) \cup {new} /\ new \in Nat
              /\ \A j \in PromotionsOf(s) : j < new
          BY <3>2, <3>7
        <5>2. \A j \in PromotionsOf(s) : j \in Nat
          BY <1>1, LenProperties DEF PromotionsOf
        <5>3. \A j \in PromotionsOf(s)' : j <= new
          BY <5>1, <5>2
        <5> QED BY <5>1, <5>3 DEF Latest
      <4>2. Placing(h, s)' /\ promoting'[h].records[1].class = rec.class
        BY <2>4, <2>5, <3>4, <3>7 DEF rec
      <4>3. ASSUME NEW g \in Handlers, Placing(g, s)'
            PROVE  \E i \in PromotionsOf(s)' :
                     histories'[i].class = promoting'[g].records[1].class /\ Latest(i, s)'
        <5>1. CASE g = h
          BY <3>2, <4>1, <4>2, <5>1
        <5>2. CASE g # h
          <6>1. Placing(g, s) /\ promoting'[g] = promoting[g]
            BY <2>5, <3>3, <4>3, <5>2
          <6>2. g \in load.promoters
            BY <6>1 DEF Placing, StudentsInv, Promoters
          <6>3. ~(Cardinality(load.promoters) <= 1)
            BY <5>2, <6>2, StudentLoad, AtMostOne
          <6>4. PICK i \in PromotionsOf(s) : histories[i].class = promoting[g].records[1].class
            BY <3>1, <6>1 DEF StudentsInv, Promoted
          <6> QED BY <2>6, <3>2, <6>1, <6>3, <6>4 DEF Latest
        <5> QED BY <5>1, <5>2
      <4>4. PromotionsOf(s)' # {} /\ ~(\A g \in Handlers : ~Placing(g, s)')
        BY <1>1, <4>1, <4>2
      <4> QED BY <4>3, <4>4
    <3> QED BY <3>6, <3>7
  <2> QED BY <1>1, <1>2, <2>5, <2>6, <2>7, <2>8, SheetsStay, StudentsParts, StudentsTyped DEF StudentsInv, Sheet
<1> QED BY <1>3, <1>4

\* The student is placed in the division of the class.
LEMMA Placement ==
  ASSUME RequestsTypeOK, RequestsTypeOK', StudentsInv, [Next]_vars,
         NEW h \in load.promoters, PromoteStudents_Place(h)
  PROVE  StudentsInv'
<1> DEFINE rec == promoting[h].records[1]
<1>1. /\ rec \in Record /\ promoting[h].op = "place" /\ Head(promoting[h].records) = rec
      /\ h \in Handlers /\ histories \in Seq(StudentClassHistory)
      /\ students \in [Students -> Student]
  BY AtRecord, StudentsParts DEF PromoteStudents_Place, StudentsInv
<1>2. /\ promoting' \in [Handlers -> Promoting] /\ Promoters'
      /\ promoting'[h].op # "place" /\ load' = load
      /\ \A g \in Handlers : g # h => promoting'[g] = promoting[g]
  BY <1>1, FaultsGrow, WorkedOff DEF PromoteStudents_Place
<1>3. UNCHANGED <<histories, sheets>> /\ HistoryKept
  BY DEF PromoteStudents_Place, HistoryKept
<1>4. rec.student \in Students /\ DivisionOf[rec.class] \in Divisions
  <2>1. rec.class # NoClass
    BY <1>1 DEF StudentsInv, Promoters
  <2> QED BY <1>1, <2>1, StudentsAssumption DEF Record
<1>5. \/ students' = [students EXCEPT ![rec.student].division = DivisionOf[rec.class]]
      \/ Fault /\ UNCHANGED students
  BY <1>1 DEF PromoteStudents_Place, getClassDivisionID
<1>6. students' \in [Students -> Student]
  <2>1. [students[rec.student] EXCEPT !.division = DivisionOf[rec.class]] \in Student
    BY <1>1, <1>4 DEF Student
  <2> QED BY <1>1, <1>4, <1>5, <2>1
<1>7. Promoted'
  <2> SUFFICES ASSUME faults' = 0, NEW s \in Students
               PROVE  /\ PromotionsOf(s)' = {} => students'[s].division = DivisionOf[FirstClass[s]]
                      /\ \A g \in Handlers : Placing(g, s)' =>
                           \E i \in PromotionsOf(s)' :
                             histories'[i].class = promoting'[g].records[1].class /\ Latest(i, s)'
                      /\ PromotionsOf(s)' # {} /\ (\A g \in Handlers : ~Placing(g, s)') =>
                           \E i \in PromotionsOf(s)' :
                             students'[s].division = DivisionOf[histories'[i].class] /\ Latest(i, s)'
    BY DEF Promoted
  <2>1. faults \in Nat /\ faults = 0 /\ ~Fault
    BY FaultsGrow DEF RequestsTypeOK, Fault
  <2>2. /\ students'[rec.student].division = DivisionOf[rec.class]
        /\ \A q \in Students : q # rec.student => students'[q] = students[q]
    BY <1>1, <1>4, <1>5, <2>1 DEF Student
  <2>3. PromotionsOf(s)' = PromotionsOf(s) /\ \A i : Latest(i, s)' <=> Latest(i, s)
    BY <1>2, <1>3 DEF PromotionsOf, Latest
  <2>4. \A g \in Handlers : Placing(g, s)' => g # h /\ Placing(g, s) /\ promoting'[g] = promoting[g]
    BY <1>2 DEF Placing
  <2>5. CASE rec.student = s
    <3>1. Placing(h, s)
      BY <1>1, <2>5 DEF Placing
    <3>2. PICK i \in PromotionsOf(s) : histories[i].class = rec.class /\ Latest(i, s)
      BY <1>1, <2>1, <3>1 DEF StudentsInv, Promoted
    <3> QED BY <1>3, <2>1, <2>2, <2>3, <2>4, <2>5, <3>2 DEF StudentsInv, Promoted
  <2>6. CASE rec.student # s
    <3>1. ~Placing(h, s) /\ students'[s] = students[s]
      BY <2>2, <2>6 DEF Placing
    <3>2. (\A g \in Handlers : ~Placing(g, s)') => \A g \in Handlers : ~Placing(g, s)
      BY <1>2, <3>1 DEF Placing
    <3> QED BY <1>3, <2>1, <2>3, <2>4, <3>1, <3>2 DEF StudentsInv, Promoted
  <2> QED BY <2>5, <2>6
<1> QED BY <1>1, <1>2, <1>3, <1>6, <1>7, SheetsStay, StudentsParts, StudentsTyped DEF StudentsInv, Sheet

LEMMA StudentEdits ==
  ASSUME RequestsTypeOK, RequestsTypeOK', StudentsInv, [Next]_vars, NEW s \in load.edited,
         ArchiveStudent(s) \/ \E on \in BOOLEAN : UpdateStudent(s, on)
  PROVE  StudentsInv'
<1>1. s \in Students /\ students \in [Students -> Student]
  BY StudentLoad, StudentsParts DEF StudentsInv
<1>2. UNCHANGED <<histories, promoting, sheets>> /\ HistoryKept /\ load' = load
  BY FaultsGrow DEF ArchiveStudent, UpdateStudent, HistoryKept
<1>3. \/ UNCHANGED students
      \/ students' = [students EXCEPT ![s].archived = TRUE, ![s].active = FALSE]
      \/ \E on \in BOOLEAN : students' = [students EXCEPT ![s].active = on]
  BY DEF ArchiveStudent, UpdateStudent
<1>4. ASSUME students' = [students EXCEPT ![s].archived = TRUE, ![s].active = FALSE]
      PROVE  students' = [students EXCEPT ![s] = [students[s] EXCEPT !.archived = TRUE, !.active = FALSE]]
  BY <1>1, <1>4
<1>5. \/ UNCHANGED students
      \/ \E new \in Edited(students[s]) : students' = [students EXCEPT ![s] = new]
  BY <1>3, <1>4 DEF Edited
<1>6. /\ students' \in [Students -> Student]
      /\ \A q \in Students : students'[q].division = students[q].division
  BY <1>1, <1>5, StudentsEdited
<1>7. Promoted'
  BY <1>2, <1>6, PromotedStays DEF PromotionsOf
<1> QED BY <1>2, <1>6, <1>7, SheetsStay, StudentsParts, StudentsTyped DEF StudentsInv, Sheet, Promoters

LEMMA SheetShown ==
  ASSUME RequestsTypeOK, RequestsTypeOK', StudentsInv, [Next]_vars, NEW n \in load.teachers,
         \/ \E c \in Classes, t \in Terms : GetScoreSheet(n, c, t)
         \/ SaveScores_Complete(n)
  PROVE  StudentsInv'
<1>1. /\ n \in Teachers /\ sheets \in [Teachers -> Sheet] /\ histories \in Seq(StudentClassHistory)
  BY StudentLoad, StudentsParts DEF StudentsInv
<1>2. UNCHANGED <<students, histories, promoting>> /\ HistoryKept /\ load' = load
  BY FaultsGrow DEF GetScoreSheet, SaveScores_Complete, HistoryKept
<1>3. Promoted'
  BY <1>2, PromotedStays DEF PromotionsOf
<1>4. sheets' \in [Teachers -> Sheet] /\ SheetsHeld'
  <2>1. ASSUME NEW c \in Classes, NEW t \in Terms, GetScoreSheet(n, c, t)
        PROVE  sheets' \in [Teachers -> Sheet] /\ SheetsHeld'
    <3>1. PICK sheet : /\ sheet = [state |-> "shown", class |-> c, term |-> t,
                                   lines |-> [i \in RowsOfClass(c, t) |-> histories[i].student]]
                       /\ sheets' = [sheets EXCEPT ![n] = sheet]
      BY <2>1 DEF GetScoreSheet
    <3>2. /\ RowsOfClass(c, t) \subseteq DOMAIN histories
          /\ \A i \in DOMAIN histories : histories[i].student \in Students
      <4>1. \A i \in DOMAIN histories : histories[i] \in StudentClassHistory
        BY <1>1
      <4> QED BY <4>1 DEF RowsOfClass, StudentClassHistory
    <3>3. [i \in RowsOfClass(c, t) |-> histories[i].student] \in
            UNION {[R -> Students] : R \in SUBSET DOMAIN histories}
      <4>1. [i \in RowsOfClass(c, t) |-> histories[i].student] \in [RowsOfClass(c, t) -> Students]
        BY <3>2
      <4> QED BY <3>2, <4>1
    <3>4. /\ sheet \in Sheet /\ sheet.class = c /\ sheet.term = t
          /\ DOMAIN sheet.lines = RowsOfClass(c, t)
          /\ \A i \in RowsOfClass(c, t) : sheet.lines[i] = histories[i].student
      BY <3>1, <3>3 DEF Sheet
    <3>5. sheets'[n] = sheet /\ \A m \in Teachers : m # n => sheets'[m] = sheets[m]
      BY <1>1, <3>1
    <3>6. \A a, b : RowsOfClass(a, b)' = RowsOfClass(a, b)
      BY <1>2 DEF RowsOfClass
    <3> QED BY <1>1, <1>2, <3>1, <3>4, <3>5, <3>6 DEF StudentsInv, SheetsHeld
  <2>2. CASE SaveScores_Complete(n)
    <3>1. PICK sheet : /\ \E state \in {"accepted", "refused"} :
                            sheet = [sheets[n] EXCEPT !.state = state]
                       /\ sheets' = [sheets EXCEPT ![n] = sheet]
      BY <1>1, <2>2 DEF SaveScores_Complete
    <3>2. sheet \in Sheet /\ sheet.state # "shown"
      BY <1>1, <3>1 DEF Sheet
    <3>3. sheets'[n] = sheet /\ \A m \in Teachers : m # n => sheets'[m] = sheets[m]
      BY <1>1, <3>1
    <3>4. \A a, b : RowsOfClass(a, b)' = RowsOfClass(a, b)
      BY <1>2 DEF RowsOfClass
    <3> QED BY <1>1, <1>2, <3>1, <3>2, <3>3, <3>4 DEF StudentsInv, SheetsHeld
  <2> QED BY <2>1, <2>2
<1>5. Sheet' = Sheet
  BY <1>2 DEF Sheet
<1> QED BY <1>2, <1>3, <1>4, <1>5, StudentsParts, StudentsTyped DEF StudentsInv, Promoters

LEMMA StudentsInit_Inv == Init => StudentsInv
<1> SUFFICES ASSUME Init PROVE StudentsInv
  OBVIOUS
<1>1. Roster \in Seq(Students) /\ FirstClass \in [Students -> Classes] /\ FirstTerm \in Terms
  BY StudentsAssumption
<1>2. \A i \in 1..Len(Roster) :
        HistoryRow(Roster[i], FirstClass[Roster[i]], FirstTerm, "admit") \in StudentClassHistory
  BY <1>1 DEF HistoryRow, StudentClassHistory
<1>3. histories \in Seq(StudentClassHistory)
  <2>1. histories = [i \in 1..Len(Roster) |->
                       HistoryRow(Roster[i], FirstClass[Roster[i]], FirstTerm, "admit")]
        /\ Len(Roster) \in Nat
    BY <1>1, LenProperties DEF Init, StudentsInit
  <2> QED BY <1>2, <2>1, IsASeq
<1>4. students \in [Students -> Student]
  BY StudentsAssumption DEF Init, StudentsInit, Student
<1>5. \A h \in Handlers : promoting[h] = NotPromoting
  BY DEF Init, StudentsInit
<1>6. promoting \in [Handlers -> Promoting]
  BY NotPromotingFacts DEF Init, StudentsInit
<1>7. NoSheet \in Sheet /\ NoSheet.state = "none"
  <2>1. <<>> \in [{} -> Students]
    OBVIOUS
  <2>2. <<>> \in UNION {[R -> Students] : R \in SUBSET DOMAIN histories}
    BY <2>1
  <2> QED BY <1>1, <2>2 DEF NoSheet, Sheet
<1>8. sheets \in [Teachers -> Sheet] /\ SheetsHeld
  BY <1>7 DEF Init, StudentsInit, SheetsHeld
<1>9. \A s \in Students : PromotionsOf(s) = {} /\ students[s].division = DivisionOf[FirstClass[s]]
  <2>1. \A i \in DOMAIN histories : histories[i].action = "admit"
    BY <1>1, LenProperties DEF Init, StudentsInit, HistoryRow
  <2>2. \A s \in Students : PromotionsOf(s) = {}
    BY <2>1 DEF PromotionsOf
  <2> QED BY <2>2 DEF Init, StudentsInit
<1>10. Promoters /\ Promoted
  BY <1>5, <1>9, NotPromotingFacts DEF Promoters, Promoted, Placing
<1> QED BY <1>3, <1>4, <1>6, <1>8, <1>10, StudentsParts DEF StudentsInv

LEMMA StudentsStep ==
  ASSUME RequestsTypeOK, RequestsTypeOK', StudentsInv, [Next]_vars
  PROVE  StudentsInv'
<1>1. CASE StudentsNext
  BY <1>1, BeginPromotion, Graduation, Retention, Creation, Placement, StudentEdits, SheetShown
     DEF StudentsNext
<1>2. CASE UNCHANGED studentVars
  <2>1. load' = load /\ HistoryKept
    BY <1>2, FaultsGrow DEF studentVars, HistoryKept
  <2>2. Promoted'
    BY <1>2, <2>1, PromotedStays DEF studentVars, PromotionsOf
  <2> QED BY <1>2, <2>1, <2>2, SheetsStay, StudentsParts, StudentsTyped
       DEF studentVars, StudentsInv, Promoters, Sheet
<1> QED BY <1>1, <1>2 DEF Next, vars, studentVars

-----------------------------------------------------------------------------
(* Attendance: rolls, and the days that are counted. *)

Marking == [op : {"find", "write"}, class : Classes, day : Days,
            lines : Seq([student : Students, status : STRING]),
            found : AttendanceRows \cup {0}]

DayRecord == [student : Students, class : Classes, day : Days, status : Statuses]

KeyOf(r) == <<attendance[r].student, attendance[r].class, attendance[r].day>>

MarkedKeys == {k \in Marks : marked[k] # "none"}

\* Only a marker's handler works on lines, and the row it found stays one of
\* the student, class and day it looked for.
Markers ==
  \A h \in Handlers : marking[h].op # "idle" =>
    /\ h \in load.markers /\ marking[h].lines # <<>>
    /\ marking[h].op = "write" /\ marking[h].found # 0 =>
         marking[h].found \in Existing(marking[h].lines[1].student, marking[h].class, marking[h].day)

\* Without failures the status last answered is in a row.
Seen ==
  faults = 0 => \A k \in MarkedKeys :
    \E r \in Existing(k[1], k[2], k[3]) : attendance[r].status = marked[k]

OneRoll == faults = 0 /\ Cardinality(load.markers) <= 1

\* One roll at a time there is one row for a student, class and day, and a
\* handler that found none is right.
OneRow ==
  OneRoll =>
    /\ \A r, q \in Present : KeyOf(r) = KeyOf(q) => r = q
    /\ \A r \in Present : marked[KeyOf(r)] = attendance[r].status
    /\ \A h \in Handlers : marking[h].op = "write" /\ marking[h].found = 0 =>
         Existing(marking[h].lines[1].student, marking[h].class, marking[h].day) = {}

AttendanceInv ==
  /\ AttendanceTypeOK /\ IsFiniteSet(Present) /\ IsFiniteSet(MarkedKeys)
  /\ Markers /\ Seen /\ OneRow

LEMMA AttendanceParts ==
  AttendanceTypeOK <=> /\ attendance \in [AttendanceRows -> DayRecord \cup {NoRecord}]
                       /\ marking \in [Handlers -> Marking \cup {NotMarking}]
                       /\ marked \in [Marks -> Statuses \cup {"none"}]
BY DEF AttendanceTypeOK, DayRecord, Marking

LEMMA AttendanceTyped ==
  ASSUME attendance' \in [AttendanceRows -> DayRecord \cup {NoRecord}],
         marking' \in [Handlers -> Marking \cup {NotMarking}],
         marked' \in [Marks -> Statuses \cup {"none"}]
  PROVE  AttendanceTypeOK'
BY DEF AttendanceTypeOK, DayRecord, Marking

LEMMA MarkerLoad ==
  ASSUME RequestsTypeOK
  PROVE  /\ load.markers \subseteq Handlers /\ IsFiniteSet(load.markers)
         /\ load.rolls \subseteq [class : Classes, day : Days,
                                  lines : Seq([student : Students, status : STRING])]
BY RequestsAssumption, AttendanceAssumption DEF RequestsTypeOK

LEMMA NotMarkingFacts == NotMarking.op = "idle" /\ NoRecord.student = NoStudent
BY DEF NotMarking, NoRecord

LEMMA PresentRows ==
  ASSUME AttendanceInv
  PROVE  /\ Present \subseteq AttendanceRows
         /\ \A r \in Present : attendance[r] \in DayRecord /\ KeyOf(r) \in Marks
                               /\ attendance[r].status \in Statuses
         /\ \A r \in AttendanceRows : attendance[r] \in DayRecord => r \in Present
<1>1. attendance \in [AttendanceRows -> DayRecord \cup {NoRecord}]
  BY AttendanceParts DEF AttendanceInv
<1>2. \A r \in Present : attendance[r] \in DayRecord
  BY <1>1, NotMarkingFacts DEF Present
<1>3. \A rec \in DayRecord : /\ rec.student \in Students /\ rec.class \in Classes /\ rec.day \in Days
                             /\ rec.status \in Statuses /\ rec.student # NoStudent
  BY AttendanceAssumption DEF DayRecord
<1> QED BY <1>2, <1>3 DEF KeyOf, Marks, Present

\* The line a handler is at.
LEMMA AtLine ==
  ASSUME RequestsTypeOK, AttendanceInv, NEW h \in load.markers, marking[h].op # "idle"
  PROVE  /\ h \in Handlers /\ marking[h] \in Marking
         /\ Head(marking[h].lines) = marking[h].lines[1]
         /\ marking[h].lines[1] \in [student : Students, status : STRING]
         /\ Tail(marking[h].lines) \in Seq([student : Students, status : STRING])
         /\ marking[h].class \in Classes /\ marking[h].day \in Days
<1>1. h \in Handlers /\ marking[h] \in Marking
  BY MarkerLoad, AttendanceParts, NotMarkingFacts DEF AttendanceInv
<1>2. marking[h].lines \in Seq([student : Students, status : STRING]) /\ marking[h].lines # <<>>
  BY <1>1 DEF AttendanceInv, Markers, Marking
<1>3. /\ Head(marking[h].lines) = marking[h].lines[1]
      /\ marking[h].lines[1] \in [student : Students, status : STRING]
      /\ Tail(marking[h].lines) \in Seq([student : Students, status : STRING])
  <2>1. PICK q : q = marking[h].lines
    OBVIOUS
  <2>2. PICK L : L = [student : Students, status : STRING]
    OBVIOUS
  <2>3. q \in Seq(L) /\ q # <<>>
    BY <1>2, <2>1, <2>2
  <2>4. Head(q) = q[1] /\ Head(q) \in L /\ Tail(q) \in Seq(L)
    BY <2>3, HeadTailProperties
  <2> QED BY <2>1, <2>2, <2>4
<1> QED BY <1>1, <1>3 DEF Marking

\* A handler's record changes, and no row.
LEMMA MarkingMoves ==
  ASSUME RequestsTypeOK, RequestsTypeOK', AttendanceInv, [Next]_vars, NEW h \in load.markers,
         NEW rec \in Marking, marking' = [marking EXCEPT ![h] = rec],
         UNCHANGED <<attendance, marked>>, rec.lines # <<>>,
         rec.op = "write" /\ rec.found # 0 =>
           rec.found \in Existing(rec.lines[1].student, rec.class, rec.day),
         rec.op = "write" /\ rec.found = 0 =>
           faults' # 0 \/ Existing(rec.lines[1].student, rec.class, rec.day) = {}
  PROVE  AttendanceInv'
<1>1. /\ h \in Handlers /\ marking \in [Handlers -> Marking \cup {NotMarking}]
      /\ load' = load
  BY MarkerLoad, AttendanceParts, FaultsGrow DEF AttendanceInv
<1>2. faults' = 0 => faults = 0
  BY FaultsGrow DEF RequestsTypeOK
<1>3. /\ marking' \in [Handlers -> Marking \cup {NotMarking}]
      /\ marking'[h] = rec /\ \A g \in Handlers : g # h => marking'[g] = marking[g]
  BY <1>1
<1>4. Present' = Present /\ MarkedKeys' = MarkedKeys /\ \A s, c, d : Existing(s, c, d)' = Existing(s, c, d)
  BY DEF Present, MarkedKeys, Existing
<1>5. AttendanceTypeOK'
  BY <1>3, AttendanceParts, AttendanceTyped DEF AttendanceInv
<1>6. Markers'
  BY <1>1, <1>3, <1>4 DEF AttendanceInv, Markers
<1>7. Seen'
  BY <1>2, <1>4 DEF AttendanceInv, Seen
<1>8. OneRow'
  <2> SUFFICES ASSUME OneRoll'
               PROVE  (/\ \A r, q \in Present : KeyOf(r) = KeyOf(q) => r = q
                       /\ \A r \in Present : marked[KeyOf(r)] = attendance[r].status
                       /\ \A g \in Handlers : marking[g].op = "write" /\ marking[g].found = 0 =>
                            Existing(marking[g].lines[1].student, marking[g].class, marking[g].day) = {})'
    BY DEF OneRow
  <2>1. OneRoll
    BY <1>1, <1>2 DEF OneRoll
  <2>2. (\A r, q \in Present : KeyOf(r) = KeyOf(q) => r = q)'
    BY <1>4, <2>1 DEF AttendanceInv, OneRow, KeyOf
  <2>3. (\A r \in Present : marked[KeyOf(r)] = attendance[r].status)'
    BY <1>4, <2>1 DEF AttendanceInv, OneRow, KeyOf
  <2>4. (\A g \in Handlers : marking[g].op = "write" /\ marking[g].found = 0 =>
           Existing(marking[g].lines[1].student, marking[g].class, marking[g].day) = {})'
    <3>1. faults' = 0
      BY DEF OneRoll
    <3> QED BY <1>3, <1>4, <2>1, <3>1 DEF AttendanceInv, OneRow
  <2> QED BY <2>2, <2>3, <2>4
<1> QED BY <1>4, <1>5, <1>6, <1>7, <1>8 DEF AttendanceInv

LEMMA RollBegun ==
  ASSUME RequestsTypeOK, RequestsTypeOK', AttendanceInv, [Next]_vars, NEW h \in load.markers,
         NEW roll \in load.rolls, MarkAttendance(h, roll)
  PROVE  AttendanceInv'
<1>1. /\ roll.class \in Classes /\ roll.day \in Days
      /\ roll.lines \in Seq([student : Students, status : STRING]) /\ roll.lines # <<>>
  BY MarkerLoad DEF MarkAttendance
<1>2. PICK rec : /\ rec = [op |-> "find", class |-> roll.class, day |-> roll.day,
                           lines |-> roll.lines, found |-> 0]
                 /\ marking' = [marking EXCEPT ![h] = rec]
  BY DEF MarkAttendance
<1>3. rec \in Marking /\ rec.op = "find" /\ rec.lines # <<>>
  BY <1>1, <1>2 DEF Marking
<1> QED BY <1>2, <1>3, MarkingMoves DEF MarkAttendance

LEMMA RowLookedUp ==
  ASSUME RequestsTypeOK, RequestsTypeOK', AttendanceInv, [Next]_vars, NEW h \in load.markers,
         MarkAttendance_Find(h)
  PROVE  AttendanceInv'
<1> DEFINE m == marking[h]
           rows == Existing(m.lines[1].student, m.class, m.day)
<1>1. h \in Handlers /\ m \in Marking /\ Head(m.lines) = m.lines[1] /\ m.op = "find" /\ m.lines # <<>>
  BY AtLine, MarkerLoad DEF MarkAttendance_Find, AttendanceInv, Markers
<1>2. rows \subseteq AttendanceRows
  BY DEF Existing, Present
<1>3. PICK r \in AttendanceRows \cup {0} :
        /\ marking' = [marking EXCEPT ![h].op = "write", ![h].found = r]
        /\ r # 0 => r \in rows
        /\ r = 0 => faults' # 0 \/ rows = {}
  <2>1. 0 \notin AttendanceRows /\ faults \in Nat
    BY AttendanceAssumption DEF RequestsTypeOK
  <2>2. Fault => faults' # 0
    BY <2>1 DEF Fault
  <2>3. \/ rows = {} /\ marking' = [marking EXCEPT ![h].op = "write", ![h].found = 0]
        \/ \E q \in rows : marking' = [marking EXCEPT ![h].op = "write", ![h].found = q]
        \/ marking' = [marking EXCEPT ![h].op = "write", ![h].found = 0] /\ Fault
    BY <1>1 DEF MarkAttendance_Find
  <2> HIDE DEF rows
  <2> QED BY <1>2, <2>1, <2>2, <2>3
<1>4. PICK rec : rec = [m EXCEPT !.op = "write", !.found = r]
  OBVIOUS
<1>5. marking' = [marking EXCEPT ![h] = rec]
  BY <1>1, <1>3, <1>4, AttendanceParts DEF AttendanceInv
<1>6. /\ rec \in Marking /\ rec.op = "write" /\ rec.found = r /\ rec.lines = m.lines
      /\ rec.class = m.class /\ rec.day = m.day
  BY <1>1, <1>4 DEF Marking
<1>7. Existing(rec.lines[1].student, rec.class, rec.day) = rows
  BY <1>6
<1>8. UNCHANGED <<attendance, marked>>
  BY DEF MarkAttendance_Find
<1> HIDE DEF m, rows
<1> QED BY <1>1, <1>3, <1>5, <1>6, <1>7, <1>8, MarkingMoves

\* What the write of a line does to the rows: r is the row found, or a new one.
LEMMA LineWritten ==
  ASSUME RequestsTypeOK, RequestsTypeOK', AttendanceInv, [Next]_vars, NEW h \in load.markers,
         MarkAttendance_Write(h), faults' = 0
  PROVE  LET m == marking[h]
             key == <<m.lines[1].student, m.class, m.day>>
         IN \E r \in AttendanceRows :
              /\ attendance'[r] = [student |-> m.lines[1].student, class |-> m.class, day |-> m.day,
                                   status |-> StatusOf(m.lines[1].status)]
              /\ \A q \in AttendanceRows : q # r => attendance'[q] = attendance[q]
              /\ r \in Present => KeyOf(r) = key
              /\ r \notin Present => m.found = 0
<1> DEFINE m == marking[h]
           status == StatusOf(m.lines[1].status)
           row == [student |-> m.lines[1].student, class |-> m.class, day |-> m.day, status |-> status]
<1>1. /\ h \in Handlers /\ m \in Marking /\ Head(m.lines) = m.lines[1] /\ m.op = "write"
      /\ attendance \in [AttendanceRows -> DayRecord \cup {NoRecord}]
  BY AtLine, MarkerLoad, AttendanceParts DEF MarkAttendance_Write, AttendanceInv
<1>2. ~Fault
  BY FaultsGrow DEF Fault, RequestsTypeOK
<1>3. CASE m.found # 0 /\ attendance' = [attendance EXCEPT ![m.found].status = status]
  <2>1. m.found \in Existing(m.lines[1].student, m.class, m.day)
    BY <1>1, <1>3 DEF AttendanceInv, Markers
  <2>2. /\ m.found \in Present /\ m.found \in AttendanceRows
        /\ attendance[m.found].student = m.lines[1].student
        /\ attendance[m.found].class = m.class /\ attendance[m.found].day = m.day
        /\ attendance[m.found] \in DayRecord
    BY <2>1, PresentRows DEF Existing
  <2>3. attendance'[m.found] = [attendance[m.found] EXCEPT !.status = status]
    BY <1>1, <1>3, <2>2
  <2>4. attendance'[m.found] = row
    <3> HIDE DEF status, m
    <3> QED BY <2>2, <2>3 DEF DayRecord
  <2>5. \A q \in AttendanceRows : q # m.found => attendance'[q] = attendance[q]
    BY <1>1, <1>3
  <2> QED BY <2>2, <2>4, <2>5 DEF KeyOf
<1>4. CASE m.found = 0 /\ \E r \in AttendanceRows \ Present : attendance' = [attendance EXCEPT ![r] = row]
  BY <1>1, <1>4
<1> QED BY <1>1, <1>2, <1>3, <1>4 DEF MarkAttendance_Write

LEMMA WrittenType ==
  ASSUME RequestsTypeOK, RequestsTypeOK', AttendanceInv, [Next]_vars, NEW h \in load.markers,
         MarkAttendance_Write(h)
  PROVE  /\ AttendanceTypeOK'
         /\ \A r \in Present : r \in Present' /\ KeyOf(r)' = KeyOf(r)
         /\ IsFiniteSet(Present') /\ IsFiniteSet(MarkedKeys')
         /\ marking'[h].op # "write"
         /\ \A g \in Handlers : g # h => marking'[g] = marking[g]
         /\ marking'[h].op # "idle" => marking'[h].lines # <<>>
<1> DEFINE m == marking[h]
           status == StatusOf(m.lines[1].status)
           row == [student |-> m.lines[1].student, class |-> m.class, day |-> m.day, status |-> status]
           key == <<m.lines[1].student, m.class, m.day>>
<1>1. /\ h \in Handlers /\ m \in Marking /\ Head(m.lines) = m.lines[1] /\ m.op = "write"
      /\ m.lines[1] \in [student : Students, status : STRING]
      /\ Tail(m.lines) \in Seq([student : Students, status : STRING])
      /\ m.class \in Classes /\ m.day \in Days
      /\ attendance \in [AttendanceRows -> DayRecord \cup {NoRecord}]
      /\ marking \in [Handlers -> Marking \cup {NotMarking}]
      /\ marked \in [Marks -> Statuses \cup {"none"}]
  BY AtLine, MarkerLoad, AttendanceParts DEF MarkAttendance_Write, AttendanceInv
<1>2. status \in Statuses
  BY DEF StatusOf, Statuses
<1>3. row \in DayRecord /\ key \in Marks /\ row.student # NoStudent
  BY <1>1, <1>2, AttendanceAssumption DEF DayRecord, Marks
<1>4. /\ \/ m.found # 0 /\ attendance' = [attendance EXCEPT ![m.found].status = status]
         \/ \E r \in AttendanceRows \ Present : attendance' = [attendance EXCEPT ![r] = row]
         \/ UNCHANGED attendance
      /\ marked' = [marked EXCEPT ![key] = status]
  BY <1>1 DEF MarkAttendance_Write
<1> HIDE DEF row, key, status
<1>5. /\ attendance' \in [AttendanceRows -> DayRecord \cup {NoRecord}]
      /\ \A r \in Present : r \in Present' /\ KeyOf(r)' = KeyOf(r)
      /\ IsFiniteSet(Present')
  <2>1. CASE m.found # 0 /\ attendance' = [attendance EXCEPT ![m.found].status = status]
    <3>1. m.found \in Present /\ m.found \in AttendanceRows /\ attendance[m.found] \in DayRecord
      BY <1>1, <2>1, PresentRows DEF AttendanceInv, Markers, Existing
    <3>2. PICK new : new = [attendance[m.found] EXCEPT !.status = status]
      OBVIOUS
    <3>3. /\ new \in DayRecord /\ new.student = attendance[m.found].student
          /\ new.class = attendance[m.found].class /\ new.day = attendance[m.found].day
      BY <1>2, <3>1, <3>2 DEF DayRecord
    <3>4. attendance' = [attendance EXCEPT ![m.found] = new]
      BY <1>1, <2>1, <3>1, <3>2
    <3>5. attendance'[m.found] = new /\ \A q \in AttendanceRows : q # m.found => attendance'[q] = attendance[q]
      BY <1>1, <3>1, <3>4
    <3>6. Present' = Present
      BY <3>1, <3>3, <3>5 DEF Present
    <3> QED BY <1>1, <3>1, <3>3, <3>4, <3>5, <3>6 DEF AttendanceInv, KeyOf, Present
  <2>2. ASSUME NEW r \in AttendanceRows \ Present, attendance' = [attendance EXCEPT ![r] = row]
        PROVE  /\ attendance' \in [AttendanceRows -> DayRecord \cup {NoRecord}]
               /\ \A q \in Present : q \in Present' /\ KeyOf(q)' = KeyOf(q)
               /\ IsFiniteSet(Present')
    <3>1. attendance'[r] = row /\ \A q \in AttendanceRows : q # r => attendance'[q] = attendance[q]
      BY <1>1, <2>2
    <3>2. Present' = Present \cup {r}
      BY <1>3, <3>1 DEF Present
    <3>3. IsFiniteSet(Present \cup {r})
      BY FS_AddElement DEF AttendanceInv
    <3> QED BY <1>1, <1>3, <2>2, <3>1, <3>2, <3>3 DEF KeyOf, Present
  <2>3. CASE UNCHANGED attendance
    BY <1>1, <2>3 DEF AttendanceInv, Present, KeyOf
  <2> QED BY <1>4, <2>1, <2>2, <2>3
<1>6. marked' \in [Marks -> Statuses \cup {"none"}] /\ IsFiniteSet(MarkedKeys')
  <2>1. marked' \in [Marks -> Statuses \cup {"none"}]
    BY <1>1, <1>2, <1>4
  <2>2. MarkedKeys' \subseteq MarkedKeys \cup {key}
    BY <1>1, <1>4 DEF MarkedKeys
  <2>3. IsFiniteSet(MarkedKeys \cup {key})
    BY FS_AddElement DEF AttendanceInv
  <2> QED BY <2>1, <2>2, <2>3, FS_Subset
<1>7. PICK rec : /\ rec = IF Tail(m.lines) = <<>> THEN NotMarking
                          ELSE [m EXCEPT !.op = "find", !.lines = Tail(m.lines), !.found = 0]
                 /\ marking' = [marking EXCEPT ![h] = rec]
  BY DEF MarkAttendance_Write
<1>8. /\ rec \in Marking \cup {NotMarking} /\ rec.op # "write"
      /\ rec.op # "idle" => rec.lines # <<>>
  <2>1. CASE Tail(m.lines) = <<>>
    BY <1>7, <2>1, NotMarkingFacts
  <2>2. CASE Tail(m.lines) # <<>>
    <3>1. PICK rest : rest = Tail(m.lines)
      OBVIOUS
    <3>2. rec = [m EXCEPT !.op = "find", !.lines = rest, !.found = 0]
      BY <1>7, <2>2, <3>1
    <3>3. rest \in Seq([student : Students, status : STRING]) /\ rest # <<>>
      BY <1>1, <2>2, <3>1
    <3> QED BY <1>1, <3>2, <3>3 DEF Marking
  <2> QED BY <2>1, <2>2
<1>9. /\ marking' \in [Handlers -> Marking \cup {NotMarking}]
      /\ marking'[h] = rec /\ \A g \in Handlers : g # h => marking'[g] = marking[g]
  BY <1>1, <1>7, <1>8
<1> QED BY <1>5, <1>6, <1>8, <1>9, AttendanceTyped

LEMMA RowWritten ==
  ASSUME RequestsTypeOK, RequestsTypeOK', AttendanceInv, [Next]_vars, NEW h \in load.markers,
         MarkAttendance_Write(h)
  PROVE  AttendanceInv'
<1> DEFINE m == marking[h]
           status == StatusOf(m.lines[1].status)
           key == <<m.lines[1].student, m.class, m.day>>
<1>1. /\ h \in Handlers /\ Head(m.lines) = m.lines[1] /\ m.op = "write"
      /\ m.lines[1].student \in Students /\ m.class \in Classes /\ m.day \in Days
      /\ marked \in [Marks -> Statuses \cup {"none"}] /\ load' = load
  BY AtLine, MarkerLoad, AttendanceParts, FaultsGrow DEF MarkAttendance_Write, AttendanceInv
<1>2. /\ AttendanceTypeOK' /\ IsFiniteSet(Present') /\ IsFiniteSet(MarkedKeys')
      /\ \A r \in Present : r \in Present' /\ KeyOf(r)' = KeyOf(r)
      /\ marking'[h].op # "write"
      /\ \A g \in Handlers : g # h => marking'[g] = marking[g]
      /\ marking'[h].op # "idle" => marking'[h].lines # <<>>
  BY WrittenType
<1>3. \A s, c, d : Existing(s, c, d) \subseteq Existing(s, c, d)'
  BY <1>2 DEF Existing, KeyOf
<1>4. Markers'
  BY <1>1, <1>2, <1>3 DEF AttendanceInv, Markers
<1>5. marked' = [marked EXCEPT ![key] = status] /\ key \in Marks
  BY <1>1 DEF MarkAttendance_Write, Marks
<1>6. marked'[key] = status /\ \A k \in Marks : k # key => marked'[k] = marked[k]
  BY <1>1, <1>5
<1>7. ASSUME faults' = 0 PROVE Seen' /\ OneRow'
  <2>1. faults = 0
    BY <1>7, FaultsGrow DEF RequestsTypeOK
  <2>2. PICK r \in AttendanceRows :
              /\ attendance'[r] = [student |-> m.lines[1].student, class |-> m.class, day |-> m.day,
                                   status |-> status]
              /\ \A q \in AttendanceRows : q # r => attendance'[q] = attendance[q]
              /\ r \in Present => KeyOf(r) = key
              /\ r \notin Present => m.found = 0
    BY <1>7, LineWritten
  <2>3. /\ attendance'[r].student = m.lines[1].student /\ attendance'[r].class = m.class
        /\ attendance'[r].day = m.day /\ attendance'[r].status = status
    BY <2>2
  <2> HIDE DEF status
  <2>4. /\ Present' = Present \cup {r} /\ KeyOf(r)' = key
        /\ \A q \in Present : q # r => KeyOf(q)' = KeyOf(q)
    BY <1>1, <2>2, <2>3, AttendanceAssumption DEF Present, KeyOf
  <2>5. Seen'
    <3> SUFFICES ASSUME NEW k \in MarkedKeys'
                 PROVE  \E q \in Existing(k[1], k[2], k[3])' : attendance'[q].status = marked'[k]
      BY DEF Seen
    <3>1. k \in Marks
      BY DEF MarkedKeys
    <3>2. CASE k = key
      <4>1. r \in Existing(k[1], k[2], k[3])'
        BY <2>3, <2>4, <3>2 DEF Existing
      <4> QED BY <1>6, <2>3, <3>2, <4>1
    <3>3. CASE k # key
      <4>1. k \in MarkedKeys /\ marked'[k] = marked[k]
        BY <1>6, <3>1, <3>3 DEF MarkedKeys
      <4>2. PICK q \in Existing(k[1], k[2], k[3]) : attendance[q].status = marked[k]
        BY <2>1, <4>1 DEF AttendanceInv, Seen
      <4>3. q \in Present /\ KeyOf(q) = k /\ q \in AttendanceRows
        BY <3>1, <4>2 DEF Existing, KeyOf, Marks, Present
      <4>4. q # r
        BY <2>2, <3>3, <4>3
      <4> QED BY <1>3, <2>2, <4>1, <4>2, <4>3, <4>4
    <3> QED BY <3>2, <3>3
  <2>6. OneRow'
    <3> SUFFICES ASSUME OneRoll'
                 PROVE  (/\ \A p, q \in Present : KeyOf(p) = KeyOf(q) => p = q
                         /\ \A q \in Present : marked[KeyOf(q)] = attendance[q].status
                         /\ \A g \in Handlers : marking[g].op = "write" /\ marking[g].found = 0 =>
                              Existing(marking[g].lines[1].student, marking[g].class, marking[g].day) = {})'
      BY DEF OneRow
    <3>1. OneRoll
      BY <1>1, <2>1 DEF OneRoll
    <3>2. \A q \in Present : q # r => KeyOf(q) # key
      <4>1. CASE r \in Present
        BY <2>2, <3>1, <4>1 DEF AttendanceInv, OneRow
      <4>2. CASE r \notin Present
        <5>1. Existing(m.lines[1].student, m.class, m.day) = {}
          BY <1>1, <2>2, <3>1, <4>2 DEF AttendanceInv, OneRow
        <5> QED BY <5>1 DEF Existing, KeyOf
      <4> QED BY <4>1, <4>2
    <3>3. (\A p, q \in Present : KeyOf(p) = KeyOf(q) => p = q)'
      BY <2>4, <3>1, <3>2 DEF AttendanceInv, OneRow
    <3>4. (\A q \in Present : marked[KeyOf(q)] = attendance[q].status)'
      <4>1. ASSUME NEW q \in Present, q # r
            PROVE  marked'[KeyOf(q)'] = attendance'[q].status
        <5>1. KeyOf(q) \in Marks /\ q \in AttendanceRows
          BY PresentRows
        <5>2. marked[KeyOf(q)] = attendance[q].status
          BY <3>1 DEF AttendanceInv, OneRow
        <5> QED BY <1>6, <2>2, <2>4, <3>2, <4>1, <5>1, <5>2
      <4>2. marked'[KeyOf(r)'] = attendance'[r].status
        BY <1>6, <2>3, <2>4
      <4> QED BY <2>4, <4>1, <4>2
    <3>5. \A g \in Handlers : marking'[g].op # "write"
      <4>1. ASSUME NEW g \in Handlers, g # h PROVE marking'[g].op # "write"
        <5>1. marking[g].op # "idle" => g \in load.markers
          BY DEF AttendanceInv, Markers
        <5>2. g \notin load.markers
          BY <3>1, <4>1, MarkerLoad, AtMostOne DEF OneRoll
        <5> QED BY <1>2, <4>1, <5>1, <5>2
      <4> QED BY <1>2, <4>1
    <3> QED BY <3>3, <3>4, <3>5
  <2> QED BY <2>5, <2>6
<1>8. Seen' /\ OneRow'
  BY <1>7 DEF Seen, OneRow, OneRoll
<1> QED BY <1>2, <1>4, <1>8 DEF AttendanceInv

LEMMA AttendanceInit_Inv == Init => AttendanceInv
<1> SUFFICES ASSUME Init PROVE AttendanceInv
  OBVIOUS
<1>1. \A r \in AttendanceRows : attendance[r] = NoRecord
  BY DEF Init, AttendanceInit
<1>2. Present = {} /\ MarkedKeys = {}
  BY <1>1, NotMarkingFacts DEF Init, AttendanceInit, Present, MarkedKeys
<1>3. \A h \in Handlers : marking[h].op = "idle"
  BY NotMarkingFacts DEF Init, AttendanceInit
<1>4. AttendanceTypeOK
  BY AttendanceParts DEF Init, AttendanceInit
<1> QED BY <1>2, <1>3, <1>4, FS_EmptySet DEF AttendanceInv, Markers, Seen, OneRow

LEMMA AttendanceStep ==
  ASSUME RequestsTypeOK, RequestsTypeOK', AttendanceInv, [Next]_vars
  PROVE  AttendanceInv'
<1>1. CASE AttendanceNext
  BY <1>1, RollBegun, RowLookedUp, RowWritten DEF AttendanceNext
<1>2. CASE UNCHANGED attendanceVars
  <2>1. load' = load /\ (faults' = 0 => faults = 0)
    BY FaultsGrow DEF RequestsTypeOK
  <2>2. Present' = Present /\ MarkedKeys' = MarkedKeys /\ AttendanceTypeOK'
        /\ \A s, c, d : Existing(s, c, d)' = Existing(s, c, d)
    BY <1>2 DEF attendanceVars, Present, MarkedKeys, Existing, AttendanceInv, AttendanceTypeOK
  <2>3. Markers' /\ Seen'
    BY <1>2, <2>1, <2>2 DEF attendanceVars, AttendanceInv, Markers, Seen
  <2>4. OneRow'
    BY <1>2, <2>1, <2>2 DEF attendanceVars, AttendanceInv, OneRow, OneRoll, KeyOf
  <2> QED BY <2>2, <2>3, <2>4 DEF AttendanceInv
<1> QED BY <1>1, <1>2 DEF Next, vars, attendanceVars

-----------------------------------------------------------------------------
(* The days counted, against the days answered. *)

RowsIn(s, classes, statuses) ==
  {r \in Present : /\ attendance[r].student = s /\ attendance[r].class \in classes
                   /\ attendance[r].status \in statuses}

KeysIn(s, classes, statuses) ==
  {k \in Marks : k[1] = s /\ k[2] \in classes /\ marked[k] \in statuses}

LEMMA FiniteDays ==
  ASSUME AttendanceInv, NEW s, NEW classes, NEW statuses \in SUBSET Statuses
  PROVE  /\ IsFiniteSet(RowsIn(s, classes, statuses)) /\ IsFiniteSet(KeysIn(s, classes, statuses))
         /\ Cardinality(RowsIn(s, classes, statuses)) \in Nat
         /\ MarkedDays(s, classes, statuses) = Cardinality(KeysIn(s, classes, statuses))
         /\ MarkedDays(s, classes, statuses) \in Nat
<1>1. RowsIn(s, classes, statuses) \subseteq Present
  BY DEF RowsIn
<1>2. KeysIn(s, classes, statuses) \subseteq MarkedKeys
  BY DEF KeysIn, MarkedKeys, Statuses
<1>3. IsFiniteSet(RowsIn(s, classes, statuses)) /\ IsFiniteSet(KeysIn(s, classes, statuses))
  BY <1>1, <1>2, FS_Subset DEF AttendanceInv
<1>4. MarkedDays(s, classes, statuses) = Cardinality(KeysIn(s, classes, statuses))
  BY DEF MarkedDays, KeysIn
<1> QED BY <1>3, <1>4, FS_CardinalityType

\* One roll at a time, each answered day has its row.
LEMMA CountedOnce ==
  ASSUME AttendanceInv, OneRoll, NEW s, NEW classes, NEW statuses \in SUBSET Statuses
  PROVE  Cardinality(RowsIn(s, classes, statuses)) = MarkedDays(s, classes, statuses)
<1> DEFINE S == RowsIn(s, classes, statuses)
           T == KeysIn(s, classes, statuses)
           f == [r \in S |-> KeyOf(r)]
<1>1. \A r \in Present : KeyOf(r) \in Marks /\ marked[KeyOf(r)] = attendance[r].status
  BY PresentRows DEF AttendanceInv, OneRow
<1>2. \A r \in S : r \in Present /\ KeyOf(r) \in T
  BY <1>1 DEF RowsIn, KeysIn, KeyOf
<1>3. \A r, q \in S : f[r] = f[q] => r = q
  BY <1>2 DEF AttendanceInv, OneRow
<1>4. ASSUME NEW k \in T PROVE \E r \in S : KeyOf(r) = k
  <2>1. k \in MarkedKeys /\ k \in Marks
    BY DEF KeysIn, MarkedKeys, Statuses
  <2>2. PICK r \in Existing(k[1], k[2], k[3]) : attendance[r].status = marked[k]
    BY <2>1 DEF AttendanceInv, Seen, OneRoll
  <2>3. r \in S /\ KeyOf(r) = k
    BY <2>1, <2>2 DEF Existing, RowsIn, KeysIn, KeyOf, Marks
  <2> QED BY <2>3
<1>5. f \in [S -> T]
  BY <1>2
<1> HIDE DEF S, T
<1>6. f \in Bijection(S, T)
  BY <1>3, <1>4, <1>5 DEF Bijection, Injection, Surjection, IsInjective
<1>7. Cardinality(T) = Cardinality(S)
  BY <1>6, FiniteDays, FS_Bijection DEF ExistsBijection, S
<1> QED BY <1>7, FiniteDays DEF S, T

\* When rolls overlap, each answered day has one at least.
LEMMA NoneMissing ==
  ASSUME AttendanceInv, faults = 0, NEW s, NEW classes
  PROVE  Cardinality(RowsIn(s, classes, Statuses)) >= MarkedDays(s, classes, Statuses)
<1> DEFINE T == KeysIn(s, classes, Statuses)
           S == {r \in RowsIn(s, classes, Statuses) : KeyOf(r) \in T}
           f == [r \in S |-> KeyOf(r)]
<1>1. ASSUME NEW k \in T PROVE \E r \in S : KeyOf(r) = k
  <2>1. k \in MarkedKeys /\ k \in Marks
    BY DEF KeysIn, MarkedKeys, Statuses
  <2>2. PICK r \in Existing(k[1], k[2], k[3]) : attendance[r].status = marked[k]
    BY <2>1 DEF AttendanceInv, Seen
  <2>3. r \in RowsIn(s, classes, Statuses) /\ KeyOf(r) = k
    BY <2>1, <2>2, PresentRows DEF Existing, RowsIn, KeysIn, KeyOf, Marks
  <2> QED BY <2>3
<1>2. f \in [S -> T]
  OBVIOUS
<1>3. S \subseteq RowsIn(s, classes, Statuses)
  OBVIOUS
<1> HIDE DEF S, T
<1>4. f \in Surjection(S, T)
  BY <1>1, <1>2 DEF Surjection
<1>5. /\ IsFiniteSet(S) /\ Cardinality(S) <= Cardinality(RowsIn(s, classes, Statuses))
      /\ Cardinality(S) \in Nat
  BY <1>3, FiniteDays, FS_Subset, FS_CardinalityType
<1>6. Cardinality(T) <= Cardinality(S)
  BY <1>4, <1>5, FS_Surjection
<1>7. Cardinality(T) = MarkedDays(s, classes, Statuses) /\ Cardinality(T) \in Nat
  BY FiniteDays DEF T
<1>8. Cardinality(RowsIn(s, classes, Statuses)) \in Nat
  BY FiniteDays
<1> QED BY <1>5, <1>6, <1>7, <1>8

\* Two finite sets with nothing in common count as much as their union.
LEMMA DisjointUnion ==
  ASSUME NEW S, NEW T, IsFiniteSet(S), IsFiniteSet(T), S \cap T = {}
  PROVE  IsFiniteSet(S \cup T) /\ Cardinality(S \cup T) = Cardinality(S) + Cardinality(T)
<1>1. Cardinality(S) \in Nat /\ Cardinality(T) \in Nat
  BY FS_CardinalityType
<1>2. Cardinality(S \cap T) = 0
  BY FS_EmptySet
<1>3. /\ IsFiniteSet(S \cup T)
      /\ Cardinality(S \cup T) = Cardinality(S) + Cardinality(T) - Cardinality(S \cap T)
  BY FS_Union
<1> QED BY <1>1, <1>2, <1>3

\* The total of a report card counts every row once.
LEMMA TotalRows ==
  ASSUME AttendanceInv, NEW s, NEW c
  PROVE  attendanceRecord(s, c).total = Cardinality(RowsIn(s, {c}, Statuses))
<1> DEFINE P == RowsIn(s, {c}, {"PRESENT"})
           A == RowsIn(s, {c}, {"ABSENT"})
           L == RowsIn(s, {c}, {"LATE"})
<1>1. /\ DaysOf(s, {c}, "PRESENT") = Cardinality(P) /\ DaysOf(s, {c}, "ABSENT") = Cardinality(A)
      /\ DaysOf(s, {c}, "LATE") = Cardinality(L)
  <2>1. P = {r \in Present : /\ attendance[r].student = s /\ attendance[r].class \in {c}
                             /\ attendance[r].status = "PRESENT"}
    BY DEF RowsIn
  <2>2. A = {r \in Present : /\ attendance[r].student = s /\ attendance[r].class \in {c}
                             /\ attendance[r].status = "ABSENT"}
    BY DEF RowsIn
  <2>3. L = {r \in Present : /\ attendance[r].student = s /\ attendance[r].class \in {c}
                             /\ attendance[r].status = "LATE"}
    BY DEF RowsIn
  <2> QED BY <2>1, <2>2, <2>3 DEF DaysOf
<1>2. IsFiniteSet(P) /\ IsFiniteSet(A) /\ IsFiniteSet(L)
  BY FiniteDays DEF Statuses
<1>3. P \cap A = {} /\ (P \cup A) \cap L = {} /\ (P \cup A) \cup L = RowsIn(s, {c}, Statuses)
  BY DEF RowsIn, Statuses
<1> HIDE DEF P, A, L
<1>4. Cardinality(P) \in Nat /\ Cardinality(A) \in Nat /\ Cardinality(L) \in Nat
  BY <1>2, FS_CardinalityType
<1>5. IsFiniteSet(P \cup A) /\ Cardinality(P \cup A) = Cardinality(P) + Cardinality(A)
  BY <1>2, <1>3, DisjointUnion
<1>6. Cardinality((P \cup A) \cup L) = Cardinality(P \cup A) + Cardinality(L)
  BY <1>2, <1>3, <1>5, DisjointUnion
<1> QED BY <1>1, <1>3, <1>5, <1>6 DEF attendanceRecord

LEMMA InvSummary == AttendanceInv => SummaryExact
<1> SUFFICES ASSUME AttendanceInv, faults = 0, NEW s \in Students
             PROVE  /\ Cardinality(load.markers) <= 1 =>
                         /\ GetStudentAttendanceSummary(s).present = MarkedDays(s, Classes, {"PRESENT"})
                         /\ GetStudentAttendanceSummary(s).absent = MarkedDays(s, Classes, {"ABSENT"})
                         /\ GetStudentAttendanceSummary(s).late = MarkedDays(s, Classes, {"LATE"})
                         /\ \A c \in Classes :
                              attendanceRecord(s, c) = [present |-> MarkedDays(s, {c}, {"PRESENT"}),
                                                        total |-> MarkedDays(s, {c}, Statuses)]
                    /\ \A c \in Classes : attendanceRecord(s, c).total >= MarkedDays(s, {c}, Statuses)
                    /\ \A k \in Marks : marked[k] # "none" =>
                         \E r \in Existing(k[1], k[2], k[3]) : attendance[r].status = marked[k]
  BY DEF SummaryExact
<1>1. ASSUME OneRoll, NEW classes, NEW x \in Statuses
      PROVE  DaysOf(s, classes, x) = MarkedDays(s, classes, {x})
  <2>1. DaysOf(s, classes, x) = Cardinality(RowsIn(s, classes, {x}))
    <3>1. RowsIn(s, classes, {x}) = {r \in Present : /\ attendance[r].student = s
                                                     /\ attendance[r].class \in classes
                                                     /\ attendance[r].status = x}
      BY DEF RowsIn
    <3> QED BY <3>1 DEF DaysOf
  <2> QED BY <1>1, <2>1, CountedOnce
<1>2. ASSUME Cardinality(load.markers) <= 1
      PROVE  /\ GetStudentAttendanceSummary(s).present = MarkedDays(s, Classes, {"PRESENT"})
             /\ GetStudentAttendanceSummary(s).absent = MarkedDays(s, Classes, {"ABSENT"})
             /\ GetStudentAttendanceSummary(s).late = MarkedDays(s, Classes, {"LATE"})
             /\ \A c \in Classes :
                  attendanceRecord(s, c) = [present |-> MarkedDays(s, {c}, {"PRESENT"}),
                                            total |-> MarkedDays(s, {c}, Statuses)]
  <2>1. OneRoll
    BY <1>2 DEF OneRoll
  <2>2. "PRESENT" \in Statuses /\ "ABSENT" \in Statuses /\ "LATE" \in Statuses
    BY DEF Statuses
  <2>3. ASSUME NEW c \in Classes
        PROVE  attendanceRecord(s, c) = [present |-> MarkedDays(s, {c}, {"PRESENT"}),
                                         total |-> MarkedDays(s, {c}, Statuses)]
    <3>1. attendanceRecord(s, c).total = MarkedDays(s, {c}, Statuses)
      BY <2>1, TotalRows, CountedOnce
    <3> QED BY <1>1, <2>1, <2>2, <3>1 DEF attendanceRecord
  <2> QED BY <1>1, <2>1, <2>2, <2>3 DEF GetStudentAttendanceSummary
<1>3. \A c \in Classes : attendanceRecord(s, c).total >= MarkedDays(s, {c}, Statuses)
  <2> TAKE c \in Classes
  <2>1. attendanceRecord(s, c).total = Cardinality(RowsIn(s, {c}, Statuses))
    BY TotalRows
  <2>2. Cardinality(RowsIn(s, {c}, Statuses)) >= MarkedDays(s, {c}, Statuses)
    BY NoneMissing
  <2> QED BY <2>1, <2>2
<1>4. \A k \in Marks : marked[k] # "none" =>
        \E r \in Existing(k[1], k[2], k[3]) : attendance[r].status = marked[k]
  BY DEF AttendanceInv, Seen, MarkedKeys
<1> QED BY <1>2, <1>3, <1>4

-----------------------------------------------------------------------------
(* Placement and enrolment. *)

LEMMA InvPlaced == StudentsInv => PlacedAsPromoted
<1> SUFFICES ASSUME StudentsInv, faults = 0, \A h \in Handlers : promoting[h] = NotPromoting,
                    NEW s \in Students
             PROVE  /\ PromotionsOf(s) = {} => students[s].division = DivisionOf[FirstClass[s]]
                    /\ PromotionsOf(s) # {} => \E i \in PromotionsOf(s) :
                         /\ students[s].division = DivisionOf[histories[i].class]
                         /\ Cardinality(load.promoters) <= 1 => \A j \in PromotionsOf(s) : j <= i
  BY DEF PlacedAsPromoted
<1>1. \A h \in Handlers : ~Placing(h, s)
  BY NotPromotingFacts DEF Placing
<1> QED BY <1>1 DEF StudentsInv, Promoted, Latest

\* An accepted sheet has as many lines as there are rows, and its lines are of
\* such rows: it has them all.
LEMMA AcceptedComplete ==
  ASSUME RequestsTypeOK, StudentsInv, NEW n \in Teachers, SaveScores_Complete(n),
         sheets'[n].state = "accepted", faults' = faults
  PROVE  \A s \in Enrolled(sheets[n].class, sheets[n].term) :
           \E i \in DOMAIN sheets[n].lines : sheets[n].lines[i] = s
<1> DEFINE D == DOMAIN sheets[n].lines
           R == RowsOfClass(sheets[n].class, sheets[n].term)
<1>1. sheets[n].state = "shown" /\ sheets \in [Teachers -> Sheet]
  BY StudentsParts DEF StudentsInv, SaveScores_Complete
<1>2. D \subseteq R /\ \A i \in D : sheets[n].lines[i] = histories[i].student
  BY <1>1 DEF StudentsInv, SheetsHeld
<1>3. IsFiniteSet(R)
  <2>1. histories \in Seq(StudentClassHistory)
    BY StudentsParts DEF StudentsInv
  <2>2. R \subseteq 1..Len(histories) /\ Len(histories) \in Nat
    BY <2>1, LenProperties DEF RowsOfClass
  <2>3. IsFiniteSet(1..Len(histories))
    <3>1. 1 \in Int /\ Len(histories) \in Int
      BY <2>2
    <3> QED BY <3>1, FS_Interval
  <2> QED BY <2>2, <2>3, FS_Subset
<1>4. Cardinality(D) >= Cardinality(R)
  <2>1. ~Fault
    BY DEF Fault, RequestsTypeOK
  <2>2. [sheets EXCEPT ![n].state = "refused"][n].state = "refused"
    BY <1>1 DEF Sheet
  <2> QED BY <2>1, <2>2 DEF SaveScores_Complete, enrolledCount
<1>5. D = R
  <2>1. Cardinality(D) <= Cardinality(R) /\ (Cardinality(R) = Cardinality(D) => R = D)
        /\ Cardinality(D) \in Nat /\ Cardinality(R) \in Nat
    BY <1>2, <1>3, FS_Subset, FS_CardinalityType
  <2> QED BY <1>4, <2>1
<1> QED BY <1>2, <1>5 DEF Enrolled

LEMMA StepSheets ==
  ASSUME RequestsTypeOK, StudentsInv, [Next]_vars, NEW n \in Teachers,
         sheets[n].state = "shown", sheets'[n].state = "accepted", faults' = faults
  PROVE  \A s \in Enrolled(sheets[n].class, sheets[n].term) :
           \E i \in DOMAIN sheets[n].lines : sheets[n].lines[i] = s
<1>1. sheets \in [Teachers -> Sheet] /\ load.teachers \subseteq Teachers
  BY StudentLoad, StudentsParts DEF StudentsInv
<1>2. ~UNCHANGED sheets
  OBVIOUS
<1>3. \E m \in load.teachers : \/ \E c \in Classes, t \in Terms : GetScoreSheet(m, c, t)
                               \/ SaveScores_Complete(m)
  BY <1>2 DEF Next, vars, StudentsNext, studentVars, PromoteStudents, PromoteStudents_Graduate,
     PromoteStudents_Retain, PromoteStudents_Create, PromoteStudents_Place, UpdateStudent,
     ArchiveStudent
<1>4. ASSUME NEW m \in load.teachers, NEW c \in Classes, NEW t \in Terms, GetScoreSheet(m, c, t)
      PROVE  FALSE
  <2>1. sheets'[m].state = "shown" /\ \A k \in Teachers : k # m => sheets'[k] = sheets[k]
    BY <1>1, <1>4 DEF GetScoreSheet
  <2> QED BY <2>1
<1>5. ASSUME NEW m \in load.teachers, SaveScores_Complete(m)
      PROVE  m = n
  <2>1. \A k \in Teachers : k # m => sheets'[k] = sheets[k]
    BY <1>1, <1>5 DEF SaveScores_Complete
  <2> QED BY <2>1
<1> QED BY <1>3, <1>4, <1>5, AcceptedComplete

-----------------------------------------------------------------------------
(* Types. *)

PayingOK ==
  /\ paying \in [Handlers -> Paying]
  /\ \A h \in Handlers : /\ paying[h].op = "paymentCreate" => paying[h].key \in Keys
                         /\ paying[h].op = "structureSave" => paying[h].id \in Structures \cup {0}
                         /\ paying[h].op = "receiptEnqueue" => paying[h].id \in DOMAIN payments

Receipt == [type : {"receipt"}, row : DOMAIN payments, left : 0..3]

LEMMA Entered ==
  ASSUME PayingOK, NEW h \in Handlers, NEW rec \in Paying, Enter(h, rec),
         DOMAIN payments \subseteq DOMAIN payments',
         rec.op = "paymentCreate" => rec.key \in Keys,
         rec.op = "structureSave" => rec.id \in Structures \cup {0},
         rec.op = "receiptEnqueue" => rec.id \in DOMAIN payments'
  PROVE  PayingOK'
BY DEF PayingOK, Enter

LEMMA FeesParts ==
  FeesTypeOK <=> /\ structures \in [Structures -> Divisions \cup {NoStructure}]
                 /\ payments \in Seq(FeePayment)
                 /\ paid \in [Keys -> Nat]
                 /\ discounts \subseteq FeeDiscount
                 /\ PayingOK
                 /\ receipts \subseteq Receipt
BY DEF FeesTypeOK, PayingOK, Receipt

LEMMA TypeStructure ==
  ASSUME RequestsTypeOK, FeesTypeOK, NEW h \in Handlers,
         (\E d \in load.charged : UpsertFeeStructure_Find(h, d)) \/ UpsertFeeStructure_Save(h)
  PROVE  FeesTypeOK'
<1>1. PayingOK /\ Structures \subseteq Nat
  BY FeesParts, FeesAssumption
<1>2. ASSUME NEW d \in load.charged, UpsertFeeStructure_Find(h, d)
      PROVE  FeesTypeOK'
  <2>1. PICK id \in Structures \cup {0} : Enter(h, Saving(d, id))
    BY <1>2 DEF UpsertFeeStructure_Find, Set, Saving
  <2>2. d \in Divisions /\ id \in Nat
    BY <1>1, <1>2, LoadBursars
  <2>3. PayingOK'
    <3>1. DOMAIN payments \subseteq DOMAIN payments'
      BY <1>2 DEF UpsertFeeStructure_Find
    <3> QED BY <1>1, <2>1, <2>2, <3>1, SavingFacts, Entered
  <2> QED BY <1>2, <2>3, FeesParts DEF UpsertFeeStructure_Find, PayingOK, FeesTypeOK
<1>3. CASE UpsertFeeStructure_Save(h)
  <2>1. PayingOK'
    BY <1>1, <1>3, UnpaidFacts, Entered DEF UpsertFeeStructure_Save
  <2>2. CASE paying[h].op = "structureSave"
    <3>1. paying[h].division \in Divisions \cup {NoStructure} /\ paying[h].id \in Structures \cup {0}
      BY <1>1, <2>2 DEF PayingOK, Paying
    <3>2. structures' \in [Structures -> Divisions \cup {NoStructure}]
      BY <1>3, <3>1 DEF UpsertFeeStructure_Save, FeesTypeOK, Set
    <3> QED BY <1>3, <2>1, <3>2 DEF UpsertFeeStructure_Save, PayingOK, FeesTypeOK
  <2> QED BY <1>3, <2>2 DEF UpsertFeeStructure_Save
<1> QED BY <1>2, <1>3

LEMMA TypePayment ==
  ASSUME RequestsTypeOK, FeesTypeOK, NEW h \in Handlers,
         \/ \E k \in Keys, owed \in Amounts, amount \in Amounts : RecordPayment_Sum(h, k, owed, amount)
         \/ RecordPayment_Create(h) \/ RecordPayment_Enqueue(h)
  PROVE  FeesTypeOK'
<1>1. PayingOK /\ Amounts \subseteq Nat
  BY FeesParts, FeesAssumption
<1>2. ASSUME NEW k \in Keys, NEW owed \in Amounts, NEW amount \in Amounts,
             RecordPayment_Sum(h, k, owed, amount)
      PROVE  FeesTypeOK'
  <2>1. PICK prev \in Nat : Enter(h, Creating(k, owed, amount, prev))
    BY <1>2 DEF RecordPayment_Sum, SumOf, FeesTypeOK, Creating
  <2>2. owed \in Nat /\ amount \in Nat
    BY <1>1
  <2>3. PayingOK'
    <3>1. DOMAIN payments \subseteq DOMAIN payments'
      BY <1>2 DEF RecordPayment_Sum
    <3>2. /\ Creating(k, owed, amount, prev) \in Paying
          /\ Creating(k, owed, amount, prev).op = "paymentCreate"
          /\ Creating(k, owed, amount, prev).key = k
      BY <2>2, CreatingFacts
    <3> QED BY <1>1, <2>1, <3>1, <3>2, Entered
  <2> QED BY <1>2, <2>3 DEF RecordPayment_Sum, PayingOK, FeesTypeOK
<1>3. CASE RecordPayment_Create(h)
  <2> DEFINE p == paying[h]
  <2>1. p.key \in Keys /\ p.owed \in Nat /\ p.amount \in Nat /\ p.prev \in Nat
    BY <1>1, <1>3 DEF RecordPayment_Create, PayingOK, Paying
  <2>2. CASE Fault /\ Enter(h, Unpaid) /\ UNCHANGED <<payments, paid>>
    <3>1. PayingOK'
      BY <1>1, <2>2, UnpaidFacts, Entered
    <3> QED BY <1>3, <2>2, <3>1 DEF RecordPayment_Create, PayingOK, FeesTypeOK
  <2>3. CASE /\ payments' = Append(payments, Payment(p))
             /\ paid' = [paid EXCEPT ![p.key] = @ + p.amount]
             /\ Enter(h, Enqueuing(Len(payments) + 1))
    <3>1. paid \in [Keys -> Nat] /\ payments \in Seq(FeePayment)
      BY DEF FeesTypeOK
    <3>2. paid' \in [Keys -> Nat]
      BY <2>1, <2>3, <3>1
    <3>3. Payment(p) \in FeePayment
      BY <2>1, <3>1 DEF Payment, FeePayment
    <3>4. payments' \in Seq(FeePayment) /\ DOMAIN payments \subseteq DOMAIN payments'
      BY <2>3, <3>1, <3>3, AppendProperties
    <3>5. PayingOK'
      <4>1. Len(payments) + 1 \in Nat
        BY <3>1
      <4>2. Len(payments) + 1 \in DOMAIN payments'
        BY <2>3, <3>1, <3>3, AppendProperties
      <4> QED BY <1>1, <2>3, <3>4, <4>1, <4>2, EnqueuingFacts, Entered
    <3> QED BY <1>3, <3>2, <3>4, <3>5 DEF RecordPayment_Create, PayingOK, FeesTypeOK
  <2> QED BY <1>3, <2>2, <2>3 DEF RecordPayment_Create, Enqueuing
<1>4. CASE RecordPayment_Enqueue(h)
  <2>1. PayingOK'
    BY <1>1, <1>4, UnpaidFacts, Entered DEF RecordPayment_Enqueue
  <2>2. TaskReceipt(paying[h].id) \in Receipt
    BY <1>1, <1>4 DEF RecordPayment_Enqueue, TaskReceipt, Task, PayingOK, Receipt
  <2> QED BY <1>4, <2>1, <2>2 DEF RecordPayment_Enqueue, PayingOK, FeesTypeOK, Receipt
<1> QED BY <1>2, <1>3, <1>4

LEMMA TypeReceipt ==
  ASSUME FeesTypeOK, NEW t \in receipts, HandleGenerateFeeReceipt(t)
  PROVE  FeesTypeOK'
<1>1. receipts \subseteq Receipt /\ t \in Receipt
  BY FeesParts
<1>2. t.left > 0 => [t EXCEPT !.left = t.left - 1] \in Receipt
  BY <1>1 DEF Receipt
<1>3. receipts' \subseteq Receipt
  BY <1>1, <1>2 DEF HandleGenerateFeeReceipt, Retry
<1> QED BY <1>3 DEF HandleGenerateFeeReceipt, FeesTypeOK, Receipt

LEMMA TypeDiscount ==
  ASSUME RequestsTypeOK, FeesTypeOK, NEW s \in load.discounted, NEW f \in Structures,
         ApplyDiscount(s, f)
  PROVE  FeesTypeOK'
BY LoadBursars DEF ApplyDiscount, FeesTypeOK, FeeDiscount

\* The steps of FeesNext, as one list.
LEMMA EveryFeeStep ==
  ASSUME RequestsTypeOK, FeesNext
  PROVE  \/ \E h \in load.bursars :
              (\E d \in load.charged : UpsertFeeStructure_Find(h, d)) \/ UpsertFeeStructure_Save(h)
         \/ \E h \in load.bursars :
              \/ \E k \in Keys, owed \in Amounts, amount \in Amounts :
                   RecordPayment_Sum(h, k, owed, amount)
              \/ RecordPayment_Create(h) \/ RecordPayment_Enqueue(h)
         \/ \E t \in receipts : HandleGenerateFeeReceipt(t)
         \/ \E s \in load.discounted, f \in Structures : ApplyDiscount(s, f)
BY DEF FeesNext

LEMMA FeesTypeStep ==
  ASSUME RequestsTypeOK, FeesTypeOK, [Next]_vars
  PROVE  RequestsTypeOK' /\ FeesTypeOK'
<1>1. RequestsTypeOK'
  BY FaultsGrow DEF RequestsTypeOK
<1>2. load.bursars \subseteq Handlers
  BY LoadBursars
<1>3. CASE FeesNext
  BY <1>1, <1>2, <1>3, EveryFeeStep, TypeStructure, TypePayment, TypeReceipt, TypeDiscount
<1>4. CASE UNCHANGED feeVars
  BY <1>1, <1>4 DEF feeVars, FeesTypeOK
<1> QED BY <1>3, <1>4 DEF Next, vars, feeVars

-----------------------------------------------------------------------------
(* The sums and the balances. *)

Money == Bursars /\ Behind /\ Settled /\ Covering /\ Exact

LEMMA SerialBefore ==
  ASSUME RequestsTypeOK, [Next]_vars, Serial'
  PROVE  Serial
<1>1. faults' \in Nat /\ faults' >= faults /\ load' = load /\ faults \in Nat
  BY FaultsGrow DEF RequestsTypeOK
<1> QED BY <1>1 DEF Serial

LEMMA MoneyKept ==
  ASSUME RequestsTypeOK, Money, [Next]_vars, UNCHANGED <<paying, payments, paid>>
  PROVE  Money'
<1>1. load' = load
  BY FaultsGrow
<1> QED BY <1>1, SerialBefore DEF Money, Bursars, Behind, Settled, Covering, Exact

\* A handler that enters a step other than the insert of a payment.
LEMMA MoneyEntered ==
  ASSUME RequestsTypeOK, PayingOK, Money, [Next]_vars, NEW h \in load.bursars, NEW rec,
         Enter(h, rec), rec.op # "paymentCreate", UNCHANGED <<payments, paid>>
  PROVE  Money'
<1>1. load' = load /\ load.bursars \subseteq Handlers
  BY FaultsGrow, LoadBursars
<1>2. \A g \in Handlers : paying'[g] = IF g = h THEN rec ELSE paying[g]
  BY DEF PayingOK, Enter
<1>3. Bursars' /\ Behind'
  BY <1>1, <1>2 DEF Money, Bursars, Behind
<1>4. Settled' /\ Covering' /\ Exact'
  BY <1>2, SerialBefore DEF Money, Settled, Covering, Exact
<1> QED BY <1>3, <1>4 DEF Money

LEMMA MoneySum ==
  ASSUME RequestsTypeOK, FeesTypeOK, Money, [Next]_vars, NEW h \in load.bursars,
         NEW k \in Keys, NEW owed \in Amounts, NEW amount \in Amounts,
         RecordPayment_Sum(h, k, owed, amount)
  PROVE  Money'
<1>1. /\ load' = load /\ load.bursars \subseteq Handlers /\ faults' \in Nat /\ faults \in Nat
      /\ faults' >= faults
  BY FaultsGrow, LoadBursars DEF RequestsTypeOK
<1>2. /\ paid[k] \in Nat /\ owed \in Nat /\ amount \in Nat
      /\ paying \in [Handlers -> Paying]
  BY FeesAssumption DEF FeesTypeOK
<1>3. UNCHANGED <<payments, paid>>
  BY DEF RecordPayment_Sum
<1>4. PICK prev \in {0, paid[k]} : /\ Enter(h, Creating(k, owed, amount, prev))
                                /\ (prev = paid[k] \/ faults' = faults + 1)
  BY DEF RecordPayment_Sum, SumOf, Creating, Fault
<1> DEFINE rec == Creating(k, owed, amount, prev)
<1>5. rec.op = "paymentCreate" /\ rec.key = k /\ rec.prev = prev
  BY <1>2, CreatingFacts
<1> HIDE DEF rec
<1>6. \A g \in Handlers : paying'[g] = IF g = h THEN rec ELSE paying[g]
  BY <1>2, <1>4 DEF Enter, rec
<1>7. Bursars' /\ Behind'
  BY <1>1, <1>2, <1>3, <1>5, <1>6 DEF Money, Bursars, Behind
<1>8. Serial' => prev = paid[k]
  BY <1>1, <1>4 DEF Serial
<1>9. Settled' /\ Covering' /\ Exact'
  BY <1>3, <1>5, <1>6, <1>8, SerialBefore DEF Money, Settled, Covering, Exact
<1> QED BY <1>7, <1>9 DEF Money

LEMMA MoneyCreate ==
  ASSUME RequestsTypeOK, FeesTypeOK, Money, [Next]_vars, NEW h \in load.bursars,
         RecordPayment_Create(h)
  PROVE  Money'
<1> DEFINE p == paying[h]
<1>1. load' = load /\ load.bursars \subseteq Handlers
  BY FaultsGrow, LoadBursars
<1>2. /\ PayingOK /\ paid \in [Keys -> Nat] /\ payments \in Seq(FeePayment)
      /\ p \in Paying /\ p.key \in Keys /\ p.op = "paymentCreate"
  BY <1>1, FeesParts DEF RecordPayment_Create, PayingOK
<1>3. p.owed \in Nat /\ p.amount \in Nat /\ p.prev \in Nat
  BY <1>2 DEF Paying
<1>4. CASE Enter(h, Unpaid) /\ UNCHANGED <<payments, paid>>
  BY <1>2, <1>4, UnpaidFacts, MoneyEntered
<1>5. CASE /\ payments' = Append(payments, Payment(p))
           /\ paid' = [paid EXCEPT ![p.key] = @ + p.amount]
           /\ Enter(h, Enqueuing(Len(payments) + 1))
  <2>1. Len(payments) \in Nat
    BY <1>2
  <2>2. \A g \in Handlers : g # h => paying'[g] = paying[g]
    BY <1>2, <1>5 DEF Enter, PayingOK
  <2>3. paying'[h].op = "receiptEnqueue"
    BY <1>1, <1>2, <1>5, <2>1, EnqueuingFacts DEF Enter, PayingOK
  <2>4. \A k \in Keys : /\ paid[k] \in Nat /\ paid'[k] \in Nat /\ paid'[k] >= paid[k]
                        /\ k # p.key => paid'[k] = paid[k]
    BY <1>2, <1>3, <1>5
  <2>5. paid'[p.key] = paid[p.key] + p.amount
    BY <1>2, <1>5
  <2>6. /\ Payment(p).key = p.key /\ Payment(p).owed = p.owed
        /\ Payment(p).balance = p.owed - (p.prev + p.amount)
        /\ Payment(p).after = paid[p.key] + p.amount
    BY DEF Payment
  <2>7. Payment(p) \in FeePayment
    BY <1>2, <1>3, <2>4 DEF Payment, FeePayment
  <2>8. \A i \in DOMAIN payments' :
          \/ i \in DOMAIN payments /\ payments'[i] = payments[i]
          \/ payments'[i] = Payment(p)
    BY <1>2, <1>5, <2>7, AppendProperties
  <2>9. \A i \in DOMAIN payments : payments[i] \in FeePayment
    BY <1>2, ElementOfSeq
  <2>10. \A i \in DOMAIN payments : /\ payments[i].key \in Keys /\ payments[i].after \in Nat
                                    /\ payments[i].owed \in Nat /\ payments[i].balance \in Int
    BY <2>9 DEF FeePayment
  <2>11. Bursars'
    BY <1>1, <2>2, <2>3 DEF Money, Bursars
  <2>12. Behind'
    <3>1. ASSUME NEW g \in Handlers, paying'[g].op = "paymentCreate"
          PROVE  paying'[g].prev <= paid'[paying'[g].key]
      <4>1. g # h /\ paying'[g] = paying[g]
        BY <2>2, <2>3, <3>1
      <4>2. paying[g].key \in Keys /\ paying[g].prev \in Nat
        BY <1>2, <3>1, <4>1 DEF PayingOK, Paying
      <4>3. paying[g].prev <= paid[paying[g].key]
        BY <3>1, <4>1 DEF Money, Behind
      <4> QED BY <2>4, <4>1, <4>2, <4>3
    <3> QED BY <3>1 DEF Behind
  <2>13. Settled'
    <3>1. ASSUME NEW i \in DOMAIN payments'
          PROVE  payments'[i].after <= paid'[payments'[i].key]
      <4>1. CASE i \in DOMAIN payments /\ payments'[i] = payments[i]
        <5>1. payments[i].after <= paid[payments[i].key]
          BY <4>1 DEF Money, Settled
        <5> QED BY <2>4, <2>10, <4>1, <5>1
      <4>2. CASE payments'[i] = Payment(p)
        BY <1>2, <2>4, <2>5, <2>6, <4>2
      <4> QED BY <2>8, <4>1, <4>2
    <3> QED BY <3>1 DEF Settled
  <2>14. Covering'
    <3>1. p.prev <= paid[p.key]
      BY <1>1, <1>2 DEF Money, Behind
    <3>2. Payment(p).balance >= Payment(p).owed - Payment(p).after
      BY <1>2, <1>3, <2>4, <2>6, <3>1
    <3> QED BY <2>8, <3>2 DEF Money, Covering
  <2>15. Exact'
    <3>1. SUFFICES ASSUME Serial'
                   PROVE  /\ \A g \in Handlers : paying'[g].op # "paymentCreate"
                          /\ \A i \in DOMAIN payments' :
                               payments'[i].balance = payments'[i].owed - payments'[i].after
      BY DEF Exact
    <3>2. Serial
      BY <3>1, SerialBefore
    <3>3. \A g \in Handlers : paying'[g].op # "paymentCreate"
      BY <2>2, <2>3, <3>2, OneBursar DEF Money, Bursars, Serial
    <3>4. p.prev = paid[p.key]
      BY <1>1, <1>2, <3>2 DEF Money, Exact
    <3>5. Payment(p).balance = Payment(p).owed - Payment(p).after
      BY <1>2, <1>3, <2>4, <2>6, <3>4
    <3>6. \A i \in DOMAIN payments : payments[i].balance = payments[i].owed - payments[i].after
      BY <3>2 DEF Money, Exact
    <3> QED BY <2>8, <3>3, <3>5, <3>6
  <2> QED BY <2>11, <2>12, <2>13, <2>14, <2>15 DEF Money
<1> QED BY <1>4, <1>5 DEF RecordPayment_Create, Enqueuing

LEMMA InvInit == Init => IInv
<1> SUFFICES ASSUME Init PROVE IInv
  OBVIOUS
<1>1. RequestsTypeOK
  BY DEF Init, RequestsTypeOK
<1>2. FeesTypeOK
  BY UnpaidFacts DEF Init, FeesInit, FeesTypeOK
<1>3. \A h \in Handlers : paying[h].op = "idle"
  BY UnpaidFacts DEF Init, FeesInit
<1>4. DOMAIN payments = {}
  BY DEF Init, FeesInit
<1> QED BY <1>1, <1>2, <1>3, <1>4 DEF IInv, Bursars, Behind, Settled, Covering, Exact

LEMMA InvStep ==
  ASSUME IInv, [Next]_vars
  PROVE  IInv'
<1>1. RequestsTypeOK /\ FeesTypeOK /\ PayingOK /\ Money
  BY FeesParts DEF IInv, Money
<1>2. RequestsTypeOK' /\ FeesTypeOK'
  BY <1>1, FeesTypeStep
<1>3. ASSUME FeesNext PROVE Money'
  <2>1. ASSUME NEW h \in load.bursars, NEW d \in load.charged, UpsertFeeStructure_Find(h, d)
        PROVE  Money'
    <3>1. PICK id \in Structures \cup {0} : Enter(h, Saving(d, id))
      BY <2>1 DEF UpsertFeeStructure_Find, Set, Saving
    <3>2. d \in Divisions
      BY <1>1, <2>1, LoadBursars
    <3>3. id \in Nat
      BY FeesAssumption
    <3> QED BY <1>1, <2>1, <3>1, <3>2, <3>3, SavingFacts, MoneyEntered DEF UpsertFeeStructure_Find
  <2>2. ASSUME NEW h \in load.bursars, UpsertFeeStructure_Save(h) \/ RecordPayment_Enqueue(h)
        PROVE  Money'
    BY <1>1, <2>2, UnpaidFacts, MoneyEntered DEF UpsertFeeStructure_Save, RecordPayment_Enqueue
  <2>3. ASSUME NEW h \in load.bursars, NEW k \in Keys, NEW owed \in Amounts, NEW amount \in Amounts,
               RecordPayment_Sum(h, k, owed, amount)
        PROVE  Money'
    BY <1>1, <2>3, MoneySum
  <2>4. ASSUME NEW h \in load.bursars, RecordPayment_Create(h)
        PROVE  Money'
    BY <1>1, <2>4, MoneyCreate
  <2>5. CASE \/ \E t \in receipts : HandleGenerateFeeReceipt(t)
             \/ \E s \in load.discounted, f \in Structures : ApplyDiscount(s, f)
    BY <1>1, <2>5, MoneyKept DEF HandleGenerateFeeReceipt, ApplyDiscount
  <2> QED BY <1>1, <1>3, <2>1, <2>2, <2>3, <2>4, <2>5, EveryFeeStep
<1>4. ASSUME UNCHANGED feeVars PROVE Money'
  BY <1>1, <1>4, MoneyKept DEF feeVars
<1>5. Money'
  BY <1>3, <1>4 DEF Next, vars, feeVars
<1> QED BY <1>2, <1>5 DEF IInv, Money

LEMMA InvReceipts ==
  ASSUME IInv
  PROVE  ReceiptsCover
BY DEF IInv, Covering, Exact, Serial, ReceiptsCover

LEMMA InvDebtors ==
  ASSUME IInv
  PROVE  DebtorsReported
<1>1. ASSUME NEW i \in DOMAIN payments
      PROVE  /\ payments[i].balance \in Int /\ payments[i].owed \in Nat /\ payments[i].after \in Nat
             /\ paid[payments[i].key] \in Nat
             /\ payments[i].balance >= payments[i].owed - paid[payments[i].key]
  <2>1. payments[i] \in FeePayment
    BY ElementOfSeq DEF IInv, FeesTypeOK
  <2>2. /\ payments[i].balance \in Int /\ payments[i].owed \in Nat /\ payments[i].after \in Nat
        /\ payments[i].key \in Keys
    BY <2>1 DEF FeePayment
  <2>3. paid[payments[i].key] \in Nat
    BY <2>2 DEF IInv, FeesTypeOK
  <2>4. /\ payments[i].after <= paid[payments[i].key]
        /\ payments[i].balance >= payments[i].owed - payments[i].after
    BY DEF IInv, Settled, Covering
  <2> QED BY <2>2, <2>3, <2>4
<1>2. ASSUME NEW i \in DOMAIN payments, payments[i].owed - paid[payments[i].key] > 0
      PROVE  i \in GetDebtReport(students[payments[i].key[1]].division, FALSE)
  BY <1>1, <1>2 DEF GetDebtReport
<1> QED BY <1>1, <1>2 DEF DebtorsReported, debtorsInDivision

-----------------------------------------------------------------------------
(* Everything together. *)

SchoolInv == IInv /\ StudentsInv /\ AttendanceInv

LEMMA AlwaysSchoolInv == Spec => []SchoolInv
<1>1. Init => SchoolInv
  BY InvInit, StudentsInit_Inv, AttendanceInit_Inv DEF SchoolInv
<1>2. SchoolInv /\ [Next]_vars => SchoolInv'
  <2> SUFFICES ASSUME SchoolInv, [Next]_vars PROVE SchoolInv'
    OBVIOUS
  <2>1. IInv'
    BY InvStep DEF SchoolInv
  <2>2. RequestsTypeOK /\ RequestsTypeOK'
    BY <2>1 DEF SchoolInv, IInv
  <2> QED BY <2>1, <2>2, StudentsStep, AttendanceStep DEF SchoolInv
<1> QED BY <1>1, <1>2, PTL DEF Spec

\* For any school, traffic and failures: students, rolls, payments and receipts
\* keep the shape the handlers take for granted (students.go, attendance.go,
\* finance.go).
THEOREM TypeCorrect == Spec => []TypeOK
<1>1. SchoolInv => TypeOK
  BY DEF SchoolInv, IInv, StudentsInv, AttendanceInv, TypeOK
<1> QED BY <1>1, AlwaysSchoolInv, PTL

\* PromoteStudents (students.go:165-196): without failures and with no promotion
\* under way, any student is in the division of a class they were promoted to or
\* seeded into; of the last one if promotions come one at a time.
THEOREM StudentsArePlaced == Spec => []PlacedAsPromoted
<1>1. SchoolInv => PlacedAsPromoted
  BY InvPlaced DEF SchoolInv
<1> QED BY <1>1, AlwaysSchoolInv, PTL

\* SaveScores (scores.go:291-298): a submitted sheet that is accepted names every
\* student then enrolled, though only numbers are compared and a class may have
\* been promoted into since the sheet was shown.
THEOREM SubmittedSheetsComplete == Spec => SheetComplete
<1> DEFINE Complete ==
      \A n \in Teachers :
        sheets[n].state = "shown" /\ sheets'[n].state = "accepted" /\ faults' = faults =>
          \A s \in Enrolled(sheets[n].class, sheets[n].term) :
            \E i \in DOMAIN sheets[n].lines : sheets[n].lines[i] = s
<1>1. SchoolInv /\ [Next]_vars => [Complete]_<<sheets, histories>>
  <2> SUFFICES ASSUME SchoolInv, [Next]_vars PROVE Complete
    OBVIOUS
  <2> QED BY StepSheets DEF SchoolInv, IInv
<1> QED BY <1>1, AlwaysSchoolInv, PTL DEF Spec, SheetComplete

\* MarkAttendance (attendance.go:82-98), GetStudentAttendanceSummary and the
\* report cards (services/results.go:116-126): rolls one at a time and without
\* failures, the days counted are exactly the days answered; when they overlap,
\* none is missing.
THEOREM SummariesAreExact == Spec => []SummaryExact
<1>1. SchoolInv => SummaryExact
  BY InvSummary DEF SchoolInv
<1> QED BY <1>1, AlwaysSchoolInv, PTL

\* RecordPayment: whatever payments overlap or fail, no receipt shows less than
\* what is left to pay after it, and with one request at a time and no failure
\* each shows exactly that.
THEOREM ReceiptsAlwaysCover == Spec => []ReceiptsCover
BY InvInit, InvStep, InvReceipts, PTL DEF Spec

\* GetDebtReport (finance.go:381-397): when the query of the report succeeds,
\* whoever has paid in part and still owes is listed, in the division they are
\* in now, with at least what they owe.
THEOREM DebtorsAlwaysReported == Spec => []DebtorsReported
BY InvInit, InvStep, InvDebtors, PTL DEF Spec

=============================================================================
