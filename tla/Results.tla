------------------------------- MODULE Results -------------------------------
(***************************************************************************)
(* The results of one class and term: internal/services/results.go,        *)
(* internal/handlers/results.go, the grading scales of                     *)
(* internal/handlers/settings.go and the report card task of               *)
(* internal/jobs/handlers.go.                                              *)
(*                                                                         *)
(* The class takes one subject, so a student's total is the one approved   *)
(* mark and each result has one line (result_subjects).  CalculateResults  *)
(* works on the scores it read first and the grading scales it read next;  *)
(* each FirstOrInit and each full-row Save after them is a step of its     *)
(* own.  Neither results nor result_subjects has a unique index on what    *)
(* the lookups ask for, and First takes the row with the smallest          *)
(* (random) id.                                                            *)
(***************************************************************************)
EXTENDS Integers, FiniteSets, Sequences, Functions

CONSTANTS
  Students,   \* students with a score sheet
  NoStudent,  \* student_id of a row that does not exist
  Ids,        \* ids of rows of results: numbers, for their order
  Marks,
  Scales,     \* what the owner may send as grading scales: sequences of bands
  Handlers,   \* goroutines serving HTTP requests
  Workers,    \* goroutines of the asynq server
  Loads       \* bounds: the classes and the traffic a behaviour may have

ASSUME ResultsAssumption ==
  /\ IsFiniteSet(Students) /\ NoStudent \notin Students
  /\ Ids \subseteq Nat
  /\ Marks \subseteq Nat \ {0}
  /\ Handlers \cap Workers = {}
  /\ Scales \subseteq Seq([grade : STRING, min : Nat, max : Nat])
  /\ Loads \subseteq [students : SUBSET Students, returnable : SUBSET Students,
                       scales : SUBSET Scales, office : BOOLEAN, handlers : SUBSET Handlers,
                       workers : SUBSET Workers, faults : Nat]
  /\ \A l \in Loads : IsFiniteSet(l.handlers)

\* returnable: the students whose approved mark may be sent back; office:
\* whether results are published and remarked upon.
VARIABLES
  load,      \* one of Loads, chosen in the beginning
  scores,    \* score_entries: [mark, approved] of each student
  scales,    \* grade_scales: a set of bands
  released,  \* history: the marks that were ever approved
  results,   \* results
  lines,     \* result_subjects of each result, in the order of their ids
  cards,     \* results with a report card task in the queue
  local,     \* what each goroutine is doing, with its snapshot
  faults

vars == <<load, scores, scales, released, results, lines, cards, local, faults>>

Bands == UNION {Range(q) : q \in Scales}
Grades == {"F"} \cup {b.grade : b \in Bands}

Row == [student : Students \cup {NoStudent}, total : Marks \cup {0}, position : Nat,
        of : Nat, published : BOOLEAN, remark : BOOLEAN, generated : BOOLEAN]

NoRow == [student |-> NoStudent, total |-> 0, position |-> 0, of |-> 0,
          published |-> FALSE, remark |-> FALSE, generated |-> FALSE]

Rows == {r \in Ids : results[r].student # NoStudent}
RowsOf(s) == {r \in Rows : results[r].student = s}

\* id: the row found, or -1; line: the line found, or 0; bands: the grading
\* scales read, or those still to be created.
Idle == [op |-> "idle", todo |-> <<>>, bands |-> <<>>, row |-> NoRow, id |-> -1,
         line |-> 0, picked |-> {}]

Goto(g, rec) == local' = [local EXCEPT ![g] = rec]
Fault == faults < load.faults /\ faults' = faults + 1

-----------------------------------------------------------------------------
(* The score sheet, as ScoreBook has it. *)

EnterScore(s) ==
  /\ ~scores[s].approved
  /\ \E m \in Marks : scores' = [scores EXCEPT ![s].mark = m]
  /\ UNCHANGED <<load, scales, released, results, lines, cards, local, faults>>

ApproveScore(s) ==
  /\ scores[s].mark # 0 /\ ~scores[s].approved
  /\ scores' = [scores EXCEPT ![s].approved = TRUE]
  /\ released' = [released EXCEPT ![s] = @ \cup {scores[s].mark}]
  /\ UNCHANGED <<load, scales, results, lines, cards, local, faults>>

RejectScore(s) ==
  /\ s \in load.returnable
  /\ scores' = [scores EXCEPT ![s].approved = FALSE]
  /\ UNCHANGED <<load, scales, released, results, lines, cards, local, faults>>

-----------------------------------------------------------------------------
(* UpsertGradingScales: the old rows go, the new ones come one by one, and   *)
(* no error is looked at.                                                    *)

\* The rows still to be created.
Create(h, bands) ==
  Goto(h, IF bands = <<>> THEN Idle
          ELSE [Idle EXCEPT !.op = "createScale", !.bands = bands])

\* Mutant: the old rows stay.
UpsertGradingScales_KeepOld(h, new) ==
  /\ local[h] = Idle
  /\ Create(h, new)
  /\ UNCHANGED <<load, scores, scales, released, results, lines, cards, faults>>

UpsertGradingScales_Delete(h, new) ==
  /\ local[h] = Idle
  /\ \/ scales' = {} /\ UNCHANGED faults
     \/ Fault /\ UNCHANGED scales
  /\ Create(h, new)
  /\ UNCHANGED <<load, scores, released, results, lines, cards>>

UpsertGradingScales_Create(h) ==
  /\ local[h].op = "createScale"
  /\ \/ scales' = scales \cup {Head(local[h].bands)} /\ UNCHANGED faults
     \/ Fault /\ UNCHANGED scales
  /\ Create(h, Tail(local[h].bands))
  /\ UNCHANGED <<load, scores, released, results, lines, cards>>

-----------------------------------------------------------------------------
(* CalculateResults. *)

Holds(band, total) == band.min <= total /\ total <= band.max

\* The grade of the first band that holds the total; outside all of them, an F.
calculateGrade(total, bands, grade) ==
  \/ \E i \in DOMAIN bands :
       /\ Holds(bands[i], total) /\ grade = bands[i].grade
       /\ \A j \in DOMAIN bands : Holds(bands[j], total) => i <= j
  \/ (\A i \in DOMAIN bands : ~Holds(bands[i], total)) /\ grade = "F"

\* The rows of S in a descending order of min_score.
Sorted(S) ==
  {q \in [1 .. Cardinality(S) -> S] :
     \A i, j \in DOMAIN q : i < j => q[i] # q[j] /\ q[i].min >= q[j].min}

Total(s) == scores[s].mark

\* sort.Slice is not stable and starts from the order of a map.
Rankings(S) ==
  {o \in [1 .. Cardinality(S) -> S] :
     \A i, j \in DOMAIN o : i < j => o[i] # o[j] /\ Total(o[i]) >= Total(o[j])}

\* Mutant: scores that are not approved are not left out.
CountedEntered == {s \in Students : scores[s].mark # 0}

Counted == {s \in Students : scores[s].approved}

\* Mutant: positions are counted from the lowest total.
StudentTotalsAscending(order) ==
  [i \in DOMAIN order |->
     [student |-> order[i], total |-> Total(order[i]),
      position |-> Len(order) + 1 - i, of |-> Len(order)]]

StudentTotals(order) ==
  [i \in DOMAIN order |->
     [student |-> order[i], total |-> Total(order[i]),
      position |-> i, of |-> Len(order)]]

CalculateResults_Read(h) ==
  /\ local[h] = Idle
  /\ Counted # {}
  /\ \E order \in Rankings(Counted) :
       Goto(h, [Idle EXCEPT !.op = "scales", !.todo = StudentTotals(order)])
  /\ UNCHANGED <<load, scores, scales, released, results, lines, cards, faults>>

\* A failed lookup of the class ends the calculation; one of the scales
\* leaves it without any.
CalculateResults_Scales(h) ==
  LET go(q) == Goto(h, [local[h] EXCEPT !.op = "find", !.bands = q])
  IN /\ local[h].op = "scales"
     /\ \/ (\E q \in Sorted(scales) : go(q)) /\ UNCHANGED faults
        \/ Fault /\ (go(<<>>) \/ Goto(h, Idle))
     /\ UNCHANGED <<load, scores, scales, released, results, lines, cards>>

\* FirstOrInit; its error is not looked at, so a failed lookup is a new row.
CalculateResults_Find(h) ==
  LET mine == RowsOf(Head(local[h].todo).student)
      go(row, id) == Goto(h, [local[h] EXCEPT !.op = "save", !.row = row, !.id = id])
  IN /\ local[h].op = "find"
     /\ \/ /\ \E id \in mine : (\A other \in mine : id <= other) /\ go(results[id], id)
           /\ UNCHANGED faults
        \/ mine = {} /\ go(NoRow, -1) /\ UNCHANGED faults
        \/ Fault /\ go(NoRow, -1)
     /\ UNCHANGED <<load, scores, scales, released, results, lines, cards>>

\* Mutant: a new row is filled in instead of the one that was found.
FilledAnew(row, st) ==
  [NoRow EXCEPT !.student = st.student, !.total = st.total,
                !.position = st.position, !.of = st.of]

\* Mutant: the student is not filled in.
FilledNobody(row, st) ==
  [row EXCEPT !.total = st.total, !.position = st.position, !.of = st.of]

Filled(row, st) ==
  [row EXCEPT !.student = st.student, !.total = st.total,
              !.position = st.position, !.of = st.of]

\* Save writes every column, those the calculation does not compute as read.
CalculateResults_Save(h) ==
  LET row == Filled(local[h].row, Head(local[h].todo))
      saved(id) == /\ results' = [results EXCEPT ![id] = row]
                   /\ Goto(h, [local[h] EXCEPT !.op = "findLine", !.id = id, !.row = NoRow])
  IN /\ local[h].op = "save"
     /\ \/ local[h].id # -1 /\ saved(local[h].id) /\ UNCHANGED faults
        \/ local[h].id = -1 /\ (\E id \in Ids \ Rows : saved(id)) /\ UNCHANGED faults
        \/ Fault /\ Goto(h, Idle) /\ UNCHANGED results
     /\ UNCHANGED <<load, scores, scales, released, lines, cards>>

CalculateResults_FindLine(h) ==
  LET found == lines[local[h].id] # <<>>
      go(line) == Goto(h, [local[h] EXCEPT !.op = "saveLine", !.line = line])
  IN /\ local[h].op = "findLine"
     /\ \/ found /\ go(1) /\ UNCHANGED faults
        \/ ~found /\ go(0) /\ UNCHANGED faults
        \/ Fault /\ go(0)
     /\ UNCHANGED <<load, scores, scales, released, results, lines, cards>>

\* A line that was found is filled in, a new one is added; with random ids
\* it may come before or after those that are there.
CalculateResults_SaveLine(h) ==
  LET id == local[h].id
      total == Head(local[h].todo).total
      rest == Tail(local[h].todo)
      next == IF rest = <<>> THEN Idle
              ELSE [Idle EXCEPT !.op = "find", !.todo = rest, !.bands = local[h].bands]
      saved(line) ==
        \/ local[h].line = 1 /\ lines' = [lines EXCEPT ![id][1] = line]
        \/ local[h].line = 0 /\ lines' = [lines EXCEPT ![id] = <<line>> \o @]
        \/ local[h].line = 0 /\ lines' = [lines EXCEPT ![id] = @ \o <<line>>]
  IN /\ local[h].op = "saveLine"
     /\ \/ /\ \E grade \in Grades : /\ calculateGrade(total, local[h].bands, grade)
                                    /\ saved([total |-> total, grade |-> grade])
           /\ Goto(h, next) /\ UNCHANGED faults
        \/ Fault /\ Goto(h, Idle) /\ UNCHANGED lines
     /\ UNCHANGED <<load, scores, scales, released, results, cards>>

-----------------------------------------------------------------------------
(* Publishing, and the remarks of teachers, administrators and the owner. *)

PublishResults_Write(h) ==
  /\ local[h] = Idle
  /\ results' = [r \in Ids |-> IF r \in Rows THEN [results[r] EXCEPT !.published = TRUE]
                               ELSE results[r]]
  /\ Goto(h, [Idle EXCEPT !.op = "publishRead"])
  /\ UNCHANGED <<load, scores, scales, released, lines, cards, faults>>

Published == {r \in Rows : results[r].published}

\* The lookup's error and those of the queue are not looked at.
PublishResults_Enqueue(h) ==
  /\ local[h].op = "publishRead"
  /\ \/ cards' = cards \cup Published /\ UNCHANGED faults
     \/ \E some \in SUBSET Published : cards' = cards \cup some /\ Fault
  /\ Goto(h, Idle)
  /\ UNCHANGED <<load, scores, scales, released, results, lines>>

UpdateRemarks(h, r) ==
  /\ local[h] = Idle
  /\ results' = [results EXCEPT ![r].remark = TRUE]
  /\ UNCHANGED <<load, scores, scales, released, lines, cards, local, faults>>

\* The owner's edit: the same columns, of any result.
OverrideResult(h, r) == UpdateRemarks(h, r)

-----------------------------------------------------------------------------
(* HandleGenerateReportCard: reads the result, reads its lines, renders, and *)
(* updates generated_at.  A task that fails stays in the queue.              *)

HandleGenerateReportCard_Read(w, r) ==
  /\ local[w] = Idle
  /\ r \in cards
  /\ Goto(w, [Idle EXCEPT !.op = "card", !.row = results[r], !.id = r])
  /\ UNCHANGED <<load, scores, scales, released, results, lines, cards, faults>>

\* picked: the lines printed on the card.
HandleGenerateReportCard_Lines(w) ==
  LET r == local[w].id
  IN /\ local[w].op = "card"
     /\ Goto(w, [local[w] EXCEPT !.op = "cardWrite",
                   !.picked = {lines[r][i] : i \in DOMAIN lines[r]}])
     /\ UNCHANGED <<load, scores, scales, released, results, lines, cards, faults>>

\* Rendering may fail; the error of the update is not looked at.
HandleGenerateReportCard_Write(w) ==
  LET r == local[w].id
  IN /\ local[w].op = "cardWrite"
     /\ \/ /\ results' = [results EXCEPT ![r].generated = TRUE]
           /\ cards' = cards \ {r}
           /\ UNCHANGED faults
        \/ Fault /\ UNCHANGED <<results, cards>>
        \/ Fault /\ cards' = cards \ {r} /\ UNCHANGED results
     /\ Goto(w, Idle)
     /\ UNCHANGED <<load, scores, scales, released, lines>>

-----------------------------------------------------------------------------
Init ==
  /\ load \in Loads
  /\ scores = [s \in Students |-> [mark |-> 0, approved |-> FALSE]]
  /\ scales = {}
  /\ released = [s \in Students |-> {}]
  /\ results = [r \in Ids |-> NoRow]
  /\ lines = [r \in Ids |-> <<>>]
  /\ cards = {}
  /\ local = [g \in Handlers \cup Workers |-> Idle]
  /\ faults = 0

Next ==
  \/ \E s \in load.students : EnterScore(s) \/ ApproveScore(s) \/ RejectScore(s)
  \/ \E h \in load.handlers :
       \/ \E new \in load.scales : UpsertGradingScales_Delete(h, new)
       \/ UpsertGradingScales_Create(h)
       \/ CalculateResults_Read(h) \/ CalculateResults_Scales(h)
       \/ CalculateResults_Find(h) \/ CalculateResults_Save(h)
       \/ CalculateResults_FindLine(h) \/ CalculateResults_SaveLine(h)
       \/ load.office /\ PublishResults_Write(h)
       \/ PublishResults_Enqueue(h)
       \/ load.office /\ \E r \in Rows : UpdateRemarks(h, r) \/ OverrideResult(h, r)
  \/ \E w \in load.workers :
       \/ \E r \in Ids : HandleGenerateReportCard_Read(w, r)
       \/ HandleGenerateReportCard_Lines(w) \/ HandleGenerateReportCard_Write(w)

Spec == Init /\ [][Next]_vars

-----------------------------------------------------------------------------
(* Properties. *)

Line == [total : Marks, grade : Grades]
Todo == [student : Students, total : Marks, position : Nat, of : Nat]
Ops == {"idle", "createScale", "scales", "find", "save", "findLine", "saveLine", "publishRead", "card", "cardWrite"}

\* Requests come one at a time and their statements succeed.
Serial == Cardinality(load.handlers) = 1 /\ faults = 0

\* A row that does not exist is empty, has no lines and no task.
TypeOK ==
  /\ load \in Loads
  /\ scores \in [Students -> [mark : Marks \cup {0}, approved : BOOLEAN]]
  /\ scales \subseteq Bands
  /\ released \in [Students -> SUBSET Marks]
  /\ results \in [Ids -> Row]
  /\ \A r \in Ids \ Rows : results[r] = NoRow /\ lines[r] = <<>> /\ r \notin cards
  /\ lines \in [Ids -> Seq(Line)]
  /\ cards \subseteq Ids
  /\ local \in [Handlers \cup Workers ->
                  [op : Ops, todo : Seq(Todo), bands : Seq(Bands), row : Row,
                   id : Ids \cup {-1}, line : {0, 1}, picked : SUBSET Line]]
  /\ faults \in Nat

\* CalculateResults, results.go:31-35: whatever overlaps or fails, a result and
\* its lines show marks that were approved at some time, never a draft.
OnlyApprovedMarks ==
  \A r \in Rows :
    /\ results[r].total \in released[results[r].student]
    /\ \A i \in DOMAIN lines[r] : lines[r][i].total \in released[results[r].student]

\* results.go:94-102: between such requests the class positions of the results
\* are a ranking of their totals, as long as no approved mark is sent back.
RankingConsistent ==
  /\ Serial /\ load.returnable = {}
  /\ \A h \in Handlers : local[h] = Idle
  => \A r, q \in Rows : r # q =>
       /\ results[r].position # results[q].position
       /\ results[r].total > results[q].total => results[r].position < results[q].position
       /\ results[r].of = results[q].of

\* UpsertGradingScales, settings.go:173-186, and CalculateResults,
\* services/results.go:48-51 and 197: whatever calculations and new scales
\* overlap or fail, a mark has the grade of a band that was sent and holds it,
\* or an F.  Served one at a time, the whole class is graded by one whole scale.
GradedByWholeScale ==
  /\ \A r \in Rows : \A line \in Range(lines[r]) :
       \/ line.grade = "F"
       \/ \E q \in load.scales : \E b \in Range(q) : Holds(b, line.total) /\ line.grade = b.grade
  /\ Serial /\ load.returnable = {} /\ (\A h \in Handlers : local[h] = Idle) =>
       \E q \in load.scales \cup {<<>>} : \E bands \in Sorted(Range(q)) :
         \A r \in Rows : \A line \in Range(lines[r]) :
           calculateGrade(line.total, bands, line.grade)

\* PublishResults, services/results.go:295, and UpdateRemarks, handlers/results.go:145: a result
\* stays published and keeps its remark, whatever is calculated afterwards,
\* unless requests overlap.
HandWorkKept ==
  [][Serial => \A r \in Ids :
       /\ results[r].published => results'[r].published
       /\ results[r].remark => results'[r].remark]_vars

===============================================================================
