---------------------------- MODULE ResultsProofs ----------------------------
(***************************************************************************)
(* What holds of the results of a class for any students, marks, rows,     *)
(* requests, workers and failures.  The first part is about every load:    *)
(* types, that no mark reaches a result before it was approved, and that   *)
(* its grade comes from a band that was sent.  The second is about         *)
(* requests that come one at a time and do not fail: what people wrote     *)
(* into a result is kept, positions are a ranking and one whole scale      *)
(* grades the class.  It needs what a calculation knows half way: the      *)
(* students it is done with are ranked, before those to come, and graded   *)
(* by the bands it holds.                                                  *)
(***************************************************************************)
EXTENDS Results, TLAPS, FiniteSetTheorems, SequenceTheorems

Goroutines == Handlers \cup Workers

Local == [op : Ops, todo : Seq(Todo), bands : Seq(Bands), row : Row,
          id : Ids \cup {-1}, line : {0, 1}, picked : SUBSET Line]

Calculating == {"scales", "find", "save", "findLine", "saveLine"}

Sent == UNION {Range(q) : q \in load.scales}

\* What a goroutine relies on between its steps: the marks it works on were
\* approved, the bands it holds were sent, and the row it looked up is of the
\* student it looked for, for good.
Held(rec) ==
  /\ \A i \in DOMAIN rec.todo : rec.todo[i].total \in released[rec.todo[i].student]
  /\ Range(rec.bands) \subseteq Sent
  /\ rec.op = "createScale" => rec.bands # <<>>
  /\ rec.op \in Calculating => rec.todo # <<>>
  /\ rec.op = "save" /\ rec.id # -1 => results[rec.id].student = rec.todo[1].student
  /\ rec.op \in {"findLine", "saveLine"} =>
       rec.id # -1 /\ results[rec.id].student = rec.todo[1].student
  /\ rec.op = "saveLine" /\ rec.line = 1 => lines[rec.id] # <<>>
  /\ rec.op \in {"card", "cardWrite"} => rec.id \in Rows

Doing ==
  /\ local \in [Goroutines -> Local]
  /\ \A g \in Goroutines : Held(local[g])

DataTypes ==
  /\ load \in Loads
  /\ scores \in [Students -> [mark : Marks \cup {0}, approved : BOOLEAN]]
  /\ scales \subseteq Bands
  /\ released \in [Students -> SUBSET Marks]
  /\ results \in [Ids -> Row]
  /\ \A r \in Ids \ Rows : results[r] = NoRow /\ lines[r] = <<>> /\ r \notin cards
  /\ lines \in [Ids -> Seq(Line)]
  /\ cards \subseteq Ids
  /\ faults \in Nat

ApprovedReleased ==
  \A s \in Students : scores[s].approved => scores[s].mark \in released[s]

ScalesSent == IsFiniteSet(scales) /\ scales \subseteq Sent

GradesSent ==
  \A r \in Rows : \A line \in Range(lines[r]) :
    \/ line.grade = "F"
    \/ \E b \in Sent : Holds(b, line.total) /\ line.grade = b.grade

Data == DataTypes /\ ApprovedReleased /\ ScalesSent /\ OnlyApprovedMarks /\ GradesSent

IInv == Data /\ Doing

\* What no step undoes, and what a goroutine relies on rests on.
Steady ==
  /\ load' = load
  /\ \A r \in Rows : results'[r].student = results[r].student
  /\ \A r \in Ids : lines[r] # <<>> => lines'[r] # <<>>
  /\ \A s \in Students : released[s] \subseteq released'[s]

-----------------------------------------------------------------------------
(* Goroutines. *)

LEMMA TypeParts == TypeOK <=> DataTypes /\ local \in [Goroutines -> Local]
BY DEF TypeOK, DataTypes, Goroutines, Local

LEMMA LoadFacts ==
  ASSUME DataTypes
  PROVE  /\ load.students \subseteq Students /\ load.handlers \subseteq Goroutines
         /\ load.workers \subseteq Goroutines /\ load.scales \subseteq Scales
         /\ load.handlers \subseteq Handlers
         /\ Sent \subseteq Bands /\ load.faults \in Nat
<1>1. load \in [students : SUBSET Students, returnable : SUBSET Students,
                scales : SUBSET Scales, office : BOOLEAN, handlers : SUBSET Handlers,
                workers : SUBSET Workers, faults : Nat]
  BY ResultsAssumption DEF DataTypes
<1> QED BY <1>1 DEF Goroutines, Sent, Bands

LEMMA RowFacts ==
  /\ NoRow \in Row /\ NoRow.student = NoStudent
  /\ ~NoRow.published /\ ~NoRow.remark
BY DEF NoRow, Row

LEMMA IdleHeld == Idle \in Local /\ Held(Idle) /\ Idle.op = "idle"
<1>1. Idle \in Local
  BY RowFacts DEF Idle, Local, Ops
<1> QED BY <1>1 DEF Idle, Held, Range, Calculating

\* What a goroutine relies on stays true while others move.
LEMMA HeldOn ==
  ASSUME Data, Steady, NEW rec \in Local, Held(rec)
  PROVE  Held(rec)'
<1>1. Sent' = Sent
  BY DEF Steady, Sent
<1>2. \A i \in DOMAIN rec.todo : rec.todo[i] \in Todo
  BY DEF Local
<1>3. \A i \in DOMAIN rec.todo : rec.todo[i].total \in released'[rec.todo[i].student]
  BY <1>2 DEF Held, Steady, Todo
<1>4. rec.op \in Calculating => rec.todo[1].student \in Students
  <2>1. rec.todo \in Seq(Todo)
    BY DEF Local
  <2>2. rec.todo # <<>> => rec.todo[1] \in Todo
    BY <2>1
  <2> QED BY <2>2 DEF Held, Todo
<1>5. \A r \in Ids : results[r].student # NoStudent => results'[r].student = results[r].student
  BY DEF Steady, Rows
<1>6. rec.id # -1 => rec.id \in Ids
  BY DEF Local
<1>7. rec.op = "save" /\ rec.id # -1 => results'[rec.id].student = rec.todo[1].student
  BY <1>4, <1>5, <1>6, ResultsAssumption DEF Held, Calculating
<1>8. rec.op \in {"findLine", "saveLine"} =>
        rec.id # -1 /\ results'[rec.id].student = rec.todo[1].student
  BY <1>4, <1>5, <1>6, ResultsAssumption DEF Held, Calculating
<1>9. rec.op \in {"card", "cardWrite"} => rec.id \in Rows'
  BY <1>5 DEF Held, Rows
<1>10. rec.op = "saveLine" /\ rec.line = 1 => lines'[rec.id] # <<>>
  BY <1>6 DEF Held, Steady
<1> QED BY <1>1, <1>3, <1>7, <1>8, <1>9, <1>10 DEF Held

LEMMA DoingStays ==
  ASSUME IInv, Steady, UNCHANGED local
  PROVE  Doing'
<1>1. ASSUME NEW g \in Goroutines PROVE Held(local[g])'
  <2>1. local[g] \in Local /\ Held(local[g]) /\ local'[g] = local[g]
    BY DEF IInv, Doing
  <2> QED BY <2>1, HeldOn DEF IInv, Held
<1> QED BY <1>1 DEF IInv, Doing

LEMMA DoingMoves ==
  ASSUME IInv, Steady, NEW g \in Goroutines, NEW rec \in Local, Held(rec)', Goto(g, rec)
  PROVE  Doing'
<1>1. local' = [local EXCEPT ![g] = rec] /\ local \in [Goroutines -> Local]
  BY DEF IInv, Doing, Goto
<1>2. ASSUME NEW q \in Goroutines PROVE Held(local[q])'
  <2>1. CASE q = g
    <3>1. local'[q] = rec
      BY <1>1, <2>1
    <3> QED BY <3>1 DEF Held
  <2>2. CASE q # g
    <3>1. local'[q] = local[q] /\ local[q] \in Local /\ Held(local[q])
      BY <1>1, <2>2 DEF IInv, Doing
    <3> QED BY <3>1, HeldOn DEF IInv, Held
  <2> QED BY <2>1, <2>2
<1>3. local' \in [Goroutines -> Local]
  BY <1>1
<1> QED BY <1>2, <1>3 DEF Doing

LEMMA DataStays ==
  ASSUME Data, UNCHANGED <<load, scores, scales, released, results, lines, cards>>,
         faults' \in Nat
  PROVE  Data' /\ Steady
<1>1. Rows' = Rows /\ Sent' = Sent
  BY DEF Rows, Sent
<1>2. DataTypes'
  BY <1>1 DEF Data, DataTypes
<1>3. ApprovedReleased' /\ ScalesSent' /\ OnlyApprovedMarks' /\ GradesSent'
  BY <1>1 DEF Data, ApprovedReleased, ScalesSent, OnlyApprovedMarks, GradesSent
<1>4. Steady
  BY DEF Steady
<1> QED BY <1>2, <1>3, <1>4 DEF Data

LEMMA FaultType ==
  ASSUME Data, Fault \/ UNCHANGED faults
  PROVE  faults' \in Nat /\ (faults' = 0 => UNCHANGED faults)
BY DEF Data, DataTypes, Fault

-----------------------------------------------------------------------------
(* The beginning, the score sheet and the grading scales. *)

LEMMA InitIInv == Init => IInv
<1> SUFFICES ASSUME Init PROVE IInv
  OBVIOUS
<1>1. Rows = {}
  BY RowFacts DEF Init, Rows
<1>2. DataTypes
  BY <1>1, RowFacts DEF Init, DataTypes
<1>3. ApprovedReleased /\ OnlyApprovedMarks /\ GradesSent
  BY <1>1 DEF Init, ApprovedReleased, OnlyApprovedMarks, GradesSent
<1>4. ScalesSent
  BY FS_EmptySet DEF Init, ScalesSent
<1>5. Doing
  BY IdleHeld DEF Init, Doing, Goroutines
<1> QED BY <1>2, <1>3, <1>4, <1>5 DEF IInv, Data

LEMMA SheetSteps ==
  ASSUME IInv, NEW s \in load.students, EnterScore(s) \/ ApproveScore(s) \/ RejectScore(s)
  PROVE  IInv'
<1>1. Data /\ DataTypes /\ s \in Students
  BY LoadFacts DEF IInv, Data
<1>2. UNCHANGED <<load, scales, results, lines, cards, local, faults>>
  BY DEF EnterScore, ApproveScore, RejectScore
<1>3. /\ scores' \in [Students -> [mark : Marks \cup {0}, approved : BOOLEAN]]
      /\ released' \in [Students -> SUBSET Marks]
      /\ \A t \in Students : released[t] \subseteq released'[t]
      /\ ApprovedReleased'
  <2> USE DEF DataTypes, ApprovedReleased, Data
  <2>1. CASE EnterScore(s)
    BY <1>1, <2>1 DEF EnterScore
  <2>2. CASE ApproveScore(s)
    <3>1. scores[s].mark \in Marks
      BY <1>1, <2>2 DEF ApproveScore
    <3> QED BY <1>1, <2>2, <3>1, ZenonT(60) DEF ApproveScore
  <2>3. CASE RejectScore(s)
    BY <1>1, <2>3, ZenonT(60) DEF RejectScore
  <2> QED BY <2>1, <2>2, <2>3
<1>4. Steady
  BY <1>2, <1>3 DEF Steady
<1>5. Rows' = Rows /\ Sent' = Sent
  BY <1>2 DEF Rows, Sent
<1>6. DataTypes'
  BY <1>1, <1>2, <1>3, <1>5 DEF DataTypes
<1>7. OnlyApprovedMarks'
  <2>1. \A r \in Rows : results[r].student \in Students
    BY <1>1 DEF DataTypes, Rows, Row
  <2> QED BY <1>1, <1>2, <1>3, <1>5, <2>1 DEF OnlyApprovedMarks, Data
<1>8. ScalesSent' /\ GradesSent'
  BY <1>1, <1>2, <1>5 DEF ScalesSent, GradesSent, Data
<1>9. Doing'
  BY <1>2, <1>4, DoingStays
<1> QED BY <1>3, <1>6, <1>7, <1>8, <1>9 DEF IInv, Data

\* The scales may change to any of those sent.
LEMMA ScalesMove ==
  ASSUME IInv, UNCHANGED <<load, scores, released, results, lines, cards>>,
         faults' \in Nat, ScalesSent'
  PROVE  Data' /\ Steady
<1>1. Rows' = Rows /\ Sent' = Sent
  BY DEF Rows, Sent
<1>2. DataTypes'
  BY <1>1, LoadFacts DEF IInv, Data, DataTypes, ScalesSent
<1>3. ApprovedReleased' /\ OnlyApprovedMarks' /\ GradesSent'
  BY <1>1 DEF IInv, Data, ApprovedReleased, OnlyApprovedMarks, GradesSent
<1>4. Steady
  BY DEF Steady
<1> QED BY <1>2, <1>3, <1>4 DEF Data

LEMMA CreateMoves ==
  ASSUME IInv, Data', Steady, NEW h \in Goroutines, NEW bands \in Seq(Bands),
         Range(bands) \subseteq Sent, Create(h, bands)
  PROVE  IInv'
<1> DEFINE rec == IF bands = <<>> THEN Idle
                  ELSE [Idle EXCEPT !.op = "createScale", !.bands = bands]
<1>1. Goto(h, rec)
  BY DEF Create
<1>2. rec \in Local
  BY IdleHeld DEF Idle, Local, Ops
<1>3. Sent' = Sent
  BY DEF Steady, Sent
<1>4. Held(rec)'
  <2>1. CASE bands = <<>>
    BY <2>1, IdleHeld, HeldOn DEF IInv, Held
  <2>2. CASE bands # <<>>
    BY <1>3, <2>2 DEF Idle, Held, Calculating
  <2> QED BY <2>1, <2>2
<1> HIDE DEF rec
<1> QED BY <1>1, <1>2, <1>4, DoingMoves DEF IInv

LEMMA TailRange ==
  ASSUME NEW S, NEW q \in Seq(S), q # <<>>
  PROVE  /\ Head(q) = q[1] /\ q[1] \in S /\ Tail(q) \in Seq(S) /\ q[1] \in Range(q)
         /\ Range(Tail(q)) \subseteq Range(q) /\ Range(q) \subseteq S
         /\ \A i \in DOMAIN Tail(q) : i + 1 \in DOMAIN q /\ Tail(q)[i] = q[i + 1]
<1>1. Len(q) \in Nat \ {0} /\ DOMAIN q = 1..Len(q)
  OBVIOUS
<1>2. Tail(q) \in Seq(S) /\ Len(Tail(q)) = Len(q) - 1
  OBVIOUS
<1>3. \A i \in DOMAIN Tail(q) : i + 1 \in DOMAIN q /\ Tail(q)[i] = q[i + 1]
  BY <1>1, <1>2
<1> QED BY <1>1, <1>2, <1>3 DEF Range

LEMMA DeleteScales ==
  ASSUME IInv, NEW h \in load.handlers, NEW new \in load.scales,
         UpsertGradingScales_Delete(h, new)
  PROVE  IInv'
<1>1. h \in Goroutines /\ new \in Seq(Bands) /\ Range(new) \subseteq Sent
  <2>1. h \in Goroutines /\ new \in Scales /\ Range(new) \subseteq Sent
    BY LoadFacts DEF IInv, Data, Sent
  <2>2. new \in Seq([grade : STRING, min : Nat, max : Nat])
    BY <2>1, ResultsAssumption
  <2>3. \A i \in 1..Len(new) : new[i] \in Bands
    BY <2>1, <2>2 DEF Bands, Range
  <2> QED BY <2>1, <2>2, <2>3
<1>2. faults' \in Nat
  BY FaultType DEF UpsertGradingScales_Delete, IInv
<1>3. ScalesSent'
  <2>1. Sent' = Sent
    BY DEF UpsertGradingScales_Delete, Sent
  <2> QED BY <2>1, FS_EmptySet DEF UpsertGradingScales_Delete, ScalesSent, IInv, Data
<1>4. Data' /\ Steady
  BY <1>2, <1>3, ScalesMove DEF UpsertGradingScales_Delete
<1> QED BY <1>1, <1>4, CreateMoves DEF UpsertGradingScales_Delete

LEMMA CreateScale ==
  ASSUME IInv, NEW h \in load.handlers, UpsertGradingScales_Create(h)
  PROVE  IInv'
<1> DEFINE bands == local[h].bands
<1>1. h \in Goroutines
  BY LoadFacts DEF IInv, Data
<1>2. bands \in Seq(Bands) /\ bands # <<>> /\ Range(bands) \subseteq Sent
  BY <1>1 DEF IInv, Doing, Local, Held, UpsertGradingScales_Create
<1>3. /\ Head(bands) \in Sent /\ Tail(bands) \in Seq(Bands)
      /\ Range(Tail(bands)) \subseteq Sent
  BY <1>2, TailRange
<1>4. faults' \in Nat
  BY FaultType DEF UpsertGradingScales_Create, IInv
<1>5. ScalesSent'
  <2>1. Sent' = Sent
    BY DEF UpsertGradingScales_Create, Sent
  <2>2. scales' = scales \/ scales' = scales \cup {Head(bands)}
    BY DEF UpsertGradingScales_Create
  <2> QED BY <1>3, <2>1, <2>2, FS_AddElement DEF ScalesSent, IInv, Data
<1>6. Data' /\ Steady
  BY <1>4, <1>5, ScalesMove DEF UpsertGradingScales_Create
<1>7. Create(h, Tail(bands))
  BY DEF UpsertGradingScales_Create
<1> HIDE DEF bands
<1> QED BY <1>1, <1>3, <1>6, <1>7, CreateMoves

-----------------------------------------------------------------------------
(* The steps of a calculation. *)

\* The totals that are read, best first: approved marks, once each.
LEMMA TotalsRead ==
  ASSUME Data, Counted # {}, NEW order \in Rankings(Counted)
  PROVE  /\ StudentTotals(order) \in Seq(Todo) /\ StudentTotals(order) # <<>>
         /\ Len(order) = Cardinality(Counted) /\ Len(order) \in Nat \ {0}
         /\ order \in [1..Len(order) -> Counted] /\ DOMAIN StudentTotals(order) = 1..Len(order)
         /\ \A i \in 1..Len(order) :
              /\ order[i] \in Students
              /\ StudentTotals(order)[i].student = order[i]
              /\ StudentTotals(order)[i].total = Total(order[i])
              /\ StudentTotals(order)[i].position = i
              /\ StudentTotals(order)[i].of = Len(order)
              /\ Total(order[i]) \in released[order[i]]
<1> DEFINE n == Cardinality(Counted)
<1>1. Counted \subseteq Students /\ IsFiniteSet(Counted)
  BY FS_Subset, ResultsAssumption DEF Counted
<1>2. n \in Nat /\ n # 0
  BY <1>1, FS_CardinalityType, FS_EmptySet
<1>3. order \in [1..n -> Counted]
  BY DEF Rankings
<1>4. Len(order) = n /\ DOMAIN order = 1..n
  BY <1>2, <1>3
<1> HIDE DEF n
<1>5. \A s \in Counted : Total(s) \in released[s] /\ Total(s) \in Marks
  BY <1>1 DEF Counted, Total, Data, ApprovedReleased, DataTypes
<1>6. \A i \in 1..n : StudentTotals(order)[i] \in Todo
  BY <1>1, <1>2, <1>3, <1>4, <1>5 DEF StudentTotals, Todo
<1>7. /\ StudentTotals(order) = [i \in 1..n |-> StudentTotals(order)[i]]
      /\ DOMAIN StudentTotals(order) = 1..n
  BY <1>4 DEF StudentTotals
<1>8. StudentTotals(order) \in [1..n -> Todo]
  BY <1>6, <1>7
<1>9. StudentTotals(order) \in Seq(Todo) /\ StudentTotals(order) # <<>>
  BY <1>2, <1>8
<1> QED BY <1>1, <1>2, <1>3, <1>4, <1>5, <1>7, <1>9 DEF StudentTotals, n

LEMMA ReadTotals ==
  ASSUME IInv, NEW h \in load.handlers, CalculateResults_Read(h)
  PROVE  IInv'
<1>1. h \in Goroutines /\ Data
  BY LoadFacts DEF IInv, Data
<1>2. PICK order \in Rankings(Counted) :
        Goto(h, [Idle EXCEPT !.op = "scales", !.todo = StudentTotals(order)])
  BY DEF CalculateResults_Read
<1>0. PICK rec : rec = [Idle EXCEPT !.op = "scales", !.todo = StudentTotals(order)]
  OBVIOUS
<1>3. Counted # {} /\ UNCHANGED <<load, scores, scales, released, results, lines, cards, faults>>
  BY DEF CalculateResults_Read
<1>4. Data' /\ Steady
  BY <1>1, <1>3, DataStays DEF Data, DataTypes
<1>5. rec \in Local
  BY <1>0, <1>1, <1>3, TotalsRead, IdleHeld DEF Idle, Local, Ops
<1>6. Held(rec)'
  <2>1. \A i \in DOMAIN rec.todo : rec.todo[i].total \in released'[rec.todo[i].student]
    <3>1. rec.todo = StudentTotals(order)
      BY <1>0 DEF Idle
    <3>2. \A i \in DOMAIN rec.todo :
            /\ rec.todo[i].student = order[i] /\ rec.todo[i].total = Total(order[i])
            /\ Total(order[i]) \in released[order[i]]
      BY <1>1, <1>3, <3>1, TotalsRead
    <3> QED BY <1>3, <3>2
  <2>2. rec.todo # <<>>
    BY <1>0, <1>1, <1>3, TotalsRead DEF Idle
  <2> QED BY <1>0, <2>1, <2>2 DEF Held, Idle, Range, Calculating
<1> QED BY <1>0, <1>1, <1>2, <1>4, <1>5, <1>6, DoingMoves DEF IInv

\* What a calculation has before each of its steps.
LEMMA CalculatingFacts ==
  ASSUME IInv, NEW h \in Goroutines, local[h].op \in Calculating
  PROVE  /\ Data /\ DataTypes
         /\ local[h] \in Local /\ Held(local[h])
         /\ local[h].todo \in Seq(Todo) /\ local[h].todo # <<>> /\ local[h].bands \in Seq(Bands)
         /\ Head(local[h].todo) = local[h].todo[1] /\ local[h].todo[1] \in Todo
         /\ local[h].todo[1].student \in Students /\ local[h].todo[1].student # NoStudent
         /\ local[h].todo[1].total \in released[local[h].todo[1].student]
         /\ Tail(local[h].todo) \in Seq(Todo)
         /\ \A i \in DOMAIN Tail(local[h].todo) :
              Tail(local[h].todo)[i].total \in released[Tail(local[h].todo)[i].student]
<1>1. local[h] \in Local /\ Held(local[h]) /\ Data /\ DataTypes
  BY DEF IInv, Doing, Data
<1>2. local[h].todo \in Seq(Todo) /\ local[h].todo # <<>> /\ local[h].bands \in Seq(Bands)
  BY <1>1 DEF Local, Held
<1>3. /\ Head(local[h].todo) = local[h].todo[1] /\ local[h].todo[1] \in Todo
      /\ Tail(local[h].todo) \in Seq(Todo)
      /\ \A i \in DOMAIN Tail(local[h].todo) :
           /\ i + 1 \in DOMAIN local[h].todo
           /\ Tail(local[h].todo)[i] = local[h].todo[i + 1]
  BY <1>2, TailRange
<1>4. 1 \in DOMAIN local[h].todo
  BY <1>2
<1> QED BY <1>1, <1>2, <1>3, <1>4, ResultsAssumption DEF Held, Todo

\* The bands read are some of those sent, from the highest down.
LEMMA BandsRead ==
  ASSUME Data, NEW q \in Sorted(scales)
  PROVE  /\ q \in Seq(Bands) /\ Range(q) \subseteq scales
         /\ Range(q) \subseteq Sent
<1> DEFINE n == Cardinality(scales)
<1>1. n \in Nat /\ scales \subseteq Bands /\ scales \subseteq Sent
  BY FS_CardinalityType DEF Data, ScalesSent, DataTypes
<1>2. q \in [1..n -> scales]
  BY DEF Sorted
<1> HIDE DEF n
<1> QED BY <1>1, <1>2 DEF Range

LEMMA ReadScales ==
  ASSUME IInv, NEW h \in load.handlers, CalculateResults_Scales(h)
  PROVE  IInv'
<1>1. h \in Goroutines /\ local[h].op = "scales" /\ local[h].op \in Calculating
  BY LoadFacts DEF IInv, Data, CalculateResults_Scales, Calculating
<1>2. Data' /\ Steady
  <2>1. faults' \in Nat
    BY FaultType DEF CalculateResults_Scales, IInv
  <2> QED BY <2>1, DataStays DEF CalculateResults_Scales, IInv
<1>3. CASE Goto(h, Idle)
  <2>1. Held(Idle)'
    BY <1>2, IdleHeld, HeldOn DEF IInv
  <2> QED BY <1>1, <1>2, <1>3, <2>1, IdleHeld, DoingMoves DEF IInv
<1>4. ASSUME NEW q \in Seq(Bands), Range(q) \subseteq Sent,
             Goto(h, [local[h] EXCEPT !.op = "find", !.bands = q])
      PROVE  IInv'
  <2>0. PICK rec : rec = [local[h] EXCEPT !.op = "find", !.bands = q]
    OBVIOUS
  <2>1. rec \in Local
    BY <2>0, <1>1, CalculatingFacts, ZenonT(60) DEF Local, Ops
  <2>2. Held(rec)
    BY <1>1, <1>4, CalculatingFacts, <2>0 DEF Held, Calculating, Local
  <2>3. Held(rec)'
    BY <1>2, <2>1, <2>2, HeldOn DEF IInv
  <2> QED BY <2>0, <1>1, <1>2, <1>4, <2>1, <2>3, DoingMoves DEF IInv
<1>5. <<>> \in Seq(Bands) /\ Range(<<>>) \subseteq Sent
  BY DEF Range
<1> QED BY <1>3, <1>4, <1>5, BandsRead DEF CalculateResults_Scales, IInv

LEMMA FindRow ==
  ASSUME IInv, NEW h \in load.handlers, CalculateResults_Find(h)
  PROVE  IInv'
<1>1. h \in Goroutines /\ local[h].op = "find" /\ local[h].op \in Calculating
  BY LoadFacts DEF IInv, Data, CalculateResults_Find, Calculating
<1>2. Data' /\ Steady
  <2>1. faults' \in Nat
    BY FaultType DEF CalculateResults_Find, IInv
  <2> QED BY <2>1, DataStays DEF CalculateResults_Find, IInv
<1>3. ASSUME NEW row \in Row, NEW id \in Ids \cup {-1},
             id # -1 => results[id].student = local[h].todo[1].student,
             Goto(h, [local[h] EXCEPT !.op = "save", !.row = row, !.id = id])
      PROVE  IInv'
  <2>0. PICK rec : rec = [local[h] EXCEPT !.op = "save", !.row = row, !.id = id]
    OBVIOUS
  <2>1. rec \in Local
    BY <2>0, <1>1, CalculatingFacts, ZenonT(60) DEF Local, Ops
  <2>2. Held(rec)
    BY <1>1, <1>3, CalculatingFacts, <2>0 DEF Held, Calculating, Local
  <2>3. Held(rec)'
    BY <1>2, <2>1, <2>2, HeldOn DEF IInv
  <2> QED BY <2>0, <1>1, <1>2, <1>3, <2>1, <2>3, DoingMoves DEF IInv
<1>4. \A id \in RowsOf(local[h].todo[1].student) :
        id \in Ids /\ results[id] \in Row /\ results[id].student = local[h].todo[1].student
  BY <1>1, CalculatingFacts DEF RowsOf, Rows, DataTypes
<1>5. Head(local[h].todo) = local[h].todo[1]
  BY <1>1, CalculatingFacts
<1> QED BY <1>3, <1>4, <1>5, RowFacts DEF CalculateResults_Find

\* A row that is saved is of the student the calculation is at, with a mark
\* that was approved; another student's rows stay.
LEMMA SavedRow ==
  ASSUME IInv, NEW h \in Goroutines, local[h].op = "save", NEW id \in Ids,
         id = local[h].id \/ (local[h].id = -1 /\ id \in Ids \ Rows),
         NEW row, row = Filled(local[h].row, Head(local[h].todo)),
         results' = [results EXCEPT ![id] = row],
         UNCHANGED <<load, scores, scales, released, lines, cards>>, faults' \in Nat
  PROVE  Data' /\ Steady /\ row.student = local[h].todo[1].student
<1> DEFINE st == local[h].todo[1]
<1>1. /\ Data /\ DataTypes /\ Head(local[h].todo) = st /\ st \in Todo /\ st.student # NoStudent
      /\ st.total \in released[st.student] /\ local[h].row \in Row
  BY CalculatingFacts DEF Calculating, Local
<1>2. row.student = st.student /\ row.total = st.total /\ row \in Row
  BY <1>1 DEF Filled, Row, Todo
<1>3. \/ id \notin Rows /\ lines[id] = <<>> /\ id \notin cards
      \/ results[id].student = st.student
  <2>1. Held(local[h])
    BY CalculatingFacts DEF Calculating
  <2>2. id # -1
    BY ResultsAssumption
  <2> QED BY <1>1, <2>1, <2>2 DEF Held, DataTypes
<1> HIDE DEF st
<1>4. /\ \A r \in Ids : results'[r] = IF r = id THEN row ELSE results[r]
      /\ results' \in [Ids -> Row]
  BY <1>1, <1>2 DEF DataTypes
<1>5. Rows' = Rows \cup {id}
  BY <1>1, <1>2, <1>4 DEF Rows
<1>6. \A r \in Rows : results'[r].student = results[r].student
  BY <1>2, <1>3, <1>4 DEF Rows
<1>7. Steady
  BY <1>6 DEF Steady
<1>8. DataTypes'
  BY <1>1, <1>4, <1>5 DEF DataTypes
<1>9. OnlyApprovedMarks'
  <2>1. id \notin Rows => lines[id] = <<>>
    BY <1>1 DEF DataTypes
  <2>2. /\ results'[id].total \in released[results'[id].student]
        /\ \A i \in DOMAIN lines[id] : lines[id][i].total \in released[results'[id].student]
    BY <1>1, <1>2, <1>3, <1>4, <2>1 DEF Data, OnlyApprovedMarks
  <2>3. \A r \in Rows : r # id => results'[r] = results[r]
    BY <1>4 DEF Rows
  <2> QED BY <1>1, <1>5, <2>2, <2>3 DEF Data, OnlyApprovedMarks
<1>10. GradesSent' /\ ScalesSent' /\ ApprovedReleased'
  <2>1. id \notin Rows => Range(lines[id]) = {}
    BY <1>1 DEF DataTypes, Range
  <2>2. Sent' = Sent
    BY DEF Sent
  <2> QED BY <1>1, <1>5, <2>1, <2>2 DEF Data, GradesSent, ScalesSent, ApprovedReleased
<1> QED BY <1>2, <1>7, <1>8, <1>9, <1>10 DEF Data, st

LEMMA SaveRow ==
  ASSUME IInv, NEW h \in load.handlers, CalculateResults_Save(h)
  PROVE  IInv'
<1>1. h \in Goroutines /\ local[h].op = "save" /\ local[h].op \in Calculating
  BY LoadFacts DEF IInv, Data, CalculateResults_Save, Calculating
<1>2. faults' \in Nat
  BY FaultType DEF CalculateResults_Save, IInv
<1>3. UNCHANGED <<load, scores, scales, released, lines, cards>>
  BY DEF CalculateResults_Save
<1>4. CASE Goto(h, Idle) /\ UNCHANGED results
  <2>1. Data' /\ Steady
    BY <1>2, <1>3, <1>4, DataStays DEF IInv
  <2>2. Held(Idle)'
    BY <2>1, IdleHeld, HeldOn DEF IInv
  <2> QED BY <1>1, <1>4, <2>1, <2>2, IdleHeld, DoingMoves DEF IInv
<1>5. ASSUME NEW id \in Ids, id = local[h].id \/ (local[h].id = -1 /\ id \in Ids \ Rows),
             results' = [results EXCEPT ![id] = Filled(local[h].row, Head(local[h].todo))],
             Goto(h, [local[h] EXCEPT !.op = "findLine", !.id = id, !.row = NoRow])
      PROVE  IInv'
  <2>0. PICK rec : rec = [local[h] EXCEPT !.op = "findLine", !.id = id, !.row = NoRow]
    OBVIOUS
  <2>1. PICK row : row = Filled(local[h].row, Head(local[h].todo))
    OBVIOUS
  <2>2. Data' /\ Steady /\ row.student = local[h].todo[1].student
    BY <1>1, <1>2, <1>3, <1>5, <2>1, SavedRow
  <2>3. rec \in Local /\ rec.todo = local[h].todo /\ rec.bands = local[h].bands /\ rec.id = id
        /\ rec.op = "findLine"
    <3>1. local[h] \in Local
      BY <1>1, CalculatingFacts
    <3> QED BY <2>0, <3>1, RowFacts DEF Local, Ops
  <2>4. results'[id] = row
    BY <1>5, <2>1 DEF IInv, Data, DataTypes
  <2>5. Held(rec)'
    <3>1. Held(local[h])
      BY <1>1, CalculatingFacts
    <3>2. released' = released /\ Sent' = Sent
      BY <1>3 DEF Sent
    <3>3. id # -1
      BY ResultsAssumption
    <3> QED BY <2>2, <2>3, <2>4, <3>1, <3>2, <3>3, <1>1 DEF Held, Calculating
  <2> QED BY <1>1, <1>5, <2>0, <2>2, <2>3, <2>5, DoingMoves DEF IInv
<1>6. local[h].id # -1 => local[h].id \in Ids
  BY <1>1, CalculatingFacts DEF Local
<1> QED BY <1>4, <1>5, <1>6 DEF CalculateResults_Save

LEMMA FindLine ==
  ASSUME IInv, NEW h \in load.handlers, CalculateResults_FindLine(h)
  PROVE  IInv'
<1>1. h \in Goroutines /\ local[h].op = "findLine" /\ local[h].op \in Calculating
  BY LoadFacts DEF IInv, Data, CalculateResults_FindLine, Calculating
<1>2. Data' /\ Steady
  <2>1. faults' \in Nat
    BY FaultType DEF CalculateResults_FindLine, IInv
  <2> QED BY <2>1, DataStays DEF CalculateResults_FindLine, IInv
<1>3. PICK line \in {0, 1} :
        /\ Goto(h, [local[h] EXCEPT !.op = "saveLine", !.line = line])
        /\ line = 1 => lines[local[h].id] # <<>>
  BY DEF CalculateResults_FindLine
<1>4. PICK rec : rec = [local[h] EXCEPT !.op = "saveLine", !.line = line]
  OBVIOUS
<1>5. rec \in Local
  BY <1>1, <1>4, CalculatingFacts, ZenonT(60) DEF Local, Ops
<1>6. Held(rec)
  BY <1>1, <1>3, <1>4, CalculatingFacts DEF Held, Calculating, Local
<1>7. Held(rec)'
  BY <1>2, <1>5, <1>6, HeldOn DEF IInv
<1> QED BY <1>1, <1>2, <1>3, <1>4, <1>5, <1>7, DoingMoves DEF IInv

LEMMA SeqFacts ==
  ASSUME NEW S, NEW q \in Seq(S)
  PROVE  /\ Len(q) \in Nat /\ DOMAIN q = 1..Len(q) /\ (q # <<>> <=> Len(q) # 0)
         /\ \A i \in 1..Len(q) : q[i] \in Range(q)
BY DEF Range

\* Every element of p is x or an element of q.
LEMMA Within ==
  ASSUME NEW S, NEW q \in Seq(S), NEW x, NEW p \in Seq(S), Len(p) # 0,
         \A i \in 1..Len(p) : p[i] = x \/ \E j \in 1..Len(q) : p[i] = q[j]
  PROVE  p # <<>> /\ Range(p) \subseteq Range(q) \cup {x}
<1>1. Len(p) \in Nat /\ DOMAIN p = 1..Len(p) /\ p # <<>>
  BY SeqFacts
<1>2. \A j \in 1..Len(q) : q[j] \in Range(q)
  BY SeqFacts
<1> QED BY <1>1, <1>2 DEF Range

\* The lines of a row after one was filled in, or added at either end.
With(q, x) == {p \in Seq(Line) : p # <<>> /\ Range(p) \subseteq Range(q) \cup {x}}

LEMMA LinesAfter ==
  ASSUME NEW q \in Seq(Line), NEW x \in Line
  PROVE  /\ q # <<>> => [q EXCEPT ![1] = x] \in With(q, x)
         /\ <<x>> \o q \in With(q, x)
         /\ q \o <<x>> \in With(q, x)
<1>1. Len(q) \in Nat /\ DOMAIN q = 1..Len(q) /\ (q # <<>> <=> Len(q) # 0)
  BY SeqFacts
<1>2. <<x>> \in Seq(Line) /\ Len(<<x>>) = 1 /\ <<x>>[1] = x
  OBVIOUS
<1>3. ASSUME q # <<>>
      PROVE  [q EXCEPT ![1] = x] \in With(q, x)
  <2> DEFINE p == [q EXCEPT ![1] = x]
  <2>1. 1 \in 1..Len(q)
    BY <1>1, <1>3
  <2>2. /\ p \in Seq(Line) /\ Len(p) = Len(q)
        /\ \A i \in 1..Len(q) : p[i] = IF i = 1 THEN x ELSE q[i]
    BY <2>1, ExceptSeq
  <2> HIDE DEF p
  <2>3. \A i \in 1..Len(p) : p[i] = x \/ \E j \in 1..Len(q) : p[i] = q[j]
    BY <2>2
  <2>4. Len(p) # 0
    BY <1>1, <1>3, <2>2
  <2>5. p # <<>> /\ Range(p) \subseteq Range(q) \cup {x}
    BY <2>2, <2>3, <2>4, Within
  <2>6. p \in With(q, x)
    BY <2>2, <2>5 DEF With
  <2> QED BY <2>6 DEF p
<1>4. <<x>> \o q \in With(q, x)
  <2> DEFINE p == <<x>> \o q
  <2>1. /\ p \in Seq(Line) /\ Len(p) = 1 + Len(q)
        /\ \A i \in 1..1 + Len(q) : p[i] = IF i <= 1 THEN <<x>>[i] ELSE q[i - 1]
    BY <1>2, ConcatProperties
  <2> HIDE DEF p
  <2>2. ASSUME NEW i \in 1..Len(p) PROVE p[i] = x \/ \E j \in 1..Len(q) : p[i] = q[j]
    <3>1. i \in 1..1 + Len(q)
      BY <2>1
    <3>2. CASE i = 1
      BY <1>2, <2>1, <3>1, <3>2
    <3>3. CASE i # 1
      <4>1. i - 1 \in 1..Len(q) /\ ~(i <= 1)
        BY <1>1, <3>1, <3>3
      <4> QED BY <2>1, <3>1, <4>1
    <3> QED BY <3>2, <3>3
  <2>3. Len(p) # 0
    BY <1>1, <2>1
  <2>4. p # <<>> /\ Range(p) \subseteq Range(q) \cup {x}
    BY <2>1, <2>2, <2>3, Within
  <2>5. p \in With(q, x)
    BY <2>1, <2>4 DEF With
  <2> QED BY <2>5 DEF p
<1>5. q \o <<x>> \in With(q, x)
  <2> DEFINE p == q \o <<x>>
  <2>1. /\ p \in Seq(Line) /\ Len(p) = Len(q) + 1
        /\ \A i \in 1..Len(q) + 1 : p[i] = IF i <= Len(q) THEN q[i] ELSE <<x>>[i - Len(q)]
    BY <1>2, ConcatProperties
  <2> HIDE DEF p
  <2>2. ASSUME NEW i \in 1..Len(p) PROVE p[i] = x \/ \E j \in 1..Len(q) : p[i] = q[j]
    <3>1. i \in 1..Len(q) + 1
      BY <2>1
    <3>2. CASE i <= Len(q)
      <4>1. i \in 1..Len(q)
        BY <1>1, <3>1, <3>2
      <4> QED BY <2>1, <3>1, <3>2, <4>1
    <3>3. CASE ~(i <= Len(q))
      <4>1. i - Len(q) = 1
        BY <1>1, <3>1, <3>3
      <4> QED BY <1>2, <2>1, <3>1, <3>3, <4>1
    <3> QED BY <3>2, <3>3
  <2>3. Len(p) # 0
    BY <1>1, <2>1
  <2>4. p # <<>> /\ Range(p) \subseteq Range(q) \cup {x}
    BY <2>1, <2>2, <2>3, Within
  <2>5. p \in With(q, x)
    BY <2>1, <2>4 DEF With
  <2> QED BY <2>5 DEF p
<1> QED BY <1>3, <1>4, <1>5

\* A line that is saved shows an approved mark and a grade that was sent.
LEMMA SavedLine ==
  ASSUME IInv, NEW h \in Goroutines, local[h].op = "saveLine",
         NEW grade \in Grades, calculateGrade(local[h].todo[1].total, local[h].bands, grade),
         NEW line, line = [total |-> local[h].todo[1].total, grade |-> grade],
         NEW after, lines' = [lines EXCEPT ![local[h].id] = after],
         \/ local[h].line = 1 /\ after = [lines[local[h].id] EXCEPT ![1] = line]
         \/ after = <<line>> \o lines[local[h].id]
         \/ after = lines[local[h].id] \o <<line>>,
         UNCHANGED <<load, scores, scales, released, results, cards>>, faults' \in Nat
  PROVE  Data' /\ Steady
<1> DEFINE st == local[h].todo[1]
           id == local[h].id
<1>1. /\ Data /\ DataTypes /\ Held(local[h]) /\ st \in Todo /\ st.student # NoStudent
      /\ st.total \in released[st.student] /\ local[h] \in Local
  BY CalculatingFacts DEF Calculating
<1>2. id \in Ids /\ results[id].student = st.student /\ id \in Rows
  BY <1>1 DEF Held, Local, Rows
<1>3. line \in Line /\ line.total = st.total /\ line.grade = grade
  BY <1>1 DEF Line, Todo
<1>4. lines[id] \in Seq(Line) /\ (local[h].line = 1 => lines[id] # <<>>)
  BY <1>1, <1>2 DEF DataTypes, Held
<1> HIDE DEF st
<1> HIDE DEF id
<1>5. after \in Seq(Line) /\ after # <<>> /\ Range(after) \subseteq Range(lines[id]) \cup {line}
  <2>1. lines[id] # <<>> => [lines[id] EXCEPT ![1] = line] \in With(lines[id], line)
    BY <1>3, <1>4, LinesAfter
  <2>2. <<line>> \o lines[id] \in With(lines[id], line)
    BY <1>3, <1>4, LinesAfter
  <2>3. lines[id] \o <<line>> \in With(lines[id], line)
    BY <1>3, <1>4, LinesAfter
  <2>4. after \in With(lines[id], line)
    BY <1>4, <2>1, <2>2, <2>3 DEF id
  <2> QED BY <2>4 DEF With
<1>6. \A r \in Ids : lines'[r] = IF r = id THEN after ELSE lines[r]
  BY <1>1 DEF DataTypes, id
<1>7. Rows' = Rows /\ Sent' = Sent
  BY DEF Rows, Sent
<1>8. DataTypes'
  <2>1. lines' \in [Ids -> Seq(Line)]
    BY <1>1, <1>5, <1>2 DEF DataTypes, id
  <2> QED BY <1>1, <1>2, <1>6, <1>7, <2>1 DEF DataTypes
<1>9. OnlyApprovedMarks'
  <2>1. \A l \in Range(after) : l.total \in released[results[id].student]
    BY <1>1, <1>2, <1>3, <1>5 DEF Data, OnlyApprovedMarks, Range
  <2>2. \A i \in DOMAIN after : after[i] \in Range(after)
    BY DEF Range
  <2>3. \A r \in Rows : r \in Ids
    BY DEF Rows
  <2>4. ASSUME NEW r \in Rows
        PROVE  /\ results[r].total \in released[results[r].student]
               /\ \A i \in DOMAIN lines'[r] :
                    lines'[r][i].total \in released[results[r].student]
    <3>1. /\ results[r].total \in released[results[r].student]
          /\ \A i \in DOMAIN lines[r] : lines[r][i].total \in released[results[r].student]
      BY <1>1 DEF Data, OnlyApprovedMarks
    <3>2. CASE r = id
      BY <1>6, <2>1, <2>2, <2>3, <3>1, <3>2
    <3>3. CASE r # id
      BY <1>6, <2>3, <3>1, <3>3
    <3> QED BY <3>2, <3>3
  <2> QED BY <1>7, <2>4 DEF OnlyApprovedMarks
<1>10. GradesSent'
  <2>1. \/ line.grade = "F"
        \/ \E b \in Sent : Holds(b, line.total) /\ line.grade = b.grade
    <3>1. Range(local[h].bands) \subseteq Sent
      BY <1>1 DEF Held
    <3>2. \A i \in DOMAIN local[h].bands : local[h].bands[i] \in Sent
      BY <3>1 DEF Range
    <3> QED BY <1>3, <3>2 DEF calculateGrade, st
  <2>2. \A l \in Range(after) :
          l.grade = "F" \/ \E b \in Sent : Holds(b, l.total) /\ l.grade = b.grade
    BY <1>1, <1>2, <1>5, <2>1 DEF Data, GradesSent
  <2>3. \A r \in Rows : r \in Ids
    BY DEF Rows
  <2>4. ASSUME NEW r \in Rows
        PROVE  \A l \in Range(lines'[r]) :
                 l.grade = "F" \/ \E b \in Sent : Holds(b, l.total) /\ l.grade = b.grade
    <3>1. \A l \in Range(lines[r]) :
            l.grade = "F" \/ \E b \in Sent : Holds(b, l.total) /\ l.grade = b.grade
      BY <1>1 DEF Data, GradesSent
    <3>2. lines'[r] = after \/ lines'[r] = lines[r]
      BY <1>6, <2>3
    <3> QED BY <2>2, <3>1, <3>2
  <2> QED BY <1>7, <2>4 DEF GradesSent
<1>11. ScalesSent' /\ ApprovedReleased'
  BY <1>1, <1>7 DEF Data, ScalesSent, ApprovedReleased
<1>12. Steady
  BY <1>5, <1>6 DEF Steady
<1> QED BY <1>8, <1>9, <1>10, <1>11, <1>12 DEF Data

LEMMA SaveLine ==
  ASSUME IInv, NEW h \in load.handlers, CalculateResults_SaveLine(h)
  PROVE  IInv'
<1>1. /\ h \in Goroutines /\ local[h].op = "saveLine" /\ local[h].op \in Calculating
      /\ local[h].line \in {0, 1}
  BY LoadFacts DEF IInv, Data, Doing, Local, CalculateResults_SaveLine, Calculating
<1>2. faults' \in Nat
  BY FaultType DEF CalculateResults_SaveLine, IInv
<1>3. UNCHANGED <<load, scores, scales, released, results, cards>>
  BY DEF CalculateResults_SaveLine
<1>4. Head(local[h].todo) = local[h].todo[1]
  BY <1>1, CalculatingFacts
<1>5. Data' /\ Steady
  <2>1. CASE UNCHANGED lines
    BY <1>2, <1>3, <2>1, DataStays DEF IInv
  <2>2. CASE ~UNCHANGED lines
    <3>1. PICK grade, line, after :
            /\ grade \in Grades
            /\ calculateGrade(local[h].todo[1].total, local[h].bands, grade)
            /\ line = [total |-> local[h].todo[1].total, grade |-> grade]
            /\ lines' = [lines EXCEPT ![local[h].id] = after]
            /\ \/ local[h].line = 1 /\ after = [lines[local[h].id] EXCEPT ![1] = line]
               \/ after = <<line>> \o lines[local[h].id]
               \/ after = lines[local[h].id] \o <<line>>
      BY <1>4, <2>2 DEF CalculateResults_SaveLine
    <3> QED BY <1>1, <1>2, <1>3, <3>1, SavedLine
  <2> QED BY <2>1, <2>2
<1>6. CASE Goto(h, Idle)
  <2>1. Held(Idle)'
    BY <1>5, IdleHeld, HeldOn DEF IInv
  <2> QED BY <1>1, <1>5, <1>6, <2>1, IdleHeld, DoingMoves DEF IInv
<1>7. CASE /\ Tail(local[h].todo) # <<>>
           /\ Goto(h, [Idle EXCEPT !.op = "find", !.todo = Tail(local[h].todo),
                                   !.bands = local[h].bands])
  <2>0. PICK rec : rec = [Idle EXCEPT !.op = "find", !.todo = Tail(local[h].todo),
                                      !.bands = local[h].bands]
    OBVIOUS
  <2>1. /\ rec.op = "find" /\ rec.todo = Tail(local[h].todo) /\ rec.bands = local[h].bands
        /\ rec \in Local
    BY <1>1, <2>0, CalculatingFacts, IdleHeld DEF Idle, Local, Ops
  <2>2. Held(rec)
    <3>1. \A i \in DOMAIN rec.todo : rec.todo[i].total \in released[rec.todo[i].student]
      BY <1>1, <2>1, CalculatingFacts
    <3>2. Range(rec.bands) \subseteq Sent
      BY <1>1, <2>1, CalculatingFacts DEF Held
    <3> QED BY <1>7, <2>1, <3>1, <3>2 DEF Held
  <2>3. Held(rec)'
    BY <1>5, <2>1, <2>2, HeldOn DEF IInv
  <2> QED BY <1>1, <1>5, <1>7, <2>0, <2>1, <2>3, DoingMoves DEF IInv
<1> QED BY <1>6, <1>7 DEF CalculateResults_SaveLine

-----------------------------------------------------------------------------
(* Publishing, remarks and report cards. *)

\* A step that leaves whose a row is and what it shows, and adds tasks only
\* for rows.
LEMMA MarksStay ==
  ASSUME IInv, UNCHANGED <<load, scores, scales, released, lines>>,
         results' \in [Ids -> Row], cards' \subseteq cards \cup Rows,
         \A r \in Ids : results'[r].student = results[r].student
                        /\ results'[r].total = results[r].total,
         \A r \in Ids \ Rows : results'[r] = results[r],
         faults' \in Nat
  PROVE  Data' /\ Steady
<1>1. Data /\ DataTypes
  BY DEF IInv, Data
<1>2. Rows' = Rows /\ Sent' = Sent
  BY DEF Rows, Sent
<1>3. DataTypes'
  BY <1>1, <1>2 DEF DataTypes, Rows
<1>4. \A r \in Rows : r \in Ids
  BY DEF Rows
<1>5. OnlyApprovedMarks'
  BY <1>1, <1>2, <1>4 DEF Data, OnlyApprovedMarks
<1>6. GradesSent' /\ ScalesSent' /\ ApprovedReleased'
  BY <1>1, <1>2 DEF Data, GradesSent, ScalesSent, ApprovedReleased
<1>7. Steady
  BY <1>4 DEF Steady
<1> QED BY <1>3, <1>5, <1>6, <1>7 DEF Data

LEMMA Flags ==
  ASSUME NEW row \in Row, NEW new \in {[row EXCEPT !.published = TRUE],
           [row EXCEPT !.remark = TRUE], [row EXCEPT !.generated = TRUE]}
  PROVE  new \in Row /\ new.student = row.student /\ new.total = row.total
BY DEF Row

LEMMA PublishSteps ==
  ASSUME IInv, NEW h \in load.handlers,
         PublishResults_Write(h) \/ PublishResults_Enqueue(h)
  PROVE  IInv'
<1>1. h \in Goroutines /\ Data /\ DataTypes
  BY LoadFacts DEF IInv, Data
<1>2. Data' /\ Steady
  <2>1. CASE PublishResults_Write(h)
    <3>1. \A r \in Rows : r \in Ids /\ results[r] \in Row
      BY <1>1 DEF DataTypes, Rows
    <3>2. \A r \in Ids :
            results'[r] = IF r \in Rows THEN [results[r] EXCEPT !.published = TRUE]
                          ELSE results[r]
      BY <2>1 DEF PublishResults_Write
    <3>3. results' \in [Ids -> Row]
      <4>1. \A r \in Ids : results'[r] \in Row
        <5> TAKE r \in Ids
        <5>1. CASE r \in Rows
          <6>1. [results[r] EXCEPT !.published = TRUE] \in Row
            BY <3>1, <5>1, Flags
          <6> QED BY <3>2, <5>1, <6>1
        <5>2. CASE r \notin Rows
          BY <1>1, <3>2, <5>2 DEF DataTypes
        <5> QED BY <5>1, <5>2
      <4> QED BY <2>1, <4>1 DEF PublishResults_Write
    <3>4. \A r \in Ids : results'[r].student = results[r].student
                         /\ results'[r].total = results[r].total
      BY <3>1, <3>2 DEF Row
    <3>5. faults' \in Nat
      BY <1>1, <2>1 DEF PublishResults_Write, DataTypes
    <3> QED BY <2>1, <3>2, <3>3, <3>4, <3>5, MarksStay DEF PublishResults_Write
  <2>2. CASE PublishResults_Enqueue(h)
    <3>1. faults' \in Nat
      BY <2>2, FaultType DEF PublishResults_Enqueue, IInv
    <3>2. cards' \subseteq cards \cup Rows
      BY <2>2 DEF PublishResults_Enqueue, Published
    <3>3. results' \in [Ids -> Row]
      BY <1>1, <2>2 DEF PublishResults_Enqueue, DataTypes
    <3> QED BY <2>2, <3>1, <3>2, <3>3, MarksStay DEF PublishResults_Enqueue
  <2> QED BY <2>1, <2>2
<1>3. CASE Goto(h, Idle)
  <2>1. Held(Idle)'
    BY <1>2, IdleHeld, HeldOn DEF IInv
  <2> QED BY <1>1, <1>2, <1>3, <2>1, IdleHeld, DoingMoves DEF IInv
<1>4. CASE Goto(h, [Idle EXCEPT !.op = "publishRead"])
  <2>0. PICK rec : rec = [Idle EXCEPT !.op = "publishRead"]
    OBVIOUS
  <2>1. rec \in Local /\ Held(rec)
    BY <2>0, IdleHeld, ZenonT(60) DEF Idle, Local, Ops, Held, Range, Calculating
  <2>2. Held(rec)'
    BY <1>2, <2>1, HeldOn DEF IInv
  <2> QED BY <1>1, <1>2, <1>4, <2>0, <2>1, <2>2, DoingMoves DEF IInv
<1> QED BY <1>3, <1>4 DEF PublishResults_Write, PublishResults_Enqueue

LEMMA RemarkSteps ==
  ASSUME IInv, NEW h \in load.handlers, NEW r \in Rows,
         UpdateRemarks(h, r) \/ OverrideResult(h, r)
  PROVE  IInv'
<1>1. UpdateRemarks(h, r) /\ Data /\ DataTypes /\ r \in Ids
  BY DEF OverrideResult, IInv, Data, Rows
<1>2. \A q \in Ids : /\ results[q] \in Row
                     /\ results'[q] = IF q = r THEN [results[q] EXCEPT !.remark = TRUE]
                                      ELSE results[q]
  BY <1>1 DEF UpdateRemarks, DataTypes
<1>3. results' \in [Ids -> Row]
  <2>1. \A q \in Ids : results'[q] \in Row
    BY <1>2 DEF Row
  <2> QED BY <1>1, <2>1 DEF UpdateRemarks, DataTypes
<1>4. \A q \in Ids : results'[q].student = results[q].student
                     /\ results'[q].total = results[q].total
  BY <1>2 DEF Row
<1>5. Data' /\ Steady
  BY <1>1, <1>2, <1>3, <1>4, MarksStay DEF UpdateRemarks, DataTypes
<1> QED BY <1>1, <1>5, DoingStays DEF UpdateRemarks, IInv

LEMMA CardRead ==
  ASSUME IInv, NEW w \in load.workers, NEW r \in Ids, HandleGenerateReportCard_Read(w, r)
  PROVE  IInv'
<1>1. w \in Goroutines /\ Data /\ DataTypes
  BY LoadFacts DEF IInv, Data
<1>2. Data' /\ Steady
  BY <1>1, DataStays DEF HandleGenerateReportCard_Read, DataTypes
<1>3. PICK rec : rec = [Idle EXCEPT !.op = "card", !.row = results[r], !.id = r]
  OBVIOUS
<1>4. r \in Rows /\ results[r] \in Row
  BY <1>1 DEF HandleGenerateReportCard_Read, DataTypes
<1>5. rec \in Local /\ Held(rec)
  <2>1. rec.op = "card" /\ rec.id = r /\ rec.todo = <<>> /\ rec.bands = <<>>
    BY <1>3 DEF Idle
  <2>2. rec \in Local
    BY <1>3, <1>4, IdleHeld DEF Idle, Local, Ops
  <2> QED BY <1>4, <2>1, <2>2 DEF Held, Range, Calculating
<1>6. Held(rec)'
  BY <1>2, <1>5, HeldOn DEF IInv
<1> QED BY <1>1, <1>2, <1>3, <1>5, <1>6, DoingMoves DEF IInv, HandleGenerateReportCard_Read

LEMMA CardLines ==
  ASSUME IInv, NEW w \in load.workers, HandleGenerateReportCard_Lines(w)
  PROVE  IInv'
<1>1. /\ w \in Goroutines /\ Data /\ DataTypes /\ local[w] \in Local /\ Held(local[w])
      /\ local[w].op = "card"
  BY LoadFacts DEF IInv, Data, Doing, HandleGenerateReportCard_Lines
<1>2. Data' /\ Steady
  BY <1>1, DataStays DEF HandleGenerateReportCard_Lines, DataTypes
<1> DEFINE picked == {lines[local[w].id][i] : i \in DOMAIN lines[local[w].id]}
<1>3. local[w].id \in Rows /\ lines[local[w].id] \in Seq(Line)
  BY <1>1 DEF Held, Rows, DataTypes
<1>4. picked \subseteq Line
  BY <1>3
<1>5. PICK rec : rec = [local[w] EXCEPT !.op = "cardWrite", !.picked = picked]
  OBVIOUS
<1>6. Goto(w, rec)
  BY <1>5 DEF HandleGenerateReportCard_Lines
<1> HIDE DEF picked
<1>7. rec \in Local /\ Held(rec)
  BY <1>1, <1>3, <1>4, <1>5 DEF Local, Ops, Held, Calculating
<1>8. Held(rec)'
  BY <1>2, <1>7, HeldOn DEF IInv
<1> QED BY <1>1, <1>2, <1>6, <1>7, <1>8, DoingMoves DEF IInv

LEMMA CardWrite ==
  ASSUME IInv, NEW w \in load.workers, HandleGenerateReportCard_Write(w)
  PROVE  IInv'
<1>1. /\ w \in Goroutines /\ Data /\ DataTypes /\ local[w] \in Local /\ Held(local[w])
      /\ local[w].op = "cardWrite"
  BY LoadFacts DEF IInv, Data, Doing, HandleGenerateReportCard_Write
<1> DEFINE r == local[w].id
<1>2. r \in Rows /\ r \in Ids
  BY <1>1 DEF Held, Rows
<1>3. \A q \in Ids : /\ results[q] \in Row
                     /\ \/ results'[q] = results[q]
                        \/ q = r /\ results'[q] = [results[q] EXCEPT !.generated = TRUE]
  BY <1>1, <1>2 DEF HandleGenerateReportCard_Write, DataTypes
<1>4. /\ results' \in [Ids -> Row] /\ \A q \in Ids \ Rows : results'[q] = results[q]
      /\ \A q \in Ids : results'[q].student = results[q].student
                         /\ results'[q].total = results[q].total
  <2>1. \A q \in Ids : results'[q] \in Row /\ results'[q].student = results[q].student
                       /\ results'[q].total = results[q].total
    BY <1>3, Flags
  <2>2. results' = [results EXCEPT ![r].generated = TRUE] \/ results' = results
    BY DEF HandleGenerateReportCard_Write
  <2> QED BY <1>1, <1>2, <1>3, <2>1, <2>2 DEF DataTypes
<1>5. cards' \subseteq cards \cup Rows /\ faults' \in Nat
  BY <1>1, FaultType DEF HandleGenerateReportCard_Write
<1>6. Data' /\ Steady
  BY <1>4, <1>5, MarksStay DEF HandleGenerateReportCard_Write
<1>7. Held(Idle)'
  BY <1>6, IdleHeld, HeldOn DEF IInv
<1> QED BY <1>1, <1>6, <1>7, IdleHeld, DoingMoves DEF IInv, HandleGenerateReportCard_Write

-----------------------------------------------------------------------------
(* Every step, and what follows for every load. *)

LEMMA StepIInv == IInv /\ [Next]_vars => IInv'
<1> SUFFICES ASSUME IInv, [Next]_vars PROVE IInv'
  OBVIOUS
<1>1. CASE \E s \in load.students : EnterScore(s) \/ ApproveScore(s) \/ RejectScore(s)
  BY <1>1, SheetSteps
<1>2. CASE \E h \in load.handlers :
             \/ \E new \in load.scales : UpsertGradingScales_Delete(h, new)
             \/ UpsertGradingScales_Create(h)
  BY <1>2, DeleteScales, CreateScale
<1>3. CASE \E h \in load.handlers :
             \/ CalculateResults_Read(h) \/ CalculateResults_Scales(h)
             \/ CalculateResults_Find(h) \/ CalculateResults_Save(h)
             \/ CalculateResults_FindLine(h) \/ CalculateResults_SaveLine(h)
  BY <1>3, ReadTotals, ReadScales, FindRow, SaveRow, FindLine, SaveLine
<1>4. CASE \E h \in load.handlers :
             \/ PublishResults_Write(h) \/ PublishResults_Enqueue(h)
             \/ \E r \in Rows : UpdateRemarks(h, r) \/ OverrideResult(h, r)
  BY <1>4, PublishSteps, RemarkSteps
<1>5. CASE \E w \in load.workers :
             \/ \E r \in Ids : HandleGenerateReportCard_Read(w, r)
             \/ HandleGenerateReportCard_Lines(w) \/ HandleGenerateReportCard_Write(w)
  BY <1>5, CardRead, CardLines, CardWrite
<1>6. CASE UNCHANGED vars
  <2>1. Data' /\ Steady
    BY <1>6, DataStays DEF IInv, Data, DataTypes, vars
  <2> QED BY <1>6, <2>1, DoingStays DEF IInv, vars
<1> QED BY <1>1, <1>2, <1>3, <1>4, <1>5, <1>6 DEF Next

LEMMA AlwaysIInv == Spec => []IInv
  BY InitIInv, StepIInv, PTL DEF Spec

\* Whatever requests, tasks and failures overlap, results and their lines have
\* the shape the calculation and the report cards take for granted, and
\* a row that does not exist has no line and no task (services/results.go:26-223).
THEOREM TypeCorrect == Spec => []TypeOK
<1>1. IInv => TypeOK
  BY TypeParts DEF IInv, Data, Doing
<1> QED BY <1>1, AlwaysIInv, PTL

\* For any class, requests and failures: a result and its lines show marks that
\* were approved at some time, never a draft (services/results.go:31-35).
THEOREM OnlyApprovedMarksShown == Spec => []OnlyApprovedMarks
<1>1. IInv => OnlyApprovedMarks
  BY DEF IInv, Data
<1> QED BY <1>1, AlwaysIInv, PTL

-----------------------------------------------------------------------------
(* Who does what, for every load. *)

Before(x, y) == x.position < y.position /\ x.total >= y.total /\ x.of = y.of

\* The best comes first, each student once.
Ranked(todo) ==
  \A i, j \in DOMAIN todo :
    i < j => todo[i].student # todo[j].student /\ Before(todo[i], todo[j])

\* Handlers that are not part of the load do nothing, workers make cards.
Roles ==
  \A g \in Goroutines :
    /\ g \in load.handlers => local[g].op \notin {"card", "cardWrite"}
    /\ g \notin load.handlers => local[g].op \in {"idle", "card", "cardWrite"}
    /\ g \in Handlers \ load.handlers => local[g] = Idle
    /\ local[g].op \notin Calculating => local[g].todo = <<>>

TodoRanked == \A g \in Goroutines : Ranked(local[g].todo)

\* Without a return of marks, who is ranked stays approved.
StillApproved ==
  load.returnable = {} =>
    /\ \A r \in Rows : scores[results[r].student].approved
    /\ \A g \in Goroutines : \A i \in DOMAIN local[g].todo :
         scores[local[g].todo[i].student].approved

RInv == Roles /\ TodoRanked /\ StillApproved

-----------------------------------------------------------------------------
(* What holds while requests come one at a time and do not fail. *)

OneRowEach == \A r, q \in Rows : results[r].student = results[q].student => r = q

Pending(h) == {local[h].todo[i].student : i \in DOMAIN local[h].todo}
Done(h) == {r \in Rows : results[r].student \notin Pending(h)}

AllRanked(S) ==
  \A r, q \in S : r # q => Before(results[r], results[q]) \/ Before(results[q], results[r])

GradedBy(bands, S) ==
  \A r \in S : \A line \in Range(lines[r]) : calculateGrade(line.total, bands, line.grade)

\* One row for a student, one line in a row, and a save knows what is there.
Plain(h) ==
  /\ OneRowEach /\ \A r \in Ids : Len(lines[r]) <= 1
  /\ local[h].op = "save" =>
       IF local[h].id = -1 THEN RowsOf(local[h].todo[1].student) = {}
       ELSE /\ local[h].row.published = results[local[h].id].published
            /\ local[h].row.remark = results[local[h].id].remark
  /\ local[h].op = "saveLine" /\ local[h].line = 0 => lines[local[h].id] = <<>>

\* The scales are one of those sent, or the rest of it is still to come.
Scale(h) ==
  /\ \E q \in load.scales \cup {<<>>} :
       Range(q) = IF local[h].op = "createScale" THEN scales \cup Range(local[h].bands)
                  ELSE scales
  /\ local[h].op \in Calculating \ {"scales"} =>
       \E q \in load.scales \cup {<<>>} : local[h].bands \in Sorted(Range(q))

\* Those a calculation is done with come before those it has to do.
Whole(h) ==
  /\ local[h].op \notin Calculating =>
       /\ AllRanked(Rows)
       /\ \E q \in load.scales \cup {<<>>} : \E bands \in Sorted(Range(q)) : GradedBy(bands, Rows)
  /\ local[h].op = "scales" => Done(h) = {}
  /\ local[h].op \in Calculating =>
       AllRanked(Done(h)) /\ \A r \in Done(h) : Before(results[r], local[h].todo[1])
  /\ local[h].op \in Calculating \ {"scales"} => GradedBy(local[h].bands, Done(h))
  /\ local[h].op \in {"findLine", "saveLine"} =>
       LET row == results[local[h].id] st == local[h].todo[1]
       IN row.position = st.position /\ row.total = st.total /\ row.of = st.of

SInv ==
  Serial => \A h \in load.handlers :
              Plain(h) /\ Scale(h) /\ (load.returnable = {} => Whole(h))

-----------------------------------------------------------------------------
(* Who does what is kept by every step. *)

LEMMA Moved ==
  ASSUME IInv, NEW g \in Goroutines, NEW rec, Goto(g, rec)
  PROVE  local'[g] = rec /\ \A k \in Goroutines \ {g} : local'[k] = local[k]
BY DEF IInv, Doing, Goto

\* A handler's step, as far as its list goes.
HandlerMoves(h) ==
  /\ \A k \in Goroutines \ {h} : local'[k] = local[k]
  /\ local'[h].op \notin {"card", "cardWrite"}
  /\ local'[h].op \notin Calculating => local'[h].todo = <<>>
  /\ \/ local'[h].todo = <<>>
     \/ local'[h].todo = local[h].todo
     \/ local[h].todo # <<>> /\ local'[h].todo = Tail(local[h].todo)
     \/ Counted # {} /\ \E order \in Rankings(Counted) : local'[h].todo = StudentTotals(order)
  /\ UNCHANGED <<load, scores>>

LEMMA ScaleMoves ==
  ASSUME IInv, NEW h \in load.handlers,
         \/ \E new \in load.scales : UpsertGradingScales_Delete(h, new)
         \/ UpsertGradingScales_Create(h)
  PROVE  HandlerMoves(h)
<1>1. h \in Goroutines
  BY LoadFacts DEF IInv, Data
<1>2. PICK bands : Create(h, bands)
  BY DEF UpsertGradingScales_Delete, UpsertGradingScales_Create
<1>3. /\ \A k \in Goroutines \ {h} : local'[k] = local[k]
      /\ local'[h] = IF bands = <<>> THEN Idle
                     ELSE [Idle EXCEPT !.op = "createScale", !.bands = bands]
  BY <1>1, <1>2, Moved DEF Create
<1>4. local'[h].op \in {"idle", "createScale"} /\ local'[h].todo = <<>>
  BY <1>3 DEF Idle
<1> QED BY <1>3, <1>4
     DEF HandlerMoves, UpsertGradingScales_Delete, UpsertGradingScales_Create, Calculating

LEMMA CalculationMoves ==
  ASSUME IInv, NEW h \in load.handlers,
         \/ CalculateResults_Read(h) \/ CalculateResults_Scales(h)
         \/ CalculateResults_Find(h) \/ CalculateResults_Save(h)
         \/ CalculateResults_FindLine(h) \/ CalculateResults_SaveLine(h)
  PROVE  HandlerMoves(h)
<1>1. h \in Goroutines /\ local[h] \in Local
  BY LoadFacts DEF IInv, Data, Doing
<1>2. UNCHANGED <<load, scores>>
  BY DEF CalculateResults_Read, CalculateResults_Scales, CalculateResults_Find,
         CalculateResults_Save, CalculateResults_FindLine, CalculateResults_SaveLine
<1>3. CASE Goto(h, Idle)
  <2>1. local'[h] = Idle /\ \A k \in Goroutines \ {h} : local'[k] = local[k]
    BY <1>1, <1>3, IdleHeld, Moved
  <2> QED BY <1>2, <2>1 DEF HandlerMoves, Idle, Calculating
<1>4. CASE CalculateResults_Read(h)
  <2>1. PICK order \in Rankings(Counted) :
          Goto(h, [Idle EXCEPT !.op = "scales", !.todo = StudentTotals(order)])
    BY <1>4 DEF CalculateResults_Read
  <2>2. /\ local'[h] = [Idle EXCEPT !.op = "scales", !.todo = StudentTotals(order)]
        /\ \A k \in Goroutines \ {h} : local'[k] = local[k]
    BY <1>1, <2>1, Moved
  <2>3. local'[h].op = "scales" /\ local'[h].todo = StudentTotals(order)
    BY <2>2 DEF Idle
  <2> QED BY <1>2, <1>4, <2>2, <2>3 DEF HandlerMoves, Calculating, CalculateResults_Read
<1>5. ASSUME NEW rec, Goto(h, rec), rec.op \in Calculating, rec.todo = local[h].todo
      PROVE  HandlerMoves(h)
  <2>1. local'[h] = rec /\ \A k \in Goroutines \ {h} : local'[k] = local[k]
    BY <1>1, <1>5, Moved
  <2> QED BY <1>2, <1>5, <2>1 DEF HandlerMoves, Calculating
<1>6. CASE ~Goto(h, Idle) /\ CalculateResults_Scales(h)
  <2>1. PICK q : Goto(h, [local[h] EXCEPT !.op = "find", !.bands = q])
    BY <1>6 DEF CalculateResults_Scales
  <2>2. PICK rec : rec = [local[h] EXCEPT !.op = "find", !.bands = q]
    OBVIOUS
  <2>3. rec.op \in Calculating /\ rec.todo = local[h].todo
    BY <1>1, <2>2 DEF Local, Calculating
  <2> QED BY <1>5, <2>1, <2>2, <2>3
<1>7. CASE CalculateResults_Find(h)
  <2>1. PICK row, id : Goto(h, [local[h] EXCEPT !.op = "save", !.row = row, !.id = id])
    BY <1>7 DEF CalculateResults_Find
  <2>2. PICK rec : rec = [local[h] EXCEPT !.op = "save", !.row = row, !.id = id]
    OBVIOUS
  <2>3. rec.op \in Calculating /\ rec.todo = local[h].todo
    BY <1>1, <2>2 DEF Local, Calculating
  <2> QED BY <1>5, <2>1, <2>2, <2>3
<1>8. CASE ~Goto(h, Idle) /\ CalculateResults_Save(h)
  <2>1. PICK id : Goto(h, [local[h] EXCEPT !.op = "findLine", !.id = id, !.row = NoRow])
    BY <1>8 DEF CalculateResults_Save
  <2>2. PICK rec : rec = [local[h] EXCEPT !.op = "findLine", !.id = id, !.row = NoRow]
    OBVIOUS
  <2>3. rec.op \in Calculating /\ rec.todo = local[h].todo
    BY <1>1, <2>2 DEF Local, Calculating
  <2> QED BY <1>5, <2>1, <2>2, <2>3
<1>9. CASE CalculateResults_FindLine(h)
  <2>1. PICK line : Goto(h, [local[h] EXCEPT !.op = "saveLine", !.line = line])
    BY <1>9 DEF CalculateResults_FindLine
  <2>2. PICK rec : rec = [local[h] EXCEPT !.op = "saveLine", !.line = line]
    OBVIOUS
  <2>3. rec.op \in Calculating /\ rec.todo = local[h].todo
    BY <1>1, <2>2 DEF Local, Calculating
  <2> QED BY <1>5, <2>1, <2>2, <2>3
<1>10. CASE ~Goto(h, Idle) /\ CalculateResults_SaveLine(h)
  <2>1. Goto(h, [Idle EXCEPT !.op = "find", !.todo = Tail(local[h].todo), !.bands = local[h].bands])
    BY <1>10 DEF CalculateResults_SaveLine
  <2>2. /\ local'[h] = [Idle EXCEPT !.op = "find", !.todo = Tail(local[h].todo), !.bands = local[h].bands]
        /\ \A k \in Goroutines \ {h} : local'[k] = local[k]
    BY <1>1, <2>1, Moved
  <2>3. local'[h].op = "find" /\ local'[h].todo = Tail(local[h].todo)
    BY <2>2 DEF Idle
  <2>4. local[h].todo # <<>>
    BY <1>1, <1>10, CalculatingFacts DEF CalculateResults_SaveLine, Calculating
  <2> QED BY <1>2, <2>2, <2>3, <2>4 DEF HandlerMoves, Calculating
<1> QED BY <1>3, <1>4, <1>6, <1>7, <1>8, <1>9, <1>10

LEMMA PublishMoves ==
  ASSUME IInv, NEW h \in load.handlers, PublishResults_Write(h) \/ PublishResults_Enqueue(h)
  PROVE  HandlerMoves(h)
<1>1. h \in Goroutines
  BY LoadFacts DEF IInv, Data
<1>2. UNCHANGED <<load, scores>>
  BY DEF PublishResults_Write, PublishResults_Enqueue
<1>3. PICK rec \in {Idle, [Idle EXCEPT !.op = "publishRead"]} : Goto(h, rec)
  BY DEF PublishResults_Write, PublishResults_Enqueue
<1>4. local'[h] = rec /\ \A k \in Goroutines \ {h} : local'[k] = local[k]
  BY <1>1, <1>3, Moved
<1>5. local'[h].op \in {"idle", "publishRead"} /\ local'[h].todo = <<>>
  BY <1>3, <1>4 DEF Idle
<1> QED BY <1>2, <1>4, <1>5 DEF HandlerMoves, Calculating

LEMMA RankedTail ==
  ASSUME NEW todo \in Seq(Todo), todo # <<>>, Ranked(todo)
  PROVE  Ranked(Tail(todo))
<1>1. \A i \in DOMAIN Tail(todo) : i + 1 \in DOMAIN todo /\ Tail(todo)[i] = todo[i + 1]
  BY TailRange
<1>2. DOMAIN Tail(todo) \subseteq Nat
  BY TailRange
<1> SUFFICES ASSUME NEW i \in DOMAIN Tail(todo), NEW j \in DOMAIN Tail(todo), i < j
             PROVE  /\ Tail(todo)[i].student # Tail(todo)[j].student
                    /\ Before(Tail(todo)[i], Tail(todo)[j])
  BY DEF Ranked
<1>3. i + 1 < j + 1
  BY <1>2
<1> QED BY <1>1, <1>3 DEF Ranked

LEMMA RankedTotals ==
  ASSUME Data, Counted # {}, NEW order \in Rankings(Counted)
  PROVE  Ranked(StudentTotals(order))
<1> SUFFICES ASSUME NEW i \in DOMAIN StudentTotals(order),
                    NEW j \in DOMAIN StudentTotals(order), i < j
             PROVE  /\ StudentTotals(order)[i].student # StudentTotals(order)[j].student
                    /\ Before(StudentTotals(order)[i], StudentTotals(order)[j])
  BY DEF Ranked
<1>1. i \in 1..Len(order) /\ j \in 1..Len(order) /\ DOMAIN order = 1..Len(order)
  BY TotalsRead
<1>2. order[i] # order[j] /\ Total(order[i]) >= Total(order[j])
  BY <1>1 DEF Rankings
<1> QED BY <1>1, <1>2, TotalsRead DEF Before

\* A row is new only when it is saved, for the student a calculation is at.
LEMMA NewRows ==
  ASSUME IInv, [Next]_vars, NEW r \in Rows'
  PROVE  \/ r \in Rows /\ results'[r].student = results[r].student
         \/ \E h \in load.handlers : /\ local[h].op = "save"
                                     /\ results'[r].student = local[h].todo[1].student
<1>1. Data /\ DataTypes /\ r \in Ids
  BY DEF IInv, Data, Rows
<1>2. CASE results'[r].student = results[r].student
  BY <1>2 DEF Rows
<1>3. CASE \E h \in load.handlers : CalculateResults_Save(h) /\ results' # results
  <2>1. PICK h \in load.handlers : CalculateResults_Save(h) /\ results' # results
    BY <1>3
  <2>2. h \in Goroutines /\ local[h].op = "save" /\ local[h].op \in Calculating
    BY <1>1, <2>1, LoadFacts DEF CalculateResults_Save, Calculating
  <2>3. PICK id \in Ids \cup {local[h].id} :
          results' = [results EXCEPT ![id] = Filled(local[h].row, Head(local[h].todo))]
    BY <2>1 DEF CalculateResults_Save
  <2>4. local[h].row \in Row /\ Head(local[h].todo) = local[h].todo[1]
        /\ local[h].todo[1] \in Todo
    BY <2>2, CalculatingFacts DEF Local
  <2>5. Filled(local[h].row, Head(local[h].todo)).student = local[h].todo[1].student
    BY <2>4 DEF Filled, Row
  <2>6. results'[r] = results[r]
        \/ results'[r] = Filled(local[h].row, Head(local[h].todo))
    BY <1>1, <2>3 DEF DataTypes
  <2> QED BY <1>2, <2>1, <2>2, <2>5, <2>6
<1>4. CASE \E h \in load.handlers : PublishResults_Write(h)
  <2>1. results[r] \in Row
    BY <1>1 DEF DataTypes
  <2>2. results'[r].student = results[r].student
    BY <1>1, <1>4, <2>1, Flags DEF PublishResults_Write, Row
  <2> QED BY <1>2, <2>2
<1>5. CASE \E q \in Ids : \/ results' = [results EXCEPT ![q].remark = TRUE]
                          \/ results' = [results EXCEPT ![q].generated = TRUE]
  <2>1. results[r] \in Row
    BY <1>1 DEF DataTypes
  <2>2. \/ results'[r] = results[r]
        \/ results'[r] \in {[results[r] EXCEPT !.remark = TRUE], [results[r] EXCEPT !.generated = TRUE]}
    BY <1>1, <1>5 DEF DataTypes
  <2>3. results'[r].student = results[r].student
    BY <2>1, <2>2, Flags
  <2> QED BY <1>2, <2>3
<1>6. CASE results' = results
  BY <1>2, <1>6
<1>7. ASSUME NEW w \in load.workers, HandleGenerateReportCard_Write(w), results' # results
      PROVE  \E q \in Ids : results' = [results EXCEPT ![q].generated = TRUE]
  <2>1. w \in Goroutines
    BY <1>1, LoadFacts
  <2>2. local[w].id \in Rows /\ Rows \subseteq Ids
    BY <1>7, <2>1 DEF IInv, Doing, Held, HandleGenerateReportCard_Write, Rows
  <2> QED BY <1>7, <2>2 DEF HandleGenerateReportCard_Write
<1>8. ASSUME NEW h \in load.handlers, NEW q \in Rows, UpdateRemarks(h, q) \/ OverrideResult(h, q)
      PROVE  \E k \in Ids : results' = [results EXCEPT ![k].remark = TRUE]
  BY <1>8 DEF OverrideResult, UpdateRemarks, Rows
<1>9. CASE \E s \in load.students : EnterScore(s) \/ ApproveScore(s) \/ RejectScore(s)
  BY <1>6, <1>9 DEF EnterScore, ApproveScore, RejectScore
<1>10. CASE \E h \in load.handlers :
              \/ \E new \in load.scales : UpsertGradingScales_Delete(h, new)
              \/ UpsertGradingScales_Create(h)
              \/ CalculateResults_Read(h) \/ CalculateResults_Scales(h)
              \/ CalculateResults_Find(h) \/ CalculateResults_FindLine(h)
              \/ CalculateResults_SaveLine(h) \/ PublishResults_Enqueue(h)
  BY <1>6, <1>10 DEF UpsertGradingScales_Delete, UpsertGradingScales_Create,
       CalculateResults_Read, CalculateResults_Scales, CalculateResults_Find,
       CalculateResults_FindLine, CalculateResults_SaveLine, PublishResults_Enqueue
<1>11. CASE \E w \in load.workers :
              \/ \E q \in Ids : HandleGenerateReportCard_Read(w, q)
              \/ HandleGenerateReportCard_Lines(w)
  BY <1>6, <1>11 DEF HandleGenerateReportCard_Read, HandleGenerateReportCard_Lines
<1>12. CASE UNCHANGED vars
  BY <1>6, <1>12 DEF vars
<1> QED BY <1>3, <1>4, <1>5, <1>6, <1>7, <1>8, <1>9, <1>10, <1>11, <1>12 DEF Next

LEMMA InitRInv == Init => RInv
<1> SUFFICES ASSUME Init PROVE RInv
  OBVIOUS
<1>1. Rows = {}
  BY RowFacts DEF Init, Rows
<1>2. \A g \in Goroutines : local[g] = Idle
  BY DEF Init, Goroutines
<1>3. Idle.op = "idle" /\ Idle.todo = <<>>
  BY DEF Idle
<1> QED BY <1>1, <1>2, <1>3 DEF RInv, Roles, TodoRanked, Ranked, StillApproved

\* Nobody is un-approved where no mark is sent back.
LEMMA ApprovedStays ==
  ASSUME IInv, RInv, [Next]_vars, load.returnable = {}
  PROVE  \A s \in Students : scores[s].approved => scores'[s].approved
<1>1. CASE \E t \in load.students : EnterScore(t) \/ ApproveScore(t) \/ RejectScore(t)
  BY <1>1, LoadFacts DEF IInv, Data, DataTypes, EnterScore, ApproveScore, RejectScore
<1>2. CASE \E h \in load.handlers :
             \/ \E new \in load.scales : UpsertGradingScales_Delete(h, new)
             \/ UpsertGradingScales_Create(h)
             \/ CalculateResults_Read(h) \/ CalculateResults_Scales(h)
             \/ CalculateResults_Find(h) \/ CalculateResults_Save(h)
             \/ CalculateResults_FindLine(h) \/ CalculateResults_SaveLine(h)
             \/ PublishResults_Write(h) \/ PublishResults_Enqueue(h)
  BY <1>2, ScaleMoves, CalculationMoves, PublishMoves DEF HandlerMoves
<1>3. CASE \E h \in load.handlers : \E r \in Rows : UpdateRemarks(h, r) \/ OverrideResult(h, r)
  BY <1>3 DEF OverrideResult, UpdateRemarks
<1>4. CASE \E w \in load.workers :
             \/ \E r \in Ids : HandleGenerateReportCard_Read(w, r)
             \/ HandleGenerateReportCard_Lines(w) \/ HandleGenerateReportCard_Write(w)
  BY <1>4 DEF HandleGenerateReportCard_Read, HandleGenerateReportCard_Lines,
              HandleGenerateReportCard_Write
<1>5. CASE UNCHANGED vars
  BY <1>5 DEF vars
<1> QED BY <1>1, <1>2, <1>3, <1>4, <1>5 DEF Next

LEMMA ApprovalMoves ==
  ASSUME IInv, IInv', RInv, [Next]_vars, load' = load,
         load.returnable = {} => \A g \in Goroutines : \A i \in DOMAIN local'[g].todo :
                                   scores[local'[g].todo[i].student].approved
  PROVE  StillApproved'
<1> SUFFICES ASSUME load.returnable = {}
             PROVE  /\ \A r \in Rows' : scores'[results'[r].student].approved
                    /\ \A g \in Goroutines : \A i \in DOMAIN local'[g].todo :
                         scores'[local'[g].todo[i].student].approved
  BY DEF StillApproved
<1>1. \A s \in Students : scores[s].approved => scores'[s].approved
  BY ApprovedStays
<1>2. ASSUME NEW r \in Rows' PROVE scores'[results'[r].student].approved
  <2>1. CASE r \in Rows /\ results'[r].student = results[r].student
    <3>1. results[r].student \in Students
      BY <2>1 DEF IInv, Data, DataTypes, Rows, Row
    <3> QED BY <1>1, <2>1, <3>1 DEF RInv, StillApproved
  <2>2. ASSUME NEW h \in load.handlers, local[h].op = "save",
               results'[r].student = local[h].todo[1].student
        PROVE  scores'[results'[r].student].approved
    <3>1. h \in Goroutines /\ local[h].op \in Calculating
      BY <2>2, LoadFacts DEF IInv, Data, Calculating
    <3>2. /\ local[h].todo \in Seq(Todo) /\ local[h].todo # <<>>
          /\ local[h].todo[1].student \in Students
      BY <3>1, CalculatingFacts
    <3>3. 1 \in DOMAIN local[h].todo
      BY <3>2
    <3> QED BY <1>1, <2>2, <3>1, <3>2, <3>3 DEF RInv, StillApproved
  <2> QED BY <2>1, <2>2, NewRows
<1>3. ASSUME NEW g \in Goroutines, NEW i \in DOMAIN local'[g].todo
      PROVE  scores'[local'[g].todo[i].student].approved
  <2>1. local'[g].todo \in Seq(Todo)
    BY DEF IInv, Doing, Local
  <2>2. local'[g].todo[i] \in Todo
    BY <2>1
  <2>3. local'[g].todo[i].student \in Students
    BY <2>2 DEF Todo
  <2> QED BY <1>1, <2>3
<1> QED BY <1>2, <1>3

\* The step of one goroutine, the others staying as they are.
LEMMA OneMoves ==
  ASSUME IInv, IInv', RInv, [Next]_vars, load' = load, NEW g \in Goroutines,
         \A k \in Goroutines \ {g} : local'[k] = local[k],
         g \in load.handlers => local'[g].op \notin {"card", "cardWrite"},
         g \notin load.handlers => local'[g].op \in {"idle", "card", "cardWrite"},
         g \in Handlers \ load.handlers => local'[g] = Idle,
         local'[g].op \notin Calculating => local'[g].todo = <<>>,
         Ranked(local'[g].todo),
         load.returnable = {} => \A i \in DOMAIN local'[g].todo :
                                   scores[local'[g].todo[i].student].approved
  PROVE  RInv'
<1>1. Roles'
  BY DEF RInv, Roles
<1>2. TodoRanked'
  BY DEF RInv, TodoRanked, Ranked, Before
<1>3. StillApproved'
  BY ApprovalMoves DEF RInv, StillApproved
<1> QED BY <1>1, <1>2, <1>3 DEF RInv

LEMMA HandlerRInv ==
  ASSUME IInv, IInv', RInv, [Next]_vars, NEW h \in load.handlers, HandlerMoves(h)
  PROVE  RInv'
<1>1. /\ h \in Goroutines /\ h \in Handlers /\ Data /\ local[h] \in Local
      /\ local[h].todo \in Seq(Todo)
  BY LoadFacts DEF IInv, Data, Doing, Local
<1>2. Ranked(local[h].todo)
  BY <1>1 DEF RInv, TodoRanked
<1>3. load.returnable = {} =>
        \A i \in DOMAIN local[h].todo : scores[local[h].todo[i].student].approved
  BY <1>1 DEF RInv, StillApproved
<1>4. /\ Ranked(local'[h].todo)
      /\ load.returnable = {} =>
           \A i \in DOMAIN local'[h].todo : scores[local'[h].todo[i].student].approved
  <2>1. CASE local'[h].todo = <<>>
    BY <2>1 DEF Ranked
  <2>2. CASE local'[h].todo = local[h].todo
    BY <1>2, <1>3, <2>2
  <2>3. CASE local[h].todo # <<>> /\ local'[h].todo = Tail(local[h].todo)
    <3>1. Ranked(Tail(local[h].todo))
      BY <1>1, <1>2, <2>3, RankedTail
    <3>2. \A i \in DOMAIN Tail(local[h].todo) :
            i + 1 \in DOMAIN local[h].todo /\ Tail(local[h].todo)[i] = local[h].todo[i + 1]
      BY <1>1, <2>3, TailRange
    <3> QED BY <1>3, <2>3, <3>1, <3>2
  <2>4. ASSUME Counted # {}, NEW order \in Rankings(Counted), local'[h].todo = StudentTotals(order)
        PROVE  /\ Ranked(local'[h].todo)
               /\ \A i \in DOMAIN local'[h].todo : scores[local'[h].todo[i].student].approved
    <3>1. Ranked(StudentTotals(order))
      BY <1>1, <2>4, RankedTotals
    <3>2. \A i \in DOMAIN StudentTotals(order) :
            StudentTotals(order)[i].student = order[i] /\ order[i] \in Counted
      BY <1>1, <2>4, TotalsRead
    <3> QED BY <2>4, <3>1, <3>2 DEF Counted
  <2> QED BY <2>1, <2>2, <2>3, <2>4 DEF HandlerMoves
<1> QED BY <1>1, <1>4, OneMoves DEF HandlerMoves

LEMMA WorkerRInv ==
  ASSUME IInv, IInv', RInv, NEW w \in load.workers,
         \/ \E r \in Ids : HandleGenerateReportCard_Read(w, r)
         \/ HandleGenerateReportCard_Lines(w) \/ HandleGenerateReportCard_Write(w),
         [Next]_vars
  PROVE  RInv'
<1>1. w \in Goroutines /\ local[w] \in Local /\ w \notin Handlers /\ w \notin load.handlers
  <2>1. w \in Workers
    BY ResultsAssumption DEF IInv, Data, DataTypes
  <2>2. load.handlers \subseteq Handlers
    BY LoadFacts DEF IInv, Data
  <2> QED BY <2>1, <2>2, ResultsAssumption DEF IInv, Doing, Goroutines
<1>2. local[w].todo = <<>>
  BY <1>1 DEF RInv, Roles, HandleGenerateReportCard_Read, HandleGenerateReportCard_Lines,
              HandleGenerateReportCard_Write, Idle, Calculating
<1>3. load' = load
  BY DEF HandleGenerateReportCard_Read, HandleGenerateReportCard_Lines,
         HandleGenerateReportCard_Write
<1>4. PICK rec : Goto(w, rec) /\ rec.op \in {"idle", "card", "cardWrite"} /\ rec.todo = <<>>
  <2>1. CASE \E r \in Ids : HandleGenerateReportCard_Read(w, r)
    <3>1. PICK r \in Ids : Goto(w, [Idle EXCEPT !.op = "card", !.row = results[r], !.id = r])
      BY <2>1 DEF HandleGenerateReportCard_Read
    <3>2. PICK rec : rec = [Idle EXCEPT !.op = "card", !.row = results[r], !.id = r]
      OBVIOUS
    <3>3. rec.op = "card" /\ rec.todo = <<>>
      BY <3>2 DEF Idle
    <3> QED BY <3>1, <3>2, <3>3
  <2>2. CASE HandleGenerateReportCard_Lines(w)
    <3>1. PICK picked : Goto(w, [local[w] EXCEPT !.op = "cardWrite", !.picked = picked])
      BY <2>2 DEF HandleGenerateReportCard_Lines
    <3>2. PICK rec : rec = [local[w] EXCEPT !.op = "cardWrite", !.picked = picked]
      OBVIOUS
    <3>3. rec.op = "cardWrite" /\ rec.todo = <<>>
      BY <1>1, <1>2, <3>2 DEF Local
    <3> QED BY <3>1, <3>2, <3>3
  <2>3. CASE HandleGenerateReportCard_Write(w)
    <3>1. Idle.op = "idle" /\ Idle.todo = <<>>
      BY DEF Idle
    <3> QED BY <2>3, <3>1 DEF HandleGenerateReportCard_Write
  <2> QED BY <2>1, <2>2, <2>3
<1>5. local'[w] = rec /\ \A k \in Goroutines \ {w} : local'[k] = local[k]
  BY <1>1, <1>4, Moved
<1>6. local'[w].op \in {"idle", "card", "cardWrite"} /\ local'[w].todo = <<>>
  BY <1>4, <1>5
<1>7. Ranked(<<>>)
  BY DEF Ranked
<1> QED BY <1>1, <1>3, <1>5, <1>6, <1>7, OneMoves DEF Calculating

LEMMA StepRInv == IInv /\ RInv /\ [Next]_vars => RInv'
<1> SUFFICES ASSUME IInv, RInv, [Next]_vars PROVE RInv'
  OBVIOUS
<1>0. IInv'
  BY StepIInv
<1>1. CASE \E h \in load.handlers :
             \/ \E new \in load.scales : UpsertGradingScales_Delete(h, new)
             \/ UpsertGradingScales_Create(h)
             \/ CalculateResults_Read(h) \/ CalculateResults_Scales(h)
             \/ CalculateResults_Find(h) \/ CalculateResults_Save(h)
             \/ CalculateResults_FindLine(h) \/ CalculateResults_SaveLine(h)
             \/ PublishResults_Write(h) \/ PublishResults_Enqueue(h)
  BY <1>0, <1>1, ScaleMoves, CalculationMoves, PublishMoves, HandlerRInv
<1>2. CASE \E w \in load.workers :
             \/ \E r \in Ids : HandleGenerateReportCard_Read(w, r)
             \/ HandleGenerateReportCard_Lines(w) \/ HandleGenerateReportCard_Write(w)
  BY <1>0, <1>2, WorkerRInv
<1>3. CASE UNCHANGED <<load, local>>
  <2>1. Roles' /\ TodoRanked'
    BY <1>3 DEF RInv, Roles, TodoRanked, Ranked, Before
  <2>2. StillApproved'
    BY <1>0, <1>3, ApprovalMoves DEF RInv, StillApproved
  <2> QED BY <2>1, <2>2 DEF RInv
<1>4. CASE \/ \E s \in load.students : EnterScore(s) \/ ApproveScore(s) \/ RejectScore(s)
           \/ \E h \in load.handlers : \E r \in Rows : UpdateRemarks(h, r) \/ OverrideResult(h, r)
           \/ UNCHANGED vars
  BY <1>3, <1>4 DEF EnterScore, ApproveScore, RejectScore, OverrideResult, UpdateRemarks, vars
<1> QED BY <1>1, <1>2, <1>4 DEF Next

-----------------------------------------------------------------------------
(* One request at a time, without failures. *)

LEMMA OneHandler ==
  ASSUME DataTypes, Serial
  PROVE  \A g, h \in load.handlers : g = h
<1>1. IsFiniteSet(load.handlers) /\ Cardinality(load.handlers) = 1
  BY ResultsAssumption DEF DataTypes, Serial
<1>2. PICK x : load.handlers = {x}
  BY <1>1, FS_Singleton
<1> QED BY <1>2

\* A step with failures, or after one, is not serial.
LEMMA SerialBefore ==
  ASSUME IInv, [Next]_vars, Serial'
  PROVE  Serial /\ load' = load /\ ~Fault /\ faults' = faults
<1>1. faults \in Nat
  BY DEF IInv, Data, DataTypes
<1>2. ~Fault
  BY <1>1 DEF Fault, Serial
<1>3. load' = load /\ faults' = faults
  <2> USE <1>2
  <2>1. CASE \E s \in load.students : EnterScore(s) \/ ApproveScore(s) \/ RejectScore(s)
    BY <2>1 DEF EnterScore, ApproveScore, RejectScore
  <2>2. CASE \E h \in load.handlers :
               \/ \E new \in load.scales : UpsertGradingScales_Delete(h, new)
               \/ UpsertGradingScales_Create(h)
               \/ CalculateResults_Read(h) \/ CalculateResults_Scales(h)
               \/ CalculateResults_Find(h) \/ CalculateResults_Save(h)
    BY <2>2 DEF UpsertGradingScales_Delete, UpsertGradingScales_Create, CalculateResults_Read,
       CalculateResults_Scales, CalculateResults_Find, CalculateResults_Save
  <2>3. CASE \E h \in load.handlers :
               \/ CalculateResults_FindLine(h) \/ CalculateResults_SaveLine(h)
               \/ PublishResults_Write(h) \/ PublishResults_Enqueue(h)
               \/ \E r \in Rows : UpdateRemarks(h, r) \/ OverrideResult(h, r)
    BY <2>3 DEF CalculateResults_FindLine, CalculateResults_SaveLine, PublishResults_Write,
       PublishResults_Enqueue, UpdateRemarks, OverrideResult
  <2>4. CASE \E w \in load.workers :
               \/ \E r \in Ids : HandleGenerateReportCard_Read(w, r)
               \/ HandleGenerateReportCard_Lines(w) \/ HandleGenerateReportCard_Write(w)
    BY <2>4 DEF HandleGenerateReportCard_Read, HandleGenerateReportCard_Lines,
       HandleGenerateReportCard_Write
  <2>5. CASE UNCHANGED vars
    BY <2>5 DEF vars
  <2> QED BY <2>1, <2>2, <2>3, <2>4, <2>5 DEF Next
<1> QED BY <1>2, <1>3 DEF Serial

Serially(h) == Plain(h) /\ Scale(h) /\ (load.returnable = {} => Whole(h))

\* What a handler's step has to keep.
LEMMA SInvBy ==
  ASSUME IInv, load' = load, NEW h \in load.handlers, Serial, Serially(h)'
  PROVE  SInv'
BY OneHandler DEF IInv, Data, SInv, Serially

\* The results as the calculation sees them.
SameResults ==
  \A r \in Ids : /\ results'[r].student = results[r].student
                 /\ results'[r].total = results[r].total
                 /\ results'[r].position = results[r].position
                 /\ results'[r].of = results[r].of

LEMMA SameRows ==
  ASSUME SameResults
  PROVE  /\ Rows' = Rows
         /\ \A S \in SUBSET Ids : AllRanked(S)' <=> AllRanked(S)
         /\ OneRowEach' <=> OneRowEach
         /\ \A s : RowsOf(s)' = RowsOf(s)
<1>1. Rows' = Rows /\ Rows \subseteq Ids
  BY DEF SameResults, Rows
<1>2. \A r, q \in Ids : Before(results'[r], results'[q]) <=> Before(results[r], results[q])
  BY DEF SameResults, Before
<1> QED BY <1>1, <1>2 DEF SameResults, AllRanked, OneRowEach, RowsOf

\* A step of the others, or of an idle handler, that leaves the calculated
\* columns, the lines and the scales.
LEMMA Rests ==
  ASSUME IInv, IInv', NEW h \in load.handlers, Serially(h),
         SameResults, UNCHANGED <<load, lines, scales>>,
         \/ /\ local'[h] = local[h]
            /\ local[h].op = "save" =>
                 \A r \in Ids : /\ results'[r].published = results[r].published
                                /\ results'[r].remark = results[r].remark
         \/ local[h].op \in {"idle", "publishRead"} /\ local'[h].op \in {"idle", "publishRead"}
  PROVE  Serially(h)'
<1>1. /\ h \in Goroutines /\ Data /\ local[h] \in Local
      /\ local[h].id = -1 \/ local[h].id \in Ids
  BY LoadFacts DEF IInv, Data, Doing, Local
<1>2. Rows' = Rows /\ Rows \subseteq Ids
  BY SameRows DEF Rows
<1>3. Plain(h)'
  <2>1. OneRowEach' /\ \A r \in Ids : Len(lines'[r]) <= 1
    BY SameRows DEF Serially, Plain
  <2>2. CASE local'[h].op \in {"idle", "publishRead"}
    BY <2>1, <2>2 DEF Plain
  <2>3. CASE local'[h] = local[h] /\ local'[h].op \notin {"idle", "publishRead"}
    BY <1>1, <2>1, <2>3, SameRows DEF Serially, Plain
  <2> QED BY <2>2, <2>3
<1>4. Scale(h)'
  BY DEF Serially, Scale, Calculating, Sorted
<1>5. load.returnable = {} => Whole(h)'
  <2>1. CASE local'[h].op \notin Calculating
    <3>1. local[h].op \notin Calculating
      BY <2>1 DEF Calculating
    <3>2. local'[h].op \notin {"scales", "findLine", "saveLine"}
      BY <2>1 DEF Calculating
    <3>3. \A bands : GradedBy(bands, Rows)' <=> GradedBy(bands, Rows)
      BY <1>2 DEF GradedBy, calculateGrade
    <3>4. AllRanked(Rows)' <=> AllRanked(Rows)
      BY <1>2, SameRows DEF AllRanked
    <3> QED BY <2>1, <3>1, <3>2, <3>3, <3>4 DEF Serially, Whole, Sorted
  <2>2. CASE local'[h].op \in Calculating
    <3>1. local'[h] = local[h]
      BY <2>2 DEF Calculating
    <3>2. Done(h)' = Done(h) /\ Done(h) \subseteq Ids
      BY <1>2, <3>1 DEF Done, Pending, SameResults
    <3>3. GradedBy(local[h].bands, Done(h))' <=> GradedBy(local[h].bands, Done(h))
      BY <3>1, <3>2 DEF GradedBy, calculateGrade
    <3>4. AllRanked(Done(h))' <=> AllRanked(Done(h))
      BY <3>2 DEF AllRanked, SameResults, Before
    <3>5. \A r \in Done(h) : Before(results'[r], local'[h].todo[1])
                               <=> Before(results[r], local[h].todo[1])
      BY <3>1, <3>2 DEF SameResults, Before
    <3>6. local[h].op \in {"findLine", "saveLine"} => local[h].id \in Ids
      BY <1>1 DEF IInv, Doing, Held
    <3> QED BY <2>2, <3>1, <3>2, <3>3, <3>4, <3>5, <3>6 DEF Serially, Whole, SameResults
  <2> QED BY <2>1, <2>2
<1> QED BY <1>3, <1>4, <1>5 DEF Serially

LEMMA TailAndHead ==
  ASSUME NEW S, NEW q \in Seq(S), q # <<>>
  PROVE  Range(q) = Range(Tail(q)) \cup {Head(q)}
<1>1. Len(q) \in Nat \ {0} /\ DOMAIN q = 1..Len(q)
  OBVIOUS
<1>2. /\ Head(q) = q[1] /\ Head(q) \in Range(q) /\ Range(Tail(q)) \subseteq Range(q)
      /\ Tail(q) \in Seq(S)
  BY TailRange
<1>3. Len(Tail(q)) = Len(q) - 1 /\ \A i \in 1..Len(Tail(q)) : Tail(q)[i] = q[i + 1]
  BY HeadTailProperties
<1>4. ASSUME NEW i \in 1..Len(q), i # 1 PROVE q[i] \in Range(Tail(q))
  <2>1. i - 1 \in 1..Len(Tail(q)) /\ i - 1 + 1 = i
    BY <1>1, <1>3, <1>4
  <2>2. Tail(q)[i - 1] = q[i]
    BY <1>3, <2>1
  <2>3. i - 1 \in DOMAIN Tail(q)
    BY <1>2, <2>1, SeqFacts
  <2> QED BY <2>2, <2>3 DEF Range
<1>5. \A x \in Range(q) : \E i \in 1..Len(q) : x = q[i]
  BY <1>1 DEF Range
<1> QED BY <1>2, <1>4, <1>5

LEMMA ScaleSerial ==
  ASSUME IInv, IInv', NEW h \in load.handlers, Serially(h), ~Fault,
         \/ \E new \in load.scales : UpsertGradingScales_Delete(h, new)
         \/ UpsertGradingScales_Create(h)
  PROVE  Serially(h)'
<1>1. h \in Goroutines /\ local[h] \in Local
  BY LoadFacts DEF IInv, Data, Doing
<1>2. UNCHANGED <<load, results, lines>> /\ SameResults /\ Rows' = Rows
  BY DEF UpsertGradingScales_Delete, UpsertGradingScales_Create, SameResults, Rows
<1>3. local[h].op \in {"idle", "createScale"}
  BY DEF UpsertGradingScales_Delete, UpsertGradingScales_Create, Idle
<1>4. PICK bands : /\ Create(h, bands)
                   /\ \E q \in load.scales \cup {<<>>} : Range(q) = scales' \cup Range(bands)
  <2>1. ASSUME NEW new \in load.scales, UpsertGradingScales_Delete(h, new)
        PROVE  Create(h, new) /\ Range(new) = scales' \cup Range(new) /\ new \in load.scales
    BY <2>1 DEF UpsertGradingScales_Delete
  <2>2. CASE UpsertGradingScales_Create(h)
    <3>1. local[h].bands \in Seq(Bands) /\ local[h].bands # <<>> /\ local[h].op = "createScale"
      BY <1>1, <2>2 DEF IInv, Doing, Local, Held, UpsertGradingScales_Create
    <3>2. PICK q \in load.scales \cup {<<>>} : Range(q) = scales \cup Range(local[h].bands)
      BY <3>1 DEF Serially, Scale
    <3>3. scales' = scales \cup {Head(local[h].bands)} /\ Create(h, Tail(local[h].bands))
      BY <2>2 DEF UpsertGradingScales_Create
    <3>4. Range(local[h].bands) = Range(Tail(local[h].bands)) \cup {Head(local[h].bands)}
      BY <3>1, TailAndHead
    <3>5. Range(q) = scales' \cup Range(Tail(local[h].bands))
      BY <3>2, <3>3, <3>4
    <3> QED BY <3>3, <3>5
  <2> QED BY <2>1, <2>2
<1>5. local'[h] = IF bands = <<>> THEN Idle
                  ELSE [Idle EXCEPT !.op = "createScale", !.bands = bands]
  BY <1>1, <1>4, Moved DEF Create
<1>6. \/ local'[h].op = "idle" /\ bands = <<>>
      \/ local'[h].op = "createScale" /\ local'[h].bands = bands
  BY <1>5 DEF Idle
<1>7. Plain(h)'
  <2>1. local'[h].op \notin {"save", "saveLine"}
    BY <1>6
  <2> QED BY <1>2, <2>1, SameRows DEF Serially, Plain
<1>8. Scale(h)'
  <2>1. Range(<<>>) = {}
    BY DEF Range
  <2>2. \E q \in load.scales \cup {<<>>} :
          Range(q) = IF local'[h].op = "createScale" THEN scales' \cup Range(local'[h].bands)
                     ELSE scales'
    BY <1>4, <1>6, <2>1
  <2>3. local'[h].op \notin Calculating
    BY <1>6 DEF Calculating
  <2> QED BY <1>2, <2>2, <2>3 DEF Scale
<1>9. load.returnable = {} => Whole(h)'
  <2>1. local[h].op \notin Calculating /\ local'[h].op \notin Calculating
        /\ local'[h].op \notin {"scales", "findLine", "saveLine"}
    BY <1>3, <1>6 DEF Calculating
  <2>2. \A b : GradedBy(b, Rows)' <=> GradedBy(b, Rows)
    BY <1>2 DEF GradedBy, calculateGrade
  <2>3. AllRanked(Rows)' <=> AllRanked(Rows)
    BY <1>2 DEF AllRanked
  <2> QED BY <1>2, <2>1, <2>2, <2>3 DEF Serially, Whole, Sorted
<1> QED BY <1>2, <1>7, <1>8, <1>9 DEF Serially

\* The totals read are those of all the students that are counted.
LEMMA AllCounted ==
  ASSUME Data, Counted # {}, NEW order \in Rankings(Counted)
  PROVE  \A s \in Counted : \E i \in DOMAIN StudentTotals(order) :
           StudentTotals(order)[i].student = s
<1> DEFINE n == Cardinality(Counted)
<1>1. IsFiniteSet(Counted) /\ n \in Nat /\ Len(order) = n
  BY TotalsRead, FS_Subset, FS_CardinalityType, ResultsAssumption DEF Counted
<1>2. order \in [1..n -> Counted] /\ \A i, j \in 1..n : i < j => order[i] # order[j]
  BY <1>1, TotalsRead DEF Rankings
<1>3. \A i, j \in 1..n : order[i] = order[j] => i = j
  BY <1>1, <1>2
<1>4. order \in Injection(1..n, Counted)
  BY <1>2, <1>3 DEF Injection, IsInjective
<1>5. IsFiniteSet(1..n) /\ Cardinality(1..n) = n
  BY <1>1, FS_Interval
<1>6. order \in Surjection(1..n, Counted)
  BY <1>1, <1>4, <1>5, FS_Injection
<1>7. \A s \in Counted : \E i \in 1..n : order[i] = s
  BY <1>6 DEF Surjection
<1> QED BY <1>1, <1>7, TotalsRead

LEMMA ReadSerial ==
  ASSUME IInv, IInv', RInv, NEW h \in load.handlers, Serially(h), CalculateResults_Read(h)
  PROVE  Serially(h)'
<1>1. h \in Goroutines /\ local[h] = Idle /\ Data
  BY LoadFacts DEF IInv, Data, CalculateResults_Read
<1>2. UNCHANGED <<load, scores, scales, results, lines>> /\ SameResults /\ Rows' = Rows
  BY DEF CalculateResults_Read, SameResults, Rows
<1>3. PICK order \in Rankings(Counted) :
        Goto(h, [Idle EXCEPT !.op = "scales", !.todo = StudentTotals(order)])
  BY DEF CalculateResults_Read
<1>4. local'[h] = [Idle EXCEPT !.op = "scales", !.todo = StudentTotals(order)]
  BY <1>1, <1>3, Moved
<1>5. local'[h].op = "scales" /\ local'[h].todo = StudentTotals(order) /\ local[h].op = "idle"
  BY <1>1, <1>4 DEF Idle
<1>6. Plain(h)'
  BY <1>2, <1>5, SameRows DEF Serially, Plain
<1>7. Scale(h)'
  BY <1>2, <1>5 DEF Serially, Scale, Calculating
<1>8. ASSUME load.returnable = {} PROVE Whole(h)'
  <2>1. \A r \in Rows : results[r].student \in Counted
    BY <1>8 DEF RInv, StillApproved, Counted, IInv, Data, DataTypes, Rows, Row
  <2>2. \A r \in Rows : results[r].student \in Pending(h)'
    BY <1>1, <1>5, <2>1, AllCounted DEF Pending, CalculateResults_Read
  <2>3. Done(h)' = {}
    BY <1>2, <2>2 DEF Done
  <2> QED BY <1>5, <2>3 DEF Whole, AllRanked, Calculating
<1> QED BY <1>2, <1>6, <1>7, <1>8 DEF Serially

LEMMA ScalesSerial ==
  ASSUME IInv, IInv', NEW h \in load.handlers, Serially(h), ~Fault, CalculateResults_Scales(h)
  PROVE  Serially(h)'
<1>1. h \in Goroutines /\ local[h].op = "scales" /\ local[h] \in Local
  BY LoadFacts DEF IInv, Data, Doing, CalculateResults_Scales
<1>2. UNCHANGED <<load, scales, results, lines>> /\ SameResults /\ Rows' = Rows
  BY DEF CalculateResults_Scales, SameResults, Rows
<1>3. PICK q \in Sorted(scales) : Goto(h, [local[h] EXCEPT !.op = "find", !.bands = q])
  BY DEF CalculateResults_Scales
<1>4. local'[h] = [local[h] EXCEPT !.op = "find", !.bands = q]
  BY <1>1, <1>3, Moved
<1>5. local'[h].op = "find" /\ local'[h].todo = local[h].todo /\ local'[h].bands = q
  BY <1>1, <1>4 DEF Local
<1>6. Plain(h)'
  BY <1>2, <1>5, SameRows DEF Serially, Plain
<1>7. Scale(h)'
  <2>1. PICK sent \in load.scales \cup {<<>>} : Range(sent) = scales
    BY <1>1 DEF Serially, Scale
  <2> QED BY <1>2, <1>5, <2>1 DEF Scale, Sorted
<1>8. ASSUME load.returnable = {} PROVE Whole(h)'
  <2>1. Done(h)' = {}
    BY <1>1, <1>2, <1>5, <1>8 DEF Serially, Whole, Done, Pending
  <2> QED BY <1>5, <2>1 DEF Whole, AllRanked, Calculating, GradedBy
<1> QED BY <1>2, <1>6, <1>7, <1>8 DEF Serially

LEMMA FindSerial ==
  ASSUME IInv, IInv', NEW h \in load.handlers, Serially(h), ~Fault, CalculateResults_Find(h)
  PROVE  Serially(h)'
<1>1. h \in Goroutines /\ local[h].op = "find" /\ local[h] \in Local /\ local[h].op \in Calculating
  BY LoadFacts DEF IInv, Data, Doing, CalculateResults_Find, Calculating
<1>2. UNCHANGED <<load, scales, results, lines>> /\ SameResults /\ Rows' = Rows
  BY DEF CalculateResults_Find, SameResults, Rows
<1>3. PICK row, id :
        /\ Goto(h, [local[h] EXCEPT !.op = "save", !.row = row, !.id = id])
        /\ IF id = -1 THEN RowsOf(local[h].todo[1].student) = {} ELSE row = results[id]
  <2>1. Head(local[h].todo) = local[h].todo[1]
    BY <1>1, CalculatingFacts
  <2>2. \A id \in RowsOf(local[h].todo[1].student) : id # -1
    BY ResultsAssumption DEF RowsOf, Rows
  <2> QED BY <2>1, <2>2 DEF CalculateResults_Find
<1>4. local'[h] = [local[h] EXCEPT !.op = "save", !.row = row, !.id = id]
  BY <1>1, <1>3, Moved
<1>5. /\ local'[h].op = "save" /\ local'[h].todo = local[h].todo /\ local'[h].bands = local[h].bands
      /\ local'[h].row = row /\ local'[h].id = id
  BY <1>1, <1>4 DEF Local
<1>6. Plain(h)'
  <2>1. \A s : RowsOf(s)' = RowsOf(s)
    BY <1>2 DEF RowsOf
  <2> QED BY <1>2, <1>3, <1>5, <2>1, SameRows DEF Serially, Plain
<1>7. Scale(h)'
  BY <1>1, <1>2, <1>5 DEF Serially, Scale, Calculating, Sorted
<1>8. ASSUME load.returnable = {} PROVE Whole(h)'
  <2>1. Done(h)' = Done(h)
    BY <1>2, <1>5 DEF Done, Pending
  <2>2. AllRanked(Done(h))' /\ \A r \in Done(h)' : Before(results'[r], local'[h].todo[1])
    BY <1>1, <1>2, <1>5, <1>8, <2>1 DEF Serially, Whole, AllRanked, Before
  <2>3. GradedBy(local[h].bands, Done(h))'
    BY <1>1, <1>2, <1>5, <1>8, <2>1 DEF Serially, Whole, GradedBy, calculateGrade
  <2> QED BY <1>5, <2>2, <2>3 DEF Whole, Calculating
<1> QED BY <1>2, <1>6, <1>7, <1>8 DEF Serially

LEMMA SaveSerial ==
  ASSUME IInv, IInv', NEW h \in load.handlers, Serially(h), ~Fault, CalculateResults_Save(h)
  PROVE  Serially(h)'
<1> DEFINE st == local[h].todo[1]
<1>1. /\ h \in Goroutines /\ local[h].op = "save" /\ local[h] \in Local
      /\ local[h].op \in Calculating /\ Data /\ DataTypes
  BY LoadFacts DEF IInv, Data, Doing, CalculateResults_Save, Calculating
<1>2. /\ Head(local[h].todo) = st /\ st \in Todo /\ st.student # NoStudent
      /\ local[h].todo # <<>> /\ local[h].todo \in Seq(Todo) /\ Held(local[h])
  BY <1>1, CalculatingFacts
<1>3. UNCHANGED <<load, scales, lines>>
  BY DEF CalculateResults_Save
<1>4. PICK id : /\ \/ id = local[h].id /\ local[h].id # -1
                   \/ id \in Ids \ Rows /\ local[h].id = -1
                /\ results' = [results EXCEPT ![id] = Filled(local[h].row, Head(local[h].todo))]
                /\ Goto(h, [local[h] EXCEPT !.op = "findLine", !.id = id, !.row = NoRow])
  BY DEF CalculateResults_Save
<1>5. /\ id \in Ids
      /\ id \notin Rows => RowsOf(st.student) = {}
      /\ id \in Rows => results[id].student = st.student
  <2>1. CASE id = local[h].id /\ local[h].id # -1
    BY <1>1, <1>2, <2>1 DEF Local, Held, Rows
  <2>2. CASE id \in Ids \ Rows /\ local[h].id = -1
    BY <1>1, <2>2 DEF Serially, Plain
  <2> QED BY <1>4, <2>1, <2>2
<1>6. local'[h] = [local[h] EXCEPT !.op = "findLine", !.id = id, !.row = NoRow]
  BY <1>1, <1>4, Moved
<1>7. /\ local'[h].op = "findLine" /\ local'[h].todo = local[h].todo
      /\ local'[h].bands = local[h].bands /\ local'[h].id = id
  BY <1>1, <1>6 DEF Local
<1>8. /\ results'[id].student = st.student /\ results'[id].position = st.position
      /\ results'[id].total = st.total /\ results'[id].of = st.of
      /\ \A r \in Ids : r # id => results'[r] = results[r]
  <2>1. local[h].row \in Row
    BY <1>1 DEF Local
  <2>2. results'[id] = Filled(local[h].row, st) /\ \A r \in Ids : r # id => results'[r] = results[r]
    BY <1>1, <1>2, <1>4, <1>5 DEF DataTypes
  <2> HIDE DEF st
  <2> QED BY <1>2, <2>1, <2>2 DEF Filled, Row
<1>9. 1 \in DOMAIN local[h].todo /\ st.student \in Pending(h)
  BY <1>2, SeqFacts DEF Pending
<1> HIDE DEF st
<1>10. Rows' = Rows \cup {id} /\ Rows \subseteq Ids
  BY <1>2, <1>5, <1>8 DEF Rows
<1>11. OneRowEach'
  <2>1. \A r \in Rows : r # id => results[r].student # st.student
    BY <1>5 DEF Serially, Plain, OneRowEach, RowsOf
  <2>2. \A r \in Rows : r # id => results'[r].student = results[r].student
    BY <1>8, <1>10
  <2> QED BY <1>8, <1>10, <2>1, <2>2 DEF Serially, Plain, OneRowEach
<1>12. Plain(h)'
  BY <1>3, <1>7, <1>11 DEF Serially, Plain
<1>13. Scale(h)'
  BY <1>1, <1>3, <1>7 DEF Serially, Scale, Calculating, Sorted
<1>14. ASSUME load.returnable = {} PROVE Whole(h)'
  <2>1. Pending(h)' = Pending(h)
    BY <1>7 DEF Pending
  <2>2. id \notin Done(h) /\ Done(h) \subseteq Ids /\ Done(h) \subseteq Rows
    BY <1>5, <1>9, <1>10 DEF Done
  <2>3. Done(h)' = Done(h)
    BY <1>8, <1>9, <1>10, <2>1, <2>2 DEF Done
  <2>4. \A r \in Done(h) : results'[r] = results[r]
    BY <1>8, <2>2
  <2>5. AllRanked(Done(h))' /\ \A r \in Done(h)' : Before(results'[r], local'[h].todo[1])
    BY <1>1, <1>7, <1>14, <2>3, <2>4 DEF Serially, Whole, AllRanked
  <2>6. GradedBy(local[h].bands, Done(h))'
    BY <1>1, <1>3, <1>7, <1>14, <2>3 DEF Serially, Whole, GradedBy, Calculating
  <2> QED BY <1>7, <1>8, <2>5, <2>6 DEF Whole, Calculating, st
<1> QED BY <1>3, <1>12, <1>13, <1>14 DEF Serially

LEMMA FindLineSerial ==
  ASSUME IInv, IInv', NEW h \in load.handlers, Serially(h), ~Fault, CalculateResults_FindLine(h)
  PROVE  Serially(h)'
<1>1. /\ h \in Goroutines /\ local[h].op = "findLine" /\ local[h] \in Local
      /\ local[h].op \in Calculating
  BY LoadFacts DEF IInv, Data, Doing, CalculateResults_FindLine, Calculating
<1>2. UNCHANGED <<load, scales, results, lines>> /\ SameResults /\ Rows' = Rows
  BY DEF CalculateResults_FindLine, SameResults, Rows
<1>3. PICK line : /\ Goto(h, [local[h] EXCEPT !.op = "saveLine", !.line = line])
                  /\ line = 0 => lines[local[h].id] = <<>>
  <2>1. CASE /\ lines[local[h].id] # <<>>
             /\ Goto(h, [local[h] EXCEPT !.op = "saveLine", !.line = 1])
    <3> WITNESS 1
    <3> QED BY <2>1
  <2>2. CASE /\ lines[local[h].id] = <<>>
             /\ Goto(h, [local[h] EXCEPT !.op = "saveLine", !.line = 0])
    <3> WITNESS 0
    <3> QED BY <2>2
  <2> QED BY <2>1, <2>2 DEF CalculateResults_FindLine
<1>4. local'[h] = [local[h] EXCEPT !.op = "saveLine", !.line = line]
  BY <1>1, <1>3, Moved
<1>5. /\ local'[h].op = "saveLine" /\ local'[h].todo = local[h].todo /\ local'[h].id = local[h].id
      /\ local'[h].bands = local[h].bands /\ local'[h].line = line
  BY <1>1, <1>4 DEF Local
<1>6. Plain(h)'
  BY <1>2, <1>3, <1>5, SameRows DEF Serially, Plain
<1>7. Scale(h)'
  BY <1>1, <1>2, <1>5 DEF Serially, Scale, Calculating, Sorted
<1>8. ASSUME load.returnable = {} PROVE Whole(h)'
  <2>1. Done(h)' = Done(h)
    BY <1>2, <1>5 DEF Done, Pending
  <2>2. AllRanked(Done(h))' /\ \A r \in Done(h)' : Before(results'[r], local'[h].todo[1])
    BY <1>1, <1>2, <1>5, <1>8, <2>1 DEF Serially, Whole, AllRanked
  <2>3. GradedBy(local[h].bands, Done(h))'
    BY <1>1, <1>2, <1>5, <1>8, <2>1 DEF Serially, Whole, GradedBy, Calculating
  <2> QED BY <1>1, <1>2, <1>5, <1>8, <2>2, <2>3 DEF Serially, Whole, Calculating
<1> QED BY <1>2, <1>6, <1>7, <1>8 DEF Serially

\* The one line of a row, after it was filled in ...
LEMMA OneLineFilled ==
  ASSUME NEW q \in Seq(Line), Len(q) <= 1, q # <<>>, NEW x \in Line
  PROVE  Len([q EXCEPT ![1] = x]) <= 1 /\ Range([q EXCEPT ![1] = x]) \subseteq {x}
<1>1. Len(q) = 1
  <2>1. PICK n : n = Len(q)
    OBVIOUS
  <2>2. n \in Nat /\ n # 0 /\ n <= 1
    BY <2>1, EmptySeq
  <2>3. n = 1
    BY <2>2
  <2> QED BY <2>1, <2>3
<1>2. 1 \in 1..Len(q)
  BY <1>1
<1>3. PICK p : p = [q EXCEPT ![1] = x]
  OBVIOUS
<1>4. p \in Seq(Line) /\ Len(p) = Len(q) /\ \A j \in 1..Len(q) : p[j] = IF j = 1 THEN x ELSE q[j]
  BY <1>2, <1>3, ExceptSeq
<1>5. DOMAIN p = 1..1
  BY <1>1, <1>4, SeqFacts
<1>6. \A j \in DOMAIN p : p[j] = x
  BY <1>1, <1>4, <1>5
<1>7. Len(p) <= 1 /\ Range(p) \subseteq {x}
  BY <1>1, <1>4, <1>6 DEF Range
<1> QED BY <1>3, <1>7

\* ... or added.
LEMMA OneLineAdded ==
  ASSUME NEW x \in Line, NEW p, p \in {<<x>> \o <<>>, <<>> \o <<x>>}
  PROVE  Len(p) <= 1 /\ Range(p) \subseteq {x}
<1>1. <<x>> \in Seq(Line)
  OBVIOUS
<1>2. <<x>> \o <<>> = <<x>> /\ <<>> \o <<x>> = <<x>>
  BY <1>1, ConcatEmptySeq
<1>3. p = <<x>>
  BY <1>2
<1> QED BY <1>3 DEF Range

\* The line of the student a calculation is at, and how it goes on.
LEMMA LineSaved ==
  ASSUME IInv, NEW h \in Goroutines, Serially(h), ~Fault, CalculateResults_SaveLine(h)
  PROVE  LET id == local[h].id IN
         /\ \A r \in Ids : r # id => lines'[r] = lines[r]
         /\ Len(lines'[id]) <= 1
         /\ \A line \in Range(lines'[id]) : calculateGrade(line.total, local[h].bands, line.grade)
         /\ local'[h] = IF Tail(local[h].todo) = <<>> THEN Idle
                        ELSE [Idle EXCEPT !.op = "find", !.todo = Tail(local[h].todo),
                                          !.bands = local[h].bands]
<1> DEFINE id == local[h].id
<1>1. /\ local[h].op = "saveLine" /\ local[h] \in Local /\ Held(local[h])
      /\ Data /\ DataTypes /\ local[h].todo[1] \in Todo
      /\ Head(local[h].todo) = local[h].todo[1]
  BY CalculatingFacts DEF Calculating, CalculateResults_SaveLine
<1>2. id \in Ids /\ lines[id] \in Seq(Line) /\ Len(lines[id]) <= 1 /\ local[h].line \in {0, 1}
  BY <1>1 DEF Local, Held, DataTypes, Serially, Plain
<1>3. /\ local[h].line = 1 => lines[id] # <<>>
      /\ local[h].line = 0 => lines[id] = <<>>
  BY <1>1 DEF Held, Serially, Plain
<1> HIDE DEF id
<1>4. PICK grade, line, after :
        /\ grade \in Grades
        /\ calculateGrade(local[h].todo[1].total, local[h].bands, grade)
        /\ line = [total |-> local[h].todo[1].total, grade |-> grade]
        /\ lines' = [lines EXCEPT ![id] = after]
        /\ \/ local[h].line = 1 /\ after = [lines[id] EXCEPT ![1] = line]
           \/ local[h].line = 0 /\ after \in {<<line>> \o lines[id], lines[id] \o <<line>>}
  BY <1>1 DEF CalculateResults_SaveLine, id
<1>5. line \in Line /\ line.total = local[h].todo[1].total /\ line.grade = grade
  BY <1>1, <1>4 DEF Line, Todo
<1>6. lines'[id] = after /\ \A r \in Ids : r # id => lines'[r] = lines[r]
  BY <1>1, <1>2, <1>4 DEF DataTypes
<1>7. Len(after) <= 1 /\ Range(after) \subseteq {line}
  <2>1. CASE local[h].line = 1 /\ after = [lines[id] EXCEPT ![1] = line]
    <3>1. Len([lines[id] EXCEPT ![1] = line]) <= 1 /\ Range([lines[id] EXCEPT ![1] = line]) \subseteq {line}
      BY <1>2, <1>3, <1>5, <2>1, OneLineFilled
    <3> QED BY <2>1, <3>1
  <2>2. CASE local[h].line = 0 /\ after \in {<<line>> \o lines[id], lines[id] \o <<line>>}
    <3>1. after \in {<<line>> \o <<>>, <<>> \o <<line>>}
      BY <1>3, <2>2
    <3> QED BY <1>5, <3>1, OneLineAdded
  <2> QED BY <1>4, <2>1, <2>2
<1>8. local'[h] = IF Tail(local[h].todo) = <<>> THEN Idle
                  ELSE [Idle EXCEPT !.op = "find", !.todo = Tail(local[h].todo),
                                    !.bands = local[h].bands]
  <2>1. PICK rec : /\ rec = IF Tail(local[h].todo) = <<>> THEN Idle
                             ELSE [Idle EXCEPT !.op = "find", !.todo = Tail(local[h].todo),
                                               !.bands = local[h].bands]
                   /\ Goto(h, rec)
    BY DEF CalculateResults_SaveLine
  <2> QED BY <2>1, Moved
<1> QED BY <1>4, <1>5, <1>6, <1>7, <1>8 DEF id

LEMMA Numbers == (\A n \in Nat : n \in Int) /\ \A m \in Marks \cup {0} : m \in Int
BY ResultsAssumption

LEMMA SaveLineSerial ==
  ASSUME IInv, IInv', RInv, NEW h \in load.handlers, Serially(h), ~Fault,
         CalculateResults_SaveLine(h)
  PROVE  Serially(h)'
<1> DEFINE st == local[h].todo[1]
           id == local[h].id
           rest == Tail(local[h].todo)
<1>1. /\ h \in Goroutines /\ local[h].op = "saveLine" /\ local[h] \in Local
      /\ local[h].op \in Calculating /\ Held(local[h])
  BY LoadFacts DEF IInv, Data, Doing, CalculateResults_SaveLine, Calculating
<1>2. /\ local[h].todo \in Seq(Todo) /\ local[h].todo # <<>> /\ rest \in Seq(Todo)
      /\ id \in Ids /\ id \in Rows /\ results[id].student = st.student
  <2>1. st.student # NoStudent
    BY <1>1, CalculatingFacts
  <2> QED BY <1>1, <2>1, CalculatingFacts DEF Held, Local, Rows
<1>3. UNCHANGED <<load, scales, results>> /\ SameResults /\ Rows' = Rows /\ Rows \subseteq Ids
  BY DEF CalculateResults_SaveLine, SameResults, Rows
<1>4. /\ \A r \in Ids : r # id => lines'[r] = lines[r]
      /\ Len(lines'[id]) <= 1
      /\ \A line \in Range(lines'[id]) : calculateGrade(line.total, local[h].bands, line.grade)
      /\ local'[h] = IF rest = <<>> THEN Idle
                     ELSE [Idle EXCEPT !.op = "find", !.todo = rest, !.bands = local[h].bands]
  BY <1>1, LineSaved
<1>5. /\ local'[h].todo = rest
      /\ IF rest = <<>> THEN local'[h].op = "idle"
         ELSE local'[h].op = "find" /\ local'[h].bands = local[h].bands
  <2>1. CASE rest = <<>>
    <3>1. local'[h] = Idle
      BY <1>4, <2>1
    <3> QED BY <2>1, <3>1 DEF Idle
  <2>2. CASE rest # <<>>
    <3>1. PICK t : t = rest
      OBVIOUS
    <3>2. local'[h] = [Idle EXCEPT !.op = "find", !.todo = t, !.bands = local[h].bands]
      BY <1>4, <2>2, <3>1
    <3>3. local'[h].todo = t /\ local'[h].op = "find" /\ local'[h].bands = local[h].bands
      BY <3>2 DEF Idle
    <3> QED BY <2>2, <3>1, <3>3
  <2> QED BY <2>1, <2>2
<1>6. Plain(h)'
  <2>1. \A r \in Ids : Len(lines'[r]) <= 1
    BY <1>4 DEF Serially, Plain
  <2> QED BY <1>3, <1>5, <2>1, SameRows DEF Serially, Plain
<1>7. Scale(h)'
  BY <1>1, <1>3, <1>5 DEF Serially, Scale, Calculating, Sorted
<1>8. \A r \in Rows : r # id => results[r].student # st.student
  BY <1>2 DEF Serially, Plain, OneRowEach
<1>9. ASSUME load.returnable = {} PROVE Whole(h)'
  <2>1. Ranked(local[h].todo)
    BY <1>1 DEF RInv, TodoRanked
  <2>2. /\ \A i \in DOMAIN rest : i + 1 \in DOMAIN local[h].todo /\ rest[i] = local[h].todo[i + 1]
        /\ DOMAIN local[h].todo = 1..Len(local[h].todo) /\ Len(local[h].todo) \in Nat \ {0}
        /\ Len(rest) = Len(local[h].todo) - 1 /\ DOMAIN rest = 1..Len(rest)
    BY <1>2, TailRange, HeadTailProperties, SeqFacts
  <2>3. \A i \in DOMAIN rest : rest[i].student # st.student /\ Before(st, rest[i])
    <3> TAKE i \in DOMAIN rest
    <3>1. 1 \in DOMAIN local[h].todo /\ i + 1 \in DOMAIN local[h].todo /\ 1 < i + 1
      BY <2>2
    <3> QED BY <2>1, <2>2, <3>1 DEF Ranked
  <2>4. Pending(h)' = Pending(h) \ {st.student} /\ st.student \in Pending(h)
    <3>1. Pending(h)' = {rest[i].student : i \in DOMAIN rest}
      BY <1>5 DEF Pending
    <3>2. \A i \in DOMAIN local[h].todo : i # 1 =>
            i - 1 \in DOMAIN rest /\ rest[i - 1] = local[h].todo[i]
      BY <2>2
    <3>3. ASSUME NEW x \in Pending(h)' PROVE x \in Pending(h) /\ x # st.student
      <4>1. PICK i \in DOMAIN rest : x = rest[i].student
        BY <3>1
      <4>2. i + 1 \in DOMAIN local[h].todo /\ x = local[h].todo[i + 1].student
        BY <2>2, <4>1
      <4>3. x \in Pending(h)
        BY <4>2 DEF Pending
      <4> QED BY <2>3, <4>1, <4>3
    <3>4. ASSUME NEW x \in Pending(h), x # st.student PROVE x \in Pending(h)'
      <4>1. PICK i \in DOMAIN local[h].todo : x = local[h].todo[i].student
        BY DEF Pending
      <4>2. i # 1
        BY <3>4, <4>1
      <4>3. i - 1 \in DOMAIN rest /\ rest[i - 1].student = x
        BY <3>2, <4>1, <4>2
      <4> QED BY <3>1, <4>3
    <3>5. 1 \in DOMAIN local[h].todo
      BY <2>2
    <3> QED BY <3>3, <3>4, <3>5 DEF Pending
  <2>5. Done(h)' = Done(h) \cup {id} /\ id \notin Done(h) /\ Done(h) \subseteq Ids
    BY <1>2, <1>3, <1>8, <2>4 DEF Done
  <2>6. /\ AllRanked(Done(h)) /\ \A r \in Done(h) : Before(results[r], st)
        /\ GradedBy(local[h].bands, Done(h))
        /\ results[id].position = st.position /\ results[id].total = st.total
        /\ results[id].of = st.of
    BY <1>1, <1>9 DEF Serially, Whole, Calculating
  <2>7. \A r \in Done(h) : Before(results[r], results[id])
    BY <2>6 DEF Before
  <2>8. AllRanked(Done(h))'
    BY <1>3, <2>5, <2>6, <2>7 DEF AllRanked
  <2>9. \A r \in Done(h)' : \A line \in Range(lines'[r]) :
          calculateGrade(line.total, local[h].bands, line.grade)
    BY <1>4, <2>5, <2>6 DEF GradedBy
  <2>10. CASE rest = <<>>
    <3>1. Done(h)' = Rows
      BY <1>3, <1>5, <2>10 DEF Done, Pending
    <3>2. PICK q \in load.scales \cup {<<>>} : local[h].bands \in Sorted(Range(q))
      BY <1>1 DEF Serially, Scale, Calculating
    <3>3. \E bands \in Sorted(Range(q)) : \A r \in Rows' : \A line \in Range(lines'[r]) :
            calculateGrade(line.total, bands, line.grade)
      BY <1>3, <2>9, <3>1, <3>2
    <3>4. local'[h].op \notin Calculating /\ local'[h].op = "idle"
      BY <1>5, <2>10 DEF Calculating
    <3> QED BY <1>3, <2>8, <3>1, <3>2, <3>3, <3>4 DEF Whole, Sorted, GradedBy, Calculating
  <2>11. CASE rest # <<>>
    <3>1. 1 \in DOMAIN rest /\ rest[1] = local'[h].todo[1] /\ rest[1] \in Todo
      BY <1>2, <1>5, <2>2, <2>11
    <3>2. \A r \in Done(h) : Before(results[r], rest[1])
      <4>1. Before(st, rest[1]) /\ st \in Todo
        BY <1>1, <2>3, <3>1, CalculatingFacts
      <4>2. \A r \in Done(h) : results[r] \in Row
        BY <2>5 DEF IInv, Data, DataTypes
      <4>3. /\ st.position \in Int /\ st.total \in Int
            /\ rest[1].position \in Int /\ rest[1].total \in Int
        <5>1. /\ st.position \in Nat /\ st.total \in Marks
              /\ rest[1].position \in Nat /\ rest[1].total \in Marks
          <6> HIDE DEF st, rest
          <6> QED BY <3>1, <4>1 DEF Todo
        <5> QED BY <5>1, Numbers
      <4>4. \A r \in Done(h) : results[r].position \in Int /\ results[r].total \in Int
        <5>1. \A r \in Done(h) : results[r].position \in Nat /\ results[r].total \in Marks \cup {0}
          BY <4>2 DEF Row
        <5> QED BY <5>1, Numbers
      <4> HIDE DEF st, rest
      <4> TAKE r \in Done(h)
      <4>5. Before(results[r], st)
        BY <2>6
      <4> QED BY <4>1, <4>3, <4>4, <4>5 DEF Before
    <3>3. Before(results[id], rest[1])
      BY <2>3, <2>6, <3>1 DEF Before
    <3>4. \A r \in Done(h)' : Before(results'[r], local'[h].todo[1])
      BY <1>3, <2>5, <3>1, <3>2, <3>3
    <3>5. GradedBy(local[h].bands, Done(h))'
      BY <1>5, <2>9, <2>11 DEF GradedBy
    <3>6. local'[h].op = "find"
      BY <1>5, <2>11
    <3> QED BY <2>8, <3>4, <3>5, <3>6 DEF Whole, Calculating
  <2> QED BY <2>10, <2>11
<1> QED BY <1>3, <1>6, <1>7, <1>9 DEF Serially

-----------------------------------------------------------------------------
(* Every serial step, and what follows. *)

\* A row after people, or the report card task, set a flag of it.
ByHand(row) == {row, [row EXCEPT !.published = TRUE], [row EXCEPT !.remark = TRUE]}
ByTask(row) == {row, [row EXCEPT !.generated = TRUE]}

LEMMA FlagsRest ==
  ASSUME NEW row \in Row, NEW new \in ByHand(row) \cup ByTask(row)
  PROVE  /\ new.student = row.student /\ new.total = row.total
         /\ new.position = row.position /\ new.of = row.of
         /\ row.published => new.published
         /\ row.remark => new.remark
         /\ new \in ByTask(row) => new.published = row.published /\ new.remark = row.remark
<1>1. CASE new \in ByHand(row) \ ByTask(row)
  BY <1>1 DEF Row, ByHand
<1>2. CASE new \in ByTask(row)
  BY <1>2 DEF Row, ByTask
<1> QED BY <1>1, <1>2

\* Publishing and remarks.
LEMMA OfficeSerial ==
  ASSUME IInv, IInv', NEW h \in load.handlers, Serially(h), ~Fault,
         \/ PublishResults_Write(h) \/ PublishResults_Enqueue(h)
         \/ \E r \in Rows : UpdateRemarks(h, r) \/ OverrideResult(h, r)
  PROVE  Serially(h)' /\ \A r \in Ids : /\ results[r].published => results'[r].published
                                        /\ results[r].remark => results'[r].remark
<1>1. h \in Goroutines /\ results \in [Ids -> Row] /\ Rows \subseteq Ids
  BY LoadFacts DEF IInv, Data, DataTypes, Rows
<1>2. \A r \in Ids : results'[r] \in ByHand(results[r])
  BY <1>1 DEF ByHand, PublishResults_Write, PublishResults_Enqueue, UpdateRemarks, OverrideResult
<1>3. SameResults /\ \A r \in Ids : /\ results[r].published => results'[r].published
                                    /\ results[r].remark => results'[r].remark
  BY <1>1, <1>2, FlagsRest DEF SameResults
<1>4. UNCHANGED <<load, lines, scales>>
  BY DEF PublishResults_Write, PublishResults_Enqueue, UpdateRemarks, OverrideResult
<1>5. /\ local[h].op \in {"idle", "publishRead"}
      /\ local'[h].op \in {"idle", "publishRead"}
  <2>1. CASE PublishResults_Write(h)
    <3>1. local[h] = Idle /\ Goto(h, [Idle EXCEPT !.op = "publishRead"])
      BY <2>1 DEF PublishResults_Write
    <3>2. local'[h] = [Idle EXCEPT !.op = "publishRead"]
      BY <1>1, <3>1, Moved
    <3> QED BY <3>1, <3>2 DEF Idle
  <2>2. CASE PublishResults_Enqueue(h)
    <3>1. local[h].op = "publishRead" /\ Goto(h, Idle)
      BY <2>2 DEF PublishResults_Enqueue
    <3> QED BY <1>1, <3>1, Moved DEF Idle
  <2>3. CASE \E r \in Rows : UpdateRemarks(h, r) \/ OverrideResult(h, r)
    BY <2>3 DEF UpdateRemarks, OverrideResult, Idle
  <2> QED BY <2>1, <2>2, <2>3
<1> QED BY <1>3, <1>4, <1>5, Rests

\* The score sheet and the report cards.
LEMMA OthersSerial ==
  ASSUME IInv, IInv', NEW h \in load.handlers, Serially(h),
         \/ \E s \in load.students : EnterScore(s) \/ ApproveScore(s) \/ RejectScore(s)
         \/ \E w \in load.workers :
              \/ \E r \in Ids : HandleGenerateReportCard_Read(w, r)
              \/ HandleGenerateReportCard_Lines(w) \/ HandleGenerateReportCard_Write(w)
         \/ UNCHANGED vars
  PROVE  Serially(h)' /\ \A r \in Ids : /\ results'[r].published = results[r].published
                                        /\ results'[r].remark = results[r].remark
<1>1. h \in Goroutines /\ h \in Handlers /\ results \in [Ids -> Row]
      /\ load.workers \subseteq Goroutines /\ load.workers \subseteq Workers
  <2>1. load.workers \subseteq Workers
    BY ResultsAssumption DEF IInv, Data, DataTypes
  <2> QED BY <2>1, LoadFacts DEF IInv, Data, DataTypes
<1>2. \A r \in Ids : results'[r] \in ByTask(results[r])
  BY <1>1 DEF ByTask, EnterScore, ApproveScore, RejectScore, HandleGenerateReportCard_Read,
     HandleGenerateReportCard_Lines, HandleGenerateReportCard_Write, vars
<1>3. SameResults /\ \A r \in Ids : /\ results'[r].published = results[r].published
                                    /\ results'[r].remark = results[r].remark
  BY <1>1, <1>2, FlagsRest DEF SameResults
<1>4. UNCHANGED <<load, lines, scales>>
  BY DEF EnterScore, ApproveScore, RejectScore, HandleGenerateReportCard_Read,
     HandleGenerateReportCard_Lines, HandleGenerateReportCard_Write, vars
<1>5. local'[h] = local[h]
  <2>1. CASE UNCHANGED local
    BY <2>1
  <2>2. CASE \E w \in load.workers :
              \/ \E r \in Ids : HandleGenerateReportCard_Read(w, r)
              \/ HandleGenerateReportCard_Lines(w) \/ HandleGenerateReportCard_Write(w)
    <3>1. PICK w \in load.workers : \E rec : Goto(w, rec)
      BY <2>2 DEF HandleGenerateReportCard_Read, HandleGenerateReportCard_Lines,
         HandleGenerateReportCard_Write
    <3>2. w # h
      BY <1>1, ResultsAssumption
    <3> QED BY <1>1, <3>1, <3>2, Moved
  <2> QED BY <2>1, <2>2 DEF EnterScore, ApproveScore, RejectScore, vars
<1> QED BY <1>3, <1>4, <1>5, Rests

LEMMA InitSInv == Init => SInv
<1> SUFFICES ASSUME Init, NEW h \in load.handlers PROVE Serially(h)
  BY DEF SInv, Serially
<1>1. Rows = {}
  BY RowFacts DEF Init, Rows
<1>2. local[h] = Idle
  <2>1. h \in Handlers
    BY ResultsAssumption DEF Init
  <2> QED BY <2>1 DEF Init
<1>3. local[h].op = "idle"
  BY <1>2 DEF Idle
<1>4. Range(<<>>) = {} /\ scales = {} /\ <<>> \in load.scales \cup {<<>>}
  BY DEF Range, Init
<1>5. \A r \in Ids : Len(lines[r]) <= 1
  BY DEF Init
<1>6. Plain(h)
  BY <1>1, <1>3, <1>5 DEF Plain, OneRowEach
<1>7. Scale(h)
  BY <1>3, <1>4 DEF Scale, Calculating
<1>8. \E bands \in Sorted({}) : TRUE
  <2> DEFINE q == [i \in 1..0 |-> i]
  <2>1. Cardinality({}) = 0
    BY FS_EmptySet
  <2>2. q \in [1..Cardinality({}) -> {}] /\ \A i \in DOMAIN q : FALSE
    BY <2>1
  <2>3. q \in Sorted({})
    BY <2>2 DEF Sorted
  <2> QED BY <2>3
<1>9. Whole(h)
  <2>1. \E q \in load.scales \cup {<<>>} : \E bands \in Sorted(Range(q)) : GradedBy(bands, Rows)
    BY <1>1, <1>4, <1>8 DEF GradedBy
  <2> QED BY <1>1, <1>3, <2>1 DEF Whole, AllRanked, Calculating
<1> QED BY <1>6, <1>7, <1>9 DEF Serially

LEMMA StepSInv == IInv /\ RInv /\ SInv /\ [Next]_vars => SInv'
<1> SUFFICES ASSUME IInv, RInv, SInv, [Next]_vars, Serial' PROVE SInv'
  BY DEF SInv
<1>1. Serial /\ load' = load /\ ~Fault
  BY SerialBefore
<1>2. IInv'
  BY StepIInv
<1>3. \A h \in load.handlers : Serially(h)
  BY <1>1 DEF SInv, Serially
<1>4. CASE \E h \in load.handlers :
             \/ \E new \in load.scales : UpsertGradingScales_Delete(h, new)
             \/ UpsertGradingScales_Create(h)
             \/ CalculateResults_Read(h) \/ CalculateResults_Scales(h)
             \/ CalculateResults_Find(h) \/ CalculateResults_Save(h)
             \/ CalculateResults_FindLine(h) \/ CalculateResults_SaveLine(h)
             \/ PublishResults_Write(h) \/ PublishResults_Enqueue(h)
             \/ \E r \in Rows : UpdateRemarks(h, r) \/ OverrideResult(h, r)
  <2>1. PICK h \in load.handlers :
             \/ \E new \in load.scales : UpsertGradingScales_Delete(h, new)
             \/ UpsertGradingScales_Create(h)
             \/ CalculateResults_Read(h) \/ CalculateResults_Scales(h)
             \/ CalculateResults_Find(h) \/ CalculateResults_Save(h)
             \/ CalculateResults_FindLine(h) \/ CalculateResults_SaveLine(h)
             \/ PublishResults_Write(h) \/ PublishResults_Enqueue(h)
             \/ \E r \in Rows : UpdateRemarks(h, r) \/ OverrideResult(h, r)
    BY <1>4
  <2>2. Serially(h)'
    BY <1>1, <1>2, <1>3, <2>1, ScaleSerial, ReadSerial, ScalesSerial, FindSerial, SaveSerial,
       FindLineSerial, SaveLineSerial, OfficeSerial
  <2> QED BY <1>1, <2>2, SInvBy
<1>5. CASE \/ \E s \in load.students : EnterScore(s) \/ ApproveScore(s) \/ RejectScore(s)
           \/ \E w \in load.workers :
                \/ \E r \in Ids : HandleGenerateReportCard_Read(w, r)
                \/ HandleGenerateReportCard_Lines(w) \/ HandleGenerateReportCard_Write(w)
           \/ UNCHANGED vars
  <2>1. \A h \in load.handlers : Serially(h)'
    BY <1>2, <1>3, <1>5, OthersSerial
  <2> QED BY <1>1, <2>1 DEF SInv, Serially
<1> QED BY <1>4, <1>5 DEF Next

LEMMA AlwaysSInv == Spec => [](IInv /\ RInv /\ SInv)
<1>1. Init => IInv /\ RInv /\ SInv
  BY InitIInv, InitRInv, InitSInv
<1>2. IInv /\ RInv /\ SInv /\ [Next]_vars => (IInv /\ RInv /\ SInv)'
  BY StepIInv, StepRInv, StepSInv
<1> QED BY <1>1, <1>2, PTL DEF Spec

\* What is known of a serial load between two requests.
LEMMA BetweenRequests ==
  ASSUME IInv, SInv, Serial, load.returnable = {}, \A h \in Handlers : local[h] = Idle
  PROVE  /\ AllRanked(Rows)
         /\ \E q \in load.scales \cup {<<>>} : \E bands \in Sorted(Range(q)) : GradedBy(bands, Rows)
<1>1. PICK h : h \in load.handlers
  <2>1. load.handlers # {}
    BY FS_EmptySet DEF Serial
  <2> QED BY <2>1
<1>2. h \in Handlers
  BY <1>1, LoadFacts DEF IInv, Data
<1>3. local[h].op = "idle" /\ Whole(h)
  BY <1>1, <1>2 DEF SInv, Idle
<1> QED BY <1>3 DEF Whole, Calculating

\* For any class whose requests are served one at a time: between them the
\* positions of all results are one ranking of their totals
\* (services/results.go:94-102), however often the calculation ran, whatever
\* was published and remarked on in between, and whichever marks came in since.
THEOREM PositionsAreARanking == Spec => []RankingConsistent
<1>1. IInv /\ SInv => RankingConsistent
  <2> SUFFICES ASSUME IInv, SInv, Serial, load.returnable = {}, \A h \in Handlers : local[h] = Idle,
                      NEW r \in Rows, NEW q \in Rows, r # q
               PROVE  /\ results[r].position # results[q].position
                      /\ results[r].total > results[q].total =>
                           results[r].position < results[q].position
                      /\ results[r].of = results[q].of
    BY DEF RankingConsistent
  <2>1. Before(results[r], results[q]) \/ Before(results[q], results[r])
    BY BetweenRequests DEF AllRanked
  <2>2. results[r] \in Row /\ results[q] \in Row
    BY DEF IInv, Data, DataTypes, Rows
  <2>3. /\ results[r].position \in Nat /\ results[q].position \in Nat
        /\ results[r].total \in Marks \cup {0} /\ results[q].total \in Marks \cup {0}
    BY <2>2 DEF Row
  <2>4. /\ results[r].position \in Int /\ results[q].position \in Int
        /\ results[r].total \in Int /\ results[q].total \in Int
    BY <2>3, Numbers
  <2> QED BY <2>1, <2>4 DEF Before
<1> QED BY <1>1, AlwaysSInv, PTL

\* Whatever overlaps or fails, a mark has the grade of a band that was sent and
\* holds it, or an F (services/results.go:225-233); with requests one at a time
\* the class is graded by one whole scale, though UpsertGradingScales replaces
\* it row by row (handlers/settings.go:173-186).
THEOREM GradesComeFromOneScale == Spec => []GradedByWholeScale
<1>1. IInv /\ SInv => GradedByWholeScale
  <2> SUFFICES ASSUME IInv, SInv PROVE GradedByWholeScale
    OBVIOUS
  <2>1. ASSUME NEW r \in Rows, NEW line \in Range(lines[r])
        PROVE  \/ line.grade = "F"
               \/ \E q \in load.scales : \E b \in Range(q) :
                    Holds(b, line.total) /\ line.grade = b.grade
    BY DEF IInv, Data, GradesSent, Sent
  <2>2. ASSUME Serial, load.returnable = {}, \A h \in Handlers : local[h] = Idle
        PROVE  \E q \in load.scales \cup {<<>>} : \E bands \in Sorted(Range(q)) :
                 \A r \in Rows : \A line \in Range(lines[r]) :
                   calculateGrade(line.total, bands, line.grade)
    BY <2>2, BetweenRequests DEF GradedBy
  <2> QED BY <2>1, <2>2 DEF GradedByWholeScale
<1> QED BY <1>1, AlwaysSInv, PTL

\* The full-row Save of a calculation (services/results.go:163-182) takes
\* nothing of what people wrote into a result: requests served one at a time,
\* it stays published and keeps its remark in every step.
THEOREM HandWorkIsKept == Spec => HandWorkKept
<1> DEFINE Kept == \A r \in Ids : /\ results[r].published => results'[r].published
                                  /\ results[r].remark => results'[r].remark
<1>1. IInv /\ RInv /\ SInv /\ [Next]_vars => [Serial => Kept]_vars
  <2> SUFFICES ASSUME IInv, RInv, SInv, [Next]_vars, Serial PROVE Kept
    OBVIOUS
  <2>1. CASE UNCHANGED results
    BY <2>1
  <2>2. ASSUME NEW h \in load.handlers, CalculateResults_Save(h) PROVE Kept
    <3>1. /\ h \in Goroutines /\ local[h].op = "save" /\ local[h] \in Local /\ local[h].row \in Row
          /\ results \in [Ids -> Row] /\ Plain(h)
      BY <2>2, LoadFacts DEF IInv, Data, DataTypes, Doing, Local, CalculateResults_Save, SInv
    <3> DEFINE row == Filled(local[h].row, Head(local[h].todo))
    <3>2. row.published = local[h].row.published /\ row.remark = local[h].row.remark
      BY <3>1 DEF Filled, Row
    <3> HIDE DEF row
    <3>3. CASE local[h].id # -1 /\ results' = [results EXCEPT ![local[h].id] = row]
      <4>1. local[h].row.published = results[local[h].id].published
            /\ local[h].row.remark = results[local[h].id].remark
        BY <3>1, <3>3 DEF Plain
      <4> QED BY <3>1, <3>2, <3>3, <4>1
    <3>4. CASE \E id \in Ids \ Rows : results' = [results EXCEPT ![id] = row]
      <4>1. PICK id \in Ids \ Rows : results' = [results EXCEPT ![id] = row]
        BY <3>4
      <4>2. ~results[id].published /\ ~results[id].remark
        BY RowFacts DEF IInv, Data, DataTypes
      <4> QED BY <3>1, <4>1, <4>2
    <3>5. CASE UNCHANGED results
      BY <3>5
    <3> QED BY <2>2, <3>3, <3>4, <3>5 DEF CalculateResults_Save, row
  <2>3. ASSUME NEW h \in load.handlers,
               \/ PublishResults_Write(h)
               \/ \E r \in Rows : UpdateRemarks(h, r) \/ OverrideResult(h, r)
        PROVE  Kept
    <3>1. results \in [Ids -> Row] /\ Rows \subseteq Ids
      BY DEF IInv, Data, DataTypes, Rows
    <3>2. \A r \in Ids : results'[r] \in ByHand(results[r])
      BY <2>3, <3>1 DEF ByHand, PublishResults_Write, UpdateRemarks, OverrideResult
    <3> QED BY <3>1, <3>2, FlagsRest
  <2>4. ASSUME NEW w \in load.workers, HandleGenerateReportCard_Write(w) PROVE Kept
    <3>1. results \in [Ids -> Row]
      BY DEF IInv, Data, DataTypes
    <3>2. \A r \in Ids : results'[r] \in ByTask(results[r])
      BY <2>4, <3>1 DEF ByTask, HandleGenerateReportCard_Write
    <3> QED BY <3>1, <3>2, FlagsRest
  <2> QED BY <2>1, <2>2, <2>3, <2>4
      DEF Next, EnterScore, ApproveScore, RejectScore, UpsertGradingScales_Delete,
          UpsertGradingScales_Create, CalculateResults_Read, CalculateResults_Scales,
          CalculateResults_Find, CalculateResults_FindLine, CalculateResults_SaveLine,
          PublishResults_Enqueue, HandleGenerateReportCard_Read, HandleGenerateReportCard_Lines,
          vars
<1> QED BY <1>1, AlwaysSInv, PTL DEF Spec, HandWorkKept

=============================================================================
