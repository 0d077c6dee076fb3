----------------------------- MODULE QuizProofs -----------------------------
(***************************************************************************)
(* Proofs about Quiz, for any numbers of students, rows, requests, workers *)
(* failures and crashes: type correctness, that the tab-switch limit is    *)
(* enforced, that a submitted attempt is never reopened; in the second     *)
(* part, that the backup of an open attempt is armed unless a failure or a *)
(* crash lost it, that who was told "submitted" is submitted, and that the *)
(* answers of a submitted attempt are frozen; and in the third, that every *)
(* step is one QuizSitting allows, from which it follows that requests     *)
(* served one at a time without a failure give each student one attempt.   *)
(***************************************************************************)
EXTENDS Quiz, TLAPS

\* A goroutine past its first statement works for an existing row or for a
\* student.
Bound ==
  \A p \in Handlers \cup Workers :
    /\ local[p].op \in {"startEnqueue", "violationWrite", "submitWrite", "autoWrite"}
         => local[p].att \in Rows
    /\ local[p].op \in {"startCheck", "startCreate"} => local[p].student \in Students

\* Every queued auto-submit is for an existing row, and only such a row can
\* be submitted: an insert never meets a row that is.
Referential ==
  /\ \A t \in jobs : t.type = "autoSubmit" => t.row \in Rows
  /\ \A a \in Attempts \ Rows : ~attempts[a].submitted

\* What LogViolation read is still true when it writes: submitted_at, once
\* seen, is still set.  This is why its stale test is harmless.
FreshSnapshot ==
  \A h \in Handlers :
    local[h].op = "violationWrite" /\ local[h].submitted
      => attempts[local[h].att].submitted

IInv == TypeOK /\ Bound /\ Referential /\ FreshSnapshot /\ LimitEnforced

-----------------------------------------------------------------------------
\* Retrying a task keeps the queue a set of tasks.
LEMMA RetryType ==
  ASSUME NEW q \in SUBSET Tasks, NEW t \in q
  PROVE  Retry(q, t) \in SUBSET Tasks
<1>1. t \in Tasks
  OBVIOUS
<1>2. t.left > 0 => [t EXCEPT !.left = t.left - 1] \in Tasks
  BY <1>1 DEF Tasks
<1> QED
  BY <1>2 DEF Retry

\* The constant records have their types.
LEMMA IdleType == Idle \in Local
<1>1. NoViolations \in [Kinds -> Nat]
  BY DEF NoViolations
<1> QED
  BY <1>1, QuizAssumption DEF Idle, Local, HandlerOps

LEMMA RowTypes == NoRow \in Attempt /\ \A s \in Students : NewAttempt(s) \in Attempt
<1>1. NoViolations \in [Kinds -> Nat]
  BY DEF NoViolations
<1>2. NoRow \in Attempt
  BY <1>1, QuizAssumption DEF NoRow, Attempt
<1>3. ASSUME NEW s \in Students PROVE NewAttempt(s) \in Attempt
  BY <1>2 DEF NewAttempt, Attempt
<1> QED
  BY <1>2, <1>3

LEMMA TaskTypes ==
  /\ TaskStart \in Tasks /\ TaskEnd \in Tasks
  /\ \A a \in Attempts : TaskAutoSubmit(a) \in Tasks
<1>1. TaskStart \in Tasks /\ TaskEnd \in Tasks
  BY DEF TaskStart, TaskEnd, Task, Tasks
<1>2. ASSUME NEW a \in Attempts PROVE TaskAutoSubmit(a) \in Tasks
  BY DEF TaskAutoSubmit, Task, Tasks
<1> QED
  BY <1>1, <1>2

\* A new row and the row that does not exist record no tab switch.
LEMMA NoTabs ==
  /\ TabSwitches(NoRow.violations) = 0
  /\ \A s \in Students : TabSwitches(NewAttempt(s).violations) = 0
  BY DEF TabSwitches, NoRow, NewAttempt, NoViolations, Kinds

-----------------------------------------------------------------------------
LEMMA InitIInv == Init => IInv
<1> SUFFICES ASSUME Init PROVE IInv
  OBVIOUS
<1>1. TypeOK
  BY IdleType, RowTypes, QuizAssumption
  DEF Init, TypeOK, Status, Idle, HandlerOps, WorkerOps
<1>2. Bound /\ Referential /\ FreshSnapshot
  BY DEF Init, Bound, Referential, FreshSnapshot, Idle, NoRow
<1>3. LimitEnforced
  BY NoTabs, QuizAssumption DEF Init, LimitEnforced
<1> QED
  BY <1>1, <1>2, <1>3 DEF IInv

-----------------------------------------------------------------------------
(* One lemma for each way a goroutine changes its own state, then one for  *)
(* each way the rows change.                                               *)

LocalType ==
  /\ local \in [Handlers \cup Workers -> Local]
  /\ \A h \in Handlers : local[h].op \in HandlerOps
  /\ \A w \in Workers : local[w].op \in WorkerOps

\* The step takes no snapshot of an attempt.
NoNewSnapshot ==
  \A h \in Handlers : local'[h].op = "violationWrite" => local'[h] = local[h]

\* A handler that moves to a well-formed state keeps local well-formed.
LEMMA HandlerGoto ==
  ASSUME LocalType, Bound, Rows \subseteq Rows',
         NEW h \in Handlers, NEW rec \in Local, Goto(h, rec),
         rec.op \in HandlerOps,
         rec.op \in {"startEnqueue", "violationWrite", "submitWrite"} => rec.att \in Rows',
         rec.op \in {"startCheck", "startCreate"} => rec.student \in Students
  PROVE  LocalType' /\ Bound' /\ (rec.op # "violationWrite" => NoNewSnapshot)
  BY QuizAssumption DEF LocalType, Bound, Goto, HandlerOps, WorkerOps, NoNewSnapshot

LEMMA WorkerGoto ==
  ASSUME LocalType, Bound, Rows \subseteq Rows',
         NEW w \in Workers, NEW rec \in Local, Goto(w, rec),
         rec.op \in WorkerOps,
         rec.op = "autoWrite" => rec.att \in Rows'
  PROVE  LocalType' /\ Bound' /\ NoNewSnapshot
  BY QuizAssumption DEF LocalType, Bound, Goto, HandlerOps, WorkerOps, NoNewSnapshot

LEMMA GoIdle ==
  ASSUME LocalType, Bound, Rows \subseteq Rows',
         NEW p \in Handlers \cup Workers, Return(p)
  PROVE  LocalType' /\ Bound' /\ NoNewSnapshot
  BY IdleType, QuizAssumption
  DEF LocalType, Bound, Return, Goto, Idle, HandlerOps, WorkerOps, NoNewSnapshot

\* What rows may become without LogViolation: submitted_at is not cleared and
\* no violation is recorded.
Tame ==
  /\ attempts' \in [Attempts -> Attempt]
  /\ \A a \in Attempts : attempts[a].submitted => attempts'[a].submitted
  /\ \A a \in Attempts :
       \/ attempts'[a].violations = attempts[a].violations
       \/ TabSwitches(attempts'[a].violations) = 0
  /\ Rows \subseteq Rows'
  /\ \A a \in Attempts \ Rows' : ~attempts'[a].submitted

LEMMA TameRows ==
  ASSUME TypeOK, LimitEnforced, Tame
  PROVE  LimitEnforced'
  BY QuizAssumption DEF LimitEnforced, Tame, TypeOK, TabSwitches

\* Only LogViolation's read takes a snapshot; any other step keeps those there
\* are, or drops them.
LEMMA SnapshotsKept ==
  ASSUME TypeOK, Bound, FreshSnapshot,
         \A a \in Attempts : attempts[a].submitted => attempts'[a].submitted,
         NoNewSnapshot
  PROVE  FreshSnapshot'
  BY DEF FreshSnapshot, Bound, Rows, NoNewSnapshot

LEMMA Untouched == ASSUME TypeOK, Referential, UNCHANGED attempts PROVE Tame
  BY DEF TypeOK, Referential, Tame, Rows

\* A row that keeps its student and its violations and is not reopened.
LEMMA TameUpdate ==
  ASSUME TypeOK, Referential, NEW a \in Rows, NEW new \in Attempt,
         attempts' = [attempts EXCEPT ![a] = new],
         new.student = attempts[a].student, new.violations = attempts[a].violations,
         attempts[a].submitted => new.submitted
  PROVE  Tame
<1>1. a \in Attempts /\ attempts'[a] = new
      /\ \A c \in Attempts : c # a => attempts'[c] = attempts[c]
  BY DEF TypeOK, Rows
<1>2. attempts' \in [Attempts -> Attempt]
  BY <1>1 DEF TypeOK
<1>3. Rows' = Rows
  BY <1>1 DEF Rows
<1> QED
  BY <1>1, <1>2, <1>3 DEF Tame, Referential

\* The types of the counters of failures.
LEMMA FaultType == ASSUME TypeOK, Fault PROVE {faults, crashes, lostAcks}' \subseteq Nat
  BY DEF TypeOK, Fault

LEMMA EnqueueType ==
  ASSUME TypeOK, NEW t \in Tasks, Enqueue(t)
  PROVE  /\ jobs' \subseteq Tasks /\ {faults, crashes, lostAcks}' \subseteq Nat
         /\ \A u \in jobs' : u = t \/ u \in jobs
  BY FaultType DEF TypeOK, Enqueue, budget

\* A task that failed is queued again as the same task.
LEMMA RetrySame ==
  ASSUME NEW q \in SUBSET Tasks, NEW t \in q, NEW u \in Retry(q, t)
  PROVE  u \in q \/ (u.type = t.type /\ u.row = t.row)
  BY DEF Retry, Tasks

LEMMA DoneType ==
  ASSUME TypeOK, NEW t \in jobs, Done(t)
  PROVE  /\ jobs' \subseteq Tasks /\ {faults, crashes, lostAcks}' \subseteq Nat
         /\ \A u \in jobs' : u \in jobs \/ (u.type = t.type /\ u.row = t.row)
<1>1. jobs \in SUBSET Tasks
  BY DEF TypeOK
<1>2. jobs' \subseteq jobs \/ jobs' = Retry(jobs, t)
  BY DEF Done
<1>3. {faults, crashes, lostAcks}' \subseteq Nat
  BY DEF Done, TypeOK, budget
<1> QED
  BY <1>1, <1>2, <1>3, RetryType, RetrySame

\* A step is kept when it keeps the invariant and clears no submitted_at.
Kept == IInv' /\ \A a \in Attempts : attempts[a].submitted => attempts'[a].submitted

\* Assembles a step that is tame for the rows.
LEMMA TameStep ==
  ASSUME IInv, Tame, LocalType', Bound',
         NoNewSnapshot, status' \in Status, pool' \in Nat, jobs' \subseteq Tasks,
         \A t \in jobs' : \/ t.type # "autoSubmit" \/ t.row \in Rows'
                          \/ \E u \in jobs : t.type = u.type /\ t.row = u.row,
         acked' \subseteq Attempts, lost' \subseteq Attempts,
         {faults, crashes, lostAcks}' \subseteq Nat
  PROVE  Kept
<1>1. TypeOK /\ Bound /\ Referential /\ FreshSnapshot /\ LimitEnforced
  BY DEF IInv
<1>4. Referential'
  BY <1>1 DEF Referential, Tame
<1>2. \A a \in Attempts : attempts[a].submitted => attempts'[a].submitted
  BY DEF Tame
<1>3. TypeOK'
  BY DEF TypeOK, LocalType, Tame
<1> QED
  BY <1>1, <1>2, <1>3, <1>4, TameRows, SnapshotsKept DEF IInv, Kept

-----------------------------------------------------------------------------
(* The actions. *)

LEMMA OwnerSteps ==
  ASSUME IInv, NEW h \in Handlers,
         \/ CreateQuiz(h) \/ EnqueueQuizStart(h) \/ EnqueueQuizEnd(h)
         \/ PublishQuiz_Read(h) \/ PublishQuiz_Write(h)
         \/ CloseQuiz_Read(h) \/ CloseQuiz_Write(h)
  PROVE  Kept
<1> USE DEF budget
<1>0. /\ TypeOK /\ Bound /\ LocalType /\ UNCHANGED attempts /\ Referential
      /\ acked' \subseteq Attempts /\ lost' \subseteq Attempts
  BY DEF IInv, TypeOK, LocalType, CreateQuiz, EnqueueQuizStart, EnqueueQuizEnd,
         PublishQuiz_Read, PublishQuiz_Write, CloseQuiz_Read, CloseQuiz_Write
<1>1. Tame /\ Rows \subseteq Rows'
  BY <1>0, Untouched DEF Tame
<1>2. \E op \in {"createStart", "createEnd", "publishWrite", "closeWrite"} :
        Goto(h, [Idle EXCEPT !.op = op]) \/ Return(h)
  BY DEF CreateQuiz, EnqueueQuizStart, EnqueueQuizEnd,
         PublishQuiz_Read, PublishQuiz_Write, CloseQuiz_Read, CloseQuiz_Write
<1>3. LocalType' /\ Bound' /\ NoNewSnapshot
  <2>1. PICK op \in {"createStart", "createEnd", "publishWrite", "closeWrite"} :
          Goto(h, [Idle EXCEPT !.op = op]) \/ Return(h)
    BY <1>2
  <2>2. [Idle EXCEPT !.op = op] \in Local /\ [Idle EXCEPT !.op = op].op = op
    BY IdleType DEF Idle, Local, HandlerOps
  <2> QED
    BY <1>0, <1>1, <2>1, <2>2, HandlerGoto, GoIdle DEF HandlerOps
<1>4. status' \in Status /\ pool' \in Nat
  BY <1>0 DEF TypeOK, Status, CreateQuiz, EnqueueQuizStart, EnqueueQuizEnd,
         PublishQuiz_Read, PublishQuiz_Write, CloseQuiz_Read, CloseQuiz_Write
<1>5. /\ jobs' \subseteq Tasks /\ {faults, crashes, lostAcks}' \subseteq Nat
      /\ \A t \in jobs' : t \in jobs \/ t = TaskStart \/ t = TaskEnd
  BY <1>0, TaskTypes, EnqueueType
  DEF TypeOK, CreateQuiz, EnqueueQuizStart, EnqueueQuizEnd,
      PublishQuiz_Read, PublishQuiz_Write, CloseQuiz_Read, CloseQuiz_Write
<1>6. TaskStart.type # "autoSubmit" /\ TaskEnd.type # "autoSubmit"
  BY DEF TaskStart, TaskEnd, Task
<1> QED
  BY <1>0, <1>1, <1>3, <1>4, <1>5, <1>6, TameStep

LEMMA StartSteps ==
  ASSUME IInv, NEW h \in Handlers,
         \/ \E s \in Students : StartAttempt_Read(h, s)
         \/ StartAttempt_Check(h)
         \/ StartAttempt_Create(h)
         \/ StartAttempt_Enqueue(h)
  PROVE  Kept
<1> USE DEF budget
<1>0. /\ TypeOK /\ Bound /\ LocalType /\ Referential
      /\ status' \in Status /\ pool' \in Nat
      /\ acked' \subseteq Attempts
  BY DEF IInv, TypeOK, LocalType, StartAttempt_Read, StartAttempt_Check,
         StartAttempt_Create, StartAttempt_Enqueue
<1>5. lost' \subseteq Attempts
  <2>1. CASE StartAttempt_Enqueue(h)
    BY <1>0, <2>1 DEF StartAttempt_Enqueue, Bound, Rows, TypeOK
  <2>2. CASE ~StartAttempt_Enqueue(h)
    BY <1>0, <2>2 DEF TypeOK, StartAttempt_Read, StartAttempt_Check, StartAttempt_Create
  <2> QED BY <2>1, <2>2
<1>1. CASE \E s \in Students : StartAttempt_Read(h, s)
  <2> PICK s \in Students : StartAttempt_Read(h, s)
    BY <1>1
  <2> DEFINE rec == [Idle EXCEPT !.op = "startCheck", !.student = s]
  <2>1. rec \in Local /\ rec.op = "startCheck" /\ rec.student = s
    BY IdleType DEF Idle, Local, HandlerOps
  <2>2. Goto(h, rec) /\ UNCHANGED <<attempts, jobs, faults, crashes, lostAcks>>
    BY DEF StartAttempt_Read
  <2>3. LocalType' /\ Bound' /\ NoNewSnapshot
    BY <1>0, <2>1, <2>2, HandlerGoto DEF HandlerOps, Rows
  <2> QED
    BY <1>5, <1>0, <2>2, <2>3, Untouched, TameStep DEF TypeOK
<1>2. CASE StartAttempt_Check(h)
  <2> DEFINE rec == [local[h] EXCEPT !.op = "startCreate"]
  <2>1. /\ rec \in Local /\ rec.op = "startCreate"
        /\ rec.student \in Students
    BY <1>0, <1>2 DEF StartAttempt_Check, LocalType, Bound, Local, HandlerOps
  <2>2. /\ Goto(h, rec) \/ Return(h)
        /\ UNCHANGED <<attempts, jobs>>
        /\ {faults, crashes, lostAcks}' \subseteq Nat
    BY <1>0, <1>2, FaultType DEF StartAttempt_Check, TypeOK
  <2>3. LocalType' /\ Bound' /\ NoNewSnapshot
    BY <1>0, <2>1, <2>2, HandlerGoto, GoIdle DEF HandlerOps, Rows
  <2> QED
    BY <1>5, <1>0, <2>2, <2>3, Untouched, TameStep DEF TypeOK
<1>3. CASE StartAttempt_Create(h)
  <2>1. /\ UNCHANGED jobs /\ local[h].student \in Students
        /\ {faults, crashes, lostAcks}' \subseteq Nat
    BY <1>0, <1>3, FaultType DEF StartAttempt_Create, Bound, TypeOK
  <2>2. CASE Return(h) /\ UNCHANGED attempts
    <3>1. LocalType' /\ Bound' /\ NoNewSnapshot
      BY <1>0, <2>2, GoIdle DEF Rows
    <3> QED
      BY <1>5, <1>0, <2>1, <2>2, <3>1, Untouched, TameStep DEF TypeOK
  <2>3. CASE \E a \in Attempts \ Rows :
          /\ attempts' = [attempts EXCEPT ![a] = NewAttempt(local[h].student)]
          /\ Goto(h, [Idle EXCEPT !.op = "startEnqueue", !.att = a])
    <3> PICK a \in Attempts \ Rows :
          /\ attempts' = [attempts EXCEPT ![a] = NewAttempt(local[h].student)]
          /\ Goto(h, [Idle EXCEPT !.op = "startEnqueue", !.att = a])
      BY <2>3
    <3> DEFINE rec == [Idle EXCEPT !.op = "startEnqueue", !.att = a]
    <3>1. rec \in Local /\ rec.op = "startEnqueue" /\ rec.att = a
      BY IdleType DEF Idle, Local, HandlerOps
    <3>2. ~attempts[a].submitted
      BY <1>0 DEF Referential
    <3>3. a \in Rows' /\ Rows' = Rows \cup {a}
      BY <1>0, <2>1, QuizAssumption DEF Rows, TypeOK, NewAttempt, NoRow
    <3>4. Tame
      BY <1>0, <2>1, <3>2, <3>3, RowTypes, NoTabs DEF Tame, TypeOK, Referential
    <3>5. LocalType' /\ Bound' /\ NoNewSnapshot
      BY <1>0, <3>1, <3>4, <3>3, HandlerGoto DEF HandlerOps, Tame
    <3> QED
      BY <1>5, <1>0, <2>1, <3>5, <3>4, TameStep DEF TypeOK
  <2> QED
    BY <1>3, <2>2, <2>3 DEF StartAttempt_Create
<1>4. CASE StartAttempt_Enqueue(h)
  <2>1. Return(h) /\ UNCHANGED attempts /\ Enqueue(TaskAutoSubmit(local[h].att))
    BY <1>4 DEF StartAttempt_Enqueue
  <2>2. LocalType' /\ Bound' /\ NoNewSnapshot
    BY <1>0, <2>1, GoIdle DEF Rows
  <2>3. /\ TaskAutoSubmit(local[h].att) \in Tasks
        /\ TaskAutoSubmit(local[h].att).row \in Rows'
    BY <1>0, <1>4, <2>1, TaskTypes DEF StartAttempt_Enqueue, Bound, Rows, TaskAutoSubmit, Task
  <2> QED
    BY <1>5, <1>0, <2>1, <2>2, <2>3, EnqueueType, Untouched, TameStep
<1> QED
  BY <1>1, <1>2, <1>3, <1>4

LEMMA SaveStep ==
  ASSUME IInv, NEW a \in Rows, NEW ans \in Answers, SaveProgress(a, ans)
  PROVE  Kept
<1>1. /\ TypeOK /\ Bound /\ LocalType /\ Referential /\ FreshSnapshot
      /\ UNCHANGED <<status, pool, jobs, local, acked, lost, faults, crashes, lostAcks>>
      /\ attempts' = [attempts EXCEPT ![a].answers = ans]
  BY DEF IInv, TypeOK, LocalType, SaveProgress, budget
<1>2. attempts' \in [Attempts -> Attempt]
  BY <1>1 DEF TypeOK, Attempt, Rows
<1>3. Tame
  BY <1>1, <1>2 DEF Tame, TypeOK, Attempt, Rows, Referential
<1>4. LocalType' /\ Bound' /\ NoNewSnapshot
  BY <1>1, <1>3 DEF LocalType, Bound, Tame, NoNewSnapshot
<1> QED
  BY <1>1, <1>3, <1>4, TameStep DEF TypeOK

LEMMA AssignStep == ASSUME IInv, AssignQuestion PROVE Kept
<1>1. /\ TypeOK /\ Bound /\ LocalType /\ Referential /\ pool' \in Nat
      /\ UNCHANGED <<status, attempts, jobs, local, acked, lost, faults, crashes, lostAcks>>
  BY DEF IInv, TypeOK, LocalType, AssignQuestion, budget
<1>2. LocalType' /\ Bound' /\ NoNewSnapshot
  BY <1>1 DEF LocalType, Bound, Rows, NoNewSnapshot
<1> QED
  BY <1>1, <1>2, Untouched, TameStep DEF TypeOK

\* The one step that takes a snapshot: it is true when taken.
LEMMA ViolationRead ==
  ASSUME IInv, NEW h \in Handlers, NEW a \in Rows, NEW k \in Kinds,
         LogViolation_Read(h, a, k)
  PROVE  Kept
<1> DEFINE rec == [Idle EXCEPT !.op = "violationWrite", !.att = a,
                     !.violations = [attempts[a].violations EXCEPT ![k] = @ + 1],
                     !.submitted = attempts[a].submitted]
<1>1. /\ TypeOK /\ Bound /\ LocalType /\ Referential /\ FreshSnapshot /\ LimitEnforced
      /\ UNCHANGED <<status, pool, attempts, jobs, acked, lost, faults, crashes, lostAcks>>
      /\ Goto(h, rec)
  BY DEF IInv, TypeOK, LocalType, LogViolation_Read, budget
<1>2. rec \in Local /\ rec.op = "violationWrite" /\ rec.att = a
      /\ rec.submitted = attempts[a].submitted
  <2>1. attempts[a] \in Attempt
    BY <1>1 DEF TypeOK, Rows
  <2>2. [attempts[a].violations EXCEPT ![k] = @ + 1] \in [Kinds -> Nat]
    BY <2>1 DEF Attempt
  <2> QED
    BY <2>1, <2>2, IdleType DEF Local, Idle, HandlerOps, Rows, Attempt
<1>3. LocalType' /\ Bound'
  BY <1>1, <1>2, HandlerGoto DEF HandlerOps, Rows
<1>4. FreshSnapshot'
  BY <1>1, <1>2 DEF FreshSnapshot, Goto, LocalType
<1>5. TypeOK' /\ LimitEnforced' /\ Referential'
  BY <1>1, <1>3 DEF TypeOK, LocalType, LimitEnforced, Referential, Rows
<1> QED
  BY <1>1, <1>3, <1>4, <1>5 DEF Kept, IInv

\* What LogViolation writes is a row that is submitted if it records the
\* limit and if it was submitted before; the limit may be read as 0.
LEMMA RecordedRow ==
  ASSUME NEW row \in Attempt, NEW v \in [Kinds -> Nat], NEW b \in BOOLEAN,
         NEW limit \in {0, TabSwitchLimit}, b => row.submitted
  PROVE  LET new == Recorded(row, v, b, limit)
         IN /\ new \in Attempt
            /\ new.student = row.student
            /\ row.submitted => new.submitted
            /\ TabSwitches(new.violations) >= TabSwitchLimit => new.submitted
<1> DEFINE new == Recorded(row, v, b, limit)
           auto == TabSwitches(v) >= limit /\ ~b
           over == Total(v) > FlagThreshold
<1>1. TabSwitches(v) \in Nat /\ Total(v) \in Nat
  BY DEF TabSwitches, Total, Kinds
<1>2. new = [row EXCEPT !.violations = v, !.flagged = over,
                        !.submitted = row.submitted \/ auto, !.auto = row.auto \/ auto]
  BY DEF Recorded
<1>3. (row.submitted \/ auto) \in BOOLEAN /\ (row.auto \/ auto) \in BOOLEAN /\ over \in BOOLEAN
  OBVIOUS
<1> HIDE DEF new, auto, over
<1>4. new \in Attempt /\ new.student = row.student
  BY <1>2, <1>3 DEF Attempt
<1>5. new.submitted = (row.submitted \/ auto) /\ new.violations = v
  BY <1>2 DEF Attempt
<1>6. TabSwitches(v) >= TabSwitchLimit => auto \/ b
  BY <1>1, QuizAssumption DEF auto
<1> QED
  BY <1>4, <1>5, <1>6 DEF new

LEMMA ViolationWrite ==
  ASSUME IInv, NEW h \in Handlers, LogViolation_Write(h)
  PROVE  Kept
<1> DEFINE a == local[h].att
           v == local[h].violations
           b == local[h].submitted
<1>1. /\ TypeOK /\ Bound /\ LocalType /\ Referential /\ FreshSnapshot /\ LimitEnforced
      /\ UNCHANGED <<status, pool, jobs, acked, lost>>
      /\ Return(h) /\ local[h].op = "violationWrite"
  BY DEF IInv, TypeOK, LocalType, LogViolation_Write
<1>2. a \in Rows /\ a \in Attempts /\ (b => attempts[a].submitted)
      /\ attempts[a] \in Attempt /\ v \in [Kinds -> Nat] /\ b \in BOOLEAN
  BY <1>1 DEF Bound, FreshSnapshot, Rows, TypeOK, Local
<1>3. {faults, crashes, lostAcks}' \subseteq Nat
  BY <1>1, <1>2, FaultType DEF TypeOK, LogViolation_Write, budget
<1>4. CASE UNCHANGED attempts
  BY <1>1, <1>3, <1>4, Untouched, GoIdle, TameStep DEF TypeOK, Rows
<1>5. ASSUME NEW limit \in {0, TabSwitchLimit},
             attempts' = [attempts EXCEPT ![a] = Recorded(@, v, b, limit)]
      PROVE  Kept
  <2>1. attempts'[a] = Recorded(attempts[a], v, b, limit)
        /\ \A c \in Attempts : c # a => attempts'[c] = attempts[c]
    BY <1>1, <1>2, <1>5 DEF TypeOK
  <2>2. /\ attempts'[a] \in Attempt
        /\ attempts'[a].student = attempts[a].student
        /\ attempts[a].submitted => attempts'[a].submitted
        /\ TabSwitches(attempts'[a].violations) >= TabSwitchLimit => attempts'[a].submitted
    BY <1>2, <2>1, RecordedRow
  <2>3. attempts' \in [Attempts -> Attempt]
    BY <1>1, <1>2, <1>5, <2>2 DEF TypeOK
  <2>4. Rows' = Rows
    BY <1>2, <2>1, <2>2 DEF Rows
  <2>5. \A c \in Attempts : attempts[c].submitted => attempts'[c].submitted
    BY <2>1, <2>2
  <2>6. LimitEnforced'
    BY <1>1, <2>1, <2>2 DEF LimitEnforced
  <2>7. LocalType' /\ Bound' /\ NoNewSnapshot
    BY <1>1, <2>4, GoIdle
  <2>8. FreshSnapshot'
    BY <1>1, <2>5, <2>7, SnapshotsKept
  <2>9. TypeOK'
    BY <1>1, <1>3, <2>3, <2>7 DEF TypeOK, LocalType
  <2>10. Referential'
    BY <1>1, <1>2, <2>1, <2>4 DEF Referential
  <2> QED
    BY <2>5, <2>6, <2>7, <2>8, <2>9, <2>10 DEF Kept, IInv
<1> QED
  BY <1>4, <1>5 DEF LogViolation_Write

LEMMA SubmitRead ==
  ASSUME IInv, NEW h \in Handlers, NEW a \in Rows, NEW ans \in Answers,
         SubmitAttempt_Read(h, a, ans)
  PROVE  Kept
<1> DEFINE rec == [Idle EXCEPT !.op = "submitWrite", !.att = a, !.answers = ans]
<1>1. /\ TypeOK /\ Bound /\ LocalType /\ Referential
      /\ UNCHANGED <<status, pool, attempts, jobs, acked, lost, faults, crashes, lostAcks>>
      /\ Goto(h, rec)
  BY DEF IInv, TypeOK, LocalType, SubmitAttempt_Read, budget
<1>2. rec \in Local /\ rec.op = "submitWrite" /\ rec.att = a
  BY IdleType DEF Idle, Local, HandlerOps, Rows
<1>3. LocalType' /\ Bound' /\ NoNewSnapshot
  BY <1>1, <1>2, HandlerGoto DEF HandlerOps, Rows
<1> QED
  BY <1>1, <1>3, Untouched, TameStep DEF TypeOK

LEMMA ScoreType == \A ans \in Answers : scoreAttempt(ans) \in Nat
  BY DEF scoreAttempt

LEMMA SubmitWrite ==
  ASSUME IInv, NEW h \in Handlers, SubmitAttempt_Write(h)
  PROVE  Kept
<1> DEFINE a == local[h].att
<1>1. /\ TypeOK /\ Bound /\ LocalType /\ Referential
      /\ UNCHANGED <<status, pool, jobs, lost>>
      /\ Return(h) /\ acked' = acked \cup {a}
  BY DEF IInv, TypeOK, LocalType, SubmitAttempt_Write
<1>2. a \in Rows /\ a \in Attempts /\ local[h].answers \in Answers
  BY <1>1 DEF SubmitAttempt_Write, Bound, Rows, TypeOK, Local
<1>3. {faults, crashes, lostAcks}' \subseteq Nat /\ acked' \subseteq Attempts
  BY <1>1, <1>2, FaultType DEF TypeOK, SubmitAttempt_Write, budget
<1>4. Tame
  <2>1. CASE UNCHANGED attempts
    BY <1>1, <2>1, Untouched
  <2>2. CASE attempts' = [attempts EXCEPT ![a].answers = local[h].answers,
                                          ![a].score = scoreAttempt(local[h].answers),
                                          ![a].submitted = TRUE]
    <3> DEFINE new == [attempts[a] EXCEPT !.answers = local[h].answers,
                         !.score = scoreAttempt(local[h].answers), !.submitted = TRUE]
    <3>1. attempts[a] \in Attempt /\ attempts' = [attempts EXCEPT ![a] = new]
      BY <1>1, <1>2, <2>2 DEF TypeOK
    <3>2. /\ new \in Attempt /\ new.student = attempts[a].student
          /\ new.violations = attempts[a].violations /\ new.submitted
      BY <1>2, <3>1, ScoreType DEF Attempt
    <3> QED
      BY <1>1, <1>2, <3>1, <3>2, TameUpdate
  <2> QED
    BY <2>1, <2>2 DEF SubmitAttempt_Write
<1>5. LocalType' /\ Bound' /\ NoNewSnapshot
  BY <1>1, <1>4, GoIdle DEF Tame
<1> QED
  BY <1>1, <1>3, <1>4, <1>5, TameStep DEF TypeOK

LEMMA TriggerSteps ==
  ASSUME IInv, NEW t \in jobs, HandleQuizTriggerStart(t) \/ HandleQuizTriggerEnd(t)
  PROVE  Kept
<1>1. /\ TypeOK /\ Bound /\ LocalType /\ Referential /\ status' \in Status
      /\ UNCHANGED <<pool, attempts, local, acked, lost>>
  BY DEF IInv, TypeOK, LocalType, Status, HandleQuizTriggerStart, HandleQuizTriggerEnd
<1>2. LocalType' /\ Bound' /\ NoNewSnapshot
  BY <1>1 DEF LocalType, Bound, Rows, NoNewSnapshot
<1>3. Done(t) \/ (Fault /\ jobs' = Retry(jobs, t))
  BY DEF HandleQuizTriggerStart, HandleQuizTriggerEnd
<1>4. /\ jobs' \subseteq Tasks /\ {faults, crashes, lostAcks}' \subseteq Nat
      /\ \A u \in jobs' : u \in jobs \/ (u.type = t.type /\ u.row = t.row)
  BY <1>1, <1>3, DoneType, FaultType, RetryType, RetrySame DEF TypeOK
<1> QED
  BY <1>1, <1>2, <1>4, Untouched, TameStep DEF TypeOK

LEMMA AutoSubmitRead ==
  ASSUME IInv, NEW w \in Workers, NEW t \in jobs, HandleQuizAutoSubmit_Read(w, t)
  PROVE  Kept
<1> DEFINE rec == [Idle EXCEPT !.op = "autoWrite", !.att = t.row, !.left = t.left]
<1>1. /\ TypeOK /\ Bound /\ LocalType /\ Referential
      /\ t.type = "autoSubmit" /\ t \in Tasks /\ t.row \in Rows
      /\ UNCHANGED <<status, pool, attempts, acked>>
  BY DEF IInv, TypeOK, LocalType, Referential, HandleQuizAutoSubmit_Read
<1>6. lost' \subseteq Attempts
  BY <1>1 DEF HandleQuizAutoSubmit_Read, TypeOK, Rows
<1>2. rec \in Local /\ rec.op = "autoWrite" /\ rec.att = t.row
  BY <1>1, IdleType DEF Idle, Local, WorkerOps, Rows, Tasks
<1>3. UNCHANGED local \/ Goto(w, rec)
  BY DEF HandleQuizAutoSubmit_Read
<1>4. LocalType' /\ Bound' /\ NoNewSnapshot
  <2>1. CASE UNCHANGED local
    BY <1>1, <2>1 DEF LocalType, Bound, Rows, NoNewSnapshot
  <2>2. CASE Goto(w, rec)
    BY <1>1, <1>2, <2>2, WorkerGoto DEF WorkerOps, Rows
  <2> QED
    BY <1>3, <2>1, <2>2
<1>5. /\ jobs' \subseteq Tasks /\ {faults, crashes, lostAcks}' \subseteq Nat
      /\ \A u \in jobs' : u \in jobs \/ (u.type = t.type /\ u.row = t.row)
  BY <1>1, DoneType, FaultType DEF TypeOK, HandleQuizAutoSubmit_Read, budget
<1> QED
  BY <1>1, <1>4, <1>5, <1>6, Untouched, TameStep DEF TypeOK

LEMMA AutoSubmitWrite ==
  ASSUME IInv, NEW w \in Workers, HandleQuizAutoSubmit_Write(w)
  PROVE  Kept
<1> DEFINE a == local[w].att
<1>1. /\ TypeOK /\ Bound /\ LocalType /\ Referential
      /\ UNCHANGED <<status, pool, jobs, acked>> /\ Return(w)
  BY DEF IInv, TypeOK, LocalType, HandleQuizAutoSubmit_Write
<1>2. a \in Rows /\ a \in Attempts
  BY <1>1 DEF HandleQuizAutoSubmit_Write, Bound, Rows
<1>6. lost' \subseteq Attempts
  BY <1>1, <1>2 DEF HandleQuizAutoSubmit_Write, TypeOK
<1>3. {faults, crashes, lostAcks}' \subseteq Nat
  BY <1>1, FaultType DEF TypeOK, HandleQuizAutoSubmit_Write, budget
<1>4. Tame
  <2>1. CASE UNCHANGED attempts
    BY <1>1, <2>1, Untouched
  <2>2. CASE attempts' = [attempts EXCEPT ![a].submitted = TRUE,
                                          ![a].auto = TRUE, ![a].flagged = TRUE]
    <3> DEFINE new == [attempts[a] EXCEPT !.submitted = TRUE, !.auto = TRUE, !.flagged = TRUE]
    <3>1. attempts[a] \in Attempt /\ attempts' = [attempts EXCEPT ![a] = new]
      BY <1>1, <1>2, <2>2 DEF TypeOK
    <3>2. /\ new \in Attempt /\ new.student = attempts[a].student
          /\ new.violations = attempts[a].violations /\ new.submitted
      BY <3>1 DEF Attempt
    <3> QED
      BY <1>1, <1>2, <3>1, <3>2, TameUpdate
  <2> QED
    BY <2>1, <2>2 DEF HandleQuizAutoSubmit_Write
<1>5. LocalType' /\ Bound' /\ NoNewSnapshot
  BY <1>1, <1>4, GoIdle DEF Tame
<1> QED
  BY <1>1, <1>3, <1>4, <1>5, <1>6, TameStep DEF TypeOK

LEMMA CrashStep == ASSUME IInv, Crash PROVE Kept
<1>1. /\ TypeOK /\ Bound /\ LocalType /\ Referential
      /\ UNCHANGED <<status, pool, attempts, acked, faults, lostAcks>>
      /\ local' = [p \in Handlers \cup Workers |-> Idle] /\ crashes' = crashes + 1
  BY DEF IInv, TypeOK, LocalType, Crash
<1>2. LocalType' /\ Bound' /\ NoNewSnapshot
  BY <1>1, IdleType DEF LocalType, Bound, NoNewSnapshot, Idle, HandlerOps, WorkerOps
<1>3. \A t \in Held : t \in Tasks /\ t.type = "autoSubmit" /\ t.row \in Rows
  <2>1. ASSUME NEW w \in Workers, local[w].op = "autoWrite"
        PROVE  /\ Task("autoSubmit", local[w].att, local[w].left) \in Tasks
               /\ local[w].att \in Rows
    BY <1>1, <2>1 DEF Bound, LocalType, Local, Task, Tasks, Rows
  <2> QED
    BY <2>1 DEF Held, Task
<1>6. lost' \subseteq Attempts
  BY <1>1, <1>3 DEF Crash, Bound, TypeOK, Rows
<1>4. \A u \in jobs' : u \in jobs
         \/ (u \in Tasks /\ u.type = "autoSubmit" /\ u.row \in Rows)
  <2>1. ASSUME NEW t \in Held, t.left > 0
        PROVE  LET u == [t EXCEPT !.left = t.left - 1]
               IN u \in Tasks /\ u.type = "autoSubmit" /\ u.row \in Rows
    BY <1>3, <2>1 DEF Tasks
  <2> QED
    BY <2>1 DEF Crash
<1>5. jobs' \subseteq Tasks /\ {faults, crashes, lostAcks}' \subseteq Nat
  BY <1>1, <1>4 DEF TypeOK
<1> QED
  BY <1>1, <1>2, <1>4, <1>5, <1>6, Untouched, TameStep DEF TypeOK, Rows

-----------------------------------------------------------------------------
LEMMA NextKept == ASSUME IInv, Next PROVE Kept
<1>1. ASSUME NEW h \in Handlers, Arrive(h) PROVE Kept
  BY <1>1, OwnerSteps, StartSteps, ViolationRead, SubmitRead DEF Arrive
<1>2. ASSUME NEW h \in Handlers, Proceed(h) PROVE Kept
  BY <1>2, OwnerSteps, StartSteps, ViolationWrite, SubmitWrite DEF Proceed
<1>3. ASSUME Work PROVE Kept
  BY <1>3, TriggerSteps, AutoSubmitRead, AutoSubmitWrite DEF Work
<1> QED
  BY <1>1, <1>2, <1>3, SaveStep, AssignStep, CrashStep DEF Next

\* IInv is inductive.
LEMMA StepIInv == IInv /\ [Next]_vars => IInv'
<1> SUFFICES ASSUME IInv, [Next]_vars PROVE IInv'
  OBVIOUS
<1>1. CASE Next
  BY <1>1, NextKept DEF Kept
<1>2. CASE UNCHANGED vars
  BY <1>2 DEF vars, IInv, TypeOK, Bound, Referential, FreshSnapshot, LimitEnforced, Rows
<1> QED
  BY <1>1, <1>2

LEMMA AlwaysIInv == Spec => []IInv
  BY InitIInv, StepIInv, PTL DEF Spec

\* Every reachable state of the quiz has the types its tables and queues have.
THEOREM TypeCorrect == Spec => []TypeOK
<1>1. IInv => TypeOK
  BY DEF IInv
<1> QED
  BY <1>1, AlwaysIInv, PTL

\* LogViolation's limit holds for any number of overlapping requests, tasks,
\* failed statements and crashes: no open row records TabSwitchLimit switches.
THEOREM LimitAlwaysEnforced == Spec => []LimitEnforced
<1>1. IInv => LimitEnforced
  BY DEF IInv
<1> QED
  BY <1>1, AlwaysIInv, PTL

\* No step of any handler or task clears submitted_at.
THEOREM NeverReopened == Spec => SubmittedForever
<1>1. ASSUME IInv, [Next]_vars
      PROVE  [\A a \in Attempts : attempts[a].submitted => attempts'[a].submitted]_vars
  BY <1>1, NextKept DEF Kept
<1> QED
  BY <1>1, AlwaysIInv, PTL DEF Spec, SubmittedForever

-----------------------------------------------------------------------------
(* The second part rests on the first.  All three of its results follow one  *)
(* step at a time from what a step may do to the arms of an attempt (its     *)
(* task, the worker that holds it, the handler that will queue it), to       *)
(* "acked" and to the answers: Careful.                                      *)

Queued(a) == \E t \in jobs : t.type = "autoSubmit" /\ t.row = a
Taken(a)  == \E w \in Workers : local[w].op = "autoWrite" /\ local[w].att = a
Coming(a) == \E h \in Handlers : local[h].op = "startEnqueue" /\ local[h].att = a
Armed(a)  == attempts[a].submitted \/ Queued(a) \/ Taken(a) \/ Coming(a)

\* What a step does besides keeping IInv.
NeverUndone == (faults' = 0 => faults = 0) /\ (crashes' = 0 => crashes = 0)
LossCaused == lost' = lost \/ faults' # 0 \/ crashes' # 0
ArmsKept ==
  /\ lost \subseteq lost'
  /\ \A a \in Rows' \ lost' : (a \in Rows => Armed(a)) => Armed(a)'
AcksMeant == faults' = 0 => \A a \in acked' : a \in acked \/ attempts'[a].submitted
AnswersKept ==
  \A a \in Attempts :
    attempts[a].submitted /\ attempts'[a].answers # attempts[a].answers =>
      \E h \in Handlers : local[h].op = "submitWrite" /\ local[h].att = a

Careful == NeverUndone /\ LossCaused /\ ArmsKept /\ AcksMeant /\ AnswersKept

-----------------------------------------------------------------------------
\* A failed statement counts.
LEMMA FaultCounts == ASSUME IInv, Fault PROVE faults' # 0 /\ UNCHANGED crashes
  BY DEF IInv, TypeOK, Fault

\* A step of a goroutine that holds no arm, and that leaves the auto-submit
\* tasks in the queue, disarms nobody.
LEMMA OthersArms ==
  ASSUME Kept, NEW p \in Handlers \cup Workers,
         local \in [Handlers \cup Workers -> Local],
         local[p].op \notin {"startEnqueue", "autoWrite"},
         UNCHANGED local \/ \E rec : Goto(p, rec),
         \A t \in jobs : t.type = "autoSubmit" => t \in jobs',
         NEW a \in Rows, Armed(a)
  PROVE  Armed(a)'
<1>1. a \in Attempts
  BY DEF Rows
<1>2. CASE attempts[a].submitted
  BY <1>1, <1>2 DEF Kept, Armed
<1>3. CASE Queued(a)
  BY <1>3 DEF Queued, Armed
<1>4. \A q \in Handlers \cup Workers : q # p => local'[q] = local[q]
  BY DEF Goto
<1>5. CASE Taken(a)
  BY <1>4, <1>5 DEF Taken, Armed
<1>6. CASE Coming(a)
  BY <1>4, <1>6 DEF Coming, Armed
<1> QED BY <1>2, <1>3, <1>5, <1>6 DEF Armed

\* The same for a whole step that inserts no row and fails no one.
LEMMA PlainStep ==
  ASSUME IInv, Kept, NEW p \in Handlers \cup Workers,
         local[p].op \notin {"startEnqueue", "autoWrite"},
         UNCHANGED local \/ \E rec : Goto(p, rec),
         \A t \in jobs : t.type = "autoSubmit" => t \in jobs',
         Rows' = Rows, UNCHANGED lost, NeverUndone, AcksMeant, AnswersKept
  PROVE  Careful
<1>1. local \in [Handlers \cup Workers -> Local]
  BY DEF IInv, TypeOK
<1> QED BY <1>1, OthersArms DEF Careful, LossCaused, ArmsKept

\* The frame of a step that changes no row and tells no one.
LEMMA SilentStep ==
  ASSUME IInv, Kept, NEW p \in Handlers \cup Workers,
         local[p].op \notin {"startEnqueue", "autoWrite"},
         UNCHANGED local \/ \E rec : Goto(p, rec),
         \A t \in jobs : t.type = "autoSubmit" => t \in jobs',
         UNCHANGED <<attempts, acked, lost>>, NeverUndone
  PROVE  Careful
<1>1. Rows' = Rows /\ AcksMeant /\ AnswersKept
  BY DEF Rows, AcksMeant, AnswersKept
<1> QED BY <1>1, PlainStep

LEMMA EnqueueKeeps ==
  ASSUME IInv, NEW t, Enqueue(t)
  PROVE  NeverUndone /\ jobs \subseteq jobs' /\ (faults' = 0 => t \in jobs')
  BY FaultCounts DEF Enqueue, budget, NeverUndone

-----------------------------------------------------------------------------
(* The actions. *)

LEMMA OwnerCareful ==
  ASSUME IInv, Kept, NEW h \in Handlers,
         \/ CreateQuiz(h) \/ EnqueueQuizStart(h) \/ EnqueueQuizEnd(h)
         \/ PublishQuiz_Read(h) \/ PublishQuiz_Write(h)
         \/ CloseQuiz_Read(h) \/ CloseQuiz_Write(h)
  PROVE  Careful
<1>1. /\ local[h].op \notin {"startEnqueue", "autoWrite"}
      /\ \E rec : Goto(h, rec)
      /\ UNCHANGED <<attempts, acked, lost>>
  BY DEF CreateQuiz, EnqueueQuizStart, EnqueueQuizEnd, PublishQuiz_Read, PublishQuiz_Write,
         CloseQuiz_Read, CloseQuiz_Write, Return, Idle
<1>2. jobs \subseteq jobs' /\ NeverUndone
  <2>1. \/ Enqueue(TaskStart) \/ Enqueue(TaskEnd)
        \/ UNCHANGED <<jobs, faults, crashes>>
    BY DEF CreateQuiz, EnqueueQuizStart, EnqueueQuizEnd, PublishQuiz_Read,
           PublishQuiz_Write, CloseQuiz_Read, CloseQuiz_Write, budget
  <2>2. CASE UNCHANGED <<jobs, faults, crashes>>
    BY <2>2 DEF NeverUndone
  <2> QED BY <2>1, <2>2, EnqueueKeeps
<1> QED BY <1>1, <1>2, SilentStep

\* A request that only reads.
LEMMA ReadCareful ==
  ASSUME IInv, Kept, NEW h \in Handlers,
         \/ \E s \in Students : StartAttempt_Read(h, s)
         \/ StartAttempt_Check(h)
         \/ \E a \in Rows, k \in Kinds : LogViolation_Read(h, a, k)
         \/ \E a \in Rows, ans \in Answers : SubmitAttempt_Read(h, a, ans)
  PROVE  Careful
<1> DEFINE Frame == /\ local[h].op \notin {"startEnqueue", "autoWrite"}
                    /\ \E rec : Goto(h, rec)
                    /\ UNCHANGED <<attempts, acked, lost, jobs>> /\ NeverUndone
<1>1. Idle.op = "idle"
  BY DEF Idle
<1> USE DEF NeverUndone
<1>2. ASSUME NEW s \in Students, StartAttempt_Read(h, s) PROVE Frame
  BY <1>1, <1>2 DEF StartAttempt_Read, budget
<1>3. ASSUME StartAttempt_Check(h) PROVE Frame
  BY <1>3, FaultCounts DEF StartAttempt_Check, Return, budget
<1>4. ASSUME NEW a \in Rows, NEW k \in Kinds, LogViolation_Read(h, a, k) PROVE Frame
  BY <1>1, <1>4 DEF LogViolation_Read, budget
<1>5. ASSUME NEW a \in Rows, NEW ans \in Answers, SubmitAttempt_Read(h, a, ans) PROVE Frame
  BY <1>1, <1>5 DEF SubmitAttempt_Read, budget
<1>6. Frame
  BY <1>2, <1>3, <1>4, <1>5
<1> QED BY <1>6, SilentStep

\* The insert hands the attempt to the handler that made it.
LEMMA CreateCareful ==
  ASSUME IInv, Kept, NEW h \in Handlers, StartAttempt_Create(h)
  PROVE  Careful
<1>1. /\ local[h].op = "startCreate" /\ local[h].student \in Students
      /\ local \in [Handlers \cup Workers -> Local]
      /\ \E rec : Goto(h, rec)
      /\ UNCHANGED <<jobs, acked, lost>> /\ NeverUndone
  BY FaultCounts DEF StartAttempt_Create, Return, budget, IInv, TypeOK, Bound, NeverUndone
<1>2. CASE UNCHANGED attempts
  BY <1>1, <1>2, SilentStep
<1>3. CASE \E a \in Attempts \ Rows :
             /\ attempts' = [attempts EXCEPT ![a] = NewAttempt(local[h].student)]
             /\ Goto(h, [Idle EXCEPT !.op = "startEnqueue", !.att = a])
  <2>1. PICK a \in Attempts \ Rows :
             /\ attempts' = [attempts EXCEPT ![a] = NewAttempt(local[h].student)]
             /\ Goto(h, [Idle EXCEPT !.op = "startEnqueue", !.att = a])
    BY <1>3
  <2>2. /\ \A c \in Attempts : c # a => attempts'[c] = attempts[c]
        /\ ~attempts[a].submitted
    BY <2>1 DEF IInv, TypeOK, Referential
  <2>3. Rows' \subseteq Rows \cup {a}
    BY <2>2 DEF Rows
  <2>4. local'[h].op = "startEnqueue" /\ local'[h].att = a
    BY <1>1, <2>1 DEF Goto, Idle
  <2>5. Armed(a)'
    BY <2>4 DEF Armed, Coming
  <2>6. \A c \in Rows : Armed(c) => Armed(c)'
    BY <1>1, OthersArms
  <2>7. AnswersKept /\ AcksMeant
    BY <1>1, <2>2 DEF AnswersKept, AcksMeant
  <2> QED BY <1>1, <2>3, <2>5, <2>6, <2>7 DEF Careful, LossCaused, ArmsKept
<1> QED BY <1>2, <1>3 DEF StartAttempt_Create

\* It hands the attempt on to the queue.
LEMMA EnqueueCareful ==
  ASSUME IInv, Kept, NEW h \in Handlers, StartAttempt_Enqueue(h)
  PROVE  Careful
<1> DEFINE t == TaskAutoSubmit(local[h].att)
<1>1. /\ Enqueue(t) /\ Return(h) /\ UNCHANGED <<attempts, acked>>
      /\ local \in [Handlers \cup Workers -> Local] /\ h \notin Workers
  BY QuizAssumption DEF StartAttempt_Enqueue, IInv, TypeOK
<1>2. NeverUndone /\ jobs \subseteq jobs' /\ (faults' = 0 => t \in jobs')
  BY <1>1, EnqueueKeeps
<1>3. t.type = "autoSubmit" /\ t.row = local[h].att
  BY DEF TaskAutoSubmit, Task
<1>4. \A q \in Handlers \cup Workers : q # h => local'[q] = local[q]
  BY <1>1 DEF Return, Goto
<1>7. lost' = lost \cup {local[h].att : u \in {t} \ jobs'}
  BY DEF StartAttempt_Enqueue
<1> HIDE DEF t
<1>8. LossCaused /\ lost \subseteq lost'
  BY <1>2, <1>7 DEF LossCaused
<1>5. ASSUME NEW a \in Rows \ lost', Armed(a) PROVE Armed(a)'
  <2>1. CASE attempts[a].submitted \/ Queued(a)
    BY <1>1, <1>2, <2>1 DEF Armed, Queued
  <2>2. CASE Taken(a)
    BY <1>1, <1>4, <2>2 DEF Armed, Taken
  <2>3. CASE Coming(a)
    BY <1>2, <1>3, <1>4, <1>5, <1>7, <2>3 DEF Armed, Queued, Coming
  <2> QED BY <1>5, <2>1, <2>2, <2>3 DEF Armed
<1>6. Rows' = Rows /\ AcksMeant /\ AnswersKept
  BY <1>1 DEF Rows, AcksMeant, AnswersKept
<1> QED BY <1>2, <1>5, <1>6, <1>8 DEF Careful, ArmsKept

\* Steps that write rows but insert none, and are neither the enqueue of an
\* auto-submit nor its write.
LEMMA SaveCareful ==
  ASSUME IInv, Kept, NEW a \in Rows, NEW ans \in Answers, SaveProgress(a, ans)
  PROVE  Careful
<1>1. /\ UNCHANGED <<jobs, local, acked, lost, faults, crashes>>
      /\ \A c \in Attempts : c # a => attempts'[c] = attempts[c]
      /\ ~attempts[a].submitted
      /\ Rows \subseteq Attempts
  BY DEF SaveProgress, budget, IInv, TypeOK, Rows
<1>2. attempts'[a].student = attempts[a].student
  BY <1>1 DEF SaveProgress, IInv, TypeOK, Attempt
<1>3. Rows' = Rows
  BY <1>1, <1>2 DEF Rows
<1>4. \A c \in Attempts : attempts[c].submitted => attempts'[c].submitted
  BY DEF Kept
<1>5. \A c \in Rows : Armed(c) => Armed(c)'
  BY <1>1, <1>4 DEF Armed, Queued, Taken, Coming
<1>6. NeverUndone /\ AcksMeant /\ AnswersKept
  BY <1>1 DEF NeverUndone, AcksMeant, AnswersKept
<1> QED BY <1>1, <1>3, <1>5, <1>6 DEF Careful, LossCaused, ArmsKept

LEMMA AssignCareful ==
  ASSUME IInv, AssignQuestion
  PROVE  Careful
<1>1. UNCHANGED <<attempts, jobs, local, acked, lost, faults, crashes>>
  BY DEF AssignQuestion, budget
<1> QED BY <1>1 DEF Careful, NeverUndone, LossCaused, ArmsKept, AcksMeant, AnswersKept,
                    Rows, Armed, Queued, Taken, Coming

\* A write keeps whose attempts there are.
LEMMA SameRows ==
  ASSUME IInv, NEW a \in Rows, NEW new,
         attempts' = [attempts EXCEPT ![a] = new], new.student = attempts[a].student
  PROVE  /\ Rows' = Rows /\ attempts'[a] = new
         /\ \A c \in Attempts : c # a => attempts'[c] = attempts[c]
<1>1. a \in Attempts /\ attempts'[a] = new
      /\ \A c \in Attempts : c # a => attempts'[c] = attempts[c]
  BY DEF IInv, TypeOK, Rows
<1> QED BY <1>1 DEF Rows

LEMMA ViolationCareful ==
  ASSUME IInv, Kept, NEW h \in Handlers, LogViolation_Write(h)
  PROVE  Careful
<1> DEFINE a == local[h].att
<1>1. /\ local[h].op = "violationWrite" /\ UNCHANGED <<jobs, acked, lost>>
      /\ \E rec : Goto(h, rec)
      /\ a \in Rows
  BY DEF LogViolation_Write, Return, IInv, Bound
<1>2. NeverUndone
  BY FaultCounts DEF LogViolation_Write, budget, NeverUndone
<1>3. CASE UNCHANGED attempts
  BY <1>1, <1>2, <1>3, SilentStep
<1>4. ASSUME NEW limit, attempts' = [attempts EXCEPT ![a] =
               Recorded(@, local[h].violations, local[h].submitted, limit)]
      PROVE  Careful
  <2> DEFINE new == Recorded(attempts[a], local[h].violations, local[h].submitted, limit)
  <2>1. /\ new.student = attempts[a].student /\ new.answers = attempts[a].answers
        /\ attempts' = [attempts EXCEPT ![a] = new]
    <3>1. attempts \in [Attempts -> Attempt] /\ a \in Attempts
      BY <1>1 DEF IInv, TypeOK, Rows
    <3> QED BY <1>4, <3>1 DEF Recorded, Attempt
  <2> HIDE DEF new
  <2>2. /\ Rows' = Rows /\ attempts'[a] = new
        /\ \A c \in Attempts : c # a => attempts'[c] = attempts[c]
    BY <1>1, <2>1, SameRows
  <2>3. AcksMeant /\ AnswersKept
    BY <1>1, <2>1, <2>2 DEF AcksMeant, AnswersKept
  <2> QED BY <1>1, <1>2, <2>2, <2>3, PlainStep
<1> QED BY <1>3, <1>4 DEF LogViolation_Write

\* The acknowledgement says what the update did, unless it failed.
LEMMA SubmitCareful ==
  ASSUME IInv, Kept, NEW h \in Handlers, SubmitAttempt_Write(h)
  PROVE  Careful
<1> DEFINE a == local[h].att
           new == [attempts[a] EXCEPT !.answers = local[h].answers,
                     !.score = scoreAttempt(local[h].answers), !.submitted = TRUE]
<1>1. /\ local[h].op = "submitWrite" /\ UNCHANGED <<jobs, lost>> /\ acked' = acked \cup {a}
      /\ \E rec : Goto(h, rec)
      /\ a \in Rows
  BY DEF SubmitAttempt_Write, Return, IInv, Bound
<1>2. NeverUndone
  BY FaultCounts DEF SubmitAttempt_Write, budget, NeverUndone
<1>3. CASE Fault /\ UNCHANGED attempts
  <2>1. Rows' = Rows /\ AcksMeant /\ AnswersKept
    BY <1>3, FaultCounts DEF Rows, AcksMeant, AnswersKept
  <2> QED BY <1>1, <1>2, <2>1, PlainStep
<1>4. CASE attempts' = [attempts EXCEPT ![a].answers = local[h].answers,
                                        ![a].score = scoreAttempt(local[h].answers),
                                        ![a].submitted = TRUE]
  <2>1. /\ attempts' = [attempts EXCEPT ![a] = new]
        /\ new.student = attempts[a].student /\ new.submitted
    <3>1. attempts \in [Attempts -> Attempt] /\ a \in Attempts
      BY <1>1 DEF IInv, TypeOK, Rows
    <3> QED BY <1>4, <3>1 DEF Attempt
  <2> HIDE DEF new
  <2>2. /\ Rows' = Rows /\ attempts'[a] = new
        /\ \A c \in Attempts : c # a => attempts'[c] = attempts[c]
    BY <1>1, <2>1, SameRows
  <2>3. AcksMeant /\ AnswersKept
    BY <1>1, <2>1, <2>2 DEF AcksMeant, AnswersKept
  <2> QED BY <1>1, <1>2, <2>2, <2>3, PlainStep
<1> QED BY <1>3, <1>4 DEF SubmitAttempt_Write

\* A trigger leaves the auto-submits in the queue.
LEMMA TriggerCareful ==
  ASSUME IInv, Kept, NEW t \in jobs, HandleQuizTriggerStart(t) \/ HandleQuizTriggerEnd(t)
  PROVE  Careful
<1>1. UNCHANGED <<attempts, local, acked, lost>> /\ t.type \in {"start", "end"}
  BY DEF HandleQuizTriggerStart, HandleQuizTriggerEnd
<1>2. Done(t) \/ (Fault /\ jobs' = Retry(jobs, t))
  BY DEF HandleQuizTriggerStart, HandleQuizTriggerEnd
<1>3. NeverUndone
  BY <1>2, FaultCounts DEF Done, budget, NeverUndone
<1>4. \A u \in jobs : u # t => u \in jobs'
  BY <1>2 DEF Done, Retry
<1>5. \A a \in Rows : Armed(a) => Armed(a)'
  BY <1>1, <1>4 DEF Armed, Queued, Taken, Coming
<1> QED BY <1>1, <1>3, <1>5 DEF Careful, LossCaused, ArmsKept, AcksMeant, AnswersKept, Rows

\* The worker takes the task of an open attempt and holds it; the tasks of
\* others stay.
LEMMA AutoReadCareful ==
  ASSUME IInv, Kept, NEW w \in Workers, NEW t \in jobs, HandleQuizAutoSubmit_Read(w, t)
  PROVE  Careful
<1>1. /\ UNCHANGED <<attempts, acked>> /\ local[w].op = "idle"
      /\ local \in [Handlers \cup Workers -> Local]
  BY DEF HandleQuizAutoSubmit_Read, Idle, IInv, TypeOK
<1>2. Rows' = Rows /\ AcksMeant /\ AnswersKept
  BY <1>1 DEF Rows, AcksMeant, AnswersKept
<1>3. NeverUndone /\ \A u \in jobs : u # t => u \in jobs'
  BY FaultCounts DEF HandleQuizAutoSubmit_Read, Done, Retry, budget, NeverUndone
<1>4. \A q \in Handlers \cup Workers : q # w => local'[q] = local[q]
  <2>1. UNCHANGED local \/ \E rec : Goto(w, rec)
    BY DEF HandleQuizAutoSubmit_Read
  <2> QED BY <1>1, <2>1 DEF Goto
<1>5. /\ lost \subseteq lost' /\ LossCaused
      /\ attempts[t.row].submitted \/ Taken(t.row)' \/ t.row \in lost'
  <2>1. CASE Goto(w, [Idle EXCEPT !.op = "autoWrite", !.att = t.row, !.left = t.left])
             /\ UNCHANGED lost
    BY <1>1, <2>1 DEF Taken, Goto, Idle, LossCaused
  <2>2. CASE Fault /\ lost' = lost \cup {t.row}
    BY <2>2, FaultCounts DEF LossCaused
  <2>3. CASE attempts[t.row].submitted /\ UNCHANGED lost
    BY <2>3 DEF LossCaused
  <2> QED BY <2>1, <2>2, <2>3 DEF HandleQuizAutoSubmit_Read
<1>6. ASSUME NEW a \in Rows \ lost', Armed(a) PROVE Armed(a)'
  <2>1. CASE attempts[a].submitted
    BY <1>1, <2>1 DEF Armed
  <2>2. CASE Queued(a)
    BY <1>1, <1>3, <1>5, <1>6, <2>2 DEF Armed, Queued
  <2>3. CASE Taken(a)
    BY <1>1, <1>4, <2>3 DEF Armed, Taken
  <2>4. CASE Coming(a)
    BY <1>1, <1>4, <2>4 DEF Armed, Coming
  <2> QED BY <1>6, <2>1, <2>2, <2>3, <2>4 DEF Armed
<1> QED BY <1>2, <1>3, <1>5, <1>6 DEF Careful, ArmsKept

LEMMA AutoWriteCareful ==
  ASSUME IInv, Kept, NEW w \in Workers, HandleQuizAutoSubmit_Write(w)
  PROVE  Careful
<1> DEFINE a == local[w].att
           new == [attempts[a] EXCEPT !.submitted = TRUE, !.auto = TRUE, !.flagged = TRUE]
<1>1. /\ local[w].op = "autoWrite" /\ UNCHANGED <<jobs, acked>> /\ Return(w)
      /\ a \in Rows /\ local \in [Handlers \cup Workers -> Local]
  BY DEF HandleQuizAutoSubmit_Write, IInv, Bound, TypeOK
<1>2. NeverUndone
  BY FaultCounts DEF HandleQuizAutoSubmit_Write, budget, NeverUndone
<1>5. \A q \in Handlers \cup Workers : q # w => local'[q] = local[q]
  BY <1>1 DEF Return, Goto
<1>6. w \notin Handlers
  BY QuizAssumption
<1>3. CASE Fault /\ UNCHANGED attempts /\ lost' = lost \cup {a}
  <2>1. ASSUME NEW c \in Rows \ lost', Armed(c) PROVE Armed(c)'
    <3>1. CASE attempts[c].submitted \/ Queued(c)
      BY <1>1, <1>3, <3>1 DEF Armed, Queued
    <3>2. CASE Taken(c)
      BY <1>3, <1>5, <3>2 DEF Armed, Taken
    <3>3. CASE Coming(c)
      BY <1>5, <1>6, <3>3 DEF Armed, Coming
    <3> QED BY <2>1, <3>1, <3>2, <3>3 DEF Armed
  <2>2. LossCaused /\ AcksMeant /\ AnswersKept /\ Rows' = Rows
    BY <1>1, <1>3, FaultCounts DEF LossCaused, AcksMeant, AnswersKept, Rows
  <2> QED BY <1>2, <1>3, <2>1, <2>2 DEF Careful, ArmsKept
<1>4. CASE attempts' = [attempts EXCEPT ![a].submitted = TRUE,
                                        ![a].auto = TRUE, ![a].flagged = TRUE]
            /\ UNCHANGED lost
  <2>1. /\ attempts' = [attempts EXCEPT ![a] = new]
        /\ new.student = attempts[a].student /\ new.submitted
        /\ new.answers = attempts[a].answers
    <3>1. attempts \in [Attempts -> Attempt] /\ a \in Attempts
      BY <1>1 DEF IInv, TypeOK, Rows
    <3> QED BY <1>4, <3>1 DEF Attempt
  <2> HIDE DEF new
  <2>2. /\ Rows' = Rows /\ attempts'[a] = new
        /\ \A c \in Attempts : c # a => attempts'[c] = attempts[c]
    BY <1>1, <2>1, SameRows
  <2>3. AcksMeant /\ AnswersKept
    BY <1>1, <2>1, <2>2 DEF AcksMeant, AnswersKept
  <2>4. ASSUME NEW c \in Rows, Armed(c) PROVE Armed(c)'
    <3>1. c \in Attempts
      BY DEF Rows
    <3>2. CASE attempts[c].submitted
      BY <3>1, <3>2 DEF Kept, Armed
    <3>3. CASE Queued(c)
      BY <1>1, <3>3 DEF Armed, Queued
    <3>4. CASE Taken(c)
      BY <1>5, <2>1, <2>2, <3>4 DEF Armed, Taken
    <3>5. CASE Coming(c)
      BY <1>5, <1>6, <3>5 DEF Armed, Coming
    <3> QED BY <2>4, <3>2, <3>3, <3>4, <3>5 DEF Armed
  <2> QED BY <1>2, <1>4, <2>2, <2>3, <2>4 DEF Careful, LossCaused, ArmsKept
<1> QED BY <1>3, <1>4 DEF HandleQuizAutoSubmit_Write

\* A crash loses what was about to be queued and what was taken for the last
\* time; everything else is in the queue again.
LEMMA CrashCareful == ASSUME IInv, Crash PROVE Careful
<1>1. crashes' # 0 /\ jobs \subseteq jobs' /\ UNCHANGED <<attempts, acked, faults>>
  BY DEF Crash, IInv, TypeOK
<1>2. lost \subseteq lost'
  BY DEF Crash
<1>3. ASSUME NEW a \in Rows \ lost', Armed(a) PROVE Armed(a)'
  <2>1. CASE attempts[a].submitted \/ Queued(a)
    BY <1>1, <2>1 DEF Armed, Queued
  <2>2. CASE Taken(a)
    <3>1. PICK w \in Workers : local[w].op = "autoWrite" /\ local[w].att = a
      BY <2>2 DEF Taken
    <3> DEFINE t == Task("autoSubmit", local[w].att, local[w].left)
    <3>2. t \in Held /\ t.row = a /\ t.type = "autoSubmit"
      BY <3>1 DEF Held, Task
    <3>3. t.left \in 0..2
      BY <3>1 DEF Task, IInv, TypeOK, Local
    <3>4. t.left # 0
      BY <1>3, <3>2 DEF Crash
    <3>5. [t EXCEPT !.left = t.left - 1] \in jobs'
      <4>1. t.left > 0
        BY <3>3, <3>4
      <4> QED BY <3>2, <4>1 DEF Crash
    <3>6. [t EXCEPT !.left = t.left - 1].row = a /\ [t EXCEPT !.left = t.left - 1].type = "autoSubmit"
      BY <3>2 DEF Task
    <3> QED BY <3>5, <3>6 DEF Armed, Queued
  <2>3. CASE Coming(a)
    BY <1>3, <2>3 DEF Coming, Crash
  <2> QED BY <1>3, <2>1, <2>2, <2>3 DEF Armed
<1> QED BY <1>1, <1>2, <1>3
     DEF Careful, NeverUndone, LossCaused, ArmsKept, AcksMeant, AnswersKept, Rows

-----------------------------------------------------------------------------
LEMMA NextCareful == ASSUME IInv, Next PROVE Careful
<1>0. Kept
  BY NextKept
<1>1. ASSUME NEW h \in Handlers, Arrive(h) PROVE Careful
  BY <1>0, <1>1, OwnerCareful, ReadCareful DEF Arrive
<1>2. ASSUME NEW h \in Handlers, Proceed(h) PROVE Careful
  BY <1>0, <1>2, OwnerCareful, ReadCareful, CreateCareful, EnqueueCareful,
     ViolationCareful, SubmitCareful DEF Proceed
<1>3. ASSUME Work PROVE Careful
  BY <1>0, <1>3, TriggerCareful, AutoReadCareful, AutoWriteCareful DEF Work
<1> QED BY <1>0, <1>1, <1>2, <1>3, SaveCareful, AssignCareful, CrashCareful DEF Next

BInv == IInv /\ BackupArmed /\ AckedSubmitted

LEMMA InitBInv == Init => BInv
<1> SUFFICES ASSUME Init PROVE BInv
  OBVIOUS
<1>1. IInv
  BY InitIInv
<1>2. Rows = {} /\ acked = {} /\ lost = {}
  BY DEF Init, Rows, NoRow
<1> QED BY <1>1, <1>2 DEF BInv, BackupArmed, AckedSubmitted

LEMMA StepBInv == BInv /\ [Next]_vars => BInv'
<1> SUFFICES ASSUME BInv, [Next]_vars PROVE BInv'
  OBVIOUS
<1>1. IInv'
  BY StepIInv DEF BInv
<1>2. CASE Next
  <2>1. Careful /\ Kept
    BY <1>2, NextCareful, NextKept DEF BInv
  <2>2. \A a \in Rows \ lost : Armed(a)
    BY DEF BInv, BackupArmed, Armed, Queued, Taken, Coming
  <2>3. \A a \in Rows' \ lost' : Armed(a)'
    BY <2>1, <2>2 DEF Careful, ArmsKept
  <2>4. lost' # {} => faults' + crashes' > 0
    <3>1. /\ faults \in Nat /\ crashes \in Nat /\ faults' \in Nat /\ crashes' \in Nat
      BY <1>1 DEF BInv, IInv, TypeOK
    <3>2. lost # {} => faults # 0 \/ crashes # 0
      BY DEF BInv, BackupArmed
    <3>3. lost' # {} => faults' # 0 \/ crashes' # 0
      BY <2>1, <3>2 DEF Careful, LossCaused, NeverUndone
    <3>4. \A f, c \in Nat : f # 0 \/ c # 0 => f + c > 0
      OBVIOUS
    <3> QED BY <3>1, <3>3, <3>4
  <2>5. BackupArmed'
    BY <2>3, <2>4 DEF BackupArmed, Armed, Queued, Taken, Coming
  <2>6. acked \subseteq Attempts
    BY DEF BInv, IInv, TypeOK
  <2>7. AckedSubmitted'
    BY <2>1, <2>6 DEF BInv, AckedSubmitted, Careful, NeverUndone, AcksMeant, Kept
  <2> QED BY <1>1, <2>5, <2>7 DEF BInv
<1>3. CASE UNCHANGED vars
  BY <1>1, <1>3 DEF BInv, BackupArmed, AckedSubmitted, vars, Rows
<1> QED BY <1>2, <1>3

LEMMA AlwaysBInv == Spec => []BInv
  BY InitBInv, StepBInv, PTL DEF Spec

\* The auto-submit of an open attempt is queued, held by a worker or about to be
\* queued, for any number of students, requests, workers, failures and crashes,
\* unless a failed enqueue, lookup or update or a crash lost it; while nothing
\* fails and the server stays up nothing is lost (quizzes.go:339-343).
THEOREM AlwaysArmed == Spec => []BackupArmed
<1>1. BInv => BackupArmed
  BY DEF BInv
<1> QED BY <1>1, AlwaysBInv, PTL

\* Unless a statement fails, who was told "Quiz submitted successfully" has a
\* submitted attempt, whatever overlaps and crashes (quizzes.go:475-485).
THEOREM AlwaysMeant == Spec => []AckedSubmitted
<1>1. BInv => AckedSubmitted
  BY DEF BInv
<1> QED BY <1>1, AlwaysBInv, PTL

\* The answers of a submitted attempt change only through a submission let in
\* while it was open, never through a late save (quizzes.go:375-378).
THEOREM AlwaysFrozen == Spec => FrozenAnswers
<1>1. ASSUME IInv, [Next]_vars PROVE [AnswersKept]_vars
  BY <1>1, NextCareful DEF Careful
<1> QED BY <1>1, AlwaysIInv, PTL DEF Spec, FrozenAnswers, AnswersKept


-----------------------------------------------------------------------------
(* Third part: the handlers keep the promise of QuizSitting, under any load,  *)
(* failures and crashes.  A step that goes from one stage of a start to the   *)
(* next moves a desk, a write of a row hands in or changes no seat, and the   *)
(* owner and the tasks move the doors.                                        *)

Starting == {"startCheck", "startCreate"}

\* A quiz that a request is about to close was open when the request came.
Closing == \A h \in Handlers : local[h].op = "closeWrite" => status \in {"ACTIVE", "CLOSED"}

\* What the steps of QuizSitting do to the quiz.
Course ==
  \/ Sitting!Open \/ Sitting!Close
  \/ \E d \in Handlers : \/ \E s \in Students : Sitting!Enter(d, s)
                         \/ Sitting!Clear(d) \/ Sitting!Leave(d)
                         \/ \E a \in Attempts : Sitting!Sit(d, a)
  \/ \E a \in Attempts : Sitting!HandIn(a)
  \/ Sitting!Evacuate
  \/ UNCHANGED <<doors, desks, seats>>

\* A step counts at most one failure.
Counted == faults' \in {faults, faults + 1}

Promised == Closing' /\ Counted /\ Course

\* What a desk does, by the request its handler serves.
DeskOf(loc) ==
  CASE loc.op = "startCheck"  -> [at |-> "door", student |-> loc.student]
    [] loc.op = "startCreate" -> [at |-> "seating", student |-> loc.student]
    [] OTHER -> [at |-> "free", student |-> NoStudent]

LEMMA DeskCases ==
  ASSUME NEW loc
  PROVE  /\ loc.op = "startCheck" => DeskOf(loc) = [at |-> "door", student |-> loc.student]
         /\ loc.op = "startCreate" => DeskOf(loc) = [at |-> "seating", student |-> loc.student]
         /\ loc.op \notin Starting => DeskOf(loc) = Sitting!Free
BY DEF DeskOf, Starting, Sitting!Free

LEMMA DesksAre ==
  /\ desks = [h \in Handlers |-> DeskOf(local[h])]
  /\ desks' = [h \in Handlers |-> DeskOf(local'[h])]
BY DEF desks, DeskOf

LEMMA SeatsAre ==
  /\ seats = [a \in Attempts |-> [student |-> attempts[a].student,
                                  handedIn |-> attempts[a].submitted]]
  /\ seats' = [a \in Attempts |-> [student |-> attempts'[a].student,
                                   handedIn |-> attempts'[a].submitted]]
BY DEF seats

\* A handler comes to another step: its desk alone changes.
LEMMA DeskMoves ==
  ASSUME local \in [Handlers \cup Workers -> Local], NEW h \in Handlers, NEW rec, Goto(h, rec)
  PROVE  desks' = [desks EXCEPT ![h] = DeskOf(rec)]
<1>1. local'[h] = rec /\ \A g \in Handlers : g # h => local'[g] = local[g]
  BY DEF Goto
<1> QED BY <1>1, DesksAre

\* A goroutine goes from a step outside a start to another such step.
LEMMA DesksAside ==
  ASSUME local \in [Handlers \cup Workers -> Local], NEW p \in Handlers \cup Workers, NEW rec,
         Goto(p, rec), local[p].op \notin Starting, rec.op \notin Starting
  PROVE  desks' = desks
<1>1. local'[p] = rec /\ \A q \in Handlers \cup Workers : q # p => local'[q] = local[q]
  BY DEF Goto
<1>2. ASSUME NEW h \in Handlers PROVE DeskOf(local'[h]) = DeskOf(local[h])
  <2>1. CASE h = p
    BY <1>1, <2>1, DeskCases
  <2>2. CASE h # p
    BY <1>1, <2>2
  <2> QED BY <2>1, <2>2
<1> QED BY <1>2, DesksAre

LEMMA SeatsStay ==
  ASSUME \A a \in Attempts : /\ attempts'[a].student = attempts[a].student
                             /\ attempts'[a].submitted = attempts[a].submitted
  PROVE  seats' = seats
BY SeatsAre

\* The doors move as the status does.
LEMMA DoorMoves ==
  ASSUME desks' = desks, seats' = seats,
         \/ status' = status
         \/ status = "ABSENT" /\ status' = "DRAFT"
         \/ status' = "ACTIVE"
         \/ status \in {"ACTIVE", "CLOSED"} /\ status' = "CLOSED"
  PROVE  Course
<1>1. /\ (status = "ACTIVE" <=> doors = "open") /\ (status = "CLOSED" <=> doors = "closed")
      /\ status \notin {"ACTIVE", "CLOSED"} <=> doors = "shut"
  BY DEF doors
<1>2. /\ status' = "ACTIVE" => doors' = "open"
      /\ status' = "CLOSED" => doors' = "closed"
      /\ status' \notin {"ACTIVE", "CLOSED"} => doors' = "shut"
      /\ status' = status => doors' = doors
  BY DEF doors
<1>3. CASE status' = status
  BY <1>2, <1>3 DEF Course
<1>4. CASE status = "ABSENT" /\ status' = "DRAFT"
  BY <1>1, <1>2, <1>4 DEF Course
<1>5. CASE status' = "ACTIVE"
  BY <1>1, <1>2, <1>5 DEF Course, Sitting!Open
<1>6. CASE status \in {"ACTIVE", "CLOSED"} /\ status' = "CLOSED"
  BY <1>1, <1>2, <1>6 DEF Course, Sitting!Close
<1> QED BY <1>3, <1>4, <1>5, <1>6

LEMMA DoorsStay == ASSUME status' = status PROVE doors' = doors
BY DEF doors

LEMMA FaultCounted == Fault \/ UNCHANGED budget => Counted
BY DEF Fault, budget, Counted

\* A step outside CloseQuiz, by one goroutine.
LEMMA ClosingKept ==
  ASSUME Closing, status' = status,
         \A h \in Handlers : local'[h].op = "closeWrite" => local'[h] = local[h]
  PROVE  Closing'
BY DEF Closing

\* A goroutine goes from a step outside a start to another such step, and
\* changes nobody's seat; the doors may move.
LEMMA AsideSits ==
  ASSUME IInv, Closing, Counted, NEW p \in Handlers \cup Workers, NEW rec, Goto(p, rec),
         local[p].op \notin Starting, rec.op \notin Starting, seats' = seats,
         rec.op = "closeWrite" => status' = "ACTIVE",
         \/ status' = status
         \/ status = "ABSENT" /\ status' = "DRAFT"
         \/ status' = "ACTIVE"
         \/ status \in {"ACTIVE", "CLOSED"} /\ status' = "CLOSED"
  PROVE  Promised
<1>1. local \in [Handlers \cup Workers -> Local]
  BY DEF IInv, TypeOK
<1>2. local'[p] = rec /\ \A q \in Handlers \cup Workers : q # p => local'[q] = local[q]
  BY <1>1 DEF Goto
<1>3. Closing'
  BY <1>2 DEF Closing
<1>4. Course
  BY <1>1, DesksAside, DoorMoves
<1> QED BY <1>3, <1>4 DEF Promised

LEMMA OwnerSits ==
  ASSUME IInv, Closing, Counted, NEW h \in Handlers,
         \/ CreateQuiz(h) \/ EnqueueQuizStart(h) \/ EnqueueQuizEnd(h)
         \/ PublishQuiz_Read(h) \/ PublishQuiz_Write(h)
         \/ CloseQuiz_Read(h) \/ CloseQuiz_Write(h)
  PROVE  Promised
<1>1. /\ attempts' = attempts
      /\ local[h].op \in {"idle", "createStart", "createEnd", "publishWrite", "closeWrite"}
  BY DEF CreateQuiz, EnqueueQuizStart, EnqueueQuizEnd, PublishQuiz_Read, PublishQuiz_Write,
         CloseQuiz_Read, CloseQuiz_Write, Idle
<1>2. \/ status' = status
      \/ status = "ABSENT" /\ status' = "DRAFT"
      \/ status' = "ACTIVE"
      \/ status \in {"ACTIVE", "CLOSED"} /\ status' = "CLOSED"
  BY DEF CreateQuiz, EnqueueQuizStart, EnqueueQuizEnd, PublishQuiz_Read, PublishQuiz_Write,
         CloseQuiz_Read, CloseQuiz_Write, Closing
<1>3. \E rec : /\ Goto(h, rec) /\ rec.op \notin Starting
               /\ rec.op = "closeWrite" => status' = "ACTIVE"
  <2>1. Idle.op = "idle" /\ \A op : [Idle EXCEPT !.op = op].op = op
    BY DEF Idle
  <2>2. CASE CloseQuiz_Read(h)
    BY <2>1, <2>2 DEF CloseQuiz_Read, Starting
  <2>3. CASE ~CloseQuiz_Read(h)
    <3>1. \E op \in {"createStart", "createEnd", "publishWrite"} :
            Goto(h, [Idle EXCEPT !.op = op]) \/ Return(h)
      BY <2>3 DEF CreateQuiz, EnqueueQuizStart, EnqueueQuizEnd, PublishQuiz_Read,
                  PublishQuiz_Write, CloseQuiz_Write
    <3>2. PICK op \in {"createStart", "createEnd", "publishWrite"} :
            Goto(h, [Idle EXCEPT !.op = op]) \/ Return(h)
      BY <3>1
    <3> QED BY <2>1, <3>2 DEF Return, Starting
  <2> QED BY <2>2, <2>3
<1>4. PICK rec : /\ Goto(h, rec) /\ rec.op \notin Starting
                 /\ rec.op = "closeWrite" => status' = "ACTIVE"
  BY <1>3
<1>5. seats' = seats
  BY <1>1, SeatsStay
<1> QED BY <1>1, <1>2, <1>4, <1>5, AsideSits DEF Starting

\* The read of another request or of a task, and the enqueue that ends a start.
LEMMA ReadSits ==
  ASSUME IInv, Closing, Counted, NEW p \in Handlers \cup Workers,
         \/ \E a \in Rows, k \in Kinds : LogViolation_Read(p, a, k)
         \/ \E a \in Rows, ans \in Answers : SubmitAttempt_Read(p, a, ans)
         \/ StartAttempt_Enqueue(p)
         \/ \E t \in jobs : HandleQuizAutoSubmit_Read(p, t)
  PROVE  Promised
<1>1. Idle.op = "idle" /\ \A op : [Idle EXCEPT !.op = op].op = op
  BY DEF Idle
<1>2. /\ attempts' = attempts /\ status' = status /\ local[p].op \notin Starting
      /\ \/ local' = local
         \/ \E rec : Goto(p, rec) /\ rec.op \notin Starting /\ rec.op # "closeWrite"
  <2>1. ASSUME NEW a \in Rows, NEW k \in Kinds, LogViolation_Read(p, a, k)
        PROVE  /\ attempts' = attempts /\ status' = status /\ local[p].op \notin Starting
               /\ \E rec : Goto(p, rec) /\ rec.op \notin Starting /\ rec.op # "closeWrite"
    <3> DEFINE rec == [Idle EXCEPT !.op = "violationWrite", !.att = a,
                         !.violations = [attempts[a].violations EXCEPT ![k] = @ + 1],
                         !.submitted = attempts[a].submitted]
    <3>1. rec.op = "violationWrite"
      BY DEF Idle
    <3>2. attempts' = attempts /\ status' = status /\ local[p] = Idle /\ Goto(p, rec)
      BY <2>1 DEF LogViolation_Read
    <3> HIDE DEF rec
    <3> QED BY <1>1, <3>1, <3>2 DEF Starting
  <2>2. ASSUME NEW a \in Rows, NEW ans \in Answers, SubmitAttempt_Read(p, a, ans)
        PROVE  /\ attempts' = attempts /\ status' = status /\ local[p].op \notin Starting
               /\ \E rec : Goto(p, rec) /\ rec.op \notin Starting /\ rec.op # "closeWrite"
    <3> DEFINE rec == [Idle EXCEPT !.op = "submitWrite", !.att = a, !.answers = ans]
    <3>1. rec.op = "submitWrite"
      BY DEF Idle
    <3>2. attempts' = attempts /\ status' = status /\ local[p] = Idle /\ Goto(p, rec)
      BY <2>2 DEF SubmitAttempt_Read
    <3> HIDE DEF rec
    <3> QED BY <1>1, <3>1, <3>2 DEF Starting
  <2>3. CASE StartAttempt_Enqueue(p)
    BY <1>1, <2>3 DEF StartAttempt_Enqueue, Return, Starting
  <2>4. ASSUME NEW t \in jobs, HandleQuizAutoSubmit_Read(p, t)
        PROVE  /\ attempts' = attempts /\ status' = status /\ local[p].op \notin Starting
               /\ \/ local' = local
                  \/ \E rec : Goto(p, rec) /\ rec.op \notin Starting /\ rec.op # "closeWrite"
    <3> DEFINE rec == [Idle EXCEPT !.op = "autoWrite", !.att = t.row, !.left = t.left]
    <3>1. rec.op = "autoWrite"
      BY DEF Idle
    <3>2. /\ attempts' = attempts /\ status' = status /\ local[p] = Idle
          /\ local' = local \/ Goto(p, rec)
      BY <2>4 DEF HandleQuizAutoSubmit_Read
    <3> HIDE DEF rec
    <3> QED BY <1>1, <3>1, <3>2 DEF Starting
  <2> QED BY <2>1, <2>2, <2>3, <2>4
<1>3. seats' = seats
  BY <1>2, SeatsStay
<1>4. CASE local' = local
  <2>1. Closing' /\ desks' = desks
    BY <1>2, <1>4, DesksAre DEF Closing
  <2> QED BY <1>2, <1>3, <2>1, DoorMoves DEF Promised
<1>5. ASSUME NEW rec, Goto(p, rec), rec.op \notin Starting, rec.op # "closeWrite"
      PROVE  Promised
  BY <1>2, <1>3, <1>5, AsideSits
<1> QED BY <1>2, <1>4, <1>5

\* The tasks that open and close, and the question bank, touch no attempt.
LEMMA TriggerSits ==
  ASSUME IInv, Closing, Counted,
         \/ \E t \in jobs : HandleQuizTriggerStart(t) \/ HandleQuizTriggerEnd(t)
         \/ AssignQuestion
  PROVE  Promised
<1>1. /\ attempts' = attempts /\ local' = local
      /\ \/ status' = status
         \/ status = "DRAFT" /\ status' = "ACTIVE"
         \/ status = "ACTIVE" /\ status' = "CLOSED"
  BY DEF HandleQuizTriggerStart, HandleQuizTriggerEnd, AssignQuestion
<1>2. Closing' /\ desks' = desks /\ seats' = seats
  BY <1>1, DesksAre, SeatsStay DEF Closing
<1> QED BY <1>1, <1>2, DoorMoves DEF Promised

\* A request for an attempt enters while the quiz is active.
LEMMA EnterSits ==
  ASSUME IInv, Closing, Counted, NEW h \in Handlers, NEW s \in Students, StartAttempt_Read(h, s)
  PROVE  Promised
<1> DEFINE rec == [Idle EXCEPT !.op = "startCheck", !.student = s]
<1>1. rec.op = "startCheck" /\ rec.student = s /\ Idle.op = "idle"
  BY DEF Idle
<1>2. /\ local[h] = Idle /\ status = "ACTIVE" /\ status' = status /\ attempts' = attempts
      /\ Goto(h, rec) /\ local \in [Handlers \cup Workers -> Local]
  BY DEF StartAttempt_Read, IInv, TypeOK
<1> HIDE DEF rec
<1>3. Closing'
  BY <1>1, <1>2, ClosingKept DEF Goto
<1>4. desks' = [desks EXCEPT ![h] = [at |-> "door", student |-> s]]
  BY <1>1, <1>2, DeskMoves, DeskCases
<1>5. desks[h] = Sitting!Free
  BY <1>1, <1>2, DesksAre, DeskCases DEF Starting
<1>6. doors = "open" /\ doors' = doors /\ seats' = seats
  BY <1>2, SeatsStay, DoorsStay DEF doors
<1> QED BY <1>3, <1>4, <1>5, <1>6 DEF Promised, Course, Sitting!Enter, Sitting!Serve

\* A student who has a seat when the handler looks goes back to it, unless the
\* lookup fails; who has none, or seems to have none, is to be seated.
LEMMA CheckSits ==
  ASSUME IInv, Closing, Counted, NEW h \in Handlers, StartAttempt_Check(h)
  PROVE  Promised
<1> DEFINE s == local[h].student
           rec == [local[h] EXCEPT !.op = "startCreate"]
<1>1. /\ local[h].op = "startCheck" /\ status' = status /\ attempts' = attempts
      /\ local \in [Handlers \cup Workers -> Local] /\ s \in Students
      /\ \/ Return(h)
         \/ Goto(h, rec) /\ (HasAttempt(s) => Fault)
  BY DEF StartAttempt_Check, IInv, TypeOK, Bound
<1>2. local[h] \in Local
  BY <1>1
<1>3. rec.op = "startCreate" /\ rec.student = s /\ Idle.op = "idle"
  BY <1>2 DEF Idle, Local
<1>4. desks[h] = [at |-> "door", student |-> s] /\ doors' = doors /\ seats' = seats
  BY <1>1, DesksAre, DeskCases, SeatsStay, DoorsStay
<1> HIDE DEF rec
<1>5. Closing'
  <2>1. local'[h].op # "closeWrite" /\ \A g \in Handlers : g # h => local'[g] = local[g]
    BY <1>1, <1>3 DEF Goto, Return
  <2> QED BY <1>1, <2>1, ClosingKept
<1>6. CASE Return(h)
  <2>1. desks' = [desks EXCEPT ![h] = Sitting!Free]
    BY <1>1, <1>3, <1>6, DeskMoves, DeskCases DEF Return, Starting
  <2>2. Sitting!Leave(h)
    BY <1>4, <2>1 DEF Sitting!Leave, Sitting!Free
  <2> QED BY <1>5, <2>2 DEF Promised, Course
<1>7. CASE Goto(h, rec) /\ (HasAttempt(s) => Fault)
  <2>1. desks' = [desks EXCEPT ![h] = [at |-> "seating", student |-> s]]
    BY <1>1, <1>3, <1>7, DeskMoves, DeskCases
  <2>2. Sitting!Seated(s) => HasAttempt(s)
    BY SeatsAre DEF Sitting!Seated, HasAttempt
  <2>3. Fault => faults' > faults
    <3>1. faults \in Nat
      BY DEF IInv, TypeOK
    <3> QED BY <3>1 DEF Fault
  <2>4. Sitting!Clear(h)
    BY <1>4, <1>7, <2>1, <2>2, <2>3 DEF Sitting!Clear, Sitting!Serve
  <2> QED BY <1>5, <2>4 DEF Promised, Course
<1> QED BY <1>1, <1>6, <1>7

\* The insert takes an empty seat, or none.
LEMMA CreateSits ==
  ASSUME IInv, Closing, Counted, NEW h \in Handlers, StartAttempt_Create(h)
  PROVE  Promised
<1> DEFINE s == local[h].student
<1>1. /\ local[h].op = "startCreate" /\ status' = status
      /\ local \in [Handlers \cup Workers -> Local] /\ s \in Students
      /\ attempts \in [Attempts -> Attempt] /\ Idle.op = "idle"
      /\ \A op, a : [Idle EXCEPT !.op = op, !.att = a].op = op
  BY DEF StartAttempt_Create, IInv, TypeOK, Bound, Idle
<1>2. desks[h] = [at |-> "seating", student |-> s] /\ doors' = doors
  BY <1>1, DesksAre, DeskCases, DoorsStay
<1>3. ASSUME NEW rec, Goto(h, rec), rec.op \notin Starting, rec.op # "closeWrite"
      PROVE  Closing' /\ desks' = [desks EXCEPT ![h] = Sitting!Free]
  <2>1. local'[h] = rec /\ \A g \in Handlers : g # h => local'[g] = local[g]
    BY <1>1, <1>3 DEF Goto
  <2> QED BY <1>1, <1>3, <2>1, ClosingKept, DeskMoves, DeskCases
<1>4. CASE Return(h) /\ UNCHANGED attempts
  <2>1. Closing' /\ desks' = [desks EXCEPT ![h] = Sitting!Free]
    BY <1>1, <1>3, <1>4 DEF Return, Starting
  <2>2. Sitting!Leave(h)
    BY <1>2, <1>4, <2>1, SeatsStay DEF Sitting!Leave, Sitting!Free
  <2> QED BY <2>1, <2>2 DEF Promised, Course
<1>5. ASSUME NEW a \in Attempts \ Rows,
             attempts' = [attempts EXCEPT ![a] = NewAttempt(s)],
             Goto(h, [Idle EXCEPT !.op = "startEnqueue", !.att = a])
      PROVE  Promised
  <2> DEFINE rec == [Idle EXCEPT !.op = "startEnqueue", !.att = a]
  <2>0. rec.op = "startEnqueue" /\ Goto(h, rec)
    BY <1>1, <1>5
  <2> HIDE DEF rec
  <2>1. Closing' /\ desks' = [desks EXCEPT ![h] = Sitting!Free]
    BY <1>1, <1>3, <2>0 DEF Starting
  <2>2. seats[a] = Sitting!Empty
    <3>1. attempts[a].student = NoStudent /\ attempts[a].submitted = FALSE
      BY <1>1 DEF IInv, Referential, Rows, Attempt
    <3> QED BY <3>1, SeatsAre DEF Sitting!Empty
  <2>3. /\ attempts'[a].student = s /\ ~attempts'[a].submitted
        /\ attempts'[a].submitted = FALSE
        /\ \A c \in Attempts : c # a => attempts'[c] = attempts[c]
    BY <1>1, <1>5 DEF NewAttempt, NoRow
  <2>4. seats' = [seats EXCEPT ![a] = [student |-> s, handedIn |-> FALSE]]
    BY <2>3, SeatsAre
  <2>5. seats[a] = [student |-> NoStudent, handedIn |-> FALSE]
    BY <2>2 DEF Sitting!Empty
  <2>6. seats' = [seats EXCEPT ![a].student = s]
    BY <2>4, <2>5, SeatsAre
  <2>7. Sitting!Sit(h, a)
    BY <1>2, <2>1, <2>2, <2>6 DEF Sitting!Sit
  <2> QED BY <2>1, <2>7 DEF Promised, Course
<1> QED BY <1>4, <1>5 DEF StartAttempt_Create

\* A write of a row keeps its student and does not reopen it: its seat is
\* handed in, or nothing happens to the seats.
LEMMA RowSits ==
  ASSUME IInv, Kept, desks' = desks, status' = status, NEW a \in Rows,
         attempts'[a].student = attempts[a].student,
         \A c \in Attempts : c # a => attempts'[c] = attempts[c]
  PROVE  Course
<1>1. /\ a \in Attempts /\ attempts[a] \in Attempt /\ attempts'[a] \in Attempt
      /\ attempts[a].student # NoStudent
      /\ attempts[a].submitted => attempts'[a].submitted
  BY DEF Rows, IInv, TypeOK, Kept
<1>2. attempts[a].submitted \in BOOLEAN /\ attempts'[a].submitted \in BOOLEAN
  BY <1>1 DEF Attempt
<1>3. CASE attempts'[a].submitted = attempts[a].submitted
  BY <1>3, SeatsStay, DoorMoves
<1>4. CASE ~attempts[a].submitted /\ attempts'[a].submitted
  <2>1. attempts[a].submitted = FALSE /\ attempts'[a].submitted = TRUE
    BY <1>2, <1>4
  <2>2. seats' = [seats EXCEPT ![a] = [student |-> attempts[a].student, handedIn |-> TRUE]]
    BY <2>1, SeatsAre
  <2>3. seats[a] = [student |-> attempts[a].student, handedIn |-> FALSE]
    BY <1>1, <2>1, SeatsAre
  <2>4. seats' = [seats EXCEPT ![a].handedIn = TRUE]
    BY <2>2, <2>3, SeatsAre
  <2>5. Sitting!HandIn(a)
    BY <1>1, <2>3, <2>4, DoorsStay DEF Sitting!HandIn
  <2> QED BY <1>1, <2>5 DEF Course
<1> QED BY <1>1, <1>2, <1>3, <1>4

\* The write of a request or a task, which then is over.
LEMMA WriteSits ==
  ASSUME IInv, Kept, Closing, Counted, status' = status, NEW p \in Handlers \cup Workers,
         local[p].op \notin Starting, Return(p), NEW a \in Rows,
         attempts'[a].student = attempts[a].student,
         \A c \in Attempts : c # a => attempts'[c] = attempts[c]
  PROVE  Promised
<1>1. local \in [Handlers \cup Workers -> Local] /\ Idle.op = "idle"
  BY DEF IInv, TypeOK, Idle
<1>2. /\ local'[p] = Idle
      /\ \A q \in Handlers \cup Workers : q # p => local'[q] = local[q]
  BY <1>1 DEF Return, Goto
<1>3. Closing'
  BY <1>1, <1>2, ClosingKept
<1>4. desks' = desks
  BY <1>1, DesksAside DEF Return, Starting
<1> QED BY <1>3, <1>4, RowSits DEF Promised

LEMMA ViolationSits ==
  ASSUME IInv, Kept, Closing, Counted, NEW h \in Handlers, LogViolation_Write(h)
  PROVE  Promised
<1> DEFINE a == local[h].att
<1>1. /\ local[h].op = "violationWrite" /\ status' = status /\ Return(h) /\ a \in Rows
      /\ local[h].op \notin Starting
  BY DEF LogViolation_Write, IInv, Bound, Starting
<1>2. CASE UNCHANGED attempts
  BY <1>1, <1>2, WriteSits
<1>3. ASSUME NEW limit, attempts' = [attempts EXCEPT ![a] =
               Recorded(@, local[h].violations, local[h].submitted, limit)]
      PROVE  Promised
  <2> DEFINE new == Recorded(attempts[a], local[h].violations, local[h].submitted, limit)
  <2>1. new.student = attempts[a].student /\ attempts' = [attempts EXCEPT ![a] = new]
    <3>1. attempts \in [Attempts -> Attempt] /\ a \in Attempts
      BY <1>1 DEF IInv, TypeOK, Rows
    <3> QED BY <1>3, <3>1 DEF Recorded, Attempt
  <2> HIDE DEF new
  <2>2. attempts'[a] = new /\ \A c \in Attempts : c # a => attempts'[c] = attempts[c]
    BY <1>1, <2>1, SameRows
  <2> QED BY <1>1, <2>1, <2>2, WriteSits
<1> QED BY <1>2, <1>3 DEF LogViolation_Write

LEMMA SubmitSits ==
  ASSUME IInv, Kept, Closing, Counted, NEW h \in Handlers, SubmitAttempt_Write(h)
  PROVE  Promised
<1> DEFINE a == local[h].att
           new == [attempts[a] EXCEPT !.answers = local[h].answers,
                     !.score = scoreAttempt(local[h].answers), !.submitted = TRUE]
<1>1. /\ local[h].op = "submitWrite" /\ status' = status /\ Return(h) /\ a \in Rows
      /\ local[h].op \notin Starting
  BY DEF SubmitAttempt_Write, IInv, Bound, Starting
<1>2. CASE UNCHANGED attempts
  BY <1>1, <1>2, WriteSits
<1>3. CASE attempts' = [attempts EXCEPT ![a].answers = local[h].answers,
                                        ![a].score = scoreAttempt(local[h].answers),
                                        ![a].submitted = TRUE]
  <2>1. new.student = attempts[a].student /\ attempts' = [attempts EXCEPT ![a] = new]
    <3>1. attempts \in [Attempts -> Attempt] /\ a \in Attempts
      BY <1>1 DEF IInv, TypeOK, Rows
    <3> QED BY <1>3, <3>1 DEF Attempt
  <2> HIDE DEF new
  <2>2. attempts'[a] = new /\ \A c \in Attempts : c # a => attempts'[c] = attempts[c]
    BY <1>1, <2>1, SameRows
  <2> QED BY <1>1, <2>1, <2>2, WriteSits
<1> QED BY <1>2, <1>3 DEF SubmitAttempt_Write

LEMMA AutoWriteSits ==
  ASSUME IInv, Kept, Closing, Counted, NEW w \in Workers, HandleQuizAutoSubmit_Write(w)
  PROVE  Promised
<1> DEFINE a == local[w].att
           new == [attempts[a] EXCEPT !.submitted = TRUE, !.auto = TRUE, !.flagged = TRUE]
<1>1. /\ local[w].op = "autoWrite" /\ status' = status /\ Return(w) /\ a \in Rows
      /\ local[w].op \notin Starting
  BY DEF HandleQuizAutoSubmit_Write, IInv, Bound, Starting
<1>2. CASE UNCHANGED attempts
  BY <1>1, <1>2, WriteSits
<1>3. CASE attempts' = [attempts EXCEPT ![a].submitted = TRUE,
                                        ![a].auto = TRUE, ![a].flagged = TRUE]
  <2>1. new.student = attempts[a].student /\ attempts' = [attempts EXCEPT ![a] = new]
    <3>1. attempts \in [Attempts -> Attempt] /\ a \in Attempts
      BY <1>1 DEF IInv, TypeOK, Rows
    <3> QED BY <1>3, <3>1 DEF Attempt
  <2> HIDE DEF new
  <2>2. attempts'[a] = new /\ \A c \in Attempts : c # a => attempts'[c] = attempts[c]
    BY <1>1, <2>1, SameRows
  <2> QED BY <1>1, <2>1, <2>2, WriteSits
<1> QED BY <1>2, <1>3 DEF HandleQuizAutoSubmit_Write

\* A save hands nobody in.
LEMMA SaveSits ==
  ASSUME IInv, Kept, Closing, Counted, NEW a \in Rows, NEW ans \in Answers, SaveProgress(a, ans)
  PROVE  Promised
<1>1. /\ status' = status /\ local' = local
      /\ \A c \in Attempts : c # a => attempts'[c] = attempts[c]
      /\ attempts'[a].student = attempts[a].student
  BY DEF SaveProgress, IInv, TypeOK, Rows, Attempt
<1>2. Closing' /\ desks' = desks
  BY <1>1, DesksAre DEF Closing
<1> QED BY <1>1, <1>2, RowSits DEF Promised

\* A crash turns away everybody who was let in and is not seated yet.
LEMMA CrashSits ==
  ASSUME IInv, Closing, Counted, Crash
  PROVE  Promised
<1>1. /\ attempts' = attempts /\ status' = status
      /\ local' = [p \in Handlers \cup Workers |-> Idle] /\ Idle.op = "idle"
  BY DEF Crash, Idle
<1>2. Closing' /\ seats' = seats /\ doors' = doors
  BY <1>1, ClosingKept, SeatsStay, DoorsStay
<1>3. desks' = [d \in Handlers |-> Sitting!Free]
  <2>1. DeskOf(Idle) = Sitting!Free
    BY <1>1, DeskCases DEF Starting
  <2>2. \A h \in Handlers : local'[h] = Idle
    BY <1>1
  <2> QED BY <2>1, <2>2, DesksAre
<1> QED BY <1>2, <1>3 DEF Promised, Course, Sitting!Evacuate

LEMMA NextCounts == ASSUME Next PROVE Counted
<1>1. ASSUME NEW h \in Handlers, Arrive(h) PROVE Counted
  BY <1>1, FaultCounted
  DEF Arrive, CreateQuiz, PublishQuiz_Read, CloseQuiz_Read, StartAttempt_Read,
      LogViolation_Read, SubmitAttempt_Read
<1>2. ASSUME NEW h \in Handlers, Proceed(h) PROVE Counted
  BY <1>2, FaultCounted
  DEF Proceed, Enqueue, EnqueueQuizStart, EnqueueQuizEnd, PublishQuiz_Write, CloseQuiz_Write,
      StartAttempt_Check, StartAttempt_Create, StartAttempt_Enqueue,
      LogViolation_Write, SubmitAttempt_Write
<1>3. ASSUME Work PROVE Counted
  <2>1. ASSUME NEW t, Done(t) PROVE Counted
    BY <2>1 DEF Done, budget, Counted
  <2> QED BY <1>3, <2>1, FaultCounted
          DEF Work, HandleQuizTriggerStart, HandleQuizTriggerEnd,
              HandleQuizAutoSubmit_Read, HandleQuizAutoSubmit_Write
<1>4. ASSUME NEW a, NEW ans, SaveProgress(a, ans) PROVE Counted
  BY <1>4, FaultCounted DEF SaveProgress
<1>5. AssignQuestion \/ Crash => Counted
  BY FaultCounted DEF AssignQuestion, Crash, Counted
<1> QED BY <1>1, <1>2, <1>3, <1>4, <1>5 DEF Next

LEMMA NextSits == ASSUME IInv, Closing, Next PROVE Promised
<1>0. Kept /\ Counted
  BY NextKept, NextCounts
<1>1. ASSUME NEW h \in Handlers, Arrive(h) PROVE Promised
  BY <1>0, <1>1, OwnerSits, EnterSits, ReadSits DEF Arrive
<1>2. ASSUME NEW h \in Handlers, Proceed(h) PROVE Promised
  BY <1>0, <1>2, OwnerSits, CheckSits, CreateSits, ReadSits, ViolationSits, SubmitSits
     DEF Proceed
<1>3. ASSUME Work PROVE Promised
  <2>1. ASSUME NEW w \in Workers, NEW t \in jobs, HandleQuizAutoSubmit_Read(w, t)
        PROVE  Promised
    BY <1>0, <2>1, ReadSits
  <2> QED BY <1>0, <1>3, <2>1, TriggerSits, AutoWriteSits DEF Work
<1> QED BY <1>0, <1>1, <1>2, <1>3, SaveSits, TriggerSits, CrashSits DEF Next

LEMMA CourseIsNext == Counted /\ Course => Sitting!Next
BY DEF Counted, Course, Sitting!Next

LEMMA InitSits == Init => Closing /\ Sitting!Init
<1> SUFFICES ASSUME Init PROVE Closing /\ Sitting!Init
  OBVIOUS
<1>1. /\ \A h \in Handlers : local[h] = Idle
      /\ Idle.op = "idle"
  BY DEF Init, Idle
<1>2. Closing
  BY <1>1 DEF Closing
<1>3. desks = [d \in Handlers |-> Sitting!Free]
  BY <1>1, DesksAre, DeskCases DEF Starting
<1>4. seats = [a \in Attempts |-> Sitting!Empty]
  BY SeatsAre DEF Init, NoRow, Sitting!Empty
<1>5. doors = "shut" /\ faults = 0
  BY DEF Init, doors
<1> QED BY <1>2, <1>3, <1>4, <1>5 DEF Sitting!Init

LEMMA StepSits == IInv /\ Closing /\ [Next]_vars => Closing' /\ [Sitting!Next]_(Sitting!vars)
<1> SUFFICES ASSUME IInv, Closing, [Next]_vars
             PROVE  Closing' /\ [Sitting!Next]_(Sitting!vars)
  OBVIOUS
<1>1. CASE Next
  BY <1>1, NextSits, CourseIsNext DEF Promised
<1>2. CASE UNCHANGED vars
  <2>1. attempts' = attempts /\ status' = status /\ local' = local /\ faults' = faults
    BY <1>2 DEF vars
  <2>2. Closing' /\ desks' = desks /\ seats' = seats /\ doors' = doors
    BY <2>1, DesksAre, SeatsStay, DoorsStay DEF Closing
  <2> QED BY <2>1, <2>2 DEF Sitting!vars
<1> QED BY <1>1, <1>2

\* StartAttempt, quizzes.go:275-337, next to CloseQuiz, PublishQuiz and the
\* tasks: however many requests overlap and whatever fails, crashes or is
\* delivered again, every step is one of QuizSitting.  Who sits was let in while
\* the quiz was open; a second seat goes only to a student whose first was not
\* there when the handler looked, or whose lookup failed; and what was handed
\* in stays handed in.
THEOREM SittingsAreKept == Spec => SittingSpec
BY InitIInv, InitSits, StepSits, AlwaysIInv, PTL DEF Spec, SittingSpec, Sitting!Spec

\* Of a promise kept by one handler: while nothing failed nobody has two seats,
\* and nobody who has one is about to be seated.
OneAtATime == \A g, h \in Handlers : g = h

Once ==
  faults = 0 =>
    /\ \A a, b \in Attempts :
         seats[a].student = seats[b].student /\ seats[a].student # NoStudent => a = b
    /\ \A h \in Handlers : desks[h].at = "seating" => ~Sitting!Seated(desks[h].student)

LEMMA StepOnce ==
  ASSUME OneAtATime, faults \in Nat, Once, [Sitting!Next]_(Sitting!vars)
  PROVE  Once'
<1>1. CASE UNCHANGED Sitting!vars
  BY <1>1 DEF Sitting!vars, Once, Sitting!Seated
<1>2. CASE Sitting!Next
  <2> SUFFICES ASSUME faults' = 0 PROVE Once'
    BY DEF Once
  <2>1. /\ faults = 0 /\ ~(faults' > faults)
        /\ \A a, b \in Attempts :
             seats[a].student = seats[b].student /\ seats[a].student # NoStudent => a = b
        /\ \A h \in Handlers : desks[h].at = "seating" => ~Sitting!Seated(desks[h].student)
    BY <1>2 DEF Sitting!Next, Once
  <2>2. /\ desks = [h \in Handlers |-> desks[h]]
        /\ seats = [a \in Attempts |-> seats[a]]
    BY DesksAre, SeatsAre
  <2>3. CASE seats' = seats /\ \A h \in Handlers :
               desks'[h].at = "seating" => \/ desks'[h] = desks[h]
                                           \/ ~Sitting!Seated(desks'[h].student)
    BY <2>1, <2>3 DEF Once, Sitting!Seated
  <2>4. CASE Sitting!Open \/ Sitting!Close \/ UNCHANGED <<doors, desks, seats>>
    BY <2>3, <2>4 DEF Sitting!Open, Sitting!Close
  <2>5. ASSUME NEW d \in Handlers, NEW s \in Students, Sitting!Enter(d, s) PROVE Once'
    <3>1. /\ seats' = seats /\ desks'[d].at = "door"
          /\ \A h \in Handlers : h # d => desks'[h] = desks[h]
      BY <2>2, <2>5 DEF Sitting!Enter, Sitting!Serve
    <3> QED BY <2>3, <3>1
  <2>6. ASSUME NEW d \in Handlers, Sitting!Clear(d) PROVE Once'
    <3>1. /\ seats' = seats /\ desks'[d].student = desks[d].student
          /\ ~Sitting!Seated(desks[d].student)
          /\ \A h \in Handlers : h # d => desks'[h] = desks[h]
      BY <2>1, <2>2, <2>6 DEF Sitting!Clear, Sitting!Serve
    <3> QED BY <2>3, <3>1
  <2>7. ASSUME NEW d \in Handlers, Sitting!Leave(d) PROVE Once'
    <3>1. /\ seats' = seats /\ desks'[d].at = "free"
          /\ \A h \in Handlers : h # d => desks'[h] = desks[h]
      BY <2>2, <2>7 DEF Sitting!Leave, Sitting!Free
    <3> QED BY <2>3, <3>1
  <2>8. ASSUME NEW d \in Handlers, NEW a \in Attempts, Sitting!Sit(d, a) PROVE Once'
    <3>1. /\ desks[d].at = "seating" /\ desks'[d].at = "free" /\ \A h \in Handlers : h = d
      BY <2>2, <2>8 DEF Sitting!Sit, Sitting!Free, OneAtATime
    <3>2. /\ seats'[a].student = desks[d].student
          /\ \A c \in Attempts : c # a => seats'[c] = seats[c]
      BY <2>2, <2>8 DEF Sitting!Sit, Sitting!Empty
    <3>3. \A c \in Attempts : seats[c].student # desks[d].student
      BY <2>1, <3>1 DEF Sitting!Seated
    <3>4. \A h \in Handlers : desks'[h].at # "seating"
      BY <3>1
    <3>5. ASSUME NEW b \in Attempts, NEW c \in Attempts,
                 seats'[b].student = seats'[c].student, seats'[b].student # NoStudent
          PROVE  b = c
      BY <2>1, <3>2, <3>3, <3>5
    <3> QED BY <3>4, <3>5 DEF Once
  <2>9. ASSUME NEW a \in Attempts, Sitting!HandIn(a) PROVE Once'
    <3>1. desks' = desks /\ \A c \in Attempts : seats'[c].student = seats[c].student
      BY <2>2, <2>9 DEF Sitting!HandIn
    <3> QED BY <2>1, <3>1 DEF Once, Sitting!Seated
  <2>10. CASE Sitting!Evacuate
    <3>1. seats' = seats /\ \A h \in Handlers : desks'[h].at = "free"
      BY <2>10 DEF Sitting!Evacuate, Sitting!Free
    <3> QED BY <2>3, <3>1
  <2> QED BY <1>2, <2>4, <2>5, <2>6, <2>7, <2>8, <2>9, <2>10 DEF Sitting!Next
<1> QED BY <1>1, <1>2

\* StartAttempt, quizzes.go:290-297: with one request served at a time, beside
\* any number of workers, and as long as no statement fails, no student has two
\* attempts, crashes and redeliveries or not.  Both conditions are needed: two
\* starts that overlap and a failed lookup each give a student a second row.
THEOREM OneAttempt == ASSUME OneAtATime PROVE Spec => []OneAttemptEach
<1>1. Init => Once
  BY DesksAre, SeatsAre, DeskCases DEF Init, Once, Idle, NoRow, Starting, Sitting!Free
<1>2. IInv => faults \in Nat
  BY DEF IInv, TypeOK
<1>3. IInv /\ Once /\ [Sitting!Next]_(Sitting!vars) => Once'
  BY <1>2, StepOnce
<1>4. Once => OneAttemptEach
  BY SeatsAre DEF Once, OneAttemptEach, Rows
<1> QED BY <1>1, <1>3, <1>4, SittingsAreKept, AlwaysIInv, PTL DEF Spec, SittingSpec, Sitting!Spec

=============================================================================
