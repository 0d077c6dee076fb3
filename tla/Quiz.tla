-------------------------------- MODULE Quiz --------------------------------
(***************************************************************************)
(* One quiz, from its creation to its closing, and every attempt at it:    *)
(* internal/handlers/quizzes.go and the three quiz tasks of                *)
(* internal/jobs/handlers.go.                                              *)
(*                                                                         *)
(* The HTTP server runs every request in a goroutine of its own and none   *)
(* of these handlers opens a transaction, so each GORM statement is one    *)
(* atomic step and a handler that reads a row and writes it later works    *)
(* on a snapshot.  Such a handler is split into one action per statement;  *)
(* between two of them its snapshot is kept in "local".                    *)
(*                                                                         *)
(* Abstractions.  Other quizzes do not interact with this one.  Answers    *)
(* are reduced to one question answered not at all, rightly or wrongly;    *)
(* violations to how many of them count as tab switches and how many do    *)
(* not.  The wall clock is left out: a scheduled task may be taken at any  *)
(* moment after it was enqueued, which is sound because CreateQuiz checks  *)
(* neither that end_time is set nor that it follows start_time.            *)
(***************************************************************************)
EXTENDS Asynq, Integers

CONSTANTS
  Students,       \* users who have a row in students under their user id
  Attempts,       \* ids of rows of quiz_attempts
  Handlers,       \* goroutines serving HTTP requests
  Workers,        \* goroutines serving tasks
  NoStudent,      \* student_id of a row that does not exist
  NoAttempt,      \* the attempt of a handler that has none
  Answers,        \* of "none", "right" and "wrong", those a student may give
  QuestionCount,  \* quiz.QuestionCount
  TabSwitchLimit, \* quiz.TabSwitchLimit
  FlagThreshold,  \* LogViolation flags above this many violations: 3
  MaxPool,        \* bound: approved question assignments
  MaxViolations,  \* bound: violations recorded for an attempt
  MaxFaults,      \* bound: failed statements and failed enqueues
  MaxCrashes,     \* bound: crashes of the server process
  MaxLostAcks     \* bound: tasks done but delivered again

ASSUME QuizAssumption ==
  /\ NoStudent \notin Students
  /\ NoAttempt \notin Attempts
  /\ "none" \in Answers
  /\ Handlers \cap Workers = {}
  /\ QuestionCount \in Nat \ {0}
  /\ TabSwitchLimit \in Nat \ {0}
  /\ FlagThreshold \in Nat
  /\ {MaxPool, MaxViolations, MaxFaults, MaxCrashes, MaxLostAcks} \subseteq Nat

VARIABLES
  status,    \* quizzes.status; ABSENT before the quiz is created
  pool,      \* its rows of quiz_question_assignments with is_approved
  attempts,  \* quiz_attempts
  jobs,      \* the tasks waiting in Redis
  local,     \* what each goroutine is doing, with its snapshot
  acked,     \* attempts whose student was told "Quiz submitted successfully"
  lost,      \* history: attempts whose auto-submit a failure or a crash lost
  faults, crashes, lostAcks

vars == <<status, pool, attempts, jobs, local, acked, lost,
          faults, crashes, lostAcks>>

\* What TLC counts but the program does not keep.
budget == <<faults, crashes, lostAcks>>

Kinds   == {"tab", "other"}  \* TAB_SWITCH and BLUR against the rest
Status  == {"ABSENT", "DRAFT", "ACTIVE", "CLOSED"}
NoViolations == [k \in Kinds |-> 0]

Attempt == [student : Students \cup {NoStudent}, answers : Answers,
            score : Nat, violations : [Kinds -> Nat],
            submitted : BOOLEAN, auto : BOOLEAN, flagged : BOOLEAN]

NoRow == [student |-> NoStudent, answers |-> "none", score |-> 0,
          violations |-> NoViolations,
          submitted |-> FALSE, auto |-> FALSE, flagged |-> FALSE]

Rows == {a \in Attempts : attempts[a].student # NoStudent}

Idle == [op |-> "idle", student |-> NoStudent, att |-> NoAttempt,
         answers |-> "none", violations |-> NoViolations,
         submitted |-> FALSE, left |-> 0]

HandlerOps == {"idle", "createStart", "createEnd", "startCheck",
               "startCreate", "startEnqueue", "violationWrite",
               "submitWrite", "publishWrite", "closeWrite"}
WorkerOps  == {"idle", "autoWrite"}

TabSwitches(v) == v["tab"]
Total(v) == v["tab"] + v["other"]

TaskStart == Task("start", NoAttempt, 2)
TaskEnd   == Task("end", NoAttempt, 2)
TaskAutoSubmit(a) == Task("autoSubmit", a, 1)

-----------------------------------------------------------------------------
(* Steps shared by the actions. *)

\* Goroutine p goes on to op with the given snapshot, or back to idle.
Goto(p, rec) == local' = [local EXCEPT ![p] = rec]
Return(p) == Goto(p, Idle)

\* A statement or an enqueue fails.
Fault == faults < MaxFaults /\ faults' = faults + 1 /\ UNCHANGED <<crashes, lostAcks>>

\* Every enqueue of the code drops its error: "_ = h.jobClient.Enqueue...".
Enqueue(t) ==
  \/ jobs' = jobs \cup {t} /\ UNCHANGED budget
  \/ Fault /\ UNCHANGED jobs

-----------------------------------------------------------------------------
(* The owner's requests. *)

\* CreateQuiz inserts the row as a draft, then schedules both transitions.
CreateQuiz(h) ==
  /\ local[h] = Idle
  /\ status = "ABSENT"
  /\ status' = "DRAFT"
  /\ Goto(h, [Idle EXCEPT !.op = "createStart"])
  /\ UNCHANGED <<pool, attempts, jobs, acked, lost, budget>>

EnqueueQuizStart(h) ==
  /\ local[h].op = "createStart"
  /\ Enqueue(TaskStart)
  /\ Goto(h, [Idle EXCEPT !.op = "createEnd"])
  /\ UNCHANGED <<status, pool, attempts, acked, lost>>

EnqueueQuizEnd(h) ==
  /\ local[h].op = "createEnd"
  /\ Enqueue(TaskEnd)
  /\ Return(h)
  /\ UNCHANGED <<status, pool, attempts, acked, lost>>

\* Nothing under src/ writes quiz_question_assignments; both readers count
\* the approved rows of the quiz.
AssignQuestion ==
  /\ status # "ABSENT"
  /\ pool < MaxPool
  /\ pool' = pool + 1
  /\ UNCHANGED <<status, attempts, jobs, local, acked, lost, budget>>

PublishQuiz_Read(h) ==
  /\ local[h] = Idle
  /\ status = "DRAFT"
  /\ Goto(h, [Idle EXCEPT !.op = "publishWrite"])
  /\ UNCHANGED <<status, pool, attempts, jobs, acked, lost, budget>>

\* The count and the update are two statements, but no row of the pool is
\* ever removed: counting with the update loses no behaviour.
PublishQuiz_Write(h) ==
  /\ local[h].op = "publishWrite"
  /\ status' = IF pool > 0 THEN "ACTIVE" ELSE status
  /\ Return(h)
  /\ UNCHANGED <<pool, attempts, jobs, acked, lost, budget>>

CloseQuiz_Read(h) ==
  /\ local[h] = Idle
  /\ status = "ACTIVE"
  /\ Goto(h, [Idle EXCEPT !.op = "closeWrite"])
  /\ UNCHANGED <<status, pool, attempts, jobs, acked, lost, budget>>

CloseQuiz_Write(h) ==
  /\ local[h].op = "closeWrite"
  /\ status' = "CLOSED"
  /\ Return(h)
  /\ UNCHANGED <<pool, attempts, jobs, acked, lost, budget>>

-----------------------------------------------------------------------------
(* The students' requests. *)

\* Three statements and an enqueue: the quiz must be active; an attempt of
\* the student is resumed; enough approved questions; insert; auto-submit.
StartAttempt_Read(h, s) ==
  /\ local[h] = Idle
  /\ status = "ACTIVE"
  /\ Goto(h, [Idle EXCEPT !.op = "startCheck", !.student = s])
  /\ UNCHANGED <<status, pool, attempts, jobs, acked, lost, budget>>

HasAttempt(s) == \E a \in Attempts : attempts[a].student = s

\* Mutant: the lookup of an existing attempt is forgotten.
StartAttempt_CheckNothing(h) ==
  /\ local[h].op = "startCheck"
  /\ Goto(h, [local[h] EXCEPT !.op = "startCreate"])
  /\ UNCHANGED <<status, pool, attempts, jobs, acked, lost, budget>>

\* Only a row that was found is resumed: any error of the lookup counts as
\* "no attempt yet".
StartAttempt_Check(h) ==
  LET goOn == Goto(h, [local[h] EXCEPT !.op = "startCreate"])
  IN /\ local[h].op = "startCheck"
     /\ \/ HasAttempt(local[h].student) /\ Return(h) /\ UNCHANGED budget
        \/ ~HasAttempt(local[h].student) /\ goOn /\ UNCHANGED budget
        \/ goOn /\ Fault
     /\ UNCHANGED <<status, pool, attempts, jobs, acked, lost>>

\* Nothing in the table keeps a student from having two rows.
NewAttempt(s) == [NoRow EXCEPT !.student = s]

\* Mutant: the handler returns without scheduling the auto-submit.
StartAttempt_CreateOnly(h) ==
  /\ local[h].op = "startCreate"
  /\ pool >= QuestionCount
  /\ \E a \in Attempts \ Rows :
       attempts' = [attempts EXCEPT ![a] = NewAttempt(local[h].student)]
  /\ Return(h)
  /\ UNCHANGED <<status, pool, jobs, acked, lost, budget>>

StartAttempt_Create(h) ==
  /\ local[h].op = "startCreate"
  /\ \/ pool < QuestionCount /\ Return(h) /\ UNCHANGED <<attempts, budget>>
     \/ Return(h) /\ UNCHANGED attempts /\ Fault
     \/ /\ pool >= QuestionCount
        /\ \E a \in Attempts \ Rows :
             /\ attempts' = [attempts EXCEPT ![a] = NewAttempt(local[h].student)]
             /\ Goto(h, [Idle EXCEPT !.op = "startEnqueue", !.att = a])
        /\ UNCHANGED budget
  /\ UNCHANGED <<status, pool, jobs, acked, lost>>

StartAttempt_Enqueue(h) ==
  /\ local[h].op = "startEnqueue"
  /\ Enqueue(TaskAutoSubmit(local[h].att))
  /\ lost' = lost \cup {local[h].att : t \in {TaskAutoSubmit(local[h].att)} \ jobs'}
  /\ Return(h)
  /\ UNCHANGED <<status, pool, attempts, acked>>

\* Mutant: the update has no condition on submitted_at.
SaveProgressAlways(a, ans) ==
  /\ attempts' = [attempts EXCEPT ![a].answers = ans]
  /\ UNCHANGED <<status, pool, jobs, local, acked, lost, budget>>

\* UPDATE ... WHERE submitted_at IS NULL: checked and written in one statement.
SaveProgress(a, ans) ==
  /\ ~attempts[a].submitted
  /\ attempts' = [attempts EXCEPT ![a].answers = ans]
  /\ UNCHANGED <<status, pool, jobs, local, acked, lost, budget>>

LogViolation_Read(h, a, k) ==
  /\ local[h] = Idle
  /\ Total(attempts[a].violations) < MaxViolations
  /\ Goto(h, [Idle EXCEPT !.op = "violationWrite", !.att = a,
                !.violations = [attempts[a].violations EXCEPT ![k] = @ + 1],
                !.submitted = attempts[a].submitted])
  /\ UNCHANGED <<status, pool, attempts, jobs, acked, lost, budget>>

\* Mutant: the limit is compared with ">".
RecordedAboveLimit(row, v, wasSubmitted, limit) ==
  LET autoSubmit == TabSwitches(v) > limit /\ ~wasSubmitted
  IN [row EXCEPT !.violations = v,
                 !.flagged = Total(v) > FlagThreshold,
                 !.submitted = @ \/ autoSubmit,
                 !.auto = @ \/ autoSubmit]

\* Mutant: the whole row is saved, with the submitted_at of the snapshot.
RecordedSave(row, v, wasSubmitted, limit) ==
  LET autoSubmit == TabSwitches(v) >= limit /\ ~wasSubmitted
  IN [row EXCEPT !.violations = v,
                 !.flagged = Total(v) > FlagThreshold,
                 !.submitted = wasSubmitted \/ autoSubmit,
                 !.auto = @ \/ autoSubmit]

\* The update LogViolation makes: submitted_at only if the snapshot had none.
Recorded(row, v, wasSubmitted, limit) ==
  LET autoSubmit == TabSwitches(v) >= limit /\ ~wasSubmitted
  IN [row EXCEPT !.violations = v,
                 !.flagged = Total(v) > FlagThreshold,
                 !.submitted = @ \/ autoSubmit,
                 !.auto = @ \/ autoSubmit]

\* The quiz is looked up again for its limit.  Neither that lookup (a zero
\* Quiz has limit 0) nor the update has its error checked.
LogViolation_Write(h) ==
  LET a == local[h].att
      update(limit) == attempts' = [attempts EXCEPT ![a] =
        Recorded(@, local[h].violations, local[h].submitted, limit)]
  IN /\ local[h].op = "violationWrite"
     /\ \/ update(TabSwitchLimit) /\ UNCHANGED budget
        \/ update(0) /\ Fault
        \/ UNCHANGED attempts /\ Fault
     /\ Return(h)
     /\ UNCHANGED <<status, pool, jobs, acked, lost>>

SubmitAttempt_Read(h, a, ans) ==
  /\ local[h] = Idle
  /\ ~attempts[a].submitted
  /\ Goto(h, [Idle EXCEPT !.op = "submitWrite", !.att = a, !.answers = ans])
  /\ UNCHANGED <<status, pool, attempts, jobs, acked, lost, budget>>

\* StartAttempt stores the questions without their correct answers, so the
\* key scoreAttempt looks up is the empty string.
StoredKey == "none"

\* Mutant: a wrong answer costs a point.
scoreNegative(ans) ==
  IF ans = "none" THEN 0 ELSE IF ans = StoredKey THEN 1 ELSE -1

scoreAttempt(ans) == IF ans # "none" /\ ans = StoredKey THEN 1 ELSE 0

\* Mutant: submitted_at is missing from the update.
SubmitAttempt_WriteAnswers(h) ==
  LET a == local[h].att
  IN /\ local[h].op = "submitWrite"
     /\ attempts' = [attempts EXCEPT ![a].answers = local[h].answers,
                                     ![a].score = scoreAttempt(local[h].answers)]
     /\ acked' = acked \cup {a}
     /\ Return(h)
     /\ UNCHANGED <<status, pool, jobs, lost, budget>>

\* The error of the update is not checked: the student is told 200 anyway.
SubmitAttempt_Write(h) ==
  LET a == local[h].att
  IN /\ local[h].op = "submitWrite"
     /\ \/ /\ attempts' = [attempts EXCEPT ![a].answers = local[h].answers,
                                           ![a].score = scoreAttempt(local[h].answers),
                                           ![a].submitted = TRUE]
           /\ UNCHANGED budget
        \/ UNCHANGED attempts /\ Fault
     /\ acked' = acked \cup {a}
     /\ Return(h)
     /\ UNCHANGED <<status, pool, jobs, lost>>

-----------------------------------------------------------------------------
(* The workers. *)

\* What becomes of task t when its statement ran (the acknowledgement may be
\* lost, then it is delivered again) or failed.
Done(t) ==
  \/ jobs' = jobs \ {t} /\ UNCHANGED budget
  \/ /\ lostAcks < MaxLostAcks
     /\ lostAcks' = lostAcks + 1
     /\ jobs' = Retry(jobs, t)
     /\ UNCHANGED <<faults, crashes>>

\* Mutant: only a POSTPONED quiz is activated, and none ever is postponed.
HandleQuizTriggerStartPostponed(t) ==
  /\ t.type = "start"
  /\ Done(t)
  /\ UNCHANGED <<status, pool, attempts, local, acked, lost>>

HandleQuizTriggerStart(t) ==
  /\ t.type = "start"
  /\ \/ /\ status' = IF status = "DRAFT" THEN "ACTIVE" ELSE status
        /\ Done(t)
     \/ Fault /\ jobs' = Retry(jobs, t) /\ UNCHANGED status
  /\ UNCHANGED <<pool, attempts, local, acked, lost>>

HandleQuizTriggerEnd(t) ==
  /\ t.type = "end"
  /\ \/ /\ status' = IF status = "ACTIVE" THEN "CLOSED" ELSE status
        /\ Done(t)
     \/ Fault /\ jobs' = Retry(jobs, t) /\ UNCHANGED status
  /\ UNCHANGED <<pool, attempts, local, acked, lost>>

\* Any error of the lookup counts as "deleted" and ends the task.
HandleQuizAutoSubmit_Read(w, t) ==
  /\ local[w] = Idle
  /\ t.type = "autoSubmit"
  /\ \/ /\ attempts[t.row].submitted
        /\ Done(t)
        /\ UNCHANGED <<local, lost>>
     \/ /\ ~attempts[t.row].submitted
        /\ jobs' = jobs \ {t}
        /\ Goto(w, [Idle EXCEPT !.op = "autoWrite", !.att = t.row, !.left = t.left])
        /\ UNCHANGED <<lost, budget>>
     \/ /\ Fault
        /\ jobs' = jobs \ {t}
        /\ lost' = lost \cup {t.row}
        /\ UNCHANGED local
  /\ UNCHANGED <<status, pool, attempts, acked>>

\* Mutant: the attempt is flagged but submitted_at is not set.
HandleQuizAutoSubmit_WriteFlag(w) ==
  /\ local[w].op = "autoWrite"
  /\ attempts' = [attempts EXCEPT ![local[w].att].auto = TRUE,
                                  ![local[w].att].flagged = TRUE]
  /\ Return(w)
  /\ UNCHANGED <<status, pool, jobs, acked, lost, budget>>

\* The update is not guarded and its error is not checked.
HandleQuizAutoSubmit_Write(w) ==
  LET a == local[w].att
  IN /\ local[w].op = "autoWrite"
     /\ \/ /\ attempts' = [attempts EXCEPT ![a].submitted = TRUE,
                                           ![a].auto = TRUE,
                                           ![a].flagged = TRUE]
           /\ UNCHANGED <<lost, budget>>
        \/ UNCHANGED attempts /\ Fault /\ lost' = lost \cup {a}
     /\ Return(w)
     /\ UNCHANGED <<status, pool, jobs, acked>>

\* The server process dies: requests are gone, an enqueue still to come among
\* them, and the lease of every task a worker held expires, which counts as a
\* failed delivery.
Held == {Task("autoSubmit", local[w].att, local[w].left) :
           w \in {w \in Workers : local[w].op = "autoWrite"}}

Crash ==
  /\ crashes < MaxCrashes
  /\ crashes' = crashes + 1
  /\ local' = [p \in Handlers \cup Workers |-> Idle]
  /\ jobs' = jobs \cup {[t EXCEPT !.left = @ - 1] : t \in {t \in Held : t.left > 0}}
  /\ lost' = lost \cup {t.row : t \in {t \in Held : t.left = 0}}
                 \cup {local[h].att : h \in {h \in Handlers : local[h].op = "startEnqueue"}}
  /\ UNCHANGED <<status, pool, attempts, acked, faults, lostAcks>>

-----------------------------------------------------------------------------
Init ==
  /\ status = "ABSENT"
  /\ pool = 0
  /\ attempts = [a \in Attempts |-> NoRow]
  /\ jobs = {}
  /\ local = [p \in Handlers \cup Workers |-> Idle]
  /\ acked = {} /\ lost = {}
  /\ faults = 0 /\ crashes = 0 /\ lostAcks = 0

\* A handler that has begun goes on with its next statement.
Proceed(h) ==
  \/ EnqueueQuizStart(h) \/ EnqueueQuizEnd(h)
  \/ PublishQuiz_Write(h) \/ CloseQuiz_Write(h)
  \/ StartAttempt_Check(h) \/ StartAttempt_Create(h) \/ StartAttempt_Enqueue(h)
  \/ LogViolation_Write(h) \/ SubmitAttempt_Write(h)

\* A request arrives.
Arrive(h) ==
  \/ CreateQuiz(h) \/ PublishQuiz_Read(h) \/ CloseQuiz_Read(h)
  \/ \E s \in Students : StartAttempt_Read(h, s)
  \/ \E a \in Rows : \/ \E k \in Kinds : LogViolation_Read(h, a, k)
                     \/ \E ans \in Answers : SubmitAttempt_Read(h, a, ans)

Work ==
  \/ \E t \in jobs : \/ HandleQuizTriggerStart(t)
                     \/ HandleQuizTriggerEnd(t)
                     \/ \E w \in Workers : HandleQuizAutoSubmit_Read(w, t)
  \/ \E w \in Workers : HandleQuizAutoSubmit_Write(w)

Next ==
  \/ \E h \in Handlers : Arrive(h) \/ Proceed(h)
  \/ \E a \in Rows, ans \in Answers : SaveProgress(a, ans)
  \/ AssignQuestion
  \/ Work
  \/ Crash

Spec == Init /\ [][Next]_vars

\* The Go scheduler keeps running what a goroutine has begun, and asynq keeps
\* handing due tasks to idle workers.  Nobody is obliged to send a request.
Fairness ==
  /\ \A h \in Handlers : WF_vars(Proceed(h))
  /\ \A t \in {TaskStart, TaskEnd} : \A n \in 0..2 :
       LET u == [t EXCEPT !.left = n]
       IN WF_vars(u \in jobs /\ (HandleQuizTriggerStart(u) \/ HandleQuizTriggerEnd(u)))
  /\ \A w \in Workers : WF_vars(HandleQuizAutoSubmit_Write(w))
  /\ \A a \in Attempts, n \in 0..1 :
       LET u == [TaskAutoSubmit(a) EXCEPT !.left = n]
       IN SF_vars(u \in jobs /\ \E w \in Workers : HandleQuizAutoSubmit_Read(w, u))

FairSpec == Spec /\ Fairness

-----------------------------------------------------------------------------
(* Properties. *)

Local == [op : HandlerOps \cup WorkerOps, student : Students \cup {NoStudent},
          att : Attempts \cup {NoAttempt}, answers : Answers,
          violations : [Kinds -> Nat], submitted : BOOLEAN, left : 0..2]

Tasks == [type : {"start", "end"}, row : {NoAttempt}, left : 0..2]
         \cup [type : {"autoSubmit"}, row : Attempts, left : 0..2]

\* Every variable has its type; a handler runs only the steps of requests, a
\* worker only those of tasks, and a task is retried only as often as allowed.
TypeOK ==
  /\ status \in Status
  /\ pool \in Nat
  /\ attempts \in [Attempts -> Attempt]
  /\ jobs \subseteq Tasks
  /\ local \in [Handlers \cup Workers -> Local]
  /\ \A h \in Handlers : local[h].op \in HandlerOps
  /\ \A w \in Workers : local[w].op \in WorkerOps
  /\ acked \subseteq Attempts /\ lost \subseteq Attempts
  /\ {faults, crashes, lostAcks} \subseteq Nat

\* LogViolation, quizzes.go:411-435: however many violation reports, saves,
\* submissions and auto-submits of an attempt overlap, and whichever of them
\* fail, a row never records the tab-switch limit and is still open.
LimitEnforced ==
  \A a \in Attempts :
    TabSwitches(attempts[a].violations) >= TabSwitchLimit => attempts[a].submitted

\* StartAttempt, quizzes.go:339-343, and HandleQuizAutoSubmit: an open attempt
\* has its auto-submit still to come, queued, held by a worker or about to be
\* queued by the handler that inserted the row, unless a failed enqueue, lookup
\* or update or a crash at the wrong moment lost it; no overlap of requests,
\* redelivery or crash of a worker does, and without failures nothing is lost.
BackupArmed ==
  /\ lost # {} => faults + crashes > 0
  /\ \A a \in Rows \ lost :
       \/ attempts[a].submitted
       \/ \E t \in jobs : t.type = "autoSubmit" /\ t.row = a
       \/ \E w \in Workers : local[w].op = "autoWrite" /\ local[w].att = a
       \/ \E h \in Handlers : local[h].op = "startEnqueue" /\ local[h].att = a

\* SubmitAttempt, quizzes.go:475-485: unless a statement failed, an attempt
\* whose student was told it was submitted is submitted, even after a crash.
AckedSubmitted ==
  faults = 0 => \A a \in acked : attempts[a].submitted

\* submitted_at is never cleared: no overlapping writer of the row, LogViolation
\* and HandleQuizAutoSubmit above all, puts back a snapshot that had none.
SubmittedForever ==
  [][\A a \in Attempts : attempts[a].submitted => attempts'[a].submitted]_vars

\* SaveProgress, quizzes.go:375-378, and SubmitAttempt: the answers of a
\* submitted attempt change only through a submission that was let in while
\* the attempt was open; a late periodic save never touches them.
FrozenAnswers ==
  [][\A a \in Attempts :
       attempts[a].submitted /\ attempts'[a].answers # attempts[a].answers =>
         \E h \in Handlers : local[h].op = "submitWrite" /\ local[h].att = a]_vars

\* EnqueueQuizAutoSubmit, jobs/client.go:86: whoever starts is submitted in
\* the end, however the requests of others overlap and fail, unless a failure
\* lost their own auto-submit.
EveryAttemptSubmitted ==
  \A a \in Attempts : [](a \in Rows => <>(attempts[a].submitted \/ a \in lost))

\* HandleQuizTriggerStart, jobs/handlers.go:331: a quiz does not stay a draft
\* once its start task is queued, whatever the owner does meanwhile.
QuizOpens == TaskStart \in jobs ~> status \in {"ACTIVE", "CLOSED"}

\* The refinement mapping.  A handler is a desk: it serves a student at the
\* door until it has looked for a row of theirs, and then seats them.
desks == [h \in Handlers |->
  CASE local[h].op = "startCheck"  -> [at |-> "door", student |-> local[h].student]
    [] local[h].op = "startCreate" -> [at |-> "seating", student |-> local[h].student]
    [] OTHER -> [at |-> "free", student |-> NoStudent]]

seats == [a \in Attempts |->
  [student |-> attempts[a].student, handedIn |-> attempts[a].submitted]]

doors == CASE status = "ACTIVE" -> "open"
           [] status = "CLOSED" -> "closed"
           [] OTHER -> "shut"

Sitting == INSTANCE QuizSitting WITH
  Desks <- Handlers, Seats <- Attempts, Nobody <- NoStudent, mishaps <- faults

\* StartAttempt, quizzes.go:275-337, next to CloseQuiz, PublishQuiz and the
\* tasks: however requests overlap, whatever fails and wherever the process
\* dies, the handlers keep the promise of QuizSitting to every student.
SittingSpec == Sitting!Spec

\* StartAttempt, quizzes.go:290-297: served one request at a time and with no
\* failed statement, a student has one attempt.  Two starts that overlap, or a
\* failed lookup, give a student a second.
OneAttemptEach ==
  faults = 0 => \A a, b \in Rows : attempts[a].student = attempts[b].student => a = b

===============================================================================
