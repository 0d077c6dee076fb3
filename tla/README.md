# A TLA+ model of the school management system

This directory specifies the parts of the system in `src/` whose correctness
depends on the order of things: requests that overlap, tasks that run late or
twice, statements that fail, a server that dies between two of them.  The
modules are written from the Go code.  `PROJECT.json` names, for every
definition, the lines it stands for; a comment above every property says what it
means and which code it is about.

To run it:

    tlc -workers 2 -config QuizConcurrent.cfg MCQuiz      # one model-checking run
    tlapm QuizProofs.tla                                  # the proofs of one module

The runs, with the module and configuration of each, are listed under "Runs".

## The system

One Go process (`cmd/server/main.go`) serves a JSON API with `net/http`, one
goroutine per request, and runs an asynq server whose ten workers take tasks
from Redis.  All other state is in PostgreSQL, reached through GORM.  With one
exception, which nothing calls (`GenerateAdmissionID`), no handler opens a
transaction: each GORM call is one statement, and a handler that reads a row,
decides and writes it back works on a snapshot that another request may have
overtaken.  Hardly any table has a unique index (`users.email`,
the reference numbers of applications, admissions, receipts and documents), so
nothing in the database repairs what such a handler gets wrong; and many
statements have no check of their error.  This is where nearly all the hazards of
the program lie, and it is what the models are built to show: **each statement
is an atomic step, what a handler has read and will still use is state.**

### Inventory

| Component | State | Operations | What is hard | What makes it correct |
|---|---|---|---|---|
| Quizzes and attempts (`handlers/quizzes.go`, tasks in `jobs/handlers.go`) | `quizzes.status`, `quiz_attempts` | create, publish, close, start, save, report a violation, submit; start, end and auto-submit tasks | five writers of one row without a transaction; the timer races the student; a task is lost, late or repeated | an attempt is handed in exactly once and in the end, answers are then frozen, the tab-switch limit is enforced |
| Quiz question bank (`quizzes.go`) | `quiz_questions` | submit, approve, flag | single-statement updates | only approved questions are asked |
| Background jobs (`jobs/`) | Redis queues | enqueue, deliver, retry, archive | at-least-once delivery, enqueue errors dropped | handlers tolerate a second delivery |
| Rate limiter (`middleware/ratelimit.go`) | bucket per client | hit, sweep | boundary of the window, sweeper between hits | nobody gets more than promised, nobody is refused without cause |
| Sessions and terms (`handlers/academic.go`) | `academic_sessions`, `terms` | create, activate, close | two-statement switch | one active session |
| Startup and seed (`database/`, `main.go`, `migrations/`) | default rows | migrate, seed, demo seed | crash in between; rows changed since by requests | a restart always gets the server up and changes nothing |
| Score sheets (`handlers/scores.go`) | `score_structures`, `score_entries` | save and submit, approve, reject, unlock | full-row save of a snapshot; per-row statements | an approved mark stays, one row per student |
| Results and report cards (`services/results.go`, `handlers/results.go`) | `results`, `result_subjects`, documents | calculate, remark, publish, override, make cards | a calculation is 2n+1 statements; publication in between | results show approved marks, ranked, published for good |
| Admissions (`services/admissions.go`, `handlers/admissions.go`) | windows, applications, letters | apply, schedule, reschedule, decide, print | capacity and duplicate checks before the insert | no slot overfull, one application per child, letter and appointment agree |
| Timetables (`handlers/timetable.go`) | `timetables` | save, upload | archive, number, insert: three statements | one current timetable, the newest |
| Finance (`handlers/finance.go`, receipt task) | `fee_structures`, `fee_payments`, `fee_discounts` | set a fee, record, discount, print a receipt, report | a balance computed from a sum read earlier, stored and never computed again | a receipt never shows too little, no debtor is missed |
| Attendance (`handlers/attendance.go`) | `attendances` | call a roll, correct it, count | look up then insert per student | each day called is counted, once, with the status last given |
| Students (`handlers/students.go`) | `students`, `student_class_histories` | promote, graduate, retain, edit, archive | a batch of unchecked pairs of statements, repeated at will | a student is placed where promoted to; a complete sheet names the class |
| Users and sign-in (`handlers/users.go`, `auth/`) | `users`, codes, mails | register, verify, resend, sign in; create, edit, archive, suspend, unlock, reset | edits and codes overlap; mails get lost | each request changes what it is for and nothing else; a parent gets in |
| Settings (`handlers/settings.go`) | `grade_scales`, the school's row | replace scales, edit | delete and re-create one by one | a grade comes from a scale that was sent |
| Notifications, feed, announcements, documents, audit log | rows each | create, list, mark | a counter written from a read value (`verify.go:41`) | - |
| Dashboards, pages, mail, PDF, QR, configuration, validators, front end | none of their own | - | - | - |

They interact through the database and the queue only: `Startup` and the academic
handlers share the session rows; `ScoreBook` produces the approved marks
`Results` reads, and the settings the scales it grades with; promotions decide who a
score sheet lists, whose fees a division's report names and whose day a roll counts; quizzes, results,
admissions, payments and registrations enqueue tasks the workers of the
same process run; the limiter sits before every handler.

## Modules

    Asynq <- Quiz <- QuizProofs, MCQuiz  QuizSitting   (implemented by Quiz)
    RateLimiter <- ServerProofs, MCRateLimiter
                                         FixedWindow   (implemented by RateLimiter)
    Startup <- ServerProofs, MCStartup
    ScoreBook <- ScoreBookProofs, MCScoreBook
                                         ScoreWorkflow (implemented by ScoreBook)
    Results <- ResultsProofs, MCResults
    Admissions <- AdmissionsProofs, MCAdmissions
    Timetable <- TimetableProofs, MCTimetable
    Requests <- Students <- Fees,  Requests <- Attendance,  Asynq <- Fees
    Fees, Attendance <- SchoolRecords <- SchoolRecordsProofs, MCSchoolRecords
    Asynq <- Accounts <- AccountsProofs, MCAccounts
                                         AccountLife   (implemented by Accounts)

Conventions common to all.  `local[h]` is what handler (or worker) `h` is doing:
the next statement (`op`) and what it read and will still use.  An action is
named after the Go function it belongs to, with a suffix for the statement when
the function has several (`LogViolation_Read`, `LogViolation_Write`).  A function
that is one statement is one action.  `Fault` is a failed statement or enqueue,
and it has in each place the effect the code gives it: most often none, because
the error is dropped, sometimes a zero value that is then used.  Operators whose
comment starts with "Mutant" are not part of the model; each is a wrong version
of the definition it precedes, used to check that a property can fail.

In `ScoreBook`, `Results`, `Admissions`, `Accounts` and the school records the constant `Loads` is a set of
*loads* - a class (which students, which of them may have a mark sent back, ...)
and the traffic it has (how many handlers, workers, faults) - and a behaviour
chooses one of them at the start, in the variable `load`, which never changes.  One run
thus covers several small instances, each large in one dimension: one request at
a time over more rows, overlapping requests over fewer, and failures.

### Quiz: `Quiz`, `QuizSitting`, `Asynq`

`status` is `quizzes.status`, `attempts` the table of attempts (answers, score,
violations, `submitted_at` as a Boolean, the two flags), `jobs` the tasks in
Redis, `pool` the number of approved question assignments of the quiz.
`CreateQuiz` inserts and then enqueues two tasks, each enqueue a step that may
fail unnoticed.  `StartAttempt` is four steps: status check, look-up of an
existing attempt, insert, enqueue of the auto-submit.  It resumes an attempt only when
the look-up succeeded, so one that fails counts as none (`quizzes.go:292`).  `SaveProgress` is one
guarded UPDATE.  `LogViolation` and `SubmitAttempt` read the row, and write it
later; `HandleQuizAutoSubmit` likewise.  `Crash` drops every request and gives
back the tasks workers held, with one retry fewer.

Abstractions: one quiz (others share no row with it); one question, answered not
at all, rightly or wrongly; of violations only how many are tab switches and how
many are not.  The clock is left out: a task may be taken at any moment after it
was enqueued, which covers every choice of `start_time` and `end_time`
(`CreateQuiz` compares them to nothing).  `FlagThreshold` is the literal 3 of
`quizzes.go:430`; the tab-switch limit is assumed positive.  Nothing in `src/`
writes `quiz_question_assignments`, so `AssignQuestion` is external.  `Students`
are users whose id is that of a row of `students`, since `student_id` refers to
it.  `acked` and `lost` are history: the attempts whose submission was answered with
200, and those whose auto-submit a failure or a crash lost.

`QuizSitting` is what a quiz promises whatever the server does inside, told of desks,
seats and doors.  A desk is a handler that serves a student: *at the door* until it has
looked for an attempt of theirs, then *seating* them, until the attempt is inserted.  A
seat is a row, the doors are the status, a mishap is a failed statement.  Who sits was let
in while the doors were open; who has a seat gets a second one only if the first was not
there yet when a desk looked, or by a mishap; nobody takes another's seat; what is handed
in stays so.  A student may still sit when the doors have closed meanwhile, which is
exactly how much of "prevents new attempts" (`quizzes.go:615`) the code keeps, and closed
doors may open again, through a publication that read DRAFT before.  `SittingSpec` is that
specification under the refinement mapping `desks`, `seats`, `doors`.  That nobody has two
seats follows when requests come one at a time and nothing fails (`OneAttemptEach`), and
only then; that everybody is handed in at last is `EveryAttemptSubmitted`.

`Asynq` is external: delivery, retry and archiving as far as the options passed
in `jobs/client.go` and `jobs/jobs.go` rely on them.

### Rate limiter: `RateLimiter`, `FixedWindow`

`buckets` is the map under the mutex; a request of a client and a pass of the
sweeper are one step each because both hold the mutex throughout; `now` is the
clock, `log[k]` the history of the hits of client `k` let through.
`FixedWindow` is the limiter without a table: it only knows the hits let
through.  `AbstractSpec` says the table and its sweeper implement it.

### Startup: `Startup`

One step per row a start looks for and creates; looking up and creating is one
step because the process serves nothing yet.  A statement of a start may fail (`troubles`,
`MaxTroubles`): then the start is over in most places; but `Seed` passes over a division or
session whose look-up failed, and the demo seed over everything, so that a start can end
with rows missing (`troubled` says that a statement of this start failed).  `Fatal` is
`log.Fatal`, `Crash` the death of the process anywhere.  Between starts, requests create, activate
and close sessions, in two statements each.  `SqlFiles` says whether
`migrations/` is found: the Docker image lacks it, a checkout has it.
`overlapped` is history: some request began while another was in progress.

### Score sheets: `ScoreBook`, `ScoreWorkflow`

A request's list of marks is worked through line by line, each line a look-up
(`SaveScores_Read`) and a full-row save (`SaveScores_Write`).  `WithinMaximums`
is the check as the code makes it.  Marks are exam scores; component scores are
left out, and so are requests without lines.  A list may name anybody: `SaveScores` compares
the number of its lines with the number of students enrolled and never who they are.
`sent` and `acked` are history: whom the submission on its way, and the last one answered
with success, named.  `First` without an order takes the
smallest id, and ids are random: rows are numbered and an insert takes any free
number.  A look-up that fails has found nothing, for marks as for the marking scheme
(`UpsertScoreStructure`), and may so lead to a second row.  `ScoreWorkflow` is the life of a mark: entered, submitted, approved or
sent back.

### Results: `Results`

`CalculateResults` is a read of all marks, a read of the grading scales and then, per
student, find, save, find line, save line.  The class takes one subject, so a total is
one mark; averages, positions within a subject and attendance counts are left out.
`scales` is the table of bands: `UpsertGradingScales` deletes the school's rows and
creates the new ones, each a step whose error nobody looks at, so a calculation may read
half a scale.  `calculateGrade` takes the first band that holds the total, in the
descending order of minima, and F when none does; rows of one minimum come in any order.
The scales of the instances have disjoint bands: with bands that overlap, half a scale
gives other grades than an F.  `released` is history: the marks that were ever approved.
The report card task reads the result, its lines, and writes `generated` to the row.

### Admissions: `Admissions`

Time is in ticks, `TicksPerDay` to a day; every day is a weekday.
`AssignAppointmentSlot` is three statements (window, count per slot, update); the
date keeps its time of day, as in the code.  A new application is followed by its
slot, its letter task and its notifications, any of which may fail alone.
`asked` counts the reschedules answered with success, for their bound.

### Timetables: `Timetable`

A save archives the current timetable of the class, looks up the highest version
of the division, and inserts; both kinds of save make the same three statements.
A class is a `class_id` or none.  Grids and dates are left out.

### School records: `Requests`, `Students`, `Fees`, `Attendance`, `SchoolRecords`

`Requests` is what the three have in common, `SchoolRecords` runs them side by side.
They share the rows of `students`: a promotion changes the division whose debt report
and debtor count name the student.

`Students`: a promotion holds the records it has still to work off; a record to promote is
two statements, the row of history and the student's division.  Nothing under `src/`
creates a student but the demo seed, which is the initial state.  `GetScoreSheet` and
the completeness check of `SaveScores` are here because they read the histories: a teacher
gets a sheet, promotions go on, the sheet is submitted with the lines shown.

`Fees`: `RecordPayment` sums (`prev`), inserts the row with the balance computed from that
sum, and enqueues the receipt, three steps.  Amounts are whole.  `paid` is the sum the
database would compute; nothing archives a payment.  `after` in a payment is history: all
that was paid with it.  `GetDebtReport` and the division's count of debtors answer with
whom a query names, or with nobody when the query fails, since its error is not looked at.
Prices, methods and notes are left out; a discount is a row that
no balance reads, as in the code.

`Attendance`: a line of a roll is a look-up and a write.  `marked` is history: the status
last answered with 200.  `attendanceRecord` is the count a report card makes.

### Accounts: `Accounts`, `AccountLife`

A row is named by its address, which has the one unique index that matters here and which
no handler changes.  Every request that reads and writes is two steps, an insert and the
enqueue of its mail two; `UpdateUser` and `ArchiveUser` are one UPDATE.  `inbox` holds the
codes a parent has received and not tried, `knows` the parents who were answered with
their `user_id`: without it no code can be sent back or asked for again.  A load says whether a
mail service is configured (`mailer`): without one the task is done and no code arrives.  `Expire` is the
passing of fifteen minutes, at any moment.  Tokens are signed and kept nowhere, so they
are left out, and so is which office may send which request (the router's middleware).

`AccountLife` is what an account is to its holder and the school: opened once, confirmed
only after a code arrived, archived for good, every decision about one column leaving the
others as they were decided.  `AccountSpec` says the handlers implement it.

## Runs

| Run | Module, configuration | Question | Size |
|---|---|---|---|
| `quiz_concurrent` | `MCQuiz`, `QuizConcurrent.cfg` | Do the row's writers, overlapping, failing and crashing, keep what is handed in? | 2.1 M states |
| `quiz_starts` | `MCQuiz`, `QuizStarts.cfg` | Two starts overlap and a statement fails: is every step one `QuizSitting` allows, is everyone handed in, does the quiz open? | 59 k |
| `limiter` | `MCRateLimiter`, `Limiter.cfg` | How much gets through, and does the table implement the fixed window? | |
| `startup` | `MCStartup`, `Startup.cfg` | Do crashes, failed statements and requests between starts leave a start that works? | 160 k |
| `startup_closed` | `MCStartup`, `StartupClosed.cfg` | Is every start safe? *No.* | |
| `scores` | `MCScoreBook`, `Scores.cfg` | What does a score sheet keep, one request at a time and overlapping, whomever a list names? | 1.1 M |
| `results` | `MCResults`, `Results.cfg` | What do results show, by which scale, and what does a recalculation keep? | 1.6 M |
| `admissions` | `MCAdmissions`, `Admissions.cfg` | Do applications, appointments and letters agree? | |
| `admissions_capacity` | `MCAdmissions`, `AdmissionsCapacity.cfg` | Is a slot never overfull, when two submissions of a day come one after the other? *No.* | |
| `timetable` | `MCTimetable`, `Timetable.cfg` | Which timetable is current after overlapping saves? | 2 k |
| `records` | `MCSchoolRecords`, `SchoolRecords.cfg` | Who is enrolled, placed, counted and in debt, while promotions, rolls and payments overlap and fail? | 261 k |
| `accounts` | `MCAccounts`, `Accounts.cfg` | Does each request do to an account only what it is for, and does a parent get in? | 122 k |

The two runs answered *no* each refute one statement the code makes of itself;
`PROJECT.json` quotes it under "findings".  The other ten pass.

Bounds, and why they are enough:

* *Two handlers.*  A lost update or a check-then-insert race needs two actors
  on one row.  A third writer of an attempt is the worker, a third of a result
  the worker that makes its card; `Timetable` has three handlers, so that an
  insert can be overtaken by a whole save between two others.
* *One or two rows of a kind* (students, attempts, applications).  Rows interact
  through rankings, duplicate checks and slot counts, all of which relate two.
  `Scores.cfg` has three ids so that two overlapping inserts and a third row fit, and a
  third student who is not of the class.
* *One fault, one or two crashes, one lost acknowledgement.*  The properties that
  assume none say so in their antecedent; the others hold with them.  A second
  crash of a start can hit the start that follows the first, and so can a second failed
  statement (`MaxTroubles = 2`).  `StartupClosed.cfg` has none: the start that fails there
  fails by the rows it meets.
* `QuizStarts.cfg`: one student, two handlers, two rows and one failure, the least with
  which a student gets a second seat by overlap or by a mishap.  It has no crash and no
  violation reports, which `quiz_concurrent` has; with them the liveness check takes too
  long.
* `AdmissionsCapacity.cfg`: one handler and a day of two ticks, so that what overfills the
  slot cannot be an overlap.
* `MaxViolations = 2` with `TabSwitchLimit = 2`: the limit can be reached by two
  reports, or missed by two that overlap.  `FlagThreshold` is 1 or 2 instead of 3
  so that the flag is reached within that bound.
* `Limiter.cfg`: limit 2, window 2, time up to 7: three windows follow one another.
  The proofs cover every limit, window and time.
* `SchoolRecords.cfg`: two students, classes and divisions, lists of at most two records,
  four rows of history: a promotion that repeats, misses its class, or places the first
  of two records where the second belongs.  Three rows of attendance hold two days and
  a duplicate.  Two payments of amounts 1 and 2 can overlap, overpay or leave a rest.
* `Accounts.cfg`: one address, since rows of two addresses share nothing but the queue;
  two codes, so that a new one may equal the old; two faults next to a crash and an expiry.
* *Symmetry* is used where the elements are interchangeable model values and no
  liveness is checked (`LimiterSymmetry`, `QuizSymmetry`, `Symmetry`).

`CHECK_DEADLOCK FALSE` is set for the quiz, the timetable, the records and the accounts.
Nobody is obliged to send another request, and once the ids, rows or violations allowed by
the bounds are used up there may be none left to send; a parent who lost the answer to the
registration has none left either (see below).

### Fairness

`Quiz!Fairness`: a goroutine that has begun a request executes its next statement
(WF; the Go scheduler does not starve a runnable goroutine); tasks in the queue
are run, and a worker finishes what it began (WF); an auto-submit task is taken
(SF, because the only worker may be busy again and again: asynq hands due tasks
to whichever worker is idle).  Nothing obliges anyone to send a request, publish
or close.  `Startup!FairSpec`: the platform starts the process again and a start
goes on (WF on `Boot`); crashes are bounded.  `Accounts!Fairness`: a request that has begun goes on and a mail in the
queue is delivered (WF).  `ParentsGetIn` is about a parent who keeps at it, so it also
assumes that whoever can again and again try a code, ask for another or sign in does so in
the end (SF); a *patient* parent asks for another code only when there is none to try and
none on its way - one who keeps asking may replace each code before trying it, for ever.
Failures, crashes and expiries are bounded, and a mail service is configured.  The other specifications have none
and no liveness is claimed for them.

## What is proved

TLAPS checks the following for every value of the constants, from the assumptions
named in the modules and nothing else.  They say that a value meaning "none" is not a
value, that ids are numbers where `First` orders by them, that lists are sequences of
lines, and that bounds are numbers; and of what a school has at one time, that it is
finite: the students of a class, the slots of a day, the handlers of a load.  The last
are used where the code counts or where a property speaks of "one request at a time".

Every inductive invariant was checked with TLC on the instance of its component's run
before it was proved.

| Component | Module | Theorems about every load | Theorems for requests one at a time |
|---|---|---|---|
| Quiz | `QuizProofs` | `TypeCorrect`, `LimitAlwaysEnforced`, `NeverReopened`, `AlwaysArmed`, `AlwaysMeant`, `AlwaysFrozen`, `SittingsAreKept` | `OneAttempt` |
| Rate limiter | `ServerProofs` | `LimiterTypeCorrect`, `NeverMoreThanTwice`, `AlwaysForCause`, `ImplementsFixedWindow` | |
| Startup | `ServerProofs` | `TypeCorrect`, `OneSessionActive`, `RowsAreKept`, `AlwaysSeeded`, `StartsActive`, `StartableStartsSucceed` | |
| Score sheets | `ScoreBookProofs` | `TypeCorrect`, `OnlyApproversApprove`, `SubmittedScoresAreAll` | `OneEntryEach`, `WorkflowIsKept` |
| Results | `ResultsProofs` | `TypeCorrect`, `OnlyApprovedMarksShown` | `PositionsAreARanking`, `GradesComeFromOneScale`, `HandWorkIsKept` |
| Admissions | `AdmissionsProofs` | `TypeCorrect`, `LettersShowAppointments`, `ReschedulesAreCounted` | `OneApplicationEach`, `GivenAsCounted` |
| Timetables | `TimetableProofs` | `TypeCorrect`, `NewestIsCurrent`, `OthersAreKept` | `OneIsCurrent` |
| School records | `SchoolRecordsProofs` | `TypeCorrect`, `StudentsArePlaced`, `SubmittedSheetsComplete`, `SummariesAreExact`, `DebtorsAlwaysReported` | `ReceiptsAlwaysCover` |
| Accounts | `AccountsProofs` | `TypeCorrect`, `ImplementsAccountLife` | |

(A property of the first kind may still assume in its antecedent that nothing failed, or
that the load has one office; the table says for which loads the steps are considered.)

**Quiz.**  `LimitEnforced` is not inductive: a report on its way carries the violations
it will write.  It is strengthened by what a snapshot knows of its row: a snapshot that
says "submitted" is of a row that still is (the row can never be reopened), so the only
case in which `LogViolation` does not submit at the limit is one in which the row is
submitted already.  `NeverReopened` is an action property: each writer sets the column or
leaves it.  `AlwaysArmed`, `AlwaysMeant` and `AlwaysFrozen` share one argument: every step
is `Careful`.  It never lowers the count of failures or crashes; an attempt whose
auto-submit was queued, held by a worker or about to be queued keeps one of the three, is
submitted or is `lost`; only a failure or a crash makes one lost; and a new attempt begins with its handler about to queue it; whoever becomes
acknowledged has a submitted attempt; and the answers of a submitted attempt change only in
a submission's write.

`SittingsAreKept` is the refinement of `QuizSitting`, for any handlers and workers, with any
faults, crashes and repeated deliveries.  Each step of a start moves one desk (`ReadSits`,
`CheckSits`, `CreateSits`); a look-up that passes over a row of the student was a failure
and counts as a mishap.  A write to a row is a hand-in or nothing to anybody (`RowSits`); a
crash gives up all desks (`CrashSits`).  The only invariant it needs is `Closing`, that a
quiz about to be closed was open when the request came.  `OneAttempt` is derived from it,
and not from the handlers: with one desk and no mishap nobody has two seats, and nobody who
has one is about to be seated (`Once`).

**Score sheets.**  `TypeOK` needs `Holding`, that a save between two statements still has
lines and a row id.  That `First` finds a row at all rests on the least-number principle
(`MinMember`).  `AllScored` needs `Fine` of every submission on
its way, and of the last one answered: of those it names, the students with no row and no
line to come (`Left`) are at most as many as statements failed.  A line that is worked off
leaves its student with a row, or a failure to pay for it (`FewerStill`, `OneMore`), and no
request takes a row away.  That a submission names the whole class is not known of every
list the code accepts, only of one that names nobody twice and no student of another class:
with as many lines as students it names them all (`CompleteNamesAll`, a pigeonhole).
For requests one at a time, `Looked` says that a save about to write holds the row of its
student, or that its student has none, and `Fresh` that this row is still as it was read,
and was not locked.  With one row to a student the sheet is the rows (`View`), a write
enters a mark (`WriteMaps`), and approving, rejecting and unlocking are the actions of their
names (`SheetMaps`): `WorkflowIsKept`, the refinement of `ScoreWorkflow`.

**Results.**  `OnlyApprovedMarks` needs that marks on their way to a result, in the list of
a calculation that has begun, were approved (`Held`), and that the bands it holds were sent
(`ScalesSent`).  The theorems for one request at a time need what a calculation knows half
way: its list is ranked (`Ranked`), the students it is done with are ranked before those to
come and stand in rows of their own (`Plain`), graded by the bands it holds (`Scale`), which
are one whole scale (`Whole`).  `HandWorkIsKept` is an action property: a calculation
writes back the remark and the publication it read, which nobody else changed meanwhile.

**Admissions.**  `Working` says what a goroutine holds in each step of its request.
`OneApplicationPerChild` needs `Clear`: a submission past the duplicate check is still right
when its row is created.  `LetterShowsAppointment` holds for every load; `LettersOf` follows
one application that is never rescheduled: only one submission deals with it, a letter is
queued, being printed or made only when no submission may still give it an appointment, and
what a worker read of it is therefore what it will print.  `ReschedulesAreCounted` is what
overlapping reschedules leave true of the count: `Informed` says that the count one has read
is at most the number answered by now, and that number when nobody else is at work, so
writing one more may miss some and counts none twice.  `GivenAsCounted` is the capacity as
the code keeps it: a run refutes it for a slot of a day (`SlotCapacity`), but at the same
instant an appointment given leaves no more than the window allows.  `Spaced` carries the
count to the booking: nobody else gives an appointment in between, and the applications
that exist are finite.

**Rate limiter** (`ServerProofs`): `LimiterTypeCorrect`, `NeverMoreThanTwice` (within
any window-long interval a client gets at most twice the limit), `AlwaysForCause`
(who is refused has used the limit within the last window) and
`ImplementsFixedWindow` (the refinement: each step of the table is a step of the
abstract limiter or none).  The invariant relates buckets and history: the windows
of a client follow one another with a gap of more than a window, none holds more
than the limit (`History`), and a bucket counts exactly the hits of the last
window (`Tracks`).

**Startup** (`ServerProofs`).  `OneSessionActive` is about requests that do not overlap, and
an activation is two statements with starts, crashes and other requests around it.  What is
inductive is `Alone`, that there is one request in progress at most as long as none began
beside another, and `Quiet`, that one about to activate its session finds none active, since
its first statement left none and nobody else gets to act before it is done; a crash drops
the request and leaves no session active, which a start repairs.  That a start never meets
a request half way is `Resting`.  `Seeded` says what a start has found or made when it comes
to each of its stages, as far as no statement of this start failed; at the last it is what a
request may rely on, and no request takes it away.  `AlwaysSeeded`: the school and the owner
are there in every case, because a start is over when it fails to find or make them, the
divisions unless a statement of the start failed.  `StartsActive` has the same exception:
the session is found or made before the owner is looked for, and nobody changes sessions
until the server is up.  `RowsAreKept` and
`StartableStartsSucceed` are action properties, one case to each step of a start; the second
is the safety half of `ComesBack`: from rows that `Seed` can cope with only a failing
statement is `log.Fatal`, and every step, such an end and a crash too, leaves rows it can cope
with.

**Timetable** (`TimetableProofs`): `TypeCorrect`, `NewestIsCurrent`, `OneIsCurrent`
and `OthersAreKept`, for any classes, handlers, rows and faults.
`NewestCurrent` speaks of moments when no save is in progress; `Covered` extends it
to all others: a row that is no longer current has a newer one, or a save of its
class on its way that will create one (its version not looked up yet, or already
above the row's).  `Serial` adds, for saves that do not overlap, that the save on
its way is alone, that its class has no current row, and that its version is above
all.  `IInv` was checked with TLC on the instance of `Timetable.cfg` first.

**School records.**  *Students*: `Promoted` says where each student is while promotions are
under way, but for those of whom one statement of two was executed (`Placing`); `SheetsHeld`
that the lines of a sheet shown are rows of history that still name the same students, which
is what makes an accepted sheet complete.  *Attendance*: `Seen` says what a marking has found
out while it waits, and `OneRow` that no student has two rows of a class and a day; a
summary, which counts rows, then counts days, by a bijection of the two.  *Fees*: the
invariant is about the sum a payment on its way has read: it is never more than what is paid
by now (`Behind`), and with one bursar and no failure it is exactly that (`Exact`), because
nobody else inserts in between.  `Settled` and `Covering` carry it to the rows: what was paid
with a row is at most what is paid now, so a stored balance is never below the debt.

**Accounts.**  `ImplementsAccountLife` is the refinement of `AccountLife`: each statement is
a step of it or none.  Besides the types the invariant needs `ByMail`: who is about to be
confirmed has had a code arrive at the address.

Every safety property a passing run checks is a theorem.  Only model-checked are the
liveness properties (`EveryAttemptSubmitted`, `QuizOpens`, `ParentsGetIn`, `ComesBack`),
which the prover cannot treat, since they need ENABLED.
`OneAttemptEach`, `OneEntryPerStudent`, `RefusedForCause`, `OthersKept`, `ServedSeeded`, `StartedActive`,
`StartableSucceeds`, `ReschedulesCounted` and `GivenWithinCapacity` are proved and have no run.

## Where the code and its own account differ

Two divergences have a run (see "findings" in `PROJECT.json`): a start that ends in
`log.Fatal` after the default session was closed; a slot given twice in a day, by requests
that do not overlap, because dates with a time of day are compared for equality.  The following were met while
modelling.  The models have them as the code does, so no passing property contradicts
them.

Quiz
* Two overlapping starts of one student both find no attempt and insert two rows with
  an auto-submit each; there is no unique index on quiz and student (`quizzes.go:290`).
  A failed look-up has the same effect, of one start alone (`:292`).
* A start that passed the status check inserts its attempt after the quiz was
  closed (`quizzes.go:334`, against "prevents new attempts", `:615`).
* Publishing writes ACTIVE over a close made since the handler read DRAFT
  (`:598`, `:567`).
* Overlapping violation reports each write the array they read: one is lost
  (`:435`).
* The questions stored with an attempt have their answers removed (`:313`), and it
  is against those that a submission is scored (`:532`): a right answer scores
  nothing.
* A crash between the insert of an attempt and its enqueue leaves it without
  auto-submit (`:340`).  `BackupArmed` therefore assumes no crash.
* An end task run before the start task finds no active quiz and is gone
  (`jobs/handlers.go:352`); the quiz is then opened and not closed by a task.

Rate limiter
* A client may get twice its limit through around a window boundary, as with any
  fixed window (`ratelimit.go:59` against the comment at `:27`).

Startup and sessions
* The SQL migration inserts the owner under another address than `Seed` looks for,
  with the same id: a first start that finds `migrations/` is fatal (`seed.go:93`,
  `:116`).
* A division or session whose look-up fails with anything but "not found" is passed over
  without a word, and the server comes up without it (`seed.go:61`, `:76`).
* The demo seed's sentinel is the first row it creates; a crash after it leaves the
  rest out for good (`demo_seed.go:75`).
* Overlapping activations leave two sessions active (`academic.go:95`); activating
  an id that does not exist deactivates all and reports success.

Score sheets
* A save that read its row before an approval writes every column of it afterwards: the
  mark changes and the approval is gone (`scores.go:321`, `:348`, against `:324`).
* Each line is checked with the first line's exam score (`scores.go:282`).
* Completeness counts lines, so a list passes that names a student twice, or one of another
  class, and leaves somebody out (`:296`).
* A failed look-up of the marking scheme adds a second row of it (`:98`).
* Closing a term "locks score entry" (`academic.go:345`), but nothing that writes
  scores looks at the switch.
* `unlock_requested` is never reset (`:328`).
* The portal's `scores.js` sends `status` and `entries`; `SaveScores` reads `submit`
  and `scores` and refuses unknown fields.

Results
* A calculation that overlaps a publication saves the row it read before and undoes
  it (`services/results.go:180`); two that overlap may both insert (`:159`).
* A mark sent back keeps its result and position (`:31`).
* "Once all scores are approved" (`:27`) is not checked (`:38`).
* A report card's `doc_ref` is not recorded in `document_verifications`.

Admissions
* Overlapping submissions for a child pass the duplicate check together
  (`handlers/admissions.go:228`).
* Overlapping reschedules are counted once (`services/admissions.go:207`), though never
  more often than they were answered (`ReschedulesCounted`).
* Notifications of overlapping decisions may be stored in the other order (`:161`).
* No new letter is made after a reschedule (`:210`, against `:213`).
* Of several open windows only one is looked at (`:60`); `MaxSlotsPerDivision` is
  stored and not used.

Timetables
* Two overlapping saves leave two current timetables of a class with the same
  version (`timetable.go:119`).
* `CheckTeacherConflict` iterates over the values of `{"rows": [...]}` and so
  never sees a row of a builder timetable.

Students and attendance
* A promotion that is repeated adds rows of history again: a sheet then lists the student
  twice, and a sheet with every student once is refused (`scores.go:291`).
* A retained student without a class is refused by the foreign key and counted as done
  (`students.go:163`).
* The class filter of the listing looks at any row of history (`students.go:50`), its
  division filter at a column `divisions` does not have.
* Overlapping rolls insert a day twice (`attendance.go:83`).
* `GetStudentAttendanceSummary` takes the student from the query, its route from the path;
  the portal posts a single record where a list is asked for.

Finance
* Discounts are never read when a balance is computed.
* The debt report does not look at the error of its query: when it fails the answer is an
  empty list with 200 (`finance.go:393`), and the dashboard's count of debtors is 0
  (`dashboard.go:306`).  A student who never paid anything is on no list.
* The debt report lists payments that left a balance when they were made, also those
  settled later (`finance.go:384`, against `:368`); `DebtorsReported` is the direction that
  holds.
* `GetStudentFees` adds up what was owed over all payments, so a fee paid in parts counts
  as often as it was paid (`:127`).
* Two overlapping settings of a fee leave two structures of a division (`:94`).
* A receipt's `doc_ref` is not recorded in `document_verifications`; its PDF is made and
  only logged.
* The dashboard joins sessions on the id of a fee structure (`dashboard.go:202`).
* The portal's `finance.js` sends fields `RecordPayment` refuses.

Accounts
* The `user_id` needed to verify or to ask for another code is only in the answer to the
  registration, and the address is taken from then on: a parent who loses the answer
  has no way in (`users.go:180`).
* Without a mail service the codes are only logged and the tasks done, so nobody who
  registers can be confirmed (`jobs/handlers.go:51`).

Elsewhere
* The count of verifications of a document is written from the value read (`verify.go:41`).

## Not modelled

The quiz question bank (single-statement updates of rows no attempt reads), permissions (a
constant table), documents and verification, notifications, announcements and feed (rows
created, listed and archived one at a time), the settings of the school (one update), and
of sign-in the tokens and the middleware that reads them.  The audit log, dashboards, pages,
mail, PDF, QR codes, configuration and helpers have no state another part depends on.  The
portal is a view of the API except for `quiz.js`, whose timer and retries are a protocol
of their own: the quiz lets a browser send any request at any time, which includes what
`quiz.js` sends.

## Plan

1. `Quiz`, `Asynq`, `QuizSitting`: modelled, checked, all its safety and the refinement
   proved.
2. `RateLimiter`, `FixedWindow`: modelled, checked, proved.
3. `Startup`: modelled, checked, its safety proved.
4. `ScoreBook`, `ScoreWorkflow`, `Results` with its grading scales: modelled, checked, proved.
5. `Admissions`: modelled, checked, proved.
6. `Timetable`: modelled, checked, proved.
7. `Students`, `Attendance`, `Fees` as `SchoolRecords`: modelled, checked, proved.
8. `Accounts`, `AccountLife`: modelled, checked, the refinement proved.
9. Left: documents, notifications, the question bank, `quiz.js` against `Quiz`.
