------------------------------- MODULE Startup -------------------------------
(***************************************************************************)
(* The start of the server process (cmd/server/main.go: migrations, Seed,  *)
(* DemoSeed) against the rows it finds, and the requests that change the   *)
(* academic sessions between one start and the next                        *)
(* (internal/handlers/academic.go).                                        *)
(*                                                                         *)
(* One process runs at a time and serves requests only when its start is   *)
(* over, so looking a row up and creating it is one step of the start; the *)
(* process can die between any two, and log.Fatal ends it too.  Any        *)
(* statement of a start may fail: most such errors are fatal, but Seed     *)
(* passes over a division or a session it could not look up, and DemoSeed  *)
(* over everything.                                                        *)
(***************************************************************************)
EXTENDS Integers, FiniteSets

CONSTANTS
  Divisions,      \* the three divisions
  Sessions,       \* ids of academic sessions
  DefaultSession, \* ...030, the id both the migration and Seed insert
  NoSession,      \* the session of a handler that has none
  Handlers,       \* goroutines serving HTTP requests
  SqlFiles,       \* whether migrations/ is found: the image has none, a checkout does
  MaxCrashes,     \* bound: crashes of the process
  MaxTroubles,    \* bound: failed statements of starts
  MaxFaults       \* bound: failed statements of requests

ASSUME StartupAssumption ==
  /\ DefaultSession \in Sessions
  /\ NoSession \notin Sessions
  /\ SqlFiles \subseteq BOOLEAN /\ SqlFiles # {}
  /\ MaxCrashes \in Nat /\ MaxTroubles \in Nat /\ MaxFaults \in Nat

VARIABLES
  server,    \* how far the start has come; "up" when requests are served
  lastExit,  \* how the process last ended
  school,    \* the default school exists
  divisions, \* the divisions that exist
  sessions,  \* academic_sessions.is_active
  owner,     \* users ...010: absent, or with which e-mail address
  demo,      \* the demo data that is there: its sentinel user, all of the rest
  troubled,  \* history: a statement of the last start failed
  troubles,
  local,     \* what each handler is doing
  overlapped, \* history: a request began while another was in progress
  crashes, faults

rows == <<school, divisions, sessions, owner, demo>>
requests == <<local, overlapped>>
process == <<lastExit, troubled, troubles>>
vars == <<server, process, rows, requests, crashes, faults>>

Stages == {"migrate", "school", "divisions", "session", "owner", "demo", "demoRest"}
Idle == [op |-> "idle", session |-> NoSession]

Exists(s) == sessions[s] # "absent"
HasActive == \E s \in Sessions : sessions[s] = "active"
NoHandlers == local' = [h \in Handlers |-> Idle]

-----------------------------------------------------------------------------
(* The start, one step per row. *)

Start ==
  /\ server = "down"
  /\ server' = "migrate"
  /\ troubled' = FALSE
  /\ UNCHANGED <<lastExit, troubles, rows, requests, crashes, faults>>

\* log.Fatal: the error of a migration or of Seed ends the process.
Fatal ==
  /\ server' = "down"
  /\ lastExit' = "fatal"
  /\ UNCHANGED rows

\* The start goes on to its next stage.
GoOn(stage) == server' = stage /\ UNCHANGED lastExit

\* The statements of a step are executed, or one of them fails.
Succeed == UNCHANGED <<troubled, troubles>>
Fail ==
  /\ troubles < MaxTroubles
  /\ troubles' = troubles + 1
  /\ troubled' = TRUE

\* 0001_seed_school_and_owner.sql: one transaction, every insert guarded, but
\* the owner by its id and the session by no session being active.
runSQLMigrations ==
  IF ~HasActive /\ Exists(DefaultSession)
  THEN Fatal
  ELSE /\ school' = TRUE
       /\ divisions' = Divisions
       /\ owner' = IF owner = "absent" THEN "migration" ELSE owner
       /\ sessions' = IF HasActive THEN sessions
                      ELSE [sessions EXCEPT ![DefaultSession] = "active"]
       /\ GoOn("school")
       /\ UNCHANGED demo

RunMigrations ==
  /\ server = "migrate"
  /\ \/ TRUE \in SqlFiles /\ runSQLMigrations /\ Succeed
     \/ FALSE \in SqlFiles /\ GoOn("school") /\ UNCHANGED rows /\ Succeed
     \/ Fatal /\ Fail
  /\ UNCHANGED <<requests, crashes, faults>>

\* A failed lookup is fatal here, as is a failed insert.
SeedSchool ==
  /\ server = "school"
  /\ \/ /\ school' = TRUE
        /\ GoOn("divisions") /\ Succeed
        /\ UNCHANGED <<divisions, sessions, owner, demo>>
     \/ Fatal /\ Fail
  /\ UNCHANGED <<requests, crashes, faults>>

\* Only "not found" leads to an insert: with any other error of its lookup a
\* division is passed over.
SeedDivisions ==
  /\ server = "divisions"
  /\ \/ \E d \in Divisions \ divisions :
          /\ divisions' = divisions \cup {d}
          /\ GoOn("divisions") /\ Succeed
          /\ UNCHANGED <<school, sessions, owner, demo>>
     \/ divisions = Divisions /\ GoOn("session") /\ Succeed /\ UNCHANGED rows
     \/ divisions # Divisions /\ GoOn("session") /\ Fail /\ UNCHANGED rows
     \/ divisions # Divisions /\ Fatal /\ Fail
  /\ UNCHANGED <<requests, crashes, faults>>

\* Mutant: the default session is saved over whatever has its id.
SeedSessionSave ==
  /\ server = "session"
  /\ sessions' = IF HasActive THEN sessions
                 ELSE [sessions EXCEPT ![DefaultSession] = "active"]
  /\ GoOn("owner") /\ Succeed
  /\ UNCHANGED <<school, divisions, owner, demo, requests, crashes, faults>>

\* Looked up by is_active, inserted with a fixed id; passed over like a
\* division when the lookup fails.
SeedSession ==
  /\ server = "session"
  /\ \/ HasActive /\ GoOn("owner") /\ Succeed /\ UNCHANGED rows
     \/ ~HasActive /\ Exists(DefaultSession) /\ Fatal /\ Succeed
     \/ /\ ~HasActive /\ ~Exists(DefaultSession)
        /\ sessions' = [sessions EXCEPT ![DefaultSession] = "active"]
        /\ GoOn("owner") /\ Succeed
        /\ UNCHANGED <<school, divisions, owner, demo>>
     \/ ~HasActive /\ GoOn("owner") /\ Fail /\ UNCHANGED rows
     \/ ~HasActive /\ Fatal /\ Fail
  /\ UNCHANGED <<requests, crashes, faults>>

\* Looked up by e-mail address, inserted with a fixed id.
SeedOwner ==
  /\ server = "owner"
  /\ \/ owner = "seed" /\ GoOn("demo") /\ Succeed /\ UNCHANGED rows
     \/ owner = "migration" /\ Fatal /\ Succeed
     \/ /\ owner = "absent"
        /\ owner' = "seed"
        /\ GoOn("demo") /\ Succeed
        /\ UNCHANGED <<school, divisions, sessions, demo>>
     \/ Fatal /\ Fail
  /\ UNCHANGED <<requests, crashes, faults>>

\* Mutant: finding the demo data is an error, and that error is fatal.
DemoSeedFatal ==
  /\ server = "demo"
  /\ \/ /\ "sentinel" \notin demo
        /\ demo' = demo \cup {"sentinel"}
        /\ GoOn("demoRest")
        /\ UNCHANGED <<school, divisions, sessions, owner>>
     \/ "sentinel" \in demo /\ Fatal
  /\ Succeed
  /\ UNCHANGED <<requests, crashes, faults>>

\* The sentinel is the first user DemoSeed itself creates.  It is taken for
\* missing when its lookup fails, and a failed insert is only logged.
DemoSeed ==
  /\ server = "demo"
  /\ \/ /\ "sentinel" \notin demo
        /\ demo' = demo \cup {"sentinel"}
        /\ GoOn("demoRest") /\ Succeed
     \/ "sentinel" \in demo /\ GoOn("up") /\ Succeed /\ UNCHANGED demo
     \/ GoOn("demoRest") /\ Fail /\ UNCHANGED demo
  /\ UNCHANGED <<school, divisions, sessions, owner, requests, crashes, faults>>

\* No error of the rest is looked at; its term and what hangs on it refer to
\* the default session.
DemoSeedRest ==
  /\ server = "demoRest"
  /\ GoOn("up")
  /\ \/ /\ Exists(DefaultSession) /\ divisions = Divisions
        /\ demo' = demo \cup {"rest"}
        /\ Succeed
     \/ (~Exists(DefaultSession) \/ divisions # Divisions) /\ Succeed /\ UNCHANGED demo
     \/ Fail /\ UNCHANGED demo
  /\ UNCHANGED <<school, divisions, sessions, owner, requests, crashes, faults>>

Crash ==
  /\ server # "down"
  /\ crashes < MaxCrashes
  /\ crashes' = crashes + 1
  /\ server' = "down"
  /\ lastExit' = "crash"
  /\ NoHandlers
  /\ UNCHANGED <<troubled, troubles, rows, overlapped, faults>>

-----------------------------------------------------------------------------
(* The owner's requests, while the server is up. *)

Goto(h, op, s) == local' = [local EXCEPT ![h] = [op |-> op, session |-> s]]

\* A request of several statements begins.
Begin(h) ==
  /\ server = "up" /\ local[h] = Idle
  /\ overlapped' = (overlapped \/ \E g \in Handlers : local[g] # Idle)

\* A new session is inactive.
CreateSession(h) ==
  /\ server = "up" /\ local[h] = Idle
  /\ \E s \in Sessions \ {DefaultSession} :
       /\ ~Exists(s)
       /\ sessions' = [sessions EXCEPT ![s] = "inactive"]
  /\ UNCHANGED <<server, process, school, divisions, owner, demo, requests, crashes, faults>>

\* A statement of a request, which leaves sessions as "after", or fails.
Statement(after) ==
  \/ sessions' = after /\ UNCHANGED faults
  \/ UNCHANGED sessions /\ faults < MaxFaults /\ faults' = faults + 1

\* Mutant: the sessions of the school are not deactivated first.
SetActiveSession_KeepOthers(h, s) ==
  /\ Begin(h)
  /\ Goto(h, "activate", s)
  /\ UNCHANGED <<server, process, rows, crashes, faults>>

\* Neither statement has its error or its row count checked.
SetActiveSession_Deactivate(h, s) ==
  /\ Begin(h)
  /\ Statement([t \in Sessions |-> IF Exists(t) THEN "inactive" ELSE "absent"])
  /\ Goto(h, "activate", s)
  /\ UNCHANGED <<server, process, school, divisions, owner, demo, crashes>>

SetActiveSession_Activate(h) ==
  LET s == local[h].session
  IN /\ local[h].op = "activate"
     /\ Statement(IF Exists(s) THEN [sessions EXCEPT ![s] = "active"] ELSE sessions)
     /\ Goto(h, "idle", NoSession)
     /\ UNCHANGED <<server, process, school, divisions, owner, demo, overlapped, crashes>>

CloseSession_Read(h, s) ==
  /\ Begin(h)
  /\ Exists(s)
  /\ Goto(h, "close", s)
  /\ UNCHANGED <<server, process, rows, crashes, faults>>

\* Mutant: closing a session deletes its row.
CloseSession_WriteDelete(h) ==
  /\ local[h].op = "close"
  /\ Statement([s \in Sessions \ {local[h].session} |-> sessions[s]])
  /\ Goto(h, "idle", NoSession)
  /\ UNCHANGED <<server, process, school, divisions, owner, demo, overlapped, crashes>>

CloseSession_Write(h) ==
  /\ local[h].op = "close"
  /\ Statement([sessions EXCEPT ![local[h].session] = "inactive"])
  /\ Goto(h, "idle", NoSession)
  /\ UNCHANGED <<server, process, school, divisions, owner, demo, overlapped, crashes>>

-----------------------------------------------------------------------------
Init ==
  /\ server = "down" /\ lastExit = "none"
  /\ school = FALSE
  /\ divisions = {}
  /\ sessions = [s \in Sessions |-> "absent"]
  /\ owner = "absent"
  /\ demo = {}
  /\ troubled = FALSE /\ troubles = 0
  /\ local = [h \in Handlers |-> Idle]
  /\ overlapped = FALSE
  /\ crashes = 0 /\ faults = 0

Boot ==
  \/ Start \/ RunMigrations \/ SeedSchool \/ SeedDivisions
  \/ SeedSession \/ SeedOwner \/ DemoSeed \/ DemoSeedRest

Proceed(h) == SetActiveSession_Activate(h) \/ CloseSession_Write(h)

Next ==
  \/ Boot
  \/ Crash
  \/ \E h \in Handlers :
       \/ CreateSession(h)
       \/ \E s \in Sessions : SetActiveSession_Deactivate(h, s) \/ CloseSession_Read(h, s)
       \/ Proceed(h)

Spec == Init /\ [][Next]_vars

\* The platform restarts the process, and a started process goes on.
FairSpec == Spec /\ WF_vars(Boot)

-----------------------------------------------------------------------------
(* Properties. *)

TypeOK ==
  /\ server \in Stages \cup {"down", "up"}
  /\ lastExit \in {"none", "crash", "fatal"}
  /\ school \in BOOLEAN
  /\ divisions \subseteq Divisions
  /\ sessions \in [Sessions -> {"absent", "inactive", "active"}]
  /\ owner \in {"absent", "migration", "seed"}
  /\ demo \subseteq {"sentinel", "rest"}
  /\ troubled \in BOOLEAN /\ troubles \in Nat
  /\ local \in [Handlers -> [op : {"idle", "activate", "close"}, session : Sessions \cup {NoSession}]]
  /\ overlapped \in BOOLEAN
  /\ crashes \in Nat /\ faults \in Nat

\* seed.go:15-16, "rows that already exist are left untouched": no step of a
\* start changes a session or an owner that is there.
SeedKeepsRows ==
  [][server # "up" =>
       /\ \A s \in Sessions : Exists(s) => sessions'[s] = sessions[s]
       /\ owner # "absent" => owner' = owner]_vars

\* Neither of the two states Seed cannot cope with.
Startable ==
  /\ owner = "seed" \/ (owner = "absent" /\ TRUE \notin SqlFiles)
  /\ HasActive \/ ~Exists(DefaultSession)

\* seed.go:14-15, of a start that meets such rows: nothing in it is fatal but
\* a failing statement, and however far it came before a crash or such an end,
\* the next start can cope with what it left.
StartableSucceeds ==
  [][server # "up" /\ Startable => Startable' /\ (Fatal => Fail)]_vars

\* And it gets there: whoever restarts the process need not look after it, as
\* long as the rows are such and statements do not go on failing.
ComesBack == Startable /\ server = "down" ~> server = "up"

\* main.go:67-77: no request is served before the default school and the owner
\* as Seed looks for it are there, whatever failed in the start, nor before
\* the divisions are unless a statement of the start failed; nor does any
\* request take them away.
ServedSeeded ==
  server = "up" =>
    /\ school /\ owner = "seed"
    /\ divisions = Divisions \/ troubled

\* seed.go:74-90: some session is active when a start in which no statement
\* failed ends.
StartedActive ==
  [][server # "up" /\ server' = "up" => HasActive' \/ troubled']_vars

\* SetActiveSession, academic.go:89-97: a school has one active session at
\* most, as long as no two requests overlapped and no statement failed.
AtMostOneActive ==
  faults = 0 /\ ~overlapped => \A s, t \in Sessions :
    sessions[s] = "active" /\ sessions[t] = "active" => s = t

-----------------------------------------------------------------------------
(* What the code says of itself and does not keep; a run refutes it. *)

\* seed.go:14-15, "It is safe to call on every startup", and the migration's
\* "It is idempotent": no start ends in log.Fatal.
StartupSafe == lastExit # "fatal"

===============================================================================
