----------------------------- MODULE Admissions -----------------------------
(***************************************************************************)
(* Admission windows, applications and their appointments:                 *)
(* internal/services/admissions.go, internal/handlers/admissions.go and    *)
(* the appointment letter task of internal/jobs/handlers.go.               *)
(*                                                                         *)
(* Time is counted in ticks, TicksPerDay of them a day, and every day is a *)
(* weekday.  An appointment's date is the tick of the assignment moved by  *)
(* whole days: AssignAppointmentSlot does not cut the time of day off.     *)
(* The documents and personal data of an application are left out; nothing *)
(* archives one.                                                           *)
(***************************************************************************)
EXTENDS Integers, FiniteSets, FiniteSetsExt

CONSTANTS
  Apps,         \* ids of rows of applications
  Children,     \* name and date of birth of a child
  Enrolled,     \* those that have a row of students
  NoChild,      \* child of an application that does not exist
  Divisions,
  Windows,      \* ids of rows of admission_windows: numbers, for their order
  Capacities,   \* appointment_capacity_per_slot of a new window
  Slots,        \* AppointmentTimeSlots: numbers, in their order
  TicksPerDay,
  Handlers,     \* goroutines serving HTTP requests
  Workers,      \* goroutines of the asynq server
  Loads         \* bounds: the applications and the traffic a behaviour may have

ASSUME AdmissionsAssumption ==
  /\ Enrolled \subseteq Children /\ NoChild \notin Children
  /\ Windows \subseteq Nat /\ Capacities \subseteq Nat \ {0}
  /\ Slots # {} /\ Slots \subseteq Nat \ {0} /\ IsFiniteSet(Slots)
  /\ TicksPerDay \in Nat \ {0}
  /\ Handlers \cap Workers = {}
  /\ Loads \subseteq [apps : SUBSET Apps, children : SUBSET Children,
                       reschedulable : SUBSET Apps, overridable : SUBSET Apps,
                       handlers : SUBSET Handlers, workers : SUBSET Workers,
                       ticks : Nat, reschedules : Nat, faults : Nat]
  /\ \A l \in Loads : IsFiniteSet(l.handlers)

\* reschedulable, overridable: the applications these requests may name.
VARIABLES
  load,        \* one of Loads, chosen in the beginning
  now,
  windows,     \* admission_windows
  apps,        \* applications
  notice,      \* the status the parent was last notified of
  queue,       \* applications with a letter task in the queue
  letters,     \* appointment_letters: whether there is one and what it shows
  asked,       \* answered reschedules of each application, for their bound
  local,       \* what each goroutine is doing, with its snapshot
  faults

vars == <<load, now, windows, apps, notice, queue, letters, asked, local, faults>>

Statuses == {"PENDING", "UNDER_REVIEW", "ACCEPTED", "DECLINED"}

\* slot 0: no appointment yet.
Unset == [date |-> 0, slot |-> 0]
NoApp == [child |-> NoChild, division |-> NoChild, status |-> "none", at |-> Unset, reschedules |-> 0]
NoWindow == [divisions |-> {}, capacity |-> 0]
NoLetter == [made |-> FALSE, at |-> Unset]

Filed == {a \in Apps : apps[a].status # "none"}

Idle == [op |-> "idle", app |-> NoApp, id |-> NoChild, capacity |-> 0,
         at |-> Unset, status |-> "none", again |-> FALSE]

Goto(g, rec) == local' = [local EXCEPT ![g] = rec]
Fault == faults < load.faults /\ faults' = faults + 1

Tick ==
  /\ now < load.ticks
  /\ now' = now + 1
  /\ UNCHANGED <<load, windows, apps, notice, queue, letters, asked, local, faults>>

-----------------------------------------------------------------------------
(* Windows: those that are active and whose dates include now. *)

CreateAdmissionWindow(h, divisions, capacity) ==
  /\ local[h] = Idle
  /\ \E w \in Windows :
       /\ windows[w] = NoWindow
       /\ windows' = [windows EXCEPT ![w] = [divisions |-> divisions, capacity |-> capacity]]
  /\ UNCHANGED <<load, now, apps, notice, queue, letters, asked, local, faults>>

\* The close date passes.
CloseDate(w) ==
  /\ windows[w] # NoWindow
  /\ windows' = [windows EXCEPT ![w] = NoWindow]
  /\ UNCHANGED <<load, now, apps, notice, queue, letters, asked, local, faults>>

Open == {w \in Windows : windows[w] # NoWindow}

\* First takes one window; only its divisions are looked at.
IsAdmissionWindowOpen(division) ==
  Open # {} /\ division \in windows[Min(Open)].divisions

-----------------------------------------------------------------------------
(* SubmitApplication: CheckDuplicate, CreateApplication and a slot. *)

\* Bound: an id is left for every submission on its way.
RoomForOne ==
  Cardinality(Filed \cup {g \in Handlers : local[g].op \in {"duplicate", "create"}})
    < Cardinality(load.apps)

SubmitApplication_Check(h, child, division) ==
  /\ local[h] = Idle
  /\ RoomForOne
  /\ IsAdmissionWindowOpen(division)
  /\ Goto(h, [Idle EXCEPT !.op = "duplicate",
                !.app = [NoApp EXCEPT !.child = child, !.division = division, !.status = "PENDING"],
                !.capacity = windows[Min(Open)].capacity])
  /\ UNCHANGED <<load, now, windows, apps, notice, queue, letters, asked, faults>>

\* Mutant: only the enrolled students are looked at.
DuplicateEnrolled(child) == child \in Enrolled

Duplicate(child) == child \in Enrolled \/ \E a \in Filed : apps[a].child = child

\* The errors of the two counts are not looked at: nothing is counted then.
CheckDuplicate(h) ==
  LET child == local[h].app.child
  IN /\ local[h].op = "duplicate"
     /\ \/ Duplicate(child) /\ Goto(h, Idle) /\ UNCHANGED faults
        \/ ~Duplicate(child) /\ Goto(h, [local[h] EXCEPT !.op = "create"]) /\ UNCHANGED faults
        \/ Fault /\ Goto(h, [local[h] EXCEPT !.op = "create"])
     /\ UNCHANGED <<load, now, windows, apps, notice, queue, letters, asked>>

CreateApplication(h) ==
  /\ local[h].op = "create"
  /\ \/ \E a \in load.apps \ Filed :
          /\ apps' = [apps EXCEPT ![a] = local[h].app]
          /\ Goto(h, [local[h] EXCEPT !.op = "notify", !.id = a])
          /\ UNCHANGED faults
     \/ Fault /\ Goto(h, Idle) /\ UNCHANGED apps
  /\ UNCHANGED <<load, now, windows, notice, queue, letters, asked>>

\* Mutant: the letter is asked for before there is an appointment.
CreateApplication_NotifyAndEnqueue(h) ==
  /\ local[h].op = "notify"
  /\ notice' = [notice EXCEPT ![local[h].id] = "PENDING"]
  /\ queue' = queue \cup {local[h].id}
  /\ Goto(h, [local[h] EXCEPT !.op = "assign"])
  /\ UNCHANGED <<load, now, windows, apps, letters, asked, faults>>

\* The error of a notification is not looked at.
CreateApplication_Notify(h) ==
  /\ local[h].op = "notify"
  /\ \/ notice' = [notice EXCEPT ![local[h].id] = "PENDING"] /\ UNCHANGED faults
     \/ Fault /\ UNCHANGED notice
  /\ Goto(h, [local[h] EXCEPT !.op = "assign"])
  /\ UNCHANGED <<load, now, windows, apps, queue, letters, asked>>

\* "at least 2 days from now"
AssignAppointmentSlot(h) ==
  /\ local[h].op = "assign"
  /\ Goto(h, [local[h] EXCEPT !.op = "count",
                !.at = [date |-> now + 2 * TicksPerDay, slot |-> Min(Slots)]])
  /\ UNCHANGED <<load, now, windows, apps, notice, queue, letters, asked, faults>>

Booked(at) == {a \in Filed : apps[a].at = at /\ apps[a].status # "DECLINED"}

\* Mutant: the slots of a day do not end.
NextSlotSameDay(at) == [at EXCEPT !.slot = @ + 1]

NextSlot(at) ==
  IF at.slot = Max(Slots) THEN [date |-> at.date + TicksPerDay, slot |-> Min(Slots)]
  ELSE [at EXCEPT !.slot = Min({s \in Slots : s > @})]

\* The error of the count is not looked at: nothing is counted then.
AssignAppointmentSlot_Count(h) ==
  LET free == Cardinality(Booked(local[h].at)) < local[h].capacity
  IN /\ local[h].op = "count"
     /\ \/ free /\ Goto(h, [local[h] EXCEPT !.op = "book"]) /\ UNCHANGED faults
        \/ ~free /\ Goto(h, [local[h] EXCEPT !.at = NextSlot(@)]) /\ UNCHANGED faults
        \/ ~free /\ Fault /\ Goto(h, [local[h] EXCEPT !.op = "book"])
     /\ UNCHANGED <<load, now, windows, apps, notice, queue, letters, asked>>

\* A submission goes on without a slot when the update fails, a reschedule ends.
AssignAppointmentSlot_Book(h) ==
  LET next == IF local[h].again THEN "reschedule" ELSE "letter"
  IN /\ local[h].op = "book"
     /\ \/ /\ apps' = [apps EXCEPT ![local[h].id].at = local[h].at]
           /\ Goto(h, [local[h] EXCEPT !.op = next])
           /\ UNCHANGED faults
        \/ /\ Fault
           /\ Goto(h, IF local[h].again THEN Idle ELSE [local[h] EXCEPT !.op = next])
           /\ UNCHANGED apps
     /\ UNCHANGED <<load, now, windows, notice, queue, letters, asked>>

SubmitApplication_Enqueue(h) ==
  /\ local[h].op = "letter"
  /\ \/ queue' = queue \cup {local[h].id} /\ UNCHANGED faults
     \/ Fault /\ UNCHANGED queue
  /\ Goto(h, Idle)
  /\ UNCHANGED <<load, now, windows, apps, notice, letters, asked>>

-----------------------------------------------------------------------------
(* RescheduleAppointment, of the handler and of the service. *)

RescheduleAppointment_Read(h, a) ==
  /\ local[h] = Idle
  /\ a \in load.reschedulable /\ asked[a] < load.reschedules
  /\ IsAdmissionWindowOpen(apps[a].division)
  /\ Goto(h, [Idle EXCEPT !.op = "assign", !.app = apps[a], !.id = a, !.again = TRUE,
                          !.capacity = windows[Min(Open)].capacity])
  /\ UNCHANGED <<load, now, windows, apps, notice, queue, letters, asked, faults>>

NextCount(app) == app.reschedules + 1

\* The error of the update is not looked at.
RescheduleAppointment_Count(h) ==
  /\ local[h].op = "reschedule"
  /\ \/ /\ apps' = [apps EXCEPT ![local[h].id].reschedules = NextCount(local[h].app)]
        /\ UNCHANGED faults
     \/ Fault /\ UNCHANGED apps
  /\ asked' = [asked EXCEPT ![local[h].id] = @ + 1]
  /\ Goto(h, Idle)
  /\ UNCHANGED <<load, now, windows, notice, queue, letters>>

-----------------------------------------------------------------------------
(* Decisions. *)

UpdateStatus(h, a, status) ==
  /\ local[h] = Idle
  /\ apps' = [apps EXCEPT ![a].status = status]
  /\ Goto(h, IF status = "PENDING" THEN Idle
             ELSE [Idle EXCEPT !.op = "statusNotify", !.app = apps[a], !.id = a, !.status = status])
  /\ UNCHANGED <<load, now, windows, notice, queue, letters, asked, faults>>

NoticeOf(h) == local[h].status

UpdateStatus_Notify(h) ==
  /\ local[h].op = "statusNotify"
  /\ \/ notice' = [notice EXCEPT ![local[h].id] = NoticeOf(h)] /\ UNCHANGED faults
     \/ Fault /\ UNCHANGED notice
  /\ Goto(h, Idle)
  /\ UNCHANGED <<load, now, windows, apps, queue, letters, asked>>

\* The owner's decision; nobody is notified.
OverrideAdmission(h, a) ==
  /\ local[h] = Idle
  /\ a \in load.overridable
  /\ \E status \in {"ACCEPTED", "DECLINED"} : apps' = [apps EXCEPT ![a].status = status]
  /\ UNCHANGED <<load, now, windows, notice, queue, letters, asked, local, faults>>

-----------------------------------------------------------------------------
(* HandleGenerateAppointmentLetter.  doc_ref is unique and made of the       *)
(* application's reference: a second letter is not stored.                   *)

HandleGenerateAppointmentLetter_Read(w, a) ==
  /\ local[w] = Idle
  /\ a \in queue
  /\ Goto(w, [Idle EXCEPT !.op = "render", !.app = apps[a], !.id = a])
  /\ UNCHANGED <<load, now, windows, apps, notice, queue, letters, asked, faults>>

\* A rendering that fails leaves the task in the queue; the error of the
\* insertion is not looked at.
HandleGenerateAppointmentLetter_Write(w) ==
  LET a == local[w].id
      done == queue' = queue \ {a}
  IN /\ local[w].op = "render"
     /\ \/ /\ ~letters[a].made
           /\ letters' = [letters EXCEPT ![a] = [made |-> TRUE, at |-> local[w].app.at]]
           /\ done /\ UNCHANGED faults
        \/ letters[a].made /\ done /\ UNCHANGED <<letters, faults>>
        \/ Fault /\ done /\ UNCHANGED letters
        \/ Fault /\ UNCHANGED <<queue, letters>>
     /\ Goto(w, Idle)
     /\ UNCHANGED <<load, now, windows, apps, notice, asked>>

-----------------------------------------------------------------------------
Init ==
  /\ load \in Loads
  /\ now = 0
  /\ windows = [w \in Windows |-> NoWindow]
  /\ apps = [a \in Apps |-> NoApp]
  /\ notice = [a \in Apps |-> "none"]
  /\ queue = {}
  /\ letters = [a \in Apps |-> NoLetter]
  /\ asked = [a \in Apps |-> 0]
  /\ local = [g \in Handlers \cup Workers |-> Idle]
  /\ faults = 0

Next ==
  \/ Tick
  \/ \E w \in Windows : CloseDate(w)
  \/ \E h \in load.handlers :
       \/ \E divisions \in SUBSET Divisions \ {{}}, capacity \in Capacities :
            CreateAdmissionWindow(h, divisions, capacity)
       \/ \E child \in load.children, division \in Divisions :
            SubmitApplication_Check(h, child, division)
       \/ CheckDuplicate(h) \/ CreateApplication(h) \/ CreateApplication_Notify(h)
       \/ AssignAppointmentSlot(h) \/ AssignAppointmentSlot_Count(h)
       \/ AssignAppointmentSlot_Book(h) \/ SubmitApplication_Enqueue(h)
       \/ \E a \in Filed :
            \/ RescheduleAppointment_Read(h, a)
            \/ \E status \in Statuses : UpdateStatus(h, a, status)
            \/ OverrideAdmission(h, a)
       \/ RescheduleAppointment_Count(h) \/ UpdateStatus_Notify(h)
  \/ \E w \in load.workers :
       \/ \E a \in Apps : HandleGenerateAppointmentLetter_Read(w, a)
       \/ HandleGenerateAppointmentLetter_Write(w)

Spec == Init /\ [][Next]_vars

-----------------------------------------------------------------------------
(* Properties. *)

Appointment == [date : Nat, slot : Slots \cup {0}]
Application == [child : Children \cup {NoChild}, division : Divisions \cup {NoChild},
                status : Statuses \cup {"none"}, at : Appointment, reschedules : Nat]
Ops == {"idle", "duplicate", "create", "notify", "assign", "count", "book", "letter",
        "reschedule", "statusNotify", "render"}

\* Requests come one at a time and their statements succeed.
Serial == Cardinality(load.handlers) = 1 /\ faults = 0

\* What is queued, printed, asked for or announced is an application.
TypeOK ==
  /\ load \in Loads
  /\ now \in Nat
  /\ windows \in [Windows -> [divisions : SUBSET Divisions, capacity : Capacities \cup {0}]]
  /\ apps \in [Apps -> Application]
  /\ notice \in [Apps -> Statuses \cup {"none"}]
  /\ queue \subseteq Filed
  /\ letters \in [Apps -> [made : BOOLEAN, at : Appointment]]
  /\ \A a \in Apps \ Filed : apps[a] = NoApp /\ letters[a] = NoLetter
  /\ asked \in [Apps -> Nat]
  /\ local \in [Handlers \cup Workers ->
       [op : Ops, app : Application, id : Apps \cup {NoChild}, capacity : Capacities \cup {0},
        at : Appointment, status : Statuses \cup {"none"}, again : BOOLEAN]]
  /\ faults \in Nat

\* CheckDuplicate, admissions.go:26: no child has two applications, nor one when
\* it is enrolled, as long as requests come one at a time and no count fails.
OneApplicationPerChild ==
  Serial => \A a \in Filed :
    /\ apps[a].child \notin Enrolled
    /\ \A b \in Filed : apps[a].child = apps[b].child => a = b

\* SubmitApplication, admissions.go:254-262: the letter of an application that
\* was never rescheduled shows its appointment, whatever overlaps or fails.
LetterShowsAppointment ==
  \A a \in Apps \ load.reschedulable : letters[a].made => letters[a].at = apps[a].at

\* RescheduleAppointment, services/admissions.go:206-207: an application is
\* counted as rescheduled once for each reschedule answered when requests come
\* one at a time; when they overlap some go uncounted, none is counted twice.
ReschedulesCounted ==
  \A a \in Apps : /\ apps[a].reschedules <= asked[a]
                  /\ Serial => apps[a].reschedules = asked[a]

\* AssignAppointmentSlot, services/admissions.go:106-124: when requests come one
\* at a time and no statement fails, an appointment given leaves no more at its
\* instant than the capacity of the window the request found open.
GivenWithinCapacity ==
  [][Serial' => \A a \in Apps : apps'[a].at # apps[a].at =>
       \E h \in load.handlers :
         /\ local[h].op = "book" /\ local[h].id = a
         /\ Cardinality(Booked(apps[a].at)') <= local[h].capacity]_vars

-----------------------------------------------------------------------------
(* What the code says of itself and does not keep; a run refutes it. *)

\* models.go, appointment_capacity_per_slot, and admissions.go:101, "assigns the
\* next available appointment slot": no slot of a day is given to more
\* applications, declined ones aside, than its capacity.
SlotCapacity ==
  \A a \in Filed : apps[a].at # Unset =>
    Cardinality({b \in Filed :
      /\ apps[b].status # "DECLINED"
      /\ apps[b].at.slot = apps[a].at.slot
      /\ apps[b].at.date \div TicksPerDay = apps[a].at.date \div TicksPerDay}) <= Max(Capacities)

=============================================================================
