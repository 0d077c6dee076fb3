--------------------------- MODULE AdmissionsProofs ---------------------------
(***************************************************************************)
(* What holds of admissions for any applications, children, windows,       *)
(* slots, requests and failures: the types, that no child has two          *)
(* applications when requests come one at a time, that a letter shows the  *)
(* appointment of its application, and that no reschedule is counted twice.*)
(*                                                                         *)
(* Working says what a goroutine holds while it is on its way, and Cleared *)
(* that a submission which is past the duplicate check is still right when *)
(* its row is created.  Lettered follows an application that no reschedule *)
(* may name: one submission deals with it, and it has its appointment      *)
(* before a letter is asked for, so what a worker read is what it prints.  *)
(* Reckoned says how old the count may be that a reschedule has read, and  *)
(* Spaced that a slot found free still is when it is given.                *)
(***************************************************************************)
EXTENDS Admissions, TLAPS, WellFoundedInduction, FiniteSetTheorems

Goroutines == Handlers \cup Workers

Snapshot == [op : Ops, app : Application, id : Apps \cup {NoChild},
             capacity : Capacities \cup {0}, at : Appointment,
             status : Statuses \cup {"none"}, again : BOOLEAN]

\* Steps after the row of the application exists.
AfterFiling == {"notify", "assign", "count", "book", "letter", "reschedule",
                "statusNotify", "render"}

\* Steps of a submission that may still give its application an appointment.
Unsettled == {"notify", "assign", "count", "book"}

\* What goroutine g holds in rec, filed being the applications there are.
Fit(g, rec, filed) ==
  /\ rec.op = "idle" => rec.id = NoChild
  /\ g \in Handlers => rec.op # "render"
  /\ g \in Handlers /\ rec.op # "idle" => g \in load.handlers
  /\ g \in Workers => rec.op \in {"idle", "render"}
  /\ rec.op \in {"duplicate", "create"} =>
       /\ rec.app.status = "PENDING" /\ rec.app.child \in Children /\ rec.app.at = Unset
       /\ rec.id = NoChild /\ ~rec.again
  /\ rec.op \in AfterFiling => rec.id \in filed
  /\ rec.op \in {"count", "book"} => rec.at.slot \in Slots
  /\ rec.again => rec.id \in load.reschedulable
  /\ rec.op = "reschedule" => rec.again
  /\ rec.op = "statusNotify" => rec.status \in Statuses

Working == \A g \in Goroutines : Fit(g, local[g], Filed)

IInv == TypeOK /\ Working

-----------------------------------------------------------------------------
(* A query with First and no order takes the row with the lowest id, and the *)
(* slots of a day have a first and a last: both by the well-foundedness of   *)
(* strict inclusion among finite sets.                                       *)

\* Among the parts that the members of a set of numbers cut off, one contains
\* no other.
LEMMA SmallestPart ==
  ASSUME NEW S \in SUBSET Nat, S # {},
         NEW part \in [S -> FiniteSubsetsOf(Nat)]
  PROVE  \E x \in S : \A y \in S : ~(part[y] \subseteq part[x] /\ part[y] # part[x])
<1> DEFINE T == {part[x] : x \in S}
           R == StrictSubsetOrdering(Nat)
           W == FiniteSubsetsOf(Nat)
<1>1. T \subseteq W /\ T # {}
  OBVIOUS
<1>2. IsWellFoundedOn(R, W)
  BY FS_StrictSubsetOrderingWellFounded
<1>3. ASSUME NEW x \in S, NEW y \in S, part[y] \subseteq part[x], part[y] # part[x]
      PROVE  <<part[y], part[x]>> \in R
  BY <1>3 DEF StrictSubsetOrdering, FiniteSubsetsOf
<1> HIDE DEF R, W, T
<1>4. PICK t \in T : \A u \in T : ~(<<u, t>> \in R)
  BY <1>1, <1>2, WFMin
<1>5. PICK x \in S : t = part[x]
  BY DEF T
<1>6. ASSUME NEW y \in S PROVE ~(part[y] \subseteq part[x] /\ part[y] # part[x])
  BY <1>3, <1>4, <1>5 DEF T
<1> QED BY <1>6

LEMMA LowestMember ==
  ASSUME NEW S \in SUBSET Nat, S # {}
  PROVE  Min(S) \in S
<1>1. PICK part : part = [x \in S |-> {n \in S : n < x}]
  OBVIOUS
<1>2. \A n \in S : n \in Nat
  OBVIOUS
<1>3. ASSUME NEW x \in S
      PROVE  part[x] \in SUBSET Nat /\ IsFiniteSet(part[x]) /\ part[x] = {n \in S : n < x}
  <2>1. x \in Nat /\ part[x] \in SUBSET Nat /\ part[x] = {n \in S : n < x}
    BY <1>1
  <2>2. part[x] \subseteq 0..x
    BY <2>1
  <2>3. IsFiniteSet(0..x)
    BY <2>1, FS_Interval
  <2> QED BY <2>1, <2>2, <2>3, FS_Subset
<1>4. part \in [S -> FiniteSubsetsOf(Nat)]
  BY <1>1, <1>3 DEF FiniteSubsetsOf
<1>5. \E x \in S : \A y \in S : ~(part[y] \subseteq part[x] /\ part[y] # part[x])
  BY <1>4, SmallestPart
<1>6. PICK x \in S : \A y \in S : ~(part[y] \subseteq part[x] /\ part[y] # part[x])
  BY <1>5
<1>7. ASSUME NEW y \in S, y < x PROVE FALSE
  <2>1. part[y] = {n \in S : n < y} /\ part[x] = {n \in S : n < x}
    BY <1>3
  <2>2. \A n \in S : n < y => n < x
    BY <1>2, <1>7
  <2>3. ~(y < y)
    BY <1>2
  <2> QED BY <1>6, <1>7, <2>1, <2>2, <2>3
<1>8. \A y \in S : x <= y
  BY <1>2, <1>7
<1> QED BY <1>8 DEF Min

LEMMA HighestMember ==
  ASSUME NEW S \in SUBSET Nat, S # {}, IsFiniteSet(S)
  PROVE  Max(S) \in S /\ \A x \in S : x <= Max(S)
<1>1. PICK part : part = [x \in S |-> {n \in S : n > x}]
  OBVIOUS
<1>2. \A n \in S : n \in Nat
  OBVIOUS
<1>3. ASSUME NEW x \in S
      PROVE  part[x] \in SUBSET Nat /\ IsFiniteSet(part[x]) /\ part[x] = {n \in S : n > x}
  BY <1>1, FS_Subset
<1>4. part \in [S -> FiniteSubsetsOf(Nat)]
  BY <1>1, <1>3 DEF FiniteSubsetsOf
<1>5. \E x \in S : \A y \in S : ~(part[y] \subseteq part[x] /\ part[y] # part[x])
  BY <1>4, SmallestPart
<1>6. PICK x \in S : \A y \in S : ~(part[y] \subseteq part[x] /\ part[y] # part[x])
  BY <1>5
<1>7. ASSUME NEW y \in S, y > x PROVE FALSE
  <2>1. part[y] = {n \in S : n > y} /\ part[x] = {n \in S : n > x}
    BY <1>3
  <2>2. \A n \in S : n > y => n > x
    BY <1>2, <1>7
  <2>3. ~(y > y)
    BY <1>2
  <2> QED BY <1>6, <1>7, <2>1, <2>2, <2>3
<1>8. \A y \in S : x >= y
  BY <1>2, <1>7
<1> QED BY <1>2, <1>8 DEF Max

\* A slot after which there is another gets that one; after the last comes the
\* first of the next day.
LEMMA NextSlotTyped ==
  ASSUME NEW at \in Appointment, at.slot \in Slots
  PROVE  NextSlot(at) \in Appointment /\ NextSlot(at).slot \in Slots
<1> USE AdmissionsAssumption
<1>1. Min(Slots) \in Slots /\ Max(Slots) \in Slots /\ \A s \in Slots : s <= Max(Slots)
  BY LowestMember, HighestMember
<1>2. CASE at.slot = Max(Slots)
  BY <1>1, <1>2 DEF NextSlot, Appointment
<1>3. CASE at.slot # Max(Slots)
  <2> DEFINE later == {s \in Slots : s > at.slot}
  <2>1. Max(Slots) \in later
    <3>1. at.slot \in Nat /\ Max(Slots) \in Nat /\ at.slot <= Max(Slots)
      BY <1>1
    <3> QED BY <1>1, <1>3, <3>1
  <2>2. Min(later) \in later
    BY <2>1, LowestMember
  <2> HIDE DEF later
  <2>3. NextSlot(at) = [at EXCEPT !.slot = Min(later)]
    BY <1>3 DEF NextSlot, later, Appointment
  <2>4. Min(later) \in Slots
    BY <2>2 DEF later
  <2> QED BY <2>3, <2>4 DEF Appointment
<1> QED BY <1>2, <1>3

-----------------------------------------------------------------------------
(* Facts about requests, snapshots and rows. *)

LEMMA LoadFacts ==
  ASSUME TypeOK
  PROVE  /\ load.handlers \subseteq Handlers /\ load.workers \subseteq Workers
         /\ load.children \subseteq Children /\ load.apps \subseteq Apps
         /\ IsFiniteSet(load.handlers)
BY AdmissionsAssumption DEF TypeOK

LEMMA RecordsTyped ==
  /\ Unset \in Appointment /\ NoApp \in Application /\ Idle \in Snapshot
  /\ Idle.op = "idle" /\ Idle.id = NoChild /\ Idle.again = FALSE /\ Idle.app = NoApp
  /\ NoApp.status = "none" /\ NoApp.at = Unset
<1>1. Unset \in Appointment
  BY DEF Unset, Appointment
<1>2. NoApp \in Application /\ NoApp.status = "none" /\ NoApp.at = Unset
  BY <1>1 DEF NoApp, Application, Statuses
<1>3. /\ Idle \in Snapshot /\ Idle.op = "idle" /\ Idle.id = NoChild
      /\ Idle.again = FALSE /\ Idle.app = NoApp
  BY <1>1, <1>2 DEF Idle, Snapshot, Ops, Statuses
<1> QED BY <1>1, <1>2, <1>3

LEMMA IdleFits == \A g, filed : Fit(g, Idle, filed)
BY RecordsTyped DEF Fit, AfterFiling

\* Applications are never unfiled, and what a goroutine holds stays right when
\* another moves.
LEMMA Moved ==
  ASSUME IInv, load' = load, Filed \subseteq Filed',
         NEW g \in Goroutines, NEW rec \in Snapshot, Goto(g, rec), Fit(g, rec, Filed')
  PROVE  /\ local' \in [Goroutines -> Snapshot] /\ Working'
         /\ local'[g] = rec /\ \A f \in Goroutines : f # g => local'[f] = local[f]
<1>1. /\ local' \in [Goroutines -> Snapshot] /\ local'[g] = rec
      /\ \A f \in Goroutines : f # g => local'[f] = local[f]
  BY DEF IInv, TypeOK, Goto, Goroutines, Snapshot
<1>2. ASSUME NEW f \in Goroutines PROVE Fit(f, local[f], Filed)'
  <2>1. CASE f = g
    BY <1>1, <2>1 DEF Fit
  <2>2. CASE f # g
    <3>1. local'[f] = local[f] /\ Fit(f, local[f], Filed)
      BY <1>1, <2>2 DEF IInv, Working
    <3> QED BY <3>1 DEF Fit
  <2> QED BY <2>1, <2>2
<1> QED BY <1>1, <1>2 DEF Working

\* An application that is written stays filed, or becomes so.
LEMMA Filing ==
  ASSUME IInv, NEW a \in Apps, NEW row \in Application, row.status # "none",
         apps' = [apps EXCEPT ![a] = row], letters' = letters
  PROVE  /\ apps' \in [Apps -> Application] /\ Filed' = Filed \cup {a}
         /\ apps'[a] = row /\ \A b \in Apps : b # a => apps'[b] = apps[b]
         /\ \A b \in Apps \ Filed' : apps'[b] = NoApp /\ letters'[b] = NoLetter
<1>1. /\ apps' \in [Apps -> Application] /\ apps'[a] = row
      /\ \A b \in Apps : b # a => apps'[b] = apps[b]
  BY DEF IInv, TypeOK
<1>2. Filed' = Filed \cup {a}
  BY <1>1 DEF Filed
<1> QED BY <1>1, <1>2 DEF IInv, TypeOK

\* What a goroutine reads of an application it keeps.
LEMMA FiledTyped ==
  ASSUME IInv, NEW a \in Filed
  PROVE  a \in Apps /\ apps[a] \in Application /\ apps[a].status \in Statuses
BY DEF IInv, TypeOK, Filed, Application

\* What the goroutine of a step holds.
LEMMA HolderFacts ==
  ASSUME IInv, NEW h \in Goroutines
  PROVE  /\ local[h] \in Snapshot /\ Fit(h, local[h], Filed)
         /\ local[h].op \in AfterFiling =>
              /\ local[h].id \in Filed /\ local[h].id \in Apps
              /\ apps[local[h].id] \in Application
              /\ apps[local[h].id].status \in Statuses
<1>1. local[h] \in Snapshot /\ Fit(h, local[h], Filed)
  BY DEF IInv, TypeOK, Working, Goroutines, Snapshot
<1> QED BY <1>1, FiledTyped DEF Fit

\* The steps that change nothing but what one goroutine is doing, and count a
\* fault perhaps.
LEMMA MoveIInv ==
  ASSUME IInv, NEW g \in Goroutines, NEW rec \in Snapshot, Goto(g, rec),
         Fit(g, rec, Filed), UNCHANGED faults \/ Fault,
         UNCHANGED <<load, now, windows, apps, notice, queue, letters, asked>>
  PROVE  IInv'
<1>1. Filed' = Filed
  BY DEF Filed
<1>2. local' \in [Goroutines -> Snapshot] /\ Working'
  BY <1>1, Moved
<1>3. faults' \in Nat
  BY DEF Fault, IInv, TypeOK
<1> QED BY <1>1, <1>2, <1>3 DEF IInv, TypeOK, Goroutines, Snapshot

-----------------------------------------------------------------------------
(* The invariant, action by action. *)

LEMMA InitIInv == Init => IInv
<1> SUFFICES ASSUME Init PROVE IInv
  OBVIOUS
<1> USE AdmissionsAssumption
<1>1. Filed = {}
  BY RecordsTyped DEF Init, Filed
<1>2. local \in [Goroutines -> Snapshot] /\ \A g \in Goroutines : local[g] = Idle
  BY RecordsTyped DEF Init, Goroutines
<1>3. letters \in [Apps -> [made : BOOLEAN, at : Appointment]]
  BY RecordsTyped DEF Init, NoLetter
<1>4. windows \in [Windows -> [divisions : SUBSET Divisions, capacity : Capacities \cup {0}]]
  BY DEF Init, NoWindow
<1>5. /\ load \in Loads /\ now \in Nat /\ apps \in [Apps -> Application]
      /\ notice \in [Apps -> Statuses \cup {"none"}] /\ queue \subseteq Filed
      /\ asked \in [Apps -> Nat] /\ faults \in Nat
  BY RecordsTyped DEF Init
<1>6. \A a \in Apps \ Filed : apps[a] = NoApp /\ letters[a] = NoLetter
  BY DEF Init
<1>7. TypeOK
  BY <1>2, <1>3, <1>4, <1>5, <1>6 DEF TypeOK, Goroutines, Snapshot
<1>8. Working
  BY <1>2, IdleFits DEF Working
<1> QED BY <1>7, <1>8 DEF IInv

\* Time and the windows are read, and kept by nobody but for a capacity.
LEMMA WindowsKept ==
  ASSUME IInv, UNCHANGED <<load, apps, notice, queue, letters, asked, local, faults>>,
         now' \in Nat,
         windows' \in [Windows -> [divisions : SUBSET Divisions, capacity : Capacities \cup {0}]]
  PROVE  IInv'
<1>1. Filed' = Filed
  BY DEF Filed
<1>2. TypeOK'
  BY <1>1 DEF IInv, TypeOK
<1>3. Working'
  BY <1>1 DEF IInv, Working, Fit
<1> QED BY <1>2, <1>3 DEF IInv

LEMMA TickIInv == IInv /\ Tick => IInv'
<1> SUFFICES ASSUME IInv, Tick PROVE IInv'
  OBVIOUS
<1>1. now' \in Nat
  BY DEF Tick, IInv, TypeOK
<1> QED BY <1>1, WindowsKept DEF Tick, IInv, TypeOK

LEMMA CreateWindowIInv ==
  ASSUME IInv, NEW h \in load.handlers, NEW divisions \in SUBSET Divisions \ {{}},
         NEW capacity \in Capacities, CreateAdmissionWindow(h, divisions, capacity)
  PROVE  IInv'
<1>1. windows' \in [Windows -> [divisions : SUBSET Divisions, capacity : Capacities \cup {0}]]
  BY DEF CreateAdmissionWindow, IInv, TypeOK
<1>2. UNCHANGED <<load, now, apps, notice, queue, letters, asked, local, faults>>
  BY DEF CreateAdmissionWindow
<1> QED BY <1>1, <1>2, WindowsKept DEF IInv, TypeOK

LEMMA CloseDateIInv ==
  ASSUME IInv, NEW w \in Windows, CloseDate(w)
  PROVE  IInv'
<1>1. windows' \in [Windows -> [divisions : SUBSET Divisions, capacity : Capacities \cup {0}]]
  BY DEF CloseDate, NoWindow, IInv, TypeOK
<1>2. UNCHANGED <<load, now, apps, notice, queue, letters, asked, local, faults>>
  BY DEF CloseDate
<1> QED BY <1>1, <1>2, WindowsKept DEF IInv, TypeOK

\* Nobody but g moves.
Others(g) == \A f \in Goroutines : f # g => local'[f] = local[f]

\* No application but a changes, and a keeps what it was filed with.
OnlyOf(a) ==
  /\ Filed' = Filed /\ apps'[a].child = apps[a].child
  /\ \A b \in Apps : b # a => apps'[b] = apps[b]

LEMMA SubmitIInv ==
  ASSUME IInv, NEW h \in load.handlers, NEW child \in load.children, NEW division \in Divisions,
         SubmitApplication_Check(h, child, division)
  PROVE  IInv' /\ Others(h) /\ local'[h].op = "duplicate"
<1> DEFINE capacity == windows[Min(Open)].capacity
           app == [NoApp EXCEPT !.child = child, !.division = division, !.status = "PENDING"]
           rec == [Idle EXCEPT !.op = "duplicate", !.app = app, !.capacity = capacity]
<1>1. capacity \in Capacities \cup {0}
  <2>1. Open # {} /\ Open \in SUBSET Nat
    BY AdmissionsAssumption DEF SubmitApplication_Check, IsAdmissionWindowOpen, Open
  <2>2. Min(Open) \in Windows
    BY <2>1, LowestMember DEF Open
  <2> QED BY <2>2 DEF IInv, TypeOK
<1>2. /\ Goto(h, rec)
      /\ UNCHANGED <<load, now, windows, apps, notice, queue, letters, asked, faults>>
  BY DEF SubmitApplication_Check
<1> HIDE DEF capacity
<1>3. Goto(h, rec)
  BY <1>2
<1>4. child \in Children /\ h \in Goroutines /\ h \in Handlers
  BY LoadFacts DEF IInv, Goroutines
<1>5. app \in Application /\ app.status = "PENDING" /\ app.child \in Children /\ app.at = Unset
  BY <1>4, RecordsTyped DEF Application, Statuses
<1> HIDE DEF app
<1>6. /\ rec \in Snapshot /\ rec.op = "duplicate" /\ rec.app = app /\ rec.id = NoChild
      /\ rec.again = FALSE
  BY <1>1, <1>5, RecordsTyped DEF Snapshot, Ops, Statuses
<1> HIDE DEF rec
<1>7. Fit(h, rec, Filed)
  BY <1>4, <1>5, <1>6, AdmissionsAssumption DEF Fit, AfterFiling
<1>8. IInv'
  BY <1>2, <1>3, <1>4, <1>6, <1>7, MoveIInv
<1>9. Filed' = Filed
  BY <1>2 DEF Filed
<1>10. local'[h] = rec /\ Others(h)
  BY <1>2, <1>3, <1>4, <1>6, <1>7, <1>9, Moved DEF Others
<1> QED BY <1>6, <1>8, <1>10

LEMMA DuplicateIInv ==
  ASSUME IInv, NEW h \in load.handlers, CheckDuplicate(h)
  PROVE  /\ IInv' /\ Others(h) /\ local'[h].op \in {"idle", "create"}
         /\ local'[h].op = "create" =>
              /\ local'[h].app = local[h].app
              /\ Duplicate(local[h].app.child) => Fault
<1> DEFINE next == [local[h] EXCEPT !.op = "create"]
<1>1. /\ local[h].op = "duplicate"
      /\ UNCHANGED <<load, now, windows, apps, notice, queue, letters, asked>>
      /\ \/ Goto(h, Idle) /\ UNCHANGED faults
         \/ Goto(h, next) /\ UNCHANGED faults /\ ~Duplicate(local[h].app.child)
         \/ Goto(h, next) /\ Fault
  BY Zenon DEF CheckDuplicate
<1>2. h \in Goroutines /\ h \in Handlers
  BY LoadFacts DEF IInv, Goroutines
<1>3. local[h] \in Snapshot /\ Fit(h, local[h], Filed)
  BY <1>2, HolderFacts
<1>4. /\ next \in Snapshot /\ next.op = "create" /\ next.app = local[h].app
      /\ next.id = local[h].id /\ next.again = local[h].again
  BY <1>3 DEF Snapshot, Ops
<1> HIDE DEF next
<1>5. Fit(h, next, Filed)
  BY <1>1, <1>2, <1>3, <1>4 DEF Fit, AfterFiling
<1>6. Filed' = Filed
  BY <1>1 DEF Filed
<1>7. CASE Goto(h, Idle) /\ UNCHANGED faults
  <2>1. IInv'
    BY <1>1, <1>2, <1>7, RecordsTyped, IdleFits, MoveIInv
  <2>2. local'[h] = Idle /\ Others(h)
    BY <1>1, <1>2, <1>6, <1>7, RecordsTyped, IdleFits, Moved DEF Others
  <2> QED BY <2>1, <2>2, RecordsTyped
<1>8. CASE /\ Goto(h, next) /\ (UNCHANGED faults \/ Fault)
           /\ Duplicate(local[h].app.child) => Fault
  <2>1. IInv'
    BY <1>1, <1>2, <1>4, <1>5, <1>8, MoveIInv
  <2>2. local'[h] = next /\ Others(h)
    BY <1>1, <1>2, <1>4, <1>5, <1>6, <1>8, Moved DEF Others
  <2> QED BY <1>4, <1>8, <2>1, <2>2
<1> QED BY <1>1, <1>7, <1>8

LEMMA CreateIInv ==
  ASSUME IInv, NEW h \in load.handlers, CreateApplication(h)
  PROVE  /\ IInv' /\ Others(h)
         /\ \/ apps' = apps /\ local'[h] = Idle
            \/ \E a \in Apps \ Filed :
                 /\ Filed' = Filed \cup {a} /\ apps'[a] = local[h].app
                 /\ \A b \in Apps : b # a => apps'[b] = apps[b]
                 /\ local'[h].op = "notify" /\ local'[h].id = a
<1>1. h \in Goroutines /\ h \in Handlers /\ load.apps \subseteq Apps
  BY LoadFacts DEF IInv, Goroutines
<1>2. /\ local[h].op = "create"
      /\ UNCHANGED <<load, now, windows, notice, queue, letters, asked>>
  BY DEF CreateApplication
<1>3. local[h] \in Snapshot /\ Fit(h, local[h], Filed)
  BY <1>1, HolderFacts
<1>4. CASE Fault /\ Goto(h, Idle) /\ UNCHANGED apps
  <2>1. IInv'
    BY <1>1, <1>2, <1>4, RecordsTyped, IdleFits, MoveIInv
  <2>2. Filed' = Filed
    BY <1>4 DEF Filed
  <2>3. local'[h] = Idle /\ Others(h)
    BY <1>1, <1>2, <1>4, <2>2, RecordsTyped, IdleFits, Moved DEF Others
  <2> QED BY <1>4, <2>1, <2>3
<1>5. ASSUME NEW a \in Apps \ Filed, apps' = [apps EXCEPT ![a] = local[h].app],
             Goto(h, [local[h] EXCEPT !.op = "notify", !.id = a]), UNCHANGED faults
      PROVE  /\ IInv' /\ Others(h) /\ Filed' = Filed \cup {a} /\ apps'[a] = local[h].app
             /\ \A b \in Apps : b # a => apps'[b] = apps[b]
             /\ local'[h].op = "notify" /\ local'[h].id = a
  <2> DEFINE rec == [local[h] EXCEPT !.op = "notify", !.id = a]
  <2>1. local[h].app \in Application /\ local[h].app.status = "PENDING" /\ ~local[h].again
    BY <1>2, <1>3 DEF Fit, Snapshot
  <2>2. /\ rec \in Snapshot /\ rec.op = "notify" /\ rec.id = a /\ rec.again = local[h].again
    BY <1>3 DEF Snapshot, Ops
  <2>3. Goto(h, rec)
    BY <1>5
  <2> HIDE DEF rec
  <2>4. /\ apps' \in [Apps -> Application] /\ Filed' = Filed \cup {a}
        /\ apps'[a] = local[h].app /\ \A b \in Apps : b # a => apps'[b] = apps[b]
        /\ \A b \in Apps \ Filed' : apps'[b] = NoApp /\ letters'[b] = NoLetter
    BY <1>2, <1>5, <2>1, Filing
  <2>5. Fit(h, rec, Filed')
    <3>1. h \in load.handlers /\ h \notin Workers
      BY <1>1, AdmissionsAssumption
    <3> QED BY <2>1, <2>2, <2>4, <3>1 DEF Fit, AfterFiling
  <2>6. /\ local' \in [Goroutines -> Snapshot] /\ Working' /\ local'[h] = rec /\ Others(h)
    BY <1>1, <1>2, <2>2, <2>3, <2>4, <2>5, Moved DEF Others
  <2>7. TypeOK'
    BY <1>2, <1>5, <2>4, <2>6 DEF IInv, TypeOK, Goroutines, Snapshot
  <2> QED BY <2>2, <2>4, <2>6, <2>7 DEF IInv
<1>6. \/ Fault /\ Goto(h, Idle) /\ UNCHANGED apps
      \/ \E a \in load.apps \ Filed :
           /\ apps' = [apps EXCEPT ![a] = local[h].app]
           /\ Goto(h, [local[h] EXCEPT !.op = "notify", !.id = a])
           /\ UNCHANGED faults
  BY DEF CreateApplication
<1> QED BY <1>1, <1>4, <1>5, <1>6

\* A notification that is sent, or fails.
LEMMA NotifyMoves ==
  ASSUME IInv, NEW g \in Goroutines, NEW rec \in Snapshot, Goto(g, rec),
         Fit(g, rec, Filed), UNCHANGED faults \/ Fault,
         notice' \in [Apps -> Statuses \cup {"none"}],
         UNCHANGED <<load, now, windows, apps, queue, letters, asked>>
  PROVE  IInv' /\ local'[g] = rec /\ Others(g)
<1>1. Filed' = Filed
  BY DEF Filed
<1>2. local' \in [Goroutines -> Snapshot] /\ Working' /\ local'[g] = rec /\ Others(g)
  BY <1>1, Moved DEF Others
<1>3. faults' \in Nat
  BY DEF Fault, IInv, TypeOK
<1>4. TypeOK'
  BY <1>1, <1>2, <1>3 DEF IInv, TypeOK, Goroutines, Snapshot
<1> QED BY <1>2, <1>4 DEF IInv

LEMMA NotifyIInv ==
  ASSUME IInv, NEW h \in load.handlers, CreateApplication_Notify(h)
  PROVE  /\ IInv' /\ Others(h)
         /\ local'[h].op = "assign" /\ local'[h].id = local[h].id
<1> DEFINE rec == [local[h] EXCEPT !.op = "assign"]
<1>1. /\ local[h].op = "notify" /\ Goto(h, rec)
      /\ UNCHANGED <<load, now, windows, apps, queue, letters, asked>>
      /\ \/ notice' = [notice EXCEPT ![local[h].id] = "PENDING"] /\ UNCHANGED faults
         \/ Fault /\ UNCHANGED notice
  BY DEF CreateApplication_Notify
<1>2. h \in Goroutines /\ h \in Handlers
  BY LoadFacts DEF IInv, Goroutines
<1>3. local[h] \in Snapshot /\ Fit(h, local[h], Filed)
  BY <1>2, HolderFacts
<1>4. notice' \in [Apps -> Statuses \cup {"none"}] /\ (UNCHANGED faults \/ Fault)
  BY <1>1 DEF Statuses, IInv, TypeOK
<1>5. /\ rec \in Snapshot /\ rec.op = "assign" /\ rec.id = local[h].id
      /\ rec.again = local[h].again
  BY <1>3 DEF Snapshot, Ops
<1> HIDE DEF rec
<1>6. Fit(h, rec, Filed)
  BY <1>1, <1>2, <1>3, <1>5 DEF Fit, AfterFiling
<1> QED BY <1>1, <1>2, <1>4, <1>5, <1>6, NotifyMoves

\* The steps that change nothing but what one goroutine is doing.
LEMMA Moves ==
  ASSUME IInv, NEW g \in Goroutines, NEW rec \in Snapshot, Goto(g, rec),
         Fit(g, rec, Filed), UNCHANGED faults \/ Fault,
         UNCHANGED <<load, now, windows, apps, notice, queue, letters, asked>>
  PROVE  IInv' /\ local'[g] = rec /\ Others(g)
<1>1. notice' \in [Apps -> Statuses \cup {"none"}]
  BY DEF IInv, TypeOK
<1> QED BY <1>1, NotifyMoves

LEMMA AssignIInv ==
  ASSUME IInv, NEW h \in load.handlers, AssignAppointmentSlot(h)
  PROVE  /\ IInv' /\ Others(h)
         /\ local'[h].op = "count" /\ local'[h].id = local[h].id
<1> DEFINE at == [date |-> now + 2 * TicksPerDay, slot |-> Min(Slots)]
           rec == [local[h] EXCEPT !.op = "count", !.at = at]
<1>1. /\ local[h].op = "assign" /\ Goto(h, rec)
      /\ UNCHANGED <<load, now, windows, apps, notice, queue, letters, asked, faults>>
  BY DEF AssignAppointmentSlot
<1>2. h \in Goroutines /\ h \in Handlers
  BY LoadFacts DEF IInv, Goroutines
<1>3. local[h] \in Snapshot /\ Fit(h, local[h], Filed)
  BY <1>2, HolderFacts
<1>4. at \in Appointment /\ at.slot \in Slots
  <2>1. now \in Nat /\ TicksPerDay \in Nat
    BY AdmissionsAssumption DEF IInv, TypeOK
  <2>2. now + 2 * TicksPerDay \in Nat
    BY <2>1
  <2>3. Min(Slots) \in Slots
    BY AdmissionsAssumption, LowestMember
  <2> QED BY <2>2, <2>3 DEF Appointment
<1> HIDE DEF at
<1>5. /\ rec \in Snapshot /\ rec.op = "count" /\ rec.id = local[h].id
      /\ rec.again = local[h].again /\ rec.at = at
  BY <1>3, <1>4 DEF Snapshot, Ops
<1> HIDE DEF rec
<1>6. Fit(h, rec, Filed)
  BY <1>1, <1>2, <1>3, <1>4, <1>5 DEF Fit, AfterFiling
<1> QED BY <1>1, <1>2, <1>5, <1>6, Moves

LEMMA CountIInv ==
  ASSUME IInv, NEW h \in load.handlers, AssignAppointmentSlot_Count(h)
  PROVE  /\ IInv' /\ Others(h)
         /\ local'[h].op \in {"count", "book"} /\ local'[h].id = local[h].id
<1> DEFINE book == [local[h] EXCEPT !.op = "book"]
           later == [local[h] EXCEPT !.at = NextSlot(@)]
<1>1. /\ local[h].op = "count"
      /\ UNCHANGED <<load, now, windows, apps, notice, queue, letters, asked>>
      /\ UNCHANGED faults \/ Fault
      /\ Goto(h, book) \/ Goto(h, later)
  BY Zenon DEF AssignAppointmentSlot_Count
<1>2. h \in Goroutines /\ h \in Handlers
  BY LoadFacts DEF IInv, Goroutines
<1>3. local[h] \in Snapshot /\ Fit(h, local[h], Filed)
  BY <1>2, HolderFacts
<1>4. /\ book \in Snapshot /\ book.op = "book" /\ book.id = local[h].id
      /\ book.again = local[h].again /\ book.at = local[h].at
  BY <1>3 DEF Snapshot, Ops
<1>5. /\ later \in Snapshot /\ later.op = "count" /\ later.id = local[h].id
      /\ later.again = local[h].again /\ later.at.slot \in Slots
  <2>1. local[h].at \in Appointment /\ local[h].at.slot \in Slots
    BY <1>1, <1>3 DEF Fit, Snapshot
  <2>2. PICK at \in Appointment : at = NextSlot(local[h].at) /\ at.slot \in Slots
    BY <2>1, NextSlotTyped
  <2>3. later = [local[h] EXCEPT !.at = at]
    BY <1>3, <2>2 DEF Snapshot
  <2> HIDE DEF later
  <2> QED BY <1>1, <1>3, <2>2, <2>3 DEF Snapshot
<1> HIDE DEF book, later
<1>6. Fit(h, book, Filed) /\ Fit(h, later, Filed)
  BY <1>1, <1>2, <1>3, <1>4, <1>5 DEF Fit, AfterFiling
<1>7. CASE Goto(h, book)
  BY <1>1, <1>2, <1>4, <1>6, <1>7, Moves
<1>8. CASE Goto(h, later)
  BY <1>1, <1>2, <1>5, <1>6, <1>8, Moves
<1> QED BY <1>1, <1>7, <1>8

\* One application is updated, and the goroutine goes on.
LEMMA Updates ==
  ASSUME IInv, NEW g \in Goroutines, NEW rec \in Snapshot, Goto(g, rec), Fit(g, rec, Filed),
         NEW a \in Filed, NEW row \in Application,
         row.status \in Statuses, row.child = apps[a].child,
         apps' = [apps EXCEPT ![a] = row], asked' \in [Apps -> Nat],
         UNCHANGED faults,
         UNCHANGED <<load, now, windows, notice, queue, letters>>
  PROVE  IInv' /\ local'[g] = rec /\ Others(g) /\ OnlyOf(a) /\ apps'[a] = row
<1>1. a \in Apps /\ row.status # "none"
  BY DEF Filed, Statuses
<1>2. /\ apps' \in [Apps -> Application] /\ Filed' = Filed
      /\ apps'[a] = row /\ \A b \in Apps : b # a => apps'[b] = apps[b]
      /\ \A b \in Apps \ Filed' : apps'[b] = NoApp /\ letters'[b] = NoLetter
  <2>1. letters' = letters /\ Filed \cup {a} = Filed
    OBVIOUS
  <2> QED BY <1>1, <2>1, Filing
<1>3. local' \in [Goroutines -> Snapshot] /\ Working' /\ local'[g] = rec /\ Others(g)
  BY <1>2, Moved DEF Others
<1>4. TypeOK'
  BY <1>2, <1>3 DEF IInv, TypeOK, Goroutines, Snapshot
<1> QED BY <1>2, <1>3, <1>4 DEF IInv, OnlyOf

LEMMA BookIInv ==
  ASSUME IInv, NEW h \in load.handlers, AssignAppointmentSlot_Book(h)
  PROVE  /\ IInv' /\ Others(h)
         /\ local[h].op = "book" /\ local[h].id \in Filed
         /\ apps' = apps \/ OnlyOf(local[h].id)
         /\ \/ local'[h] = Idle
            \/ local'[h].op \in {"letter", "reschedule"} /\ local'[h].id = local[h].id
<1> DEFINE a == local[h].id
           row == [apps[a] EXCEPT !.at = local[h].at]
           next == [local[h] EXCEPT !.op = IF local[h].again THEN "reschedule" ELSE "letter"]
<1>1. /\ local[h].op = "book"
      /\ UNCHANGED <<load, now, windows, notice, queue, letters, asked>>
      /\ \/ /\ apps' = [apps EXCEPT ![a].at = local[h].at]
            /\ Goto(h, next) /\ UNCHANGED faults
         \/ Fault /\ Goto(h, IF local[h].again THEN Idle ELSE next) /\ UNCHANGED apps
  BY DEF AssignAppointmentSlot_Book
<1>2. h \in Goroutines /\ h \in Handlers
  BY LoadFacts DEF IInv, Goroutines
<1>3. /\ local[h] \in Snapshot /\ Fit(h, local[h], Filed) /\ local[h].at \in Appointment
      /\ a \in Filed /\ a \in Apps /\ apps[a] \in Application /\ apps[a].status \in Statuses
  <2>1. "book" \in AfterFiling
    BY DEF AfterFiling
  <2> QED BY <1>1, <1>2, <2>1, HolderFacts DEF Snapshot
<1>4. /\ next \in Snapshot /\ next.op \in {"reschedule", "letter"} /\ next.id = a
      /\ next.again = local[h].again /\ (next.op = "reschedule" => local[h].again)
  BY <1>3 DEF Snapshot, Ops
<1> HIDE DEF next
<1>5. Fit(h, next, Filed)
  BY <1>1, <1>2, <1>3, <1>4 DEF Fit, AfterFiling
<1>6. CASE /\ apps' = [apps EXCEPT ![a].at = local[h].at]
           /\ Goto(h, next) /\ UNCHANGED faults
  <2>1. row \in Application /\ row.status \in Statuses /\ row.child = apps[a].child
    BY <1>3 DEF Application
  <2>2. apps' = [apps EXCEPT ![a] = row]
    BY <1>6
  <2>3. asked' \in [Apps -> Nat]
    BY <1>1 DEF IInv, TypeOK
  <2> HIDE DEF row
  <2>4. PICK b \in Filed : b = local[h].id
    BY <1>3
  <2>5. /\ row.child = apps[b].child /\ apps' = [apps EXCEPT ![b] = row]
        /\ UNCHANGED <<load, now, windows, notice, queue, letters>> /\ UNCHANGED faults
        /\ Goto(h, next)
    BY <1>1, <1>6, <2>1, <2>2, <2>4
  <2>6. IInv' /\ local'[h] = next /\ Others(h) /\ OnlyOf(b)
    BY <1>2, <1>4, <1>5, <2>1, <2>3, <2>5, Updates
  <2> QED BY <1>1, <1>3, <1>4, <2>4, <2>6
<1>7. CASE Fault /\ Goto(h, IF local[h].again THEN Idle ELSE next) /\ UNCHANGED apps
  <2>1. CASE local[h].again
    BY <1>1, <1>2, <1>3, <1>7, <2>1, RecordsTyped, IdleFits, Moves
  <2>2. CASE ~local[h].again
    BY <1>1, <1>2, <1>3, <1>4, <1>5, <1>7, <2>2, Moves
  <2> QED BY <2>1, <2>2
<1> QED BY <1>1, <1>6, <1>7

\* The queue and the letters change, and no application.
LEMMA QueueMoves ==
  ASSUME IInv, NEW g \in Goroutines, NEW rec \in Snapshot, Goto(g, rec), Fit(g, rec, Filed),
         queue' \subseteq Filed, UNCHANGED faults \/ Fault,
         letters' \in [Apps -> [made : BOOLEAN, at : Appointment]],
         \A a \in Apps \ Filed : letters'[a] = letters[a],
         UNCHANGED <<load, now, windows, apps, notice, asked>>
  PROVE  IInv' /\ local'[g] = rec /\ Others(g)
<1>1. Filed' = Filed
  BY DEF Filed
<1>2. local' \in [Goroutines -> Snapshot] /\ Working' /\ local'[g] = rec /\ Others(g)
  BY <1>1, Moved DEF Others
<1>3. faults' \in Nat
  BY DEF Fault, IInv, TypeOK
<1>4. TypeOK'
  BY <1>1, <1>2, <1>3 DEF IInv, TypeOK, Goroutines, Snapshot
<1> QED BY <1>2, <1>4 DEF IInv

LEMMA EnqueueIInv ==
  ASSUME IInv, NEW h \in load.handlers, SubmitApplication_Enqueue(h)
  PROVE  IInv' /\ Others(h) /\ local'[h] = Idle
<1>1. /\ local[h].op = "letter" /\ Goto(h, Idle) /\ queue' \subseteq queue \cup {local[h].id}
      /\ UNCHANGED faults \/ Fault
      /\ UNCHANGED <<load, now, windows, apps, notice, letters, asked>>
  BY DEF SubmitApplication_Enqueue
<1>2. h \in Goroutines
  BY LoadFacts DEF IInv, Goroutines
<1>3. local[h].id \in Filed
  <2>1. "letter" \in AfterFiling
    BY DEF AfterFiling
  <2> QED BY <1>1, <1>2, <2>1, HolderFacts
<1>4. /\ queue' \subseteq Filed /\ letters' \in [Apps -> [made : BOOLEAN, at : Appointment]]
      /\ \A a \in Apps \ Filed : letters'[a] = letters[a]
  BY <1>1, <1>3 DEF IInv, TypeOK
<1> QED BY <1>1, <1>2, <1>4, RecordsTyped, IdleFits, QueueMoves

LEMMA RescheduleReadIInv ==
  ASSUME IInv, NEW h \in load.handlers, NEW a \in Filed, RescheduleAppointment_Read(h, a)
  PROVE  /\ IInv' /\ Others(h) /\ a \in load.reschedulable
         /\ local'[h].op = "assign" /\ local'[h].id = a
<1> DEFINE capacity == windows[Min(Open)].capacity
           rec == [Idle EXCEPT !.op = "assign", !.app = apps[a], !.id = a, !.again = TRUE,
                               !.capacity = capacity]
<1>1. capacity \in Capacities \cup {0}
  <2>1. Open # {} /\ Open \in SUBSET Nat
    BY AdmissionsAssumption DEF RescheduleAppointment_Read, IsAdmissionWindowOpen, Open
  <2>2. Min(Open) \in Windows
    BY <2>1, LowestMember DEF Open
  <2> QED BY <2>2 DEF IInv, TypeOK
<1>2. /\ a \in load.reschedulable /\ Goto(h, rec)
      /\ UNCHANGED <<load, now, windows, apps, notice, queue, letters, asked, faults>>
  BY DEF RescheduleAppointment_Read
<1> HIDE DEF capacity
<1>3. h \in Goroutines /\ h \in Handlers
  BY LoadFacts DEF IInv, Goroutines
<1>4. /\ rec \in Snapshot /\ rec.op = "assign" /\ rec.id = a /\ rec.again = TRUE
  BY <1>1, FiledTyped, RecordsTyped DEF Snapshot, Ops
<1> HIDE DEF rec
<1>5. Fit(h, rec, Filed)
  BY <1>2, <1>3, <1>4, AdmissionsAssumption DEF Fit, AfterFiling
<1> QED BY <1>2, <1>3, <1>4, <1>5, Moves

LEMMA RescheduleCountIInv ==
  ASSUME IInv, NEW h \in load.handlers, RescheduleAppointment_Count(h)
  PROVE  /\ IInv' /\ Others(h) /\ local'[h] = Idle
         /\ Filed' = Filed
         /\ \A b \in Apps : apps'[b].child = apps[b].child /\ apps'[b].at = apps[b].at
<1>1. /\ local[h].op = "reschedule" /\ Goto(h, Idle)
      /\ asked' = [asked EXCEPT ![local[h].id] = @ + 1]
      /\ UNCHANGED <<load, now, windows, notice, queue, letters>>
      /\ \/ /\ apps' = [apps EXCEPT ![local[h].id].reschedules = NextCount(local[h].app)]
            /\ UNCHANGED faults
         \/ Fault /\ UNCHANGED apps
  BY DEF RescheduleAppointment_Count
<1>2. h \in Goroutines
  BY LoadFacts DEF IInv, Goroutines
<1>3. /\ local[h] \in Snapshot /\ local[h].id \in Filed /\ local[h].id \in Apps
      /\ apps[local[h].id] \in Application /\ apps[local[h].id].status \in Statuses
  <2>1. "reschedule" \in AfterFiling
    BY DEF AfterFiling
  <2> QED BY <1>1, <1>2, <2>1, HolderFacts
<1>4. asked' \in [Apps -> Nat]
  <2>1. asked \in [Apps -> Nat] /\ asked[local[h].id] + 1 \in Nat
    BY <1>3 DEF IInv, TypeOK
  <2>2. asked' = [asked EXCEPT ![local[h].id] = asked[local[h].id] + 1]
    BY <1>1
  <2> QED BY <2>1, <2>2
<1>5. NextCount(local[h].app) \in Nat
  BY <1>3 DEF NextCount, Snapshot, Application
<1>6. CASE /\ apps' = [apps EXCEPT ![local[h].id].reschedules = NextCount(local[h].app)]
           /\ UNCHANGED faults
  <2>1. PICK a \in Filed, n \in Nat : a = local[h].id /\ n = NextCount(local[h].app)
    BY <1>3, <1>5
  <2> DEFINE row == [apps[a] EXCEPT !.reschedules = n]
  <2>2. /\ row \in Application /\ row.status \in Statuses
        /\ row.child = apps[a].child /\ row.at = apps[a].at
    BY <1>3, <2>1 DEF Application
  <2>3. apps' = [apps EXCEPT ![a] = row] /\ UNCHANGED faults
    BY <1>6, <2>1
  <2> HIDE DEF row
  <2>4. /\ UNCHANGED <<load, now, windows, notice, queue, letters>> /\ Goto(h, Idle)
        /\ Idle \in Snapshot /\ Fit(h, Idle, Filed)
    BY <1>1, RecordsTyped, IdleFits
  <2>5. IInv' /\ local'[h] = Idle /\ Others(h) /\ OnlyOf(a) /\ apps'[a] = row
    BY <1>2, <1>4, <2>2, <2>3, <2>4, Updates
  <2> QED BY <2>2, <2>5 DEF OnlyOf
<1>7. CASE Fault /\ UNCHANGED apps
  <2>1. Filed' = Filed
    BY <1>7 DEF Filed
  <2>2. local' \in [Goroutines -> Snapshot] /\ Working' /\ local'[h] = Idle /\ Others(h)
    BY <1>1, <1>2, <2>1, RecordsTyped, IdleFits, Moved DEF Others
  <2>3. faults' \in Nat
    BY <1>7 DEF Fault, IInv, TypeOK
  <2>4. TypeOK'
    BY <1>1, <1>4, <1>7, <2>1, <2>2, <2>3 DEF IInv, TypeOK, Goroutines, Snapshot
  <2> QED BY <1>7, <2>1, <2>2, <2>4 DEF IInv
<1> QED BY <1>1, <1>6, <1>7

LEMMA StatusIInv ==
  ASSUME IInv, NEW h \in load.handlers, NEW a \in Filed, NEW status \in Statuses,
         UpdateStatus(h, a, status)
  PROVE  /\ IInv' /\ Others(h) /\ local'[h].op \in {"idle", "statusNotify"}
         /\ Filed' = Filed
         /\ \A b \in Apps : apps'[b].child = apps[b].child /\ apps'[b].at = apps[b].at
<1> DEFINE row == [apps[a] EXCEPT !.status = status]
           next == [Idle EXCEPT !.op = "statusNotify", !.app = apps[a], !.id = a, !.status = status]
           rec == IF status = "PENDING" THEN Idle ELSE next
<1>1. /\ apps' = [apps EXCEPT ![a] = row] /\ Goto(h, rec)
      /\ UNCHANGED <<load, now, windows, notice, queue, letters>>
      /\ UNCHANGED faults /\ UNCHANGED asked
  BY DEF UpdateStatus
<1>2. h \in Goroutines /\ h \in Handlers
  BY LoadFacts DEF IInv, Goroutines
<1>3. /\ row \in Application /\ row.status \in Statuses
      /\ row.child = apps[a].child /\ row.at = apps[a].at
  BY FiledTyped DEF Application
<1>4. next \in Snapshot /\ next.op = "statusNotify" /\ next.id = a /\ next.again = FALSE
      /\ next.status = status
  BY FiledTyped, RecordsTyped DEF Snapshot, Ops
<1> HIDE DEF row, next
<1>5. Fit(h, next, Filed)
  BY <1>2, <1>4, AdmissionsAssumption DEF Fit, AfterFiling
<1>6. rec \in Snapshot /\ Fit(h, rec, Filed) /\ rec.op \in {"idle", "statusNotify"}
  BY <1>4, <1>5, RecordsTyped, IdleFits
<1> HIDE DEF rec
<1>7. asked' \in [Apps -> Nat]
  BY <1>1 DEF IInv, TypeOK
<1>8. IInv' /\ local'[h] = rec /\ Others(h) /\ OnlyOf(a) /\ apps'[a] = row
  BY <1>1, <1>2, <1>3, <1>6, <1>7, Updates
<1> QED BY <1>3, <1>6, <1>8 DEF OnlyOf

LEMMA OverrideIInv ==
  ASSUME IInv, NEW h \in load.handlers, NEW a \in Filed, OverrideAdmission(h, a)
  PROVE  /\ IInv' /\ local' = local /\ Filed' = Filed
         /\ \A b \in Apps : apps'[b].child = apps[b].child /\ apps'[b].at = apps[b].at
<1>1. PICK status \in {"ACCEPTED", "DECLINED"} : apps' = [apps EXCEPT ![a].status = status]
  BY DEF OverrideAdmission
<1>2. UNCHANGED <<load, now, windows, notice, queue, letters, asked, local, faults>>
  BY DEF OverrideAdmission
<1> DEFINE row == [apps[a] EXCEPT !.status = status]
<1>3. /\ row \in Application /\ row.status \in Statuses /\ row.status # "none"
      /\ row.child = apps[a].child /\ row.at = apps[a].at
  BY FiledTyped DEF Application, Statuses
<1>4. apps' = [apps EXCEPT ![a] = row] /\ letters' = letters /\ a \in Apps
  BY <1>1, <1>2, FiledTyped
<1> HIDE DEF row
<1>5. /\ apps' \in [Apps -> Application] /\ Filed' = Filed \cup {a}
      /\ apps'[a] = row /\ \A b \in Apps : b # a => apps'[b] = apps[b]
      /\ \A b \in Apps \ Filed' : apps'[b] = NoApp /\ letters'[b] = NoLetter
  BY <1>3, <1>4, Filing
<1>6. Filed' = Filed
  BY <1>5
<1>7. TypeOK'
  BY <1>2, <1>5, <1>6 DEF IInv, TypeOK
<1>8. Working'
  BY <1>2, <1>6 DEF IInv, Working, Fit
<1> QED BY <1>2, <1>3, <1>5, <1>6, <1>7, <1>8 DEF IInv

LEMMA StatusNotifyIInv ==
  ASSUME IInv, NEW h \in load.handlers, UpdateStatus_Notify(h)
  PROVE  IInv' /\ Others(h) /\ local'[h] = Idle
<1>1. /\ local[h].op = "statusNotify" /\ Goto(h, Idle)
      /\ UNCHANGED <<load, now, windows, apps, queue, letters, asked>>
      /\ \/ notice' = [notice EXCEPT ![local[h].id] = NoticeOf(h)] /\ UNCHANGED faults
         \/ Fault /\ UNCHANGED notice
  BY DEF UpdateStatus_Notify
<1>2. h \in Goroutines
  BY LoadFacts DEF IInv, Goroutines
<1>3. local[h].status \in Statuses
  BY <1>1, <1>2, HolderFacts DEF Fit
<1>4. notice' \in [Apps -> Statuses \cup {"none"}] /\ (UNCHANGED faults \/ Fault)
  BY <1>1, <1>3 DEF NoticeOf, IInv, TypeOK
<1> QED BY <1>1, <1>2, <1>4, RecordsTyped, IdleFits, NotifyMoves

LEMMA RenderReadIInv ==
  ASSUME IInv, NEW w \in load.workers, NEW a \in Apps, HandleGenerateAppointmentLetter_Read(w, a)
  PROVE  /\ IInv' /\ Others(w) /\ a \in queue
         /\ local'[w].op = "render" /\ local'[w].id = a /\ local'[w].app = apps[a]
<1> DEFINE rec == [Idle EXCEPT !.op = "render", !.app = apps[a], !.id = a]
<1>1. /\ a \in queue /\ Goto(w, rec)
      /\ UNCHANGED <<load, now, windows, apps, notice, queue, letters, asked, faults>>
  BY DEF HandleGenerateAppointmentLetter_Read
<1>2. w \in Goroutines /\ w \in Workers /\ a \in Filed
  BY <1>1, LoadFacts DEF IInv, TypeOK, Goroutines
<1>3. /\ rec \in Snapshot /\ rec.op = "render" /\ rec.id = a /\ rec.again = FALSE
      /\ rec.app = apps[a]
  BY <1>2, FiledTyped, RecordsTyped DEF Snapshot, Ops
<1> HIDE DEF rec
<1>4. Fit(w, rec, Filed)
  BY <1>2, <1>3, AdmissionsAssumption DEF Fit, AfterFiling
<1> QED BY <1>1, <1>2, <1>3, <1>4, Moves

LEMMA RenderWriteIInv ==
  ASSUME IInv, NEW w \in load.workers, HandleGenerateAppointmentLetter_Write(w)
  PROVE  /\ IInv' /\ Others(w) /\ local[w].op = "render" /\ local'[w] = Idle
         /\ queue' \subseteq queue /\ apps' = apps
         /\ \A a \in Apps : letters'[a] # letters[a] =>
              a = local[w].id /\ letters'[a].at = local[w].app.at
<1> DEFINE a == local[w].id
           letter == [made |-> TRUE, at |-> local[w].app.at]
<1>1. /\ local[w].op = "render" /\ Goto(w, Idle) /\ queue' \subseteq queue
      /\ UNCHANGED faults \/ Fault
      /\ letters' = letters \/ letters' = [letters EXCEPT ![a] = letter]
      /\ UNCHANGED <<load, now, windows, apps, notice, asked>>
  BY DEF HandleGenerateAppointmentLetter_Write
<1>2. w \in Goroutines
  BY LoadFacts DEF IInv, Goroutines
<1>3. a \in Filed /\ local[w].app.at \in Appointment
  <2>1. "render" \in AfterFiling
    BY DEF AfterFiling
  <2> QED BY <1>1, <1>2, <2>1, HolderFacts DEF Snapshot, Application
<1>4. letter \in [made : BOOLEAN, at : Appointment] /\ letter.at = local[w].app.at
  BY <1>3
<1> HIDE DEF letter, a
<1>5. /\ letters' \in [Apps -> [made : BOOLEAN, at : Appointment]]
      /\ \A b \in Apps : letters'[b] # letters[b] => b = a /\ letters'[b] = letter
  BY <1>1, <1>4 DEF IInv, TypeOK
<1>6. /\ queue' \subseteq Filed /\ \A b \in Apps \ Filed : letters'[b] = letters[b]
  BY <1>1, <1>3, <1>5 DEF IInv, TypeOK
<1>7. IInv' /\ local'[w] = Idle /\ Others(w)
  BY <1>1, <1>2, <1>5, <1>6, RecordsTyped, IdleFits, QueueMoves
<1> QED BY <1>1, <1>4, <1>5, <1>7 DEF a

LEMMA StepIInv == IInv /\ [Next]_vars => IInv'
<1> SUFFICES ASSUME IInv, [Next]_vars PROVE IInv'
  OBVIOUS
<1>1. CASE UNCHANGED vars
  BY <1>1, WindowsKept DEF vars, IInv, TypeOK
<1> QED
  BY <1>1, TickIInv, CloseDateIInv, CreateWindowIInv, SubmitIInv, DuplicateIInv, CreateIInv,
     NotifyIInv, AssignIInv, CountIInv, BookIInv, EnqueueIInv, RescheduleReadIInv,
     RescheduleCountIInv, StatusIInv, OverrideIInv, StatusNotifyIInv, RenderReadIInv,
     RenderWriteIInv, Zenon DEF Next

LEMMA AlwaysIInv == Spec => []IInv
BY InitIInv, StepIInv, PTL DEF Spec

\* Applications, notices, letters and what is queued or held have their types,
\* and nobody deals with an application that was never filed, whatever
\* overlaps or fails (handlers/admissions.go:92-262, services/admissions.go).
THEOREM TypeCorrect == Spec => []TypeOK
<1>1. IInv => TypeOK
  BY DEF IInv
<1> QED BY <1>1, AlwaysIInv, PTL

-----------------------------------------------------------------------------
(* One application for a child. *)

\* The child that a submission is about to file has no application and is not
\* enrolled, nor has any child two.
Clear ==
  /\ \A a \in Filed : apps[a].child \notin Enrolled
  /\ \A a, b \in Filed : apps[a].child = apps[b].child => a = b
  /\ \A h \in Handlers : local[h].op = "create" => ~Duplicate(local[h].app.child)

Cleared == Serial => Clear

\* A step with failures, or after one, is not serial.
LEMMA SerialBefore ==
  ASSUME IInv, [Next]_vars, Serial'
  PROVE  Serial /\ load' = load /\ ~Fault
<1>1. load' = load /\ (faults' = faults \/ Fault)
  <2>1. CASE UNCHANGED vars
    BY <2>1 DEF vars
  <2>2. CASE Next
    BY <2>2, ZenonT(60)
       DEF Next, Tick, CloseDate, CreateAdmissionWindow, SubmitApplication_Check, CheckDuplicate,
           CreateApplication, CreateApplication_Notify, AssignAppointmentSlot,
           AssignAppointmentSlot_Count, AssignAppointmentSlot_Book, SubmitApplication_Enqueue,
           RescheduleAppointment_Read, RescheduleAppointment_Count, UpdateStatus,
           OverrideAdmission, UpdateStatus_Notify, HandleGenerateAppointmentLetter_Read,
           HandleGenerateAppointmentLetter_Write
  <2> QED BY <2>1, <2>2
<1>2. faults \in Nat /\ faults' = 0
  BY DEF IInv, TypeOK, Serial
<1> QED BY <1>1, <1>2 DEF Serial, Fault

LEMMA OneHandler ==
  ASSUME TypeOK, Serial, NEW g \in load.handlers, NEW h \in load.handlers
  PROVE  g = h
<1>1. IsFiniteSet(load.handlers) /\ Cardinality(load.handlers) = 1
  BY LoadFacts DEF Serial
<1>2. PICK x : load.handlers = {x}
  BY <1>1, FS_Singleton
<1> QED BY <1>2

\* The steps that file nothing keep who has an application.
LEMMA KeepsClear ==
  ASSUME IInv, Clear, Filed' = Filed, \A a \in Apps : apps'[a].child = apps[a].child,
         \A g \in Handlers : local'[g].op = "create" =>
           \/ local'[g] = local[g]
           \/ ~Duplicate(local'[g].app.child)
  PROVE  Clear'
<1>1. Filed \subseteq Apps
  BY DEF Filed
<1>2. ASSUME NEW child PROVE Duplicate(child)' <=> Duplicate(child)
  BY <1>1 DEF Duplicate
<1>3. ASSUME NEW g \in Handlers, local'[g].op = "create"
      PROVE  ~Duplicate(local[g].app.child)'
  <2>1. ~Duplicate(local'[g].app.child)
    BY <1>3 DEF Clear
  <2> QED BY <1>1, <2>1 DEF Duplicate
<1> QED BY <1>1, <1>3 DEF Clear

\* The same, of a step of goroutine g to something else than a creation.
LEMMA MovesClear ==
  ASSUME IInv, Clear, NEW g, local'[g].op # "create", Others(g),
         Filed' = Filed, \A a \in Apps : apps'[a].child = apps[a].child
  PROVE  Clear'
<1>1. \A f \in Handlers : local'[f].op = "create" => local'[f] = local[f]
  BY DEF Others, Goroutines
<1> QED BY <1>1, KeepsClear

\* The row is created of a child that had none, and the only handler goes on.
LEMMA CreateClear ==
  ASSUME IInv, Serial, Clear, NEW h \in load.handlers, CreateApplication(h)
  PROVE  Clear'
<1>1. h \in Handlers /\ load.handlers \subseteq Handlers /\ local[h].op = "create"
  BY LoadFacts DEF IInv, CreateApplication
<1>2. IInv' /\ Others(h)
  BY CreateIInv
<1>3. CASE apps' = apps /\ local'[h] = Idle
  BY <1>2, <1>3, RecordsTyped, MovesClear DEF Filed
<1>4. ASSUME NEW a \in Apps \ Filed,
             Filed' = Filed \cup {a}, apps'[a] = local[h].app,
             \A b \in Apps : b # a => apps'[b] = apps[b],
             local'[h].op = "notify"
      PROVE  Clear'
  <2>1. \A b \in Filed : b \in Apps /\ apps'[b] = apps[b]
    BY <1>4 DEF Filed
  <2>2. ~Duplicate(local[h].app.child)
    BY <1>1 DEF Clear
  <2>3. ASSUME NEW g \in Handlers PROVE local'[g].op # "create"
    <3>1. CASE g = h
      BY <1>4, <3>1
    <3>2. CASE g # h /\ g \in load.handlers
      BY <3>2, OneHandler DEF IInv
    <3>3. CASE g # h /\ g \notin load.handlers
      <4>1. local'[g] = local[g] /\ local[g].op = "idle"
        BY <1>2, <3>3, HolderFacts DEF Others, Goroutines, Fit
      <4> QED BY <4>1
    <3> QED BY <3>1, <3>2, <3>3
  <2> QED BY <1>4, <2>1, <2>2, <2>3 DEF Clear, Duplicate
<1> QED BY <1>3, <1>4, CreateIInv

\* Steps that touch no application and take nobody to a creation.
LEMMA QuietClear ==
  ASSUME IInv, Clear, NEW g, local'[g].op # "create", Others(g), apps' = apps
  PROVE  Clear'
<1>1. Filed' = Filed /\ \A a \in Apps : apps'[a].child = apps[a].child
  BY DEF Filed
<1> QED BY <1>1, MovesClear

LEMMA UnmovedClear ==
  ASSUME IInv, Clear, local' = local, Filed' = Filed,
         \A a \in Apps : apps'[a].child = apps[a].child
  PROVE  Clear'
BY KeepsClear

LEMMA StepCleared == IInv /\ Cleared /\ [Next]_vars => Cleared'
<1> SUFFICES ASSUME IInv, Cleared, [Next]_vars, Serial' PROVE Clear'
  BY DEF Cleared
<1>1. Serial /\ Clear /\ ~Fault
  BY SerialBefore DEF Cleared
<1>2. ASSUME local' = local, apps' = apps PROVE Clear'
  BY <1>1, <1>2, UnmovedClear DEF Filed
<1>3. CASE UNCHANGED vars
  BY <1>2, <1>3 DEF vars
<1>4. CASE Tick
  BY <1>2, <1>4 DEF Tick
<1>5. ASSUME NEW w \in Windows, CloseDate(w) PROVE Clear'
  BY <1>2, <1>5 DEF CloseDate
<1>6. ASSUME NEW h \in load.handlers, NEW divisions, NEW capacity,
             CreateAdmissionWindow(h, divisions, capacity)
      PROVE  Clear'
  BY <1>2, <1>6 DEF CreateAdmissionWindow
<1>7. ASSUME NEW h \in load.handlers, NEW child \in load.children, NEW division \in Divisions,
             SubmitApplication_Check(h, child, division)
      PROVE  Clear'
  BY <1>1, <1>7, SubmitIInv, QuietClear DEF SubmitApplication_Check
<1>8. ASSUME NEW h \in load.handlers, CheckDuplicate(h) PROVE Clear'
  <2>1. /\ Others(h) /\ local'[h].op \in {"idle", "create"}
        /\ local'[h].op = "create" => ~Duplicate(local'[h].app.child)
    BY <1>1, <1>8, DuplicateIInv
  <2>2. apps' = apps /\ Filed' = Filed
    BY <1>8 DEF CheckDuplicate, Filed
  <2>3. \A g \in Handlers : local'[g].op = "create" =>
          \/ local'[g] = local[g]
          \/ ~Duplicate(local'[g].app.child)
    BY <2>1 DEF Others, Goroutines
  <2> QED BY <1>1, <2>2, <2>3, KeepsClear
<1>9. ASSUME NEW h \in load.handlers, CreateApplication(h) PROVE Clear'
  BY <1>1, <1>9, CreateClear
<1>10. ASSUME NEW h \in load.handlers, CreateApplication_Notify(h) PROVE Clear'
  BY <1>1, <1>10, NotifyIInv, QuietClear DEF CreateApplication_Notify
<1>11. ASSUME NEW h \in load.handlers, AssignAppointmentSlot(h) PROVE Clear'
  BY <1>1, <1>11, AssignIInv, QuietClear DEF AssignAppointmentSlot
<1>12. ASSUME NEW h \in load.handlers, AssignAppointmentSlot_Count(h) PROVE Clear'
  <2>1. apps' = apps
    BY <1>12 DEF AssignAppointmentSlot_Count
  <2> QED BY <1>1, <1>12, <2>1, CountIInv, QuietClear
<1>13. ASSUME NEW h \in load.handlers, AssignAppointmentSlot_Book(h) PROVE Clear'
  <2>1. Others(h) /\ local'[h].op # "create" /\ (apps' = apps \/ OnlyOf(local[h].id))
    BY <1>13, BookIInv, RecordsTyped
  <2>2. Filed' = Filed /\ \A a \in Apps : apps'[a].child = apps[a].child
    BY <2>1 DEF OnlyOf, Filed
  <2> QED BY <1>1, <2>1, <2>2, MovesClear
<1>14. ASSUME NEW h \in load.handlers, SubmitApplication_Enqueue(h) PROVE Clear'
  BY <1>1, <1>14, EnqueueIInv, RecordsTyped, QuietClear DEF SubmitApplication_Enqueue
<1>15. ASSUME NEW h \in load.handlers, NEW a \in Filed, RescheduleAppointment_Read(h, a)
       PROVE  Clear'
  BY <1>1, <1>15, RescheduleReadIInv, QuietClear DEF RescheduleAppointment_Read
<1>16. ASSUME NEW h \in load.handlers, RescheduleAppointment_Count(h) PROVE Clear'
  BY <1>1, <1>16, RescheduleCountIInv, RecordsTyped, MovesClear
<1>17. ASSUME NEW h \in load.handlers, NEW a \in Filed, NEW status \in Statuses,
              UpdateStatus(h, a, status)
       PROVE  Clear'
  <2>1. local'[h].op # "create"
    BY <1>17, StatusIInv
  <2> QED BY <1>1, <1>17, <2>1, StatusIInv, MovesClear
<1>18. ASSUME NEW h \in load.handlers, NEW a \in Filed, OverrideAdmission(h, a) PROVE Clear'
  BY <1>1, <1>18, OverrideIInv, UnmovedClear
<1>19. ASSUME NEW h \in load.handlers, UpdateStatus_Notify(h) PROVE Clear'
  BY <1>1, <1>19, StatusNotifyIInv, RecordsTyped, QuietClear DEF UpdateStatus_Notify
<1>20. ASSUME NEW w \in load.workers, NEW a \in Apps, HandleGenerateAppointmentLetter_Read(w, a)
       PROVE  Clear'
  BY <1>1, <1>20, RenderReadIInv, QuietClear DEF HandleGenerateAppointmentLetter_Read
<1>21. ASSUME NEW w \in load.workers, HandleGenerateAppointmentLetter_Write(w) PROVE Clear'
  BY <1>1, <1>21, RenderWriteIInv, RecordsTyped, QuietClear
<1> QED
  BY <1>3, <1>4, <1>5, <1>6, <1>7, <1>8, <1>9, <1>10, <1>11, <1>12, <1>13, <1>14, <1>15, <1>16,
     <1>17, <1>18, <1>19, <1>20, <1>21, Zenon DEF Next

LEMMA InitCleared == Init => Cleared
<1> SUFFICES ASSUME Init PROVE Clear
  BY DEF Cleared
<1>1. Filed = {}
  BY RecordsTyped DEF Init, Filed
<1>2. \A h \in Handlers : local[h] = Idle
  BY DEF Init
<1> QED BY <1>1, <1>2, RecordsTyped DEF Clear

\* CheckDuplicate, admissions.go:26: the check and the insertion are two
\* statements; with requests one at a time and no failure nothing comes between
\* them, and no child has two applications nor one when it is enrolled.
THEOREM OneApplicationEach == Spec => []OneApplicationPerChild
<1>1. Cleared => OneApplicationPerChild
  BY DEF Cleared, Clear, OneApplicationPerChild
<1> QED BY <1>1, AlwaysIInv, InitCleared, StepCleared, PTL DEF Spec

-----------------------------------------------------------------------------
(* The letter of an application that no reschedule may name. *)

Rendering(w, a) == local[w].op = "render" /\ local[w].id = a

\* Somebody may print, or has printed, the letter of a.
Asked(a) == a \in queue \/ letters[a].made \/ \E w \in Workers : Rendering(w, a)

LettersOf(a) ==
  /\ \A g, h \in Handlers :
       /\ local[g].id = a /\ local[g].op \in Unsettled
       /\ local[h].id = a /\ local[h].op \in Unsettled \cup {"letter"}
       => g = h
  /\ Asked(a) => \A g \in Handlers : local[g].id = a => local[g].op \notin Unsettled
  /\ \A w \in Workers : Rendering(w, a) => local[w].app.at = apps[a].at
  /\ letters[a].made => letters[a].at = apps[a].at

Lettered == \A a \in Apps \ load.reschedulable : LettersOf(a)

\* Steps of handlers that leave queue, letters and a's appointment alone, and
\* take nobody to a's appointment but who was on the way to it.
LEMMA KeepsLetters ==
  ASSUME IInv, NEW a \in Apps, LettersOf(a), NEW h \in Handlers, Others(h),
         queue' = queue, letters' = letters, apps'[a].at = apps[a].at,
         local'[h].id = a /\ local'[h].op \in Unsettled =>
           local[h].id = a /\ local[h].op \in Unsettled,
         local'[h].id = a /\ local'[h].op \in Unsettled \cup {"letter"} =>
           local[h].id = a /\ local[h].op \in Unsettled \cup {"letter"}
  PROVE  LettersOf(a)'
<1>1. \A w \in Workers : local'[w] = local[w]
  BY AdmissionsAssumption DEF Others, Goroutines
<1>2. \A g \in Handlers : g # h => local'[g] = local[g]
  BY DEF Others, Goroutines
<1>3. Asked(a)' <=> Asked(a)
  BY <1>1 DEF Asked, Rendering
<1>4. \A g \in Handlers :
        /\ local'[g].id = a /\ local'[g].op \in Unsettled =>
             local[g].id = a /\ local[g].op \in Unsettled
        /\ local'[g].id = a /\ local'[g].op \in Unsettled \cup {"letter"} =>
             local[g].id = a /\ local[g].op \in Unsettled \cup {"letter"}
  BY <1>2
<1>5. \A g, f \in Handlers :
        /\ local'[g].id = a /\ local'[g].op \in Unsettled
        /\ local'[f].id = a /\ local'[f].op \in Unsettled \cup {"letter"}
        => g = f
  BY <1>4 DEF LettersOf
<1>6. Asked(a)' => \A g \in Handlers : local'[g].id = a => local'[g].op \notin Unsettled
  BY <1>3, <1>4 DEF LettersOf
<1>7. \A w \in Workers : Rendering(w, a)' => local'[w].app.at = apps'[a].at
  BY <1>1 DEF LettersOf, Rendering
<1> QED BY <1>5, <1>6, <1>7 DEF LettersOf

\* Steps that move nobody to or from an appointment.
LEMMA UnmovedLetters ==
  ASSUME IInv, NEW a \in Apps, LettersOf(a), local' = local,
         queue' = queue, letters' = letters, apps'[a].at = apps[a].at
  PROVE  LettersOf(a)'
BY DEF LettersOf, Asked, Rendering

\* A new application has neither an appointment under way nor a letter.
LEMMA CreateLetters ==
  ASSUME IInv, NEW a \in Apps, LettersOf(a), NEW h \in load.handlers, CreateApplication(h)
  PROVE  LettersOf(a)'
<1>1. h \in Handlers /\ Others(h) /\ queue' = queue /\ letters' = letters
  BY LoadFacts, CreateIInv DEF IInv, CreateApplication
<1>2. CASE apps' = apps /\ local'[h] = Idle
  BY <1>1, <1>2, RecordsTyped, KeepsLetters DEF Unsettled
<1>3. ASSUME NEW b \in Apps \ Filed, \A c \in Apps : c # b => apps'[c] = apps[c],
             local'[h].op = "notify", local'[h].id = b
      PROVE  LettersOf(a)'
  <2>1. CASE a # b
    BY <1>1, <1>3, <2>1, KeepsLetters
  <2>2. CASE a = b
    <3>1. \A g \in Goroutines : local[g].op \in AfterFiling => local[g].id # a
      BY <2>2, HolderFacts
    <3>2. a \notin queue /\ ~letters[a].made
      BY <2>2 DEF IInv, TypeOK, NoLetter
    <3>3. /\ \A w \in Workers : local'[w] = local[w]
          /\ \A g \in Handlers : g # h => local'[g] = local[g]
      BY <1>1, AdmissionsAssumption DEF Others, Goroutines
    <3>4. \A w \in Workers : ~Rendering(w, a)'
      BY <3>1, <3>3 DEF Rendering, AfterFiling, Goroutines
    <3>5. ~Asked(a)' /\ ~letters'[a].made
      BY <1>1, <3>2, <3>4 DEF Asked
    <3>6. \A g \in Handlers :
            local'[g].id = a /\ local'[g].op \in Unsettled \cup {"letter"} => g = h
      BY <3>1, <3>3 DEF Unsettled, AfterFiling, Goroutines
    <3> QED BY <3>4, <3>5, <3>6 DEF LettersOf
  <2> QED BY <2>1, <2>2
<1> QED BY <1>2, <1>3, CreateIInv

\* An appointment is given before a letter is asked for.
LEMMA BookLetters ==
  ASSUME IInv, NEW a \in Apps, LettersOf(a), NEW h \in load.handlers,
         AssignAppointmentSlot_Book(h)
  PROVE  LettersOf(a)'
<1>1. /\ h \in Handlers /\ Others(h) /\ queue' = queue /\ letters' = letters
      /\ local[h].op = "book" /\ local[h].id \in Filed
      /\ apps' = apps \/ OnlyOf(local[h].id)
      /\ \/ local'[h] = Idle
         \/ local'[h].op \in {"letter", "reschedule"} /\ local'[h].id = local[h].id
  BY LoadFacts, BookIInv DEF IInv, AssignAppointmentSlot_Book
<1>2. CASE local[h].id # a \/ apps' = apps
  <2>1. apps'[a].at = apps[a].at
    BY <1>1, <1>2 DEF OnlyOf
  <2> QED BY <1>1, <2>1, RecordsTyped, KeepsLetters DEF Unsettled
<1>3. CASE local[h].id = a
  <2>1. ~Asked(a)
    BY <1>1, <1>3 DEF LettersOf, Unsettled
  <2>2. \A w \in Workers : local'[w] = local[w]
    BY <1>1, AdmissionsAssumption DEF Others, Goroutines
  <2>3. ~Asked(a)' /\ ~letters'[a].made /\ \A w \in Workers : ~Rendering(w, a)'
    BY <1>1, <2>1, <2>2 DEF Asked, Rendering
  <2>4. \A g \in Handlers : g # h => local'[g] = local[g]
    BY <1>1 DEF Others, Goroutines
  <2>5. \A g, f \in Handlers :
          /\ local'[g].id = a /\ local'[g].op \in Unsettled
          /\ local'[f].id = a /\ local'[f].op \in Unsettled \cup {"letter"}
          => g = f
    <3>1. \A g \in Handlers : g # h /\ local[g].id = a => local[g].op \notin Unsettled
      BY <1>1, <1>3 DEF LettersOf, Unsettled
    <3> QED BY <1>1, <2>4, <3>1, RecordsTyped DEF Unsettled
  <2> QED BY <2>3, <2>5 DEF LettersOf
<1> QED BY <1>2, <1>3

\* A letter is asked for when the submission is done with the appointment.
LEMMA EnqueueLetters ==
  ASSUME IInv, NEW a \in Apps, LettersOf(a), NEW h \in load.handlers,
         SubmitApplication_Enqueue(h)
  PROVE  LettersOf(a)'
<1>1. /\ h \in Handlers /\ Others(h) /\ letters' = letters /\ apps' = apps
      /\ local[h].op = "letter" /\ queue' \subseteq queue \cup {local[h].id}
      /\ local'[h] = Idle
  BY LoadFacts, EnqueueIInv DEF IInv, SubmitApplication_Enqueue
<1>2. /\ \A w \in Workers : local'[w] = local[w]
      /\ \A g \in Handlers : g # h => local'[g] = local[g]
  BY <1>1, AdmissionsAssumption DEF Others, Goroutines
<1>3. \A g \in Handlers : local'[g].op \in Unsettled \cup {"letter"} => local'[g] = local[g]
  BY <1>1, <1>2, RecordsTyped DEF Unsettled
<1>4. \A g, f \in Handlers :
        /\ local'[g].id = a /\ local'[g].op \in Unsettled
        /\ local'[f].id = a /\ local'[f].op \in Unsettled \cup {"letter"}
        => g = f
  BY <1>3 DEF LettersOf
<1>5. Asked(a)' => Asked(a) \/ local[h].id = a
  BY <1>1, <1>2 DEF Asked, Rendering
<1>6. ASSUME local[h].id = a, NEW g \in Handlers, local'[g].id = a, local'[g].op \in Unsettled
      PROVE  FALSE
  <2>1. local[g].id = a /\ local[g].op \in Unsettled
    BY <1>3, <1>6
  <2>2. g = h
    BY <1>1, <1>6, <2>1 DEF LettersOf
  <2> QED BY <1>1, <2>1, <2>2 DEF Unsettled
<1>7. Asked(a)' => \A g \in Handlers : local'[g].id = a => local'[g].op \notin Unsettled
  BY <1>3, <1>5, <1>6 DEF LettersOf
<1>8. \A w \in Workers : Rendering(w, a)' => local'[w].app.at = apps'[a].at
  BY <1>1, <1>2 DEF LettersOf, Rendering
<1> QED BY <1>1, <1>4, <1>7, <1>8 DEF LettersOf

\* What a worker reads is the appointment, for a letter was asked for.
LEMMA RenderReadLetters ==
  ASSUME IInv, NEW a \in Apps, LettersOf(a), NEW w \in load.workers, NEW b \in Apps,
         HandleGenerateAppointmentLetter_Read(w, b)
  PROVE  LettersOf(a)'
<1>1. /\ w \in Workers /\ Others(w) /\ b \in queue /\ local'[w].op = "render"
      /\ local'[w].id = b /\ local'[w].app = apps[b]
      /\ UNCHANGED <<apps, queue, letters>>
  BY LoadFacts, RenderReadIInv DEF IInv, HandleGenerateAppointmentLetter_Read
<1>2. /\ \A g \in Handlers : local'[g] = local[g]
      /\ \A v \in Workers : v # w => local'[v] = local[v]
  BY <1>1, AdmissionsAssumption DEF Others, Goroutines
<1>3. Asked(a)' => Asked(a)
  BY <1>1, <1>2 DEF Asked, Rendering
<1>4. \A v \in Workers : Rendering(v, a)' => local'[v].app.at = apps'[a].at
  BY <1>1, <1>2 DEF LettersOf, Rendering
<1> QED BY <1>1, <1>2, <1>3, <1>4 DEF LettersOf

\* What it prints is what it read.
LEMMA RenderWriteLetters ==
  ASSUME IInv, NEW a \in Apps, LettersOf(a), NEW w \in load.workers,
         HandleGenerateAppointmentLetter_Write(w)
  PROVE  LettersOf(a)'
<1>1. /\ w \in Workers /\ Others(w) /\ local[w].op = "render" /\ local'[w] = Idle
      /\ queue' \subseteq queue /\ apps' = apps
      /\ letters'[a] # letters[a] => a = local[w].id /\ letters'[a].at = local[w].app.at
  BY LoadFacts, RenderWriteIInv DEF IInv
<1>2. /\ \A g \in Handlers : local'[g] = local[g]
      /\ \A v \in Workers : v # w => local'[v] = local[v]
  BY <1>1, AdmissionsAssumption DEF Others, Goroutines
<1>3. \A v \in Workers : Rendering(v, a)' => Rendering(v, a) /\ local'[v] = local[v]
  BY <1>1, <1>2, RecordsTyped DEF Rendering
<1>4. Asked(a)' => Asked(a)
  BY <1>1, <1>3 DEF Asked, Rendering
<1>5. \A v \in Workers : Rendering(v, a)' => local'[v].app.at = apps'[a].at
  BY <1>1, <1>3 DEF LettersOf
<1>6. letters'[a].made => letters'[a].at = apps'[a].at
  BY <1>1 DEF LettersOf, Rendering
<1> QED BY <1>2, <1>4, <1>5, <1>6 DEF LettersOf

LEMMA LoadKept ==
  ASSUME [Next]_vars
  PROVE  load' = load
<1>1. CASE UNCHANGED vars
  BY <1>1 DEF vars
<1>2. CASE Next
  BY <1>2, ZenonT(60)
     DEF Next, Tick, CloseDate, CreateAdmissionWindow, SubmitApplication_Check, CheckDuplicate,
         CreateApplication, CreateApplication_Notify, AssignAppointmentSlot,
         AssignAppointmentSlot_Count, AssignAppointmentSlot_Book, SubmitApplication_Enqueue,
         RescheduleAppointment_Read, RescheduleAppointment_Count, UpdateStatus,
         OverrideAdmission, UpdateStatus_Notify, HandleGenerateAppointmentLetter_Read,
         HandleGenerateAppointmentLetter_Write
<1> QED BY <1>1, <1>2

LEMMA StepLettered == IInv /\ Lettered /\ [Next]_vars => Lettered'
<1> SUFFICES ASSUME IInv, Lettered, [Next]_vars, NEW a \in Apps \ load.reschedulable
             PROVE  LettersOf(a)'
  BY LoadKept DEF Lettered
<1>1. a \in Apps /\ LettersOf(a)
  BY DEF Lettered
<1>2. ASSUME UNCHANGED <<apps, queue, letters, local>> PROVE LettersOf(a)'
  BY <1>1, <1>2, UnmovedLetters
<1>3. \A h \in load.handlers : h \in Handlers
  BY LoadFacts DEF IInv
<1>4. CASE UNCHANGED vars
  BY <1>2, <1>4 DEF vars
<1>5. CASE Tick
  BY <1>2, <1>5 DEF Tick
<1>6. ASSUME NEW w \in Windows, CloseDate(w) PROVE LettersOf(a)'
  BY <1>2, <1>6 DEF CloseDate
<1>7. ASSUME NEW h \in load.handlers, NEW divisions, NEW capacity,
             CreateAdmissionWindow(h, divisions, capacity)
      PROVE  LettersOf(a)'
  BY <1>2, <1>7 DEF CreateAdmissionWindow
<1>8. ASSUME NEW h \in load.handlers, NEW child \in load.children, NEW division \in Divisions,
             SubmitApplication_Check(h, child, division)
      PROVE  LettersOf(a)'
  BY <1>1, <1>3, <1>8, SubmitIInv, KeepsLetters DEF SubmitApplication_Check, Unsettled
<1>9. ASSUME NEW h \in load.handlers, CheckDuplicate(h) PROVE LettersOf(a)'
  BY <1>1, <1>3, <1>9, DuplicateIInv, KeepsLetters DEF CheckDuplicate, Unsettled
<1>10. ASSUME NEW h \in load.handlers, CreateApplication(h) PROVE LettersOf(a)'
  BY <1>1, <1>10, CreateLetters
<1>11. ASSUME NEW h \in load.handlers, CreateApplication_Notify(h) PROVE LettersOf(a)'
  BY <1>1, <1>3, <1>11, NotifyIInv, KeepsLetters DEF CreateApplication_Notify, Unsettled
<1>12. ASSUME NEW h \in load.handlers, AssignAppointmentSlot(h) PROVE LettersOf(a)'
  BY <1>1, <1>3, <1>12, AssignIInv, KeepsLetters DEF AssignAppointmentSlot, Unsettled
<1>13. ASSUME NEW h \in load.handlers, AssignAppointmentSlot_Count(h) PROVE LettersOf(a)'
  <2>1. UNCHANGED <<apps, queue, letters>> /\ local[h].op = "count"
    BY <1>13 DEF AssignAppointmentSlot_Count
  <2> QED BY <1>1, <1>3, <1>13, <2>1, CountIInv, KeepsLetters DEF Unsettled
<1>14. ASSUME NEW h \in load.handlers, AssignAppointmentSlot_Book(h) PROVE LettersOf(a)'
  BY <1>1, <1>14, BookLetters
<1>15. ASSUME NEW h \in load.handlers, SubmitApplication_Enqueue(h) PROVE LettersOf(a)'
  BY <1>1, <1>15, EnqueueLetters
<1>16. ASSUME NEW h \in load.handlers, NEW b \in Filed, RescheduleAppointment_Read(h, b)
       PROVE  LettersOf(a)'
  BY <1>1, <1>3, <1>16, RescheduleReadIInv, KeepsLetters DEF RescheduleAppointment_Read
<1>17. ASSUME NEW h \in load.handlers, RescheduleAppointment_Count(h) PROVE LettersOf(a)'
  <2>1. queue' = queue /\ letters' = letters
    BY <1>17 DEF RescheduleAppointment_Count
  <2> QED BY <1>1, <1>3, <1>17, <2>1, RescheduleCountIInv, RecordsTyped, KeepsLetters DEF Unsettled
<1>18. ASSUME NEW h \in load.handlers, NEW b \in Filed, NEW status \in Statuses,
              UpdateStatus(h, b, status)
       PROVE  LettersOf(a)'
  <2>1. queue' = queue /\ letters' = letters
    BY <1>18 DEF UpdateStatus
  <2> QED BY <1>1, <1>3, <1>18, <2>1, StatusIInv, KeepsLetters DEF Unsettled
<1>19. ASSUME NEW h \in load.handlers, NEW b \in Filed, OverrideAdmission(h, b)
       PROVE  LettersOf(a)'
  <2>1. queue' = queue /\ letters' = letters
    BY <1>19 DEF OverrideAdmission
  <2> QED BY <1>1, <1>19, <2>1, OverrideIInv, UnmovedLetters
<1>20. ASSUME NEW h \in load.handlers, UpdateStatus_Notify(h) PROVE LettersOf(a)'
  BY <1>1, <1>3, <1>20, StatusNotifyIInv, RecordsTyped, KeepsLetters
     DEF UpdateStatus_Notify, Unsettled
<1>21. ASSUME NEW w \in load.workers, NEW b \in Apps, HandleGenerateAppointmentLetter_Read(w, b)
       PROVE  LettersOf(a)'
  BY <1>1, <1>21, RenderReadLetters
<1>22. ASSUME NEW w \in load.workers, HandleGenerateAppointmentLetter_Write(w)
       PROVE  LettersOf(a)'
  BY <1>1, <1>22, RenderWriteLetters
<1> QED
  BY <1>4, <1>5, <1>6, <1>7, <1>8, <1>9, <1>10, <1>11, <1>12, <1>13, <1>14, <1>15, <1>16,
     <1>17, <1>18, <1>19, <1>20, <1>21, <1>22, Zenon DEF Next

LEMMA InitLettered == Init => Lettered
<1> SUFFICES ASSUME Init, NEW a \in Apps PROVE LettersOf(a)
  BY DEF Lettered
<1>1. /\ queue = {} /\ ~letters[a].made
      /\ \A g \in Handlers : local[g].op = "idle"
      /\ \A w \in Workers : local[w].op = "idle"
  BY RecordsTyped DEF Init, NoLetter
<1> QED BY <1>1 DEF LettersOf, Asked, Rendering, Unsettled

\* SubmitApplication, admissions.go:254-262: the letter is asked for after the
\* appointment is given, so that of an application which is never rescheduled
\* shows it, however many submissions, decisions and workers overlap and
\* whatever fails.
THEOREM LettersShowAppointments == Spec => []LetterShowsAppointment
<1>1. Lettered => LetterShowsAppointment
  BY DEF Lettered, LettersOf, LetterShowsAppointment
<1> QED BY <1>1, AlwaysIInv, InitLettered, StepLettered, PTL DEF Spec

-----------------------------------------------------------------------------
(* How often an application was rescheduled. *)

\* The count a reschedule on its way has read is never ahead of the answers,
\* and up to date when there is no other; a new row begins with none.
Informed(g) ==
  /\ local[g].again =>
       /\ local[g].app.reschedules <= asked[local[g].id]
       /\ Serial /\ g \in load.handlers => local[g].app.reschedules = asked[local[g].id]
  /\ local[g].op \in {"duplicate", "create"} => local[g].app.reschedules = 0

Reckoned == ReschedulesCounted /\ \A g \in Goroutines : Informed(g)

LEMMA GoneTo ==
  ASSUME IInv, NEW g \in Goroutines, NEW rec, Goto(g, rec)
  PROVE  local'[g] = rec /\ Others(g)
BY DEF IInv, TypeOK, Goto, Others, Goroutines

\* A request that is under way or over knows what it knew.
LEMMA StaysInformed ==
  ASSUME NEW g \in Goroutines, Informed(g), UNCHANGED <<asked, load>>, Serial' => Serial,
         local'[g].again => /\ local[g].again /\ local'[g].app = local[g].app
                            /\ local'[g].id = local[g].id,
         local'[g].op \in {"duplicate", "create"} =>
           local[g].op \in {"duplicate", "create"} /\ local'[g].app = local[g].app
  PROVE  Informed(g)'
BY DEF Informed

\* Steps that count nothing.
LEMMA KeepsReckoned ==
  ASSUME Reckoned, NEW g \in Goroutines, Others(g), Informed(g)',
         UNCHANGED <<asked, load>>, Serial' => Serial,
         \A a \in Apps : apps'[a].reschedules = apps[a].reschedules
  PROVE  Reckoned'
<1>1. ASSUME NEW f \in Goroutines PROVE Informed(f)'
  <2>1. CASE f = g
    BY <2>1
  <2>2. CASE f # g
    <3>1. local'[f] = local[f] /\ Informed(f)
      BY <2>2 DEF Others, Reckoned
    <3> QED BY <3>1, StaysInformed
  <2> QED BY <2>1, <2>2
<1>2. ReschedulesCounted'
  BY DEF Reckoned, ReschedulesCounted
<1> QED BY <1>1, <1>2 DEF Reckoned

\* The same, of a step of g that leaves the applications alone and begins
\* neither a submission nor a reschedule.
LEMMA QuietReckoned ==
  ASSUME Reckoned, NEW g \in Goroutines, Others(g), UNCHANGED <<asked, load>>, Serial' => Serial,
         \A a \in Apps : apps'[a].reschedules = apps[a].reschedules,
         local'[g].again => /\ local[g].again /\ local'[g].app = local[g].app
                            /\ local'[g].id = local[g].id,
         local'[g].op \in {"duplicate", "create"} =>
           local[g].op \in {"duplicate", "create"} /\ local'[g].app = local[g].app
  PROVE  Reckoned'
<1>1. Informed(g)
  BY DEF Reckoned
<1>2. Informed(g)'
  BY <1>1, StaysInformed
<1> QED BY <1>2, KeepsReckoned

LEMMA UnmovedReckoned ==
  ASSUME Reckoned, UNCHANGED <<asked, load, local>>, Serial' => Serial,
         \A a \in Apps : apps'[a].reschedules = apps[a].reschedules
  PROVE  Reckoned'
<1>1. ASSUME NEW f \in Goroutines PROVE Informed(f)'
  <2>1. Informed(f)
    BY DEF Reckoned
  <2> QED BY <2>1, StaysInformed
<1>2. ReschedulesCounted'
  BY DEF Reckoned, ReschedulesCounted
<1> QED BY <1>1, <1>2 DEF Reckoned

\* A submission begins with a row that was never rescheduled.
LEMMA SubmitReckoned ==
  ASSUME IInv, Reckoned, NEW h \in load.handlers, NEW child \in load.children,
         NEW division \in Divisions, SubmitApplication_Check(h, child, division), Serial' => Serial
  PROVE  Reckoned'
<1> DEFINE app == [NoApp EXCEPT !.child = child, !.division = division, !.status = "PENDING"]
           rec == [Idle EXCEPT !.op = "duplicate", !.app = app, !.capacity = windows[Min(Open)].capacity]
<1>1. h \in Goroutines /\ UNCHANGED <<asked, load, apps>> /\ Goto(h, rec)
  BY LoadFacts DEF IInv, SubmitApplication_Check, Goroutines
<1>2. Others(h) /\ local'[h] = rec
  BY <1>1, GoneTo
<1>3. rec.again = FALSE /\ rec.app = app /\ app.reschedules = 0
  BY DEF Idle, NoApp
<1>4. Informed(h)'
  BY <1>2, <1>3 DEF Informed
<1> QED BY <1>1, <1>2, <1>4, KeepsReckoned

\* It is filed as such, in place of an application that did not exist.
LEMMA CreateReckoned ==
  ASSUME IInv, Reckoned, NEW h \in load.handlers, CreateApplication(h), Serial' => Serial
  PROVE  Reckoned'
<1>1. /\ h \in Goroutines /\ UNCHANGED <<asked, load>>
      /\ local[h].op = "create" /\ local[h] \in Snapshot
  BY LoadFacts, HolderFacts DEF IInv, CreateApplication, Goroutines
<1>2. local[h].app.reschedules = 0 /\ local[h].again = FALSE
  <2>1. Fit(h, local[h], Filed) /\ Informed(h)
    BY <1>1, HolderFacts DEF Reckoned
  <2> QED BY <1>1, <2>1 DEF Fit, Informed, Snapshot
<1>3. CASE \E a \in load.apps \ Filed :
             /\ apps' = [apps EXCEPT ![a] = local[h].app]
             /\ Goto(h, [local[h] EXCEPT !.op = "notify", !.id = a])
  <2>1. PICK a \in load.apps \ Filed :
          /\ apps' = [apps EXCEPT ![a] = local[h].app]
          /\ Goto(h, [local[h] EXCEPT !.op = "notify", !.id = a])
    BY <1>3
  <2>2. a \in Apps /\ apps[a] = NoApp /\ apps \in [Apps -> Application]
    BY LoadFacts DEF IInv, TypeOK
  <2>3. Others(h) /\ local'[h] = [local[h] EXCEPT !.op = "notify", !.id = a]
    BY <1>1, <2>1, GoneTo
  <2>4. apps[a].reschedules = 0
    BY <2>2 DEF NoApp
  <2>5. \A b \in Apps : apps'[b].reschedules = apps[b].reschedules
    BY <1>2, <2>1, <2>2, <2>4
  <2>6. local'[h].again = FALSE /\ local'[h].op = "notify"
    BY <1>1, <1>2, <2>3 DEF Snapshot
  <2> QED BY <1>1, <2>3, <2>5, <2>6, QuietReckoned
<1>4. CASE apps' = apps /\ Goto(h, Idle)
  <2>1. Others(h) /\ local'[h] = Idle
    BY <1>1, <1>4, GoneTo
  <2> QED BY <1>1, <1>4, <2>1, RecordsTyped, QuietReckoned
<1> QED BY <1>3, <1>4 DEF CreateApplication

\* What is read is the count by now.
LEMMA RescheduleReadReckoned ==
  ASSUME IInv, Reckoned, NEW h \in load.handlers, NEW a \in Filed,
         RescheduleAppointment_Read(h, a), Serial' => Serial
  PROVE  Reckoned'
<1> DEFINE rec == [Idle EXCEPT !.op = "assign", !.app = apps[a], !.id = a, !.again = TRUE,
                               !.capacity = windows[Min(Open)].capacity]
<1>1. h \in Goroutines /\ UNCHANGED <<asked, load, apps>> /\ Goto(h, rec) /\ a \in Apps
  BY LoadFacts DEF IInv, RescheduleAppointment_Read, Goroutines, Filed
<1>2. Others(h) /\ local'[h] = rec
  BY <1>1, GoneTo
<1>3. rec.op = "assign" /\ rec.app = apps[a] /\ rec.id = a
  BY DEF Idle
<1>4. apps[a].reschedules <= asked[a] /\ (Serial => apps[a].reschedules = asked[a])
  BY <1>1 DEF Reckoned, ReschedulesCounted
<1>5. Informed(h)'
  BY <1>1, <1>2, <1>3, <1>4 DEF Informed
<1> QED BY <1>1, <1>2, <1>5, KeepsReckoned

\* One more than was read is counted, and one more was asked for than by then.
LEMMA RescheduleCountReckoned ==
  ASSUME IInv, Reckoned, NEW h \in load.handlers, RescheduleAppointment_Count(h),
         Serial' => Serial /\ ~Fault
  PROVE  Reckoned'
<1> DEFINE b == local[h].id
           n == local[h].app.reschedules
<1>1. /\ h \in Goroutines /\ load' = load /\ Goto(h, Idle)
      /\ asked' = [asked EXCEPT ![b] = @ + 1]
      /\ \/ apps' = [apps EXCEPT ![b].reschedules = n + 1]
         \/ Fault /\ apps' = apps
  BY LoadFacts DEF IInv, RescheduleAppointment_Count, Goroutines, NextCount
<1>2. b \in Apps /\ local[h].again /\ n \in Nat /\ asked \in [Apps -> Nat]
      /\ apps \in [Apps -> Application] /\ local \in [Goroutines -> Snapshot]
  <2>1. local[h].op = "reschedule"
    BY DEF RescheduleAppointment_Count
  <2>2. local[h] \in Snapshot /\ Fit(h, local[h], Filed) /\ b \in Apps
    BY <1>1, <2>1, HolderFacts DEF AfterFiling
  <2>3. n \in Nat
    BY <2>2 DEF Snapshot, Application
  <2> QED BY <2>1, <2>2, <2>3 DEF Fit, IInv, TypeOK, Goroutines, Snapshot
<1>3. n <= asked[b] /\ (Serial => n = asked[b])
  BY <1>1, <1>2 DEF Reckoned, Informed
<1>4. Others(h) /\ local'[h] = Idle
  BY <1>1, GoneTo
<1>5. asked'[b] = asked[b] + 1 /\ \A a \in Apps : a # b => asked'[a] = asked[a]
  BY <1>1, <1>2
<1>6. /\ \A a \in Apps : a # b => apps'[a] = apps[a]
      /\ apps'[b].reschedules = n + 1 \/ (Fault /\ apps'[b] = apps[b])
  BY <1>1, <1>2 DEF Application
<1>7. \A a \in Apps : apps[a].reschedules \in Nat /\ asked[a] \in Nat
  BY <1>2 DEF Application
<1>8. ASSUME NEW a \in Apps
      PROVE  apps'[a].reschedules <= asked'[a] /\ (Serial' => apps'[a].reschedules = asked'[a])
  <2>1. apps[a].reschedules <= asked[a] /\ (Serial => apps[a].reschedules = asked[a])
    BY DEF Reckoned, ReschedulesCounted
  <2>2. CASE a # b
    BY <1>5, <1>6, <2>1, <2>2
  <2>3. CASE a = b
    BY <1>2, <1>3, <1>5, <1>6, <1>7, <2>1, <2>3
  <2> QED BY <2>2, <2>3
<1>9. ASSUME NEW g \in Goroutines PROVE Informed(g)'
  <2>1. CASE g = h
    BY <1>4, <2>1, RecordsTyped DEF Informed
  <2>2. CASE g # h
    <3>1. local'[g] = local[g] /\ Informed(g)
      BY <1>4, <2>2 DEF Others, Reckoned
    <3>2. ASSUME local[g].again
          PROVE  local[g].id \in Apps /\ local[g].app.reschedules \in Nat
      <4>1. local[g] \in Snapshot /\ Fit(g, local[g], Filed)
        BY HolderFacts
      <4>2. local[g].id \in load.reschedulable /\ load.reschedulable \subseteq Apps
        BY <3>2, <4>1, AdmissionsAssumption DEF Fit, IInv, TypeOK
      <4> QED BY <4>1, <4>2 DEF Snapshot, Application
    <3>3. ASSUME local[g].again PROVE local[g].app.reschedules <= asked'[local[g].id]
      <4>1. local[g].app.reschedules <= asked[local[g].id]
        BY <3>1, <3>3 DEF Informed
      <4> QED BY <1>5, <1>7, <3>2, <3>3, <4>1
    <3>4. Serial' => g \notin load.handlers
      BY <2>2, OneHandler DEF IInv
    <3> QED BY <1>1, <3>1, <3>3, <3>4 DEF Informed
  <2> QED BY <2>1, <2>2
<1> QED BY <1>8, <1>9 DEF Reckoned, ReschedulesCounted

LEMMA InitReckoned == Init => Reckoned
<1> SUFFICES ASSUME Init PROVE Reckoned
  OBVIOUS
<1>1. \A g \in Goroutines : local[g] = Idle
  BY DEF Init, Goroutines
<1>2. \A a \in Apps : apps[a].reschedules = 0 /\ asked[a] = 0
  BY DEF Init, NoApp
<1> QED BY <1>1, <1>2, RecordsTyped DEF Reckoned, ReschedulesCounted, Informed

\* The requests whose goroutine knows of a count what it knew before.
LEMMA HandlerReckoned ==
  ASSUME IInv, Reckoned, NEW h \in load.handlers, Serial' => Serial,
         \/ CheckDuplicate(h) \/ CreateApplication_Notify(h) \/ AssignAppointmentSlot(h)
         \/ AssignAppointmentSlot_Count(h) \/ AssignAppointmentSlot_Book(h)
         \/ SubmitApplication_Enqueue(h) \/ UpdateStatus_Notify(h)
         \/ \E a \in Filed, status \in Statuses : UpdateStatus(h, a, status)
  PROVE  Reckoned'
<1>1. h \in Goroutines /\ local[h] \in Snapshot
  BY LoadFacts, HolderFacts DEF IInv, Goroutines
<1>2. ASSUME NEW rec, Goto(h, rec), UNCHANGED <<asked, load>>,
             \A a \in Apps : apps'[a].reschedules = apps[a].reschedules,
             \/ rec.again = FALSE /\ rec.op \notin {"duplicate", "create"}
             \/ /\ rec.again = local[h].again /\ rec.app = local[h].app /\ rec.id = local[h].id
                /\ rec.op \in {"duplicate", "create"} => local[h].op \in {"duplicate", "create"}
      PROVE  Reckoned'
  <2>1. Others(h) /\ local'[h] = rec
    BY <1>1, <1>2, GoneTo
  <2> QED BY <1>1, <1>2, <2>1, QuietReckoned
<1>3. Idle.again = FALSE /\ Idle.op \notin {"duplicate", "create"}
  BY RecordsTyped
<1>4. CASE CheckDuplicate(h)
  <2>1. /\ UNCHANGED <<asked, load, apps>> /\ local[h].op = "duplicate"
        /\ Goto(h, Idle) \/ Goto(h, [local[h] EXCEPT !.op = "create"])
    BY <1>4 DEF CheckDuplicate
  <2>2. CASE Goto(h, Idle)
    BY <1>2, <1>3, <2>1, <2>2
  <2>3. CASE Goto(h, [local[h] EXCEPT !.op = "create"])
    BY <1>1, <1>2, <2>1, <2>3 DEF Snapshot
  <2> QED BY <2>1, <2>2, <2>3
<1>5. CASE CreateApplication_Notify(h)
  <2>1. UNCHANGED <<asked, load, apps>> /\ Goto(h, [local[h] EXCEPT !.op = "assign"])
    BY <1>5 DEF CreateApplication_Notify
  <2> QED BY <1>1, <1>2, <2>1 DEF Snapshot
<1>6. CASE AssignAppointmentSlot(h)
  <2>1. /\ UNCHANGED <<asked, load, apps>>
        /\ Goto(h, [local[h] EXCEPT !.op = "count",
                      !.at = [date |-> now + 2 * TicksPerDay, slot |-> Min(Slots)]])
    BY <1>6 DEF AssignAppointmentSlot
  <2> QED BY <1>1, <1>2, <2>1 DEF Snapshot
<1>7. CASE AssignAppointmentSlot_Count(h)
  <2>1. /\ UNCHANGED <<asked, load, apps>> /\ local[h].op = "count"
        /\ \/ Goto(h, [local[h] EXCEPT !.op = "book"])
           \/ Goto(h, [local[h] EXCEPT !.at = NextSlot(@)])
    BY <1>7 DEF AssignAppointmentSlot_Count
  <2>2. CASE Goto(h, [local[h] EXCEPT !.op = "book"])
    BY <1>1, <1>2, <2>1, <2>2 DEF Snapshot
  <2>3. CASE Goto(h, [local[h] EXCEPT !.at = NextSlot(@)])
    BY <1>1, <1>2, <2>1, <2>3 DEF Snapshot
  <2> QED BY <2>1, <2>2, <2>3
<1>8. CASE AssignAppointmentSlot_Book(h)
  <2> DEFINE next == IF local[h].again THEN "reschedule" ELSE "letter"
  <2>1. /\ UNCHANGED <<asked, load>>
        /\ apps' = apps \/ apps' = [apps EXCEPT ![local[h].id].at = local[h].at]
        /\ Goto(h, [local[h] EXCEPT !.op = next]) \/ Goto(h, Idle)
    BY <1>8 DEF AssignAppointmentSlot_Book
  <2>2. \A a \in Apps : apps'[a].reschedules = apps[a].reschedules
    <3>1. apps \in [Apps -> Application]
      BY DEF IInv, TypeOK
    <3> QED BY <2>1, <3>1 DEF Application
  <2>3. CASE Goto(h, Idle)
    BY <1>2, <1>3, <2>1, <2>2, <2>3
  <2>4. CASE Goto(h, [local[h] EXCEPT !.op = next])
    BY <1>1, <1>2, <2>1, <2>2, <2>4 DEF Snapshot
  <2> QED BY <2>1, <2>3, <2>4
<1>9. CASE SubmitApplication_Enqueue(h)
  BY <1>2, <1>3, <1>9 DEF SubmitApplication_Enqueue
<1>10. CASE UpdateStatus_Notify(h)
  BY <1>2, <1>3, <1>10 DEF UpdateStatus_Notify
<1>11. ASSUME NEW a \in Filed, NEW status \in Statuses, UpdateStatus(h, a, status)
       PROVE  Reckoned'
  <2> DEFINE rec == [Idle EXCEPT !.op = "statusNotify", !.app = apps[a], !.id = a, !.status = status]
  <2>1. /\ UNCHANGED <<asked, load>> /\ apps' = [apps EXCEPT ![a].status = status]
        /\ Goto(h, Idle) \/ Goto(h, rec)
    BY <1>11 DEF UpdateStatus
  <2>2. \A b \in Apps : apps'[b].reschedules = apps[b].reschedules
    <3>1. apps \in [Apps -> Application]
      BY DEF IInv, TypeOK
    <3> QED BY <2>1, <3>1 DEF Application
  <2>3. rec.again = FALSE /\ rec.op = "statusNotify"
    BY DEF Idle
  <2>4. CASE Goto(h, Idle)
    BY <1>2, <1>3, <2>1, <2>2, <2>4
  <2>5. CASE Goto(h, rec)
    BY <1>2, <2>1, <2>2, <2>3, <2>5
  <2> QED BY <2>1, <2>4, <2>5
<1> QED BY <1>4, <1>5, <1>6, <1>7, <1>8, <1>9, <1>10, <1>11

\* A worker counts nothing.
LEMMA WorkerReckoned ==
  ASSUME IInv, Reckoned, NEW w \in load.workers, Serial' => Serial,
         \/ \E a \in Apps : HandleGenerateAppointmentLetter_Read(w, a)
         \/ HandleGenerateAppointmentLetter_Write(w)
  PROVE  Reckoned'
<1>1. w \in Goroutines
  BY LoadFacts DEF IInv, Goroutines
<1>2. ASSUME NEW rec, Goto(w, rec), UNCHANGED <<asked, load, apps>>, rec.again = FALSE,
             rec.op \notin {"duplicate", "create"}
      PROVE  Reckoned'
  <2>1. Others(w) /\ local'[w] = rec
    BY <1>1, <1>2, GoneTo
  <2> QED BY <1>1, <1>2, <2>1, QuietReckoned
<1>3. ASSUME NEW a \in Apps, HandleGenerateAppointmentLetter_Read(w, a) PROVE Reckoned'
  <2> DEFINE rec == [Idle EXCEPT !.op = "render", !.app = apps[a], !.id = a]
  <2>1. Goto(w, rec) /\ UNCHANGED <<asked, load, apps>>
    BY <1>3 DEF HandleGenerateAppointmentLetter_Read
  <2>2. rec.again = FALSE /\ rec.op = "render"
    BY DEF Idle
  <2> QED BY <1>2, <2>1, <2>2
<1>4. CASE HandleGenerateAppointmentLetter_Write(w)
  <2>1. Goto(w, Idle) /\ UNCHANGED <<asked, load, apps>>
    BY <1>4 DEF HandleGenerateAppointmentLetter_Write
  <2> QED BY <1>2, <2>1, RecordsTyped
<1> QED BY <1>3, <1>4

LEMMA StepReckoned == IInv /\ Reckoned /\ [Next]_vars => Reckoned'
<1> SUFFICES ASSUME IInv, Reckoned, [Next]_vars PROVE Reckoned'
  OBVIOUS
<1>1. Serial' => Serial /\ ~Fault
  BY SerialBefore
<1>2. ASSUME UNCHANGED <<load, asked, local, apps>> PROVE Reckoned'
  BY <1>1, <1>2, UnmovedReckoned
<1>3. CASE UNCHANGED vars
  BY <1>2, <1>3 DEF vars
<1>4. CASE Tick
  BY <1>2, <1>4 DEF Tick
<1>5. ASSUME NEW w \in Windows, CloseDate(w) PROVE Reckoned'
  BY <1>2, <1>5 DEF CloseDate
<1>6. ASSUME NEW h \in load.handlers, NEW divisions, NEW capacity,
             CreateAdmissionWindow(h, divisions, capacity)
      PROVE  Reckoned'
  BY <1>2, <1>6 DEF CreateAdmissionWindow
<1>7. ASSUME NEW h \in load.handlers, NEW child \in load.children, NEW division \in Divisions,
             SubmitApplication_Check(h, child, division)
      PROVE  Reckoned'
  BY <1>1, <1>7, SubmitReckoned
<1>8. ASSUME NEW h \in load.handlers, CreateApplication(h) PROVE Reckoned'
  BY <1>1, <1>8, CreateReckoned
<1>9. ASSUME NEW h \in load.handlers, NEW a \in Filed, RescheduleAppointment_Read(h, a)
      PROVE  Reckoned'
  BY <1>1, <1>9, RescheduleReadReckoned
<1>10. ASSUME NEW h \in load.handlers, RescheduleAppointment_Count(h) PROVE Reckoned'
  BY <1>1, <1>10, RescheduleCountReckoned
<1>11. ASSUME NEW h \in load.handlers, NEW a \in Filed, OverrideAdmission(h, a) PROVE Reckoned'
  <2>1. PICK status : apps' = [apps EXCEPT ![a].status = status]
    BY <1>11 DEF OverrideAdmission
  <2>2. \A b \in Apps : apps'[b].reschedules = apps[b].reschedules
    <3>1. apps \in [Apps -> Application]
      BY DEF IInv, TypeOK
    <3> QED BY <2>1, <3>1 DEF Application
  <2>3. UNCHANGED <<asked, load, local>>
    BY <1>11 DEF OverrideAdmission
  <2> QED BY <1>1, <2>2, <2>3, UnmovedReckoned
<1>12. ASSUME NEW h \in load.handlers,
              \/ CheckDuplicate(h) \/ CreateApplication_Notify(h) \/ AssignAppointmentSlot(h)
              \/ AssignAppointmentSlot_Count(h) \/ AssignAppointmentSlot_Book(h)
              \/ SubmitApplication_Enqueue(h) \/ UpdateStatus_Notify(h)
              \/ \E a \in Filed, status \in Statuses : UpdateStatus(h, a, status)
       PROVE  Reckoned'
  BY <1>1, <1>12, HandlerReckoned
<1>13. ASSUME NEW w \in load.workers,
              \/ \E a \in Apps : HandleGenerateAppointmentLetter_Read(w, a)
              \/ HandleGenerateAppointmentLetter_Write(w)
       PROVE  Reckoned'
  BY <1>1, <1>13, WorkerReckoned
<1> QED
  BY <1>3, <1>4, <1>5, <1>6, <1>7, <1>8, <1>9, <1>10, <1>11, <1>12, <1>13, Zenon DEF Next

\* RescheduleAppointment, services/admissions.go:206-207: the count is written
\* from a row read several statements earlier, so of reschedules that overlap
\* some may go uncounted; none is counted twice, and with requests one at a
\* time and no failure the count is exact.
THEOREM ReschedulesAreCounted == Spec => []ReschedulesCounted
<1>1. Reckoned => ReschedulesCounted
  BY DEF Reckoned
<1> QED BY <1>1, AlwaysIInv, InitReckoned, StepReckoned, PTL DEF Spec

-----------------------------------------------------------------------------
(* The capacity of a slot. *)

\* The applications there are can be counted, and a slot that was found free
\* still is when it is given, since nobody else gives one in between.
Spaced ==
  /\ IsFiniteSet(Filed)
  /\ Serial => \A h \in load.handlers :
       local[h].op = "book" => Cardinality(Booked(local[h].at)) < local[h].capacity

\* Steps that give nobody an appointment.
LEMMA KeepsSpaced ==
  ASSUME IInv, Spaced, Filed' = Filed, load' = load, Serial' => Serial,
         Serial' => \A h \in load.handlers : local'[h].op = "book" =>
           /\ apps' = apps
           /\ \/ local'[h] = local[h]
              \/ Cardinality(Booked(local'[h].at)) < local'[h].capacity
  PROVE  Spaced'
<1>1. ASSUME Serial', NEW h \in load.handlers, local'[h].op = "book"
      PROVE  Cardinality(Booked(local[h].at)') < local'[h].capacity
  <2>1. Cardinality(Booked(local'[h].at)) < local'[h].capacity
    BY <1>1 DEF Spaced
  <2>2. Booked(local[h].at)' = Booked(local'[h].at)
    BY <1>1 DEF Booked
  <2> QED BY <2>1, <2>2
<1> QED BY <1>1 DEF Spaced

\* A handler that does not come to give an appointment: there is no other.
LEMMA MovesSpaced ==
  ASSUME IInv, Spaced, Filed' = Filed, load' = load, Serial' => Serial,
         NEW h \in load.handlers, local'[h].op # "book"
  PROVE  Spaced'
<1>1. Serial' => \A g \in load.handlers : local'[g].op # "book"
  BY OneHandler DEF IInv
<1> QED BY <1>1, KeepsSpaced

LEMMA UnmovedSpaced ==
  ASSUME IInv, Spaced, UNCHANGED <<apps, load>>, Serial' => Serial,
         \A h \in load.handlers : local'[h] = local[h]
  PROVE  Spaced'
<1>1. Filed' = Filed
  BY DEF Filed
<1> QED BY <1>1, KeepsSpaced

\* A slot is given when the count was below the capacity.
LEMMA CountSpaced ==
  ASSUME IInv, Spaced, NEW h \in load.handlers, AssignAppointmentSlot_Count(h),
         Serial' => Serial /\ ~Fault
  PROVE  Spaced'
<1> DEFINE free == Cardinality(Booked(local[h].at)) < local[h].capacity
<1>1. /\ h \in Goroutines /\ local[h] \in Snapshot /\ UNCHANGED <<apps, load>>
      /\ local[h].op = "count"
  BY LoadFacts, HolderFacts DEF IInv, Goroutines, AssignAppointmentSlot_Count
<1>2. Filed' = Filed
  BY <1>1 DEF Filed
<1>3. CASE free /\ Goto(h, [local[h] EXCEPT !.op = "book"])
  <2>1. local'[h] = [local[h] EXCEPT !.op = "book"]
    BY <1>1, <1>3, GoneTo
  <2>2. local'[h].at = local[h].at /\ local'[h].capacity = local[h].capacity
    BY <1>1, <2>1 DEF Snapshot
  <2>3. Serial' => \A g \in load.handlers : g = h
    BY OneHandler DEF IInv
  <2> QED BY <1>1, <1>2, <1>3, <2>2, <2>3, KeepsSpaced
<1>4. CASE Goto(h, [local[h] EXCEPT !.at = NextSlot(@)])
  <2>1. local'[h] = [local[h] EXCEPT !.at = NextSlot(@)]
    BY <1>1, <1>4, GoneTo
  <2>2. local'[h].op = "count"
    BY <1>1, <2>1 DEF Snapshot
  <2> QED BY <1>1, <1>2, <2>2, MovesSpaced
<1>5. CASE Fault
  <2>1. ~Serial'
    BY <1>5
  <2> QED BY <1>2, <2>1 DEF Spaced
<1> QED BY <1>3, <1>4, <1>5 DEF AssignAppointmentSlot_Count

\* Appointments are given in one place, and with the slot found free.
LEMMA GivenBy ==
  ASSUME IInv, Spaced, NEW h \in load.handlers, AssignAppointmentSlot_Book(h), Serial,
         NEW a \in Apps, apps'[a].at # apps[a].at
  PROVE  /\ local[h].op = "book" /\ local[h].id = a
         /\ Cardinality(Booked(apps[a].at)') <= local[h].capacity
<1> DEFINE was == Booked(local[h].at)
           is == Booked(apps[a].at)'
<1>1. /\ h \in Goroutines /\ local[h] \in Snapshot /\ local[h].op = "book"
      /\ local[h].id \in Apps /\ apps \in [Apps -> Application]
      /\ apps' = apps \/ apps' = [apps EXCEPT ![local[h].id].at = local[h].at]
  <2>1. h \in Goroutines /\ local[h].op = "book"
    BY LoadFacts DEF IInv, Goroutines, AssignAppointmentSlot_Book
  <2> QED BY <2>1, HolderFacts DEF AfterFiling, IInv, TypeOK, AssignAppointmentSlot_Book
<1>2. local[h].id = a /\ apps' = [apps EXCEPT ![a].at = local[h].at]
  BY <1>1
<1>3. apps'[a].at = local[h].at /\ apps'[a].status = apps[a].status
      /\ \A b \in Apps : b # a => apps'[b] = apps[b]
  BY <1>1, <1>2 DEF Application
<1>4. is \subseteq was \cup {a}
  BY <1>3 DEF Booked, Filed
<1>5. IsFiniteSet(was) /\ Cardinality(was) < local[h].capacity
  <2>1. was \subseteq Filed
    BY DEF Booked
  <2> QED BY <1>1, <2>1, FS_Subset DEF Spaced
<1>6. local[h].capacity \in Nat
  BY <1>1, AdmissionsAssumption DEF Snapshot
<1> HIDE DEF was, is
<1>7. /\ IsFiniteSet(was \cup {a}) /\ Cardinality(was) \in Nat
      /\ Cardinality(was \cup {a}) <= Cardinality(was) + 1 /\ Cardinality(was \cup {a}) \in Nat
  <2>1. /\ IsFiniteSet(was \cup {a})
        /\ Cardinality(was \cup {a}) = IF a \in was THEN Cardinality(was) ELSE Cardinality(was) + 1
    BY <1>5, FS_AddElement
  <2>2. Cardinality(was) \in Nat
    BY <1>5, FS_CardinalityType
  <2> QED BY <2>1, <2>2
<1>8. Cardinality(is) <= Cardinality(was \cup {a}) /\ Cardinality(is) \in Nat
  BY <1>4, <1>7, FS_Subset, FS_CardinalityType
<1>9. Cardinality(is) <= local[h].capacity
  BY <1>5, <1>6, <1>7, <1>8
<1> QED BY <1>1, <1>2, <1>9 DEF is

\* No other step changes an appointment, and none but the count leads to one.
LEMMA HandlerSpaced ==
  ASSUME IInv, Spaced, NEW h \in load.handlers, Serial' => Serial,
         \/ \E child \in load.children, division \in Divisions :
              SubmitApplication_Check(h, child, division)
         \/ CheckDuplicate(h) \/ CreateApplication_Notify(h) \/ AssignAppointmentSlot(h)
         \/ SubmitApplication_Enqueue(h) \/ UpdateStatus_Notify(h) \/ RescheduleAppointment_Count(h)
         \/ \E a \in Filed : \/ RescheduleAppointment_Read(h, a)
                             \/ \E status \in Statuses : UpdateStatus(h, a, status)
  PROVE  Spaced' /\ \A a \in Apps : apps'[a].at = apps[a].at
<1>1. ASSUME Filed' = Filed, load' = load, local'[h].op # "book" PROVE Spaced'
  BY <1>1, MovesSpaced
<1>2. ASSUME UNCHANGED <<apps, load>>, local'[h].op # "book"
      PROVE  Spaced' /\ \A a \in Apps : apps'[a].at = apps[a].at
  BY <1>1, <1>2 DEF Filed
<1>3. ASSUME NEW child \in load.children, NEW division \in Divisions,
             SubmitApplication_Check(h, child, division)
      PROVE  Spaced' /\ \A a \in Apps : apps'[a].at = apps[a].at
  BY <1>2, <1>3, SubmitIInv DEF SubmitApplication_Check
<1>4. CASE CheckDuplicate(h)
  BY <1>2, <1>4, DuplicateIInv DEF CheckDuplicate
<1>5. CASE CreateApplication_Notify(h)
  BY <1>2, <1>5, NotifyIInv DEF CreateApplication_Notify
<1>6. CASE AssignAppointmentSlot(h)
  BY <1>2, <1>6, AssignIInv DEF AssignAppointmentSlot
<1>7. CASE SubmitApplication_Enqueue(h)
  BY <1>2, <1>7, EnqueueIInv, RecordsTyped DEF SubmitApplication_Enqueue
<1>8. CASE UpdateStatus_Notify(h)
  BY <1>2, <1>8, StatusNotifyIInv, RecordsTyped DEF UpdateStatus_Notify
<1>9. CASE RescheduleAppointment_Count(h)
  <2>1. load' = load
    BY <1>9 DEF RescheduleAppointment_Count
  <2> QED BY <1>1, <1>9, <2>1, RescheduleCountIInv, RecordsTyped
<1>10. ASSUME NEW a \in Filed, RescheduleAppointment_Read(h, a)
       PROVE  Spaced' /\ \A b \in Apps : apps'[b].at = apps[b].at
  BY <1>2, <1>10, RescheduleReadIInv DEF RescheduleAppointment_Read
<1>11. ASSUME NEW a \in Filed, NEW status \in Statuses, UpdateStatus(h, a, status)
       PROVE  Spaced' /\ \A b \in Apps : apps'[b].at = apps[b].at
  <2>1. load' = load
    BY <1>11 DEF UpdateStatus
  <2>2. /\ local'[h].op \in {"idle", "statusNotify"} /\ Filed' = Filed
        /\ \A b \in Apps : apps'[b].at = apps[b].at
    BY <1>11, StatusIInv
  <2> QED BY <1>1, <2>1, <2>2
<1> QED BY <1>3, <1>4, <1>5, <1>6, <1>7, <1>8, <1>9, <1>10, <1>11

\* A row is created without an appointment, by a handler that then notifies.
LEMMA CreateSpaced ==
  ASSUME IInv, Spaced, NEW h \in load.handlers, CreateApplication(h), Serial' => Serial
  PROVE  Spaced' /\ \A a \in Apps : apps'[a].at = apps[a].at
<1>1. load' = load /\ local[h].op = "create"
  BY DEF CreateApplication
<1>2. local[h].app.at = Unset
  <2>1. Fit(h, local[h], Filed)
    BY LoadFacts, HolderFacts DEF IInv, Goroutines
  <2> QED BY <1>1, <2>1 DEF Fit
<1>3. CASE apps' = apps /\ local'[h] = Idle
  <2>1. Filed' = Filed
    BY <1>3 DEF Filed
  <2> QED BY <1>1, <1>3, <2>1, RecordsTyped, MovesSpaced
<1>4. ASSUME NEW a \in Apps \ Filed,
             Filed' = Filed \cup {a}, apps'[a] = local[h].app,
             \A b \in Apps : b # a => apps'[b] = apps[b],
             local'[h].op = "notify"
      PROVE  Spaced' /\ \A b \in Apps : apps'[b].at = apps[b].at
  <2>1. apps[a].at = Unset
    BY RecordsTyped DEF IInv, TypeOK
  <2>2. \A b \in Apps : apps'[b].at = apps[b].at
    BY <1>2, <1>4, <2>1
  <2>3. IsFiniteSet(Filed')
    BY <1>4, FS_AddElement DEF Spaced
  <2>4. Serial' => \A g \in load.handlers : local'[g].op # "book"
    BY <1>4, OneHandler DEF IInv
  <2> QED BY <1>1, <2>2, <2>3, <2>4 DEF Spaced
<1> QED BY <1>3, <1>4, CreateIInv

Given == \A a \in Apps : apps'[a].at # apps[a].at =>
  \E h \in load.handlers :
    /\ local[h].op = "book" /\ local[h].id = a
    /\ Cardinality(Booked(apps[a].at)') <= local[h].capacity

LEMMA StepSpaced == IInv /\ Spaced /\ [Next]_vars => Spaced' /\ (Serial' => Given)
<1> SUFFICES ASSUME IInv, Spaced, [Next]_vars PROVE Spaced' /\ (Serial' => Given)
  OBVIOUS
<1>1. Serial' => Serial /\ ~Fault
  BY SerialBefore
<1>2. ASSUME Spaced', \A a \in Apps : apps'[a].at = apps[a].at
      PROVE  Spaced' /\ (Serial' => Given)
  BY <1>2 DEF Given
<1>3. ASSUME UNCHANGED <<apps, load>>, \A h \in load.handlers : local'[h] = local[h]
      PROVE  Spaced' /\ (Serial' => Given)
  <2>1. Spaced'
    BY <1>1, <1>3, UnmovedSpaced
  <2> QED BY <1>2, <1>3, <2>1
<1>4. CASE UNCHANGED vars
  BY <1>3, <1>4 DEF vars
<1>5. CASE Tick
  BY <1>3, <1>5 DEF Tick
<1>6. ASSUME NEW w \in Windows, CloseDate(w) PROVE Spaced' /\ (Serial' => Given)
  BY <1>3, <1>6 DEF CloseDate
<1>7. ASSUME NEW h \in load.handlers, NEW divisions, NEW capacity,
             CreateAdmissionWindow(h, divisions, capacity)
      PROVE  Spaced' /\ (Serial' => Given)
  BY <1>3, <1>7 DEF CreateAdmissionWindow
<1>8. ASSUME NEW h \in load.handlers, CreateApplication(h)
      PROVE  Spaced' /\ (Serial' => Given)
  BY <1>1, <1>2, <1>8, CreateSpaced
<1>9. ASSUME NEW h \in load.handlers, AssignAppointmentSlot_Count(h)
      PROVE  Spaced' /\ (Serial' => Given)
  <2>1. apps' = apps
    BY <1>9 DEF AssignAppointmentSlot_Count
  <2> QED BY <1>1, <1>2, <1>9, <2>1, CountSpaced
<1>10. ASSUME NEW h \in load.handlers, AssignAppointmentSlot_Book(h)
       PROVE  Spaced' /\ (Serial' => Given)
  <2>1. Filed' = Filed /\ load' = load /\ local'[h].op # "book"
    <3>1. /\ local'[h].op # "book"
          /\ apps' = apps \/ OnlyOf(local[h].id)
      BY <1>10, BookIInv, RecordsTyped
    <3> QED BY <1>10, <3>1 DEF OnlyOf, Filed, AssignAppointmentSlot_Book
  <2>2. Spaced'
    BY <1>1, <2>1, MovesSpaced
  <2>3. Serial' => Given
    BY <1>1, <1>10, GivenBy DEF Given
  <2> QED BY <2>2, <2>3
<1>11. ASSUME NEW h \in load.handlers, NEW a \in Filed, OverrideAdmission(h, a)
       PROVE  Spaced' /\ (Serial' => Given)
  <2>1. /\ local' = local /\ Filed' = Filed /\ load' = load /\ local[h] = Idle
        /\ \A b \in Apps : apps'[b].at = apps[b].at
    BY <1>11, OverrideIInv DEF OverrideAdmission
  <2>2. Spaced'
    BY <1>1, <2>1, RecordsTyped, MovesSpaced
  <2> QED BY <1>2, <2>1, <2>2
<1>12. ASSUME NEW h \in load.handlers,
              \/ \E child \in load.children, division \in Divisions :
                   SubmitApplication_Check(h, child, division)
              \/ CheckDuplicate(h) \/ CreateApplication_Notify(h) \/ AssignAppointmentSlot(h)
              \/ SubmitApplication_Enqueue(h) \/ UpdateStatus_Notify(h)
              \/ RescheduleAppointment_Count(h)
              \/ \E a \in Filed : \/ RescheduleAppointment_Read(h, a)
                                  \/ \E status \in Statuses : UpdateStatus(h, a, status)
       PROVE  Spaced' /\ (Serial' => Given)
  BY <1>1, <1>2, <1>12, HandlerSpaced
<1>13. ASSUME NEW w \in load.workers,
              \/ \E a \in Apps : HandleGenerateAppointmentLetter_Read(w, a)
              \/ HandleGenerateAppointmentLetter_Write(w)
       PROVE  Spaced' /\ (Serial' => Given)
  <2>1. Others(w) /\ UNCHANGED <<apps, load>>
    BY <1>13, RenderReadIInv, RenderWriteIInv
       DEF HandleGenerateAppointmentLetter_Read, HandleGenerateAppointmentLetter_Write
  <2>2. \A h \in load.handlers : local'[h] = local[h]
    BY <2>1, LoadFacts, AdmissionsAssumption DEF IInv, Others, Goroutines
  <2> QED BY <1>3, <2>1, <2>2
<1> QED
  BY <1>4, <1>5, <1>6, <1>7, <1>8, <1>9, <1>10, <1>11, <1>12, <1>13, Zenon DEF Next

LEMMA InitSpaced == Init => Spaced
<1> SUFFICES ASSUME Init PROVE Spaced
  OBVIOUS
<1>1. Filed = {}
  BY RecordsTyped DEF Init, Filed
<1>2. \A h \in load.handlers : local[h].op # "book"
  <2>1. load.handlers \subseteq Handlers
    BY AdmissionsAssumption DEF Init
  <2> QED BY <2>1, RecordsTyped DEF Init
<1> QED BY <1>1, <1>2, FS_EmptySet DEF Spaced

\* AssignAppointmentSlot, services/admissions.go:106-124: the count and the
\* booking are two statements; with requests one at a time and no failure an
\* appointment given leaves no more at its instant than the window allows.  (A
\* slot of a day has many instants, see SlotCapacity, and an application that
\* was declined may be taken back.)
THEOREM GivenAsCounted == Spec => GivenWithinCapacity
<1>1. IInv /\ Spaced /\ [Next]_vars => [Serial' => Given]_vars
  BY StepSpaced
<1> QED BY <1>1, AlwaysIInv, InitSpaced, StepSpaced, PTL DEF Spec, GivenWithinCapacity, Given

=============================================================================
