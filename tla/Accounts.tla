------------------------------ MODULE Accounts ------------------------------
(***************************************************************************)
(* Accounts: registration, the confirmation of an address by a mailed      *)
(* code, sign-in, and what the school does to an account.                  *)
(* internal/handlers/users.go, and HandleEmailOTP of                       *)
(* internal/jobs/handlers.go.                                              *)
(*                                                                         *)
(* users.email is the one column with a unique index, rows are not deleted *)
(* and no handler changes an address, so a row is named by its address.    *)
(* Its id is what a parent must send back with a code, and is known only   *)
(* from the answer to the registration: "knows".                           *)
(*                                                                         *)
(* Left out: names, telephone numbers, division scopes, the tokens a       *)
(* sign-in issues, and which office may send a request (the router's       *)
(* middleware).  A parent enters codes that were received, each once; a    *)
(* wrong code changes nothing.                                             *)
(***************************************************************************)
EXTENDS Asynq, FiniteSets

CONSTANTS
  Emails,
  Codes,     \* what GenerateOTP may return
  NoCode,    \* the empty otp_code
  Passwords,
  Roles,     \* users.role; CreatableRoles and "PARENT" are among them
  CreatableRoles, \* isCreatableStaffRole
  OwnerOnlyRoles, \* those of them only the owner may create
  NoUser,    \* the row of an address nobody has an account for
  NoRole,    \* role left out of a request
  Handlers,  \* goroutines serving HTTP requests
  Loads      \* bounds: the traffic a behaviour may have

\* Of a load: handlers serve parents, offices the school; edited are the addresses the school
\* deals with; patient, that a parent does not ask for another code while
\* there is one to try or one on its way; mailer, that a mail service is
\* configured (RESEND_API_KEY): NewEmailService returns nil without.
ASSUME AccountsAssumption ==
  /\ NoCode \notin Codes /\ NoRole \notin Roles
  /\ "PARENT" \in Roles \ CreatableRoles
  /\ OwnerOnlyRoles \subseteq CreatableRoles /\ CreatableRoles \subseteq Roles
  /\ \A l \in Loads :
       /\ l.handlers \subseteq Handlers /\ l.offices \subseteq Handlers
       /\ l.edited \subseteq Emails /\ {l.patient, l.mailer} \subseteq BOOLEAN
       /\ {l.faults, l.crashes, l.expiries} \subseteq Nat

User == [role : Roles, active : BOOLEAN, archived : BOOLEAN, verified : BOOLEAN,
         password : Passwords, code : Codes \cup {NoCode}, expired : BOOLEAN]

ASSUME NoUserAssumption ==
  /\ NoUser \notin User
  /\ NoUser \notin [role : Roles, active : BOOLEAN, archived : BOOLEAN,
                      confirmed : BOOLEAN, password : Passwords]

VARIABLES
  load,     \* one of Loads
  users,    \* the row of each address
  mails,    \* the e-mail tasks waiting in Redis
  local,    \* what each handler is doing, with what it read
  inbox,    \* codes each parent has received and not tried
  knows,    \* parents who were answered with their user_id
  mailed,   \* history: addresses a code has arrived at
  signedIn, \* history: who has signed in
  budget    \* faults, crashes and codes that ran out

vars == <<load, users, mails, local, inbox, knows, mailed, signedIn, budget>>

Exists(e) == users[e] # NoUser

Idle == [op |-> "idle"]

Goto(h, rec) == local' = [local EXCEPT ![h] = rec]
Return(h) == Goto(h, Idle)

\* Something that happens at most as often as the load allows.
Spend(kind) == budget[kind] < load[kind] /\ budget' = [budget EXCEPT ![kind] = @ + 1]
Fault == Spend("faults")

TaskOTP(e, c) == Task("otp", [email |-> e, code |-> c], 3)

\* The error of the enqueue is dropped.
EnqueueEmailOTP(e, c) ==
  \/ mails' = mails \cup {TaskOTP(e, c)} /\ UNCHANGED budget
  \/ Fault /\ UNCHANGED mails

\* One UPDATE of the columns of a row.
Update(e, row) == users' = [users EXCEPT ![e] = row]

-----------------------------------------------------------------------------
(* Opening an account. *)

\* A lookup that fails finds nobody: the handler goes on to the insert.
RegisterParent_Check(h, e, p) ==
  /\ local[h] = Idle
  /\ \/ ~Exists(e) /\ UNCHANGED budget
     \/ Fault
  /\ Goto(h, [op |-> "registerCreate", email |-> e, password |-> p])
  /\ UNCHANGED <<load, users, mails, inbox, knows, mailed, signedIn>>

\* The unique index refuses a second row of an address.
RegisterParent_Create(h) ==
  LET e == local[h].email
  IN /\ local[h].op = "registerCreate"
     /\ \/ /\ ~Exists(e)
           /\ \E c \in Codes :
                /\ Update(e, [role |-> "PARENT", active |-> TRUE, archived |-> FALSE,
                              verified |-> FALSE, password |-> local[h].password,
                              code |-> c, expired |-> FALSE])
                /\ Goto(h, [op |-> "registerMail", email |-> e, code |-> c])
           /\ UNCHANGED budget
        \/ Exists(e) /\ Return(h) /\ UNCHANGED <<users, budget>>
        \/ Fault /\ Return(h) /\ UNCHANGED users
     /\ UNCHANGED <<load, mails, inbox, knows, mailed, signedIn>>

RegisterParent_Mail(h) ==
  /\ local[h].op = "registerMail"
  /\ EnqueueEmailOTP(local[h].email, local[h].code)
  /\ knows' = knows \cup {local[h].email}
  /\ Return(h)
  /\ UNCHANGED <<load, users, inbox, mailed, signedIn>>

isCreatableStaffRole(role) == role \in CreatableRoles

MayCreate(role, owner) == isCreatableStaffRole(role) /\ (role \in OwnerOnlyRoles => owner)

CreateUser_Check(h, e, role, owner, p) ==
  /\ local[h] = Idle
  /\ MayCreate(role, owner)
  /\ \/ ~Exists(e) /\ UNCHANGED budget
     \/ Fault
  /\ Goto(h, [op |-> "staffCreate", email |-> e, role |-> role, password |-> p])
  /\ UNCHANGED <<load, users, mails, inbox, knows, mailed, signedIn>>

CreateUser_Create(h) ==
  LET e == local[h].email
  IN /\ local[h].op = "staffCreate"
     /\ \/ /\ ~Exists(e)
           /\ Update(e, [role |-> local[h].role, active |-> TRUE, archived |-> FALSE,
                         verified |-> TRUE, password |-> local[h].password,
                         code |-> NoCode, expired |-> FALSE])
           /\ UNCHANGED budget
        \/ Exists(e) /\ UNCHANGED <<users, budget>>
        \/ Fault /\ UNCHANGED users
     /\ Return(h)
     /\ UNCHANGED <<load, mails, inbox, knows, mailed, signedIn>>

-----------------------------------------------------------------------------
(* Confirming the address. *)

\* A parent tries a code; it is the one stored and has not run out, or the
\* request is refused.
VerifyOTP_Read(h, e, c) ==
  LET row == users[e]
  IN /\ local[h] = Idle
     /\ e \in knows /\ c \in inbox[e]
     /\ inbox' = [inbox EXCEPT ![e] = @ \ {c}]
     /\ \/ /\ ~row.verified /\ row.code = c /\ ~row.expired
           /\ Goto(h, [op |-> "verifyWrite", email |-> e, row |-> row])
        \/ /\ row.verified \/ row.code # c \/ row.expired
           /\ UNCHANGED local
     /\ UNCHANGED <<load, users, mails, knows, mailed, signedIn, budget>>

\* Mutant: the row that was read is saved as a whole.
VerifiedSnapshot(row, snapshot) ==
  [snapshot EXCEPT !.verified = TRUE, !.code = NoCode, !.expired = FALSE]

\* The columns VerifyOTP updates, in the row as it is by then.
Verified(row, snapshot) == [row EXCEPT !.verified = TRUE, !.code = NoCode, !.expired = FALSE]

\* The error of the update is not looked at.
VerifyOTP_Write(h) ==
  LET e == local[h].email
  IN /\ local[h].op = "verifyWrite"
     /\ \/ Update(e, Verified(users[e], local[h].row)) /\ UNCHANGED budget
        \/ Fault /\ UNCHANGED users
     /\ Return(h)
     /\ UNCHANGED <<load, mails, inbox, knows, mailed, signedIn>>

\* A code for e is on its way, or has come and was not tried.
Pending(e) ==
  \/ inbox[e] # {}
  \/ \E t \in mails : t.row.email = e
  \/ \E h \in Handlers : local[h] # Idle /\ local[h].email = e

ResendOTP_Read(h, e) ==
  /\ local[h] = Idle
  /\ e \in knows
  /\ load.patient => ~Pending(e)
  /\ ~users[e].verified
  /\ Goto(h, [op |-> "resendWrite", email |-> e])
  /\ UNCHANGED <<load, users, mails, inbox, knows, mailed, signedIn, budget>>

\* The error of the update is not looked at: the code is mailed all the same.
ResendOTP_Write(h) ==
  LET e == local[h].email
  IN /\ local[h].op = "resendWrite"
     /\ \E c \in Codes :
          /\ \/ Update(e, [users[e] EXCEPT !.code = c, !.expired = FALSE]) /\ UNCHANGED budget
             \/ Fault /\ UNCHANGED users
          /\ Goto(h, [op |-> "resendMail", email |-> e, code |-> c])
     /\ UNCHANGED <<load, mails, inbox, knows, mailed, signedIn>>

\* Mutant: nothing is sent.
ResendOTP_MailNothing(h) ==
  /\ local[h].op = "resendMail"
  /\ Return(h)
  /\ UNCHANGED <<load, users, mails, inbox, knows, mailed, signedIn, budget>>

ResendOTP_Mail(h) ==
  /\ local[h].op = "resendMail"
  /\ EnqueueEmailOTP(local[h].email, local[h].code)
  /\ Return(h)
  /\ UNCHANGED <<load, users, inbox, knows, mailed, signedIn>>

Deliver(t) ==
  /\ inbox' = [inbox EXCEPT ![t.row.email] = @ \cup {t.row.code}]
  /\ mailed' = mailed \cup {t.row.email}

\* Sent, and perhaps delivered again because the acknowledgement was lost; or
\* not sent, and retried.  Without a mail service the code is logged only, and
\* the task counts as done.
HandleEmailOTP(t) ==
  /\ \/ load.mailer /\ mails' = mails \ {t} /\ Deliver(t) /\ UNCHANGED budget
     \/ load.mailer /\ mails' = Retry(mails, t) /\ Deliver(t) /\ Fault
     \/ load.mailer /\ mails' = Retry(mails, t) /\ UNCHANGED <<inbox, mailed>> /\ Fault
     \/ ~load.mailer /\ mails' = mails \ {t} /\ UNCHANGED <<inbox, mailed, budget>>
  /\ UNCHANGED <<load, users, local, knows, signedIn>>

\* Fifteen minutes pass.
Expire(e) ==
  /\ Exists(e) /\ users[e].code # NoCode /\ ~users[e].expired
  /\ Update(e, [users[e] EXCEPT !.expired = TRUE])
  /\ Spend("expiries")
  /\ UNCHANGED <<load, mails, local, inbox, knows, mailed, signedIn>>

-----------------------------------------------------------------------------
(* Signing in. *)

Login_Read(h, e, p) ==
  LET row == users[e]
  IN /\ local[h] = Idle
     /\ Exists(e) /\ ~row.archived
     /\ row.active
     /\ row.verified \/ row.role # "PARENT"
     /\ row.password = p
     /\ Goto(h, [op |-> "login", email |-> e])
     /\ UNCHANGED <<load, users, mails, inbox, knows, mailed, signedIn, budget>>

\* The update of last_login may fail: the answer is the same.
Login_Write(h) ==
  /\ local[h].op = "login"
  /\ signedIn' = signedIn \cup {local[h].email}
  /\ Return(h)
  /\ UNCHANGED <<load, users, mails, inbox, knows, mailed, budget>>

-----------------------------------------------------------------------------
(* What the school does to an account: one update each, by id.  A role or an
   activity that is left out of the request stays. *)

UpdateUser(e, role, on) ==
  /\ Exists(e)
  /\ Update(e, [users[e] EXCEPT !.role = IF role = NoRole THEN @ ELSE role,
                                !.active = IF on = {} THEN @ ELSE TRUE \in on])
  /\ UNCHANGED <<load, mails, local, inbox, knows, mailed, signedIn, budget>>

\* Mutant: the row is deleted.
ArchiveUserDelete(e) ==
  /\ Exists(e)
  /\ Update(e, NoUser)
  /\ UNCHANGED <<load, mails, local, inbox, knows, mailed, signedIn, budget>>

\* "archives, never deletes".
ArchiveUser(e) ==
  /\ Exists(e)
  /\ Update(e, [users[e] EXCEPT !.archived = TRUE, !.active = FALSE])
  /\ UNCHANGED <<load, mails, local, inbox, knows, mailed, signedIn, budget>>

\* These look first whether the account is there and not archived.
OwnerAction_Read(h, e, next) ==
  /\ local[h] = Idle
  /\ Exists(e) /\ ~users[e].archived
  /\ Goto(h, next)
  /\ UNCHANGED <<load, users, mails, inbox, knows, mailed, signedIn, budget>>

ResetUserPassword_Read(h, e, p) ==
  OwnerAction_Read(h, e, [op |-> "passwordWrite", email |-> e, password |-> p])
SuspendUser_Read(h, e) == OwnerAction_Read(h, e, [op |-> "suspendWrite", email |-> e])
UnlockUser_Read(h, e) == OwnerAction_Read(h, e, [op |-> "unlockWrite", email |-> e])

OwnerAction_Write(h, op, row) ==
  /\ local[h].op = op
  /\ \/ Update(local[h].email, row) /\ UNCHANGED budget
     \/ Fault /\ UNCHANGED users
  /\ Return(h)
  /\ UNCHANGED <<load, mails, inbox, knows, mailed, signedIn>>

ResetUserPassword_Write(h) ==
  OwnerAction_Write(h, "passwordWrite",
                    [users[local[h].email] EXCEPT !.password = local[h].password])
SuspendUser_Write(h) ==
  OwnerAction_Write(h, "suspendWrite", [users[local[h].email] EXCEPT !.active = FALSE])
UnlockUser_Write(h) ==
  OwnerAction_Write(h, "unlockWrite", [users[local[h].email] EXCEPT !.active = TRUE])

-----------------------------------------------------------------------------
\* The server process dies, and with it every request.
Crash ==
  /\ Spend("crashes")
  /\ local' = [h \in Handlers |-> Idle]
  /\ UNCHANGED <<load, users, mails, inbox, knows, mailed, signedIn>>

Init ==
  /\ load \in Loads
  /\ users = [e \in Emails |-> NoUser]
  /\ mails = {}
  /\ local = [h \in Handlers |-> Idle]
  /\ inbox = [e \in Emails |-> {}]
  /\ knows = {} /\ mailed = {} /\ signedIn = {}
  /\ budget = [kind \in {"faults", "crashes", "expiries"} |-> 0]

Proceed(h) ==
  \/ RegisterParent_Create(h) \/ RegisterParent_Mail(h) \/ CreateUser_Create(h)
  \/ VerifyOTP_Write(h) \/ ResendOTP_Write(h) \/ ResendOTP_Mail(h) \/ Login_Write(h)
  \/ ResetUserPassword_Write(h) \/ SuspendUser_Write(h) \/ UnlockUser_Write(h)

\* What a parent does about the account.
Try(e) == \E h \in load.handlers : \E c \in inbox[e] : VerifyOTP_Read(h, e, c)
AskAgain(e) == \E h \in load.handlers : ResendOTP_Read(h, e)
SignIn(e) == \E h \in load.handlers, p \in Passwords : Login_Read(h, e, p)

Manage(e) ==
  \/ \E role \in Roles \cup {NoRole}, on \in {{}, {TRUE}, {FALSE}} : UpdateUser(e, role, on)
  \/ ArchiveUser(e)
  \/ \E h \in load.offices :
       \/ \E role \in Roles, owner \in BOOLEAN, p \in Passwords : CreateUser_Check(h, e, role, owner, p)
       \/ \E p \in Passwords : ResetUserPassword_Read(h, e, p)
       \/ SuspendUser_Read(h, e) \/ UnlockUser_Read(h, e)

Next ==
  \/ \E h \in Handlers : Proceed(h)
  \/ \E e \in Emails :
       \/ \E h \in load.handlers, p \in Passwords : RegisterParent_Check(h, e, p)
       \/ Try(e) \/ AskAgain(e) \/ SignIn(e)
       \/ Expire(e)
  \/ \E t \in mails : HandleEmailOTP(t)
  \/ \E e \in load.edited : Manage(e)
  \/ Crash

Spec == Init /\ [][Next]_vars

\* What a goroutine has begun goes on, and tasks in the queue are run.  The
\* parents are those who keep at it: they try what they receive, ask for
\* another code when there is none to try, and sign in when they can.
Fairness ==
  /\ \A h \in Handlers : WF_vars(Proceed(h))
  /\ \A e \in Emails :
       /\ \A c \in Codes, n \in 0..3 :
            LET t == [TaskOTP(e, c) EXCEPT !.left = n] IN WF_vars(t \in mails /\ HandleEmailOTP(t))
       /\ SF_vars(Try(e)) /\ SF_vars(AskAgain(e)) /\ SF_vars(SignIn(e))

FairSpec == Spec /\ Fairness

-----------------------------------------------------------------------------
(* Properties. *)

Steps ==
  [op : {"registerCreate"}, email : Emails, password : Passwords]
  \cup [op : {"registerMail"}, email : Emails, code : Codes]
  \cup [op : {"staffCreate"}, email : Emails, role : CreatableRoles, password : Passwords]
  \cup [op : {"verifyWrite"}, email : Emails, row : User]
  \cup [op : {"resendWrite"}, email : Emails]
  \cup [op : {"resendMail"}, email : Emails, code : Codes]
  \cup [op : {"login"}, email : Emails]
  \cup [op : {"passwordWrite"}, email : Emails, password : Passwords]
  \cup [op : {"suspendWrite", "unlockWrite"}, email : Emails]

Tasks == [type : {"otp"}, row : [email : Emails, code : Codes], left : 0..3]

\* Every variable has its type; a handler that is past its look-up, a mail and a
\* received code belong to an account that exists, and a code is stored until
\* the address is confirmed.
TypeOK ==
  /\ load \in Loads
  /\ users \in [Emails -> User \cup {NoUser}]
  /\ mails \subseteq Tasks
  /\ local \in [Handlers -> Steps \cup {Idle}]
  /\ inbox \in [Emails -> SUBSET Codes]
  /\ knows \subseteq Emails /\ mailed \subseteq Emails /\ signedIn \subseteq Emails
  /\ budget \in [{"faults", "crashes", "expiries"} -> Nat]
  /\ \A h \in Handlers :
       local[h] = Idle \/ local[h].op \in {"registerCreate", "staffCreate"} \/ Exists(local[h].email)
  /\ \A t \in mails : Exists(t.row.email)
  /\ \A e \in Emails : e \in knows \/ e \in mailed \/ e \in signedIn \/ inbox[e] # {} => Exists(e)

\* What a row says of the account: the refinement mapping.
AccountOf(row) ==
  IF row = NoUser THEN NoUser
  ELSE [role |-> row.role, active |-> row.active, archived |-> row.archived,
        confirmed |-> row.verified, password |-> row.password]

Life == INSTANCE AccountLife
          WITH NoAccount <- NoUser, account <- [e \in Emails |-> AccountOf(users[e])],
               reached <- mailed

\* users.go: requests about one account overlap, fail and die half way, yet each
\* does to the row what it is for and nothing else: an account is opened once,
\* confirmed only once a code has arrived at its address, archived for good, and
\* no confirmation, code or edit puts back a role, a suspension or a password
\* that was changed meanwhile.
AccountSpec == Life!Spec

\* RegisterParent, VerifyOTP, ResendOTP and Login: a parent who was told the id
\* of the account, and keeps trying the codes received, asking for another when
\* there is none, signs in at last, although a mail, an enqueue or an update
\* fails, a code runs out, or the server dies - as long as a mail service is
\* configured: without one no code ever arrives.
ParentsGetIn ==
  \A e \in Emails : load.patient /\ load.mailer /\ e \in knows ~> e \in signedIn

=============================================================================
