--------------------------- MODULE AccountsProofs ---------------------------
(***************************************************************************)
(* What holds of accounts for any addresses, codes, handlers and loads.    *)
(*                                                                         *)
(* IInv adds to the type invariant where a confirmation comes from: a code *)
(* is received only when a mail has arrived, so a handler about to confirm *)
(* an address knows that one has.  The refinement follows step by step:    *)
(* every UPDATE of the code is one action of AccountLife on one account.   *)
(***************************************************************************)
EXTENDS Accounts, TLAPS

ByMail ==
  /\ \A e \in Emails : inbox[e] # {} => e \in mailed
  /\ \A h \in Handlers : local[h].op = "verifyWrite" => local[h].email \in mailed

IInv == TypeOK /\ ByMail

-----------------------------------------------------------------------------
(* What a handler holds. *)

\* A handler that is doing something is past one of the look-ups, with what it
\* read; the fields it has depend on the step it is at.
LEMMA Holding ==
  ASSUME TypeOK, NEW h \in Handlers, local[h].op # "idle"
  PROVE  /\ local[h] \in Steps /\ local[h] # Idle
         /\ local[h].email \in Emails
         /\ local[h].op \in {"registerCreate", "passwordWrite"} => local[h].password \in Passwords
         /\ local[h].op \in {"registerMail", "resendMail"} => local[h].code \in Codes
         /\ local[h].op = "staffCreate" => /\ local[h].role \in CreatableRoles
                                           /\ local[h].password \in Passwords
         /\ local[h].op = "verifyWrite" => local[h].row \in User
         /\ local[h].op \notin {"registerCreate", "staffCreate"} => Exists(local[h].email)
<1>1. local[h] \in Steps \cup {Idle}
  BY DEF TypeOK
<1>2. local[h] # Idle
  BY DEF Idle
<1>3. local[h] \in Steps
  BY <1>1, <1>2
<1>4. local[h].op \notin {"registerCreate", "staffCreate"} => Exists(local[h].email)
  BY <1>2 DEF TypeOK
<1>5. CASE local[h] \in [op : {"registerCreate"}, email : Emails, password : Passwords]
  BY <1>5, <1>3, <1>2, <1>4
<1>6. CASE local[h] \in [op : {"registerMail"}, email : Emails, code : Codes]
           \cup [op : {"resendMail"}, email : Emails, code : Codes]
  BY <1>6, <1>3, <1>2, <1>4
<1>7. CASE local[h] \in [op : {"staffCreate"}, email : Emails, role : CreatableRoles,
                          password : Passwords]
  BY <1>7, <1>3, <1>2, <1>4
<1>8. CASE local[h] \in [op : {"verifyWrite"}, email : Emails, row : User]
  BY <1>8, <1>3, <1>2, <1>4
<1>9. CASE local[h] \in [op : {"resendWrite"}, email : Emails]
           \cup [op : {"login"}, email : Emails]
           \cup [op : {"suspendWrite", "unlockWrite"}, email : Emails]
  BY <1>9, <1>3, <1>2, <1>4
<1>10. CASE local[h] \in [op : {"passwordWrite"}, email : Emails, password : Passwords]
  BY <1>10, <1>3, <1>2, <1>4
<1> QED BY <1>3, <1>5, <1>6, <1>7, <1>8, <1>9, <1>10 DEF Steps


-----------------------------------------------------------------------------
(* Type correctness, part by part. *)

Rows == users \in [Emails -> User \cup {NoUser}]
\* The account a handler is past the look-up of is there.
Fine(h) == local[h] = Idle \/ local[h].op \in {"registerCreate", "staffCreate"} \/ Exists(local[h].email)
Threads ==
  /\ local \in [Handlers -> Steps \cup {Idle}]
  /\ \A h \in Handlers : Fine(h)
Posts == mails \subseteq Tasks /\ \A t \in mails : Exists(t.row.email)
People ==
  /\ inbox \in [Emails -> SUBSET Codes]
  /\ knows \subseteq Emails /\ mailed \subseteq Emails /\ signedIn \subseteq Emails
  /\ \A e \in Emails : e \in knows \/ e \in mailed \/ e \in signedIn \/ inbox[e] # {} => Exists(e)
Counts == budget \in [{"faults", "crashes", "expiries"} -> Nat]

\* No account ever goes away.
Grows == \A e \in Emails : Exists(e) => Exists(e)'

LEMMA Parts == TypeOK <=> load \in Loads /\ Rows /\ Threads /\ Posts /\ People /\ Counts
BY DEF TypeOK, Rows, Threads, Fine, Posts, People, Counts

LEMMA RowsKept ==
  ASSUME Rows, UNCHANGED users PROVE Rows' /\ Grows
BY DEF Rows, Grows, Exists

LEMMA RowUpdated ==
  ASSUME Rows, NEW e \in Emails, NEW row \in User, Update(e, row)
  PROVE  Rows' /\ Grows /\ Exists(e)'
BY NoUserAssumption DEF Rows, Grows, Exists, Update

\* A handler that does nothing new stays with its account.
LEMMA Stayed ==
  ASSUME Threads, Grows, NEW g \in Handlers, local'[g] = local[g]
  PROVE  Fine(g)'
<1>1. local[g] = Idle \/ local[g].email \in Emails
  BY DEF Threads, Steps
<1>2. Fine(g)
  BY DEF Threads
<1>3. Exists(local[g].email) /\ local[g].email \in Emails => Exists(local[g].email)'
  BY DEF Grows, Exists
<1> QED BY <1>1, <1>2, <1>3 DEF Fine, Exists, Idle

\* A handler goes on to a step of a type it may be at, about an account that is
\* there unless the step is the one that opens it.
LEMMA WentOn ==
  ASSUME Threads, Grows, NEW h \in Handlers, NEW rec \in Steps, Goto(h, rec),
         rec.op \in {"registerCreate", "staffCreate"} \/ users'[rec.email] # NoUser
  PROVE  Threads'
<1>1. local' \in [Handlers -> Steps \cup {Idle}]
  BY DEF Threads, Goto
<1>2. Fine(h)'
  BY DEF Threads, Goto, Fine, Exists
<1>3. ASSUME NEW g \in Handlers, g # h
      PROVE  Fine(g)'
  BY <1>3, Stayed DEF Threads, Goto
<1> QED BY <1>1, <1>2, <1>3 DEF Threads

LEMMA Returned ==
  ASSUME Threads, Grows, NEW h \in Handlers, Return(h)
  PROVE  Threads'
<1>1. local' \in [Handlers -> Steps \cup {Idle}]
  BY DEF Threads, Goto, Return
<1>2. Fine(h)'
  BY DEF Threads, Goto, Return, Fine
<1>3. ASSUME NEW g \in Handlers, g # h
      PROVE  Fine(g)'
  BY <1>3, Stayed DEF Threads, Goto, Return
<1> QED BY <1>1, <1>2, <1>3 DEF Threads

LEMMA StillThere ==
  ASSUME Threads, Grows, UNCHANGED local
  PROVE  Threads'
BY Stayed DEF Threads

LEMMA PostsKept ==
  ASSUME Posts, Grows, mails' \subseteq Tasks,
         \A t \in mails' : t \in mails \/ Exists(t.row.email)'
  PROVE  Posts'
<1>1. \A t \in mails : t.row.email \in Emails
  BY DEF Posts, Tasks
<1> QED BY <1>1 DEF Posts, Grows, Exists

LEMMA PeopleKept ==
  ASSUME People, Grows, UNCHANGED <<inbox, knows, mailed, signedIn>>
  PROVE  People'
BY DEF People, Grows, Exists

LEMMA Spent ==
  ASSUME Counts, (\E kind \in {"faults", "crashes", "expiries"} : Spend(kind)) \/ UNCHANGED budget
  PROVE  Counts'
BY DEF Counts, Spend

LEMMA Whole ==
  ASSUME TypeOK, UNCHANGED load, Rows', Threads', Posts', People', Counts'
  PROVE  TypeOK'
BY DEF TypeOK, Rows, Threads, Fine, Posts, People, Counts

\* A step that touches no row, mail or person.
LEMMA Local ==
  ASSUME TypeOK, UNCHANGED <<load, users, mails, inbox, knows, mailed, signedIn>>,
         Threads', Counts'
  PROVE  TypeOK'
<1>1. Rows /\ Posts /\ People
  BY Parts
<1>2. Rows' /\ Grows
  BY <1>1, RowsKept
<1>3. Posts'
  BY <1>1, <1>2, PostsKept DEF Posts
<1>4. People'
  BY <1>1, <1>2, PeopleKept
<1> QED BY <1>2, <1>3, <1>4, Whole

\* An UPDATE of a row by a handler that is then done, or fails.
LEMMA Wrote ==
  ASSUME TypeOK, NEW h \in Handlers, local[h].op # "idle", NEW row \in User,
         \/ Update(local[h].email, row) /\ UNCHANGED budget
         \/ Fault /\ UNCHANGED users,
         Return(h), UNCHANGED <<load, mails, inbox, knows, mailed, signedIn>>
  PROVE  TypeOK'
<1>1. Rows /\ Threads /\ Posts /\ People /\ Counts
  BY Parts
<1>2. Rows' /\ Grows
  BY <1>1, Holding, RowsKept, RowUpdated
<1>3. Threads'
  BY <1>1, <1>2, Returned
<1>4. Posts' /\ People'
  BY <1>1, <1>2, PostsKept, PeopleKept DEF Posts
<1>5. Counts'
  BY <1>1, Spent DEF Fault
<1> QED BY <1>2, <1>3, <1>4, <1>5, Whole

\* An UPDATE of the row of an account in one step.
LEMMA Edited ==
  ASSUME TypeOK, NEW e \in Emails, NEW row \in User, Update(e, row), Counts',
         UNCHANGED <<load, mails, local, inbox, knows, mailed, signedIn>>
  PROVE  TypeOK'
<1>1. Rows /\ Threads /\ Posts /\ People
  BY Parts
<1>2. Rows' /\ Grows
  BY <1>1, RowUpdated
<1>3. Threads' /\ Posts' /\ People'
  BY <1>1, <1>2, StillThere, PostsKept, PeopleKept DEF Posts
<1> QED BY <1>2, <1>3, Whole

LEMMA Enqueued ==
  ASSUME TypeOK, UNCHANGED users, NEW e \in Emails, Exists(e), NEW c \in Codes,
         EnqueueEmailOTP(e, c)
  PROVE  Posts' /\ Counts'
<1>1. Rows /\ Posts /\ Counts
  BY Parts
<1>2. Grows /\ users'[e] # NoUser
  BY <1>1, RowsKept DEF Exists
<1>3. Counts'
  BY <1>1, Spent DEF EnqueueEmailOTP, Fault
<1>4. TaskOTP(e, c) \in Tasks /\ TaskOTP(e, c).row.email = e
  BY DEF TaskOTP, Task, Tasks
<1>5. mails' \subseteq mails \cup {TaskOTP(e, c)}
  BY DEF EnqueueEmailOTP
<1>6. mails' \subseteq Tasks
  BY <1>1, <1>4, <1>5 DEF Posts
<1>7. \A t \in mails' : t \in mails \/ Exists(t.row.email)'
  BY <1>2, <1>4, <1>5 DEF Exists
<1> QED BY <1>1, <1>2, <1>3, <1>6, <1>7, PostsKept

LEMMA TypeRegisterParent ==
  ASSUME TypeOK, NEW h \in Handlers,
         \/ \E e \in Emails, p \in Passwords : RegisterParent_Check(h, e, p)
         \/ RegisterParent_Create(h) \/ RegisterParent_Mail(h)
  PROVE  TypeOK'
<1>1. Rows /\ Threads /\ Posts /\ People /\ Counts
  BY Parts
<1>2. ASSUME NEW e \in Emails, NEW p \in Passwords, RegisterParent_Check(h, e, p)
      PROVE  TypeOK'
  <2>1. [op |-> "registerCreate", email |-> e, password |-> p] \in Steps
    BY DEF Steps
  <2>2. Counts' /\ Grows
    BY <1>1, <1>2, Spent, RowsKept DEF RegisterParent_Check, Fault
  <2>3. Threads'
    BY <1>1, <1>2, <2>1, <2>2, WentOn DEF RegisterParent_Check
  <2> QED BY <1>2, <2>2, <2>3, Local DEF RegisterParent_Check
<1>3. CASE RegisterParent_Create(h)
  <2> DEFINE e == local[h].email
  <2>1. e \in Emails /\ local[h].password \in Passwords /\ local[h].op # "idle"
    BY <1>3, Holding DEF RegisterParent_Create
  <2>2. ASSUME NEW c \in Codes,
               Update(e, [role |-> "PARENT", active |-> TRUE, archived |-> FALSE,
                          verified |-> FALSE, password |-> local[h].password,
                          code |-> c, expired |-> FALSE]),
               Goto(h, [op |-> "registerMail", email |-> e, code |-> c]),
               UNCHANGED budget
        PROVE  TypeOK'
    <3>1. [role |-> "PARENT", active |-> TRUE, archived |-> FALSE,
           verified |-> FALSE, password |-> local[h].password,
           code |-> c, expired |-> FALSE] \in User
      BY <2>1, AccountsAssumption DEF User
    <3>2. Rows' /\ Grows /\ users'[e] # NoUser
      BY <1>1, <2>1, <2>2, <3>1, RowUpdated DEF Exists
    <3>3. [op |-> "registerMail", email |-> e, code |-> c] \in Steps
      BY <2>1 DEF Steps
    <3>4. Threads'
      BY <1>1, <2>2, <3>2, <3>3, WentOn
    <3>5. Posts' /\ People' /\ Counts' /\ UNCHANGED load
      BY <1>1, <1>3, <2>2, <3>2, PostsKept, PeopleKept, Spent DEF RegisterParent_Create, Posts
    <3> QED BY <3>2, <3>4, <3>5, Whole
  <2>3. CASE Return(h) /\ UNCHANGED users /\ (Fault \/ UNCHANGED budget)
    <3>1. Counts' /\ Grows
      BY <1>1, <2>3, Spent, RowsKept DEF Fault
    <3>2. Threads'
      BY <1>1, <2>3, <3>1, Returned
    <3> QED BY <1>3, <2>3, <3>1, <3>2, Local DEF RegisterParent_Create
  <2> QED BY <1>3, <2>2, <2>3 DEF RegisterParent_Create
<1>4. CASE RegisterParent_Mail(h)
  <2>1. /\ local[h].email \in Emails /\ local[h].code \in Codes
        /\ Exists(local[h].email)
    BY <1>4, Holding DEF RegisterParent_Mail
  <2>2. Rows' /\ Grows
    BY <1>1, <1>4, RowsKept DEF RegisterParent_Mail
  <2>3. Threads'
    BY <1>1, <1>4, <2>2, Returned DEF RegisterParent_Mail
  <2>4. Posts' /\ Counts'
    BY <1>4, <2>1, Enqueued DEF RegisterParent_Mail
  <2>5. People'
    BY <1>1, <1>4, <2>1 DEF RegisterParent_Mail, People, Exists
  <2> QED BY <1>4, <2>2, <2>3, <2>4, <2>5, Whole DEF RegisterParent_Mail
<1> QED BY <1>2, <1>3, <1>4

LEMMA TypeCreateUser ==
  ASSUME TypeOK, NEW h \in Handlers,
         \/ \E e \in Emails, role \in Roles, owner \in BOOLEAN, p \in Passwords :
              CreateUser_Check(h, e, role, owner, p)
         \/ CreateUser_Create(h)
  PROVE  TypeOK'
<1>1. Rows /\ Threads /\ Posts /\ People /\ Counts
  BY Parts
<1>2. ASSUME NEW e \in Emails, NEW role \in Roles, NEW owner \in BOOLEAN, NEW p \in Passwords,
             CreateUser_Check(h, e, role, owner, p)
      PROVE  TypeOK'
  <2>1. [op |-> "staffCreate", email |-> e, role |-> role, password |-> p] \in Steps
    BY <1>2 DEF Steps, CreateUser_Check, MayCreate, isCreatableStaffRole
  <2>2. Counts' /\ Grows
    BY <1>1, <1>2, Spent, RowsKept DEF CreateUser_Check, Fault
  <2>3. Threads'
    BY <1>1, <1>2, <2>1, <2>2, WentOn DEF CreateUser_Check
  <2> QED BY <1>2, <2>2, <2>3, Local DEF CreateUser_Check
<1>3. CASE CreateUser_Create(h)
  <2>1. local[h].role \in CreatableRoles /\ local[h].password \in Passwords /\ local[h].op # "idle"
    BY <1>3, Holding DEF CreateUser_Create
  <2> DEFINE row == [role |-> local[h].role, active |-> TRUE, archived |-> FALSE,
                     verified |-> TRUE, password |-> local[h].password,
                     code |-> NoCode, expired |-> FALSE]
  <2>2. row \in User
    BY <2>1, AccountsAssumption DEF User
  <2>3. CASE Exists(local[h].email) /\ UNCHANGED <<users, budget>>
    <3>1. Counts' /\ Grows
      BY <1>1, <2>3, Spent, RowsKept
    <3>2. Threads'
      BY <1>1, <1>3, <3>1, Returned DEF CreateUser_Create
    <3> QED BY <1>3, <2>3, <3>1, <3>2, Local DEF CreateUser_Create
  <2>4. CASE \/ Update(local[h].email, row) /\ UNCHANGED budget
             \/ Fault /\ UNCHANGED users
    BY <1>3, <2>1, <2>2, <2>4, Wrote DEF CreateUser_Create
  <2> QED BY <1>3, <2>3, <2>4 DEF CreateUser_Create
<1> QED BY <1>2, <1>3

LEMMA TypeVerifyOTP ==
  ASSUME TypeOK, NEW h \in Handlers,
         (\E e \in Emails : \E c \in inbox[e] : VerifyOTP_Read(h, e, c)) \/ VerifyOTP_Write(h)
  PROVE  TypeOK'
<1>1. Rows /\ Threads /\ Posts /\ People /\ Counts
  BY Parts
<1>2. ASSUME NEW e \in Emails, NEW c \in inbox[e], VerifyOTP_Read(h, e, c)
      PROVE  TypeOK'
  <2>1. Rows' /\ Grows /\ Exists(e) /\ users[e] \in User
    BY <1>1, <1>2, RowsKept DEF VerifyOTP_Read, People, Rows, Exists
  <2>2. Threads'
    <3>1. CASE Goto(h, [op |-> "verifyWrite", email |-> e, row |-> users[e]])
      <4>1. [op |-> "verifyWrite", email |-> e, row |-> users[e]] \in Steps
        BY <2>1 DEF Steps
      <4>2. users'[e] # NoUser
        BY <1>2, <2>1 DEF VerifyOTP_Read, Exists
      <4> QED BY <1>1, <2>1, <3>1, <4>1, <4>2, WentOn
    <3>2. CASE UNCHANGED local
      BY <1>1, <2>1, <3>2, StillThere
    <3> QED BY <1>2, <3>1, <3>2 DEF VerifyOTP_Read
  <2>3. Posts' /\ Counts'
    BY <1>1, <1>2, <2>1, PostsKept, Spent DEF VerifyOTP_Read, Posts
  <2>4. inbox' \in [Emails -> SUBSET Codes] /\ \A a \in Emails : inbox'[a] \subseteq inbox[a]
    BY <1>1, <1>2 DEF VerifyOTP_Read, People
  <2>5. People'
    BY <1>1, <1>2, <2>1, <2>4 DEF VerifyOTP_Read, People, Grows, Exists
  <2> QED BY <1>2, <2>1, <2>2, <2>3, <2>5, Whole DEF VerifyOTP_Read
<1>3. CASE VerifyOTP_Write(h)
  <2>1. local[h].op # "idle" /\ users[local[h].email] \in User
    BY <1>1, <1>3, Holding DEF VerifyOTP_Write, Rows, Exists
  <2>2. Verified(users[local[h].email], local[h].row) \in User
    BY <2>1 DEF Verified, User
  <2> QED BY <1>3, <2>1, <2>2, Wrote DEF VerifyOTP_Write
<1> QED BY <1>2, <1>3

LEMMA TypeResendOTP ==
  ASSUME TypeOK, NEW h \in Handlers,
         \/ \E e \in Emails : ResendOTP_Read(h, e)
         \/ ResendOTP_Write(h) \/ ResendOTP_Mail(h)
  PROVE  TypeOK'
<1>1. Rows /\ Threads /\ Posts /\ People /\ Counts
  BY Parts
<1>2. ASSUME NEW e \in Emails, ResendOTP_Read(h, e)
      PROVE  TypeOK'
  <2>1. [op |-> "resendWrite", email |-> e] \in Steps
    BY DEF Steps
  <2>2. Counts' /\ Grows /\ users'[e] # NoUser
    BY <1>1, <1>2, Spent, RowsKept DEF ResendOTP_Read, People, Exists
  <2>3. Threads'
    BY <1>1, <1>2, <2>1, <2>2, WentOn DEF ResendOTP_Read
  <2> QED BY <1>2, <2>2, <2>3, Local DEF ResendOTP_Read
<1>3. CASE ResendOTP_Write(h)
  <2> DEFINE e == local[h].email
  <2>1. e \in Emails /\ users[e] \in User
    BY <1>1, <1>3, Holding DEF ResendOTP_Write, Rows, Exists
  <2>2. PICK c \in Codes :
          /\ \/ Update(e, [users[e] EXCEPT !.code = c, !.expired = FALSE]) /\ UNCHANGED budget
             \/ Fault /\ UNCHANGED users
          /\ Goto(h, [op |-> "resendMail", email |-> e, code |-> c])
    BY <1>3 DEF ResendOTP_Write
  <2>3. [users[e] EXCEPT !.code = c, !.expired = FALSE] \in User
    BY <2>1 DEF User
  <2>4. Rows' /\ Grows
    BY <1>1, <2>1, <2>2, <2>3, RowsKept, RowUpdated
  <2>5. users'[e] # NoUser
    BY <2>1, <2>4, NoUserAssumption DEF Grows, Exists
  <2>6. [op |-> "resendMail", email |-> e, code |-> c] \in Steps
    BY <2>1 DEF Steps
  <2>7. Threads'
    BY <1>1, <2>2, <2>4, <2>5, <2>6, WentOn
  <2>8. Posts' /\ People' /\ Counts'
    BY <1>1, <1>3, <2>2, <2>4, PostsKept, PeopleKept, Spent DEF ResendOTP_Write, Posts, Fault
  <2> QED BY <1>3, <2>4, <2>7, <2>8, Whole DEF ResendOTP_Write
<1>4. CASE ResendOTP_Mail(h)
  <2>1. /\ local[h].email \in Emails /\ local[h].code \in Codes
        /\ Exists(local[h].email)
    BY <1>4, Holding DEF ResendOTP_Mail
  <2>2. Rows' /\ Grows
    BY <1>1, <1>4, RowsKept DEF ResendOTP_Mail
  <2>3. Threads' /\ People'
    BY <1>1, <1>4, <2>2, Returned, PeopleKept DEF ResendOTP_Mail
  <2>4. Posts' /\ Counts'
    BY <1>4, <2>1, Enqueued DEF ResendOTP_Mail
  <2> QED BY <1>4, <2>2, <2>3, <2>4, Whole DEF ResendOTP_Mail
<1> QED BY <1>2, <1>3, <1>4

LEMMA TypeHandleEmailOTP ==
  ASSUME TypeOK, NEW t \in mails, HandleEmailOTP(t)
  PROVE  TypeOK'
<1>1. Rows /\ Threads /\ Posts /\ People /\ Counts
  BY Parts
<1>2. t \in Tasks /\ Exists(t.row.email) /\ t.row.email \in Emails /\ t.row.code \in Codes
  BY <1>1 DEF Posts, Tasks
<1>3. Rows' /\ Grows /\ Counts'
  BY <1>1, RowsKept, Spent DEF HandleEmailOTP, Fault
<1>4. Threads'
  BY <1>1, <1>3, StillThere DEF HandleEmailOTP
<1>5. t.left > 0 => [t EXCEPT !.left = t.left - 1] \in Tasks
  BY <1>2 DEF Tasks
<1>6. \A r \in Retry(mails, t) : r \in mails \/ (r \in Tasks /\ r.row = t.row)
  BY <1>2, <1>5 DEF Retry, Tasks
<1>7. \A r \in mails' : r \in mails \/ (r \in Tasks /\ r.row = t.row)
  BY <1>6 DEF HandleEmailOTP
<1>8. users'[t.row.email] # NoUser
  BY <1>2 DEF HandleEmailOTP, Exists
<1>9. Posts'
  BY <1>1, <1>3, <1>7, <1>8, PostsKept DEF Posts, Exists
<1>10. People'
  BY <1>1, <1>2, <1>3 DEF HandleEmailOTP, Deliver, People, Exists
<1> QED BY <1>3, <1>4, <1>9, <1>10, Whole DEF HandleEmailOTP

LEMMA TypeLogin ==
  ASSUME TypeOK, NEW h \in Handlers,
         (\E e \in Emails, p \in Passwords : Login_Read(h, e, p)) \/ Login_Write(h)
  PROVE  TypeOK'
<1>1. Rows /\ Threads /\ Posts /\ People /\ Counts
  BY Parts
<1>2. ASSUME NEW e \in Emails, NEW p \in Passwords, Login_Read(h, e, p)
      PROVE  TypeOK'
  <2>1. [op |-> "login", email |-> e] \in Steps
    BY DEF Steps
  <2>2. Counts' /\ Grows /\ users'[e] # NoUser
    BY <1>1, <1>2, Spent, RowsKept DEF Login_Read, Exists
  <2>3. Threads'
    BY <1>1, <1>2, <2>1, <2>2, WentOn DEF Login_Read
  <2> QED BY <1>2, <2>2, <2>3, Local DEF Login_Read
<1>3. CASE Login_Write(h)
  <2>1. local[h].email \in Emails /\ Exists(local[h].email)
    BY <1>3, Holding DEF Login_Write
  <2>2. Rows' /\ Grows /\ Counts'
    BY <1>1, <1>3, RowsKept, Spent DEF Login_Write
  <2>3. Threads' /\ Posts'
    BY <1>1, <1>3, <2>2, Returned, PostsKept DEF Login_Write, Posts
  <2>4. People'
    BY <1>1, <1>3, <2>1 DEF Login_Write, People, Exists
  <2> QED BY <1>3, <2>2, <2>3, <2>4, Whole DEF Login_Write
<1> QED BY <1>2, <1>3

LEMMA TypeOwnerAction ==
  ASSUME TypeOK, NEW h \in Handlers,
         \/ \E e \in Emails : \/ SuspendUser_Read(h, e) \/ UnlockUser_Read(h, e)
                             \/ \E p \in Passwords : ResetUserPassword_Read(h, e, p)
         \/ ResetUserPassword_Write(h) \/ SuspendUser_Write(h) \/ UnlockUser_Write(h)
  PROVE  TypeOK'
<1>1. Rows /\ Threads /\ Posts /\ People /\ Counts
  BY Parts
<1>2. ASSUME NEW e \in Emails, NEW next \in Steps, next.email = e, OwnerAction_Read(h, e, next)
      PROVE  TypeOK'
  <2>1. Counts' /\ Grows /\ users'[e] # NoUser
    BY <1>1, <1>2, Spent, RowsKept DEF OwnerAction_Read, Exists
  <2>2. Threads'
    BY <1>1, <1>2, <2>1, WentOn DEF OwnerAction_Read
  <2> QED BY <1>2, <2>1, <2>2, Local DEF OwnerAction_Read
<1>3. ASSUME NEW e \in Emails, SuspendUser_Read(h, e) \/ UnlockUser_Read(h, e)
      PROVE  TypeOK'
  <2>1. /\ [op |-> "suspendWrite", email |-> e] \in Steps
        /\ [op |-> "unlockWrite", email |-> e] \in Steps
    BY DEF Steps
  <2>2. CASE SuspendUser_Read(h, e)
    BY <1>2, <2>1, <2>2 DEF SuspendUser_Read
  <2>3. CASE UnlockUser_Read(h, e)
    BY <1>2, <2>1, <2>3 DEF UnlockUser_Read
  <2> QED BY <1>3, <2>2, <2>3
<1>4. ASSUME NEW e \in Emails, NEW p \in Passwords, ResetUserPassword_Read(h, e, p)
      PROVE  TypeOK'
  <2>1. [op |-> "passwordWrite", email |-> e, password |-> p] \in Steps
    BY DEF Steps
  <2> QED BY <1>2, <1>4, <2>1 DEF ResetUserPassword_Read
<1>5. CASE ResetUserPassword_Write(h)
  <2>1. local[h].op # "idle" /\ users[local[h].email] \in User /\ local[h].password \in Passwords
    BY <1>1, <1>5, Holding DEF ResetUserPassword_Write, OwnerAction_Write, Rows, Exists
  <2>2. [users[local[h].email] EXCEPT !.password = local[h].password] \in User
    BY <2>1 DEF User
  <2> QED BY <1>5, <2>1, <2>2, Wrote DEF ResetUserPassword_Write, OwnerAction_Write
<1>6. CASE SuspendUser_Write(h)
  <2>1. local[h].op # "idle" /\ users[local[h].email] \in User
    BY <1>1, <1>6, Holding DEF SuspendUser_Write, OwnerAction_Write, Rows, Exists
  <2>2. [users[local[h].email] EXCEPT !.active = FALSE] \in User
    BY <2>1 DEF User
  <2> QED BY <1>6, <2>1, <2>2, Wrote DEF SuspendUser_Write, OwnerAction_Write
<1>7. CASE UnlockUser_Write(h)
  <2>1. local[h].op # "idle" /\ users[local[h].email] \in User
    BY <1>1, <1>7, Holding DEF UnlockUser_Write, OwnerAction_Write, Rows, Exists
  <2>2. [users[local[h].email] EXCEPT !.active = TRUE] \in User
    BY <2>1 DEF User
  <2> QED BY <1>7, <2>1, <2>2, Wrote DEF UnlockUser_Write, OwnerAction_Write
<1> QED BY <1>3, <1>4, <1>5, <1>6, <1>7

LEMMA TypeSchool ==
  ASSUME TypeOK, NEW e \in Emails,
         \/ \E role \in Roles \cup {NoRole}, on \in {{}, {TRUE}, {FALSE}} : UpdateUser(e, role, on)
         \/ ArchiveUser(e) \/ Expire(e)
  PROVE  TypeOK'
<1>1. Rows /\ Counts
  BY Parts
<1>2. users[e] \in User
  BY <1>1 DEF UpdateUser, ArchiveUser, Expire, Rows, Exists
<1>3. ASSUME NEW role \in Roles \cup {NoRole}, NEW on \in {{}, {TRUE}, {FALSE}}, UpdateUser(e, role, on)
      PROVE  TypeOK'
  <2> DEFINE row == [users[e] EXCEPT !.role = IF role = NoRole THEN @ ELSE role,
                                     !.active = IF on = {} THEN @ ELSE TRUE \in on]
  <2>1. (IF on = {} THEN users[e].active ELSE TRUE \in on) \in BOOLEAN
    <3>1. users[e].active \in BOOLEAN
      BY <1>2 DEF User
    <3>2. (TRUE \in on) \in BOOLEAN
      OBVIOUS
    <3> QED BY <3>1, <3>2
  <2>2. (IF role = NoRole THEN users[e].role ELSE role) \in Roles
    BY <1>2 DEF User
  <2>3. row \in User
    BY <1>2, <2>1, <2>2 DEF User
  <2>4. Counts'
    BY <1>1, <1>3, Spent DEF UpdateUser
  <2> QED BY <1>3, <2>3, <2>4, Edited DEF UpdateUser
<1>4. CASE ArchiveUser(e)
  <2>1. [users[e] EXCEPT !.archived = TRUE, !.active = FALSE] \in User
    BY <1>2 DEF User
  <2>2. Counts'
    BY <1>1, <1>4, Spent DEF ArchiveUser
  <2> QED BY <1>4, <2>1, <2>2, Edited DEF ArchiveUser
<1>5. CASE Expire(e)
  <2>1. [users[e] EXCEPT !.expired = TRUE] \in User
    BY <1>2 DEF User
  <2>2. Counts'
    BY <1>1, <1>5, Spent DEF Expire
  <2> QED BY <1>5, <2>1, <2>2, Edited DEF Expire
<1> QED BY <1>3, <1>4, <1>5

LEMMA TypeCrash ==
  ASSUME TypeOK, Crash
  PROVE  TypeOK'
<1>1. Rows /\ Threads /\ Counts
  BY Parts
<1>2. Counts'
  BY <1>1, Spent DEF Crash
<1>3. Threads'
  BY DEF Crash, Threads, Fine
<1> QED BY <1>2, <1>3, Local DEF Crash

\* The steps of Next, as one list.
LEMMA EveryStep ==
  ASSUME TypeOK, Next
  PROVE  \/ \E h \in Handlers :
              \/ \E e \in Emails, p \in Passwords : RegisterParent_Check(h, e, p)
              \/ RegisterParent_Create(h) \/ RegisterParent_Mail(h)
         \/ \E h \in Handlers :
              \/ \E e \in Emails, role \in Roles, owner \in BOOLEAN, p \in Passwords :
                   CreateUser_Check(h, e, role, owner, p)
              \/ CreateUser_Create(h)
         \/ \E h \in Handlers :
              (\E e \in Emails : \E c \in inbox[e] : VerifyOTP_Read(h, e, c)) \/ VerifyOTP_Write(h)
         \/ \E h \in Handlers :
              (\E e \in Emails : ResendOTP_Read(h, e)) \/ ResendOTP_Write(h) \/ ResendOTP_Mail(h)
         \/ \E t \in mails : HandleEmailOTP(t)
         \/ \E h \in Handlers :
              (\E e \in Emails, p \in Passwords : Login_Read(h, e, p)) \/ Login_Write(h)
         \/ \E h \in Handlers :
              \/ \E e \in Emails : \/ SuspendUser_Read(h, e) \/ UnlockUser_Read(h, e)
                                  \/ \E p \in Passwords : ResetUserPassword_Read(h, e, p)
              \/ ResetUserPassword_Write(h) \/ SuspendUser_Write(h) \/ UnlockUser_Write(h)
         \/ \E e \in Emails :
              \/ \E role \in Roles \cup {NoRole}, on \in {{}, {TRUE}, {FALSE}} : UpdateUser(e, role, on)
              \/ ArchiveUser(e) \/ Expire(e)
         \/ Crash
<1>1. load.handlers \subseteq Handlers /\ load.offices \subseteq Handlers /\ load.edited \subseteq Emails
  BY AccountsAssumption DEF TypeOK
<1>2. CASE \E h \in Handlers : Proceed(h)
  BY <1>2 DEF Proceed
<1>3. ASSUME NEW e \in Emails,
             \/ \E h \in load.handlers, p \in Passwords : RegisterParent_Check(h, e, p)
             \/ Try(e) \/ AskAgain(e) \/ SignIn(e) \/ Expire(e)
      PROVE  \/ \E h \in Handlers, p \in Passwords : RegisterParent_Check(h, e, p)
             \/ \E h \in Handlers : \E c \in inbox[e] : VerifyOTP_Read(h, e, c)
             \/ \E h \in Handlers : ResendOTP_Read(h, e)
             \/ \E h \in Handlers, p \in Passwords : Login_Read(h, e, p)
             \/ Expire(e)
  BY <1>1, <1>3 DEF Try, AskAgain, SignIn
<1>4. ASSUME NEW e \in load.edited, Manage(e)
      PROVE  /\ e \in Emails
             /\ \/ \E role \in Roles \cup {NoRole}, on \in {{}, {TRUE}, {FALSE}} :
                     UpdateUser(e, role, on)
                \/ ArchiveUser(e)
                \/ \E h \in Handlers :
                     \/ \E role \in Roles, owner \in BOOLEAN, p \in Passwords :
                          CreateUser_Check(h, e, role, owner, p)
                     \/ \E p \in Passwords : ResetUserPassword_Read(h, e, p)
                     \/ SuspendUser_Read(h, e) \/ UnlockUser_Read(h, e)
  BY <1>1, <1>4 DEF Manage
<1> QED BY <1>2, <1>3, <1>4 DEF Next

LEMMA TypeStep ==
  ASSUME TypeOK, [Next]_vars
  PROVE  TypeOK'
<1>1. CASE Next
  BY <1>1, EveryStep, TypeRegisterParent, TypeCreateUser, TypeVerifyOTP, TypeResendOTP,
     TypeHandleEmailOTP, TypeLogin, TypeOwnerAction, TypeSchool, TypeCrash
<1>2. CASE UNCHANGED vars
  BY <1>2 DEF vars, TypeOK, Exists
<1> QED BY <1>1, <1>2

LEMMA TypeInit == Init => TypeOK
BY DEF Init, TypeOK, Exists, Idle

\* users.go: whatever requests overlap, fail or die, a handler past its look-up, a
\* mail on its way and a received code are about an account that exists.
THEOREM TypeCorrect == Spec => []TypeOK
BY TypeInit, TypeStep, PTL DEF Spec

-----------------------------------------------------------------------------
(* Where a confirmation comes from. *)

LEMMA ByMailKept ==
  ASSUME TypeOK, ByMail, UNCHANGED <<inbox, mailed>>,
         \/ UNCHANGED local
         \/ local' = [h \in Handlers |-> Idle]
         \/ \E h \in Handlers : Return(h)
  PROVE  ByMail'
<1>1. local \in [Handlers -> Steps \cup {Idle}]
  BY DEF TypeOK
<1> QED BY <1>1 DEF ByMail, Return, Goto, Idle

LEMMA ByMailWentOn ==
  ASSUME TypeOK, ByMail, UNCHANGED <<inbox, mailed>>, NEW h \in Handlers,
         NEW rec, rec.op # "verifyWrite", Goto(h, rec)
  PROVE  ByMail'
<1>1. local \in [Handlers -> Steps \cup {Idle}]
  BY DEF TypeOK
<1> QED BY <1>1 DEF ByMail, Goto

LEMMA ByMailStep ==
  ASSUME TypeOK, ByMail, [Next]_vars
  PROVE  ByMail'
<1>1. ASSUME NEW h \in Handlers, NEW e \in Emails, NEW p \in Passwords, RegisterParent_Check(h, e, p)
      PROVE  ByMail'
  BY <1>1, ByMailWentOn DEF RegisterParent_Check
<1>2. ASSUME NEW h \in Handlers, RegisterParent_Create(h)
      PROVE  ByMail'
  BY <1>2, ByMailWentOn, ByMailKept DEF RegisterParent_Create
<1>3. ASSUME NEW h \in Handlers,
             \/ RegisterParent_Mail(h) \/ CreateUser_Create(h) \/ VerifyOTP_Write(h)
             \/ ResendOTP_Mail(h) \/ Login_Write(h)
             \/ ResetUserPassword_Write(h) \/ SuspendUser_Write(h) \/ UnlockUser_Write(h)
      PROVE  ByMail'
  <2>1. Return(h) /\ UNCHANGED <<inbox, mailed>>
    BY <1>3 DEF RegisterParent_Mail, CreateUser_Create, VerifyOTP_Write, ResendOTP_Mail, Login_Write,
       ResetUserPassword_Write, SuspendUser_Write, UnlockUser_Write, OwnerAction_Write
  <2> QED BY <2>1, ByMailKept
<1>4. ASSUME NEW h \in Handlers, NEW e \in Emails, NEW role \in Roles, NEW owner \in BOOLEAN,
             NEW p \in Passwords, CreateUser_Check(h, e, role, owner, p)
      PROVE  ByMail'
  BY <1>4, ByMailWentOn DEF CreateUser_Check
<1>5. ASSUME NEW h \in Handlers, NEW e \in Emails, NEW c \in inbox[e], VerifyOTP_Read(h, e, c)
      PROVE  ByMail'
  <2>1. /\ local \in [Handlers -> Steps \cup {Idle}]
        /\ inbox \in [Emails -> SUBSET Codes]
    BY DEF TypeOK
  <2>2. /\ mailed' = mailed /\ e \in mailed
        /\ \A a \in Emails : inbox'[a] \subseteq inbox[a]
    BY <1>5, <2>1 DEF VerifyOTP_Read, ByMail
  <2>3. \A g \in Handlers : local'[g] = local[g] \/ local'[g].email = e
    BY <1>5, <2>1 DEF VerifyOTP_Read, Goto
  <2> QED BY <2>2, <2>3 DEF ByMail
<1>6. ASSUME NEW h \in Handlers, NEW e \in Emails, ResendOTP_Read(h, e)
      PROVE  ByMail'
  BY <1>6, ByMailWentOn DEF ResendOTP_Read
<1>7. ASSUME NEW h \in Handlers, ResendOTP_Write(h)
      PROVE  ByMail'
  <2>1. PICK c \in Codes : Goto(h, [op |-> "resendMail", email |-> local[h].email, code |-> c])
    BY <1>7 DEF ResendOTP_Write
  <2> QED BY <1>7, <2>1, ByMailWentOn DEF ResendOTP_Write
<1>8. ASSUME NEW t \in mails, HandleEmailOTP(t)
      PROVE  ByMail'
  <2>1. inbox \in [Emails -> SUBSET Codes]
    BY DEF TypeOK
  <2>2. \/ UNCHANGED <<inbox, mailed>>
        \/ /\ \A a \in Emails : a # t.row.email => inbox'[a] = inbox[a]
           /\ mailed' = mailed \cup {t.row.email}
    BY <1>8, <2>1 DEF HandleEmailOTP, Deliver
  <2> QED BY <1>8, <2>2 DEF HandleEmailOTP, ByMail
<1>9. ASSUME NEW h \in Handlers, NEW e \in Emails, NEW p \in Passwords, Login_Read(h, e, p)
      PROVE  ByMail'
  BY <1>9, ByMailWentOn DEF Login_Read
<1>10. ASSUME NEW h \in Handlers, NEW e \in Emails,
              \/ SuspendUser_Read(h, e) \/ UnlockUser_Read(h, e)
              \/ \E p \in Passwords : ResetUserPassword_Read(h, e, p)
      PROVE  ByMail'
  BY <1>10, ByMailWentOn DEF SuspendUser_Read, UnlockUser_Read, ResetUserPassword_Read, OwnerAction_Read
<1>11. ASSUME NEW e \in Emails,
              \/ \E role \in Roles \cup {NoRole}, on \in {{}, {TRUE}, {FALSE}} : UpdateUser(e, role, on)
              \/ ArchiveUser(e) \/ Expire(e)
      PROVE  ByMail'
  BY <1>11, ByMailKept DEF UpdateUser, ArchiveUser, Expire
<1>12. CASE Crash
  BY <1>12, ByMailKept DEF Crash
<1>13. CASE UNCHANGED vars
  BY <1>13, ByMailKept DEF vars
<1> QED
  BY <1>1, <1>2, <1>3, <1>4, <1>5, <1>6, <1>7, <1>8, <1>9, <1>10, <1>11, <1>12, <1>13, EveryStep

LEMMA InvInit == Init => IInv
BY TypeInit DEF IInv, ByMail, Init, Idle

LEMMA InvStep ==
  ASSUME IInv, [Next]_vars
  PROVE  IInv'
BY TypeStep, ByMailStep DEF IInv

-----------------------------------------------------------------------------
(* The refinement: what an UPDATE of a row does to the account it stands for. *)

LEMMA RowOf ==
  ASSUME TypeOK, NEW e \in Emails, Exists(e)
  PROVE  /\ users[e] \in User
         /\ Life!Exists(e)
         /\ AccountOf(users[e]) =
              [role |-> users[e].role, active |-> users[e].active, archived |-> users[e].archived,
               confirmed |-> users[e].verified, password |-> users[e].password]
<1>1. users[e] \in User /\ users[e] # NoUser
  BY DEF TypeOK, Exists
<1>2. AccountOf(users[e]) \in [role : Roles, active : BOOLEAN, archived : BOOLEAN,
                              confirmed : BOOLEAN, password : Passwords]
  BY <1>1 DEF AccountOf, User
<1> QED BY <1>1, <1>2, NoUserAssumption DEF Life!Exists, AccountOf

LEMMA Becomes ==
  ASSUME TypeOK, NEW e \in Emails, NEW row, row # NoUser, Update(e, row), UNCHANGED mailed
  PROVE  Life!Become(e, [role |-> row.role, active |-> row.active, archived |-> row.archived,
                         confirmed |-> row.verified, password |-> row.password])
<1>1. users \in [Emails -> User \cup {NoUser}]
  BY DEF TypeOK
<1>2. /\ AccountOf(users'[e]) = [role |-> row.role, active |-> row.active,
                                archived |-> row.archived, confirmed |-> row.verified,
                                password |-> row.password]
      /\ \A a \in Emails : a # e => users'[a] = users[a]
  BY <1>1 DEF Update, AccountOf
<1> QED BY <1>2 DEF Life!Become, AccountOf

LEMMA SameAccount ==
  ASSUME TypeOK, NEW e \in Emails, Exists(e), NEW row \in User, Update(e, row), UNCHANGED mailed,
         row.role = users[e].role, row.active = users[e].active,
         row.archived = users[e].archived, row.verified = users[e].verified,
         row.password = users[e].password
  PROVE  UNCHANGED Life!vars
<1>1. /\ users \in [Emails -> User \cup {NoUser}]
      /\ users[e] # NoUser /\ row # NoUser
  BY NoUserAssumption DEF TypeOK, Exists
<1>2. \A a \in Emails : AccountOf(users'[a]) = AccountOf(users[a])
  BY <1>1 DEF Update, AccountOf
<1> QED BY <1>2 DEF Life!vars, AccountOf

LEMMA Unseen ==
  ASSUME UNCHANGED <<users, mailed>>
  PROVE  UNCHANGED Life!vars
BY DEF Life!vars

LEMMA Opened ==
  ASSUME TypeOK, NEW e \in Emails, ~Exists(e), NEW row \in User, row.active, ~row.archived,
         Update(e, row), UNCHANGED mailed
  PROVE  Life!Open(e)
<1>1. row # NoUser
  BY NoUserAssumption
<1>2. ~Life!Exists(e)
  BY DEF Life!Exists, Exists, AccountOf
<1>3. row.role \in Roles /\ row.password \in Passwords /\ row.verified \in BOOLEAN
      /\ row.active = TRUE /\ row.archived = FALSE
  BY DEF User
<1>4. Life!Become(e, [role |-> row.role, active |-> TRUE, archived |-> FALSE,
                      confirmed |-> row.verified, password |-> row.password])
  BY <1>1, <1>3, Becomes
<1> QED BY <1>2, <1>3, <1>4 DEF Life!Open

LEMMA LifeCreate ==
  ASSUME TypeOK, NEW h \in Handlers, RegisterParent_Create(h) \/ CreateUser_Create(h)
  PROVE  [Life!Next]_(Life!vars)
<1> DEFINE e == local[h].email
<1>1. e \in Emails /\ local[h].op # "idle"
  BY Holding DEF RegisterParent_Create, CreateUser_Create
<1>2. ASSUME NEW row \in User, row.active, ~row.archived, ~Exists(e), Update(e, row), UNCHANGED mailed
      PROVE  Life!Next
  BY <1>1, <1>2, Opened DEF Life!Next
<1>3. CASE RegisterParent_Create(h)
  <2>1. ASSUME NEW c \in Codes, ~Exists(e),
               Update(e, [role |-> "PARENT", active |-> TRUE, archived |-> FALSE,
                          verified |-> FALSE, password |-> local[h].password,
                          code |-> c, expired |-> FALSE])
        PROVE  Life!Next
    <3> DEFINE row == [role |-> "PARENT", active |-> TRUE, archived |-> FALSE,
                       verified |-> FALSE, password |-> local[h].password,
                       code |-> c, expired |-> FALSE]
    <3>1. row \in User
      BY <1>3, Holding, AccountsAssumption DEF RegisterParent_Create, User
    <3>2. row.active /\ ~row.archived
      OBVIOUS
    <3> HIDE DEF row
    <3>3. Update(e, row) /\ UNCHANGED mailed
      BY <1>3, <2>1 DEF RegisterParent_Create, row
    <3> QED BY <1>2, <2>1, <3>1, <3>2, <3>3
  <2> QED BY <1>3, <2>1, Unseen DEF RegisterParent_Create
<1>4. CASE CreateUser_Create(h)
  <2> DEFINE row == [role |-> local[h].role, active |-> TRUE, archived |-> FALSE,
                     verified |-> TRUE, password |-> local[h].password,
                     code |-> NoCode, expired |-> FALSE]
  <2>1. row \in User
    BY <1>4, Holding, AccountsAssumption DEF CreateUser_Create, User
  <2>2. row.active /\ ~row.archived
    OBVIOUS
  <2>3. CASE ~Exists(e) /\ Update(e, row)
    <3> HIDE DEF row
    <3> QED BY <1>2, <1>4, <2>1, <2>2, <2>3 DEF CreateUser_Create
  <2> QED BY <1>4, <2>3, Unseen DEF CreateUser_Create
<1> QED BY <1>3, <1>4

LEMMA LifeVerify ==
  ASSUME TypeOK, ByMail, NEW h \in Handlers, VerifyOTP_Write(h)
  PROVE  [Life!Next]_(Life!vars)
<1> DEFINE e == local[h].email
           yes == TRUE
           no == FALSE
           row == [users[e] EXCEPT !.verified = yes, !.code = NoCode, !.expired = no]
<1>1. e \in Emails /\ Exists(e) /\ e \in mailed
  BY Holding DEF VerifyOTP_Write, ByMail
<1>2. users[e] \in User
  BY <1>1, RowOf
<1>3. CASE Update(e, row)
  <2>1. row \in User
    BY <1>2 DEF User
  <2>2. row # NoUser
    BY <2>1, NoUserAssumption
  <2>3. Life!Become(e, [role |-> row.role, active |-> row.active, archived |-> row.archived,
                        confirmed |-> row.verified, password |-> row.password])
    <3> HIDE DEF row
    <3> QED BY <1>1, <1>3, <2>2, Becomes DEF VerifyOTP_Write
  <2>4. [role |-> row.role, active |-> row.active, archived |-> row.archived,
         confirmed |-> row.verified, password |-> row.password]
        = [AccountOf(users[e]) EXCEPT !.confirmed = yes]
    <3>1. /\ row.role = users[e].role /\ row.active = users[e].active
          /\ row.archived = users[e].archived /\ row.verified = yes
          /\ row.password = users[e].password
      <4> HIDE DEF yes, no
      <4> QED BY <1>2 DEF User
    <3>2. AccountOf(users[e]) =
            [role |-> users[e].role, active |-> users[e].active, archived |-> users[e].archived,
             confirmed |-> users[e].verified, password |-> users[e].password]
      BY <1>1, RowOf
    <3> HIDE DEF row, yes, no
    <3> QED BY <3>1, <3>2
  <2>5. Life!Confirm(e)
    BY <1>1, <2>3, <2>4, RowOf DEF Life!Confirm
  <2> QED BY <1>1, <2>5 DEF Life!Next
<1> QED BY <1>3, Unseen DEF VerifyOTP_Write, Verified

LEMMA LifeResend ==
  ASSUME TypeOK, NEW h \in Handlers, ResendOTP_Write(h)
  PROVE  UNCHANGED Life!vars
<1> DEFINE e == local[h].email
<1>1. e \in Emails /\ Exists(e)
  BY Holding DEF ResendOTP_Write
<1>2. ASSUME NEW c \in Codes, Update(e, [users[e] EXCEPT !.code = c, !.expired = FALSE])
      PROVE  UNCHANGED Life!vars
  <2> DEFINE row == [users[e] EXCEPT !.code = c, !.expired = FALSE]
  <2>1. /\ row \in User /\ row.role = users[e].role /\ row.active = users[e].active
        /\ row.archived = users[e].archived /\ row.verified = users[e].verified
        /\ row.password = users[e].password
    BY <1>1, RowOf DEF User
  <2>2. Update(e, row) /\ UNCHANGED mailed
    BY <1>2 DEF ResendOTP_Write
  <2> HIDE DEF row
  <2> QED BY <1>1, <2>1, <2>2, SameAccount
<1> QED BY <1>2, Unseen DEF ResendOTP_Write

LEMMA LifeReceive ==
  ASSUME TypeOK, NEW t \in mails, HandleEmailOTP(t)
  PROVE  [Life!Next]_(Life!vars)
<1>1. t.row.email \in Emails /\ Exists(t.row.email)
  BY DEF TypeOK, Tasks
<1>2. CASE UNCHANGED mailed
  BY <1>2, Unseen DEF HandleEmailOTP
<1>3. CASE Deliver(t)
  <2>1. Life!Receive(t.row.email)
    BY <1>1, <1>3, RowOf DEF HandleEmailOTP, Deliver, Life!Receive
  <2> QED BY <1>1, <2>1 DEF Life!Next
<1> QED BY <1>2, <1>3 DEF HandleEmailOTP

LEMMA LifeEdit ==
  ASSUME TypeOK, NEW e \in Emails, Exists(e), NEW row \in User,
         row.archived = users[e].archived, row.verified = users[e].verified,
         row.password = users[e].password, Update(e, row), UNCHANGED mailed
  PROVE  Life!Next
<1>1. row # NoUser /\ row.role \in Roles /\ row.active \in BOOLEAN
  BY NoUserAssumption DEF User
<1>2. Life!Become(e, [role |-> row.role, active |-> row.active, archived |-> row.archived,
                      confirmed |-> row.verified, password |-> row.password])
  BY <1>1, Becomes
<1>3. [role |-> row.role, active |-> row.active, archived |-> row.archived,
       confirmed |-> row.verified, password |-> row.password]
      = [AccountOf(users[e]) EXCEPT !.role = row.role, !.active = row.active]
  <2>1. AccountOf(users[e]) =
          [role |-> users[e].role, active |-> users[e].active, archived |-> users[e].archived,
           confirmed |-> users[e].verified, password |-> users[e].password]
    BY RowOf
  <2>2. [AccountOf(users[e]) EXCEPT !.role = row.role] =
          [role |-> row.role, active |-> users[e].active, archived |-> users[e].archived,
           confirmed |-> users[e].verified, password |-> users[e].password]
    BY <2>1
  <2>3. [AccountOf(users[e]) EXCEPT !.role = row.role, !.active = row.active] =
          [[AccountOf(users[e]) EXCEPT !.role = row.role] EXCEPT !.active = row.active]
    BY <2>1
  <2>4. [AccountOf(users[e]) EXCEPT !.role = row.role, !.active = row.active] =
          [role |-> row.role, active |-> row.active, archived |-> users[e].archived,
           confirmed |-> users[e].verified, password |-> users[e].password]
    <3>1. [[role |-> row.role, active |-> users[e].active, archived |-> users[e].archived,
            confirmed |-> users[e].verified, password |-> users[e].password]
             EXCEPT !.active = row.active] =
            [role |-> row.role, active |-> row.active, archived |-> users[e].archived,
             confirmed |-> users[e].verified, password |-> users[e].password]
      OBVIOUS
    <3> QED BY <2>2, <2>3, <3>1
  <2> QED BY <2>4
<1>4. \E r \in Roles, on \in BOOLEAN :
        Life!Become(e, [AccountOf(users[e]) EXCEPT !.role = r, !.active = on])
  BY <1>1, <1>2, <1>3, ZenonT(60)
<1>5. Life!Edit(e)
  BY <1>4, RowOf DEF Life!Edit
<1> QED BY <1>5 DEF Life!Next

LEMMA LifeSwitch ==
  ASSUME TypeOK, NEW h \in Handlers, SuspendUser_Write(h) \/ UnlockUser_Write(h)
  PROVE  [Life!Next]_(Life!vars)
<1> DEFINE e == local[h].email
<1>1. e \in Emails /\ Exists(e)
  BY Holding DEF SuspendUser_Write, UnlockUser_Write, OwnerAction_Write
<1>2. users[e] \in User
  BY <1>1, RowOf
<1>3. ASSUME NEW on \in BOOLEAN, Update(e, [users[e] EXCEPT !.active = on])
      PROVE  Life!Next
  <2> DEFINE row == [users[e] EXCEPT !.active = on]
  <2>1. /\ row \in User /\ row.archived = users[e].archived
        /\ row.verified = users[e].verified /\ row.password = users[e].password
    BY <1>2 DEF User
  <2>2. Update(e, row) /\ UNCHANGED mailed
    BY <1>3 DEF SuspendUser_Write, UnlockUser_Write, OwnerAction_Write
  <2> HIDE DEF row
  <2> QED BY <1>1, <2>1, <2>2, LifeEdit
<1> QED BY <1>3, Unseen DEF SuspendUser_Write, UnlockUser_Write, OwnerAction_Write

LEMMA LifePassword ==
  ASSUME TypeOK, NEW h \in Handlers, ResetUserPassword_Write(h)
  PROVE  [Life!Next]_(Life!vars)
<1> DEFINE e == local[h].email
           row == [users[e] EXCEPT !.password = local[h].password]
<1>1. e \in Emails /\ Exists(e) /\ local[h].password \in Passwords
  BY Holding DEF ResetUserPassword_Write, OwnerAction_Write
<1>2. users[e] \in User
  BY <1>1, RowOf
<1>3. CASE Update(e, row)
  <2>1. row \in User
    BY <1>1, <1>2 DEF User
  <2>2. row # NoUser
    BY <2>1, NoUserAssumption
  <2>3. Life!Become(e, [role |-> row.role, active |-> row.active, archived |-> row.archived,
                        confirmed |-> row.verified, password |-> row.password])
    <3> HIDE DEF row
    <3> QED BY <1>1, <1>3, <2>2, Becomes DEF ResetUserPassword_Write, OwnerAction_Write
  <2>4. [role |-> row.role, active |-> row.active, archived |-> row.archived,
         confirmed |-> row.verified, password |-> row.password]
        = [AccountOf(users[e]) EXCEPT !.password = local[h].password]
    <3>1. row = [role |-> users[e].role, active |-> users[e].active,
                 archived |-> users[e].archived, verified |-> users[e].verified,
                 password |-> local[h].password, code |-> users[e].code,
                 expired |-> users[e].expired]
      BY <1>2 DEF User
    <3>2. AccountOf(users[e]) =
            [role |-> users[e].role, active |-> users[e].active, archived |-> users[e].archived,
             confirmed |-> users[e].verified, password |-> users[e].password]
      BY <1>1, RowOf
    <3> HIDE DEF row
    <3> QED BY <3>1, <3>2
  <2>5. Life!SetPassword(e)
    BY <1>1, <2>3, <2>4, RowOf DEF Life!SetPassword
  <2> QED BY <1>1, <2>5 DEF Life!Next
<1> QED BY <1>3, Unseen DEF ResetUserPassword_Write, OwnerAction_Write

LEMMA LifeSchool ==
  ASSUME TypeOK, NEW e \in Emails,
         \/ \E role \in Roles \cup {NoRole}, on \in {{}, {TRUE}, {FALSE}} : UpdateUser(e, role, on)
         \/ ArchiveUser(e) \/ Expire(e)
  PROVE  [Life!Next]_(Life!vars)
<1>1. Exists(e) /\ users[e] \in User
  BY RowOf DEF UpdateUser, ArchiveUser, Expire
<1>2. ASSUME NEW role \in Roles \cup {NoRole}, NEW on \in {{}, {TRUE}, {FALSE}}, UpdateUser(e, role, on)
      PROVE  Life!Next
  <2> DEFINE row == [users[e] EXCEPT !.role = IF role = NoRole THEN @ ELSE role,
                                     !.active = IF on = {} THEN @ ELSE TRUE \in on]
  <2>1. (IF on = {} THEN users[e].active ELSE TRUE \in on) \in BOOLEAN
    <3>1. users[e].active \in BOOLEAN
      BY <1>1 DEF User
    <3>2. (TRUE \in on) \in BOOLEAN
      OBVIOUS
    <3> QED BY <3>1, <3>2
  <2>2. (IF role = NoRole THEN users[e].role ELSE role) \in Roles
    BY <1>1 DEF User
  <2>3. /\ row \in User /\ row.archived = users[e].archived
        /\ row.verified = users[e].verified /\ row.password = users[e].password
    BY <1>1, <2>1, <2>2 DEF User
  <2>4. Update(e, row) /\ UNCHANGED mailed
    BY <1>2 DEF UpdateUser
  <2> HIDE DEF row
  <2> QED BY <1>1, <2>3, <2>4, LifeEdit
<1>3. CASE ArchiveUser(e)
  <2> DEFINE yes == TRUE
             no == FALSE
             row == [users[e] EXCEPT !.archived = yes, !.active = no]
  <2>1. /\ row \in User /\ row.role = users[e].role /\ row.active = no /\ row.archived = yes
        /\ row.verified = users[e].verified /\ row.password = users[e].password
    <3>1. yes \in BOOLEAN /\ no \in BOOLEAN
      OBVIOUS
    <3> HIDE DEF yes, no
    <3> QED BY <1>1, <3>1 DEF User
  <2>2. Update(e, row) /\ UNCHANGED mailed /\ row # NoUser
    BY <1>3, <2>1, NoUserAssumption DEF ArchiveUser
  <2>3. AccountOf(users[e]) =
          [role |-> users[e].role, active |-> users[e].active, archived |-> users[e].archived,
           confirmed |-> users[e].verified, password |-> users[e].password]
    BY <1>1, RowOf
  <2>4. [role |-> row.role, active |-> row.active, archived |-> row.archived,
         confirmed |-> row.verified, password |-> row.password]
        = [AccountOf(users[e]) EXCEPT !.archived = yes, !.active = no]
    <3> HIDE DEF row, yes, no
    <3>1. [AccountOf(users[e]) EXCEPT !.archived = yes] =
            [role |-> users[e].role, active |-> users[e].active, archived |-> yes,
             confirmed |-> users[e].verified, password |-> users[e].password]
      BY <2>3
    <3>2. [AccountOf(users[e]) EXCEPT !.archived = yes, !.active = no] =
            [[AccountOf(users[e]) EXCEPT !.archived = yes] EXCEPT !.active = no]
      BY <2>3
    <3>3. [[role |-> users[e].role, active |-> users[e].active, archived |-> yes,
            confirmed |-> users[e].verified, password |-> users[e].password] EXCEPT !.active = no] =
            [role |-> users[e].role, active |-> no, archived |-> yes,
             confirmed |-> users[e].verified, password |-> users[e].password]
      OBVIOUS
    <3> QED BY <2>1, <3>1, <3>2, <3>3
  <2>5. Life!Become(e, [AccountOf(users[e]) EXCEPT !.archived = yes, !.active = no])
    <3> HIDE DEF row, yes, no
    <3>1. Life!Become(e, [role |-> row.role, active |-> row.active, archived |-> row.archived,
                          confirmed |-> row.verified, password |-> row.password])
      BY <2>2, Becomes
    <3> QED BY <2>4, <3>1
  <2>6. Life!Archive(e)
    BY <1>1, <2>5, RowOf DEF Life!Archive
  <2> QED BY <2>6 DEF Life!Next
<1>4. CASE Expire(e)
  <2> DEFINE row == [users[e] EXCEPT !.expired = TRUE]
  <2>1. /\ row \in User /\ row.role = users[e].role /\ row.active = users[e].active
        /\ row.archived = users[e].archived /\ row.verified = users[e].verified
        /\ row.password = users[e].password
    BY <1>1 DEF User
  <2>2. Update(e, row) /\ UNCHANGED mailed
    BY <1>4 DEF Expire
  <2> HIDE DEF row
  <2> QED BY <1>1, <2>1, <2>2, SameAccount
<1> QED BY <1>2, <1>3, <1>4

LEMMA LifeStep ==
  ASSUME IInv, [Next]_vars
  PROVE  [Life!Next]_(Life!vars)
<1>1. TypeOK /\ ByMail
  BY DEF IInv
<1>2. ASSUME NEW h \in Handlers,
             \/ \E e \in Emails, p \in Passwords : RegisterParent_Check(h, e, p)
             \/ RegisterParent_Mail(h)
             \/ \E e \in Emails, role \in Roles, owner \in BOOLEAN, p \in Passwords :
                  CreateUser_Check(h, e, role, owner, p)
             \/ \E e \in Emails : \E c \in inbox[e] : VerifyOTP_Read(h, e, c)
             \/ \E e \in Emails : ResendOTP_Read(h, e)
             \/ ResendOTP_Mail(h)
             \/ \E e \in Emails, p \in Passwords : Login_Read(h, e, p)
             \/ Login_Write(h)
             \/ \E e \in Emails : \/ SuspendUser_Read(h, e) \/ UnlockUser_Read(h, e)
                                 \/ \E p \in Passwords : ResetUserPassword_Read(h, e, p)
      PROVE  UNCHANGED <<users, mailed>>
  BY <1>2 DEF RegisterParent_Check, RegisterParent_Mail, CreateUser_Check, VerifyOTP_Read,
     ResendOTP_Read, ResendOTP_Mail, Login_Read, Login_Write, SuspendUser_Read, UnlockUser_Read,
     ResetUserPassword_Read, OwnerAction_Read
<1>3. CASE Next
  <2>1. CASE Crash
    BY <2>1, Unseen DEF Crash
  <2> QED BY <1>1, <1>2, <1>3, <2>1, EveryStep, Unseen, LifeCreate, LifeVerify, LifeResend,
             LifeReceive, LifeSwitch, LifePassword, LifeSchool
<1>4. CASE UNCHANGED vars
  BY <1>4, Unseen DEF vars
<1> QED BY <1>3, <1>4

LEMMA LifeInit == Init => Life!Init
BY DEF Init, Life!Init, AccountOf

\* users.go: every request, however requests overlap, fail or die half way, does to
\* an account what AccountLife allows and nothing else: opened once, confirmed
\* only after a code arrived, and no later write undoes an earlier decision.
THEOREM ImplementsAccountLife == Spec => AccountSpec
<1>1. Init => IInv
  BY InvInit
<1>2. IInv /\ [Next]_vars => IInv'
  BY InvStep
<1>3. IInv /\ [Next]_vars => [Life!Next]_(Life!vars)
  BY LifeStep
<1>4. Init => Life!Init
  BY LifeInit
<1> QED BY <1>1, <1>2, <1>3, <1>4, PTL DEF Spec, AccountSpec, Life!Spec

=============================================================================
