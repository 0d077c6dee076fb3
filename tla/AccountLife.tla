----------------------------- MODULE AccountLife -----------------------------
(***************************************************************************)
(* What an account is to its holder and to the school, whatever requests   *)
(* overlap: it is opened once, confirmed only by who received a code for   *)
(* it, archived for good, and whatever is decided about one of its columns *)
(* leaves all others as they were decided.                                 *)
(***************************************************************************)
CONSTANTS
  Emails, Roles, Passwords,
  NoAccount  \* of an address nobody has an account for

VARIABLES
  account,  \* what is known of the account of each address
  reached   \* addresses a code has arrived at

vars == <<account, reached>>

Account == [role : Roles, active : BOOLEAN, archived : BOOLEAN,
            confirmed : BOOLEAN, password : Passwords]

TypeOK ==
  /\ account \in [Emails -> Account \cup {NoAccount}]
  /\ reached \subseteq Emails

Init == account = [e \in Emails |-> NoAccount] /\ reached = {}

Become(e, a) == account' = [account EXCEPT ![e] = a] /\ UNCHANGED reached
Exists(e) == account[e] # NoAccount

\* Registered by a parent, or opened by the school for its staff.
Open(e) ==
  /\ ~Exists(e)
  /\ \E r \in Roles, p \in Passwords, c \in BOOLEAN :
       Become(e, [role |-> r, active |-> TRUE, archived |-> FALSE,
                  confirmed |-> c, password |-> p])

Receive(e) == Exists(e) /\ reached' = reached \cup {e} /\ UNCHANGED account

Confirm(e) ==
  /\ Exists(e) /\ e \in reached
  /\ Become(e, [account[e] EXCEPT !.confirmed = TRUE])

\* Another role, suspended or let in again.
Edit(e) ==
  /\ Exists(e)
  /\ \E r \in Roles, on \in BOOLEAN :
       Become(e, [account[e] EXCEPT !.role = r, !.active = on])

Archive(e) ==
  /\ Exists(e)
  /\ Become(e, [account[e] EXCEPT !.archived = TRUE, !.active = FALSE])

SetPassword(e) ==
  /\ Exists(e)
  /\ \E p \in Passwords : Become(e, [account[e] EXCEPT !.password = p])

Next == \E e \in Emails :
  Open(e) \/ Receive(e) \/ Confirm(e) \/ Edit(e) \/ Archive(e) \/ SetPassword(e)

Spec == Init /\ [][Next]_vars

==============================================================================
