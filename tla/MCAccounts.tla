----------------------------- MODULE MCAccounts -----------------------------
(* Small instances of Accounts. *)
EXTENDS Accounts

CONSTANTS e1, h1, h2

\* The school edits an account while its holder registers, confirms and signs in.
Edited == [handlers |-> {h1}, offices |-> {h2}, edited |-> {e1}, patient |-> FALSE, mailer |-> TRUE,
           faults |-> 0, crashes |-> 0, expiries |-> 0]

\* Parents on their own, and what can fail.
Parents == [handlers |-> {h1, h2}, offices |-> {}, edited |-> {}, patient |-> TRUE, mailer |-> TRUE,
            faults |-> 2, crashes |-> 1, expiries |-> 1]

\* Parents who ask for codes again and again.
Impatient == [handlers |-> {h1, h2}, offices |-> {}, edited |-> {}, patient |-> FALSE, mailer |-> TRUE,
              faults |-> 1, crashes |-> 0, expiries |-> 0]

\* No mail service.
Unmailed == [Parents EXCEPT !.handlers = {h1}, !.mailer = FALSE, !.crashes = 0]

AllLoads == {Edited, Parents, Impatient, Unmailed}

=============================================================================
