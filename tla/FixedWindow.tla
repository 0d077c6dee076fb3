----------------------------- MODULE FixedWindow -----------------------------
(***************************************************************************)
(* What a fixed-window rate limiter promises, without a table of counters: *)
(* a hit is refused exactly when the Requests-th last hit let through is   *)
(* of a window that is still open.                                         *)
(***************************************************************************)
EXTENDS Integers, Sequences

CONSTANTS Keys, Requests, Window, MaxTime

VARIABLES now, log, answer

vars == <<now, log, answer>>

Full(k) ==
  /\ Len(log[k]) >= Requests
  /\ log[k][Len(log[k]) - Requests + 1].until >= now

\* The end of the window a hit of key k falls in.
WindowEnd(k) ==
  IF log[k] # <<>> /\ log[k][Len(log[k])].until >= now
  THEN log[k][Len(log[k])].until
  ELSE now + Window

Admit(k) ==
  /\ ~Full(k)
  /\ log' = [log EXCEPT ![k] = Append(@, [at |-> now, until |-> WindowEnd(k)])]
  /\ answer' = [key |-> k, ok |-> TRUE, at |-> now]
  /\ UNCHANGED now

Refuse(k) ==
  /\ Full(k)
  /\ answer' = [key |-> k, ok |-> FALSE, at |-> now]
  /\ UNCHANGED <<now, log>>

Tick ==
  /\ now < MaxTime
  /\ now' = now + 1
  /\ UNCHANGED <<log, answer>>

Init ==
  /\ now = 0
  /\ log = [k \in Keys |-> <<>>]
  /\ answer \in {[key |-> k, ok |-> TRUE, at |-> 0] : k \in Keys}

Next == (\E k \in Keys : Admit(k) \/ Refuse(k)) \/ Tick

Spec == Init /\ [][Next]_vars

=============================================================================
