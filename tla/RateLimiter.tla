----------------------------- MODULE RateLimiter -----------------------------
(***************************************************************************)
(* The in-memory rate limiter of internal/middleware/ratelimit.go: one     *)
(* bucket per key, created by the first hit and deleted by a sweeper that  *)
(* runs next to the requests.  Both hold rl.mu from their first statement  *)
(* to their last, so each is one action.                                   *)
(*                                                                         *)
(* Time is a number of ticks read once per critical section.               *)
(***************************************************************************)
EXTENDS Integers, Sequences

CONSTANTS
  Keys,      \* client addresses, or user ids for RateLimitByKey
  Requests,  \* rl.requests: 10 for the login routes, 60 for the public ones
  Window,    \* rl.window, in ticks
  MaxTime    \* bound: how far time runs

ASSUME LimiterAssumption ==
  /\ Requests \in Nat \ {0}
  /\ Window \in Nat
  /\ MaxTime \in Nat

VARIABLES
  now,      \* time.Now()
  buckets,  \* rl.buckets: a function whose domain is the keys of the map
  log,      \* the hits let through: when, and when their bucket ends
  answer    \* the last decision, as the middleware acts on it

limiterVars == <<now, buckets, log, answer>>

Hits == [at : Nat, until : Nat]
Answers == [key : Keys, ok : BOOLEAN, at : Nat]

\* Mutant: the window is over at the very tick of resetAt: !now.Before.
FreshEarly(k) == k \notin DOMAIN buckets \/ now >= buckets[k].resetAt

\* The key has no bucket, or it expired: now.After(b.resetAt).
Fresh(k) == k \notin DOMAIN buckets \/ now > buckets[k].resetAt

\* Mutant: only b.count > rl.requests refuses.
RoomOneMore(k) == buckets[k].count <= Requests

\* b.count >= rl.requests refuses.
Room(k) == buckets[k].count < Requests

\* A request of key k is counted and let through, or answered with 429.
allow(k) ==
  LET until == IF Fresh(k) THEN now + Window ELSE buckets[k].resetAt
      count == IF Fresh(k) THEN 1 ELSE buckets[k].count + 1
      admitted == Fresh(k) \/ Room(k)
  IN /\ answer' = [key |-> k, ok |-> admitted, at |-> now]
     /\ IF admitted
        THEN /\ buckets' = [j \in DOMAIN buckets \cup {k} |->
                  IF j # k THEN buckets[j] ELSE [count |-> count, resetAt |-> until]]
             /\ log' = [log EXCEPT ![k] = Append(@, [at |-> now, until |-> until])]
        ELSE UNCHANGED <<buckets, log>>
     /\ UNCHANGED now

\* Mutant: the sweeper drops every bucket on its tick.
sweepAll ==
  /\ DOMAIN buckets # {}
  /\ buckets' = [k \in {} |-> [count |-> 0, resetAt |-> 0]]
  /\ UNCHANGED <<now, log, answer>>

\* The ticker fires: the expired buckets are deleted.
sweepLoop ==
  /\ \E k \in DOMAIN buckets : now > buckets[k].resetAt
  /\ buckets' = [k \in {j \in DOMAIN buckets : ~(now > buckets[j].resetAt)} |-> buckets[k]]
  /\ UNCHANGED <<now, log, answer>>

Tick ==
  /\ now < MaxTime
  /\ now' = now + 1
  /\ UNCHANGED <<buckets, log, answer>>

\* The process has just started.  No decision was taken: any "admitted at 0".
LimiterInit ==
  /\ now = 0
  /\ buckets = [k \in {} |-> [count |-> 0, resetAt |-> 0]]
  /\ log = [k \in Keys |-> <<>>]
  /\ answer \in {[key |-> k, ok |-> TRUE, at |-> 0] : k \in Keys}

LimiterNext == (\E k \in Keys : allow(k)) \/ sweepLoop \/ Tick

LimiterSpec == LimiterInit /\ [][LimiterNext]_limiterVars

-----------------------------------------------------------------------------
(* Properties. *)

LimiterTypeOK ==
  /\ now \in Nat
  /\ DOMAIN buckets \subseteq Keys
  /\ \A k \in DOMAIN buckets : buckets[k] \in [count : 1..Requests, resetAt : Nat]
  /\ log \in [Keys -> Seq(Hits)]
  /\ answer \in Answers

\* allow, ratelimit.go:54-68: of any 2 * Requests + 1 hits of a key let through
\* in a row, the first and the last are more than Window apart.  The windows
\* are fixed, so this, not Requests per Window, is what a client can reach,
\* wherever its hits lie and whenever the sweeper runs.
TwiceTheLimit ==
  \A k \in Keys : \A i \in DOMAIN log[k] :
    i + 2 * Requests \in DOMAIN log[k] =>
      log[k][i + 2 * Requests].at > log[k][i].at + Window

\* allow, ratelimit.go:63: a client is refused only when Requests of its hits
\* were let through within the last Window.
RefusedForCause ==
  ~answer.ok =>
    LET hits == log[answer.key]
    IN /\ Len(hits) >= Requests
       /\ hits[Len(hits) - Requests + 1].at + Window >= answer.at

\* The map, its counters and the sweeper are an implementation detail: the
\* decisions are those of FixedWindow, a function of the hits let through.
Abstract == INSTANCE FixedWindow
AbstractSpec == Abstract!Spec

=============================================================================
