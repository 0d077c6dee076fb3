----------------------------- MODULE ServerProofs -----------------------------
(***************************************************************************)
(* What holds of the rate limiter for any keys, limit, window and time,    *)
(* and of the start of the server for any sessions, requests, crashes and  *)
(* failures.                                                               *)
(*                                                                         *)
(* Limiter: the invariant relates the table of buckets to the hits let     *)
(* through.  History says that the windows of a key follow one another     *)
(* with a gap of more than a Window and that none holds more than Requests *)
(* hits; Tracks that a bucket counts exactly the hits of the last window,  *)
(* and that a key without one has no window open.                          *)
(*                                                                         *)
(* Start: nobody is served before the start is over (Resting), requests    *)
(* that did not overlap are alone (Alone) and one about to activate a      *)
(* session has left none active (Quiet); a start that has passed a stage   *)
(* has that stage's rows, or a statement of it failed (Seeded).            *)
(***************************************************************************)
EXTENDS RateLimiter, Startup, TLAPS

History(s, t) ==
  /\ \A i \in DOMAIN s : s[i].at <= t /\ s[i].at <= s[i].until /\ s[i].until <= s[i].at + Window
  /\ \A i, j \in DOMAIN s : i < j =>
       s[j].until = s[i].until \/ s[j].until > s[i].until + Window
  /\ \A i \in DOMAIN s : i + Requests \in DOMAIN s => s[i + Requests].until # s[i].until

Counts(s, count, resetAt) ==
  /\ count <= Len(s)
  /\ \A i \in DOMAIN s : IF i > Len(s) - count THEN s[i].until = resetAt
                                                ELSE s[i].until < resetAt

Tracks(k) ==
  IF k \in DOMAIN buckets THEN Counts(log[k], buckets[k].count, buckets[k].resetAt)
  ELSE \A i \in DOMAIN log[k] : log[k][i].until < now

LimiterInv ==
  /\ LimiterTypeOK
  /\ \A k \in Keys : History(log[k], now) /\ Tracks(k)
  /\ RefusedForCause

-----------------------------------------------------------------------------
(* The history of a key. *)

\* A hit can be added in a window that follows the last one, or in the last
\* one unless the hit Requests before it was already of that window.
LEMMA AppendHistory ==
  ASSUME NEW s \in Seq(Hits), NEW t \in Nat, NEW u \in Nat,
         History(s, t), t <= u, u <= t + Window,
         \A i \in DOMAIN s : u = s[i].until \/ u > s[i].until + Window,
         \A i \in DOMAIN s : i + Requests = Len(s) + 1 => s[i].until # u
  PROVE  History(Append(s, [at |-> t, until |-> u]), t)
<1> DEFINE h == [at |-> t, until |-> u]
           s2 == Append(s, h)
<1>1. /\ h \in Hits /\ h.at = t /\ h.until = u
      /\ s2 \in Seq(Hits) /\ Len(s2) = Len(s) + 1 /\ Len(s) \in Nat
      /\ DOMAIN s = 1..Len(s) /\ DOMAIN s2 = 1..(Len(s) + 1)
  BY DEF Hits
<1>2. /\ \A i \in DOMAIN s : s2[i] = s[i] /\ s[i].at \in Nat /\ s[i].until \in Nat
      /\ s2[Len(s) + 1] = h
  <2>1. \A i \in DOMAIN s : s[i] \in Hits
    OBVIOUS
  <2>2. \A i \in DOMAIN s : s[i].at \in Nat /\ s[i].until \in Nat
    BY <2>1 DEF Hits
  <2>3. (\A i \in DOMAIN s : s2[i] = s[i]) /\ s2[Len(s) + 1] = h
    BY <1>1
  <2> QED BY <2>2, <2>3
<1>3. Window \in Nat /\ Requests \in Nat /\ Requests > 0
  BY LimiterAssumption
<1> HIDE DEF s2, h
<1>4. \A i \in DOMAIN s2 : s2[i].at <= t /\ s2[i].at <= s2[i].until
                           /\ s2[i].until <= s2[i].at + Window
  BY <1>1, <1>2, <1>3 DEF History
<1>5. \A i, j \in DOMAIN s2 : i < j =>
        s2[j].until = s2[i].until \/ s2[j].until > s2[i].until + Window
  BY <1>1, <1>2, <1>3 DEF History
<1>6. \A i \in DOMAIN s2 : i + Requests \in DOMAIN s2 =>
        s2[i + Requests].until # s2[i].until
  BY <1>1, <1>2, <1>3 DEF History
<1> QED BY <1>4, <1>5, <1>6 DEF History, s2, h

\* The Requests-th hit after a hit is of a later window, which opened more
\* than a Window after; so is the Requests-th after that.
LEMMA TwoWindows ==
  ASSUME NEW s \in Seq(Hits), NEW t \in Nat, History(s, t),
         NEW i \in DOMAIN s, i + 2 * Requests \in DOMAIN s
  PROVE  s[i + 2 * Requests].at > s[i].at + Window
<1> DEFINE j == i + Requests
           l == i + 2 * Requests
<1>1. Window \in Nat /\ Requests \in Nat /\ Requests > 0
  BY LimiterAssumption
<1>2. DOMAIN s = 1..Len(s) /\ Len(s) \in Nat /\ i \in Nat
  OBVIOUS
<1>3. j \in DOMAIN s /\ l \in DOMAIN s /\ l = j + Requests /\ i < j /\ j < l
  BY <1>1, <1>2
<1>4. \A n \in DOMAIN s : s[n].at \in Nat /\ s[n].until \in Nat
  <2>1. \A n \in DOMAIN s : s[n] \in Hits
    OBVIOUS
  <2> QED BY <2>1 DEF Hits
<1>5. s[j].until # s[i].until /\ s[l].until # s[j].until
  BY <1>3 DEF History
<1>6. s[j].until > s[i].until + Window /\ s[l].until > s[j].until + Window
  BY <1>3, <1>5 DEF History
<1>7. s[i].at <= s[i].until /\ s[l].until <= s[l].at + Window
  BY <1>3 DEF History
<1>8. /\ s[i].at \in Nat /\ s[l].at \in Nat
      /\ s[i].until \in Nat /\ s[j].until \in Nat /\ s[l].until \in Nat
  BY <1>3, <1>4
<1>9. \A a, b, c, d, e \in Nat :
        a <= b /\ c > b + Window /\ d > c + Window /\ d <= e + Window => e > a + Window
  BY <1>1
<1>10. s[l].at > s[i].at + Window
  <2> HIDE DEF j, l
  <2> QED BY <1>6, <1>7, <1>8, <1>9
<1> QED BY <1>10

-----------------------------------------------------------------------------
(* The table of buckets against the hits let through. *)

\* Every window of a key has an end that is a tick.
LEMMA HitTypes ==
  ASSUME LimiterTypeOK, NEW k \in Keys
  PROVE  /\ log[k] \in Seq(Hits) /\ Len(log[k]) \in Nat /\ DOMAIN log[k] = 1..Len(log[k])
         /\ \A i \in DOMAIN log[k] : log[k][i].at \in Nat /\ log[k][i].until \in Nat
<1>1. log[k] \in Seq(Hits)
  BY DEF LimiterTypeOK
<1>2. \A i \in DOMAIN log[k] : log[k][i] \in Hits
  BY <1>1
<1> QED BY <1>1, <1>2 DEF Hits

LEMMA BucketTypes ==
  ASSUME LimiterTypeOK, NEW k \in DOMAIN buckets
  PROVE  /\ k \in Keys
         /\ buckets[k].count \in Nat /\ 0 < buckets[k].count /\ buckets[k].count <= Requests
         /\ buckets[k].resetAt \in Nat
<1>1. k \in Keys /\ buckets[k] \in [count : 1..Requests, resetAt : Nat] /\ Requests \in Nat
  BY LimiterAssumption DEF LimiterTypeOK
<1> QED BY <1>1

\* A hit that finds no open bucket comes after every window of its key.
LEMMA FreshWindow ==
  ASSUME LimiterInv, NEW k \in Keys, Fresh(k)
  PROVE  \A i \in DOMAIN log[k] : log[k][i].until < now
<1>1. /\ now \in Nat /\ History(log[k], now) /\ Tracks(k) /\ LimiterTypeOK
      /\ Window \in Nat
  BY LimiterAssumption DEF LimiterInv, LimiterTypeOK
<1>2. CASE k \notin DOMAIN buckets
  BY <1>1, <1>2 DEF Tracks
<1>3. CASE k \in DOMAIN buckets
  <2>1. now > buckets[k].resetAt /\ buckets[k].resetAt \in Nat
    BY <1>1, <1>3, BucketTypes DEF Fresh
  <2>2. \A i \in DOMAIN log[k] : log[k][i].until <= buckets[k].resetAt
    BY <1>1, <1>3, HitTypes, <2>1 DEF Tracks, Counts
  <2> QED BY <1>1, HitTypes, <2>1, <2>2
<1> QED BY <1>2, <1>3

\* The bucket a hit is counted in is the last window of its key; any other
\* window of the key ended more than a Window before this one does.
LEMMA OpenWindow ==
  ASSUME LimiterInv, NEW k \in Keys, ~Fresh(k)
  PROVE  LET n == Len(log[k])
             until == buckets[k].resetAt
             count == buckets[k].count
         IN /\ k \in DOMAIN buckets /\ now <= until /\ until <= now + Window
            /\ count \in 1..Requests /\ count <= n /\ log[k][n].until = until
            /\ \A i \in DOMAIN log[k] :
                 IF i > n - count THEN log[k][i].until = until
                 ELSE until > log[k][i].until + Window
<1> DEFINE n == Len(log[k])
           until == buckets[k].resetAt
           count == buckets[k].count
<1>1. /\ now \in Nat /\ History(log[k], now) /\ Tracks(k) /\ LimiterTypeOK
      /\ Window \in Nat /\ Requests \in Nat
  BY LimiterAssumption DEF LimiterInv, LimiterTypeOK
<1>2. k \in DOMAIN buckets /\ ~(now > until)
  BY DEF Fresh
<1>3. until \in Nat /\ count \in Nat /\ 0 < count /\ count <= Requests
  BY <1>1, <1>2, BucketTypes
<1>4. /\ n \in Nat /\ DOMAIN log[k] = 1..n
      /\ \A i \in DOMAIN log[k] : log[k][i].at \in Nat /\ log[k][i].until \in Nat
  BY <1>1, HitTypes
<1>5. /\ count <= n
      /\ \A i \in DOMAIN log[k] : IF i > n - count THEN log[k][i].until = until
                                                   ELSE log[k][i].until < until
  BY <1>1, <1>2 DEF Tracks, Counts
<1>6. n \in DOMAIN log[k] /\ log[k][n].until = until
  BY <1>3, <1>4, <1>5
<1> HIDE DEF n, until, count
<1>7. until <= now + Window
  BY <1>1, <1>3, <1>4, <1>6 DEF History
<1>8. ASSUME NEW i \in DOMAIN log[k], ~(i > n - count)
      PROVE  until > log[k][i].until + Window
  <2>1. i < n /\ log[k][i].until < until
    BY <1>3, <1>4, <1>5, <1>8
  <2>2. log[k][n].until = log[k][i].until \/ log[k][n].until > log[k][i].until + Window
    BY <1>1, <1>6, <2>1 DEF History
  <2> QED BY <1>3, <1>4, <1>6, <2>1, <2>2
<1>9. now <= until /\ count \in 1..Requests
  BY <1>1, <1>2, <1>3
<1> QED BY <1>2, <1>5, <1>6, <1>7, <1>8, <1>9 DEF n, until, count

-----------------------------------------------------------------------------
(* The invariant holds initially and is kept by every step. *)

LEMMA InitLimiterInv == LimiterInit => LimiterInv
<1> SUFFICES ASSUME LimiterInit PROVE LimiterInv
  OBVIOUS
<1>1. Requests \in Nat /\ <<>> \in Seq(Hits) /\ DOMAIN buckets = {}
  BY LimiterAssumption DEF LimiterInit
<1>2. LimiterTypeOK
  <2>1. log \in [Keys -> Seq(Hits)]
    BY <1>1 DEF LimiterInit
  <2>2. answer \in Answers
    <3>1. PICK k \in Keys : answer = [key |-> k, ok |-> TRUE, at |-> 0]
      BY DEF LimiterInit
    <3> QED BY <3>1 DEF Answers
  <2> QED BY <1>1, <2>1, <2>2 DEF LimiterInit, LimiterTypeOK
<1>3. ASSUME NEW k \in Keys PROVE History(log[k], now) /\ Tracks(k)
  <2>1. log[k] = <<>> /\ DOMAIN log[k] = {} /\ k \notin DOMAIN buckets
    BY <1>1 DEF LimiterInit
  <2> QED BY <2>1 DEF History, Tracks
<1>4. RefusedForCause
  BY DEF LimiterInit, RefusedForCause
<1> QED BY <1>2, <1>3, <1>4 DEF LimiterInv

\* What a hit that is let through adds to its key, in terms of the code: the
\* bucket with its new count, and the hit.
Let(k, count, until) ==
  /\ buckets' = [j \in DOMAIN buckets \cup {k} |->
       IF j # k THEN buckets[j] ELSE [count |-> count, resetAt |-> until]]
  /\ log' = [log EXCEPT ![k] = Append(@, [at |-> now, until |-> until])]
  /\ answer' = [key |-> k, ok |-> TRUE, at |-> now]
  /\ UNCHANGED now

LEMMA LetLimiterInv ==
  ASSUME LimiterInv, NEW k \in Keys, NEW count \in 1..Requests, NEW until \in Nat,
         Let(k, count, until),
         History(log'[k], now), Counts(log'[k], count, until)
  PROVE  LimiterInv'
<1>1. /\ LimiterTypeOK /\ now \in Nat /\ now' = now /\ log[k] \in Seq(Hits)
      /\ log \in [Keys -> Seq(Hits)]
  BY DEF LimiterInv, LimiterTypeOK, Let
<1>2. [at |-> now, until |-> until] \in Hits
  BY <1>1 DEF Hits
<1>3. Append(log[k], [at |-> now, until |-> until]) \in Seq(Hits)
  BY <1>1, <1>2
<1>4. log' \in [Keys -> Seq(Hits)]
  BY <1>1, <1>3 DEF Let
<1>5. /\ DOMAIN buckets' = DOMAIN buckets \cup {k}
      /\ buckets'[k] = [count |-> count, resetAt |-> until]
      /\ \A j \in DOMAIN buckets : j # k => buckets'[j] = buckets[j]
  BY DEF Let
<1>6. \A j \in DOMAIN buckets' : buckets'[j] \in [count : 1..Requests, resetAt : Nat]
  BY <1>1, <1>5 DEF LimiterTypeOK
<1>7. answer' \in Answers /\ answer'.ok
  BY <1>1 DEF Let, Answers
<1>8. LimiterTypeOK'
  BY <1>1, <1>4, <1>5, <1>6, <1>7 DEF LimiterTypeOK
<1>9. RefusedForCause'
  BY <1>7 DEF RefusedForCause
<1>10. ASSUME NEW j \in Keys PROVE History(log[j], now)' /\ Tracks(j)'
  <2>1. CASE j = k
    BY <1>1, <1>5, <2>1 DEF Tracks
  <2>2. CASE j # k
    <3>1. log'[j] = log[j] /\ (j \in DOMAIN buckets' <=> j \in DOMAIN buckets)
      BY <1>1, <1>5, <2>2 DEF Let
    <3>2. History(log[j], now) /\ Tracks(j)
      BY DEF LimiterInv
    <3> QED BY <1>1, <1>5, <2>2, <3>1, <3>2 DEF Tracks
  <2> QED BY <2>1, <2>2
<1> QED BY <1>8, <1>9, <1>10 DEF LimiterInv

\* Counting one more hit of the window.
LEMMA AppendCounts ==
  ASSUME NEW s \in Seq(Hits), NEW t \in Nat, NEW u \in Nat, NEW c \in Nat, Counts(s, c, u)
  PROVE  Counts(Append(s, [at |-> t, until |-> u]), c + 1, u)
<1> DEFINE h == [at |-> t, until |-> u]
           s2 == Append(s, h)
<1>1. h \in Hits /\ h.until = u
  BY DEF Hits
<1>2. /\ Len(s2) = Len(s) + 1 /\ Len(s) \in Nat /\ DOMAIN s = 1..Len(s)
      /\ DOMAIN s2 = 1..(Len(s) + 1)
      /\ (\A i \in DOMAIN s : s2[i] = s[i]) /\ s2[Len(s) + 1] = h
  BY <1>1
<1> HIDE DEF h, s2
<1>3. Counts(s2, c + 1, u)
  BY <1>1, <1>2 DEF Counts
<1> QED BY <1>3 DEF s2, h

LEMMA AllowLimiterInv == ASSUME LimiterInv, NEW k \in Keys, allow(k) PROVE LimiterInv'
<1> DEFINE s == log[k]
           n == Len(s)
           s2(u) == Append(s, [at |-> now, until |-> u])
<1>1. /\ LimiterTypeOK /\ now \in Nat /\ History(s, now) /\ Tracks(k) /\ Window \in Nat
      /\ Requests \in Nat /\ Requests > 0 /\ s \in Seq(Hits)
      /\ log \in [Keys -> Seq(Hits)]
  BY LimiterAssumption DEF LimiterInv, LimiterTypeOK
<1>2. /\ n \in Nat /\ DOMAIN s = 1..n
      /\ \A i \in DOMAIN s : s[i].at \in Nat /\ s[i].until \in Nat
  BY <1>1, HitTypes
<1>3. CASE Fresh(k)
  <2> DEFINE u == now + Window
  <2>1. Let(k, 1, u) /\ log'[k] = s2(u)
    BY <1>1, <1>3 DEF allow, Let
  <2>2. \A i \in DOMAIN s : s[i].until < now
    BY <1>3, FreshWindow
  <2>3. u \in Nat /\ now <= u /\ u <= now + Window
    BY <1>1
  <2>4. /\ \A i \in DOMAIN s : u = s[i].until \/ u > s[i].until + Window
        /\ \A i \in DOMAIN s : i + Requests = Len(s) + 1 => s[i].until # u
        /\ \A i \in DOMAIN s : i <= Len(s) /\ s[i].until < u
    BY <1>1, <1>2, <2>2
  <2> HIDE DEF s, u
  <2>5. History(s2(u), now)
    BY <1>1, <2>3, <2>4, AppendHistory
  <2>6. Counts(s2(u), 1, u)
    <3>1. Counts(s, 0, u)
      BY <1>1, <1>2, <2>4 DEF Counts
    <3>2. Counts(s2(u), 0 + 1, u)
      BY <1>1, <2>3, <3>1, AppendCounts
    <3> QED BY <3>2
  <2>7. 1 \in 1..Requests
    BY <1>1
  <2> QED BY <1>1, <2>1, <2>3, <2>5, <2>6, <2>7, LetLimiterInv
<1>4. CASE ~Fresh(k) /\ Room(k)
  <2> DEFINE until == buckets[k].resetAt
             count == buckets[k].count
  <2>1. Let(k, count + 1, until) /\ log'[k] = s2(until)
    BY <1>1, <1>4 DEF allow, Let
  <2>2. /\ k \in DOMAIN buckets /\ now <= until /\ until <= now + Window
        /\ count \in 1..Requests /\ count <= n
        /\ \A i \in DOMAIN s : IF i > n - count THEN s[i].until = until
                               ELSE until > s[i].until + Window
    BY <1>4, OpenWindow
  <2>3. count < Requests /\ until \in Nat
    BY <1>1, <1>4, <2>2, BucketTypes DEF Room
  <2> HIDE DEF s, until, count
  <2>4. /\ \A i \in DOMAIN s : until = s[i].until \/ until > s[i].until + Window
        /\ \A i \in DOMAIN s : i + Requests = Len(s) + 1 => s[i].until # until
    BY <1>1, <1>2, <2>2, <2>3, SMTT(40)
  <2>5. History(s2(until), now)
    BY <1>1, <2>2, <2>3, <2>4, AppendHistory
  <2>6. Counts(s2(until), count + 1, until)
    <3>1. Counts(s, count, until) /\ count \in Nat
      BY <1>1, <2>2 DEF Tracks, s, count, until
    <3> QED BY <1>1, <2>3, <3>1, AppendCounts
  <2>7. count + 1 \in 1..Requests
    BY <1>1, <2>2, <2>3
  <2> QED BY <1>1, <2>1, <2>3, <2>5, <2>6, <2>7, LetLimiterInv
<1>5. CASE ~Fresh(k) /\ ~Room(k)
  <2>1. /\ UNCHANGED <<now, buckets, log>>
        /\ answer' = [key |-> k, ok |-> FALSE, at |-> now]
    BY <1>5 DEF allow
  <2>2. LimiterTypeOK'
    BY <1>1, <2>1 DEF LimiterTypeOK, Answers
  <2>3. \A j \in Keys : History(log[j], now)' /\ Tracks(j)'
    BY <2>1 DEF LimiterInv, Tracks
  <2>4. /\ n >= Requests /\ s[n - Requests + 1].until >= now
        /\ n - Requests + 1 \in DOMAIN s
    <3>1. /\ now <= buckets[k].resetAt /\ k \in DOMAIN buckets
          /\ buckets[k].count \in 1..Requests /\ buckets[k].count <= n
          /\ \A i \in DOMAIN s : i > n - buckets[k].count => s[i].until = buckets[k].resetAt
      BY <1>5, OpenWindow
    <3>2. buckets[k].count = Requests /\ buckets[k].resetAt \in Nat
      BY <1>1, <1>5, <3>1, BucketTypes DEF Room
    <3>3. n \in Nat /\ DOMAIN s = 1..n /\ Requests \in Nat /\ Requests > 0
      BY <1>1, <1>2, LimiterAssumption
    <3> HIDE DEF n, s
    <3>4. n >= Requests /\ n - Requests + 1 \in 1..n /\ n - Requests + 1 > n - Requests
      BY <3>1, <3>2, <3>3
    <3>5. s[n - Requests + 1].until = buckets[k].resetAt
      BY <3>1, <3>2, <3>3, <3>4
    <3> QED BY <3>1, <3>3, <3>4, <3>5
  <2>5. s[n - Requests + 1].at + Window >= now
    <3> DEFINE i == n - Requests + 1
    <3>1. i \in DOMAIN s /\ s[i].until >= now
      BY <2>4
    <3> HIDE DEF i, s
    <3>2. s[i].until <= s[i].at + Window /\ s[i].until \in Nat /\ s[i].at \in Nat
      BY <1>1, <1>2, <3>1 DEF History
    <3>3. s[i].at + Window >= now
      BY <1>1, <3>1, <3>2
    <3> QED BY <3>3 DEF i
  <2>6. RefusedForCause'
    BY <2>1, <2>4, <2>5 DEF RefusedForCause
  <2> QED BY <2>2, <2>3, <2>6 DEF LimiterInv
<1> QED BY <1>3, <1>4, <1>5

LEMMA SweepLimiterInv == ASSUME LimiterInv, sweepLoop PROVE LimiterInv'
<1>1. /\ UNCHANGED <<now, log, answer>>
      /\ DOMAIN buckets' = {j \in DOMAIN buckets : ~(now > buckets[j].resetAt)}
      /\ \A k \in DOMAIN buckets' : buckets'[k] = buckets[k]
  BY DEF sweepLoop
<1>2. LimiterTypeOK'
  BY <1>1 DEF LimiterInv, LimiterTypeOK
<1>3. RefusedForCause'
  BY <1>1 DEF LimiterInv, RefusedForCause
<1>4. ASSUME NEW k \in Keys PROVE Tracks(k)'
  <2>1. CASE k \in DOMAIN buckets'
    BY <1>1, <2>1 DEF LimiterInv, Tracks
  <2>2. CASE k \notin DOMAIN buckets'
    <3>1. Fresh(k)
      BY <1>1, <2>2 DEF Fresh
    <3>2. \A i \in DOMAIN log[k] : log[k][i].until < now
      BY <3>1, FreshWindow
    <3> QED BY <1>1, <2>2, <3>2 DEF Tracks
  <2> QED BY <2>1, <2>2
<1>5. \A k \in Keys : History(log[k], now)'
  BY <1>1 DEF LimiterInv
<1> QED BY <1>2, <1>3, <1>4, <1>5 DEF LimiterInv

LEMMA TickLimiterInv == ASSUME LimiterInv, Tick PROVE LimiterInv'
<1>1. now \in Nat /\ now' = now + 1 /\ UNCHANGED <<buckets, log, answer>> /\ LimiterTypeOK
  BY DEF Tick, LimiterInv, LimiterTypeOK
<1>2. LimiterTypeOK'
  BY <1>1 DEF LimiterTypeOK
<1>3. RefusedForCause'
  BY <1>1 DEF LimiterInv, RefusedForCause
<1>4. ASSUME NEW k \in Keys PROVE History(log[k], now)' /\ Tracks(k)'
  <2>1. History(log[k], now) /\ Tracks(k)
    BY DEF LimiterInv
  <2>2. \A i \in DOMAIN log[k] : log[k][i].at \in Nat /\ log[k][i].until \in Nat
    BY <1>1, HitTypes
  <2>3. History(log[k], now)'
    BY <1>1, <2>1, <2>2 DEF History
  <2>4. Tracks(k)'
    BY <1>1, <2>1, <2>2 DEF Tracks
  <2> QED BY <2>3, <2>4
<1> QED BY <1>2, <1>3, <1>4 DEF LimiterInv

LEMMA StepLimiterInv == LimiterInv /\ [LimiterNext]_limiterVars => LimiterInv'
<1> SUFFICES ASSUME LimiterInv, [LimiterNext]_limiterVars PROVE LimiterInv'
  OBVIOUS
<1>1. ASSUME NEW k \in Keys, allow(k) PROVE LimiterInv'
  BY <1>1, AllowLimiterInv
<1>2. CASE sweepLoop
  BY <1>2, SweepLimiterInv
<1>3. CASE Tick
  BY <1>3, TickLimiterInv
<1>4. CASE UNCHANGED limiterVars
  BY <1>4 DEF limiterVars, LimiterInv, LimiterTypeOK, Tracks, RefusedForCause
<1> QED BY <1>1, <1>2, <1>3, <1>4 DEF LimiterNext

LEMMA AlwaysLimiterInv == LimiterSpec => []LimiterInv
  BY InitLimiterInv, StepLimiterInv, PTL DEF LimiterSpec

\* Type correctness, and no bucket counts more hits than the limit.
THEOREM LimiterTypeCorrect == LimiterSpec => []LimiterTypeOK
<1>1. LimiterInv => LimiterTypeOK
  BY DEF LimiterInv
<1> QED BY <1>1, AlwaysLimiterInv, PTL

\* However its hits lie and whenever the sweeper runs, a client gets no more
\* than twice the limit through within a window.
THEOREM NeverMoreThanTwice == LimiterSpec => []TwiceTheLimit
<1>1. LimiterInv => TwiceTheLimit
  <2> SUFFICES ASSUME LimiterInv, NEW k \in Keys, NEW i \in DOMAIN log[k],
                      i + 2 * Requests \in DOMAIN log[k]
               PROVE  log[k][i + 2 * Requests].at > log[k][i].at + Window
    BY DEF TwiceTheLimit
  <2>1. log[k] \in Seq(Hits) /\ now \in Nat /\ History(log[k], now)
    BY DEF LimiterInv, LimiterTypeOK
  <2> QED BY <2>1, TwoWindows
<1> QED BY <1>1, AlwaysLimiterInv, PTL

\* A client is only ever refused with its allowance of the last window used.
THEOREM AlwaysForCause == LimiterSpec => []RefusedForCause
<1>1. LimiterInv => RefusedForCause
  BY DEF LimiterInv
<1> QED BY <1>1, AlwaysLimiterInv, PTL

-----------------------------------------------------------------------------
(* The limiter implements FixedWindow. *)

LEMMA AllowDecides ==
  ASSUME LimiterInv, NEW k \in Keys, allow(k)
  PROVE  Abstract!Admit(k) \/ Abstract!Refuse(k)
<1> DEFINE s == log[k]
           n == Len(s)
<1>1. /\ LimiterTypeOK /\ now \in Nat /\ Window \in Nat
      /\ Requests \in Nat /\ Requests > 0 /\ s \in Seq(Hits)
  BY LimiterAssumption DEF LimiterInv, LimiterTypeOK
<1>2. /\ n \in Nat /\ DOMAIN s = 1..n
      /\ \A i \in DOMAIN s : s[i].at \in Nat /\ s[i].until \in Nat
  BY <1>1, HitTypes
<1>3. CASE Fresh(k)
  <2>1. \A i \in DOMAIN s : s[i].until < now
    BY <1>3, FreshWindow
  <2>2. ~Abstract!Full(k)
    <3>1. n >= Requests => n - Requests + 1 \in DOMAIN s
      BY <1>1, <1>2
    <3>2. \A i \in DOMAIN s : ~(s[i].until >= now)
      BY <1>1, <1>2, <2>1
    <3> QED BY <3>1, <3>2 DEF Abstract!Full
  <2>3. Abstract!WindowEnd(k) = now + Window
    BY <1>1, <1>2, <2>1 DEF Abstract!WindowEnd
  <2> QED BY <1>3, <2>2, <2>3 DEF allow, Abstract!Admit
<1>4. CASE ~Fresh(k)
  <2> DEFINE until == buckets[k].resetAt
             count == buckets[k].count
  <2>1. /\ now <= until /\ until <= now + Window /\ k \in DOMAIN buckets
        /\ count \in 1..Requests /\ count <= n /\ s[n].until = until
        /\ \A i \in DOMAIN s : IF i > n - count THEN s[i].until = until
                               ELSE until > s[i].until + Window
    BY <1>4, OpenWindow
  <2>2. until \in Nat /\ (Room(k) <=> count < Requests)
    BY <1>1, <2>1, BucketTypes DEF Room
  <2> HIDE DEF until, count
  <2>3. Abstract!Full(k) <=> ~Room(k)
    <3> DEFINE i == n - Requests + 1
    <3>1. n >= Requests => i \in DOMAIN s
      BY <1>1, <1>2
    <3>2. i > n - count <=> ~(count < Requests)
      BY <1>1, <1>2, <2>1
    <3>3. Abstract!Full(k) <=> n >= Requests /\ s[i].until >= now
      BY DEF Abstract!Full
    <3> HIDE DEF i, s, n
    <3>4. i \in DOMAIN s => (s[i].until >= now <=> i > n - count)
      BY <1>1, <1>2, <2>1, <2>2
    <3>5. ~(count < Requests) => n >= Requests
      BY <1>1, <1>2, <2>1
    <3> QED BY <2>2, <3>1, <3>2, <3>3, <3>4, <3>5
  <2>4. Abstract!WindowEnd(k) = until
    BY <1>1, <1>2, <2>1, <2>2 DEF Abstract!WindowEnd
  <2>5. CASE Room(k)
    BY <1>4, <2>3, <2>4, <2>5 DEF allow, Abstract!Admit, until
  <2>6. CASE ~Room(k)
    BY <1>4, <2>3, <2>6 DEF allow, Abstract!Refuse
  <2> QED BY <2>5, <2>6
<1> QED BY <1>3, <1>4

\* Buckets, counters and sweeps are invisible: every decision is the one the
\* hits let through before determine.
THEOREM ImplementsFixedWindow == LimiterSpec => AbstractSpec
<1>1. LimiterInit => Abstract!Init
  BY DEF LimiterInit, Abstract!Init
<1>2. LimiterInv /\ [LimiterNext]_limiterVars => [Abstract!Next]_(Abstract!vars)
  <2> SUFFICES ASSUME LimiterInv, [LimiterNext]_limiterVars PROVE [Abstract!Next]_(Abstract!vars)
    OBVIOUS
  <2>1. ASSUME NEW k \in Keys, allow(k) PROVE Abstract!Next
    BY <2>1, AllowDecides DEF Abstract!Next
  <2>2. CASE sweepLoop
    BY <2>2 DEF sweepLoop, Abstract!vars
  <2>3. CASE Tick
    BY <2>3 DEF Tick, Abstract!Next, Abstract!Tick
  <2>4. CASE UNCHANGED limiterVars
    BY <2>4 DEF limiterVars, Abstract!vars
  <2> QED BY <2>1, <2>2, <2>3, <2>4 DEF LimiterNext
<1> QED BY <1>1, <1>2, AlwaysLimiterInv, PTL DEF LimiterSpec, AbstractSpec, Abstract!Spec

-----------------------------------------------------------------------------
(* The start of the server. *)

\* Requests are served when a start is over, and end with the process.
Resting == server # "up" => \A h \in Handlers : local[h] = Idle

\* Without overlap one request is in progress at most.
Alone ==
  ~overlapped => \A g, h \in Handlers : local[g] # Idle /\ local[h] # Idle => g = h

\* An activation whose first statement was executed found no session active
\* when it comes to its second, and nobody activates one in between.
Quiet ==
  faults = 0 /\ ~overlapped =>
    \A h \in Handlers : local[h].op = "activate" => ~HasActive

\* What a start has found or created when it comes to a stage.
Seeded ==
  /\ server \in {"divisions", "session", "owner", "demo", "demoRest", "up"} => school
  /\ server \in {"session", "owner", "demo", "demoRest", "up"} => divisions = Divisions \/ troubled
  /\ server \in {"owner", "demo", "demoRest"} => HasActive \/ troubled
  /\ server \in {"demo", "demoRest", "up"} => owner = "seed"

IInv == TypeOK /\ Resting /\ Alone /\ Quiet /\ AtMostOneActive /\ Seeded

LEMMA InitIInv == Init => IInv
<1> SUFFICES ASSUME Init PROVE IInv
  OBVIOUS
<1>1. TypeOK
  <2>1. Idle \in [op : {"idle", "activate", "close"}, session : Sessions \cup {NoSession}]
    BY DEF Idle
  <2>2. local \in [Handlers -> [op : {"idle", "activate", "close"},
                                session : Sessions \cup {NoSession}]]
    BY <2>1 DEF Init
  <2> QED BY <2>2 DEF Init, TypeOK
<1>2. Resting /\ Alone
  BY DEF Init, Resting, Alone
<1>3. Quiet /\ AtMostOneActive
  BY DEF Init, Quiet, AtMostOneActive, HasActive
<1>4. Seeded
  BY DEF Init, Seeded
<1> QED BY <1>1, <1>2, <1>3, <1>4 DEF IInv

-----------------------------------------------------------------------------
(* The steps of a start. *)

\* Nobody is served during a start.
LEMMA BootRests == ASSUME Boot PROVE UNCHANGED <<requests, crashes, faults>> /\ server # "up"
BY DEF Boot, Start, RunMigrations, SeedSchool, SeedDivisions, SeedSession, SeedOwner,
       DemoSeed, DemoSeedRest, requests

\* Trouble in a start is remembered to its end.
LEMMA BootTroubles ==
  ASSUME TypeOK, Boot
  PROVE  /\ troubled' \in BOOLEAN /\ troubles' \in Nat
         /\ ~Start /\ troubled => troubled'
<1>1. \/ Start /\ troubled' = FALSE /\ UNCHANGED troubles
      \/ Succeed \/ Fail
  BY DEF Boot, Start, RunMigrations, SeedSchool, SeedDivisions, SeedSession, SeedOwner,
         DemoSeed, DemoSeedRest
<1>2. CASE Start /\ troubled' = FALSE /\ UNCHANGED troubles
  BY <1>2 DEF TypeOK
<1>3. CASE Succeed
  BY <1>3 DEF Succeed, TypeOK
<1>4. CASE Fail
  <2>1. troubles' \in Nat
    BY <1>4 DEF Fail, TypeOK
  <2> QED BY <1>4, <2>1 DEF Fail
<1> QED BY <1>1, <1>2, <1>3, <1>4

\* A start activates a session only when none is active and the row is not there.
LEMMA BootSessions ==
  ASSUME Boot
  PROVE  \/ UNCHANGED sessions
         \/ /\ ~HasActive /\ ~Exists(DefaultSession)
            /\ sessions' = [sessions EXCEPT ![DefaultSession] = "active"]
BY DEF Boot, Start, RunMigrations, runSQLMigrations, SeedSchool, SeedDivisions, SeedSession,
       SeedOwner, DemoSeed, DemoSeedRest, Fatal, rows

LEMMA BootTypes == ASSUME TypeOK, Boot PROVE TypeOK'
<1>1. UNCHANGED <<local, overlapped, crashes, faults>>
  BY BootRests DEF requests
<1>2. sessions' \in [Sessions -> {"absent", "inactive", "active"}]
  BY BootSessions DEF TypeOK
<1>3. /\ server' \in Stages \cup {"down", "up"} /\ lastExit' \in {"none", "crash", "fatal"}
      /\ school' \in BOOLEAN /\ divisions' \subseteq Divisions
      /\ owner' \in {"absent", "migration", "seed"} /\ demo' \subseteq {"sentinel", "rest"}
  <2> USE DEF TypeOK, Stages, GoOn
  <2>1. CASE Start
    BY <2>1 DEF Start, rows
  <2>2. CASE RunMigrations
    BY <2>2 DEF RunMigrations, runSQLMigrations, Fatal, rows
  <2>3. CASE SeedSchool
    BY <2>3 DEF SeedSchool, Fatal, rows
  <2>4. CASE SeedDivisions
    BY <2>4 DEF SeedDivisions, Fatal, rows
  <2>5. CASE SeedSession
    BY <2>5 DEF SeedSession, Fatal, rows
  <2>6. CASE SeedOwner
    BY <2>6 DEF SeedOwner, Fatal, rows
  <2>7. CASE DemoSeed
    BY <2>7 DEF DemoSeed
  <2>8. CASE DemoSeedRest
    BY <2>8 DEF DemoSeedRest
  <2> QED BY <2>1, <2>2, <2>3, <2>4, <2>5, <2>6, <2>7, <2>8 DEF Boot
<1> QED BY <1>1, <1>2, <1>3, BootTroubles DEF TypeOK

\* A session is active when a start has passed the look-up, and stays so in it.
LEMMA BootSeeds == ASSUME TypeOK, Seeded, Boot PROVE Seeded'
<1>1. HasActive => HasActive'
  BY BootSessions DEF HasActive, TypeOK
<1>2. troubled => troubled' \/ Start
  BY BootTroubles
<1>3. CASE Start
  BY <1>3 DEF Start, Seeded
<1>4. CASE RunMigrations
  BY <1>4 DEF RunMigrations, runSQLMigrations, GoOn, Fatal, rows, Seeded
<1> USE DEF GoOn
<1>5. CASE SeedSchool
  BY <1>5 DEF SeedSchool, Fatal, rows, Seeded
<1>6. CASE SeedDivisions
  BY <1>2, <1>3, <1>6 DEF SeedDivisions, Fail, Fatal, rows, Seeded
<1>7. CASE SeedSession
  <2>1. CASE Fatal
    BY <2>1 DEF Fatal, Seeded
  <2>2. CASE UNCHANGED rows /\ GoOn("owner") /\ (HasActive \/ Fail)
    BY <1>2, <1>1, <1>3, <1>7, <2>2 DEF SeedSession, Seeded, Fail, rows
  <2>3. CASE /\ sessions' = [sessions EXCEPT ![DefaultSession] = "active"]
             /\ GoOn("owner")
             /\ UNCHANGED <<school, divisions, owner, demo>>
    <3>1. HasActive'
      BY <2>3, StartupAssumption DEF HasActive, TypeOK
    <3> QED BY <1>2, <1>3, <1>7, <2>3, <3>1 DEF SeedSession, Seeded
  <2> QED BY <1>7, <2>1, <2>2, <2>3 DEF SeedSession
<1>8. CASE SeedOwner
  BY <1>2, <1>1, <1>3, <1>8 DEF SeedOwner, Fatal, rows, Seeded
<1>9. CASE DemoSeed
  BY <1>2, <1>1, <1>3, <1>9 DEF DemoSeed, Seeded
<1>10. CASE DemoSeedRest
  BY <1>2, <1>1, <1>3, <1>10 DEF DemoSeedRest, Seeded
<1> QED BY <1>3, <1>4, <1>5, <1>6, <1>7, <1>8, <1>9, <1>10 DEF Boot

LEMMA BootIInv == ASSUME IInv, Boot PROVE IInv'
<1>1. /\ UNCHANGED <<local, overlapped, crashes, faults>> /\ server # "up"
      /\ \A h \in Handlers : local[h] = Idle
  BY BootRests DEF requests, IInv, Resting
<1>2. TypeOK' /\ Seeded'
  BY BootTypes, BootSeeds DEF IInv
<1>3. Resting' /\ Alone'
  BY <1>1 DEF Resting, Alone
<1>4. Quiet'
  <2>1. \A h \in Handlers : local'[h].op # "activate"
    BY <1>1 DEF Idle
  <2> QED BY <2>1 DEF Quiet
<1>5. AtMostOneActive'
  <2>1. CASE UNCHANGED sessions
    BY <1>1, <2>1 DEF IInv, AtMostOneActive
  <2>2. CASE ~HasActive /\ sessions' = [sessions EXCEPT ![DefaultSession] = "active"]
    <3>1. \A s \in Sessions : sessions'[s] = "active" => s = DefaultSession
      BY <2>2 DEF IInv, TypeOK, HasActive
    <3> QED BY <3>1 DEF AtMostOneActive
  <2> QED BY <2>1, <2>2, BootSessions
<1> QED BY <1>2, <1>3, <1>4, <1>5 DEF IInv

LEMMA CrashIInv == ASSUME IInv, Crash PROVE IInv'
<1>1. \A h \in Handlers : local'[h] = Idle /\ local'[h].op = "idle"
  BY DEF Crash, NoHandlers, Idle
<1>2. TypeOK'
  <2>1. local' \in [Handlers -> [op : {"idle", "activate", "close"},
                                 session : Sessions \cup {NoSession}]]
    BY DEF Crash, NoHandlers, Idle
  <2> QED BY <2>1 DEF Crash, rows, IInv, TypeOK
<1>3. Resting' /\ Alone' /\ Quiet'
  BY <1>1 DEF Resting, Alone, Quiet
<1>4. AtMostOneActive' /\ Seeded'
  BY DEF Crash, rows, IInv, AtMostOneActive, Seeded
<1> QED BY <1>2, <1>3, <1>4 DEF IInv

-----------------------------------------------------------------------------
(* The requests. *)

\* The columns a request may change, and when.
LEMMA RequestKeeps ==
  ASSUME IInv, server = "up",
         UNCHANGED <<server, process, school, divisions, owner, demo, crashes>>
  PROVE  Resting' /\ Seeded'
BY DEF IInv, Resting, Seeded, process

\* A statement is executed, or fails and is counted.
LEMMA StatementTypes ==
  ASSUME TypeOK, NEW after \in [Sessions -> {"absent", "inactive", "active"}], Statement(after)
  PROVE  /\ sessions' \in [Sessions -> {"absent", "inactive", "active"}] /\ faults' \in Nat
         /\ faults' = 0 => faults = 0 /\ sessions' = after
BY DEF TypeOK, Statement

LEMMA CreateIInv == ASSUME IInv, NEW h \in Handlers, CreateSession(h) PROVE IInv'
<1>1. /\ UNCHANGED <<server, process, school, divisions, owner, demo, local, overlapped,
                     crashes, faults>>
      /\ server = "up"
  BY DEF CreateSession, requests
<1>2. PICK s \in Sessions : ~Exists(s) /\ sessions' = [sessions EXCEPT ![s] = "inactive"]
  BY DEF CreateSession
<1>3. \A t \in Sessions : sessions'[t] = "active" => sessions[t] = "active"
  BY <1>2 DEF IInv, TypeOK
<1>4. TypeOK'
  BY <1>1, <1>2 DEF IInv, TypeOK, process
<1>5. Resting' /\ Seeded'
  BY <1>1, RequestKeeps
<1>6. Alone' /\ Quiet' /\ AtMostOneActive'
  BY <1>1, <1>3 DEF IInv, Alone, Quiet, AtMostOneActive, HasActive
<1> QED BY <1>4, <1>5, <1>6 DEF IInv

\* A request of several statements has begun: alone, or as an overlap.
LEMMA Begun ==
  ASSUME IInv, NEW h \in Handlers, Begin(h), NEW op \in {"activate", "close"},
         NEW s \in Sessions, Goto(h, op, s)
  PROVE  /\ server = "up" /\ Alone' /\ overlapped' \in BOOLEAN
         /\ ~overlapped' => ~overlapped /\ \A g \in Handlers : local[g] = Idle
         /\ local' \in [Handlers -> [op : {"idle", "activate", "close"},
                                     session : Sessions \cup {NoSession}]]
         /\ \A g \in Handlers : local'[g] = IF g = h THEN [op |-> op, session |-> s] ELSE local[g]
<1>1. \A g \in Handlers : local'[g] = IF g = h THEN [op |-> op, session |-> s] ELSE local[g]
  BY DEF Goto, IInv, TypeOK
<1>2. ~overlapped' => ~overlapped /\ \A g \in Handlers : local[g] = Idle
  BY DEF Begin
<1>3. Alone'
  BY <1>1, <1>2 DEF Alone
<1>4. local' \in [Handlers -> [op : {"idle", "activate", "close"},
                               session : Sessions \cup {NoSession}]]
  BY DEF Goto, IInv, TypeOK
<1> QED BY <1>1, <1>2, <1>3, <1>4 DEF Begin, IInv, TypeOK

LEMMA DeactivateIInv ==
  ASSUME IInv, NEW h \in Handlers, NEW s \in Sessions, SetActiveSession_Deactivate(h, s)
  PROVE  IInv'
<1> DEFINE after == [t \in Sessions |-> IF Exists(t) THEN "inactive" ELSE "absent"]
<1>1. /\ Begin(h) /\ Goto(h, "activate", s) /\ Statement(after)
      /\ UNCHANGED <<server, process, school, divisions, owner, demo, crashes>>
  BY DEF SetActiveSession_Deactivate
<1>2. after \in [Sessions -> {"absent", "inactive", "active"}]
  OBVIOUS
<1>3. \A t \in Sessions : after[t] # "active"
  OBVIOUS
<1> HIDE DEF after
<1>4. /\ sessions' \in [Sessions -> {"absent", "inactive", "active"}] /\ faults' \in Nat
      /\ faults' = 0 => faults = 0 /\ sessions' = after
  BY <1>1, <1>2, StatementTypes DEF IInv
<1>5. /\ server = "up" /\ Alone' /\ overlapped' \in BOOLEAN
      /\ local' \in [Handlers -> [op : {"idle", "activate", "close"},
                                  session : Sessions \cup {NoSession}]]
  BY <1>1, Begun
<1>6. TypeOK'
  BY <1>1, <1>4, <1>5 DEF IInv, TypeOK, process
<1>7. Resting' /\ Seeded'
  BY <1>1, <1>5, RequestKeeps
<1>8. Quiet' /\ AtMostOneActive'
  BY <1>3, <1>4 DEF Quiet, AtMostOneActive, HasActive
<1> QED BY <1>5, <1>6, <1>7, <1>8 DEF IInv

LEMMA CloseReadIInv ==
  ASSUME IInv, NEW h \in Handlers, NEW s \in Sessions, CloseSession_Read(h, s)
  PROVE  IInv'
<1>1. /\ Begin(h) /\ Goto(h, "close", s)
      /\ UNCHANGED <<server, process, school, divisions, owner, demo, sessions, crashes, faults>>
  BY DEF CloseSession_Read, rows
<1>2. /\ server = "up" /\ Alone' /\ overlapped' \in BOOLEAN
      /\ ~overlapped' => ~overlapped
      /\ local' \in [Handlers -> [op : {"idle", "activate", "close"},
                                  session : Sessions \cup {NoSession}]]
      /\ \A g \in Handlers :
           local'[g] = IF g = h THEN [op |-> "close", session |-> s] ELSE local[g]
  BY <1>1, Begun
<1>3. \A g \in Handlers : local'[g].op = "activate" => local[g].op = "activate"
  BY <1>2
<1>4. TypeOK'
  BY <1>1, <1>2 DEF IInv, TypeOK, process
<1>5. Resting' /\ Seeded'
  BY <1>1, <1>2, RequestKeeps
<1>6. Quiet' /\ AtMostOneActive'
  BY <1>1, <1>2, <1>3 DEF IInv, Quiet, AtMostOneActive, HasActive
<1> QED BY <1>2, <1>4, <1>5, <1>6 DEF IInv

\* Who is at its second statement was served, and is idle after it.
LEMMA Ended ==
  ASSUME IInv, NEW h \in Handlers, local[h] # Idle, Goto(h, "idle", NoSession), UNCHANGED overlapped
  PROVE  /\ server = "up" /\ Alone'
         /\ local' \in [Handlers -> [op : {"idle", "activate", "close"},
                                     session : Sessions \cup {NoSession}]]
         /\ local'[h] = Idle /\ \A g \in Handlers : g # h => local'[g] = local[g]
         /\ ~overlapped => \A g \in Handlers : local'[g] = Idle
<1>1. local'[h] = Idle /\ \A g \in Handlers : g # h => local'[g] = local[g]
  BY DEF Goto, IInv, TypeOK, Idle
<1>2. ~overlapped => \A g \in Handlers : local'[g] = Idle
  BY <1>1 DEF IInv, Alone
<1>3. Alone' /\ server = "up"
  BY <1>2 DEF IInv, Alone, Resting
<1>4. local' \in [Handlers -> [op : {"idle", "activate", "close"},
                               session : Sessions \cup {NoSession}]]
  BY DEF Goto, IInv, TypeOK
<1> QED BY <1>1, <1>2, <1>3, <1>4

LEMMA ActivateIInv ==
  ASSUME IInv, NEW h \in Handlers, SetActiveSession_Activate(h)
  PROVE  IInv'
<1> DEFINE s == local[h].session
           after == IF Exists(s) THEN [sessions EXCEPT ![s] = "active"] ELSE sessions
<1>1. /\ local[h].op = "activate" /\ Statement(after) /\ Goto(h, "idle", NoSession)
      /\ UNCHANGED <<server, process, school, divisions, owner, demo, overlapped, crashes>>
  BY DEF SetActiveSession_Activate
<1>2. after \in [Sessions -> {"absent", "inactive", "active"}]
  BY DEF IInv, TypeOK
<1>3. \A t \in Sessions : after[t] = "active" => t = s \/ sessions[t] = "active"
  BY DEF IInv, TypeOK
<1> HIDE DEF s, after
<1>4. /\ sessions' \in [Sessions -> {"absent", "inactive", "active"}] /\ faults' \in Nat
      /\ faults' = 0 => faults = 0 /\ sessions' = after
  BY <1>1, <1>2, StatementTypes DEF IInv
<1>5. /\ server = "up" /\ Alone'
      /\ local' \in [Handlers -> [op : {"idle", "activate", "close"},
                                  session : Sessions \cup {NoSession}]]
      /\ ~overlapped => \A g \in Handlers : local'[g] = Idle
  BY <1>1, Ended DEF Idle
<1>6. TypeOK'
  BY <1>1, <1>4, <1>5 DEF IInv, TypeOK, process
<1>7. Resting' /\ Seeded'
  BY <1>1, <1>5, RequestKeeps
<1>8. Quiet'
  BY <1>1, <1>5 DEF Quiet, Idle
<1>9. AtMostOneActive'
  <2>1. faults = 0 /\ ~overlapped => \A t \in Sessions : sessions[t] # "active"
    BY <1>1 DEF IInv, Quiet, HasActive
  <2> QED BY <1>1, <1>3, <1>4, <2>1 DEF AtMostOneActive
<1> QED BY <1>5, <1>6, <1>7, <1>8, <1>9 DEF IInv

LEMMA CloseWriteIInv ==
  ASSUME IInv, NEW h \in Handlers, CloseSession_Write(h)
  PROVE  IInv'
<1> DEFINE after == [sessions EXCEPT ![local[h].session] = "inactive"]
<1>1. /\ local[h].op = "close" /\ Statement(after) /\ Goto(h, "idle", NoSession)
      /\ UNCHANGED <<server, process, school, divisions, owner, demo, overlapped, crashes>>
  BY DEF CloseSession_Write
<1>2. after \in [Sessions -> {"absent", "inactive", "active"}]
  BY DEF IInv, TypeOK
<1>3. \A t \in Sessions : after[t] = "active" => sessions[t] = "active"
  BY DEF IInv, TypeOK
<1> HIDE DEF after
<1>4. /\ sessions' \in [Sessions -> {"absent", "inactive", "active"}] /\ faults' \in Nat
      /\ faults' = 0 => faults = 0 /\ sessions' = after
  BY <1>1, <1>2, StatementTypes DEF IInv
<1>5. /\ server = "up" /\ Alone'
      /\ local' \in [Handlers -> [op : {"idle", "activate", "close"},
                                  session : Sessions \cup {NoSession}]]
      /\ ~overlapped => \A g \in Handlers : local'[g] = Idle
  BY <1>1, Ended DEF Idle
<1>6. TypeOK'
  BY <1>1, <1>4, <1>5 DEF IInv, TypeOK, process
<1>7. Resting' /\ Seeded'
  BY <1>1, <1>5, RequestKeeps
<1>8. Quiet'
  BY <1>1, <1>5 DEF Quiet, Idle
<1>9. AtMostOneActive'
  BY <1>1, <1>3, <1>4 DEF IInv, AtMostOneActive
<1> QED BY <1>5, <1>6, <1>7, <1>8, <1>9 DEF IInv

-----------------------------------------------------------------------------
LEMMA StepIInv == IInv /\ [Next]_vars => IInv'
<1> SUFFICES ASSUME IInv, [Next]_vars PROVE IInv'
  OBVIOUS
<1>1. CASE Boot
  BY <1>1, BootIInv
<1>2. CASE Crash
  BY <1>2, CrashIInv
<1>3. ASSUME NEW h \in Handlers, CreateSession(h) PROVE IInv'
  BY <1>3, CreateIInv
<1>4. ASSUME NEW h \in Handlers, NEW s \in Sessions,
             SetActiveSession_Deactivate(h, s) \/ CloseSession_Read(h, s)
      PROVE  IInv'
  BY <1>4, DeactivateIInv, CloseReadIInv
<1>5. ASSUME NEW h \in Handlers, Proceed(h) PROVE IInv'
  BY <1>5, ActivateIInv, CloseWriteIInv DEF Proceed
<1>6. CASE UNCHANGED vars
  BY <1>6 DEF vars, rows, requests, process, IInv, TypeOK, Resting, Alone, Quiet, AtMostOneActive,
              Seeded, HasActive
<1> QED BY <1>1, <1>2, <1>3, <1>4, <1>5, <1>6 DEF Next

LEMMA AlwaysIInv == Spec => []IInv
  BY InitIInv, StepIInv, PTL DEF Spec

\* Type correctness of the rows, the stage of the start and the requests.
THEOREM TypeCorrect == Spec => []TypeOK
<1>1. IInv => TypeOK
  BY DEF IInv
<1> QED BY <1>1, AlwaysIInv, PTL

\* Activations one at a time whose statements succeed leave one session active
\* at most, whatever the starts between them do and wherever the process dies.
THEOREM OneSessionActive == Spec => []AtMostOneActive
<1>1. IInv => AtMostOneActive
  BY DEF IInv
<1> QED BY <1>1, AlwaysIInv, PTL

\* Whatever statements of a start fail, a server that takes requests has the
\* default school and the owner as Seed looks for it; it has the divisions
\* unless a statement of its start failed.
THEOREM AlwaysSeeded == Spec => []ServedSeeded
<1>1. IInv => ServedSeeded
  BY DEF IInv, Seeded, ServedSeeded
<1> QED BY <1>1, AlwaysIInv, PTL

-----------------------------------------------------------------------------
(* What a step of a start may not do. *)

\* While the server is not up, a step is one of the start or a crash.
LEMMA Starting ==
  ASSUME IInv, Next, server # "up"
  PROVE  Boot \/ Crash
<1>1. \A h \in Handlers : local[h].op = "idle"
  BY DEF IInv, Resting, Idle
<1>2. ASSUME NEW h \in Handlers PROVE ~CreateSession(h) /\ ~Proceed(h)
  BY <1>1, <1>2 DEF CreateSession, Proceed, SetActiveSession_Activate, CloseSession_Write
<1>3. ASSUME NEW h \in Handlers, NEW s \in Sessions
      PROVE  ~SetActiveSession_Deactivate(h, s) /\ ~CloseSession_Read(h, s)
  BY DEF SetActiveSession_Deactivate, CloseSession_Read, Begin
<1> QED BY <1>2, <1>3 DEF Next

\* The owner is inserted once, with the address of whoever inserts it.
LEMMA BootOwner ==
  ASSUME Boot
  PROVE  UNCHANGED owner \/ owner = "absent"
BY DEF Boot, Start, RunMigrations, runSQLMigrations, SeedSchool, SeedDivisions, SeedSession,
       SeedOwner, DemoSeed, DemoSeedRest, Fatal, rows

\* No start changes a session or an owner that is there.
THEOREM RowsAreKept == Spec => SeedKeepsRows
<1> DEFINE Kept == server # "up" =>
             /\ \A s \in Sessions : Exists(s) => sessions'[s] = sessions[s]
             /\ owner # "absent" => owner' = owner
<1>1. IInv /\ [Next]_vars => [Kept]_vars
  <2> SUFFICES ASSUME IInv, Next, server # "up"
               PROVE  /\ \A s \in Sessions : Exists(s) => sessions'[s] = sessions[s]
                      /\ owner # "absent" => owner' = owner
    OBVIOUS
  <2>1. CASE Boot
    BY <2>1, BootSessions, BootOwner DEF IInv, TypeOK, Exists
  <2>2. CASE Crash
    BY <2>2 DEF Crash, rows
  <2> QED BY <2>1, <2>2, Starting
<1> QED BY <1>1, AlwaysIInv, PTL DEF Spec, SeedKeepsRows

\* A start that gets the server up and in which no statement failed has found
\* or made a session active.
THEOREM StartsActive == Spec => StartedActive
<1> DEFINE Active == server # "up" /\ server' = "up" => HasActive' \/ troubled'
<1>1. IInv /\ [Next]_vars => [Active]_vars
  <2> SUFFICES ASSUME IInv, Next, server # "up", server' = "up", ~troubled'
               PROVE  HasActive'
    OBVIOUS
  <2>1. Boot
    BY Starting DEF Crash
  <2>2. server \in {"demo", "demoRest"}
    BY <2>1 DEF Boot, Start, RunMigrations, runSQLMigrations, SeedSchool, SeedDivisions,
                SeedSession, SeedOwner, DemoSeed, DemoSeedRest, Fatal, GoOn
  <2>3. ~troubled
    BY <2>1, <2>2, BootTroubles DEF IInv, Start
  <2>4. HasActive
    BY <2>2, <2>3 DEF IInv, Seeded
  <2> QED BY <2>1, <2>4, BootSessions DEF HasActive, IInv, TypeOK
<1> QED BY <1>1, AlwaysIInv, PTL DEF Spec, StartedActive

\* A start from rows it can cope with is fatal only when a statement of it
\* fails, and whatever part of it a crash or such an end leaves, the next can
\* cope with.
THEOREM StartableStartsSucceed == Spec => StartableSucceeds
<1> DEFINE Succeeds == server # "up" /\ Startable => Startable' /\ (Fatal => Fail)
<1>1. IInv /\ [Next]_vars => [Succeeds]_vars
  <2> SUFFICES ASSUME IInv, Next, server # "up", Startable
               PROVE  Startable' /\ (Fatal => Fail)
    OBVIOUS
  <2>1. CASE Crash
    BY <2>1 DEF Crash, Fatal, rows, Startable, HasActive, Exists
  <2>2. CASE Boot
    <3>1. HasActive' \/ ~Exists(DefaultSession)'
      <4>1. CASE UNCHANGED sessions
        BY <4>1 DEF Startable, HasActive, Exists
      <4>2. CASE sessions' = [sessions EXCEPT ![DefaultSession] = "active"]
        BY <4>2, StartupAssumption DEF IInv, TypeOK, HasActive
      <4> QED BY <2>2, <4>1, <4>2, BootSessions
    <3>2. \/ owner' = "seed"
          \/ owner' = "absent" /\ TRUE \notin SqlFiles
      <4>1. CASE RunMigrations
        BY <4>1 DEF RunMigrations, runSQLMigrations, Startable, Fatal, rows
      <4>2. CASE SeedOwner
        BY <4>2 DEF SeedOwner, Startable, Fatal, rows
      <4>3. CASE ~RunMigrations /\ ~SeedOwner
        <5>1. UNCHANGED owner
          BY <2>2, <4>3 DEF Boot, Start, SeedSchool, SeedDivisions, SeedSession, DemoSeed,
                            DemoSeedRest, Fatal, rows
        <5> QED BY <5>1 DEF Startable
      <4> QED BY <4>1, <4>2, <4>3
    <3>3. server' # "down" \/ Fail
      <4> USE DEF GoOn
      <4>1. CASE RunMigrations
        BY <4>1 DEF RunMigrations, runSQLMigrations, Startable
      <4>2. CASE SeedSession
        BY <4>2 DEF SeedSession, Startable
      <4>3. CASE SeedOwner
        BY <4>3 DEF SeedOwner, Startable
      <4>4. CASE Start \/ SeedSchool \/ SeedDivisions \/ DemoSeed \/ DemoSeedRest
        BY <4>4 DEF Start, SeedSchool, SeedDivisions, DemoSeed, DemoSeedRest
      <4> QED BY <2>2, <4>1, <4>2, <4>3, <4>4 DEF Boot
    <3> QED BY <3>1, <3>2, <3>3 DEF Startable, Fatal, Exists
  <2> QED BY <2>1, <2>2, Starting
<1> QED BY <1>1, AlwaysIInv, PTL DEF Spec, StartableSucceeds

=============================================================================
