----------------------------- MODULE QuizSitting -----------------------------
(***************************************************************************)
(* What a quiz promises its students, whatever the server does inside:     *)
(* who sits was let in while the doors were open; who has a seat gets a    *)
(* second one only if their seat was not there yet when a desk looked, or  *)
(* by a mishap; nobody takes the seat of another; and what was handed in   *)
(* stays handed in.  Closing the doors stops who still waits outside, not  *)
(* who was already let in.                                                 *)
(***************************************************************************)
EXTENDS Naturals

CONSTANTS Students, Nobody, Desks, Seats

VARIABLES
  doors,   \* whether the quiz lets students in
  desks,   \* whom each desk serves: at the door, or seating them
  seats,   \* who sits where, and whether it is handed in
  mishaps  \* how often a desk or a seat failed

vars == <<doors, desks, seats, mishaps>>

Free == [at |-> "free", student |-> Nobody]
Empty == [student |-> Nobody, handedIn |-> FALSE]

TypeOK ==
  /\ doors \in {"shut", "open", "closed"}
  /\ desks \in [Desks -> [at : {"free", "door", "seating"}, student : Students \cup {Nobody}]]
  /\ seats \in [Seats -> [student : Students \cup {Nobody}, handedIn : BOOLEAN]]
  /\ mishaps \in Nat

Init ==
  /\ doors = "shut"
  /\ desks = [d \in Desks |-> Free]
  /\ seats = [a \in Seats |-> Empty]
  /\ mishaps = 0

Seated(s) == \E a \in Seats : seats[a].student = s

\* Doors that were closed may open again: a publication under way does it.
Open  == doors # "open" /\ doors' = "open" /\ UNCHANGED <<desks, seats>>
Close == doors = "open" /\ doors' = "closed" /\ UNCHANGED <<desks, seats>>

\* Desk d comes to serve student s at a place.
Serve(d, s, place) == desks' = [desks EXCEPT ![d] = [at |-> place, student |-> s]]

Enter(d, s) ==
  /\ doors = "open" /\ desks[d] = Free
  /\ Serve(d, s, "door")
  /\ UNCHANGED <<doors, seats>>

\* The desk finds that the student has no seat, or fails to look.
Clear(d) ==
  /\ desks[d].at = "door"
  /\ Seated(desks[d].student) => mishaps' > mishaps
  /\ Serve(d, desks[d].student, "seating")
  /\ UNCHANGED <<doors, seats>>

Leave(d) ==
  /\ desks[d] # Free
  /\ desks' = [desks EXCEPT ![d] = Free]
  /\ UNCHANGED <<doors, seats>>

Sit(d, a) ==
  /\ desks[d].at = "seating" /\ seats[a] = Empty
  /\ seats' = [seats EXCEPT ![a].student = desks[d].student]
  /\ desks' = [desks EXCEPT ![d] = Free]
  /\ UNCHANGED doors

HandIn(a) ==
  /\ seats[a].student # Nobody /\ ~seats[a].handedIn
  /\ seats' = [seats EXCEPT ![a].handedIn = TRUE]
  /\ UNCHANGED <<doors, desks>>

\* All desks are given up at once.
Evacuate ==
  /\ desks' = [d \in Desks |-> Free]
  /\ UNCHANGED <<doors, seats>>

\* Any step may go with a mishap, which may also do nothing else.
Next ==
  /\ mishaps' \in {mishaps, mishaps + 1}
  /\ \/ Open \/ Close
     \/ \E d \in Desks : \/ \E s \in Students : Enter(d, s)
                         \/ Clear(d) \/ Leave(d)
                         \/ \E a \in Seats : Sit(d, a)
     \/ \E a \in Seats : HandIn(a)
     \/ Evacuate
     \/ UNCHANGED <<doors, desks, seats>>

Spec == Init /\ [][Next]_vars

==============================================================================
