--------------------------- MODULE MCSchoolRecords ---------------------------
(* Small instances of SchoolRecords. *)
EXTENDS SchoolRecords, TLC

CONSTANTS s1, s2, c1, c2, h1, h2, n1, primary, secondary

SeedOrder == <<s1, s2>>
Seeded == [s \in Students |-> c1]
Division == [c \in Classes |-> IF c = c1 THEN primary ELSE secondary]

Rec(s, c, a) == [student |-> s, class |-> c, action |-> a]
Roll(c, d, lines) == [class |-> c, day |-> d, lines |-> lines]
Line(s, x) == [student |-> s, status |-> x]

Quiet == [promoters |-> {}, lists |-> {}, edited |-> {}, teachers |-> {},
          markers |-> {}, rolls |-> {},
          bursars |-> {}, fees |-> {}, charged |-> {}, discounted |-> {}, faults |-> 0]

\* Promotions of the class, of one student, with a class missing, repeated, and
\* a teacher entering scores meanwhile.
Promotions ==
  [Quiet EXCEPT !.promoters = {h1}, !.teachers = {n1}, !.faults = 1,
     !.lists = {<<Rec(s1, c2, "promote"), Rec(s2, c1, "promote")>>,
                <<Rec(s1, c1, "retain"), Rec(s2, NoClass, "promote")>>,
                <<Rec(s1, NoClass, "retain"), Rec(s2, c2, "promote")>>}]

\* Promotions of one student that overlap.
TwoPromotions ==
  [Quiet EXCEPT !.promoters = {h1, h2}, !.teachers = {n1},
     !.lists = {<<Rec(s1, c2, "promote")>>, <<Rec(s1, c1, "promote"), Rec(s2, c2, "promote")>>}]

Lines == {Line(s1, x) : x \in {"PRESENT", "LATE", "?"}}

\* Rolls one at a time: two days, two classes, a student twice in a roll.
OneRoll ==
  [Quiet EXCEPT !.markers = {h1}, !.faults = 1,
     !.rolls = {Roll(c1, d, <<l>>) : d \in Days, l \in Lines} \cup
               {Roll(c1, 1, <<Line(s1, "PRESENT"), Line(s2, "LATE")>>),
                Roll(c2, 1, <<Line(s1, "LATE"), Line(s1, "ABSENT")>>)}]

\* Rolls of a class that overlap.
TwoRolls ==
  [Quiet EXCEPT !.markers = {h1, h2},
     !.rolls = {Roll(c1, 1, <<l>>) : l \in Lines} \cup
               {Roll(c1, 2, <<Line(s1, "PRESENT"), Line(s2, "PRESENT")>>)}]

\* Payments one at a time.
OnePayment ==
  [Quiet EXCEPT !.bursars = {h1}, !.fees = {s1} \X Categories, !.charged = {primary},
     !.discounted = {s1}, !.faults = 1]

\* Payments of one student that overlap.
TwoPayments ==
  [Quiet EXCEPT !.bursars = {h1, h2}, !.fees = {<<s1, "tuition">>}, !.charged = {primary}]

\* A student who pays is promoted, graduated, edited and archived.
Leaving ==
  [Quiet EXCEPT !.bursars = {h1}, !.fees = {<<s1, "tuition">>}, !.charged = {primary},
     !.promoters = {h2}, !.edited = {s1},
     !.lists = {<<Rec(s1, c2, "promote")>>, <<Rec(s1, NoClass, "graduate")>>}]

AllLoads == {Promotions, TwoPromotions, OneRoll, TwoRolls, OnePayment, TwoPayments, Leaving}

==============================================================================
