---------------------------- MODULE SchoolRecords ----------------------------
(* Students, their fees and their attendance, served side by side. *)
EXTENDS Fees, Attendance

vars == <<load, faults, students, histories, promoting, sheets,
          structures, payments, paid, discounts, paying, receipts,
          attendance, marking, marked>>

Init ==
  /\ load \in Loads
  /\ faults = 0
  /\ StudentsInit /\ FeesInit /\ AttendanceInit

Next ==
  /\ UNCHANGED load
  /\ \/ StudentsNext /\ UNCHANGED <<feeVars, attendanceVars>>
     \/ FeesNext /\ UNCHANGED <<studentVars, attendanceVars>>
     \/ AttendanceNext /\ UNCHANGED <<studentVars, feeVars>>

Spec == Init /\ [][Next]_vars

\* Every variable has its type; a payment on its way has a fee, a structure being
\* saved has an id or none, and a receipt is made of a payment that was stored.
TypeOK == RequestsTypeOK /\ StudentsTypeOK /\ FeesTypeOK /\ AttendanceTypeOK

==============================================================================
