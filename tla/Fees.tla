-------------------------------- MODULE Fees --------------------------------
(***************************************************************************)
(* School fees: internal/handlers/finance.go, the debtors of               *)
(* internal/handlers/dashboard.go, and the receipt task of                 *)
(* internal/jobs/handlers.go.                                              *)
(*                                                                         *)
(* RecordPayment reads the sum of the earlier payments, computes from it   *)
(* the balance its receipt will show, and inserts the row: two statements. *)
(* The balance is stored and never computed again; reports read it.        *)
(*                                                                         *)
(* Amounts are whole numbers.  Nothing archives or deletes a payment, so   *)
(* the sum the database computes is kept along, per student, fee structure *)
(* and category, in "paid".  The prices of a structure and the reasons of  *)
(* a discount are stored and only shown; they are left out.                *)
(***************************************************************************)
EXTENDS Students, Asynq, Integers

CONSTANTS
  Structures,  \* ids of rows of fee_structures: numbers, for their order
  NoStructure, \* division of a fee structure that does not exist
  Categories,
  Amounts,     \* what can be owed or paid at a time, whole and positive
  MaxPayments  \* bound: rows of fee_payments

\* Of a load: fees are the students and categories payments come in for; charged
\* the divisions a fee structure is set for; discounted the students who get one.
ASSUME FeesAssumption ==
  /\ Structures \subseteq Nat \ {0}
  /\ NoStructure \notin Divisions
  /\ Amounts \subseteq Nat \ {0}
  /\ MaxPayments \in Nat
  /\ \A l \in Loads : /\ l.fees \subseteq Students \X Categories /\ l.discounted \subseteq Students
                      /\ l.charged \subseteq Divisions

VARIABLES
  structures, \* the division each fee_structures row is for, in one term
  payments,   \* fee_payments, in the order of insertion
  paid,       \* SUM(amount_paid) over those rows, by student, structure, category
  discounts,  \* fee_discounts
  paying,     \* what each handler is doing, with what it read
  receipts    \* the receipt tasks waiting in Redis

feeVars == <<structures, payments, paid, discounts, paying, receipts>>

Keys == Students \X Structures \X Categories

FeePayment == [key : Keys, owed : Nat, amount : Nat, balance : Int, after : Nat]

FeeDiscount == [student : Students, structure : Structures]

Unpaid == [op |-> "idle", key |-> <<>>, owed |-> 0, amount |-> 0, prev |-> 0,
           division |-> NoStructure, id |-> 0]

Set == {f \in Structures : structures[f] # NoStructure}

Enter(h, rec) == paying' = [paying EXCEPT ![h] = rec]

-----------------------------------------------------------------------------
(* Fee structures: FirstOrInit, then Save. *)

\* The first row of the division by id; a failed lookup is a new row.
UpsertFeeStructure_Find(h, d) ==
  LET rows == {f \in Set : structures[f] = d}
      go(id) == Enter(h, [Unpaid EXCEPT !.op = "structureSave", !.division = d, !.id = id])
  IN /\ paying[h] = Unpaid
     /\ \/ rows = {} /\ go(0) /\ UNCHANGED faults
        \/ /\ UNCHANGED faults
           /\ \E f \in rows : (\A g \in rows : f <= g) /\ go(f)
        \/ go(0) /\ Fault
     /\ UNCHANGED <<structures, payments, paid, discounts, receipts>>

UpsertFeeStructure_Save(h) ==
  LET p == paying[h]
  IN /\ p.op = "structureSave"
     /\ \/ /\ p.id = 0
           /\ \E f \in Structures \ Set : structures' = [structures EXCEPT ![f] = p.division]
           /\ UNCHANGED faults
        \/ p.id # 0 /\ structures' = [structures EXCEPT ![p.id] = p.division] /\ UNCHANGED faults
        \/ Fault /\ UNCHANGED structures
     /\ Enter(h, Unpaid)
     /\ UNCHANGED <<payments, paid, discounts, receipts>>

-----------------------------------------------------------------------------
(* Payments. *)

\* Mutant: the payments of every category are summed.
SumOfAnyCategory(k) ==
  LET other == {q \in Keys : q[1] = k[1] /\ q[2] = k[2] /\ q # k}
  IN paid[k] + (IF other = {} THEN 0 ELSE paid[CHOOSE q \in other : TRUE])

\* COALESCE(SUM(amount_paid), 0) of the student, the structure and the category.
SumOf(k) == paid[k]

\* Amounts and the amount owed come with the request, and must be positive.
\* The error of the sum is not looked at: nothing was paid before, then.
RecordPayment_Sum(h, k, owed, amount) ==
  LET go(prev) == Enter(h, [Unpaid EXCEPT !.op = "paymentCreate", !.key = k, !.owed = owed,
                                          !.amount = amount, !.prev = prev])
  IN /\ paying[h] = Unpaid
     /\ k[2] \in Set
     /\ Len(payments) < MaxPayments
     /\ \/ go(SumOf(k)) /\ UNCHANGED faults
        \/ go(0) /\ Fault
     /\ UNCHANGED <<structures, payments, paid, discounts, receipts>>

\* The row has a history field: all that is paid with it.
Payment(p) == [key |-> p.key, owed |-> p.owed, amount |-> p.amount,
               balance |-> p.owed - (p.prev + p.amount),
               after |-> paid[p.key] + p.amount]

RecordPayment_Create(h) ==
  LET p == paying[h]
  IN /\ p.op = "paymentCreate"
     /\ \/ /\ payments' = Append(payments, Payment(p))
           /\ paid' = [paid EXCEPT ![p.key] = @ + p.amount]
           /\ Enter(h, [Unpaid EXCEPT !.op = "receiptEnqueue", !.id = Len(payments) + 1])
           /\ UNCHANGED faults
        \/ Fault /\ Enter(h, Unpaid) /\ UNCHANGED <<payments, paid>>
     /\ UNCHANGED <<structures, discounts, receipts>>

TaskReceipt(i) == Task("receipt", i, 3)

RecordPayment_Enqueue(h) ==
  /\ paying[h].op = "receiptEnqueue"
  /\ \/ receipts' = receipts \cup {TaskReceipt(paying[h].id)} /\ UNCHANGED faults
     \/ Fault /\ UNCHANGED receipts
  /\ Enter(h, Unpaid)
  /\ UNCHANGED <<structures, payments, paid, discounts>>

\* The receipt is made from the row as stored; a failure is retried.
HandleGenerateFeeReceipt(t) ==
  /\ \/ receipts' = receipts \ {t} /\ UNCHANGED faults
     \/ Fault /\ receipts' = Retry(receipts, t)
  /\ UNCHANGED <<structures, payments, paid, discounts, paying>>

\* One insert.  No balance, report or summary reads the row.
ApplyDiscount(s, f) ==
  /\ f \in Set
  /\ discounts' = discounts \cup {[student |-> s, structure |-> f]}
  /\ UNCHANGED <<structures, payments, paid, paying, receipts, faults>>

-----------------------------------------------------------------------------
(* Reports. *)

\* Mutant: students who have left are not listed.
GetDebtReportActive(d, err) ==
  {i \in DOMAIN payments : LET s == students[payments[i].key[1]]
                           IN ~err /\ payments[i].balance > 0 /\ s.division = d /\ s.active}

\* The payments listed for a division: those that left a balance, of students
\* who are in the division now.  The error of the query is not looked at: the
\* answer is then an empty list.
GetDebtReport(d, err) ==
  {i \in DOMAIN payments :
     ~err /\ payments[i].balance > 0 /\ students[payments[i].key[1]].division = d}

\* The dashboard counts the students of those rows, with a query of its own.
debtorsInDivision(d, err) == {payments[i].key[1] : i \in GetDebtReport(d, err)}

-----------------------------------------------------------------------------
FeesInit ==
  /\ structures = [f \in Structures |-> NoStructure]
  /\ payments = <<>>
  /\ paid = [k \in Keys |-> 0]
  /\ discounts = {}
  /\ paying = [h \in Handlers |-> Unpaid]
  /\ receipts = {}

FeesNext ==
  \/ \E h \in load.bursars :
       \/ \E d \in load.charged : UpsertFeeStructure_Find(h, d)
       \/ UpsertFeeStructure_Save(h)
       \/ \E k \in Keys, owed \in Amounts, amount \in Amounts :
            <<k[1], k[3]>> \in load.fees /\ RecordPayment_Sum(h, k, owed, amount)
       \/ RecordPayment_Create(h) \/ RecordPayment_Enqueue(h)
  \/ \E t \in receipts : HandleGenerateFeeReceipt(t)
  \/ \E s \in load.discounted, f \in Structures : ApplyDiscount(s, f)

Paying == [op : {"idle", "structureSave", "paymentCreate", "receiptEnqueue"},
           key : Keys \cup {<<>>}, owed : Nat, amount : Nat, prev : Nat,
           division : Divisions \cup {NoStructure}, id : Nat]

FeesTypeOK ==
  /\ structures \in [Structures -> Divisions \cup {NoStructure}]
  /\ payments \in Seq(FeePayment)
  /\ paid \in [Keys -> Nat]
  /\ discounts \subseteq FeeDiscount
  /\ paying \in [Handlers -> Paying]
  /\ \A h \in Handlers : /\ paying[h].op = "paymentCreate" => paying[h].key \in Keys
                         /\ paying[h].op = "structureSave" => paying[h].id \in Structures \cup {0}
                         /\ paying[h].op = "receiptEnqueue" => paying[h].id \in DOMAIN payments
  /\ receipts \subseteq [type : {"receipt"}, row : DOMAIN payments, left : 0..3]

-----------------------------------------------------------------------------
(* Properties. *)

\* RecordPayment, finance.go:190-197: payments of a student may overlap and the
\* sum may fail, so a receipt may show too large a balance, but never one that
\* is smaller than what is really left after it; with one request at a time and
\* no failure it is exactly what is left.
ReceiptsCover ==
  \A i \in DOMAIN payments :
    LET left == payments[i].owed - payments[i].after
    IN /\ payments[i].balance >= left
       /\ Cardinality(load.bursars) <= 1 /\ faults = 0 => payments[i].balance = left

\* GetDebtReport, finance.go:367-369, "students with outstanding balances", and
\* dashboard.go:306: when their query succeeds, whoever has paid in part and
\* still owes is listed in the division they are in now, with at least what they
\* owe - also after payments that overlapped, a promotion, a graduation or when
\* archived.  A student without any payment is on no list.
DebtorsReported ==
  \A i \in DOMAIN payments :
    LET k == payments[i].key
        debt == payments[i].owed - paid[k]
        division == students[k[1]].division
    IN debt > 0 => /\ k[1] \in debtorsInDivision(division, FALSE)
                   /\ i \in GetDebtReport(division, FALSE) /\ payments[i].balance >= debt

=============================================================================
