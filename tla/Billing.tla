------------------------------- MODULE Billing -------------------------------
(***************************************************************************)
(* One month of money: school subscriptions, student fees and staff pay.    *)
(*                                                                         *)
(* All three are written the same way: a run reads who is billed and at     *)
(* what tariff, then upserts one bill at a time outside any transaction,    *)
(* and logs the run.  A payment of a subscription reads the bill, uploads   *)
(* its invoice and then writes; the other two are one unconditional write.  *)
(* fresh and disturbed are history: the runs nothing has overtaken, and the *)
(* subscriptions patched, or paid by two calls at once.                     *)
(***************************************************************************)
EXTENDS Integers

CONSTANTS
  Schools, Students, Staff, \* who gets a bill, by kind of bill
  Numbers,    \* last four characters of a school's id: the invoice number
  MaxAmount,  \* bound: tariffs and payments
  MaxCalls,   \* bound: calls, the scheduled run included
  Runs,       \* generation runs
  Cron,       \* the run the scheduler starts as user SYSTEM
  Payments,   \* PATCH /finance/subscriptions/:id/pay calls
  None

Payers == Schools \cup Students \cup Staff
Amounts == 1..MaxAmount
Kinds == {Schools, Students, Staff}
Statuses == {"PENDING", "PAID", "OVERDUE", "CANCELLED"} \* SubscriptionStatus
KindOf(p) == CHOOSE k \in Kinds : p \in k

ASSUME BillingAssumption ==
  /\ MaxAmount \in Nat \ {0}
  /\ Schools \cap Students = {} /\ Schools \cap Staff = {}
  /\ Students \cap Staff = {}
  /\ Cron \in Runs /\ None \notin Payers \cup Runs

VARIABLES
  active,    \* schools ACTIVE, students with a section, staff with a structure
  rate,      \* what a payer is billed: count * rate, fee total, net salary
  number,    \* School.id: the four characters an invoice number ends with
  bill,      \* SchoolSubscription, StudentFeeBill, Payroll of the month
  invoice,   \* the PDF stored under an invoice number: what it says was paid
  run,       \* a generation run: where it stands and what it read
  payment,   \* a payment call: where it stands, its bill and amount
  calls,     \* calls made so far, the scheduled run included (bound)
  fresh,     \* runs after whose read nothing of their kind changed (history)
  disturbed  \* schools whose bill was patched or paid twice at once (history)

vars == <<active, rate, number, bill, invoice, run, payment, calls, fresh,
          disturbed>>

NoTariff == [p \in Payers |-> 0]
Idle(pc) == [pc |-> pc, bill |-> None, amount |-> 0]
NoBill == [status |-> "none", due |-> 0, paid |-> 0]

Init ==
  /\ active = [p \in Payers |-> TRUE]
  /\ rate = [p \in Payers |-> 1]
  /\ number \in [Schools -> Numbers]
  /\ bill = [p \in Payers |-> NoBill]
  /\ invoice = [n \in Numbers |-> 0]
  /\ run = [g \in Runs |->
              [pc |-> "new", kind |-> {}, todo |-> {}, at |-> NoTariff]]
  /\ payment = [y \in Payments |-> Idle("new")]
  /\ calls = 0 /\ fresh = {} /\ disturbed = {}

\* Another call arrives.
Call == calls < MaxCalls /\ calls' = calls + 1

\* The runs still fresh after something of kind k changed by another run g.
Overtaken(k, g) == {h \in fresh : h = g \/ run[h].kind # k}

-----------------------------------------------------------------------------
(* Who is billed what                                                      *)

\* A school is activated or suspended, a student gets a section or loses it,
\* a member of staff gets a salary structure.
SetActive(p) ==
  /\ Call
  /\ active' = [active EXCEPT ![p] = ~@]
  /\ fresh' = Overtaken(KindOf(p), None)
  /\ UNCHANGED <<rate, number, bill, invoice, run, payment, disturbed>>

SetRates(who, a) ==
  /\ rate' = [p \in Payers |-> IF p \in who THEN a ELSE rate[p]]
  /\ rate' # rate /\ Call
  /\ fresh' = {h \in fresh : run[h].kind \cap who = {}}
  /\ UNCHANGED <<active, number, bill, invoice, run, payment, disturbed>>

\* One fee structure is the tariff of the whole grade.
SetFeeStructure(a) == SetRates(Students, a)

SetSalaryStructure(p, a) == p \in Staff /\ SetRates({p}, a)

\* The rate of a school, or the number of its students, changes.
SetSubscriptionRate(p, a) == p \in Schools /\ SetRates({p}, a)

-----------------------------------------------------------------------------
(* Generation runs                                                         *)

\* The schools or the staff are read with their tariff in one query.
StartRun(g, k) ==
  LET who == {p \in k : active[p]} IN
  /\ run[g].pc = "new" /\ Call
  /\ run' = [run EXCEPT ![g] = [pc |-> "upserting", kind |-> k, todo |-> who,
                                at |-> [p \in Payers |-> IF p \in who THEN rate[p]
                                                         ELSE 0]]]
  /\ fresh' = fresh \cup {g}
  /\ UNCHANGED <<active, rate, number, bill, invoice, payment, disturbed>>

GenerateMonthlyBills(g) == StartRun(g, Schools)

GenerateMonthlyPayroll(g) == g # Cron /\ StartRun(g, Staff)

\* The students of a grade are read first, and its fee structures after that.
GenerateBills(g) ==
  LET who == {p \in Students : active[p]} IN
  /\ run[g].pc = "new" /\ Call /\ g # Cron
  /\ run' = [run EXCEPT ![g].pc = "tariff", ![g].kind = Students,
                        ![g].todo = who]
  /\ fresh' = fresh \cup {g}
  /\ UNCHANGED <<active, rate, number, bill, invoice, payment, disturbed>>

ReadFeeStructures(g) ==
  /\ run[g].pc = "tariff"
  /\ run' = [run EXCEPT ![g].pc = "upserting",
                        ![g].at = [p \in Payers |-> IF p \in run[g].todo
                                                    THEN rate[p] ELSE 0]]
  /\ UNCHANGED <<active, rate, number, bill, invoice, payment, fresh, disturbed, calls>>

\* Defect: the update branch takes the status of the create branch.
Regenerated_Reopened(b, due) == [b EXCEPT !.due = due, !.status = "PENDING"]

\* The update branch of each upsert writes the amount and leaves the status
\* and what was paid alone, whether the bill is paid or not.
Regenerated(b, due) ==
  [b EXCEPT !.due = due, !.status = IF @ = "none" THEN "PENDING" ELSE @]

\* Defect: a bill that exists is not touched again.
Upsert_CreateOnly(g, p) ==
  /\ run[g].pc = "upserting" /\ p \in run[g].todo
  /\ bill' = IF bill[p] = NoBill
             THEN [bill EXCEPT ![p] = Regenerated(@, run[g].at[p])] ELSE bill
  /\ run' = [run EXCEPT ![g].todo = @ \ {p}]
  /\ fresh' = Overtaken(run[g].kind, g)
  /\ UNCHANGED <<active, rate, number, invoice, payment, disturbed, calls>>

\* One turn of the loop: the bills come in no particular order.
Upsert(g, p) ==
  /\ run[g].pc = "upserting" /\ p \in run[g].todo
  /\ bill' = [bill EXCEPT ![p] = Regenerated(@, run[g].at[p])]
  /\ run' = [run EXCEPT ![g].todo = @ \ {p}]
  /\ fresh' = Overtaken(run[g].kind, g)
  /\ UNCHANGED <<active, rate, number, invoice, payment, disturbed, calls>>

UpsertSubscription(g, p) == p \in Schools /\ Upsert(g, p)
UpsertFeeBill(g, p) == p \in Students /\ Upsert(g, p)
UpsertPayroll(g, p) == p \in Staff /\ Upsert(g, p)

\* The run is logged.  The audit row needs an existing user: SYSTEM is none,
\* so the scheduled run fails here, with all its bills written.
LogRun(g) ==
  /\ run[g].pc = "upserting" /\ run[g].todo = {}
  /\ run' = [run EXCEPT ![g].pc = IF g = Cron THEN "failed" ELSE "done",
                        ![g].at = NoTariff]
  /\ UNCHANGED <<active, rate, number, bill, invoice, payment, fresh, disturbed, calls>>

\* The process dies, or a write fails, in the middle of a run.
AbandonRun(g) ==
  /\ run[g].pc \in {"tariff", "upserting"}
  /\ run' = [run EXCEPT ![g].pc = "dead", ![g].todo = {}, ![g].at = NoTariff]
  /\ UNCHANGED <<active, rate, number, bill, invoice, payment, fresh, disturbed, calls>>

-----------------------------------------------------------------------------
(* Payments                                                                *)

\* The bill a payment names, by id or by invoice number: with a number shared
\* by two schools the query may find either.
Named(p) == {q \in Schools : bill[q] # NoBill /\ number[q] = number[p]}

InFlight(p) == {y \in Payments : payment[y].pc \in {"checked", "uploaded"}
                                   /\ payment[y].bill = p}

\* markAsPaid of a subscription refuses a bill that is PAID, on this read.
CheckPayment(y, p, a) ==
  /\ payment[y].pc = "new" /\ p \in Schools /\ Call
  /\ \E q \in Named(p) :
       /\ bill[q].status # "PAID"
       /\ payment' = [payment EXCEPT ![y] =
                        [pc |-> "checked", bill |-> q, amount |-> a]]
       /\ disturbed' = disturbed \cup {x \in {q} : InFlight(x) # {}}
  /\ UNCHANGED <<active, rate, number, bill, invoice, run, fresh>>

\* Defect: the upload is left for later.
UploadInvoice_Skipped(y) ==
  /\ payment[y].pc = "checked"
  /\ payment' = [payment EXCEPT ![y].pc = "uploaded"]
  /\ UNCHANGED <<active, rate, number, bill, invoice, run, fresh, disturbed, calls>>

\* The PDF replaces whatever is stored under the number.
UploadInvoice(y) ==
  /\ payment[y].pc = "checked"
  /\ payment' = [payment EXCEPT ![y].pc = "uploaded"]
  /\ invoice' = [invoice EXCEPT ![number[payment[y].bill]] = payment[y].amount]
  /\ UNCHANGED <<active, rate, number, bill, run, fresh, disturbed, calls>>

\* The status is not looked at again.
WritePayment(y) ==
  LET p == payment[y].bill IN
  /\ payment[y].pc = "uploaded"
  /\ bill' = [bill EXCEPT ![p].status = "PAID", ![p].paid = payment[y].amount]
  /\ payment' = [payment EXCEPT ![y] = Idle("done")]
  /\ UNCHANGED <<active, rate, number, invoice, run, calls, fresh, disturbed>>

AbandonPayment(y) ==
  /\ payment[y].pc \in {"checked", "uploaded"}
  /\ payment' = [payment EXCEPT ![y] = Idle("dead")]
  /\ UNCHANGED <<active, rate, number, bill, invoice, run, fresh, disturbed, calls>>

PayUnchecked(p, a) ==
  /\ bill[p] # NoBill /\ Call
  /\ bill' = [bill EXCEPT ![p].status = "PAID", ![p].paid = a]
  /\ UNCHANGED <<active, rate, number, invoice, run, payment, fresh, disturbed>>

\* A fee is marked paid with any amount, as often as the call is made.
MarkFeePaid(p, a) == p \in Students /\ PayUnchecked(p, a)

\* Payroll has no amount paid.
MarkPayrollPaid(p) == p \in Staff /\ PayUnchecked(p, 0)

\* PATCH /finance/subscriptions/:id writes whatever fields it is given, the
\* status too, unchecked (the month stays: the model follows the bills of one).
UpdateSubscription(p) ==
  /\ p \in Schools /\ bill[p] # NoBill /\ Call
  /\ \E s \in Statuses, due \in Amounts, paid \in 0..MaxAmount :
       bill' = [bill EXCEPT ![p] = [status |-> s, due |-> due, paid |-> paid]]
  /\ fresh' = Overtaken(Schools, None)
  /\ disturbed' = disturbed \cup {p}
  /\ UNCHANGED <<active, rate, number, invoice, run, payment>>

Next ==
  \/ \E p \in Payers :
       \/ SetActive(p)
       \/ MarkPayrollPaid(p)
       \/ UpdateSubscription(p)
       \/ \E a \in Amounts :
            \/ SetSalaryStructure(p, a)
            \/ SetSubscriptionRate(p, a)
            \/ MarkFeePaid(p, a)
            \/ \E y \in Payments : CheckPayment(y, p, a)
  \/ \E a \in Amounts : SetFeeStructure(a)
  \/ \E g \in Runs :
       \/ GenerateMonthlyBills(g)
       \/ GenerateMonthlyPayroll(g)
       \/ GenerateBills(g)
       \/ ReadFeeStructures(g)
       \/ \E p \in Payers :
            UpsertSubscription(g, p) \/ UpsertFeeBill(g, p) \/ UpsertPayroll(g, p)
       \/ LogRun(g)
       \/ AbandonRun(g)
  \/ \E y \in Payments :
       UploadInvoice(y) \/ WritePayment(y) \/ AbandonPayment(y)

Spec == Init /\ [][Next]_vars

-----------------------------------------------------------------------------
(* What the office may rely on                                             *)

\* Every variable holds what the code's columns and enums allow.
TypeOK ==
  /\ active \in [Payers -> BOOLEAN] /\ rate \in [Payers -> Amounts]
  /\ number \in [Schools -> Numbers]
  /\ bill \in [Payers -> [status : Statuses \cup {"none"},
                          due : 0..MaxAmount, paid : 0..MaxAmount]]
  /\ invoice \in [Numbers -> 0..MaxAmount]
  /\ run \in [Runs -> [pc : {"new", "tariff", "upserting", "done", "failed",
                             "dead"},
                       kind : Kinds \cup {{}}, todo : SUBSET Payers,
                       at : [Payers -> 0..MaxAmount]]]
  /\ payment \in [Payments ->
                    [pc : {"new", "checked", "uploaded", "done", "dead"},
                     bill : Schools \cup {None}, amount : 0..MaxAmount]]
  /\ fresh \in SUBSET Runs /\ disturbed \in SUBSET Schools

\* As long as nothing of its kind changed after its read, no other run wrote
\* and nothing was patched, what a run that got through leaves is the tariff:
\* every active payer is billed, at today's rate, paid before or not.
BilledAtTariff ==
  \A g \in fresh : run[g].pc \in {"done", "failed"} =>
    \A p \in run[g].kind : active[p] => bill[p].due = rate[p]

\* A paid bill stays paid, for what was paid: generating again changes only
\* the amount due.  A fee may be paid again; a subscription only when it was
\* patched, or when two payments passed the PAID check before either wrote.
PaymentStands ==
  [][\A p \in Payers \ disturbed' :
       bill[p].status = "PAID" =>
         /\ bill'[p].status = "PAID"
         /\ bill'[p].paid = bill[p].paid \/ p \in Students]_vars

\* The invoice on file says what was paid, although it is uploaded before the
\* payment is written and either may fail, for a bill that was not disturbed
\* and whose invoice number no other school shares.
InvoiceTellsPayment ==
  \A p \in Schools \ disturbed :
    /\ bill[p].status = "PAID"
    /\ \A q \in Schools : number[q] = number[p] => q = p
    => invoice[number[p]] = bill[p].paid

=============================================================================
