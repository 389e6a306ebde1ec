---------------------------- MODULE BillingProofs ----------------------------
(***************************************************************************)
(* Proofs about Billing, for any payers, tariffs, runs, payments and number *)
(* of calls.                                                                *)
(***************************************************************************)
EXTENDS Billing, TLAPS

-----------------------------------------------------------------------------
(* The inductive invariant                                                 *)

\* A payment under way names a subscription, a run goes through payers of its
\* kind, and no staff bill says what was paid.
Checked ==
  /\ \A y \in Payments :
       payment[y].pc \in {"checked", "uploaded"} => payment[y].bill \in Schools
  /\ \A g \in Runs : run[g].todo \subseteq run[g].kind
  /\ \A p \in Staff : bill[p].paid = 0

Typed == TypeOK /\ Checked

\* A subscription that was not disturbed is paid by one call at a time, which
\* found it unpaid.
OnePayment ==
  \A p \in Schools \ disturbed :
    /\ \A y, z \in InFlight(p) : y = z
    /\ \A y \in InFlight(p) : bill[p].status # "PAID"

Unshared(p) == \A q \in Schools : number[q] = number[p] => q = p

\* An invoice that was uploaded and whose payment is to be written is still
\* the one on file.
Filed ==
  \A y \in Payments :
    LET p == payment[y].bill IN
    payment[y].pc = "uploaded" /\ p \notin disturbed /\ Unshared(p)
      => invoice[number[p]] = payment[y].amount

\* Of a run that nothing has overtaken: what it read is still so, and whoever
\* it has dealt with is billed accordingly.
UpToDate(g) ==
  \A p \in run[g].kind : active[p] =>
    /\ run[g].pc = "tariff" => p \in run[g].todo
    /\ run[g].pc = "upserting" =>
         /\ run[g].at[p] = rate[p]
         /\ p \in run[g].todo \/ bill[p].due = rate[p]
    /\ run[g].pc \in {"done", "failed"} => bill[p].due = rate[p]

Current == \A g \in fresh : UpToDate(g)

IInv == Typed /\ OnePayment /\ Filed /\ InvoiceTellsPayment /\ Current

LEMMA IInvInit == Init => IInv
<1> SUFFICES ASSUME Init PROVE IInv
  OBVIOUS
<1> USE BillingAssumption DEF Init, Idle, NoBill, NoTariff
<1>1. TypeOK
  BY DEF TypeOK, Amounts
<1>2. Checked
  BY DEF Checked, Payers
<1>3. OnePayment /\ Filed /\ InvoiceTellsPayment /\ Current
  BY DEF OnePayment, InFlight, Filed, InvoiceTellsPayment, Payers, Current
<1>4. QED
  BY <1>1, <1>2, <1>3 DEF IInv, Typed

-----------------------------------------------------------------------------
(* Kinds of bills                                                          *)

\* Nobody is billed two kinds of bill.
LEMMA KindsApart ==
  ASSUME NEW k \in Kinds \cup {{}}, NEW l \in Kinds \cup {{}}, NEW p \in k, p \in l
  PROVE  k = l
  BY BillingAssumption DEF Kinds

LEMMA KindOfPayer ==
  ASSUME NEW k \in Kinds, NEW p \in k
  PROVE  KindOf(p) = k
<1>1. KindOf(p) \in Kinds /\ p \in KindOf(p)
  BY DEF KindOf
<1>2. QED
  BY <1>1, KindsApart

\* A run that a change to a bill of kind k did not overtake is of another kind.
LEMMA OvertakenElsewhere ==
  ASSUME TypeOK, NEW k \in Kinds, NEW g, NEW h \in fresh, h # g,
         h \in Overtaken(k, g), NEW p \in k
  PROVE  p \notin run[h].kind
<1>1. run[h].kind # k /\ run[h].kind \in Kinds \cup {{}}
  BY DEF Overtaken, TypeOK
<1>2. QED
  BY <1>1, KindsApart

-----------------------------------------------------------------------------
(* The rows that the actions write                                         *)

BillRow ==
  [status : Statuses \cup {"none"}, due : 0..MaxAmount, paid : 0..MaxAmount]

RunRow ==
  [pc : {"new", "tariff", "upserting", "done", "failed", "dead"},
   kind : Kinds \cup {{}}, todo : SUBSET Payers, at : [Payers -> 0..MaxAmount]]

PaymentRow ==
  [pc : {"new", "checked", "uploaded", "done", "dead"},
   bill : Schools \cup {None}, amount : 0..MaxAmount]

RowTypes ==
  /\ active \in [Payers -> BOOLEAN] /\ rate \in [Payers -> Amounts]
  /\ number \in [Schools -> Numbers]
  /\ bill \in [Payers -> BillRow] /\ invoice \in [Numbers -> 0..MaxAmount]
  /\ run \in [Runs -> RunRow] /\ payment \in [Payments -> PaymentRow]
  /\ fresh \in SUBSET Runs /\ disturbed \in SUBSET Schools

LEMMA RowsTyped == (TypeOK <=> RowTypes) /\ (TypeOK' <=> RowTypes')
  BY DEF TypeOK, RowTypes, BillRow, RunRow, PaymentRow

\* What an upsert makes of a bill.
LEMMA RegeneratedBill ==
  ASSUME NEW b \in BillRow, NEW due \in 0..MaxAmount
  PROVE  LET s == Regenerated(b, due) IN
         /\ s \in BillRow /\ s.due = due /\ s.paid = b.paid
         /\ s.status = "PAID" <=> b.status = "PAID"
  BY DEF Regenerated, BillRow, Statuses

\* What a payment makes of a bill.
LEMMA PaidBill ==
  ASSUME NEW b \in BillRow, NEW a \in 0..MaxAmount
  PROVE  LET s == [b EXCEPT !.status = "PAID", !.paid = a] IN
         s \in BillRow /\ s.due = b.due /\ s.paid = a /\ s.status = "PAID"
  BY DEF BillRow, Statuses

LEMMA RunMoves ==
  ASSUME NEW v \in RunRow,
         NEW pc \in {"new", "tariff", "upserting", "done", "failed", "dead"},
         NEW todo \in SUBSET Payers, NEW at \in [Payers -> 0..MaxAmount]
  PROVE  LET s == [v EXCEPT !.pc = pc, !.todo = todo, !.at = at] IN
         /\ s \in RunRow /\ s.pc = pc /\ s.kind = v.kind
         /\ s.todo = todo /\ s.at = at
  BY DEF RunRow

-----------------------------------------------------------------------------
(* What leaves the parts of the invariant alone                            *)

\* What is said of payments holds on as long as none moves and no subscription
\* comes to be paid or unpaid but by a patch.
LEMMA MoneyKept ==
  ASSUME OnePayment, Filed, InvoiceTellsPayment,
         UNCHANGED <<number, invoice, payment>>, disturbed \subseteq disturbed',
         \A p \in Schools \ disturbed' :
           /\ bill'[p].status = "PAID" <=> bill[p].status = "PAID"
           /\ bill'[p].status = "PAID" => bill'[p].paid = bill[p].paid
  PROVE  OnePayment' /\ Filed' /\ InvoiceTellsPayment'
<1>1. OnePayment'
  BY DEF OnePayment, InFlight
<1>2. Filed'
  BY DEF Filed, Unshared
<1>3. InvoiceTellsPayment'
  BY DEF InvoiceTellsPayment
<1>4. QED
  BY <1>1, <1>2, <1>3

\* A run is up to date as long as nothing of its kind changes.
LEMMA CurrentKept ==
  ASSUME Current, fresh' \subseteq fresh,
         \A g \in fresh' :
           /\ run'[g] = run[g]
           /\ \A p \in run[g].kind : /\ active'[p] = active[p]
                                     /\ rate'[p] = rate[p]
                                     /\ bill'[p].due = bill[p].due
  PROVE  Current'
  BY DEF Current, UpToDate

-----------------------------------------------------------------------------
(* Who is billed what                                                      *)

LEMMA SetActiveKeeps ==
  ASSUME IInv, NEW p \in Payers, SetActive(p)
  PROVE  IInv'
<1> USE DEF IInv, Typed
<1>1. /\ active' = [active EXCEPT ![p] = ~@]
      /\ fresh' = Overtaken(KindOf(p), None)
      /\ UNCHANGED <<rate, number, bill, invoice, run, payment, disturbed>>
  BY DEF SetActive
<1>2. KindOf(p) \in Kinds /\ p \in KindOf(p)
  BY KindOfPayer DEF Payers, Kinds
<1>3. fresh' \subseteq fresh
  BY <1>1 DEF Overtaken
<1>4. \A g \in fresh' : p \notin run[g].kind
  <2>1. \A g \in fresh' : g # None
    BY <1>3, BillingAssumption DEF TypeOK
  <2>2. QED
    BY <1>1, <1>2, <1>3, <2>1, OvertakenElsewhere
<1>5. TypeOK' /\ Checked'
  BY <1>1, <1>3 DEF TypeOK, Checked
<1>6. Current'
  BY <1>1, <1>3, <1>4, CurrentKept DEF TypeOK
<1>7. QED
  BY <1>1, <1>5, <1>6, MoneyKept

LEMMA SetRatesKeeps ==
  ASSUME IInv, NEW who \in SUBSET Payers, NEW a \in Amounts, SetRates(who, a)
  PROVE  IInv'
<1> USE DEF IInv, Typed
<1>1. /\ rate' = [p \in Payers |-> IF p \in who THEN a ELSE rate[p]]
      /\ fresh' = {h \in fresh : run[h].kind \cap who = {}}
      /\ UNCHANGED <<active, number, bill, invoice, run, payment, disturbed>>
  BY DEF SetRates
<1>2. TypeOK' /\ Checked'
  BY <1>1 DEF TypeOK, Checked
<1>3. \A g \in fresh' : run[g].kind \subseteq Payers
  BY <1>1 DEF TypeOK, Kinds, Payers
<1>4. Current'
  BY <1>1, <1>3, CurrentKept
<1>5. QED
  BY <1>1, <1>2, <1>4, MoneyKept

-----------------------------------------------------------------------------
(* Generation runs                                                         *)

\* A run that reads, or ends, is up to date if it is fresh after that.
LEMMA RunStepKeeps ==
  ASSUME IInv, NEW g \in Runs, NEW v \in RunRow, run' = [run EXCEPT ![g] = v],
         UNCHANGED <<active, rate, number, bill, invoice, payment, disturbed>>,
         fresh' \in SUBSET Runs, fresh' \subseteq fresh \cup {g},
         v.todo \subseteq v.kind,
         g \in fresh' =>
           \A p \in v.kind : active[p] =>
             /\ v.pc = "tariff" => p \in v.todo
             /\ v.pc = "upserting" => /\ v.at[p] = rate[p]
                                      /\ p \in v.todo \/ bill[p].due = rate[p]
             /\ v.pc \in {"done", "failed"} => bill[p].due = rate[p]
  PROVE  IInv'
<1> USE DEF IInv, Typed
<1>1. TypeOK'
  BY RowsTyped DEF RowTypes
<1>2. run'[g] = v /\ \A h \in Runs : h # g => run'[h] = run[h]
  BY DEF TypeOK
<1>3. Checked'
  BY <1>2 DEF Checked
<1>4. Current'
  BY <1>2 DEF Current, UpToDate, TypeOK
<1>5. QED
  BY <1>1, <1>3, <1>4, MoneyKept

LEMMA StartRunKeeps ==
  ASSUME IInv, NEW g \in Runs, NEW k \in {Schools, Staff}, StartRun(g, k)
  PROVE  IInv'
<1> USE DEF IInv, Typed
<1> DEFINE who == {p \in k : active[p]}
           at == [p \in Payers |-> IF p \in who THEN rate[p] ELSE 0]
           v == [pc |-> "upserting", kind |-> k, todo |-> who, at |-> at]
<1>1. /\ run' = [run EXCEPT ![g] = v] /\ fresh' = fresh \cup {g}
      /\ UNCHANGED <<active, rate, number, bill, invoice, payment, disturbed>>
  BY DEF StartRun
<1>2. at \in [Payers -> 0..MaxAmount] /\ \A p \in k : active[p] => at[p] = rate[p]
  <2>1. rate \in [Payers -> Amounts] /\ Amounts \subseteq 0..MaxAmount
    BY DEF TypeOK, Amounts
  <2>2. 0 \in 0..MaxAmount /\ k \subseteq Payers
    BY BillingAssumption DEF Payers
  <2>3. QED
    BY <2>1, <2>2
<1>3. who \subseteq k /\ who \in SUBSET Payers /\ \A p \in k : active[p] => p \in who
  BY DEF Payers
<1> HIDE DEF at, who
<1>4. /\ v \in RunRow /\ v.pc = "upserting" /\ v.kind = k /\ v.todo = who
      /\ v.at = at
  BY <1>2, <1>3 DEF RunRow, Kinds
<1> HIDE DEF v
<1>5. fresh' \in SUBSET Runs
  BY <1>1 DEF TypeOK
<1>6. QED
  BY <1>1, <1>2, <1>3, <1>4, <1>5, RunStepKeeps

LEMMA GenerateBillsKeeps ==
  ASSUME IInv, NEW g \in Runs, GenerateBills(g)
  PROVE  IInv'
<1> USE DEF IInv, Typed
<1> DEFINE who == {p \in Students : active[p]}
           v == [run[g] EXCEPT !.pc = "tariff", !.kind = Students, !.todo = who]
<1>1. /\ run' = [run EXCEPT ![g] = v] /\ fresh' = fresh \cup {g}
      /\ UNCHANGED <<active, rate, number, bill, invoice, payment, disturbed>>
  BY DEF GenerateBills
<1>2. /\ who \subseteq Students /\ who \in SUBSET Payers
      /\ \A p \in Students : active[p] => p \in who
  BY DEF Payers
<1> HIDE DEF who
<1>3. v \in RunRow /\ v.pc = "tariff" /\ v.kind = Students /\ v.todo = who
  <2>1. run[g] \in RunRow
    BY RowsTyped DEF RowTypes
  <2>2. QED
    BY <1>2, <2>1 DEF RunRow, Kinds
<1> HIDE DEF v
<1>4. fresh' \in SUBSET Runs
  BY <1>1 DEF TypeOK
<1>5. QED
  BY <1>1, <1>2, <1>3, <1>4, RunStepKeeps

LEMMA ReadFeeStructuresKeeps ==
  ASSUME IInv, NEW g \in Runs, ReadFeeStructures(g)
  PROVE  IInv'
<1> USE DEF IInv, Typed
<1> DEFINE at == [p \in Payers |-> IF p \in run[g].todo THEN rate[p] ELSE 0]
           v == [run[g] EXCEPT !.pc = "upserting", !.at = at]
<1>1. /\ run' = [run EXCEPT ![g] = v] /\ fresh' = fresh /\ run[g].pc = "tariff"
      /\ UNCHANGED <<active, rate, number, bill, invoice, payment, disturbed>>
  BY DEF ReadFeeStructures
<1>2. run[g] \in RunRow /\ run[g].todo \subseteq run[g].kind
  BY RowsTyped DEF RowTypes, Checked
<1>3. run[g].todo \subseteq Payers
  BY <1>2 DEF RunRow
<1>4. /\ at \in [Payers -> 0..MaxAmount]
      /\ \A p \in run[g].todo : at[p] = rate[p]
  BY <1>3, BillingAssumption DEF TypeOK, Amounts
<1> HIDE DEF at
<1>5. /\ v \in RunRow /\ v.pc = "upserting" /\ v.kind = run[g].kind
      /\ v.todo = run[g].todo /\ v.at = at
  BY <1>2, <1>4 DEF RunRow
<1> HIDE DEF v
<1>6. g \in fresh => \A p \in run[g].kind : active[p] => p \in run[g].todo
  BY <1>1 DEF Current, UpToDate
<1>7. fresh' \in SUBSET Runs /\ fresh' \subseteq fresh \cup {g}
  BY <1>1 DEF TypeOK
<1>8. QED
  BY <1>1, <1>2, <1>4, <1>5, <1>6, <1>7, RunStepKeeps

\* Once nobody is left to bill, everybody is billed.
LEMMA LogRunKeeps ==
  ASSUME IInv, NEW g \in Runs, LogRun(g)
  PROVE  IInv'
<1> USE DEF IInv, Typed
<1> DEFINE pc == IF g = Cron THEN "failed" ELSE "done"
           v == [run[g] EXCEPT !.pc = pc, !.at = NoTariff]
<1>1. /\ run' = [run EXCEPT ![g] = v] /\ fresh' = fresh
      /\ run[g].pc = "upserting" /\ run[g].todo = {}
      /\ UNCHANGED <<active, rate, number, bill, invoice, payment, disturbed>>
  BY DEF LogRun
<1>2. pc \in {"failed", "done"} /\ NoTariff \in [Payers -> 0..MaxAmount]
  BY BillingAssumption DEF NoTariff
<1> HIDE DEF pc
<1>3. v \in RunRow /\ v.pc = pc /\ v.kind = run[g].kind /\ v.todo = {}
  <2>1. run[g] \in RunRow
    BY RowsTyped DEF RowTypes
  <2>2. QED
    BY <1>1, <1>2, <2>1 DEF RunRow
<1> HIDE DEF v
<1>4. g \in fresh => \A p \in run[g].kind : active[p] => bill[p].due = rate[p]
  BY <1>1 DEF Current, UpToDate
<1>5. fresh' \in SUBSET Runs /\ fresh' \subseteq fresh \cup {g}
  BY <1>1 DEF TypeOK
<1>6. QED
  BY <1>1, <1>2, <1>3, <1>4, <1>5, RunStepKeeps

LEMMA AbandonRunKeeps ==
  ASSUME IInv, NEW g \in Runs, AbandonRun(g)
  PROVE  IInv'
<1> USE DEF IInv, Typed
<1> DEFINE v == [run[g] EXCEPT !.pc = "dead", !.todo = {}, !.at = NoTariff]
<1>1. /\ run' = [run EXCEPT ![g] = v] /\ fresh' = fresh
      /\ UNCHANGED <<active, rate, number, bill, invoice, payment, disturbed>>
  BY DEF AbandonRun
<1>2. NoTariff \in [Payers -> 0..MaxAmount]
  BY BillingAssumption DEF NoTariff
<1>3. v \in RunRow /\ v.pc = "dead" /\ v.todo = {}
  <2>1. run[g] \in RunRow
    BY RowsTyped DEF RowTypes
  <2>2. QED
    BY <1>2, <2>1 DEF RunRow
<1> HIDE DEF v
<1>4. fresh' \in SUBSET Runs /\ fresh' \subseteq fresh \cup {g}
  BY <1>1 DEF TypeOK
<1>5. QED
  BY <1>1, <1>3, <1>4, RunStepKeeps

\* A bill that is generated overtakes the other runs of its kind.
LEMMA UpsertKeeps ==
  ASSUME IInv, NEW g \in Runs, NEW p \in Payers, Upsert(g, p)
  PROVE  IInv'
<1> USE DEF IInv, Typed
<1> DEFINE due == run[g].at[p]
           b == Regenerated(bill[p], due)
           v == [run[g] EXCEPT !.todo = @ \ {p}]
<1>1. /\ run[g].pc = "upserting" /\ p \in run[g].todo
      /\ bill' = [bill EXCEPT ![p] = b] /\ run' = [run EXCEPT ![g] = v]
      /\ fresh' = Overtaken(run[g].kind, g)
      /\ UNCHANGED <<active, rate, number, invoice, payment, disturbed>>
  BY DEF Upsert
<1>2. run[g] \in RunRow /\ bill[p] \in BillRow /\ run[g].todo \subseteq run[g].kind
  BY RowsTyped DEF RowTypes, Checked
<1>3. /\ b \in BillRow /\ b.due = due /\ b.paid = bill[p].paid
      /\ b.status = "PAID" <=> bill[p].status = "PAID"
  <2>1. due \in 0..MaxAmount
    BY <1>2 DEF RunRow
  <2>2. QED
    BY <1>2, <2>1, RegeneratedBill
<1>4. /\ v \in RunRow /\ v.pc = "upserting" /\ v.kind = run[g].kind
      /\ v.todo = run[g].todo \ {p} /\ v.at = run[g].at
  BY <1>1, <1>2 DEF RunRow
<1> HIDE DEF b, v
<1>5. /\ run'[g] = v /\ \A h \in Runs : h # g => run'[h] = run[h]
      /\ bill'[p] = b /\ \A q \in Payers : q # p => bill'[q] = bill[q]
  BY <1>1 DEF TypeOK
<1>6. fresh' \subseteq fresh
  BY <1>1 DEF Overtaken
<1>7. TypeOK'
  BY <1>1, <1>3, <1>4, <1>6, RowsTyped DEF RowTypes
<1>8. Checked'
  <2>1. \A q \in Staff : q \in Payers
    BY DEF Payers
  <2>2. QED
    BY <1>1, <1>2, <1>3, <1>4, <1>5, <2>1 DEF Checked
<1>9. OnePayment' /\ Filed' /\ InvoiceTellsPayment'
  <2>1. \A q \in Schools : q \in Payers
    BY DEF Payers
  <2>2. \A q \in Schools : /\ bill'[q].status = "PAID" <=> bill[q].status = "PAID"
                           /\ bill'[q].paid = bill[q].paid
    BY <1>3, <1>5, <2>1
  <2>3. QED
    BY <1>1, <2>2, MoneyKept
<1>10. ASSUME NEW h \in fresh'
       PROVE  UpToDate(h)'
  <2>1. h \in fresh /\ h \in Runs /\ UpToDate(h) /\ run[h].kind \subseteq Payers
    BY <1>6 DEF Current, TypeOK, Kinds, Payers
  <2>2. CASE h = g
    <3>1. \A q \in run[g].kind : active[q] =>
            /\ run[g].at[q] = rate[q]
            /\ q \in run[g].todo \/ bill[q].due = rate[q]
      BY <1>1, <2>1, <2>2 DEF UpToDate
    <3>2. \A q \in run[g].kind : active[q] =>
            q \in run[g].todo \ {p} \/ bill'[q].due = rate[q]
      BY <1>3, <1>5, <2>1, <2>2, <3>1
    <3>3. QED
      BY <1>1, <1>4, <1>5, <2>2, <3>1, <3>2 DEF UpToDate
  <2>3. CASE h # g
    <3>1. run[g].kind \in Kinds
      BY <1>1, <1>2 DEF RunRow
    <3>2. p \notin run[h].kind
      BY <1>1, <1>2, <2>1, <2>3, <3>1, OvertakenElsewhere
    <3>3. QED
      BY <1>1, <1>5, <2>1, <2>3, <3>2 DEF UpToDate
  <2>4. QED
    BY <2>2, <2>3
<1>11. QED
  BY <1>7, <1>8, <1>9, <1>10 DEF Current

-----------------------------------------------------------------------------
(* Payments                                                                *)

\* What leaves the runs and the bills alone leaves them up to date.
LEMMA PaymentStepTyped ==
  ASSUME IInv, NEW y \in Payments, NEW v \in PaymentRow,
         payment' = [payment EXCEPT ![y] = v],
         UNCHANGED <<active, rate, number, bill, run, fresh>>,
         invoice' \in [Numbers -> 0..MaxAmount], disturbed' \in SUBSET Schools,
         v.pc \in {"checked", "uploaded"} => v.bill \in Schools
  PROVE  Typed' /\ Current'
<1> USE DEF IInv, Typed
<1>1. TypeOK'
  BY RowsTyped DEF RowTypes
<1>2. Checked'
  BY DEF Checked, TypeOK
<1>3. Current'
  BY CurrentKept
<1>4. QED
  BY <1>1, <1>2, <1>3

LEMMA CheckPaymentKeeps ==
  ASSUME IInv, NEW y \in Payments, NEW p \in Schools, NEW a \in Amounts,
         CheckPayment(y, p, a)
  PROVE  IInv'
<1> USE DEF IInv, Typed
<1>1. PICK q \in Named(p) :
        /\ bill[q].status # "PAID"
        /\ payment' = [payment EXCEPT ![y] =
                         [pc |-> "checked", bill |-> q, amount |-> a]]
        /\ disturbed' = disturbed \cup {x \in {q} : InFlight(x) # {}}
  BY DEF CheckPayment
<1> DEFINE v == [pc |-> "checked", bill |-> q, amount |-> a]
<1>2. /\ UNCHANGED <<active, rate, number, bill, invoice, run, fresh>>
      /\ payment' = [payment EXCEPT ![y] = v] /\ payment[y].pc = "new"
  BY <1>1 DEF CheckPayment
<1>3. q \in Schools
  BY DEF Named
<1>4. v \in PaymentRow /\ v.pc = "checked" /\ v.bill = q /\ v.amount = a
  BY <1>3, BillingAssumption DEF PaymentRow, Amounts
<1> HIDE DEF v
<1>5. payment'[y] = v /\ \A z \in Payments : z # y => payment'[z] = payment[z]
  BY <1>2 DEF TypeOK
<1>6. Typed' /\ Current'
  <2>1. invoice' \in [Numbers -> 0..MaxAmount] /\ disturbed' \in SUBSET Schools
    BY <1>1, <1>2, <1>3 DEF TypeOK
  <2>2. QED
    BY <1>2, <1>3, <1>4, <2>1, PaymentStepTyped
<1>7. OnePayment'
  <2>1. SUFFICES ASSUME NEW x \in Schools \ disturbed'
                 PROVE  /\ \A z, w \in InFlight(x)' : z = w
                        /\ \A z \in InFlight(x)' : bill'[x].status # "PAID"
    BY DEF OnePayment
  <2>2. x \notin disturbed /\ (x = q => InFlight(q) = {})
    BY <1>1, <2>1
  <2>3. InFlight(x)' = IF x = q THEN InFlight(x) \cup {y} ELSE InFlight(x)
    BY <1>2, <1>4, <1>5 DEF InFlight
  <2>4. QED
    BY <1>1, <1>2, <2>2, <2>3 DEF OnePayment
<1>8. Filed'
  BY <1>1, <1>2, <1>4, <1>5 DEF Filed, Unshared
<1>9. InvoiceTellsPayment'
  BY <1>1, <1>2 DEF InvoiceTellsPayment
<1>10. QED
  BY <1>6, <1>7, <1>8, <1>9

\* The invoice replaced is of a bill that is not paid, or of two schools.
LEMMA UploadInvoiceKeeps ==
  ASSUME IInv, NEW y \in Payments, UploadInvoice(y)
  PROVE  IInv'
<1> USE DEF IInv, Typed
<1> DEFINE v == [payment[y] EXCEPT !.pc = "uploaded"]
           p == payment[y].bill
           a == payment[y].amount
<1>1. /\ payment[y].pc = "checked" /\ payment' = [payment EXCEPT ![y] = v]
      /\ invoice' = [invoice EXCEPT ![number[p]] = a]
      /\ UNCHANGED <<active, rate, number, bill, run, fresh, disturbed>>
  BY DEF UploadInvoice
<1>2. payment[y] \in PaymentRow /\ p \in Schools /\ number[p] \in Numbers
  <2>1. p \in Schools
    BY <1>1 DEF Checked
  <2>2. QED
    BY <2>1, RowsTyped DEF RowTypes
<1>3. /\ v \in PaymentRow /\ v.pc = "uploaded" /\ v.bill = p /\ v.amount = a
      /\ a \in 0..MaxAmount
  BY <1>2 DEF PaymentRow
<1> HIDE DEF v, a
<1>4. /\ payment'[y] = v /\ \A z \in Payments : z # y => payment'[z] = payment[z]
      /\ invoice'[number[p]] = a
      /\ \A n \in Numbers : n # number[p] => invoice'[n] = invoice[n]
  BY <1>1, <1>2 DEF TypeOK
<1>5. Typed' /\ Current'
  <2>1. invoice' \in [Numbers -> 0..MaxAmount] /\ disturbed' \in SUBSET Schools
    BY <1>1, <1>3 DEF TypeOK
  <2>2. QED
    BY <1>1, <1>2, <1>3, <2>1, PaymentStepTyped
<1>6. OnePayment'
  <2>1. \A x \in Schools : InFlight(x)' = InFlight(x)
    BY <1>1, <1>3, <1>4 DEF InFlight
  <2>2. QED
    BY <1>1, <2>1 DEF OnePayment
<1>7. Filed'
  <2>1. SUFFICES ASSUME NEW z \in Payments, payment'[z].pc = "uploaded",
                        payment'[z].bill \notin disturbed', Unshared(payment[z].bill)'
                 PROVE  invoice'[number'[payment'[z].bill]] = payment'[z].amount
    BY DEF Filed
  <2>2. CASE z = y
    BY <1>1, <1>3, <1>4, <2>2
  <2>3. CASE z # y
    <3>1. payment'[z] = payment[z] /\ payment[z].bill \in Schools
      BY <1>4, <2>1, <2>3 DEF Checked
    <3>2. invoice[number[payment[z].bill]] = payment[z].amount
      BY <1>1, <2>1, <3>1 DEF Filed, Unshared
    <3>3. payment[z].bill # p
      BY <1>1, <1>2, <2>1, <2>3, <3>1 DEF OnePayment, InFlight
    <3>4. number[payment[z].bill] # number[p]
      BY <1>1, <1>2, <2>1, <3>1, <3>3 DEF Unshared
    <3>5. QED
      BY <1>1, <1>4, <3>1, <3>2, <3>4 DEF TypeOK
  <2>4. QED
    BY <2>2, <2>3
<1>8. InvoiceTellsPayment'
  <2>1. SUFFICES ASSUME NEW q \in Schools \ disturbed', bill'[q].status = "PAID",
                        \A x \in Schools : number'[x] = number'[q] => x = q
                 PROVE  invoice'[number'[q]] = bill'[q].paid
    BY DEF InvoiceTellsPayment
  <2>2. q # p
    BY <1>1, <1>2, <2>1 DEF OnePayment, InFlight
  <2>3. number[q] # number[p] /\ number[q] \in Numbers
    BY <1>1, <1>2, <2>1, <2>2 DEF TypeOK
  <2>4. invoice[number[q]] = bill[q].paid
    BY <1>1, <2>1 DEF InvoiceTellsPayment
  <2>5. QED
    BY <1>1, <1>4, <2>3, <2>4
<1>9. QED
  BY <1>5, <1>6, <1>7, <1>8

LEMMA AbandonPaymentKeeps ==
  ASSUME IInv, NEW y \in Payments, AbandonPayment(y)
  PROVE  IInv'
<1> USE DEF IInv, Typed
<1> DEFINE v == Idle("dead")
<1>1. /\ payment' = [payment EXCEPT ![y] = v]
      /\ UNCHANGED <<active, rate, number, bill, invoice, run, fresh, disturbed>>
  BY DEF AbandonPayment
<1>2. v \in PaymentRow /\ v.pc = "dead"
  BY BillingAssumption DEF PaymentRow, Idle
<1> HIDE DEF v
<1>3. payment'[y] = v /\ \A z \in Payments : z # y => payment'[z] = payment[z]
  BY <1>1 DEF TypeOK
<1>4. Typed' /\ Current'
  BY <1>1, <1>2, PaymentStepTyped DEF TypeOK
<1>5. OnePayment'
  <2>1. \A x \in Schools : InFlight(x)' \subseteq InFlight(x)
    BY <1>2, <1>3 DEF InFlight
  <2>2. QED
    BY <1>1, <2>1 DEF OnePayment
<1>6. Filed'
  BY <1>1, <1>2, <1>3 DEF Filed, Unshared
<1>7. InvoiceTellsPayment'
  BY <1>1 DEF InvoiceTellsPayment
<1>8. QED
  BY <1>4, <1>5, <1>6, <1>7

\* A bill that comes to be paid has its invoice on file, and no other payment.
LEMMA WritePaymentKeeps ==
  ASSUME IInv, NEW y \in Payments, NEW p \in Schools, payment[y].bill = p,
         WritePayment(y)
  PROVE  IInv'
<1> USE DEF IInv, Typed
<1> DEFINE v == Idle("done")
           a == payment[y].amount
           b == [bill[p] EXCEPT !.status = "PAID", !.paid = a]
<1>1. /\ payment[y].pc = "uploaded" /\ payment' = [payment EXCEPT ![y] = v]
      /\ bill' = [bill EXCEPT ![p] = b]
      /\ UNCHANGED <<active, rate, number, invoice, run, fresh, disturbed>>
  BY DEF WritePayment
<1>2. v \in PaymentRow /\ v.pc = "done"
  BY BillingAssumption DEF PaymentRow, Idle
<1>3. p \in Payers /\ bill[p] \in BillRow /\ payment[y] \in PaymentRow
  BY RowsTyped DEF RowTypes, Payers
<1>4. b \in BillRow /\ b.due = bill[p].due /\ b.paid = a /\ b.status = "PAID"
  <2>1. a \in 0..MaxAmount
    BY <1>3 DEF PaymentRow
  <2>2. QED
    BY <1>3, <2>1, PaidBill
<1> HIDE DEF v, a, b
<1>5. /\ payment'[y] = v /\ \A z \in Payments : z # y => payment'[z] = payment[z]
      /\ bill'[p] = b /\ \A q \in Payers : q # p => bill'[q] = bill[q]
  BY <1>1, <1>3 DEF TypeOK
<1>6. TypeOK'
  BY <1>1, <1>2, <1>4, RowsTyped DEF RowTypes
<1>7. Checked'
  <2>1. \A q \in Staff : q # p /\ q \in Payers
    BY BillingAssumption DEF Payers
  <2>2. QED
    BY <1>1, <1>2, <1>5, <2>1 DEF Checked
<1>8. OnePayment'
  <2>1. SUFFICES ASSUME NEW x \in Schools \ disturbed'
                 PROVE  /\ \A z, w \in InFlight(x)' : z = w
                        /\ \A z \in InFlight(x)' : bill'[x].status # "PAID"
    BY DEF OnePayment
  <2>2. InFlight(x)' \subseteq InFlight(x) /\ y \notin InFlight(x)'
    BY <1>2, <1>5 DEF InFlight
  <2>3. x = p => y \in InFlight(x)
    BY <1>1 DEF InFlight
  <2>4. x # p => bill'[x] = bill[x]
    BY <1>5 DEF Payers
  <2>5. QED
    BY <1>1, <2>2, <2>3, <2>4 DEF OnePayment
<1>9. Filed'
  BY <1>1, <1>2, <1>5 DEF Filed, Unshared
<1>10. InvoiceTellsPayment'
  <2>1. SUFFICES ASSUME NEW q \in Schools \ disturbed', bill'[q].status = "PAID",
                        \A x \in Schools : number'[x] = number'[q] => x = q
                 PROVE  invoice'[number'[q]] = bill'[q].paid
    BY DEF InvoiceTellsPayment
  <2>2. CASE q = p
    BY <1>1, <1>4, <1>5, <2>1, <2>2 DEF Filed, Unshared, a
  <2>3. CASE q # p
    BY <1>1, <1>5, <2>1, <2>3 DEF InvoiceTellsPayment, Payers
  <2>4. QED
    BY <2>2, <2>3
<1>11. Current'
  <2>1. \A q \in Payers : bill'[q].due = bill[q].due
    BY <1>4, <1>5
  <2>2. \A g \in fresh : run[g].kind \subseteq Payers
    BY DEF TypeOK, Kinds, Payers
  <2>3. QED
    BY <1>1, <2>1, <2>2, CurrentKept
<1>12. QED
  BY <1>6, <1>7, <1>8, <1>9, <1>10, <1>11

\* Fees and salaries are none of the subscriptions.
LEMMA PayUncheckedKeeps ==
  ASSUME IInv, NEW p \in Students \cup Staff, NEW paid \in 0..MaxAmount,
         p \in Staff => paid = 0, PayUnchecked(p, paid)
  PROVE  IInv'
<1> USE DEF IInv, Typed
<1> DEFINE b == [bill[p] EXCEPT !.status = "PAID", !.paid = paid]
<1>1. /\ bill' = [bill EXCEPT ![p] = b]
      /\ UNCHANGED <<active, rate, number, invoice, run, payment, fresh, disturbed>>
  BY DEF PayUnchecked
<1>2. p \in Payers /\ p \notin Schools /\ bill[p] \in BillRow
  BY BillingAssumption, RowsTyped DEF RowTypes, Payers
<1>3. b \in BillRow /\ b.due = bill[p].due /\ b.paid = paid
  BY <1>2, PaidBill
<1> HIDE DEF b
<1>4. bill'[p] = b /\ \A q \in Payers : q # p => bill'[q] = bill[q]
  BY <1>1, <1>2 DEF TypeOK
<1>5. TypeOK'
  BY <1>1, <1>3, RowsTyped DEF RowTypes
<1>6. Checked'
  BY <1>1, <1>3, <1>4 DEF Checked, Payers
<1>7. OnePayment' /\ Filed' /\ InvoiceTellsPayment'
  BY <1>1, <1>2, <1>4, MoneyKept DEF Payers
<1>8. Current'
  <2>1. \A g \in fresh : run[g].kind \subseteq Payers
    BY DEF TypeOK, Kinds, Payers
  <2>2. QED
    BY <1>1, <1>3, <1>4, <2>1, CurrentKept
<1>9. QED
  BY <1>5, <1>6, <1>7, <1>8

LEMMA UpdateSubscriptionKeeps ==
  ASSUME IInv, NEW p \in Schools, UpdateSubscription(p)
  PROVE  IInv'
<1> USE DEF IInv, Typed
<1>1. PICK s \in Statuses, due \in Amounts, paid \in 0..MaxAmount :
        bill' = [bill EXCEPT ![p] = [status |-> s, due |-> due, paid |-> paid]]
  BY DEF UpdateSubscription
<1> DEFINE b == [status |-> s, due |-> due, paid |-> paid]
<1>2. /\ fresh' = Overtaken(Schools, None) /\ disturbed' = disturbed \cup {p}
      /\ UNCHANGED <<active, rate, number, invoice, run, payment>>
  BY DEF UpdateSubscription
<1>3. b \in BillRow
  BY BillingAssumption DEF BillRow, Amounts
<1> HIDE DEF b
<1>4. \A q \in Payers : q # p => bill'[q] = bill[q]
  BY <1>1 DEF TypeOK
<1>5. fresh' \subseteq fresh /\ \A g \in fresh' : g # None
  BY <1>2, BillingAssumption DEF Overtaken, TypeOK
<1>6. TypeOK'
  BY <1>1, <1>2, <1>3, <1>5, RowsTyped DEF RowTypes, b
<1>7. Checked'
  <2>1. \A q \in Staff : q # p /\ q \in Payers
    BY BillingAssumption DEF Payers
  <2>2. QED
    BY <1>2, <1>4, <2>1 DEF Checked
<1>8. OnePayment' /\ Filed' /\ InvoiceTellsPayment'
  BY <1>2, <1>4, MoneyKept DEF Payers
<1>9. Current'
  <2>1. \A g \in fresh' : p \notin run[g].kind /\ run[g].kind \subseteq Payers
    BY <1>2, <1>5, OvertakenElsewhere DEF TypeOK, Kinds, Payers
  <2>2. QED
    BY <1>2, <1>4, <1>5, <2>1, CurrentKept
<1>10. QED
  BY <1>6, <1>7, <1>8, <1>9

-----------------------------------------------------------------------------
(* What the invariant gives                                                *)

LEMMA IInvNext == IInv /\ [Next]_vars => IInv'
<1> SUFFICES ASSUME IInv, [Next]_vars PROVE IInv'
  OBVIOUS
<1>1. ASSUME NEW p \in Payers, NEW a \in Amounts,
             \/ SetSalaryStructure(p, a) \/ SetSubscriptionRate(p, a)
             \/ SetFeeStructure(a)
      PROVE  IInv'
  BY <1>1, SetRatesKeeps
  DEF SetSalaryStructure, SetSubscriptionRate, SetFeeStructure, Payers
<1>2. ASSUME NEW a \in Amounts, SetFeeStructure(a)
      PROVE  IInv'
  BY <1>2, SetRatesKeeps DEF SetFeeStructure, Payers
<1>3. ASSUME NEW p \in Payers, NEW a \in Amounts,
             MarkFeePaid(p, a) \/ MarkPayrollPaid(p)
      PROVE  IInv'
  <2>1. a \in 0..MaxAmount /\ 0 \in 0..MaxAmount
    BY BillingAssumption DEF Amounts
  <2>2. MarkFeePaid(p, a) => p \notin Staff
    BY BillingAssumption DEF MarkFeePaid
  <2>3. QED
    BY <1>3, <2>1, <2>2, PayUncheckedKeeps DEF MarkFeePaid, MarkPayrollPaid
<1>4. ASSUME NEW g \in Runs, NEW p \in Payers,
             \/ UpsertSubscription(g, p) \/ UpsertFeeBill(g, p)
             \/ UpsertPayroll(g, p)
      PROVE  IInv'
  BY <1>4, UpsertKeeps DEF UpsertSubscription, UpsertFeeBill, UpsertPayroll
<1>5. ASSUME NEW g \in Runs, GenerateMonthlyBills(g) \/ GenerateMonthlyPayroll(g)
      PROVE  IInv'
  BY <1>5, StartRunKeeps DEF GenerateMonthlyBills, GenerateMonthlyPayroll
<1>6. ASSUME NEW y \in Payments, WritePayment(y)
      PROVE  IInv'
  <2>1. PICK p \in Schools : payment[y].bill = p
    BY <1>6 DEF WritePayment, IInv, Typed, Checked
  <2>2. QED
    BY <1>6, <2>1, WritePaymentKeeps
<1>7. ASSUME NEW y \in Payments, NEW p \in Payers, NEW a \in Amounts,
             CheckPayment(y, p, a)
      PROVE  IInv'
  BY <1>7, CheckPaymentKeeps DEF CheckPayment
<1>8. ASSUME NEW p \in Payers, UpdateSubscription(p)
      PROVE  IInv'
  BY <1>8, UpdateSubscriptionKeeps DEF UpdateSubscription
<1>9. CASE UNCHANGED vars
  <2> USE <1>9 DEF vars, IInv, Typed
  <2>1. TypeOK' /\ Checked'
    BY DEF TypeOK, Checked
  <2>2. Current'
    BY CurrentKept
  <2>3. QED
    BY <2>1, <2>2, MoneyKept
<1>10. ASSUME NEW p \in Payers, MarkPayrollPaid(p)
       PROVE  IInv'
  <2>1. 1 \in Amounts
    BY BillingAssumption DEF Amounts
  <2>2. QED
    BY <1>3, <1>10, <2>1
<1>11. QED
  BY <1>1, <1>2, <1>3, <1>4, <1>5, <1>6, <1>7, <1>8, <1>9, <1>10,
     SetActiveKeeps, GenerateBillsKeeps, ReadFeeStructuresKeeps, LogRunKeeps,
     AbandonRunKeeps, UploadInvoiceKeeps, AbandonPaymentKeeps
  DEF Next

\* Runs and payments, overlapping and failing anywhere, keep the invariant.
THEOREM BillingInvariant == Spec => []IInv
  BY IInvInit, IInvNext, PTL DEF Spec

\* The invoice on file says what was paid (markAsPaid of a subscription).
THEOREM InvoiceIsPayment == Spec => []InvoiceTellsPayment
<1>1. IInv => InvoiceTellsPayment
  BY DEF IInv
<1>2. QED
  BY <1>1, BillingInvariant, PTL

-----------------------------------------------------------------------------
(* Paid is paid                                                            *)

\* Only these write bills.
LEMMA OnlyTheseBill ==
  ASSUME [Next]_vars, bill' # bill
  PROVE  \/ \E g \in Runs, p \in Payers : Upsert(g, p)
         \/ \E y \in Payments : WritePayment(y)
         \/ \E p \in Payers, a \in Amounts : MarkFeePaid(p, a)
         \/ \E p \in Payers : MarkPayrollPaid(p) \/ UpdateSubscription(p)
<1>1. ASSUME NEW p \in Payers, NEW a \in Amounts,
             \/ SetActive(p) \/ SetSalaryStructure(p, a)
             \/ SetSubscriptionRate(p, a) \/ SetFeeStructure(a)
             \/ \E y \in Payments : CheckPayment(y, p, a)
      PROVE  FALSE
  BY <1>1
  DEF SetActive, SetSalaryStructure, SetSubscriptionRate, SetFeeStructure,
      SetRates, CheckPayment
<1>2. ASSUME NEW a \in Amounts, SetFeeStructure(a)
      PROVE  FALSE
  BY <1>2 DEF SetFeeStructure, SetRates
<1>3. ASSUME NEW p \in Payers, SetActive(p)
      PROVE  FALSE
  BY <1>3 DEF SetActive
<1>4. ASSUME NEW g \in Runs,
             \/ GenerateMonthlyBills(g) \/ GenerateMonthlyPayroll(g)
             \/ GenerateBills(g) \/ ReadFeeStructures(g)
             \/ LogRun(g) \/ AbandonRun(g)
      PROVE  FALSE
  BY <1>4
  DEF GenerateMonthlyBills, GenerateMonthlyPayroll, StartRun, GenerateBills,
      ReadFeeStructures, LogRun, AbandonRun
<1>5. ASSUME NEW y \in Payments, UploadInvoice(y) \/ AbandonPayment(y)
      PROVE  FALSE
  BY <1>5 DEF UploadInvoice, AbandonPayment
<1>6. ~UNCHANGED vars
  BY DEF vars
<1>7. QED
  BY <1>1, <1>2, <1>3, <1>4, <1>5, <1>6
  DEF Next, UpsertSubscription, UpsertFeeBill, UpsertPayroll

LEMMA PaidStays ==
  ASSUME IInv, [Next]_vars, NEW p \in Payers \ disturbed',
         bill[p].status = "PAID"
  PROVE  /\ bill'[p].status = "PAID"
         /\ bill'[p].paid = bill[p].paid \/ p \in Students
<1> USE DEF IInv, Typed
<1>0. bill \in [Payers -> BillRow]
  BY RowsTyped DEF RowTypes
<1>1. ASSUME NEW g \in Runs, NEW q \in Payers, Upsert(g, q)
      PROVE  bill'[p].status = "PAID" /\ bill'[p].paid = bill[p].paid
  <2>1. run[g].at[q] \in 0..MaxAmount
    BY DEF TypeOK
  <2>2. bill' = [bill EXCEPT ![q] = Regenerated(bill[q], run[g].at[q])]
    BY <1>1 DEF Upsert
  <2>3. QED
    BY <1>0, <2>1, <2>2, RegeneratedBill
<1>2. ASSUME NEW y \in Payments, WritePayment(y)
      PROVE  bill'[p] = bill[p]
  <2>1. payment[y].bill \in Schools /\ y \in InFlight(payment[y].bill)
    BY <1>2 DEF WritePayment, Checked, InFlight
  <2>2. p # payment[y].bill
    BY <1>2, <2>1 DEF WritePayment, OnePayment
  <2>3. QED
    BY <1>0, <1>2, <2>2 DEF WritePayment
<1>3. ASSUME NEW q \in Payers, NEW a \in Amounts, MarkFeePaid(q, a)
      PROVE  /\ bill'[p].status = "PAID"
             /\ bill'[p].paid = bill[p].paid \/ p \in Students
  <2>1. /\ bill' = [bill EXCEPT ![q] = [bill[q] EXCEPT !.status = "PAID",
                                                      !.paid = a]]
        /\ q \in Students
    BY <1>3 DEF MarkFeePaid, PayUnchecked
  <2>2. a \in 0..MaxAmount
    BY BillingAssumption DEF Amounts
  <2>3. p # q => bill'[p] = bill[p]
    BY <1>0, <2>1
  <2>4. bill'[q].status = "PAID"
    <3>1. bill'[q] = [bill[q] EXCEPT !.status = "PAID", !.paid = a]
      BY <1>0, <2>1
    <3>2. bill[q] \in BillRow
      BY <1>0
    <3>3. QED
      BY <2>2, <3>1, <3>2 DEF BillRow
  <2>5. QED
    BY <2>1, <2>3, <2>4
<1>4. ASSUME NEW q \in Payers, MarkPayrollPaid(q)
      PROVE  bill'[p].status = "PAID" /\ bill'[p].paid = bill[p].paid
  <2>1. /\ bill' = [bill EXCEPT ![q] = [bill[q] EXCEPT !.status = "PAID",
                                                      !.paid = 0]]
        /\ bill[q].paid = 0
    BY <1>4 DEF MarkPayrollPaid, PayUnchecked, Checked
  <2>2. 0 \in 0..MaxAmount
    BY BillingAssumption
  <2>3. p # q => bill'[p] = bill[p]
    BY <1>0, <2>1
  <2>4. bill'[q].status = "PAID" /\ bill'[q].paid = 0
    <3>1. bill'[q] = [bill[q] EXCEPT !.status = "PAID", !.paid = 0]
      BY <1>0, <2>1
    <3>2. bill[q] \in BillRow
      BY <1>0
    <3>3. QED
      BY <2>2, <3>1, <3>2 DEF BillRow
  <2>5. QED
    BY <2>1, <2>3, <2>4
<1>5. ASSUME NEW q \in Payers, UpdateSubscription(q)
      PROVE  bill'[p] = bill[p]
  BY <1>0, <1>5 DEF UpdateSubscription
<1>6. QED
  BY <1>1, <1>2, <1>3, <1>4, <1>5, OnlyTheseBill

\* A paid bill stays paid, for what was paid (the upserts of the three
\* generation runs, markAsPaid).
THEOREM PaidIsPaid == Spec => PaymentStands
<1>1. IInv /\ [Next]_vars =>
        [\A p \in Payers \ disturbed' :
           bill[p].status = "PAID" =>
             /\ bill'[p].status = "PAID"
             /\ bill'[p].paid = bill[p].paid \/ p \in Students]_vars
  BY PaidStays
<1>2. QED
  BY <1>1, BillingInvariant, PTL DEF Spec, PaymentStands

-----------------------------------------------------------------------------
(* Billed at the tariff                                                    *)

\* A run of any of the three kinds that nothing overtakes, the scheduled one
\* that fails at its log included, leaves every active payer billed at the
\* tariff of the day (generateMonthlyBills, generateBills,
\* generateMonthlyPayroll).
THEOREM TariffIsBilled == Spec => []BilledAtTariff
<1>1. IInv => BilledAtTariff
  BY DEF IInv, Current, UpToDate, BilledAtTariff
<1>2. QED
  BY <1>1, BillingInvariant, PTL
=============================================================================
