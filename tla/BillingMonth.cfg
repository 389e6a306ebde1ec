SPECIFICATION Spec
CONSTANTS
  Schools = {s1, s2}
  Students = {u1}
  Staff = {t1}
  Numbers = {n1, n2}
  MaxAmount = 2
  MaxCalls = 4
  Runs = {g1, cron}
  Cron = cron
  Payments = {y1, y2}
  None = None
SYMMETRY Symmetry
INVARIANTS BilledAtTariff InvoiceTellsPayment
PROPERTY PaymentStands
CHECK_DEADLOCK FALSE
