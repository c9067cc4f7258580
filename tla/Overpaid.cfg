\* One request at a time: payments, a draft and its manual lines.
CONSTANTS
  InvoiceIds = {k1}
  PaymentIds = {m1, m2}
  Workers = {w1}
  FinalAmount = 1
  Amounts = {1, 6}
  Adjustments = {1, 3}
  MaxLines = 5
  Traffic = {"pay", "markpaid", "draft", "adjust"}
  None = None
SPECIFICATION Spec
INVARIANTS
  PaidWithinOwed
CHECK_DEADLOCK FALSE
