\* A deposit of the whole price is paid before the invoice is issued.
CONSTANTS
  InvoiceIds = {i1, i2, i3}
  PaymentIds = {p1, p2}
  Workers = {w1}
  FinalAmount = 2
  Amounts = {1, 2}
  Adjustments = {1}
  MaxLines = 3
  Traffic = {"pay", "markpaid", "draft", "issue"}
  None = None
SPECIFICATION Spec
SYMMETRY Symmetry
INVARIANTS
  CoveredInvoiceIsPaid
CHECK_DEADLOCK FALSE
