\* An issue that read a draft before its cancellation is saved after the next draft.
CONSTANTS
  InvoiceIds = {i1, i2, i3}
  PaymentIds = {p1}
  Workers = {w1, w2}
  FinalAmount = 1
  Amounts = {1}
  Adjustments = {1}
  MaxLines = 2
  Traffic = {"draft", "issue", "cancel"}
  None = None
SPECIFICATION Spec
SYMMETRY Symmetry
INVARIANTS
  OneActiveInvoice
CHECK_DEADLOCK FALSE
