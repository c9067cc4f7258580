\* A booking's money, who works on it, and the reviews of its unit.  Sets that
\* no two scenes use at once share their members, to keep the symmetry small.
CONSTANTS
  InvoiceIds = {k1, k2, k3}
  PaymentIds = {m1, m2}
  Workers = {w1, w2}
  FinalAmount = 2
  Amounts = {1, 2}
  Adjustments = {0, 1}
  MaxLines = 3
  Traffic = {"pay", "markpaid", "settle", "link", "draft", "confirm", "issue", "adjust", "cancel", "reissue", "drop"}
  Bookings = {b1}
  Leads = {l1}
  AssignmentIds = {k1, k2, k3}
  Admins = {m1, m2}
  MaxSaves = 3
  Reviews = {m1, m2}
  Ratings = {1, 2}
  None = None
SPECIFICATION BackOfficeSpec
SYMMETRY Symmetry
INVARIANTS
  TypeOK
  OneActiveInvoice
  PaidInvoiceCovered
  PaidMoneyOnActiveInvoice
  OneActiveAssignment
  AssigneeInSync
  SummaryRepaired
PROPERTIES
  RecordedWithinOwed
  OverpaidByLoweringOnly
CHECK_DEADLOCK FALSE
