------------------------------- MODULE Billing -------------------------------
(***************************************************************************)
(* The money of a booking: its invoices and payments under concurrent      *)
(* requests, and what their totals must agree on.                          *)
(***************************************************************************)
EXTENDS InvoiceOps

\* A booking nobody has paid for, and no request being served.
Quiet ==
  /\ booking = "Booked"
  /\ payments = [p \in PaymentIds |-> None]
  /\ draftLock = None /\ paymentLock = None
  /\ reissueLock = [i \in InvoiceIds |-> None]
  /\ rowLock = [i \in InvoiceIds |-> None]
  /\ pc = [w \in Workers |-> "idle"]
  /\ ask = [w \in Workers |-> NoAsk]
  /\ seen = [w \in Workers |-> Untracked]

Init ==
  /\ invoices = [i \in InvoiceIds |-> None]
  /\ items = [i \in InvoiceIds |-> 0]
  /\ Quiet

\* A worker takes up a request.
Request(w) ==
  \/ /\ "pay" \in Traffic
     /\ \E i \in InvoiceIds \cup {None}, a \in Amounts : PayRead(w, i, a)
  \/ "markpaid" \in Traffic /\ \E p \in PaymentIds : MarkPaidRead(w, p)
  \/ /\ "settle" \in Traffic
     /\ \E p \in PaymentIds, status \in {"failed", "cancelled"} : SettleRead(w, p, status)
  \/ "link" \in Traffic /\ \E statuses \in {PaymentStatus, {"paid"}} : LinkRead(w, statuses)
  \/ "draft" \in Traffic /\ DraftRead(w)
  \/ "confirm" \in Traffic /\ ConfirmRead(w)
  \/ "issue" \in Traffic /\ \E i \in InvoiceIds : IssueRead(w, i)
  \/ "adjust" \in Traffic /\ \E i \in InvoiceIds, a \in Adjustments : AdjustRead(w, i, a)
  \/ "cancel" \in Traffic /\ \E i \in InvoiceIds : CancelRead(w, i)
  \/ "reissue" \in Traffic /\ \E i \in InvoiceIds : ReissueRead(w, i)

\* The next step of a request being served.
Proceed(w) ==
  \/ PayLock(w) \/ \E p \in PaymentIds : PayInsert(w, p)
  \/ Save(w)
  \/ DraftLock(w) \/ \E j \in InvoiceIds : DraftInsert(w, j)
  \/ ConfirmIssue(w) \/ \E j \in InvoiceIds : ConfirmSave(w, j)
  \/ ReissueLock(w) \/ ReissueFlush(w) \/ \E j \in InvoiceIds : ReissueSave(w, j)

\* The booking's own lifecycle.
Lifecycle ==
  \/ "confirm" \in Traffic /\ ConfirmKeepsInvoice
  \/ "drop" \in Traffic /\ BookingDropped

Next ==
  \/ \E w \in Workers : Request(w) \/ Proceed(w) \/ Abort(w)
  \/ Lifecycle

Spec == Init /\ [][Next]_vars

-----------------------------------------------------------------------------
(* Properties *)

\* Every table, lock and session holds values of its type.
TypeOK ==
  /\ booking \in {"Booked", "Confirmed", "Dropped"}
  /\ invoices \in [InvoiceIds -> InvoiceRow \cup {None}]
  /\ items \in [InvoiceIds -> Nat]
  /\ payments \in [PaymentIds -> PaymentRow \cup {None}]
  /\ draftLock \in Workers \cup {None} /\ paymentLock \in Workers \cup {None}
  /\ reissueLock \in [InvoiceIds -> Workers \cup {None}]
  /\ rowLock \in [InvoiceIds -> Workers \cup {None}]
  /\ pc \in [Workers -> Steps]
  /\ ask \in [Workers -> Ask]
  /\ seen \in [Workers -> Tracker]

\* A booking has at most one active invoice: drafts, confirmations and
\* reissues of one booking hold different locks and run side by side.  The
\* unlocked handlers (issue, adjust, cancel, mark paid) can break it by
\* writing an old status back over a reissue or a cancellation.
OneActiveInvoice == \A i, j \in ActiveInvoices : i = j

\* The payment lock: whatever is recorded at once, a new payment is recorded
\* only when it fits, with those received and pending, within what the booking
\* owes by then.  (An invoice cancelled later may lower what it owes.)
RecordedWithinOwed ==
  [][(\E p \in PaymentIds : payments[p] = None /\ payments'[p] # None)
       => \A owed \in AmountsOwed : Committed' <= owed]_vars

\* "Overpayments are not allowed": what was received stays within the total of
\* the active invoice, or within the booking's price.
Receipts == Sum(InStatus({"paid"}))
PaidWithinOwed == \A owed \in AmountsOwed : Receipts <= owed

\* EnsureNoOverpaymentAsync and the check of MarkPaidAsync do their part in
\* every order of drafts, lines, cancellations, reissues and payments, and
\* when payments are recorded and marked as paid side by side: a booking
\* becomes overpaid, or more so, only when the total of an invoice falls.
OverpaidByLoweringOnly ==
  [][~PaidWithinOwed' =>
       \/ ~PaidWithinOwed /\ Receipts' = Receipts
       \/ \E i \in InvoiceRows : invoices'[i].total < invoices[i].total]_vars

\* An invoice marked as paid stays covered by the payments linked to it.
PaidInvoiceCovered ==
  \A i \in InvoiceRows : invoices[i].status = "paid" => PaidOn(i) >= invoices[i].total

\* Money received never disappears behind a dead invoice: a paid payment is
\* linked to the active invoice or to none.
PaidMoneyOnActiveInvoice ==
  \A p \in InStatus({"paid"}) : payments[p].invoice \in ActiveInvoices \cup {None}

\* An issued invoice that its linked payments cover counts as paid.
CoveredInvoiceIsPaid ==
  \A i \in InvoiceRows : invoices[i].status = "issued" => PaidOn(i) < invoices[i].total
=============================================================================
