----------------------------- MODULE PaymentOps -----------------------------
(***************************************************************************)
(* PaymentService.                                                         *)
(***************************************************************************)
EXTENDS BillingStore

FinanceEligible == booking # "Dropped"

\* CreateAsync: any invoice of the booking may be named, of any status.
PayRead(w, i, a) ==
  /\ FinanceEligible
  /\ i \in InvoiceRows \cup {None}
  /\ Begin(w, "pay", [NoAsk EXCEPT !.invoice = i, !.amount = a])
  /\ UNCHANGED <<tables, locks, seen>>

\* EnsureNoOverpaymentAsync: money received or on its way.
Committed == Sum(InStatus({"paid", "pending"}))

\* Mutant: the payment lock is not taken.
PayUnlocked(w) ==
  /\ Advance(w, "pay", "pay_insert")
  /\ \E owed \in AmountsOwed : Committed + ask[w].amount <= owed
  /\ UNCHANGED <<tables, locks, ask, seen>>

PayLock(w) ==
  /\ Advance(w, "pay", "pay_insert")
  /\ paymentLock = None /\ paymentLock' = w
  /\ \E owed \in AmountsOwed : Committed + ask[w].amount <= owed
  /\ UNCHANGED <<tables, draftLock, reissueLock, rowLock, ask, seen>>

\* Mutant: the payment is recorded as received already.
PayInsertPaid(w, p) ==
  /\ pc[w] = "pay_insert"
  /\ payments[p] = None
  /\ payments' = [payments EXCEPT ![p] =
       [status |-> "received", amount |-> ask[w].amount, invoice |-> ask[w].invoice]]
  /\ Finish(w)
  /\ UNCHANGED <<booking, invoices, items>>

PayInsert(w, p) ==
  /\ pc[w] = "pay_insert"
  /\ payments[p] = None
  /\ payments' = [payments EXCEPT ![p] =
       [status |-> "pending", amount |-> ask[w].amount, invoice |-> ask[w].invoice]]
  /\ Finish(w)
  /\ UNCHANGED <<booking, invoices, items>>

\* MarkPaidAsync links an unlinked payment to the active invoice, a draft
\* included; only a cancelled or superseded link is refused.
Link(p) ==
  IF payments[p].invoice # None THEN {payments[p].invoice}
  ELSE IF ActiveInvoices = {} THEN {None} ELSE ActiveInvoices

\* Mutant: only the linked payments count against the amount owed.
PaidBesidesLinked(p) == Sum((InStatus({"paid"}) \cap LinkedTo(payments[p].invoice)) \ {p})

PaidBesides(p) == Sum(InStatus({"paid"}) \ {p})

\* The payment and, once it is covered, its invoice are saved as paid.
MarkPaidRead(w, p) ==
  /\ p \in InStatus({"pending"})
  /\ \E i \in Link(p), owed \in AmountsOwed :
       LET covered == i # None /\ PaidOn(i) + payments[p].amount >= invoices[i].total
       IN  /\ i # None => i \in ActiveInvoices
           /\ PaidBesides(p) + payments[p].amount <= owed
           /\ seen' = [seen EXCEPT ![w] =
                [payments |-> TrackPayments({p},
                   [q \in {p} |-> [payments[p] EXCEPT !.status = "paid", !.invoice = i]]),
                 invoices |-> IF covered /\ invoices[i].status # "paid"
                              THEN TrackInvoice(i, [invoices[i] EXCEPT !.status = "paid"])
                              ELSE Untracked.invoices]]
  /\ Begin(w, "save", NoAsk)
  /\ UNCHANGED <<tables, locks>>

\* MarkFailedAsync and CancelAsync.
SettleRead(w, p, status) ==
  /\ p \in InStatus({"pending"})
  /\ seen' = [seen EXCEPT ![w].payments =
       TrackPayments({p}, [q \in {p} |-> [payments[p] EXCEPT !.status = status]])]
  /\ Begin(w, "save", NoAsk)
  /\ UNCHANGED <<tables, locks>>

\* LinkPaidPaymentsToInvoicesAsync, and InvoiceService.LinkOrphanedPayments-
\* Async for payments of every status.
LinkRead(w, statuses) ==
  LET orphans == InStatus(statuses) \cap LinkedTo(None)
  IN  /\ orphans # {}
      /\ \E i \in ActiveInvoices :
           seen' = [seen EXCEPT ![w].payments = TrackPayments(orphans, Relinked(orphans, i))]
      /\ Begin(w, "save", NoAsk)
      /\ UNCHANGED <<tables, locks>>
=============================================================================
