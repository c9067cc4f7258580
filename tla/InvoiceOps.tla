----------------------------- MODULE InvoiceOps -----------------------------
(***************************************************************************)
(* InvoiceService, and the invoice made by ConfirmInternalAsync.  The lock *)
(* invoice-number-generation only serialises the numbering, which no       *)
(* property reads; it is always taken last and is left out.                *)
(***************************************************************************)
EXTENDS PaymentOps

\* A new invoice j with its lines, and the changed rows of the transaction.
InsertInvoice(w, j, status, total, lines) ==
  /\ invoices[j] = None
  /\ invoices' = [i \in InvoiceIds |->
       IF i = j THEN [status |-> status, total |-> total]
       ELSE IF seen[w].invoices[i] # None THEN seen[w].invoices[i] ELSE invoices[i]]
  /\ items' = [items EXCEPT ![j] = lines]
  /\ payments' = [p \in PaymentIds |->
       IF seen[w].payments[p] # None THEN [seen[w].payments[p] EXCEPT !.invoice = j]
       ELSE payments[p]]

-----------------------------------------------------------------------------
(* CreateDraftFromBookingAsync *)

DraftRead(w) ==
  /\ FinanceEligible
  /\ Begin(w, "draft", NoAsk)
  /\ UNCHANGED <<tables, locks, seen>>

\* Mutant: the draft lock is not taken.
DraftUnlocked(w) ==
  /\ \/ Advance(w, "draft", "draft_insert")
     \/ Advance(w, "confirm", "confirm_draft")
  /\ ActiveInvoices = {}
  /\ UNCHANGED <<tables, locks, ask, seen>>

DraftLock(w) ==
  /\ \/ Advance(w, "draft", "draft_insert")
     \/ Advance(w, "confirm", "confirm_draft")
  /\ draftLock = None /\ draftLock' = w
  /\ ActiveInvoices = {}
  /\ UNCHANGED <<tables, paymentLock, reissueLock, rowLock, ask, seen>>

DraftInsert(w, j) ==
  /\ pc[w] = "draft_insert"
  /\ InsertInvoice(w, j, "draft", FinalAmount, FinalAmount)
  /\ Finish(w)
  /\ UNCHANGED booking

-----------------------------------------------------------------------------
(* ConfirmInternalAsync: a draft, issued in the confirmation's transaction *)

\* A booking that has an invoice keeps it.
ConfirmKeepsInvoice ==
  /\ booking = "Booked" /\ ActiveInvoices # {}
  /\ booking' = "Confirmed"
  /\ UNCHANGED <<invoices, items, payments, locks, session>>

ConfirmRead(w) ==
  /\ booking = "Booked" /\ ActiveInvoices = {}
  /\ Begin(w, "confirm", NoAsk)
  /\ UNCHANGED <<tables, locks, seen>>

\* IssueAsync of the draft just inserted: its sum of linked paid payments is
\* queried before the links made here are saved, so it is 0.
ConfirmIssue(w) ==
  LET orphans == LinkedTo(None)
  IN  /\ Advance(w, "confirm_draft", "confirm_save")
      /\ ask' = [ask EXCEPT ![w].to = PaidIf(0 >= FinalAmount)]
      /\ seen' = [seen EXCEPT ![w].payments =
           TrackPayments(orphans, Relinked(orphans, None))]
      /\ UNCHANGED <<tables, locks>>

\* Commits only if no other request moved the booking (its xmin).
ConfirmSave(w, j) ==
  /\ pc[w] = "confirm_save"
  /\ booking = "Booked" /\ booking' = "Confirmed"
  /\ InsertInvoice(w, j, ask[w].to, FinalAmount, FinalAmount)
  /\ Finish(w)

\* The lifecycle drops or cancels the booking.
BookingDropped ==
  /\ booking # "Dropped" /\ booking' = "Dropped"
  /\ UNCHANGED <<invoices, items, payments, locks, session>>

-----------------------------------------------------------------------------
(* The unlocked updates: AddManualAdjustment-, Issue- and CancelAsync *)

\* AddAsync's fix-up has put the new line into InvoiceItems already when the
\* total is recalculated from InvoiceItems plus the new line.
AdjustRead(w, i, a) ==
  /\ i \in InvoiceRows /\ invoices[i].status = "draft"
  /\ items[i] + a <= MaxLines
  /\ seen' = [seen EXCEPT ![w].invoices =
       TrackInvoice(i, [invoices[i] EXCEPT !.total = items[i] + a + a])]
  /\ Begin(w, "save", [NoAsk EXCEPT !.amount = a])
  /\ UNCHANGED <<tables, locks>>

\* Links the unlinked payments; the sum is queried before the links are
\* saved, so it misses them.
IssueRead(w, i) ==
  LET orphans == LinkedTo(None)
      covered == PaidOn(i) >= invoices[i].total
  IN  /\ i \in InvoiceRows /\ invoices[i].status = "draft"
      /\ seen' = [seen EXCEPT ![w] =
           [invoices |-> TrackInvoice(i, [invoices[i] EXCEPT !.status = PaidIf(covered)]),
            payments |-> TrackPayments(orphans, Relinked(orphans, i))]]
      /\ Begin(w, "save", NoAsk)
      /\ UNCHANGED <<tables, locks>>

\* Mutant: paid payments do not keep their invoice from being cancelled.
CancelPaidRead(w, i) ==
  /\ i \in InvoiceRows /\ invoices[i].status \notin {"cancelled", "paid"}
  /\ seen' = [seen EXCEPT ![w].invoices =
       TrackInvoice(i, [invoices[i] EXCEPT !.status = "cancelled"])]
  /\ Begin(w, "save", NoAsk)
  /\ UNCHANGED <<tables, locks>>

CancelRead(w, i) ==
  /\ i \in InvoiceRows /\ invoices[i].status \notin {"cancelled", "paid"}
  /\ InStatus({"paid"}) \cap LinkedTo(i) = {}
  /\ seen' = [seen EXCEPT ![w].invoices =
       TrackInvoice(i, [invoices[i] EXCEPT !.status = "cancelled"])]
  /\ Begin(w, "save", NoAsk)
  /\ UNCHANGED <<tables, locks>>

-----------------------------------------------------------------------------
(* ReissueAsync *)

Reissuable(i) == i \in InvoiceRows /\ invoices[i].status \in {"issued", "paid"}

\* The lines are loaded here and not reloaded under the lock.
ReissueRead(w, i) ==
  /\ Reissuable(i)
  /\ Begin(w, "reissue", [NoAsk EXCEPT !.invoice = i, !.amount = items[i]])
  /\ UNCHANGED <<tables, locks, seen>>

ReissueLock(w) ==
  LET i == ask[w].invoice
  IN  /\ Advance(w, "reissue", "reissue_locked")
      /\ reissueLock[i] = None /\ reissueLock' = [reissueLock EXCEPT ![i] = w]
      /\ Reissuable(i)
      /\ seen' = [seen EXCEPT ![w].invoices =
           TrackInvoice(i, [invoices[i] EXCEPT !.status = "superseded"])]
      /\ UNCHANGED <<tables, draftLock, paymentLock, rowLock, ask>>

\* Mutant: pending payments count as received.
ReissueFlushAll(w) ==
  LET i == ask[w].invoice
      carried == LinkedTo(i) \cup LinkedTo(None)
  IN  /\ Advance(w, "reissue_locked", "reissue_save")
      /\ rowLock[i] = None /\ rowLock' = [rowLock EXCEPT ![i] = w]
      /\ seen' = [seen EXCEPT ![w].payments = TrackPayments(carried, Relinked(carried, None))]
      /\ ask' = [ask EXCEPT ![w].to = PaidIf(Sum(carried) >= seen[w].invoices[i].total)]
      /\ UNCHANGED <<tables, draftLock, paymentLock, reissueLock>>

\* The first save locks the old row; then the payments to carry over are
\* read, and their paid ones counted.
ReissueFlush(w) ==
  LET i == ask[w].invoice
      carried == LinkedTo(i) \cup LinkedTo(None)
  IN  /\ Advance(w, "reissue_locked", "reissue_save")
      /\ rowLock[i] = None /\ rowLock' = [rowLock EXCEPT ![i] = w]
      /\ seen' = [seen EXCEPT ![w].payments = TrackPayments(carried, Relinked(carried, None))]
      /\ ask' = [ask EXCEPT ![w].to =
           PaidIf(Sum(InStatus({"paid"}) \cap carried) >= seen[w].invoices[i].total)]
      /\ UNCHANGED <<tables, draftLock, paymentLock, reissueLock>>

ReissueSave(w, j) ==
  /\ pc[w] = "reissue_save"
  /\ InsertInvoice(w, j, ask[w].to, seen[w].invoices[ask[w].invoice].total, ask[w].amount)
  /\ Finish(w)
  /\ UNCHANGED booking
=============================================================================
