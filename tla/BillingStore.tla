---------------------------- MODULE BillingStore ----------------------------
(***************************************************************************)
(* Invoices and payments of one booking: InvoiceService, PaymentService    *)
(* and the invoice that BookingLifecycleService creates on confirmation.   *)
(*                                                                         *)
(* Bookings share nothing here, so one is enough.  Invoices and payments   *)
(* carry no concurrency token.  A handler reads rows, changes them in its  *)
(* own context (seen[w]) and saves; Update() marks every column modified,  *)
(* so the save replaces whatever was committed in between.  Drafts,        *)
(* reissues and new payments take three different advisory locks, all the  *)
(* others none.                                                            *)
(***************************************************************************)
EXTENDS Naturals, FiniteSets, FiniteSetsExt

CONSTANTS
  InvoiceIds, PaymentIds,   \* primary keys a run may insert
  Workers,                  \* requests in flight at once
  FinalAmount,              \* the booking's price, frozen once it is Booked
  Amounts,                  \* amounts a payment may have
  Adjustments,              \* amounts a manual line may have
  MaxLines,                 \* bound: no line is added to an invoice beyond it
  Traffic,                  \* the operations clients issue in a run
  None                      \* SQL NULL, a missing row, a free lock

ASSUME AmountAssumption ==
  /\ FinalAmount \in Nat /\ Amounts \subseteq Nat \ {0} /\ Adjustments \subseteq Nat
  /\ MaxLines \in Nat
ASSUME NoneAssumption == None \notin InvoiceIds \cup PaymentIds \cup Workers

VARIABLES
  booking,        \* "Booked", "Confirmed" (and later), or "Dropped"
  invoices,       \* invoices
  items,          \* per invoice, the sum of its committed invoice_items
  payments,       \* payments
  draftLock,      \* advisory lock invoice-booking:{booking}
  paymentLock,    \* advisory lock payment-booking:{booking}
  reissueLock,    \* advisory lock invoice-reissue:{invoice}
  rowLock,        \* row locks of an UPDATE inside an open transaction
  pc, ask, seen   \* per worker: next step, arguments, changed rows

tables  == <<booking, invoices, items, payments>>
locks   == <<draftLock, paymentLock, reissueLock, rowLock>>
session == <<pc, ask, seen>>
vars    == <<tables, locks, session>>

InvoiceStatus == {"draft", "issued", "paid", "cancelled", "superseded"}
PaymentStatus == {"pending", "paid", "failed", "cancelled"}

InvoiceRow == [status : InvoiceStatus, total : Nat]
PaymentRow == [status : PaymentStatus, amount : Nat, invoice : InvoiceIds \cup {None}]

ASSUME NoneIsNoRow == None \notin InvoiceRow /\ None \notin PaymentRow

Steps ==
  {"idle", "pay", "pay_insert", "save", "draft", "draft_insert", "confirm",
   "confirm_draft", "confirm_save", "reissue", "reissue_locked", "reissue_save"}

Ask == [invoice : InvoiceIds \cup {None}, amount : Nat, to : InvoiceStatus \cup {None}]
NoAsk == [invoice |-> None, amount |-> 0, to |-> None]

Tracker ==
  [invoices : [InvoiceIds -> InvoiceRow \cup {None}],
   payments : [PaymentIds -> PaymentRow \cup {None}]]
Untracked ==
  [invoices |-> [i \in InvoiceIds |-> None], payments |-> [p \in PaymentIds |-> None]]

-----------------------------------------------------------------------------
(* Queries *)

InvoiceRows == {i \in InvoiceIds : invoices[i] # None}
PaymentRows == {p \in PaymentIds : payments[p] # None}

ActiveInvoices == {i \in InvoiceRows : invoices[i].status \notin {"cancelled", "superseded"}}

InStatus(statuses) == {p \in PaymentRows : payments[p].status \in statuses}
LinkedTo(i) == {p \in PaymentRows : payments[p].invoice = i}
Sum(S) == MapThenSumSet(LAMBDA p : payments[p].amount, S)

PaidOn(i) == Sum(InStatus({"paid"}) \cap LinkedTo(i))

\* The total of the active invoice (FirstOrDefault, in no order), or else
\* the booking's final amount.
AmountsOwed ==
  IF ActiveInvoices = {} THEN {FinalAmount} ELSE {invoices[i].total : i \in ActiveInvoices}

PaidIf(covered) == IF covered THEN "paid" ELSE "issued"

-----------------------------------------------------------------------------
(* Requests *)

Begin(w, step, args) ==
  /\ pc[w] = "idle"
  /\ pc' = [pc EXCEPT ![w] = step]
  /\ ask' = [ask EXCEPT ![w] = args]

Advance(w, from, to) == pc[w] = from /\ pc' = [pc EXCEPT ![w] = to]

Free(table, w) == [k \in DOMAIN table |-> IF table[k] = w THEN None ELSE table[k]]

Finish(w) ==
  /\ pc' = [pc EXCEPT ![w] = "idle"]
  /\ ask' = [ask EXCEPT ![w] = NoAsk]
  /\ seen' = [seen EXCEPT ![w] = Untracked]
  /\ draftLock' = IF draftLock = w THEN None ELSE draftLock
  /\ paymentLock' = IF paymentLock = w THEN None ELSE paymentLock
  /\ reissueLock' = Free(reissueLock, w)
  /\ rowLock' = Free(rowLock, w)

\* Any exception, a rejected check included: nothing was written.
Abort(w) == pc[w] # "idle" /\ Finish(w) /\ UNCHANGED tables

\* Track the payments in S, each changed as row says.
TrackPayments(S, row) == [p \in PaymentIds |-> IF p \in S THEN row[p] ELSE None]
Relinked(S, i) == [p \in S |-> [payments[p] EXCEPT !.invoice = i]]

TrackInvoice(i, row) == [Untracked.invoices EXCEPT ![i] = row]

\* An UPDATE waits for the transaction that already updated the row.
RowsFree(w) == \A i \in InvoiceIds : seen[w].invoices[i] # None => rowLock[i] \in {None, w}

\* SaveChangesAsync of the handlers that only update: every changed row is
\* written back whole, and a manual line is inserted.
Save(w) ==
  /\ pc[w] = "save"
  /\ RowsFree(w)
  /\ invoices' = [i \in InvoiceIds |->
       IF seen[w].invoices[i] # None THEN seen[w].invoices[i] ELSE invoices[i]]
  /\ items' = [i \in InvoiceIds |->
       IF seen[w].invoices[i] # None THEN items[i] + ask[w].amount ELSE items[i]]
  /\ payments' = [p \in PaymentIds |->
       IF seen[w].payments[p] # None THEN seen[w].payments[p] ELSE payments[p]]
  /\ Finish(w)
  /\ UNCHANGED booking
=============================================================================
