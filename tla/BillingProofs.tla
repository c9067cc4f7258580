---------------------------- MODULE BillingProofs ----------------------------
(***************************************************************************)
(* What is proved of Billing:                                              *)
(*                                                                         *)
(*  - its types.  TypeOK is not inductive: an insert takes its status and  *)
(*    total from the request and from the tracked rows, so Fits says what  *)
(*    a request carries when it stands at its last step;                   *)
(*  - at most one active invoice per booking while what ends an invoice    *)
(*    overlaps with nothing else that saves its row.  An insert must know  *)
(*    that no other invoice is active (Drafting) or that it supersedes the *)
(*    only one (Reissuing), and a save that it revives none (Tracking);    *)
(*  - the payment lock.  A save replaces whole rows, so what is recorded   *)
(*    only stays within the price if every tracked row has the committed   *)
(*    amount and no row is failed or cancelled (RecordedInv);              *)
(*  - the books of one request at a time.  A request that is about to save *)
(*    must leave sound books (Serving), and these say more than the        *)
(*    properties: the next request builds on them (BookInv).               *)
(*                                                                         *)
(* What the services add up is a fold over a set.  A fold is compared with *)
(* a count, so that the theorems on finite sets apply to it (SumCounts).   *)
(***************************************************************************)
EXTENDS Billing, TLAPS, FiniteSetTheorems, WellFoundedInduction

\* What a request carries, by the step it stands at.
Fits(w) ==
  /\ pc[w] \in {"reissue", "reissue_locked", "reissue_save"} => ask[w].invoice \in InvoiceIds
  /\ pc[w] \in {"reissue_locked", "reissue_save"} =>
       seen[w].invoices[ask[w].invoice] \in InvoiceRow
  /\ pc[w] \in {"confirm_save", "reissue_save"} => ask[w].to \in {"issued", "paid"}

TypeInv == TypeOK /\ \A w \in Workers : Fits(w)

-----------------------------------------------------------------------------
(* Lemmas on rows and trackers *)

LEMMA NoneApart ==
  /\ None \notin InvoiceIds /\ None \notin PaymentIds /\ None \notin Workers
  /\ None \notin InvoiceRow /\ None \notin PaymentRow
BY NoneAssumption, NoneIsNoRow

LEMMA UntrackedTyped == Untracked \in Tracker /\ NoAsk \in Ask
BY DEF Untracked, Tracker, NoAsk, Ask

LEMMA RowTyped ==
  ASSUME TypeOK
  PROVE  /\ \A p \in PaymentRows : payments[p] \in PaymentRow
         /\ \A i \in InvoiceRows : invoices[i] \in InvoiceRow
BY DEF TypeOK, PaymentRows, InvoiceRows

\* Tracked payments keep their type whatever invoice they are linked to.
LEMMA TrackTyped ==
  ASSUME NEW S \in SUBSET PaymentIds, NEW row, \A p \in S : row[p] \in PaymentRow
  PROVE  TrackPayments(S, row) \in [PaymentIds -> PaymentRow \cup {None}]
BY DEF TrackPayments

LEMMA RelinkTyped ==
  ASSUME TypeOK, NEW S \in SUBSET PaymentRows, NEW i \in InvoiceIds \cup {None}
  PROVE  TrackPayments(S, Relinked(S, i)) \in [PaymentIds -> PaymentRow \cup {None}]
<1>1. \A p \in S : Relinked(S, i)[p] \in PaymentRow
  BY RowTyped DEF Relinked, PaymentRow
<1>2. S \in SUBSET PaymentIds
  BY DEF PaymentRows
<1> QED BY <1>1, <1>2, TrackTyped

LEMMA InvoiceTracked ==
  ASSUME NEW i \in InvoiceIds, NEW row \in InvoiceRow
  PROVE  /\ TrackInvoice(i, row) \in [InvoiceIds -> InvoiceRow \cup {None}]
         /\ TrackInvoice(i, row)[i] = row
         /\ \A j \in InvoiceIds \ {i} : TrackInvoice(i, row)[j] = None
BY DEF TrackInvoice, Untracked

LEMMA PaidIfTyped ==
  ASSUME NEW covered
  PROVE  PaidIf(covered) \in {"issued", "paid"}
BY DEF PaidIf

-----------------------------------------------------------------------------
(* Steps that every request shares *)

\* A request that ends leaves well-typed sessions and locks.
LEMMA EndTyped ==
  ASSUME TypeInv, NEW w \in Workers, Finish(w)
  PROVE  /\ pc' \in [Workers -> Steps] /\ ask' \in [Workers -> Ask]
         /\ seen' \in [Workers -> Tracker]
         /\ draftLock' \in Workers \cup {None} /\ paymentLock' \in Workers \cup {None}
         /\ reissueLock' \in [InvoiceIds -> Workers \cup {None}]
         /\ rowLock' \in [InvoiceIds -> Workers \cup {None}]
         /\ \A v \in Workers : Fits(v)'
<1>1. pc' \in [Workers -> Steps] /\ pc'[w] = "idle" /\ \A v \in Workers \ {w} : pc'[v] = pc[v]
  BY DEF Finish, TypeInv, TypeOK, Steps
<1>2. /\ ask' \in [Workers -> Ask] /\ seen' \in [Workers -> Tracker]
      /\ \A v \in Workers \ {w} : ask'[v] = ask[v] /\ seen'[v] = seen[v]
  BY UntrackedTyped DEF Finish, TypeInv, TypeOK
<1>3. /\ draftLock' \in Workers \cup {None} /\ paymentLock' \in Workers \cup {None}
      /\ reissueLock' \in [InvoiceIds -> Workers \cup {None}]
      /\ rowLock' \in [InvoiceIds -> Workers \cup {None}]
  BY DEF Finish, Free, TypeInv, TypeOK
<1>4. \A v \in Workers : Fits(v)'
  BY <1>1, <1>2 DEF Fits, TypeInv
<1> QED BY <1>1, <1>2, <1>3, <1>4

\* A request that begins or goes on, with typed arguments and tracked rows.
LEMMA StepTyped ==
  ASSUME TypeInv, NEW w \in Workers, NEW to \in Steps, NEW args \in Ask, NEW rows \in Tracker,
         pc' = [pc EXCEPT ![w] = to], ask' = [ask EXCEPT ![w] = args],
         seen' = [seen EXCEPT ![w] = rows],
         to \in {"reissue", "reissue_locked", "reissue_save"} => args.invoice \in InvoiceIds,
         to \in {"reissue_locked", "reissue_save"} => rows.invoices[args.invoice] \in InvoiceRow,
         to \in {"confirm_save", "reissue_save"} => args.to \in {"issued", "paid"}
  PROVE  /\ pc' \in [Workers -> Steps] /\ ask' \in [Workers -> Ask]
         /\ seen' \in [Workers -> Tracker]
         /\ \A v \in Workers : Fits(v)'
<1>1. /\ pc' \in [Workers -> Steps] /\ ask' \in [Workers -> Ask]
      /\ seen' \in [Workers -> Tracker]
  BY DEF TypeInv, TypeOK
<1>2. Fits(w)'
  BY DEF Fits, TypeInv, TypeOK
<1>3. ASSUME NEW v \in Workers, v # w PROVE Fits(v)'
  BY <1>3 DEF Fits, TypeInv, TypeOK
<1> QED BY <1>1, <1>2, <1>3

\* A step that changes the session only, in the same three ways.
LEMMA SessionStep ==
  ASSUME TypeInv, NEW w \in Workers, NEW to \in Steps, NEW args \in Ask, NEW rows \in Tracker,
         pc' = [pc EXCEPT ![w] = to], ask' = [ask EXCEPT ![w] = args],
         seen' = [seen EXCEPT ![w] = rows],
         to \in {"reissue", "reissue_locked", "reissue_save"} => args.invoice \in InvoiceIds,
         to \in {"reissue_locked", "reissue_save"} => rows.invoices[args.invoice] \in InvoiceRow,
         to \in {"confirm_save", "reissue_save"} => args.to \in {"issued", "paid"},
         UNCHANGED tables,
         draftLock' \in Workers \cup {None}, paymentLock' \in Workers \cup {None},
         reissueLock' \in [InvoiceIds -> Workers \cup {None}],
         rowLock' \in [InvoiceIds -> Workers \cup {None}]
  PROVE  TypeInv'
BY StepTyped DEF TypeInv, TypeOK, tables

-----------------------------------------------------------------------------
(* Payments *)

LEMMA PayTyped ==
  ASSUME TypeInv, NEW w \in Workers,
         \/ \E i \in InvoiceIds \cup {None}, a \in Amounts : PayRead(w, i, a)
         \/ PayLock(w)
         \/ \E p \in PaymentIds : PayInsert(w, p)
  PROVE  TypeInv'
<1>1. ASSUME NEW i \in InvoiceIds \cup {None}, NEW a \in Amounts, PayRead(w, i, a)
      PROVE  TypeInv'
  <2>1. [NoAsk EXCEPT !.invoice = i, !.amount = a] \in Ask
    BY AmountAssumption DEF NoAsk, Ask
  <2>2. seen' = [seen EXCEPT ![w] = seen[w]] /\ seen[w] \in Tracker
    BY <1>1 DEF PayRead, TypeInv, TypeOK
  <2> QED BY <1>1, <2>1, <2>2, SessionStep DEF PayRead, Begin, locks, Steps, TypeInv, TypeOK
<1>2. CASE PayLock(w)
  <2>1. /\ seen' = [seen EXCEPT ![w] = seen[w]] /\ seen[w] \in Tracker
        /\ ask' = [ask EXCEPT ![w] = ask[w]] /\ ask[w] \in Ask
    BY <1>2 DEF PayLock, TypeInv, TypeOK
  <2>2. /\ pc' = [pc EXCEPT ![w] = "pay_insert"] /\ UNCHANGED tables
        /\ paymentLock' = w /\ UNCHANGED <<draftLock, reissueLock, rowLock>>
    BY <1>2 DEF PayLock, Advance, tables
  <2> QED BY <2>1, <2>2, SessionStep DEF Steps, TypeInv, TypeOK
<1>3. ASSUME NEW p \in PaymentIds, PayInsert(w, p) PROVE TypeInv'
  <2>1. [status |-> "pending", amount |-> ask[w].amount, invoice |-> ask[w].invoice] \in PaymentRow
    BY DEF TypeInv, TypeOK, Ask, PaymentRow, PaymentStatus
  <2>2. payments' \in [PaymentIds -> PaymentRow \cup {None}]
    BY <1>3, <2>1 DEF PayInsert, TypeInv, TypeOK
  <2> QED BY <1>3, <2>2, EndTyped DEF PayInsert, TypeInv, TypeOK
<1> QED BY <1>1, <1>2, <1>3

LEMMA PaymentReadTyped ==
  ASSUME TypeInv, NEW w \in Workers,
         \/ \E p \in PaymentIds : MarkPaidRead(w, p)
         \/ \E p \in PaymentIds, status \in {"failed", "cancelled"} : SettleRead(w, p, status)
         \/ \E statuses \in {PaymentStatus, {"paid"}} : LinkRead(w, statuses)
  PROVE  TypeInv'
<1>1. ASSUME NEW p \in PaymentIds, MarkPaidRead(w, p) PROVE TypeInv'
  <2>1. PICK i \in Link(p) :
          LET covered == i # None /\ PaidOn(i) + payments[p].amount >= invoices[i].total
          IN  /\ i # None => i \in ActiveInvoices
              /\ seen' = [seen EXCEPT ![w] =
                   [payments |-> TrackPayments({p},
                      [q \in {p} |-> [payments[p] EXCEPT !.status = "paid", !.invoice = i]]),
                    invoices |-> IF covered /\ invoices[i].status # "paid"
                                 THEN TrackInvoice(i, [invoices[i] EXCEPT !.status = "paid"])
                                 ELSE Untracked.invoices]]
    BY <1>1 DEF MarkPaidRead
  <2>2. p \in PaymentRows /\ payments[p] \in PaymentRow
    BY <1>1, RowTyped DEF MarkPaidRead, InStatus, TypeInv
  <2>3. i \in InvoiceIds \cup {None} /\ (i # None => invoices[i] \in InvoiceRow)
    BY <2>1, RowTyped DEF ActiveInvoices, InvoiceRows, TypeInv
  <2> DEFINE paid == TrackPayments({p}, [q \in {p} |-> [payments[p] EXCEPT !.status = "paid", !.invoice = i]])
             covered == i # None /\ PaidOn(i) + payments[p].amount >= invoices[i].total
             row == [invoices[i] EXCEPT !.status = "paid"]
             marked == IF covered /\ invoices[i].status # "paid" THEN TrackInvoice(i, row)
                       ELSE Untracked.invoices
  <2>4. paid \in [PaymentIds -> PaymentRow \cup {None}]
    BY <2>2, <2>3 DEF TrackPayments, PaymentRow, PaymentStatus
  <2>5. i # None => row \in InvoiceRow
    BY <2>3 DEF InvoiceRow, InvoiceStatus
  <2>6. marked \in [InvoiceIds -> InvoiceRow \cup {None}]
    <3> HIDE DEF row
    <3> QED BY <2>3, <2>5, InvoiceTracked, UntrackedTyped DEF Tracker
  <2>7. [payments |-> paid, invoices |-> marked] \in Tracker
    <3> HIDE DEF paid, marked
    <3> QED BY <2>4, <2>6 DEF Tracker
  <2>8. seen' = [seen EXCEPT ![w] = [payments |-> paid, invoices |-> marked]]
    BY <2>1
  <2> HIDE DEF paid, marked
  <2> QED BY <1>1, <2>7, <2>8, SessionStep, UntrackedTyped
          DEF MarkPaidRead, Begin, locks, Steps, TypeInv, TypeOK
<1>2. ASSUME NEW p \in PaymentIds, NEW status \in {"failed", "cancelled"}, SettleRead(w, p, status)
      PROVE  TypeInv'
  <2> DEFINE row == [q \in {p} |-> [payments[p] EXCEPT !.status = status]]
             rows == [seen[w] EXCEPT !.payments = TrackPayments({p}, row)]
  <2>1. p \in PaymentRows /\ payments[p] \in PaymentRow
    BY <1>2, RowTyped DEF SettleRead, InStatus, TypeInv
  <2>2. TrackPayments({p}, row) \in [PaymentIds -> PaymentRow \cup {None}]
    BY <2>1 DEF TrackPayments, PaymentRow, PaymentStatus
  <2>3. rows \in Tracker
    BY <2>2 DEF Tracker, TypeInv, TypeOK
  <2>4. seen' = [seen EXCEPT ![w] = rows]
    BY <1>2 DEF SettleRead, TypeInv, TypeOK
  <2> HIDE DEF rows
  <2> QED BY <1>2, <2>3, <2>4, SessionStep, UntrackedTyped
          DEF SettleRead, Begin, locks, Steps, TypeInv, TypeOK
<1>3. ASSUME NEW statuses, LinkRead(w, statuses) PROVE TypeInv'
  <2> DEFINE orphans == InStatus(statuses) \cap LinkedTo(None)
  <2>1. PICK i \in ActiveInvoices :
          seen' = [seen EXCEPT ![w].payments = TrackPayments(orphans, Relinked(orphans, i))]
    BY <1>3 DEF LinkRead
  <2> DEFINE rows == [seen[w] EXCEPT !.payments = TrackPayments(orphans, Relinked(orphans, i))]
  <2>2. orphans \in SUBSET PaymentRows /\ i \in InvoiceIds \cup {None}
    BY DEF InStatus, ActiveInvoices, InvoiceRows
  <2>3. TrackPayments(orphans, Relinked(orphans, i)) \in [PaymentIds -> PaymentRow \cup {None}]
    <3> HIDE DEF orphans
    <3> QED BY <2>2, RelinkTyped DEF TypeInv
  <2>4. rows \in Tracker
    <3> HIDE DEF orphans
    <3> QED BY <2>3 DEF Tracker, TypeInv, TypeOK
  <2>5. seen' = [seen EXCEPT ![w] = rows]
    BY <2>1 DEF TypeInv, TypeOK
  <2> HIDE DEF rows
  <2> QED BY <1>3, <2>4, <2>5, SessionStep, UntrackedTyped
          DEF LinkRead, Begin, locks, Steps, TypeInv, TypeOK
<1> QED BY <1>1, <1>2, <1>3

LEMMA SaveTyped ==
  ASSUME TypeInv, NEW w \in Workers, Save(w)
  PROVE  TypeInv'
<1>1. /\ seen[w].invoices \in [InvoiceIds -> InvoiceRow \cup {None}]
      /\ seen[w].payments \in [PaymentIds -> PaymentRow \cup {None}]
      /\ ask[w].amount \in Nat
  BY DEF TypeInv, TypeOK, Tracker, Ask
<1>2. /\ invoices' \in [InvoiceIds -> InvoiceRow \cup {None}]
      /\ payments' \in [PaymentIds -> PaymentRow \cup {None}]
  BY <1>1 DEF Save, TypeInv, TypeOK
<1>3. items' \in [InvoiceIds -> Nat]
  BY <1>1 DEF Save, TypeInv, TypeOK
<1> QED BY <1>2, <1>3, EndTyped DEF Save, TypeInv, TypeOK

-----------------------------------------------------------------------------
(* Invoices *)

LEMMA InsertTyped ==
  ASSUME TypeInv, NEW w \in Workers, NEW j \in InvoiceIds,
         NEW status \in InvoiceStatus, NEW total \in Nat, NEW lines \in Nat,
         InsertInvoice(w, j, status, total, lines)
  PROVE  /\ invoices' \in [InvoiceIds -> InvoiceRow \cup {None}]
         /\ items' \in [InvoiceIds -> Nat]
         /\ payments' \in [PaymentIds -> PaymentRow \cup {None}]
<1>1. /\ seen[w].invoices \in [InvoiceIds -> InvoiceRow \cup {None}]
      /\ seen[w].payments \in [PaymentIds -> PaymentRow \cup {None}]
  BY DEF TypeInv, TypeOK, Tracker
<1>2. [status |-> status, total |-> total] \in InvoiceRow
  BY DEF InvoiceRow
<1>3. invoices' \in [InvoiceIds -> InvoiceRow \cup {None}]
  BY <1>1, <1>2 DEF InsertInvoice, TypeInv, TypeOK
<1>4. items' \in [InvoiceIds -> Nat]
  BY DEF InsertInvoice, TypeInv, TypeOK
<1>5. \A p \in PaymentIds : seen[w].payments[p] # None =>
        [seen[w].payments[p] EXCEPT !.invoice = j] \in PaymentRow
  BY <1>1 DEF PaymentRow
<1>6. payments' \in [PaymentIds -> PaymentRow \cup {None}]
  BY <1>5 DEF InsertInvoice, TypeInv, TypeOK
<1> QED BY <1>3, <1>4, <1>6

LEMMA DraftTyped ==
  ASSUME TypeInv, NEW w \in Workers,
         \/ DraftRead(w) \/ ConfirmRead(w) \/ DraftLock(w)
         \/ \E j \in InvoiceIds : DraftInsert(w, j)
  PROVE  TypeInv'
<1>0. /\ seen[w] \in Tracker /\ ask[w] \in Ask
      /\ seen' = seen => seen' = [seen EXCEPT ![w] = seen[w]]
      /\ ask' = ask => ask' = [ask EXCEPT ![w] = ask[w]]
  BY DEF TypeInv, TypeOK
<1>1. CASE DraftRead(w)
  BY <1>0, <1>1, SessionStep, UntrackedTyped
     DEF DraftRead, Begin, locks, Steps, TypeInv, TypeOK
<1>2. CASE ConfirmRead(w)
  BY <1>0, <1>2, SessionStep, UntrackedTyped
     DEF ConfirmRead, Begin, locks, Steps, TypeInv, TypeOK
<1>3. CASE DraftLock(w)
  <2>1. PICK to \in {"draft_insert", "confirm_draft"} : pc' = [pc EXCEPT ![w] = to]
    BY <1>3 DEF DraftLock, Advance
  <2>2. draftLock' = w /\ UNCHANGED <<tables, paymentLock, reissueLock, rowLock, ask, seen>>
    BY <1>3 DEF DraftLock
  <2>3. to \in Steps /\ to \notin {"reissue", "reissue_locked", "reissue_save", "confirm_save"}
    BY DEF Steps
  <2>4. /\ seen' = [seen EXCEPT ![w] = seen[w]] /\ ask' = [ask EXCEPT ![w] = ask[w]]
        /\ UNCHANGED tables
    BY <1>0, <2>2
  <2>5. /\ draftLock' \in Workers \cup {None} /\ paymentLock' \in Workers \cup {None}
        /\ reissueLock' \in [InvoiceIds -> Workers \cup {None}]
        /\ rowLock' \in [InvoiceIds -> Workers \cup {None}]
    BY <2>2 DEF TypeInv, TypeOK
  <2> QED BY <1>0, <2>1, <2>3, <2>4, <2>5, SessionStep
<1>4. ASSUME NEW j \in InvoiceIds, DraftInsert(w, j) PROVE TypeInv'
  <2>1. /\ invoices' \in [InvoiceIds -> InvoiceRow \cup {None}]
        /\ items' \in [InvoiceIds -> Nat]
        /\ payments' \in [PaymentIds -> PaymentRow \cup {None}]
    BY <1>4, InsertTyped, AmountAssumption DEF DraftInsert, InvoiceStatus
  <2> QED BY <1>4, <2>1, EndTyped DEF DraftInsert, TypeInv, TypeOK
<1> QED BY <1>1, <1>2, <1>3, <1>4

LEMMA ConfirmTyped ==
  ASSUME TypeInv, NEW w \in Workers,
         ConfirmIssue(w) \/ \E j \in InvoiceIds : ConfirmSave(w, j)
  PROVE  TypeInv'
<1>1. CASE ConfirmIssue(w)
  <2> DEFINE orphans == LinkedTo(None)
             rows == [seen[w] EXCEPT !.payments = TrackPayments(orphans, Relinked(orphans, None))]
             args == [ask[w] EXCEPT !.to = PaidIf(0 >= FinalAmount)]
  <2>1. TrackPayments(orphans, Relinked(orphans, None)) \in [PaymentIds -> PaymentRow \cup {None}]
    <3>1. orphans \in SUBSET PaymentRows
      BY DEF LinkedTo
    <3> HIDE DEF orphans
    <3> QED BY <3>1, RelinkTyped DEF TypeInv
  <2>2. rows \in Tracker
    <3> HIDE DEF orphans
    <3> QED BY <2>1 DEF Tracker, TypeInv, TypeOK
  <2>3. args \in Ask /\ args.to \in {"issued", "paid"}
    BY PaidIfTyped DEF Ask, InvoiceStatus, TypeInv, TypeOK
  <2>4. /\ seen' = [seen EXCEPT ![w] = rows] /\ ask' = [ask EXCEPT ![w] = args]
        /\ pc' = [pc EXCEPT ![w] = "confirm_save"] /\ UNCHANGED <<tables, locks>>
    BY <1>1 DEF ConfirmIssue, Advance, TypeInv, TypeOK
  <2> HIDE DEF rows, args
  <2> QED BY <2>2, <2>3, <2>4, SessionStep DEF locks, Steps, TypeInv, TypeOK
<1>2. ASSUME NEW j \in InvoiceIds, ConfirmSave(w, j) PROVE TypeInv'
  <2>1. ask[w].to \in InvoiceStatus
    BY <1>2 DEF ConfirmSave, Fits, TypeInv, InvoiceStatus
  <2>2. /\ invoices' \in [InvoiceIds -> InvoiceRow \cup {None}]
        /\ items' \in [InvoiceIds -> Nat]
        /\ payments' \in [PaymentIds -> PaymentRow \cup {None}]
    BY <1>2, <2>1, InsertTyped, AmountAssumption DEF ConfirmSave
  <2> QED BY <1>2, <2>2, EndTyped DEF ConfirmSave, TypeInv, TypeOK
<1> QED BY <1>1, <1>2

LEMMA UnlockedReadTyped ==
  ASSUME TypeInv, NEW w \in Workers, NEW i \in InvoiceIds,
         \/ \E a \in Adjustments : AdjustRead(w, i, a)
         \/ IssueRead(w, i)
         \/ CancelRead(w, i)
  PROVE  TypeInv'
<1>1. i \in InvoiceRows /\ invoices[i] \in InvoiceRow /\ items[i] \in Nat
  BY RowTyped DEF AdjustRead, IssueRead, CancelRead, TypeInv, TypeOK
<1>2. ASSUME NEW a \in Adjustments, AdjustRead(w, i, a) PROVE TypeInv'
  <2> DEFINE row == [invoices[i] EXCEPT !.total = items[i] + a + a]
             rows == [seen[w] EXCEPT !.invoices = TrackInvoice(i, row)]
  <2>1. a \in Nat
    BY AmountAssumption
  <2>2. row \in InvoiceRow
    BY <1>1, <2>1 DEF InvoiceRow
  <2>3. rows \in Tracker
    <3>1. TrackInvoice(i, row) \in [InvoiceIds -> InvoiceRow \cup {None}]
      <4> HIDE DEF row
      <4> QED BY <2>2, InvoiceTracked
    <3> HIDE DEF row
    <3> QED BY <3>1 DEF Tracker, TypeInv, TypeOK
  <2>4. seen' = [seen EXCEPT ![w] = rows]
    BY <1>2 DEF AdjustRead, TypeInv, TypeOK
  <2>5. [NoAsk EXCEPT !.amount = a] \in Ask
    BY <2>1 DEF NoAsk, Ask
  <2> HIDE DEF rows
  <2> QED BY <1>2, <2>3, <2>4, <2>5, SessionStep
          DEF AdjustRead, Begin, locks, Steps, TypeInv, TypeOK
<1>3. CASE IssueRead(w, i)
  <2> DEFINE orphans == LinkedTo(None)
             row == [invoices[i] EXCEPT !.status = PaidIf(PaidOn(i) >= invoices[i].total)]
             rows == [invoices |-> TrackInvoice(i, row),
                      payments |-> TrackPayments(orphans, Relinked(orphans, i))]
  <2>1. row \in InvoiceRow
    BY <1>1, PaidIfTyped DEF InvoiceRow, InvoiceStatus
  <2>2. TrackPayments(orphans, Relinked(orphans, i)) \in [PaymentIds -> PaymentRow \cup {None}]
    <3>1. orphans \in SUBSET PaymentRows
      BY DEF LinkedTo
    <3> HIDE DEF orphans
    <3> QED BY <3>1, RelinkTyped DEF TypeInv
  <2>3. rows \in Tracker
    <3> HIDE DEF row, orphans
    <3> QED BY <2>1, <2>2, InvoiceTracked DEF Tracker
  <2>4. seen' = [seen EXCEPT ![w] = rows]
    BY <1>3 DEF IssueRead
  <2> HIDE DEF rows
  <2> QED BY <1>3, <2>3, <2>4, SessionStep, UntrackedTyped
          DEF IssueRead, Begin, locks, Steps, TypeInv, TypeOK
<1>4. CASE CancelRead(w, i)
  <2> DEFINE row == [invoices[i] EXCEPT !.status = "cancelled"]
             rows == [seen[w] EXCEPT !.invoices = TrackInvoice(i, row)]
  <2>1. row \in InvoiceRow
    BY <1>1 DEF InvoiceRow, InvoiceStatus
  <2>2. rows \in Tracker
    <3>1. TrackInvoice(i, row) \in [InvoiceIds -> InvoiceRow \cup {None}]
      <4> HIDE DEF row
      <4> QED BY <2>1, InvoiceTracked
    <3> HIDE DEF row
    <3> QED BY <3>1 DEF Tracker, TypeInv, TypeOK
  <2>3. seen' = [seen EXCEPT ![w] = rows]
    BY <1>4 DEF CancelRead, TypeInv, TypeOK
  <2> HIDE DEF rows
  <2> QED BY <1>4, <2>2, <2>3, SessionStep, UntrackedTyped
          DEF CancelRead, Begin, locks, Steps, TypeInv, TypeOK
<1> QED BY <1>2, <1>3, <1>4

LEMMA ReissueTyped ==
  ASSUME TypeInv, NEW w \in Workers,
         \/ \E i \in InvoiceIds : ReissueRead(w, i)
         \/ ReissueLock(w)
         \/ ReissueFlush(w)
         \/ \E j \in InvoiceIds : ReissueSave(w, j)
  PROVE  TypeInv'
<1>0. seen[w] \in Tracker /\ ask[w] \in Ask
  BY DEF TypeInv, TypeOK
<1>1. ASSUME NEW i \in InvoiceIds, ReissueRead(w, i) PROVE TypeInv'
  <2> DEFINE args == [NoAsk EXCEPT !.invoice = i, !.amount = items[i]]
  <2>1. args \in Ask /\ args.invoice = i
    BY DEF NoAsk, Ask, TypeInv, TypeOK
  <2>2. seen' = [seen EXCEPT ![w] = seen[w]]
    BY <1>1 DEF ReissueRead, TypeInv, TypeOK
  <2>3. /\ pc' = [pc EXCEPT ![w] = "reissue"] /\ ask' = [ask EXCEPT ![w] = args]
        /\ UNCHANGED <<tables, locks>>
    BY <1>1 DEF ReissueRead, Begin
  <2> HIDE DEF args
  <2> QED BY <1>0, <2>1, <2>2, <2>3, SessionStep DEF locks, Steps, TypeInv, TypeOK
<1>2. CASE ReissueLock(w)
  <2> DEFINE i == ask[w].invoice
             row == [invoices[i] EXCEPT !.status = "superseded"]
             rows == [seen[w] EXCEPT !.invoices = TrackInvoice(i, row)]
  <2>1. i \in InvoiceIds /\ invoices[i] \in InvoiceRow
    BY <1>2, RowTyped DEF ReissueLock, Reissuable, InvoiceRows, TypeInv
  <2>2. row \in InvoiceRow
    BY <2>1 DEF InvoiceRow, InvoiceStatus
  <2>3. /\ TrackInvoice(i, row) \in [InvoiceIds -> InvoiceRow \cup {None}]
        /\ TrackInvoice(i, row)[i] \in InvoiceRow
    <3> HIDE DEF row, i
    <3> QED BY <2>1, <2>2, InvoiceTracked
  <2>4. rows \in Tracker /\ rows.invoices[i] \in InvoiceRow
    <3> HIDE DEF row, i
    <3> QED BY <1>0, <2>3 DEF Tracker
  <2>5. /\ seen' = [seen EXCEPT ![w] = rows] /\ ask' = [ask EXCEPT ![w] = ask[w]]
        /\ pc' = [pc EXCEPT ![w] = "reissue_locked"] /\ UNCHANGED tables
    BY <1>2 DEF ReissueLock, Advance, TypeInv, TypeOK, tables
  <2>6. /\ draftLock' \in Workers \cup {None} /\ paymentLock' \in Workers \cup {None}
        /\ reissueLock' \in [InvoiceIds -> Workers \cup {None}]
        /\ rowLock' \in [InvoiceIds -> Workers \cup {None}]
    BY <1>2 DEF ReissueLock, TypeInv, TypeOK
  <2> HIDE DEF rows
  <2> QED BY <1>0, <2>1, <2>4, <2>5, <2>6, SessionStep DEF Steps
<1>3. CASE ReissueFlush(w)
  <2> DEFINE i == ask[w].invoice
             carried == LinkedTo(i) \cup LinkedTo(None)
             rows == [seen[w] EXCEPT !.payments = TrackPayments(carried, Relinked(carried, None))]
  <2>1. i \in InvoiceIds /\ seen[w].invoices[i] \in InvoiceRow
    BY <1>3 DEF ReissueFlush, Advance, Fits, TypeInv
  <2>2. TrackPayments(carried, Relinked(carried, None)) \in [PaymentIds -> PaymentRow \cup {None}]
    <3>1. carried \in SUBSET PaymentRows
      BY DEF LinkedTo
    <3> HIDE DEF carried
    <3> QED BY <3>1, RelinkTyped DEF TypeInv
  <2>3. rows \in Tracker /\ rows.invoices[i] \in InvoiceRow
    <3> HIDE DEF carried, i
    <3> QED BY <1>0, <2>1, <2>2 DEF Tracker
  <2>4. seen' = [seen EXCEPT ![w] = rows]
    BY <1>3 DEF ReissueFlush, TypeInv, TypeOK
  <2>5. PICK to \in {"issued", "paid"} : ask' = [ask EXCEPT ![w] = [ask[w] EXCEPT !.to = to]]
    BY <1>3, PaidIfTyped DEF ReissueFlush, TypeInv, TypeOK
  <2> DEFINE args == [ask[w] EXCEPT !.to = to]
  <2>6. args \in Ask /\ args.to = to /\ args.invoice = i
    BY <1>0 DEF Ask, InvoiceStatus
  <2>7. /\ pc' = [pc EXCEPT ![w] = "reissue_save"] /\ UNCHANGED tables
        /\ draftLock' \in Workers \cup {None} /\ paymentLock' \in Workers \cup {None}
        /\ reissueLock' \in [InvoiceIds -> Workers \cup {None}]
        /\ rowLock' \in [InvoiceIds -> Workers \cup {None}]
    BY <1>3 DEF ReissueFlush, Advance, TypeInv, TypeOK, tables
  <2>8. ask' = [ask EXCEPT ![w] = args]
    BY <2>5
  <2> HIDE DEF rows, args
  <2> QED BY <2>1, <2>3, <2>4, <2>6, <2>7, <2>8, SessionStep DEF Steps
<1>4. ASSUME NEW j \in InvoiceIds, ReissueSave(w, j) PROVE TypeInv'
  <2> DEFINE i == ask[w].invoice
  <2>1. /\ i \in InvoiceIds /\ seen[w].invoices[i] \in InvoiceRow
        /\ ask[w].to \in {"issued", "paid"} /\ ask[w].amount \in Nat
    BY <1>0, <1>4 DEF ReissueSave, Fits, TypeInv, Ask
  <2>2. seen[w].invoices[i].total \in Nat /\ ask[w].to \in InvoiceStatus
    BY <2>1 DEF InvoiceRow, InvoiceStatus
  <2>3. /\ invoices' \in [InvoiceIds -> InvoiceRow \cup {None}]
        /\ items' \in [InvoiceIds -> Nat]
        /\ payments' \in [PaymentIds -> PaymentRow \cup {None}]
    BY <1>4, <2>1, <2>2, InsertTyped DEF ReissueSave
  <2> QED BY <1>4, <2>3, EndTyped DEF ReissueSave, TypeInv, TypeOK
<1> QED BY <1>1, <1>2, <1>3, <1>4

-----------------------------------------------------------------------------
(* The theorem *)

LEMMA InitTyped == Init => TypeInv
<1> SUFFICES ASSUME Init PROVE TypeInv
  OBVIOUS
<1>1. TypeOK
  BY UntrackedTyped, AmountAssumption DEF Init, Quiet, TypeOK, Steps
<1>2. \A w \in Workers : Fits(w)
  BY DEF Init, Quiet, Fits
<1> QED BY <1>1, <1>2 DEF TypeInv

LEMMA StepKeepsTypes == TypeInv /\ [Next]_vars => TypeInv'
<1> SUFFICES ASSUME TypeInv, [Next]_vars PROVE TypeInv'
  OBVIOUS
<1>1. ASSUME NEW w \in Workers, Request(w) PROVE TypeInv'
  BY <1>1, PayTyped, PaymentReadTyped, DraftTyped, UnlockedReadTyped, ReissueTyped DEF Request
<1>2. ASSUME NEW w \in Workers, Proceed(w) PROVE TypeInv'
  BY <1>2, PayTyped, SaveTyped, DraftTyped, ConfirmTyped, ReissueTyped DEF Proceed
<1>3. ASSUME NEW w \in Workers, Abort(w) PROVE TypeInv'
  BY <1>3, EndTyped DEF Abort, tables, TypeInv, TypeOK
<1>4. CASE Lifecycle
  BY <1>4 DEF Lifecycle, ConfirmKeepsInvoice, BookingDropped, locks, session, TypeInv, TypeOK, Fits
<1>5. CASE UNCHANGED vars
  BY <1>5 DEF vars, tables, locks, session, TypeInv, TypeOK, Fits
<1> QED BY <1>1, <1>2, <1>3, <1>4, <1>5 DEF Next

\* Every reachable state of Billing is well typed, whatever the ids, amounts
\* and workers: no save of tracked rows, reissue or confirmation stores a
\* status or a total that InvoiceService and PaymentService never write.
THEOREM BillingTypeCorrect == Spec => []TypeOK
<1>1. TypeInv => TypeOK
  BY DEF TypeInv
<1> QED BY <1>1, InitTyped, StepKeepsTypes, PTL DEF Spec

-----------------------------------------------------------------------------
(* At most one active invoice *)

\* The two operations that end an invoice overlap with no other that saves
\* the row of one: a cancellation with none, a reissue only with manual lines,
\* which are for drafts.
OrderlyTraffic ==
  /\ "cancel" \in Traffic => Traffic \cap {"reissue", "markpaid", "issue", "adjust"} = {}
  /\ "reissue" \in Traffic => Traffic \cap {"markpaid", "issue"} = {}

\* A draft to be inserted: its worker holds the lock, and none is active.
Drafting(w) ==
  pc[w] \in {"draft_insert", "confirm_draft", "confirm_save"} =>
    draftLock = w /\ ActiveInvoices = {}

\* An invoice being superseded: it is still the active one, its lock is
\* held, and no other row is to be written.
Reissuing(w) ==
  /\ pc[w] \in {"reissue", "reissue_locked", "reissue_save"} => "reissue" \in Traffic
  /\ pc[w] \in {"reissue_locked", "reissue_save"} =>
    LET i == ask[w].invoice
    IN  /\ Reissuable(i) /\ reissueLock[i] = w
        /\ seen[w].invoices[i] # None /\ seen[w].invoices[i].status = "superseded"
        /\ \A j \in InvoiceIds \ {i} : seen[w].invoices[j] = None

\* A row that may replace that of invoice i at any time: it ends i, or i is
\* active anyway and stays so, and where invoices are reissued both are drafts.
Harmless(i, row) ==
  IF "cancel" \in Traffic THEN row.status = "cancelled"
  ELSE /\ i \in ActiveInvoices /\ row.status \notin {"cancelled", "superseded"}
       /\ "reissue" \in Traffic => row.status = "draft" /\ invoices[i].status = "draft"

\* The unlocked saves are harmless; nobody else but a reissue tracks an
\* invoice.
Tracking(w) ==
  /\ pc[w] \notin {"save", "reissue_locked", "reissue_save"} =>
       \A i \in InvoiceIds : seen[w].invoices[i] = None
  /\ pc[w] = "save" =>
       \A i \in InvoiceIds :
         seen[w].invoices[i] # None => Harmless(i, seen[w].invoices[i])

Kept(w) == Drafting(w) /\ Reissuing(w) /\ Tracking(w)

InvoiceInv == OneActiveInvoice /\ \A w \in Workers : Kept(w)

-----------------------------------------------------------------------------
(* Steps that leave the invoices alone *)

LEMMA ReissuableIsActive ==
  ASSUME NEW i \in InvoiceIds, Reissuable(i)
  PROVE  i \in ActiveInvoices
BY DEF Reissuable, ActiveInvoices

\* A step of w that keeps the invoices and the locks of the others.
LEMMA InvoicesKept ==
  ASSUME InvoiceInv, NEW w \in Workers, UNCHANGED invoices, Kept(w)',
         \A v \in Workers \ {w} :
           /\ pc'[v] = pc[v] /\ ask'[v] = ask[v] /\ seen'[v] = seen[v]
           /\ draftLock = v => draftLock' = v
           /\ \A i \in InvoiceIds : reissueLock[i] = v => reissueLock'[i] = v
  PROVE  InvoiceInv'
<1>1. ActiveInvoices' = ActiveInvoices /\ \A i : Reissuable(i)' = Reissuable(i)
  BY DEF ActiveInvoices, Reissuable, InvoiceRows
<1>2. OneActiveInvoice'
  BY <1>1 DEF InvoiceInv, OneActiveInvoice
<1>3. ASSUME NEW v \in Workers, v # w PROVE Kept(v)'
  <2>1. Drafting(v)'
    BY <1>1, <1>3 DEF InvoiceInv, Kept, Drafting
  <2>2. Reissuing(v)'
    BY <1>1, <1>3 DEF InvoiceInv, Kept, Reissuing, Reissuable, InvoiceRows
  <2>3. Tracking(v)'
    BY <1>1, <1>3 DEF InvoiceInv, Kept, Tracking, Harmless
  <2> QED BY <2>1, <2>2, <2>3 DEF Kept
<1> QED BY <1>2, <1>3 DEF InvoiceInv, Kept

\* A request that ends drops what it tracked and its own locks only.
LEMMA EndKept ==
  ASSUME TypeInv, NEW w \in Workers, Finish(w)
  PROVE  /\ Kept(w)'
         /\ \A v \in Workers \ {w} :
              /\ pc'[v] = pc[v] /\ ask'[v] = ask[v] /\ seen'[v] = seen[v]
              /\ draftLock = v => draftLock' = v
              /\ \A i \in InvoiceIds : reissueLock[i] = v => reissueLock'[i] = v
<1>1. pc'[w] = "idle" /\ seen'[w] = Untracked
  BY DEF Finish, TypeInv, TypeOK
<1>2. \A v \in Workers \ {w} : pc'[v] = pc[v] /\ ask'[v] = ask[v] /\ seen'[v] = seen[v]
  BY DEF Finish, TypeInv, TypeOK
<1>3. \A v \in Workers \ {w} :
        /\ draftLock = v => draftLock' = v
        /\ \A i \in InvoiceIds : reissueLock[i] = v => reissueLock'[i] = v
  BY DEF Finish, Free, TypeInv, TypeOK
<1>4. Kept(w)'
  BY <1>1 DEF Kept, Drafting, Reissuing, Tracking, Untracked
<1> QED BY <1>2, <1>3, <1>4

\* A request that goes on without an invoice lock or a tracked invoice.
LEMMA StepKept ==
  ASSUME TypeInv, InvoiceInv, NEW w \in Workers,
         NEW to \in {"pay", "pay_insert", "save", "draft", "confirm", "reissue"},
         to = "reissue" => "reissue" \in Traffic,
         pc' = [pc EXCEPT ![w] = to],
         \A v \in Workers \ {w} : ask'[v] = ask[v] /\ seen'[v] = seen[v],
         \A i \in InvoiceIds : seen'[w].invoices[i] = None,
         UNCHANGED <<invoices, draftLock, reissueLock>>
  PROVE  InvoiceInv'
<1>1. pc'[w] = to /\ \A v \in Workers \ {w} : pc'[v] = pc[v]
  BY DEF TypeInv, TypeOK
<1>2. Kept(w)'
  BY <1>1 DEF Kept, Drafting, Reissuing, Tracking
<1> QED BY <1>1, <1>2, InvoicesKept

-----------------------------------------------------------------------------
(* The steps *)

LEMMA PaymentKept ==
  ASSUME TypeInv, InvoiceInv, NEW w \in Workers,
         \/ \E i \in InvoiceIds \cup {None}, a \in Amounts : PayRead(w, i, a)
         \/ PayLock(w)
         \/ \E p \in PaymentIds : PayInsert(w, p)
         \/ \E p \in PaymentIds, status \in {"failed", "cancelled"} : SettleRead(w, p, status)
         \/ \E statuses \in {PaymentStatus, {"paid"}} : LinkRead(w, statuses)
  PROVE  InvoiceInv'
<1>0. pc[w] \notin {"save", "reissue_locked", "reissue_save"} =>
        \A i \in InvoiceIds : seen[w].invoices[i] = None
  BY DEF InvoiceInv, Kept, Tracking
<1>1. ASSUME NEW i \in InvoiceIds \cup {None}, NEW a \in Amounts, PayRead(w, i, a)
      PROVE  InvoiceInv'
  <2>1. /\ pc[w] = "idle" /\ pc' = [pc EXCEPT ![w] = "pay"]
        /\ UNCHANGED <<invoices, draftLock, reissueLock, seen>>
        /\ \A v \in Workers \ {w} : ask'[v] = ask[v]
    BY <1>1 DEF PayRead, Begin, tables, locks, TypeInv, TypeOK
  <2> QED BY <1>0, <2>1, StepKept
<1>2. CASE PayLock(w)
  <2>1. /\ pc[w] = "pay" /\ pc' = [pc EXCEPT ![w] = "pay_insert"]
        /\ UNCHANGED <<invoices, draftLock, reissueLock, seen, ask>>
    BY <1>2 DEF PayLock, Advance, tables
  <2> QED BY <1>0, <2>1, StepKept
<1>3. ASSUME NEW p \in PaymentIds, PayInsert(w, p) PROVE InvoiceInv'
  BY <1>3, EndKept, InvoicesKept DEF PayInsert
<1>4. ASSUME NEW p \in PaymentIds, NEW status, SettleRead(w, p, status) PROVE InvoiceInv'
  <2>1. /\ pc[w] = "idle" /\ pc' = [pc EXCEPT ![w] = "save"]
        /\ UNCHANGED <<invoices, draftLock, reissueLock>>
    BY <1>4 DEF SettleRead, Begin, tables, locks
  <2>2. /\ seen'[w].invoices = seen[w].invoices
        /\ \A v \in Workers \ {w} : ask'[v] = ask[v] /\ seen'[v] = seen[v]
    BY <1>4 DEF SettleRead, Begin, TypeInv, TypeOK, Tracker
  <2> QED BY <1>0, <2>1, <2>2, StepKept
<1>5. ASSUME NEW statuses, LinkRead(w, statuses) PROVE InvoiceInv'
  <2>1. /\ pc[w] = "idle" /\ pc' = [pc EXCEPT ![w] = "save"]
        /\ UNCHANGED <<invoices, draftLock, reissueLock>>
    BY <1>5 DEF LinkRead, Begin, tables, locks
  <2>2. /\ seen'[w].invoices = seen[w].invoices
        /\ \A v \in Workers \ {w} : ask'[v] = ask[v] /\ seen'[v] = seen[v]
    BY <1>5 DEF LinkRead, Begin, TypeInv, TypeOK, Tracker
  <2> QED BY <1>0, <2>1, <2>2, StepKept
<1> QED BY <1>1, <1>2, <1>3, <1>4, <1>5

LEMMA DraftKept ==
  ASSUME TypeInv, InvoiceInv, NEW w \in Workers,
         DraftRead(w) \/ ConfirmRead(w) \/ DraftLock(w) \/ ConfirmIssue(w)
  PROVE  InvoiceInv'
<1>0. pc[w] \notin {"save", "reissue_locked", "reissue_save"} =>
        \A i \in InvoiceIds : seen[w].invoices[i] = None
  BY DEF InvoiceInv, Kept, Tracking
<1>1. CASE DraftRead(w)
  <2>1. /\ pc[w] = "idle" /\ pc' = [pc EXCEPT ![w] = "draft"]
        /\ UNCHANGED <<invoices, draftLock, reissueLock, seen>>
        /\ \A v \in Workers \ {w} : ask'[v] = ask[v]
    BY <1>1 DEF DraftRead, Begin, tables, locks, TypeInv, TypeOK
  <2> QED BY <1>0, <2>1, StepKept
<1>2. CASE ConfirmRead(w)
  <2>1. /\ pc[w] = "idle" /\ pc' = [pc EXCEPT ![w] = "confirm"]
        /\ UNCHANGED <<invoices, draftLock, reissueLock, seen>>
        /\ \A v \in Workers \ {w} : ask'[v] = ask[v]
    BY <1>2 DEF ConfirmRead, Begin, tables, locks, TypeInv, TypeOK
  <2> QED BY <1>0, <2>1, StepKept
<1>3. CASE DraftLock(w)
  <2>1. PICK to \in {"draft_insert", "confirm_draft"} :
          pc[w] \in {"draft", "confirm"} /\ pc' = [pc EXCEPT ![w] = to]
    BY <1>3 DEF DraftLock, Advance
  <2>2. /\ draftLock = None /\ draftLock' = w /\ ActiveInvoices = {}
        /\ UNCHANGED <<invoices, reissueLock, ask, seen>>
    BY <1>3 DEF DraftLock, tables
  <2>3. pc'[w] = to /\ \A v \in Workers \ {w} : pc'[v] = pc[v]
    BY <2>1 DEF TypeInv, TypeOK
  <2>4. Kept(w)'
    BY <1>0, <2>1, <2>2, <2>3
       DEF Kept, Drafting, Reissuing, Tracking, ActiveInvoices, InvoiceRows
  <2>5. \A v \in Workers : draftLock # v
    BY <2>2, NoneApart
  <2> QED BY <2>2, <2>3, <2>4, <2>5, InvoicesKept
<1>4. CASE ConfirmIssue(w)
  <2>1. /\ pc[w] = "confirm_draft" /\ pc' = [pc EXCEPT ![w] = "confirm_save"]
        /\ UNCHANGED <<invoices, draftLock, reissueLock>>
    BY <1>4 DEF ConfirmIssue, Advance, tables, locks
  <2>2. /\ seen'[w].invoices = seen[w].invoices
        /\ \A v \in Workers \ {w} : ask'[v] = ask[v] /\ seen'[v] = seen[v]
    BY <1>4 DEF ConfirmIssue, TypeInv, TypeOK, Tracker
  <2>3. pc'[w] = "confirm_save" /\ \A v \in Workers \ {w} : pc'[v] = pc[v]
    BY <2>1 DEF TypeInv, TypeOK
  <2>4. draftLock = w /\ ActiveInvoices = {}
    BY <2>1 DEF InvoiceInv, Kept, Drafting
  <2>5. Kept(w)'
    BY <1>0, <2>1, <2>2, <2>3, <2>4
       DEF Kept, Drafting, Reissuing, Tracking, ActiveInvoices, InvoiceRows
  <2> QED BY <2>1, <2>2, <2>3, <2>5, InvoicesKept
<1> QED BY <1>1, <1>2, <1>3, <1>4

\* The holder of the draft lock inserts the only active invoice: nobody
\* else is about to insert a draft, and nothing is there to be reissued.
LEMMA FirstInvoice ==
  ASSUME TypeInv, InvoiceInv, NEW w \in Workers, NEW j \in InvoiceIds,
         pc[w] \in {"draft_insert", "confirm_save"}, NEW status, NEW total, NEW lines,
         InsertInvoice(w, j, status, total, lines), Finish(w)
  PROVE  InvoiceInv'
<1>1. draftLock = w /\ ActiveInvoices = {} /\ \A i \in InvoiceIds : seen[w].invoices[i] = None
  BY DEF InvoiceInv, Kept, Drafting, Tracking
<1>2. \A i \in InvoiceIds \ {j} : invoices'[i] = invoices[i]
  BY <1>1 DEF InsertInvoice
<1>3. ActiveInvoices' \subseteq {j}
  BY <1>1, <1>2 DEF ActiveInvoices, InvoiceRows
<1>4. ASSUME NEW v \in Workers, v # w PROVE Kept(v)'
  <2>1. pc'[v] = pc[v] /\ seen'[v] = seen[v]
    BY <1>4, EndKept
  <2>2. pc[v] \notin {"draft_insert", "confirm_draft", "confirm_save"}
    BY <1>1, <1>4 DEF InvoiceInv, Kept, Drafting
  <2>3. pc[v] \notin {"reissue_locked", "reissue_save"}
    BY <1>1, ReissuableIsActive DEF InvoiceInv, Kept, Reissuing, Reissuable, InvoiceRows
  <2>4. pc[v] # "reissue" \/ "reissue" \in Traffic
    BY DEF InvoiceInv, Kept, Reissuing
  <2>5. Tracking(v)'
    <3>1. Tracking(v)
      BY DEF InvoiceInv, Kept
    <3> QED BY <1>1, <2>1, <2>3, <3>1 DEF Tracking, Harmless
  <2> QED BY <2>1, <2>2, <2>3, <2>4, <2>5 DEF Kept, Drafting, Reissuing
<1> QED BY <1>3, <1>4, EndKept DEF InvoiceInv, OneActiveInvoice, Kept

LEMMA ReissueKept ==
  ASSUME TypeInv, InvoiceInv, NEW w \in Workers,
         \/ "reissue" \in Traffic /\ \E i \in InvoiceIds : ReissueRead(w, i)
         \/ ReissueLock(w)
         \/ ReissueFlush(w)
  PROVE  InvoiceInv'
<1>0. pc[w] \notin {"save", "reissue_locked", "reissue_save"} =>
        \A i \in InvoiceIds : seen[w].invoices[i] = None
  BY DEF InvoiceInv, Kept, Tracking
<1>1. ASSUME NEW i \in InvoiceIds, ReissueRead(w, i), "reissue" \in Traffic PROVE InvoiceInv'
  <2>1. /\ pc[w] = "idle" /\ pc' = [pc EXCEPT ![w] = "reissue"]
        /\ UNCHANGED <<invoices, draftLock, reissueLock, seen>>
        /\ \A v \in Workers \ {w} : ask'[v] = ask[v]
    BY <1>1 DEF ReissueRead, Begin, tables, locks, TypeInv, TypeOK
  <2> QED BY <1>0, <1>1, <2>1, StepKept
<1>2. CASE ReissueLock(w)
  <2> DEFINE i == ask[w].invoice
             row == [invoices[i] EXCEPT !.status = "superseded"]
  <2>1. /\ pc[w] = "reissue" /\ pc' = [pc EXCEPT ![w] = "reissue_locked"]
        /\ reissueLock[i] = None /\ reissueLock' = [reissueLock EXCEPT ![i] = w]
        /\ Reissuable(i) /\ UNCHANGED <<invoices, draftLock, ask>>
        /\ seen' = [seen EXCEPT ![w].invoices = TrackInvoice(i, row)]
    BY <1>2 DEF ReissueLock, Advance, tables
  <2>2. i \in InvoiceIds /\ invoices[i] \in InvoiceRow
    BY <2>1, RowTyped DEF Reissuable, InvoiceRows, TypeInv
  <2>3. row \in InvoiceRow /\ row.status = "superseded"
    BY <2>2 DEF InvoiceRow, InvoiceStatus
  <2>4. /\ pc'[w] = "reissue_locked" /\ seen'[w].invoices = TrackInvoice(i, row)
        /\ reissueLock'[i] = w
        /\ \A v \in Workers \ {w} : pc'[v] = pc[v] /\ seen'[v] = seen[v]
    BY <2>1, <2>2 DEF TypeInv, TypeOK, Tracker
  <2>5. /\ seen'[w].invoices[i] = row /\ row # None
        /\ \A j \in InvoiceIds \ {i} : seen'[w].invoices[j] = None
    <3> HIDE DEF row, i
    <3> QED BY <2>2, <2>3, <2>4, InvoiceTracked, NoneApart
  <2>6. Reissuable(i)' /\ i' = i
    BY <2>1 DEF Reissuable, InvoiceRows
  <2>7. Kept(w)'
    <3>1. "reissue" \in Traffic
      BY <2>1, <2>2 DEF InvoiceInv, Kept, Reissuing, TypeInv, TypeOK
    <3> HIDE DEF row
    <3> QED BY <2>3, <2>4, <2>5, <2>6, <3>1 DEF Kept, Drafting, Reissuing, Tracking
  <2>8. \A v \in Workers, j \in InvoiceIds : reissueLock[j] = v => reissueLock'[j] = v \/ j = i
    <3> HIDE DEF i
    <3> QED BY <2>1, <2>2 DEF TypeInv, TypeOK
  <2>9. \A v \in Workers : reissueLock[i] # v
    BY <2>1, NoneApart
  <2> QED BY <2>1, <2>4, <2>7, <2>8, <2>9, InvoicesKept
<1>3. CASE ReissueFlush(w)
  <2>1. /\ pc[w] = "reissue_locked" /\ pc' = [pc EXCEPT ![w] = "reissue_save"]
        /\ UNCHANGED <<invoices, draftLock, reissueLock>>
    BY <1>3 DEF ReissueFlush, Advance, tables
  <2>2. /\ seen'[w].invoices = seen[w].invoices /\ ask'[w].invoice = ask[w].invoice
        /\ \A v \in Workers \ {w} : ask'[v] = ask[v] /\ seen'[v] = seen[v]
    BY <1>3 DEF ReissueFlush, TypeInv, TypeOK, Tracker, Ask
  <2>3. pc'[w] = "reissue_save" /\ \A v \in Workers \ {w} : pc'[v] = pc[v]
    BY <2>1 DEF TypeInv, TypeOK
  <2>4. Kept(w)'
    BY <2>1, <2>2, <2>3
       DEF InvoiceInv, Kept, Drafting, Reissuing, Tracking, Reissuable, InvoiceRows
  <2> QED BY <2>1, <2>2, <2>3, <2>4, InvoicesKept
<1> QED BY <1>1, <1>2, <1>3

\* The new invoice takes the place of the only active one.
LEMMA InvoiceReplaced ==
  ASSUME TypeInv, InvoiceInv, NEW w \in Workers, NEW j \in InvoiceIds, ReissueSave(w, j)
  PROVE  InvoiceInv'
<1> DEFINE i == ask[w].invoice
<1>1. /\ Reissuable(i) /\ reissueLock[i] = w
      /\ seen[w].invoices[i] # None /\ seen[w].invoices[i].status = "superseded"
      /\ \A k \in InvoiceIds \ {i} : seen[w].invoices[k] = None
  BY DEF ReissueSave, InvoiceInv, Kept, Reissuing
<1>2. i \in InvoiceIds /\ i \in ActiveInvoices /\ i # j
  BY <1>1, ReissuableIsActive DEF Reissuable, InvoiceRows, ReissueSave, InsertInvoice
<1>3. /\ invoices'[i].status = "superseded"
      /\ \A k \in InvoiceIds \ {i, j} : invoices'[k] = invoices[k]
  <2> HIDE DEF i
  <2> QED BY <1>1, <1>2 DEF ReissueSave, InsertInvoice
<1>4. ActiveInvoices' \subseteq {j}
  <2>1. \A k \in InvoiceIds \ {i} : k \notin ActiveInvoices
    BY <1>2 DEF InvoiceInv, OneActiveInvoice
  <2> HIDE DEF i
  <2> QED BY <1>3, <2>1 DEF ActiveInvoices, InvoiceRows
<1>5. Finish(w)
  BY DEF ReissueSave
<1>6. ASSUME NEW v \in Workers, v # w PROVE Kept(v)'
  <2>1. pc'[v] = pc[v] /\ seen'[v] = seen[v]
    BY <1>5, <1>6, EndKept
  <2>2. pc[v] \notin {"draft_insert", "confirm_draft", "confirm_save"}
    BY <1>2 DEF InvoiceInv, Kept, Drafting
  <2>3. pc[v] \notin {"reissue_locked", "reissue_save"}
    <3> SUFFICES ASSUME pc[v] \in {"reissue_locked", "reissue_save"} PROVE FALSE
      OBVIOUS
    <3>1. Reissuable(ask[v].invoice) /\ reissueLock[ask[v].invoice] = v
      BY DEF InvoiceInv, Kept, Reissuing
    <3>2. ask[v].invoice \in ActiveInvoices
      BY <3>1, ReissuableIsActive DEF Reissuable, InvoiceRows
    <3>3. ask[v].invoice = i
      BY <1>2, <3>2 DEF InvoiceInv, OneActiveInvoice
    <3> QED BY <1>1, <1>6, <3>1, <3>3
  <2>4. "reissue" \in Traffic
    BY DEF ReissueSave, InvoiceInv, Kept, Reissuing
  <2>5. Tracking(v)'
    <3>1. Tracking(v) /\ \A k \in ActiveInvoices : invoices[k].status # "draft"
      BY <1>1, <1>2 DEF InvoiceInv, Kept, OneActiveInvoice, Reissuable
    <3> QED BY <2>1, <2>3, <2>4, <3>1 DEF Tracking, Harmless
  <2> QED BY <2>1, <2>2, <2>3, <2>4, <2>5 DEF Kept, Drafting, Reissuing
<1> QED BY <1>4, <1>5, <1>6, EndKept DEF InvoiceInv, OneActiveInvoice, Kept

-----------------------------------------------------------------------------
(* The operations without a lock *)

LEMMA UnlockedKept ==
  ASSUME OrderlyTraffic, TypeInv, InvoiceInv, NEW w \in Workers,
         \/ "markpaid" \in Traffic /\ \E p \in PaymentIds : MarkPaidRead(w, p)
         \/ "issue" \in Traffic /\ \E i \in InvoiceIds : IssueRead(w, i)
         \/ "adjust" \in Traffic /\ \E i \in InvoiceIds, a \in Adjustments : AdjustRead(w, i, a)
         \/ "cancel" \in Traffic /\ \E i \in InvoiceIds : CancelRead(w, i)
  PROVE  InvoiceInv'
<1>0. \A i \in InvoiceRows : i \in InvoiceIds /\ invoices[i] \in InvoiceRow
  BY RowTyped DEF InvoiceRows, TypeInv
<1>1. ASSUME UNCHANGED <<invoices, draftLock, reissueLock>>, pc[w] = "idle",
             pc' = [pc EXCEPT ![w] = "save"],
             \A v \in Workers \ {w} : ask'[v] = ask[v] /\ seen'[v] = seen[v],
             \A i \in InvoiceIds :
               seen'[w].invoices[i] # None => Harmless(i, seen'[w].invoices[i])
      PROVE  InvoiceInv'
  <2>1. pc'[w] = "save" /\ \A v \in Workers \ {w} : pc'[v] = pc[v]
    BY <1>1 DEF TypeInv, TypeOK
  <2>2. ActiveInvoices' = ActiveInvoices
    BY <1>1 DEF ActiveInvoices, InvoiceRows
  <2>3. Kept(w)'
    BY <1>1, <2>1, <2>2 DEF Kept, Drafting, Reissuing, Tracking, Harmless
  <2> QED BY <1>1, <2>1, <2>3, InvoicesKept
<1>2. ASSUME NEW i \in InvoiceRows, NEW row \in InvoiceRow, Harmless(i, row),
             NEW rows, rows \in {TrackInvoice(i, row), Untracked.invoices}
      PROVE  \A k \in InvoiceIds : rows[k] # None => Harmless(k, rows[k])
  <2>1. TrackInvoice(i, row)[i] = row /\ \A k \in InvoiceIds \ {i} : TrackInvoice(i, row)[k] = None
    BY <1>0, InvoiceTracked
  <2> QED BY <1>2, <2>1 DEF Untracked
<1>3. ASSUME NEW i \in InvoiceIds, IssueRead(w, i), "issue" \in Traffic PROVE InvoiceInv'
  <2> DEFINE row == [invoices[i] EXCEPT !.status = PaidIf(PaidOn(i) >= invoices[i].total)]
  <2>1. /\ i \in ActiveInvoices /\ i \in InvoiceRows
        /\ pc[w] = "idle" /\ pc' = [pc EXCEPT ![w] = "save"]
        /\ UNCHANGED <<invoices, draftLock, reissueLock>>
        /\ seen'[w].invoices = TrackInvoice(i, row)
        /\ \A v \in Workers \ {w} : ask'[v] = ask[v] /\ seen'[v] = seen[v]
    BY <1>3 DEF IssueRead, Begin, tables, locks, ActiveInvoices, TypeInv, TypeOK
  <2>2. row \in InvoiceRow /\ row.status \in {"issued", "paid"}
    BY <1>0, <2>1 DEF PaidIf, InvoiceRow, InvoiceStatus
  <2> HIDE DEF row
  <2>3. Harmless(i, row)
    BY <1>3, <2>1, <2>2 DEF OrderlyTraffic, Harmless
  <2> QED BY <1>1, <1>2, <2>1, <2>2, <2>3
<1>4. ASSUME NEW i \in InvoiceIds, NEW a \in Adjustments, AdjustRead(w, i, a), "adjust" \in Traffic
      PROVE  InvoiceInv'
  <2> DEFINE row == [invoices[i] EXCEPT !.total = items[i] + a + a]
  <2>1. /\ i \in ActiveInvoices /\ i \in InvoiceRows /\ invoices[i].status = "draft"
        /\ pc[w] = "idle" /\ pc' = [pc EXCEPT ![w] = "save"]
        /\ UNCHANGED <<invoices, draftLock, reissueLock>>
        /\ seen'[w].invoices = TrackInvoice(i, row)
        /\ \A v \in Workers \ {w} : ask'[v] = ask[v] /\ seen'[v] = seen[v]
    BY <1>4 DEF AdjustRead, Begin, tables, locks, ActiveInvoices, TypeInv, TypeOK, Tracker
  <2>2. row \in InvoiceRow /\ row.status = "draft"
    <3>1. items[i] + a + a \in Nat
      BY AmountAssumption DEF TypeInv, TypeOK
    <3> QED BY <1>0, <2>1, <3>1 DEF InvoiceRow
  <2> HIDE DEF row
  <2>3. Harmless(i, row)
    BY <1>4, <2>1, <2>2 DEF OrderlyTraffic, Harmless
  <2> QED BY <1>1, <1>2, <2>1, <2>2, <2>3
<1>5. ASSUME NEW i \in InvoiceIds, CancelRead(w, i), "cancel" \in Traffic PROVE InvoiceInv'
  <2> DEFINE row == [invoices[i] EXCEPT !.status = "cancelled"]
  <2>1. /\ i \in InvoiceRows
        /\ pc[w] = "idle" /\ pc' = [pc EXCEPT ![w] = "save"]
        /\ UNCHANGED <<invoices, draftLock, reissueLock>>
        /\ seen'[w].invoices = TrackInvoice(i, row)
        /\ \A v \in Workers \ {w} : ask'[v] = ask[v] /\ seen'[v] = seen[v]
    BY <1>5 DEF CancelRead, Begin, tables, locks, TypeInv, TypeOK, Tracker
  <2>2. row \in InvoiceRow /\ row.status = "cancelled"
    BY <1>0, <2>1 DEF InvoiceRow, InvoiceStatus
  <2> HIDE DEF row
  <2>3. Harmless(i, row)
    BY <1>5, <2>2 DEF Harmless
  <2> QED BY <1>1, <1>2, <2>1, <2>2, <2>3
<1>6. ASSUME NEW p \in PaymentIds, MarkPaidRead(w, p), "markpaid" \in Traffic PROVE InvoiceInv'
  <2> DEFINE row(i) == [invoices[i] EXCEPT !.status = "paid"]
             covered(i) == /\ i # None /\ PaidOn(i) + payments[p].amount >= invoices[i].total
                           /\ invoices[i].status # "paid"
             rows(i) == IF covered(i) THEN TrackInvoice(i, row(i)) ELSE Untracked.invoices
             pays(i) == TrackPayments({p},
                          [q \in {p} |-> [payments[p] EXCEPT !.status = "paid", !.invoice = i]])
  <2>1. PICK i \in Link(p) :
          /\ i # None => i \in ActiveInvoices
          /\ seen' = [seen EXCEPT ![w] = [payments |-> pays(i), invoices |-> rows(i)]]
    BY <1>6 DEF MarkPaidRead
  <2> DEFINE tracked == rows(i)
  <2>2. tracked \in {Untracked.invoices} \/ (i # None /\ tracked = TrackInvoice(i, row(i)))
    OBVIOUS
  <2> HIDE DEF pays, rows, tracked
  <2>3. /\ pc[w] = "idle" /\ pc' = [pc EXCEPT ![w] = "save"]
        /\ UNCHANGED <<invoices, draftLock, reissueLock>>
        /\ seen'[w].invoices = tracked
        /\ \A v \in Workers \ {w} : ask'[v] = ask[v] /\ seen'[v] = seen[v]
    BY <1>6, <2>1 DEF MarkPaidRead, Begin, tables, locks, TypeInv, TypeOK, tracked
  <2>4. CASE tracked = Untracked.invoices
    <3>1. \A k \in InvoiceIds : tracked[k] = None
      BY <2>4 DEF Untracked
    <3> QED BY <1>1, <2>3, <3>1
  <2>5. CASE i # None /\ tracked = TrackInvoice(i, row(i))
    <3>1. i \in ActiveInvoices /\ i \in InvoiceRows
      BY <2>1, <2>5 DEF ActiveInvoices
    <3>2. row(i) \in InvoiceRow /\ row(i).status = "paid"
      BY <1>0, <3>1 DEF InvoiceRow, InvoiceStatus
    <3> DEFINE r == row(i)
    <3> HIDE DEF row, r
    <3>3. r \in InvoiceRow /\ Harmless(i, r) /\ tracked = TrackInvoice(i, r)
      BY <1>6, <2>5, <3>1, <3>2 DEF OrderlyTraffic, Harmless, r
    <3> QED BY <1>1, <1>2, <2>3, <3>1, <3>3
  <2> QED BY <2>2, <2>4, <2>5
<1> QED BY <1>3, <1>4, <1>5, <1>6

\* What is saved ends an invoice or keeps it active, and no invoice that is
\* being superseded changes.
LEMMA SaveKept ==
  ASSUME OrderlyTraffic, TypeInv, InvoiceInv, NEW w \in Workers, Save(w)
  PROVE  InvoiceInv'
<1>1. \A i \in InvoiceIds :
        seen[w].invoices[i] # None => Harmless(i, seen[w].invoices[i])
  BY DEF Save, InvoiceInv, Kept, Tracking
<1>2. \A i \in InvoiceIds : invoices'[i] =
        IF seen[w].invoices[i] # None THEN seen[w].invoices[i] ELSE invoices[i]
  BY DEF Save
<1>3. ActiveInvoices' \subseteq ActiveInvoices
  BY <1>1, <1>2 DEF ActiveInvoices, InvoiceRows, Harmless
<1>4. "cancel" \notin Traffic => ActiveInvoices \subseteq ActiveInvoices'
  BY <1>1, <1>2 DEF ActiveInvoices, InvoiceRows, Harmless
<1>5. OneActiveInvoice'
  BY <1>3 DEF InvoiceInv, OneActiveInvoice
<1>6. Finish(w)
  BY DEF Save
<1>7. ASSUME NEW v \in Workers, v # w PROVE Kept(v)'
  <2>1. /\ pc'[v] = pc[v] /\ ask'[v] = ask[v] /\ seen'[v] = seen[v]
        /\ draftLock = v => draftLock' = v
        /\ \A i \in InvoiceIds : reissueLock[i] = v => reissueLock'[i] = v
    BY <1>6, <1>7, EndKept
  <2>2. Kept(v)
    BY DEF InvoiceInv
  <2>3. Drafting(v)'
    BY <1>3, <2>1, <2>2 DEF Kept, Drafting
  <2>4. Reissuing(v)'
    <3>1. CASE pc[v] \in {"reissue_locked", "reissue_save"}
      <4> DEFINE i == ask[v].invoice
      <4>1. /\ "reissue" \in Traffic /\ "cancel" \notin Traffic
            /\ Reissuable(i) /\ i \in InvoiceIds
        BY <2>2, <3>1 DEF Kept, Reissuing, OrderlyTraffic, Reissuable, InvoiceRows
      <4>2. invoices'[i] = invoices[i]
        <5> HIDE DEF i
        <5> QED BY <1>1, <1>2, <4>1 DEF Harmless, Reissuable
      <4>3. Reissuable(i)'
        <5> HIDE DEF i
        <5>1. i' = i
          BY <2>1 DEF i
        <5> QED BY <4>1, <4>2, <5>1 DEF Reissuable, InvoiceRows
      <4> QED BY <2>1, <2>2, <4>1, <4>3 DEF Kept, Reissuing
    <3>2. CASE pc[v] \notin {"reissue_locked", "reissue_save"}
      BY <2>1, <2>2, <3>2 DEF Kept, Reissuing
    <3> QED BY <3>1, <3>2
  <2>5. Tracking(v)'
    <3>1. ASSUME NEW i \in InvoiceIds, NEW row, Harmless(i, row) PROVE Harmless(i, row)'
      <4>1. CASE "cancel" \in Traffic
        BY <3>1, <4>1 DEF Harmless
      <4>2. CASE "cancel" \notin Traffic
        <5>1. i \in ActiveInvoices' /\ row.status \notin {"cancelled", "superseded"}
          BY <1>4, <3>1, <4>2 DEF Harmless
        <5>2. "reissue" \in Traffic => row.status = "draft" /\ invoices'[i].status = "draft"
          BY <1>1, <1>2, <3>1, <4>2 DEF Harmless
        <5> QED BY <4>2, <5>1, <5>2 DEF Harmless
      <4> QED BY <4>1, <4>2
    <3> QED BY <2>1, <2>2, <3>1 DEF Kept, Tracking
  <2> QED BY <2>3, <2>4, <2>5 DEF Kept
<1> QED BY <1>5, <1>6, <1>7, EndKept DEF InvoiceInv

-----------------------------------------------------------------------------
(* The theorem *)

LEMMA InitOneInvoice == Init => InvoiceInv
BY DEF Init, Quiet, InvoiceInv, OneActiveInvoice, ActiveInvoices, InvoiceRows, Kept, Drafting,
       Reissuing, Tracking, Untracked

LEMMA StepKeepsOneInvoice ==
  ASSUME OrderlyTraffic
  PROVE  TypeInv /\ InvoiceInv /\ [Next]_vars => InvoiceInv'
<1> SUFFICES ASSUME TypeInv, InvoiceInv, [Next]_vars PROVE InvoiceInv'
  OBVIOUS
<1>1. ASSUME NEW w \in Workers, Request(w) PROVE InvoiceInv'
  BY <1>1, PaymentKept, DraftKept, ReissueKept, UnlockedKept DEF Request
<1>2. ASSUME NEW w \in Workers, Proceed(w) PROVE InvoiceInv'
  <2>1. ASSUME NEW j \in InvoiceIds, DraftInsert(w, j) \/ ConfirmSave(w, j) PROVE InvoiceInv'
    BY <2>1, FirstInvoice DEF DraftInsert, ConfirmSave
  <2> QED BY <1>2, <2>1, PaymentKept, DraftKept, ReissueKept, InvoiceReplaced, SaveKept DEF Proceed
<1>3. ASSUME NEW w \in Workers, Abort(w) PROVE InvoiceInv'
  BY <1>3, EndKept, InvoicesKept DEF Abort, tables
<1>4. ASSUME UNCHANGED <<invoices, locks, session>> PROVE InvoiceInv'
  BY <1>4 DEF locks, session, InvoiceInv, OneActiveInvoice, ActiveInvoices, InvoiceRows,
              Kept, Drafting, Reissuing, Reissuable, Tracking, Harmless
<1>5. CASE Lifecycle
  BY <1>4, <1>5 DEF Lifecycle, ConfirmKeepsInvoice, BookingDropped, locks, session
<1>6. CASE UNCHANGED vars
  BY <1>4, <1>6 DEF vars, tables, locks, session
<1> QED BY <1>1, <1>2, <1>3, <1>5, <1>6 DEF Next

\* However many requests of a booking run at once, it has at most one active
\* invoice, as long as cancellations and reissues overlap with no other save of
\* an invoice's row: drafts, confirmations and reissues hold different locks,
\* and that is enough, because a draft needs no active invoice and a reissue
\* needs one.  The writers without a lock may overlap with each other.
THEOREM OneInvoice ==
  ASSUME OrderlyTraffic
  PROVE  Spec => []OneActiveInvoice
<1>1. InvoiceInv => OneActiveInvoice
  BY DEF InvoiceInv
<1> QED BY <1>1, InitTyped, StepKeepsTypes, InitOneInvoice, StepKeepsOneInvoice, PTL DEF Spec

-----------------------------------------------------------------------------
(* Sums.  Sum folds its payments in the order CHOOSE picks them.  It is     *)
(* compared with a count: a payment is worth as many coins as its amount,  *)
(* and what a set of payments is worth is the number of their coins.       *)

\* pay is the table of payments, as it is or as a request will leave it.
Coins(pay, p) == {p} \X (1 .. pay[p].amount)
Purse(pay, S) == UNION {Coins(pay, p) : p \in S}
Worth(pay, S) == Cardinality(Purse(pay, S))

Countable(pay, S) == IsFiniteSet(S) /\ \A p \in S : pay[p].amount \in Nat

LEMMA NatMin ==
  ASSUME NEW T, T \subseteq Nat, T # {}
  PROVE  \E n \in T : \A k \in T : n <= k
<1>1. PICK R : IsWellFoundedOn(R, Nat) /\ \A x, y \in Nat : x < y => <<x, y>> \in R
  <2>1. \A x, y \in Nat : x < y => <<x, y>> \in OpToRel(<, Nat)
    BY DEF OpToRel
  <2> QED BY <2>1, NatLessThanWellFounded
<1>2. PICK x \in T : \A y \in T : ~(<<y, x>> \in R)
  BY <1>1, WFMin
<1>3. \A y \in T : ~(y < x)
  BY <1>1, <1>2
<1>4. \A y \in T : x <= y
  BY <1>3
<1> QED BY <1>4

LEMMA CoinsCount ==
  ASSUME NEW pay, NEW p, pay[p].amount \in Nat
  PROVE  IsFiniteSet(Coins(pay, p)) /\ Cardinality(Coins(pay, p)) = pay[p].amount
<1> DEFINE n == pay[p].amount
<1>1. IsFiniteSet({p}) /\ Cardinality({p}) = 1
  BY FS_Singleton
<1>2. IsFiniteSet(1 .. n) /\ Cardinality(1 .. n) = n
  <2>1. n \in Nat /\ n \in Int /\ 1 \in Int
    OBVIOUS
  <2> HIDE DEF n
  <2> QED BY <2>1, FS_Interval
<1>3. IsFiniteSet({p} \X (1 .. n))
      /\ Cardinality({p} \X (1 .. n)) = Cardinality({p}) * Cardinality(1 .. n)
  <2> HIDE DEF n
  <2> QED BY <1>1, <1>2, FS_Product
<1> QED BY <1>1, <1>2, <1>3 DEF Coins

LEMMA PurseFinite ==
  ASSUME NEW pay, NEW S, Countable(pay, S)
  PROVE  IsFiniteSet(Purse(pay, S)) /\ Worth(pay, S) \in Nat
<1> DEFINE T == {Coins(pay, p) : p \in S}
           f == [p \in S |-> Coins(pay, p)]
<1>1. f \in Surjection(S, T)
  BY DEF Surjection
<1>2. IsFiniteSet(T)
  <2> HIDE DEF f, T
  <2> QED BY <1>1, FS_Surjection DEF Countable
<1>3. \A C \in T : IsFiniteSet(C)
  BY CoinsCount DEF Countable
<1>4. IsFiniteSet(UNION T)
  <2> HIDE DEF T
  <2> QED BY <1>2, <1>3, FS_UNION
<1> QED BY <1>4, FS_CardinalityType DEF Purse, Worth

LEMMA WorthNothing ==
  ASSUME NEW pay
  PROVE  Worth(pay, {}) = 0
<1>1. Purse(pay, {}) = {}
  BY DEF Purse
<1> QED BY <1>1, FS_EmptySet DEF Worth

LEMMA WorthTakes ==
  ASSUME NEW pay, NEW S, Countable(pay, S), NEW p \in S
  PROVE  Worth(pay, S) = pay[p].amount + Worth(pay, S \ {p})
<1>1. Countable(pay, S \ {p})
  BY FS_Subset DEF Countable
<1>2. Purse(pay, S) = Coins(pay, p) \cup Purse(pay, S \ {p})
  BY DEF Purse
<1>3. Coins(pay, p) \cap Purse(pay, S \ {p}) = {}
  BY DEF Purse, Coins
<1>4. IsFiniteSet(Coins(pay, p)) /\ Cardinality(Coins(pay, p)) = pay[p].amount
  BY CoinsCount DEF Countable
<1>5. IsFiniteSet(Purse(pay, S \ {p})) /\ Cardinality(Purse(pay, S \ {p})) \in Nat
  BY <1>1, PurseFinite DEF Worth
<1>6. Cardinality(Coins(pay, p) \cup Purse(pay, S \ {p}))
        = Cardinality(Coins(pay, p)) + Cardinality(Purse(pay, S \ {p}))
            - Cardinality(Coins(pay, p) \cap Purse(pay, S \ {p}))
  BY <1>4, <1>5, FS_Union
<1>7. Cardinality(Coins(pay, p) \cap Purse(pay, S \ {p})) = 0
  BY <1>3, FS_EmptySet
<1> QED BY <1>2, <1>4, <1>5, <1>6, <1>7 DEF Countable, Worth

\* More payments of the same amounts are worth as much or more.
LEMMA WorthGrows ==
  ASSUME NEW pay, NEW more, NEW S, NEW T, S \subseteq T, Countable(more, T),
         \A p \in S : pay[p].amount = more[p].amount
  PROVE  Worth(pay, S) <= Worth(more, T) /\ Worth(pay, S) \in Nat /\ Worth(more, T) \in Nat
<1>1. Countable(pay, S)
  BY FS_Subset DEF Countable
<1>2. Purse(pay, S) \subseteq Purse(more, T)
  BY DEF Purse, Coins
<1> QED BY <1>1, <1>2, PurseFinite, FS_Subset DEF Worth

\* A fold has one value, and it is the count.
LEMMA SumCounts ==
  ASSUME NEW S, Countable(payments, S)
  PROVE  Sum(S) = Worth(payments, S)
<1> DEFINE Folds(f) == f = [s \in SUBSET S |->
             IF s = {} THEN 0
             ELSE payments[CHOOSE x \in s : TRUE].amount + f[s \ {CHOOSE x \in s : TRUE}]]
           g == [s \in SUBSET S |-> Worth(payments, s)]
<1>1. \A s \in SUBSET S : Countable(payments, s)
  BY FS_Subset DEF Countable
<1>2. Folds(g)
  <2>1. ASSUME NEW s \in SUBSET S, s # {}, NEW x, x = CHOOSE y \in s : TRUE
        PROVE  g[s] = payments[x].amount + g[s \ {x}]
    <3>1. x \in s
      BY <2>1
    <3> QED BY <1>1, <3>1, WorthTakes
  <2> QED BY <2>1, WorthNothing
<1>3. ASSUME NEW f, Folds(f)
      PROVE  f[S] = g[S]
  <2> DEFINE Off == {s \in SUBSET S : f[s] # g[s]}
             T == {Cardinality(s) : s \in Off}
  <2> SUFFICES ASSUME Off # {} PROVE FALSE
    OBVIOUS
  <2>1. \A s \in SUBSET S : IsFiniteSet(s) /\ Cardinality(s) \in Nat
    BY <1>1, FS_CardinalityType DEF Countable
  <2>2. T \subseteq Nat /\ T # {}
    BY <2>1
  <2>3. PICK n \in T : \A k \in T : n <= k
    <3> HIDE DEF T
    <3> QED BY <2>2, NatMin
  <2>4. PICK s \in Off : \A r \in Off : Cardinality(s) <= Cardinality(r)
    BY <2>3
  <2>5. s # {}
    BY <1>3, WorthNothing
  <2> DEFINE x == CHOOSE y \in s : TRUE
  <2>6. x \in s
    BY <2>5
  <2>7. Cardinality(s \ {x}) = Cardinality(s) - 1
    BY <2>1, <2>6, FS_RemoveElement
  <2>8. f[s \ {x}] = g[s \ {x}]
    <3> HIDE DEF x, g
    <3> QED BY <2>1, <2>4, <2>7
  <2>9. f[s] = payments[x].amount + f[s \ {x}]
    BY <1>3, <2>5
  <2>10. g[s] = payments[x].amount + g[s \ {x}]
    BY <1>2, <2>5
  <2> QED BY <2>8, <2>9, <2>10
<1>4. Sum(S) = (CHOOSE f : Folds(f))[S]
  BY DEF Sum, MapThenSumSet, MapThenFoldSet
<1> HIDE DEF Folds, g
<1>5. Folds(CHOOSE f : Folds(f))
  BY <1>2
<1>6. Sum(S) = g[S]
  BY <1>3, <1>4, <1>5
<1> QED BY <1>6 DEF g

\* The payments of a table, those received, and those received for i.
Rows(pay)       == {p \in PaymentIds : pay[p] # None}
Received(pay)   == {p \in Rows(pay) : pay[p].status = "paid"}
PaidFor(pay, i) == {p \in Received(pay) : pay[p].invoice = i}

\* What the services add up is what the payments are worth.
LEMMA Totals ==
  ASSUME TypeOK, IsFiniteSet(PaymentRows)
  PROVE  /\ \A S \in SUBSET PaymentRows : Countable(payments, S) /\ Sum(S) = Worth(payments, S)
         /\ \A i : PaidOn(i) = Worth(payments, PaidFor(payments, i))
         /\ \A p : PaidBesides(p) = Worth(payments, Received(payments) \ {p})
         /\ Sum(InStatus({"paid"})) = Worth(payments, Received(payments))
         /\ Committed = Worth(payments, InStatus({"paid", "pending"}))
<1>1. ASSUME NEW S \in SUBSET PaymentRows
      PROVE  Countable(payments, S) /\ Sum(S) = Worth(payments, S)
  <2>1. \A p \in PaymentRows : payments[p].amount \in Nat
    BY RowTyped DEF PaymentRow
  <2>2. Countable(payments, S)
    BY <2>1, FS_Subset DEF Countable
  <2> QED BY <2>2, SumCounts
<1>2. Received(payments) = InStatus({"paid"}) /\ InStatus({"paid"}) \subseteq PaymentRows
  BY DEF Received, Rows, InStatus, PaymentRows
<1>3. \A i : PaidFor(payments, i) = InStatus({"paid"}) \cap LinkedTo(i)
  BY <1>2 DEF PaidFor, LinkedTo
<1>4. InStatus({"paid", "pending"}) \subseteq PaymentRows
  BY DEF InStatus
<1> QED BY <1>1, <1>2, <1>3, <1>4 DEF PaidOn, PaidBesides, Committed

-----------------------------------------------------------------------------
(* The payment lock *)

\* Every request but those that lower what is recorded or change a total: a
\* failed or cancelled payment can come back by a stale save, and a manual
\* line is added without the payment lock.
PricedTraffic == Traffic \cap {"settle", "adjust"} = {}

\* A row to be saved is the committed one but for its status and its link.
PaymentTracked(w) ==
  \A p \in PaymentIds : seen[w].payments[p] # None =>
    /\ p \in PaymentRows /\ seen[w].payments[p].amount = payments[p].amount
    /\ seen[w].payments[p].status \in {"pending", "paid"}

PricedTracked(w) ==
  \A i \in InvoiceIds : seen[w].invoices[i] # None => seen[w].invoices[i].total = FinalAmount

\* A payment to be inserted still fits: its worker holds the lock.
Paying(w) ==
  pc[w] = "pay_insert" =>
    paymentLock = w /\ Worth(payments, PaymentRows) + ask[w].amount <= FinalAmount

RecordedInv ==
  /\ IsFiniteSet(PaymentRows)
  /\ \A p \in PaymentRows : payments[p].status \in {"pending", "paid"}
  /\ \A i \in InvoiceRows : invoices[i].total = FinalAmount
  /\ Worth(payments, PaymentRows) <= FinalAmount
  /\ \A w \in Workers : PaymentTracked(w) /\ PricedTracked(w) /\ Paying(w)

LEMMA InvoicesArePriced ==
  ASSUME RecordedInv
  PROVE  AmountsOwed = {FinalAmount}
BY DEF RecordedInv, AmountsOwed, ActiveInvoices

\* No payment is added or changes its amount.
SameAmounts ==
  /\ PaymentRows' = PaymentRows
  /\ \A p \in PaymentRows : payments'[p].amount = payments[p].amount

LEMMA SameWorth ==
  ASSUME TypeOK, IsFiniteSet(PaymentRows), SameAmounts
  PROVE  Worth(payments', PaymentRows') = Worth(payments, PaymentRows)
<1>1. Purse(payments', PaymentRows) = Purse(payments, PaymentRows)
  BY DEF SameAmounts, Purse, Coins
<1> QED BY <1>1 DEF SameAmounts, Worth

\* A step that records no payment and takes no payment lock.
LEMMA RecordedKept ==
  ASSUME TypeInv, RecordedInv, NEW w \in Workers, SameAmounts,
         \A p \in PaymentRows : payments'[p].status \in {"pending", "paid"},
         \A i \in InvoiceRows' : invoices'[i].total = FinalAmount,
         PaymentTracked(w)', PricedTracked(w)', pc'[w] # "pay_insert",
         \A v \in Workers \ {w} :
           /\ pc'[v] = pc[v] /\ ask'[v] = ask[v] /\ seen'[v] = seen[v]
           /\ paymentLock = v => paymentLock' = v
  PROVE  RecordedInv'
<1>1. Worth(payments', PaymentRows') = Worth(payments, PaymentRows)
  BY SameWorth DEF TypeInv, RecordedInv
<1>2. ASSUME NEW v \in Workers, v # w
      PROVE  PaymentTracked(v)' /\ PricedTracked(v)' /\ Paying(v)'
  BY <1>1, <1>2 DEF RecordedInv, PaymentTracked, PricedTracked, Paying, SameAmounts
<1>3. Paying(w)'
  BY DEF Paying
<1> QED BY <1>1, <1>2, <1>3 DEF RecordedInv, SameAmounts

\* A request that reads or locks, tracking rows or leaving its own alone.
LEMMA RecordedRead ==
  ASSUME TypeInv, RecordedInv, NEW w \in Workers, UNCHANGED <<invoices, payments>>,
         NEW rows \in Tracker, seen' = [seen EXCEPT ![w] = rows],
         \A p \in PaymentIds : rows.payments[p] # None =>
           \/ rows.payments[p] = seen[w].payments[p]
           \/ /\ p \in PaymentRows /\ rows.payments[p].amount = payments[p].amount
              /\ rows.payments[p].status \in {"pending", "paid"},
         \A i \in InvoiceIds : rows.invoices[i] # None =>
           rows.invoices[i] = seen[w].invoices[i] \/ rows.invoices[i].total = FinalAmount,
         pc'[w] # "pay_insert",
         \A v \in Workers \ {w} :
           pc'[v] = pc[v] /\ ask'[v] = ask[v] /\ (paymentLock = v => paymentLock' = v)
  PROVE  RecordedInv'
<1>1. SameAmounts /\ InvoiceRows' = InvoiceRows
  BY DEF SameAmounts, PaymentRows, InvoiceRows
<1>2. seen'[w] = rows /\ \A v \in Workers \ {w} : seen'[v] = seen[v]
  BY DEF TypeInv, TypeOK
<1>3. PaymentTracked(w)'
  BY <1>1, <1>2 DEF PaymentTracked, RecordedInv, SameAmounts
<1>4. PricedTracked(w)'
  BY <1>2 DEF PricedTracked, RecordedInv
<1> QED BY <1>1, <1>2, <1>3, <1>4, RecordedKept DEF RecordedInv

\* The end of a request that records no payment.
LEMMA RecordedEnd ==
  ASSUME TypeInv, RecordedInv, NEW w \in Workers, Finish(w), SameAmounts,
         \A p \in PaymentRows : payments'[p].status \in {"pending", "paid"},
         \A i \in InvoiceRows' : invoices'[i].total = FinalAmount
  PROVE  RecordedInv'
<1>1. /\ pc'[w] = "idle" /\ seen'[w] = Untracked
      /\ \A v \in Workers \ {w} :
           /\ pc'[v] = pc[v] /\ ask'[v] = ask[v] /\ seen'[v] = seen[v]
           /\ paymentLock = v => paymentLock' = v
  BY DEF Finish, TypeInv, TypeOK
<1>2. PaymentTracked(w)' /\ PricedTracked(w)'
  BY <1>1 DEF PaymentTracked, PricedTracked, Untracked
<1> QED BY <1>1, <1>2, RecordedKept

\* Payments tracked with another link keep amount and status.
LEMMA RelinkedRows ==
  ASSUME TypeInv, RecordedInv, NEW S \in SUBSET PaymentRows, NEW i,
         NEW p \in PaymentIds, TrackPayments(S, Relinked(S, i))[p] # None
  PROVE  /\ p \in PaymentRows
         /\ TrackPayments(S, Relinked(S, i))[p].amount = payments[p].amount
         /\ TrackPayments(S, Relinked(S, i))[p].status \in {"pending", "paid"}
<1>1. p \in S /\ TrackPayments(S, Relinked(S, i))[p] = [payments[p] EXCEPT !.invoice = i]
  BY DEF TrackPayments, Relinked
<1>2. payments[p] \in PaymentRow /\ payments[p].status \in {"pending", "paid"}
  BY <1>1, RowTyped DEF TypeInv, RecordedInv
<1> QED BY <1>1, <1>2 DEF PaymentRow

LEMMA PayRecorded ==
  ASSUME TypeInv, RecordedInv, NEW w \in Workers,
         \/ \E i \in InvoiceIds \cup {None}, a \in Amounts : PayRead(w, i, a)
         \/ PayLock(w)
         \/ \E p \in PaymentIds : PayInsert(w, p)
  PROVE  RecordedInv'
<1>1. ASSUME NEW i, NEW a, PayRead(w, i, a) PROVE RecordedInv'
  BY <1>1, RecordedRead DEF PayRead, Begin, locks, tables, TypeInv, TypeOK
<1>2. CASE PayLock(w)
  <2>1. /\ pc[w] = "pay" /\ pc'[w] = "pay_insert" /\ paymentLock = None /\ paymentLock' = w
        /\ UNCHANGED <<tables, ask, seen>>
        /\ \A v \in Workers \ {w} : pc'[v] = pc[v]
    BY <1>2 DEF PayLock, Advance, TypeInv, TypeOK
  <2>2. Committed + ask[w].amount <= FinalAmount
    BY <1>2, InvoicesArePriced DEF PayLock
  <2>3. InStatus({"paid", "pending"}) = PaymentRows
    BY DEF InStatus, RecordedInv
  <2>4. Committed = Worth(payments, PaymentRows)
    BY <2>3, Totals DEF TypeInv, RecordedInv
  <2>5. \A v \in Workers : pc[v] # "pay_insert"
    BY <2>1, NoneApart DEF RecordedInv, Paying
  <2>6. UNCHANGED <<payments, invoices>> /\ PaymentRows' = PaymentRows /\ InvoiceRows' = InvoiceRows
    BY <2>1 DEF tables, PaymentRows, InvoiceRows
  <2>7. \A v \in Workers : Paying(v)'
    BY <2>1, <2>2, <2>4, <2>5, <2>6 DEF Paying
  <2> QED BY <2>1, <2>6, <2>7 DEF RecordedInv, PaymentTracked, PricedTracked
<1>3. ASSUME NEW p \in PaymentIds, PayInsert(w, p) PROVE RecordedInv'
  <2> DEFINE a == ask[w].amount
             row == [status |-> "pending", amount |-> a, invoice |-> ask[w].invoice]
  <2>1. /\ pc[w] = "pay_insert" /\ payments[p] = None /\ payments' = [payments EXCEPT ![p] = row]
        /\ Finish(w) /\ UNCHANGED <<booking, invoices, items>>
    BY <1>3 DEF PayInsert
  <2>2. paymentLock = w /\ Worth(payments, PaymentRows) + a <= FinalAmount /\ a \in Nat
    BY <2>1 DEF RecordedInv, Paying, TypeInv, TypeOK, Ask
  <2>3. row # None
    <3>1. row \in PaymentRow
      BY DEF TypeInv, TypeOK, Ask, PaymentRow, PaymentStatus
    <3> QED BY <3>1, NoneApart
  <2>4. /\ p \notin PaymentRows /\ PaymentRows' = PaymentRows \cup {p}
        /\ payments'[p] = row /\ \A q \in PaymentRows : q # p /\ payments'[q] = payments[q]
    BY <2>1, <2>3 DEF PaymentRows, TypeInv, TypeOK
  <2>5. IsFiniteSet(PaymentRows')
    BY <2>4, FS_AddElement DEF RecordedInv
  <2>6. Worth(payments', PaymentRows') = a + Worth(payments, PaymentRows)
    <3>1. \A q \in PaymentRows' : payments'[q].amount \in Nat
      BY <2>2, <2>4, RowTyped DEF PaymentRow, TypeInv
    <3>2. PaymentRows' \ {p} = PaymentRows
      BY <2>4
    <3>3. Purse(payments', PaymentRows) = Purse(payments, PaymentRows)
      BY <2>4 DEF Purse, Coins
    <3>4. Worth(payments', PaymentRows') = payments'[p].amount + Worth(payments', PaymentRows' \ {p})
      BY <2>4, <2>5, <3>1, WorthTakes DEF Countable
    <3> QED BY <2>4, <3>2, <3>3, <3>4 DEF Worth
  <2>7. /\ pc'[w] = "idle" /\ seen'[w] = Untracked
        /\ \A v \in Workers \ {w} : pc'[v] = pc[v] /\ seen'[v] = seen[v]
    BY <2>1 DEF Finish, TypeInv, TypeOK
  <2>8. ASSUME NEW v \in Workers
        PROVE  PaymentTracked(v)' /\ PricedTracked(v)' /\ Paying(v)'
    <3>1. CASE v = w
      BY <2>7, <3>1 DEF PaymentTracked, PricedTracked, Paying, Untracked
    <3>2. CASE v # w
      <4>1. pc[v] # "pay_insert"
        BY <2>2, <3>2 DEF RecordedInv, Paying
      <4> QED BY <2>4, <2>7, <3>2, <4>1 DEF RecordedInv, PaymentTracked, PricedTracked, Paying
    <3> QED BY <3>1, <3>2
  <2>9. \A q \in PaymentRows' : payments'[q].status \in {"pending", "paid"}
    BY <2>4 DEF RecordedInv
  <2>10. InvoiceRows' = InvoiceRows
    BY <2>1 DEF InvoiceRows
  <2>11. Worth(payments', PaymentRows') <= FinalAmount
    <3>1. Worth(payments, PaymentRows) \in Nat
      BY Totals, PurseFinite DEF TypeInv, RecordedInv
    <3> QED BY <2>2, <2>6, <3>1, AmountAssumption
  <2> QED BY <2>1, <2>5, <2>8, <2>9, <2>10, <2>11 DEF RecordedInv
<1> QED BY <1>1, <1>2, <1>3

LEMMA MarkPaidRecorded ==
  ASSUME TypeInv, RecordedInv, NEW w \in Workers, NEW p \in PaymentIds, MarkPaidRead(w, p)
  PROVE  RecordedInv'
<1> DEFINE Tracks(i) ==
      [payments |-> TrackPayments({p},
         [q \in {p} |-> [payments[p] EXCEPT !.status = "paid", !.invoice = i]]),
       invoices |-> IF i # None /\ PaidOn(i) + payments[p].amount >= invoices[i].total
                         /\ invoices[i].status # "paid"
                    THEN TrackInvoice(i, [invoices[i] EXCEPT !.status = "paid"])
                    ELSE Untracked.invoices]
<1>1. PICK i : (i # None => i \in ActiveInvoices) /\ seen' = [seen EXCEPT ![w] = Tracks(i)]
  BY DEF MarkPaidRead
<1>2. p \in PaymentRows /\ payments[p] \in PaymentRow
  BY RowTyped DEF MarkPaidRead, InStatus, TypeInv
<1>3. i # None => i \in InvoiceRows /\ invoices[i] \in InvoiceRow /\ invoices[i].total = FinalAmount
  BY <1>1, RowTyped DEF ActiveInvoices, TypeInv, RecordedInv
<1>4. Tracks(i) \in Tracker
  <2>1. TypeInv'
    BY PaymentReadTyped
  <2>2. seen'[w] = Tracks(i)
    <3> HIDE DEF Tracks
    <3> QED BY <1>1 DEF TypeInv, TypeOK
  <2> QED BY <2>1, <2>2 DEF TypeInv, TypeOK
<1>5. ASSUME NEW q \in PaymentIds, Tracks(i).payments[q] # None
      PROVE  /\ q \in PaymentRows /\ Tracks(i).payments[q].amount = payments[q].amount
             /\ Tracks(i).payments[q].status = "paid"
  <2>1. q = p /\ Tracks(i).payments[q] = [payments[p] EXCEPT !.status = "paid", !.invoice = i]
    BY <1>5 DEF TrackPayments
  <2> HIDE DEF Tracks
  <2> QED BY <1>2, <2>1 DEF PaymentRow
<1>6. ASSUME NEW k \in InvoiceIds, Tracks(i).invoices[k] # None
      PROVE  Tracks(i).invoices[k].total = FinalAmount
  <2>1. k = i /\ i # None /\ Tracks(i).invoices[k] = [invoices[i] EXCEPT !.status = "paid"]
    BY <1>6 DEF TrackInvoice, Untracked
  <2> HIDE DEF Tracks
  <2> QED BY <1>3, <2>1 DEF InvoiceRow
<1>7. /\ UNCHANGED <<tables, locks>> /\ pc'[w] = "save"
      /\ \A v \in Workers \ {w} : pc'[v] = pc[v] /\ ask'[v] = ask[v]
  BY DEF MarkPaidRead, Begin, TypeInv, TypeOK
<1> HIDE DEF Tracks
<1> QED BY <1>1, <1>4, <1>5, <1>6, <1>7, RecordedRead DEF tables, locks

LEMMA LinkRecorded ==
  ASSUME TypeInv, RecordedInv, NEW w \in Workers, NEW statuses, LinkRead(w, statuses),
         statuses \in {PaymentStatus, {"paid"}}
  PROVE  RecordedInv'
<1> DEFINE orphans == InStatus(statuses) \cap LinkedTo(None)
<1>1. PICK i : seen' = [seen EXCEPT ![w].payments = TrackPayments(orphans, Relinked(orphans, i))]
  BY DEF LinkRead
<1>2. orphans \in SUBSET PaymentRows
  BY DEF InStatus
<1> HIDE DEF orphans
<1> DEFINE rows == [seen[w] EXCEPT !.payments = TrackPayments(orphans, Relinked(orphans, i))]
<1>3. seen' = [seen EXCEPT ![w] = rows] /\ seen[w] \in Tracker
  BY <1>1 DEF TypeInv, TypeOK
<1>4. rows \in Tracker
  <2>1. TypeInv' /\ seen'[w] = rows
    BY <1>3, PaymentReadTyped DEF TypeInv, TypeOK
  <2> QED BY <2>1 DEF TypeInv, TypeOK
<1>5. rows.payments = TrackPayments(orphans, Relinked(orphans, i)) /\ rows.invoices = seen[w].invoices
  BY <1>3 DEF Tracker
<1>6. /\ UNCHANGED <<tables, locks>> /\ pc'[w] = "save"
      /\ \A v \in Workers \ {w} : pc'[v] = pc[v] /\ ask'[v] = ask[v]
  BY DEF LinkRead, Begin, TypeInv, TypeOK
<1> HIDE DEF rows
<1>7. \A p \in PaymentIds : rows.payments[p] # None =>
       /\ p \in PaymentRows /\ rows.payments[p].amount = payments[p].amount
       /\ rows.payments[p].status \in {"pending", "paid"}
  BY <1>2, <1>5, RelinkedRows
<1>8. UNCHANGED <<invoices, payments, paymentLock>>
  BY <1>6 DEF tables, locks
<1> QED BY <1>3, <1>4, <1>5, <1>6, <1>7, <1>8, RecordedRead

LEMMA SaveRecorded ==
  ASSUME TypeInv, RecordedInv, NEW w \in Workers, Save(w)
  PROVE  RecordedInv'
<1>1. /\ \A p \in PaymentIds : payments'[p] =
           IF seen[w].payments[p] # None THEN seen[w].payments[p] ELSE payments[p]
      /\ \A i \in InvoiceIds : invoices'[i] =
           IF seen[w].invoices[i] # None THEN seen[w].invoices[i] ELSE invoices[i]
  BY DEF Save
<1>2. SameAmounts /\ \A p \in PaymentRows : payments'[p].status \in {"pending", "paid"}
  BY <1>1 DEF SameAmounts, PaymentRows, RecordedInv, PaymentTracked
<1>3. \A i \in InvoiceRows' : invoices'[i].total = FinalAmount
  BY <1>1 DEF InvoiceRows, RecordedInv, PricedTracked
<1> QED BY <1>2, <1>3, RecordedEnd DEF Save

LEMMA InsertRecorded ==
  ASSUME TypeInv, RecordedInv, NEW w \in Workers, NEW j \in InvoiceIds, NEW status, NEW lines,
         InsertInvoice(w, j, status, FinalAmount, lines), Finish(w)
  PROVE  RecordedInv'
<1>1. /\ \A p \in PaymentIds : payments'[p] =
           IF seen[w].payments[p] # None THEN [seen[w].payments[p] EXCEPT !.invoice = j]
           ELSE payments[p]
      /\ \A i \in InvoiceIds : invoices'[i] =
           IF i = j THEN [status |-> status, total |-> FinalAmount]
           ELSE IF seen[w].invoices[i] # None THEN seen[w].invoices[i] ELSE invoices[i]
  BY DEF InsertInvoice
<1>2. SameAmounts /\ \A p \in PaymentRows : payments'[p].status \in {"pending", "paid"}
  <2>1. \A p \in PaymentIds : seen[w].payments[p] # None =>
          /\ p \in PaymentRows /\ payments'[p] # None
          /\ payments'[p].amount = payments[p].amount /\ payments'[p].status \in {"pending", "paid"}
    <3>1. ASSUME NEW p \in PaymentIds, seen[w].payments[p] # None
          PROVE  /\ p \in PaymentRows /\ [seen[w].payments[p] EXCEPT !.invoice = j] \in PaymentRow
                 /\ [seen[w].payments[p] EXCEPT !.invoice = j].amount = payments[p].amount
                 /\ [seen[w].payments[p] EXCEPT !.invoice = j].status \in {"pending", "paid"}
      <4>1. seen[w].payments[p] \in PaymentRow
        BY <3>1 DEF TypeInv, TypeOK, Tracker
      <4> QED BY <3>1, <4>1 DEF PaymentRow, RecordedInv, PaymentTracked
    <3> QED BY <1>1, <3>1, NoneApart
  <2> QED BY <1>1, <2>1 DEF SameAmounts, PaymentRows, RecordedInv
<1>3. \A i \in InvoiceRows' : invoices'[i].total = FinalAmount
  BY <1>1 DEF InvoiceRows, RecordedInv, PricedTracked
<1> QED BY <1>2, <1>3, RecordedEnd

LEMMA DraftRecorded ==
  ASSUME TypeInv, RecordedInv, NEW w \in Workers,
         \/ DraftRead(w) \/ ConfirmRead(w) \/ DraftLock(w)
         \/ \E i \in InvoiceIds : ReissueRead(w, i)
  PROVE  RecordedInv'
<1>1. UNCHANGED <<payments, invoices, paymentLock, seen>> /\ pc'[w] # "pay_insert"
      /\ \A v \in Workers \ {w} : pc'[v] = pc[v] /\ ask'[v] = ask[v]
  BY DEF DraftRead, ConfirmRead, DraftLock, ReissueRead, Begin, Advance, tables, locks,
     TypeInv, TypeOK
<1>2. seen' = [seen EXCEPT ![w] = seen[w]] /\ seen[w] \in Tracker
  BY <1>1 DEF TypeInv, TypeOK
<1> QED BY <1>1, <1>2, RecordedRead

\* The tracked payments are replaced by relinked ones, the invoices stay.
LEMMA CarryRecorded ==
  ASSUME TypeInv, TypeInv', RecordedInv, NEW w \in Workers, NEW S \in SUBSET PaymentRows,
         seen' = [seen EXCEPT ![w].payments = TrackPayments(S, Relinked(S, None))],
         UNCHANGED <<invoices, payments, paymentLock>>, pc'[w] # "pay_insert",
         \A v \in Workers \ {w} : pc'[v] = pc[v] /\ ask'[v] = ask[v]
  PROVE  RecordedInv'
<1> DEFINE rows == [seen[w] EXCEPT !.payments = TrackPayments(S, Relinked(S, None))]
<1>1. seen' = [seen EXCEPT ![w] = rows] /\ seen[w] \in Tracker
  BY DEF TypeInv, TypeOK
<1>2. rows \in Tracker
  <2>1. seen'[w] = rows
    BY <1>1 DEF TypeInv, TypeOK
  <2> QED BY <2>1 DEF TypeInv, TypeOK
<1>3. rows.payments = TrackPayments(S, Relinked(S, None)) /\ rows.invoices = seen[w].invoices
  BY <1>1 DEF Tracker
<1> HIDE DEF rows
<1>4. \A p \in PaymentIds : rows.payments[p] # None =>
       /\ p \in PaymentRows /\ rows.payments[p].amount = payments[p].amount
       /\ rows.payments[p].status \in {"pending", "paid"}
  BY <1>3, RelinkedRows
<1> QED BY <1>1, <1>2, <1>3, <1>4, RecordedRead

LEMMA ConfirmRecorded ==
  ASSUME TypeInv, RecordedInv, NEW w \in Workers, ConfirmIssue(w)
  PROVE  RecordedInv'
<1>1. TypeInv' /\ LinkedTo(None) \in SUBSET PaymentRows
  BY ConfirmTyped DEF LinkedTo
<1>2. /\ seen' = [seen EXCEPT ![w].payments =
           TrackPayments(LinkedTo(None), Relinked(LinkedTo(None), None))]
      /\ UNCHANGED <<invoices, payments, paymentLock>> /\ pc'[w] # "pay_insert"
      /\ \A v \in Workers \ {w} : pc'[v] = pc[v] /\ ask'[v] = ask[v]
  BY DEF ConfirmIssue, Advance, tables, locks, TypeInv, TypeOK
<1> QED BY <1>1, <1>2, CarryRecorded

LEMMA FlushRecorded ==
  ASSUME TypeInv, RecordedInv, NEW w \in Workers, ReissueFlush(w)
  PROVE  RecordedInv'
<1> DEFINE carried == LinkedTo(ask[w].invoice) \cup LinkedTo(None)
<1>1. TypeInv' /\ carried \in SUBSET PaymentRows
  BY ReissueTyped DEF LinkedTo
<1>2. /\ seen' = [seen EXCEPT ![w].payments = TrackPayments(carried, Relinked(carried, None))]
      /\ UNCHANGED <<invoices, payments, paymentLock>> /\ pc'[w] # "pay_insert"
      /\ \A v \in Workers \ {w} : pc'[v] = pc[v] /\ ask'[v] = ask[v]
  BY DEF ReissueFlush, Advance, tables, TypeInv, TypeOK
<1> HIDE DEF carried
<1> QED BY <1>1, <1>2, CarryRecorded

\* An invoice row is tracked with another status.
LEMMA RestatusRecorded ==
  ASSUME TypeInv, TypeInv', RecordedInv, NEW w \in Workers, NEW i \in InvoiceRows, NEW status,
         seen' = [seen EXCEPT ![w].invoices = TrackInvoice(i, [invoices[i] EXCEPT !.status = status])],
         UNCHANGED <<invoices, payments>>, pc'[w] # "pay_insert",
         \A v \in Workers \ {w} :
           pc'[v] = pc[v] /\ ask'[v] = ask[v] /\ (paymentLock = v => paymentLock' = v)
  PROVE  RecordedInv'
<1> DEFINE row == [invoices[i] EXCEPT !.status = status]
           rows == [seen[w] EXCEPT !.invoices = TrackInvoice(i, row)]
<1>1. seen' = [seen EXCEPT ![w] = rows] /\ seen[w] \in Tracker
  BY DEF TypeInv, TypeOK
<1>2. rows \in Tracker
  <2>1. seen'[w] = rows
    BY <1>1 DEF TypeInv, TypeOK
  <2> QED BY <2>1 DEF TypeInv, TypeOK
<1>3. rows.invoices = TrackInvoice(i, row) /\ rows.payments = seen[w].payments
  BY <1>1 DEF Tracker
<1>4. row.total = FinalAmount
  BY RowTyped DEF TypeInv, InvoiceRow, RecordedInv
<1> HIDE DEF row
<1>5. \A k \in InvoiceIds : rows.invoices[k] # None => rows.invoices[k].total = FinalAmount
  BY <1>3, <1>4 DEF TrackInvoice, Untracked
<1> HIDE DEF rows
<1> QED BY <1>1, <1>2, <1>3, <1>5, RecordedRead

LEMMA StatusRecorded ==
  ASSUME TypeInv, RecordedInv, NEW w \in Workers,
         \/ \E i \in InvoiceIds : CancelRead(w, i)
         \/ ReissueLock(w)
  PROVE  RecordedInv'
<1>1. ASSUME NEW i \in InvoiceIds, CancelRead(w, i) PROVE RecordedInv'
  <2>1. TypeInv' /\ i \in InvoiceRows
    BY <1>1, UnlockedReadTyped DEF CancelRead
  <2>2. /\ seen' = [seen EXCEPT ![w].invoices =
             TrackInvoice(i, [invoices[i] EXCEPT !.status = "cancelled"])]
        /\ UNCHANGED <<invoices, payments, paymentLock>> /\ pc'[w] # "pay_insert"
        /\ \A v \in Workers \ {w} : pc'[v] = pc[v] /\ ask'[v] = ask[v]
    BY <1>1 DEF CancelRead, Begin, tables, locks, TypeInv, TypeOK
  <2> QED BY <2>1, <2>2, RestatusRecorded
<1>2. CASE ReissueLock(w)
  <2>1. TypeInv' /\ ask[w].invoice \in InvoiceRows
    BY <1>2, ReissueTyped DEF ReissueLock, Reissuable
  <2>2. /\ seen' = [seen EXCEPT ![w].invoices =
             TrackInvoice(ask[w].invoice, [invoices[ask[w].invoice] EXCEPT !.status = "superseded"])]
        /\ UNCHANGED <<invoices, payments, paymentLock>> /\ pc'[w] # "pay_insert"
        /\ \A v \in Workers \ {w} : pc'[v] = pc[v] /\ ask'[v] = ask[v]
    BY <1>2 DEF ReissueLock, Advance, tables, TypeInv, TypeOK
  <2> QED BY <2>1, <2>2, RestatusRecorded
<1> QED BY <1>1, <1>2

LEMMA IssueRecorded ==
  ASSUME TypeInv, RecordedInv, NEW w \in Workers, NEW i \in InvoiceIds, IssueRead(w, i)
  PROVE  RecordedInv'
<1> DEFINE orphans == LinkedTo(None)
           row == [invoices[i] EXCEPT !.status = PaidIf(PaidOn(i) >= invoices[i].total)]
           rows == [invoices |-> TrackInvoice(i, row),
                    payments |-> TrackPayments(orphans, Relinked(orphans, i))]
<1>1. /\ i \in InvoiceRows /\ seen' = [seen EXCEPT ![w] = rows] /\ pc'[w] # "pay_insert"
      /\ UNCHANGED <<invoices, payments, paymentLock>>
      /\ \A v \in Workers \ {w} : pc'[v] = pc[v] /\ ask'[v] = ask[v]
  BY DEF IssueRead, Begin, tables, locks, TypeInv, TypeOK
<1>2. rows \in Tracker
  <2>1. TypeInv'
    BY UnlockedReadTyped
  <2>2. seen'[w] = rows
    <3> HIDE DEF rows
    <3> QED BY <1>1 DEF TypeInv, TypeOK
  <2> QED BY <2>1, <2>2 DEF TypeInv, TypeOK
<1>3. row.total = FinalAmount
  BY <1>1, RowTyped DEF TypeInv, InvoiceRow, RecordedInv
<1>4. orphans \in SUBSET PaymentRows
  BY DEF LinkedTo
<1> HIDE DEF row, orphans
<1>5. \A k \in InvoiceIds : rows.invoices[k] # None => rows.invoices[k].total = FinalAmount
  BY <1>3 DEF TrackInvoice, Untracked
<1>6. rows.payments = TrackPayments(orphans, Relinked(orphans, i))
  OBVIOUS
<1> HIDE DEF rows
<1>7. \A p \in PaymentIds : rows.payments[p] # None =>
       /\ p \in PaymentRows /\ rows.payments[p].amount = payments[p].amount
       /\ rows.payments[p].status \in {"pending", "paid"}
  BY <1>4, <1>6, RelinkedRows
<1> QED BY <1>1, <1>2, <1>5, <1>7, RecordedRead

LEMMA ReissueRecorded ==
  ASSUME TypeInv, RecordedInv, NEW w \in Workers, NEW j \in InvoiceIds, ReissueSave(w, j)
  PROVE  RecordedInv'
<1>1. ask[w].invoice \in InvoiceIds /\ seen[w].invoices[ask[w].invoice] # None
  BY NoneApart DEF ReissueSave, TypeInv, Fits
<1>2. seen[w].invoices[ask[w].invoice].total = FinalAmount
  BY <1>1 DEF RecordedInv, PricedTracked
<1> QED BY <1>2, InsertRecorded DEF ReissueSave

LEMMA InitRecorded == Init => RecordedInv
<1> SUFFICES ASSUME Init PROVE RecordedInv
  OBVIOUS
<1>1. PaymentRows = {} /\ InvoiceRows = {}
  BY DEF Init, Quiet, PaymentRows, InvoiceRows
<1>2. IsFiniteSet(PaymentRows) /\ Worth(payments, PaymentRows) = 0
  BY <1>1, FS_EmptySet, WorthNothing
<1> QED BY <1>1, <1>2, AmountAssumption
        DEF Init, Quiet, RecordedInv, PaymentTracked, PricedTracked, Paying, Untracked

LEMMA StepKeepsRecorded ==
  ASSUME PricedTraffic
  PROVE  TypeInv /\ RecordedInv /\ [Next]_vars => RecordedInv'
<1> SUFFICES ASSUME TypeInv, RecordedInv, [Next]_vars PROVE RecordedInv'
  OBVIOUS
<1>1. ASSUME NEW w \in Workers, Request(w) PROVE RecordedInv'
  BY <1>1, PayRecorded, MarkPaidRecorded, LinkRecorded, DraftRecorded, IssueRecorded,
     StatusRecorded DEF Request, PricedTraffic
<1>2. ASSUME NEW w \in Workers, Proceed(w) PROVE RecordedInv'
  <2>1. ASSUME NEW j \in InvoiceIds, DraftInsert(w, j) \/ ConfirmSave(w, j) PROVE RecordedInv'
    BY <2>1, InsertRecorded DEF DraftInsert, ConfirmSave
  <2> QED BY <1>2, <2>1, PayRecorded, SaveRecorded, DraftRecorded, ConfirmRecorded, StatusRecorded,
          FlushRecorded, ReissueRecorded DEF Proceed
<1>3. ASSUME NEW w \in Workers, Abort(w) PROVE RecordedInv'
  <2>1. SameAmounts /\ InvoiceRows' = InvoiceRows /\ UNCHANGED <<invoices, payments>>
    BY <1>3 DEF Abort, tables, SameAmounts, PaymentRows, InvoiceRows
  <2> QED BY <1>3, <2>1, RecordedEnd DEF Abort, RecordedInv
<1>4. ASSUME UNCHANGED <<invoices, payments, paymentLock, session>> PROVE RecordedInv'
  BY <1>4 DEF session, RecordedInv, PaymentTracked, PricedTracked, Paying, PaymentRows, InvoiceRows
<1>5. CASE Lifecycle
  BY <1>4, <1>5 DEF Lifecycle, ConfirmKeepsInvoice, BookingDropped, locks
<1>6. CASE UNCHANGED vars
  BY <1>4, <1>6 DEF vars, tables, locks
<1> QED BY <1>1, <1>2, <1>3, <1>5, <1>6 DEF Next

\* Received and pending payments stay within the price.
LEMMA RecordedFits ==
  ASSUME TypeInv, RecordedInv
  PROVE  /\ AmountsOwed = {FinalAmount} /\ Committed <= FinalAmount
         /\ Sum(InStatus({"paid"})) <= FinalAmount
<1>1. /\ Countable(payments, PaymentRows)
      /\ Committed = Worth(payments, InStatus({"paid", "pending"}))
      /\ Sum(InStatus({"paid"})) = Worth(payments, InStatus({"paid"}))
  BY Totals DEF TypeInv, RecordedInv, InStatus
<1>2. ASSUME NEW S \in SUBSET PaymentRows
      PROVE  Worth(payments, S) <= FinalAmount
  <2>1. /\ Worth(payments, S) <= Worth(payments, PaymentRows)
        /\ Worth(payments, S) \in Nat /\ Worth(payments, PaymentRows) \in Nat
    BY <1>1, WorthGrows
  <2> QED BY <2>1, AmountAssumption DEF RecordedInv
<1>3. InStatus({"paid", "pending"}) \subseteq PaymentRows /\ InStatus({"paid"}) \subseteq PaymentRows
  BY DEF InStatus
<1> QED BY <1>1, <1>2, <1>3, InvoicesArePriced

\* However many payments are recorded, received and linked while invoices are
\* drafted, issued, cancelled and reissued, the payment lock keeps each one
\* within the price, together with all that was recorded before.
THEOREM RecordsWithinOwed ==
  ASSUME PricedTraffic
  PROVE  Spec => RecordedWithinOwed
<1>1. TypeInv /\ RecordedInv /\ (TypeInv /\ RecordedInv)' => \A owed \in AmountsOwed : Committed' <= owed
  <2>1. RecordedInv => AmountsOwed = {FinalAmount}
    BY InvoicesArePriced
  <2>2. (TypeInv /\ RecordedInv => Committed <= FinalAmount)'
    BY RecordedFits, PTL
  <2> QED BY <2>1, <2>2
<1> QED BY <1>1, InitTyped, StepKeepsTypes, InitRecorded, StepKeepsRecorded, PTL
        DEF Spec, RecordedWithinOwed

\* While payments are recorded, received and linked beside drafts, issues,
\* cancellations and reissues, a booking is never overpaid.
THEOREM NeverOverpaid ==
  ASSUME PricedTraffic
  PROVE  Spec => []PaidWithinOwed
<1>1. TypeInv /\ RecordedInv => PaidWithinOwed
  BY RecordedFits DEF PaidWithinOwed, Receipts
<1> QED BY <1>1, InitTyped, StepKeepsTypes, InitRecorded, StepKeepsRecorded, PTL DEF Spec

-----------------------------------------------------------------------------
(* The books of one request at a time *)

\* inv and pay are the tables as they are, or as a request will leave them.
Live(inv) ==
  {i \in InvoiceIds : inv[i] # None /\ inv[i].status \notin {"cancelled", "superseded"}}

\* One active invoice, which holds every linked payment that was received; an
\* invoice marked as paid is covered; and the price covers what is unlinked,
\* as it must once the invoice is cancelled.
Sound(inv, pay) ==
  /\ inv \in [InvoiceIds -> InvoiceRow \cup {None}]
  /\ pay \in [PaymentIds -> PaymentRow \cup {None}]
  /\ IsFiniteSet(Rows(pay))
  /\ \A i, j \in Live(inv) : i = j
  /\ \A p \in Received(pay) : pay[p].invoice \in Live(inv) \cup {None}
  /\ \A i \in Live(inv) :
       inv[i].status = "paid" => Worth(pay, PaidFor(pay, i)) >= inv[i].total
  /\ Worth(pay, PaidFor(pay, None)) <= FinalAmount

\* No more was received than is owed.
Within(inv, pay) ==
  /\ Live(inv) = {} => Worth(pay, Received(pay)) <= FinalAmount
  /\ \A i \in Live(inv) : Worth(pay, Received(pay)) <= inv[i].total

\* What a save may leave: sound books without a new active invoice, in which
\* what was newly received fits.
Leaves(inv2, pay2) ==
  /\ Sound(inv2, pay2) /\ Live(inv2) \subseteq Live(invoices)
  /\ \/ Worth(pay2, Received(pay2)) = Worth(payments, Received(payments))
     \/ Within(inv2, pay2)

\* A step overpays a booking only by lowering the total of an invoice.
Lowers == \E i \in InvoiceRows : invoices'[i].total < invoices[i].total

Excused ==
  \/ Within(invoices', payments') \/ Lowers
  \/ /\ ~Within(invoices, payments)
     /\ Worth(payments', Received(payments')) = Worth(payments, Received(payments))

\* A table once the changed rows are written back.
Written(table, rows) == [k \in DOMAIN table |-> IF rows[k] # None THEN rows[k] ELSE table[k]]

Superseded(i) == TrackInvoice(i, [invoices[i] EXCEPT !.status = "superseded"])
Carried(S) == TrackPayments(S, Relinked(S, None))

\* What a request knows at each of its steps.  Nobody else writes.
Serving(w) ==
  /\ pc[w] \in {"draft_insert", "confirm_draft", "confirm_save"} => ActiveInvoices = {}
  /\ pc[w] = "save" =>
       Leaves(Written(invoices, seen[w].invoices), Written(payments, seen[w].payments))
  /\ pc[w] = "confirm_save" =>
       /\ seen[w].invoices = Untracked.invoices
       /\ seen[w].payments = Carried(LinkedTo(None))
       /\ ask[w].to = "paid" => FinalAmount = 0
  /\ pc[w] \in {"reissue", "reissue_locked", "reissue_save"} =>
       Reissuable(ask[w].invoice)
  /\ pc[w] \in {"reissue_locked", "reissue_save"} => seen[w].invoices = Superseded(ask[w].invoice)
  /\ pc[w] = "reissue_locked" => seen[w].payments = Untracked.payments
  /\ pc[w] = "reissue_save" =>
       LET carried == LinkedTo(ask[w].invoice) \cup LinkedTo(None)
       IN  /\ seen[w].payments = Carried(carried)
           /\ ask[w].to = "paid" =>
                Worth(payments, InStatus({"paid"}) \cap carried) >= invoices[ask[w].invoice].total
  /\ pc[w] \notin {"save", "confirm_save", "reissue_locked", "reissue_save"} => seen[w] = Untracked

BookInv == Sound(invoices, payments) /\ \A w \in Workers : Serving(w)

-----------------------------------------------------------------------------
(* Tables *)

LEMMA RowsCount ==
  ASSUME NEW inv, NEW pay, Sound(inv, pay)
  PROVE  /\ \A S \in SUBSET Rows(pay) : Countable(pay, S) /\ Worth(pay, S) \in Nat
         /\ Received(pay) \in SUBSET Rows(pay) /\ \A i : PaidFor(pay, i) \in SUBSET Rows(pay)
         /\ \A i \in Live(inv) : inv[i] \in InvoiceRow /\ inv[i].total \in Nat
<1>1. \A p \in Rows(pay) : pay[p].amount \in Nat
  BY DEF Sound, Rows, PaymentRow
<1>2. \A S \in SUBSET Rows(pay) : Countable(pay, S)
  BY <1>1, FS_Subset DEF Sound, Countable
<1>3. \A S \in SUBSET Rows(pay) : Worth(pay, S) \in Nat
  BY <1>2, PurseFinite
<1>4. Received(pay) \in SUBSET Rows(pay) /\ \A i : PaidFor(pay, i) \in SUBSET Rows(pay)
  BY DEF Received, PaidFor
<1>5. \A i \in Live(inv) : inv[i] \in InvoiceRow /\ inv[i].total \in Nat
  BY DEF Sound, Live, InvoiceRow
<1> QED BY <1>2, <1>3, <1>4, <1>5

\* Payments of the same amounts are worth the same.
LEMMA SamePurse ==
  ASSUME NEW pay, NEW pay2, NEW S, \A p \in S : pay2[p].amount = pay[p].amount
  PROVE  Worth(pay2, S) = Worth(pay, S)
<1>1. Purse(pay2, S) = Purse(pay, S)
  BY DEF Purse, Coins
<1> QED BY <1>1 DEF Worth

LEMMA AllUnlinked ==
  ASSUME NEW inv, NEW pay, Sound(inv, pay), Live(inv) = {}
  PROVE  PaidFor(pay, None) = Received(pay)
BY DEF Sound, PaidFor

\* No payment is received or withdrawn: the books stay sound when the links
\* and the invoices agree.
LEMMA SoundKept ==
  ASSUME NEW inv, NEW pay, Sound(inv, pay),
         NEW inv2 \in [InvoiceIds -> InvoiceRow \cup {None}],
         NEW pay2 \in [PaymentIds -> PaymentRow \cup {None}],
         IsFiniteSet(Rows(pay2)), Received(pay2) = Received(pay),
         \A p \in Received(pay) : pay2[p].amount = pay[p].amount,
         \A i, j \in Live(inv2) : i = j,
         \A p \in Received(pay) : pay2[p].invoice \in Live(inv2) \cup {None},
         \A p \in Received(pay) : pay2[p].invoice = None => pay[p].invoice = None,
         \A i \in Live(inv2) : inv2[i].status = "paid" =>
           \E S \in SUBSET PaidFor(pay2, i) : Worth(pay, S) >= inv2[i].total
  PROVE  /\ Sound(inv2, pay2)
         /\ Worth(pay2, Received(pay2)) = Worth(pay, Received(pay))
<1>1. ASSUME NEW i \in Live(inv2), inv2[i].status = "paid"
      PROVE  Worth(pay2, PaidFor(pay2, i)) >= inv2[i].total
  <2>1. PICK S \in SUBSET PaidFor(pay2, i) : Worth(pay, S) >= inv2[i].total
    BY <1>1
  <2>2. \A p \in PaidFor(pay2, i) : p \in Received(pay) /\ pay2[p].amount \in Nat
    BY DEF PaidFor, Received, Rows, PaymentRow
  <2>3. Countable(pay2, PaidFor(pay2, i))
    <3>1. PaidFor(pay2, i) \subseteq Rows(pay2)
      BY DEF PaidFor, Received
    <3> QED BY <2>2, <3>1, FS_Subset DEF Countable
  <2>4. Worth(pay, S) <= Worth(pay2, PaidFor(pay2, i)) /\ Worth(pay, S) \in Nat
        /\ Worth(pay2, PaidFor(pay2, i)) \in Nat
    BY <2>2, <2>3, WorthGrows
  <2>5. inv2[i].total \in Nat
    BY DEF Live, InvoiceRow
  <2> QED BY <2>1, <2>4, <2>5
<1>2. Worth(pay2, PaidFor(pay2, None)) <= Worth(pay, PaidFor(pay, None))
      /\ Worth(pay2, PaidFor(pay2, None)) \in Nat /\ Worth(pay, PaidFor(pay, None)) \in Nat
  <2>1. PaidFor(pay2, None) \subseteq PaidFor(pay, None)
        /\ \A p \in PaidFor(pay2, None) : pay2[p].amount = pay[p].amount
    BY DEF PaidFor
  <2>2. Countable(pay, PaidFor(pay, None))
    BY RowsCount
  <2> QED BY <2>1, <2>2, WorthGrows
<1>3. Worth(pay2, PaidFor(pay2, None)) <= FinalAmount
  BY <1>2, AmountAssumption DEF Sound
<1>4. Worth(pay2, Received(pay2)) = Worth(pay, Received(pay))
  BY SamePurse
<1>5. Sound(inv2, pay2)
  BY <1>1, <1>3 DEF Sound
<1> QED BY <1>4, <1>5

\* Books of the same worth, without a new active invoice, are overpaid only
\* if they were before or if a total was lowered.
LEMMA SteadyBooks ==
  ASSUME Sound(invoices, payments), Sound(invoices', payments'),
         Live(invoices') \subseteq Live(invoices),
         Worth(payments', Received(payments')) = Worth(payments, Received(payments))
  PROVE  Excused
<1> SUFFICES ASSUME Within(invoices, payments), ~Lowers
             PROVE  Within(invoices', payments')
  BY DEF Excused
<1>1. Live(invoices') = {} => Worth(payments', Received(payments')) <= FinalAmount
  <2>1. Live(invoices') = {} => PaidFor(payments', None) = Received(payments')
    BY AllUnlinked
  <2> QED BY <2>1 DEF Sound
<1>2. ASSUME NEW k \in Live(invoices')
      PROVE  Worth(payments', Received(payments')) <= invoices'[k].total
  <2>1. Worth(payments, Received(payments)) <= invoices[k].total
    BY <1>2 DEF Within
  <2>2. Worth(payments, Received(payments)) \in Nat /\ invoices[k].total \in Nat
    BY <1>2, RowsCount
  <2>3. invoices'[k].total \in Nat
    BY <1>2, RowsCount
  <2>4. k \in InvoiceRows
    BY <1>2 DEF Live, InvoiceRows
  <2>5. invoices'[k].total >= invoices[k].total
    BY <2>2, <2>3, <2>4 DEF Lowers
  <2> QED BY <2>1, <2>2, <2>3, <2>5
<1> QED BY <1>1, <1>2 DEF Within

-----------------------------------------------------------------------------
(* Writing the changed rows back *)

LEMMA BooksNow ==
  ASSUME TypeInv, Sound(invoices, payments)
  PROVE  /\ Rows(payments) = PaymentRows /\ IsFiniteSet(PaymentRows)
         /\ Live(invoices) = ActiveInvoices
         /\ Received(payments) = InStatus({"paid"})
         /\ \A i : PaidFor(payments, i) = InStatus({"paid"}) \cap LinkedTo(i)
         /\ \A S \in SUBSET PaymentRows : Sum(S) = Worth(payments, S) /\ Sum(S) \in Nat
         /\ \A i : PaidOn(i) = Worth(payments, PaidFor(payments, i))
<1>1. Sound(invoices, payments)
  OBVIOUS
<1>2. Rows(payments) = PaymentRows /\ Live(invoices) = ActiveInvoices
  BY DEF Rows, PaymentRows, Live, ActiveInvoices, InvoiceRows
<1>3. IsFiniteSet(PaymentRows)
  BY <1>1, <1>2 DEF Sound
<1>4. /\ Received(payments) = InStatus({"paid"})
      /\ \A i : PaidFor(payments, i) = InStatus({"paid"}) \cap LinkedTo(i)
  BY <1>2 DEF Received, InStatus, PaidFor, LinkedTo
<1>5. \A S \in SUBSET PaymentRows : Sum(S) = Worth(payments, S)
  BY <1>3, Totals DEF TypeInv
<1>6. \A S \in SUBSET PaymentRows : Worth(payments, S) \in Nat
  BY <1>1, <1>2, RowsCount
<1>7. \A i : PaidOn(i) = Worth(payments, PaidFor(payments, i))
  BY <1>3, Totals DEF TypeInv
<1> QED BY <1>1, <1>2, <1>3, <1>4, <1>5, <1>6, <1>7

LEMMA WrittenPayments ==
  ASSUME TypeInv, NEW S \in SUBSET PaymentRows, NEW row, \A p \in S : row[p] \in PaymentRow
  PROVE  LET pay2 == Written(payments, TrackPayments(S, row))
         IN  /\ pay2 \in [PaymentIds -> PaymentRow \cup {None}]
             /\ \A p \in PaymentIds : pay2[p] = IF p \in S THEN row[p] ELSE payments[p]
             /\ Rows(pay2) = PaymentRows
<1> DEFINE pay2 == Written(payments, TrackPayments(S, row))
<1>1. \A p \in PaymentIds : pay2[p] = IF p \in S THEN row[p] ELSE payments[p]
  BY NoneApart DEF Written, TrackPayments, TypeInv, TypeOK
<1>2. DOMAIN pay2 = PaymentIds /\ pay2 = [p \in PaymentIds |-> pay2[p]]
  BY DEF Written, TypeInv, TypeOK
<1> HIDE DEF pay2
<1>3. pay2 \in [PaymentIds -> PaymentRow \cup {None}]
  BY <1>1, <1>2 DEF TypeInv, TypeOK
<1>4. Rows(pay2) = PaymentRows
  BY <1>1, NoneApart DEF Rows, PaymentRows
<1> QED BY <1>1, <1>3, <1>4 DEF pay2

LEMMA WrittenInvoice ==
  ASSUME TypeInv, NEW i \in InvoiceRows, NEW row \in InvoiceRow
  PROVE  LET inv2 == Written(invoices, TrackInvoice(i, row))
         IN  /\ inv2 \in [InvoiceIds -> InvoiceRow \cup {None}]
             /\ inv2[i] = row /\ \A k \in InvoiceIds \ {i} : inv2[k] = invoices[k]
<1> DEFINE rows == TrackInvoice(i, row)
<1>1. i \in InvoiceIds /\ rows[i] = row /\ row # None /\ \A k \in InvoiceIds \ {i} : rows[k] = None
  BY InvoiceTracked, NoneApart DEF InvoiceRows
<1> HIDE DEF rows
<1>2. /\ Written(invoices, rows) \in [InvoiceIds -> InvoiceRow \cup {None}]
      /\ Written(invoices, rows)[i] = row
      /\ \A k \in InvoiceIds \ {i} : Written(invoices, rows)[k] = invoices[k]
  BY <1>1 DEF Written, TypeInv, TypeOK
<1> QED BY <1>2 DEF rows

LEMMA NothingWritten ==
  ASSUME TypeInv
  PROVE  /\ Written(invoices, Untracked.invoices) = invoices
         /\ Written(payments, Untracked.payments) = payments
BY DEF Written, Untracked, TypeInv, TypeOK

\* Sound books in which the same was received.
Balanced(inv2, pay2) ==
  /\ Sound(inv2, pay2)
  /\ Worth(pay2, Received(pay2)) = Worth(payments, Received(payments))

\* The payments in S get another link.
Relinks(S, i, pay2) ==
  /\ pay2 \in [PaymentIds -> PaymentRow \cup {None}]
  /\ \A p \in PaymentIds :
       pay2[p] = IF p \in S THEN [payments[p] EXCEPT !.invoice = i] ELSE payments[p]

LEMMA RelinkBooks ==
  ASSUME TypeInv, Sound(invoices, payments),
         NEW S \in SUBSET PaymentRows, NEW i, NEW pay2, Relinks(S, i, pay2),
         NEW inv2 \in [InvoiceIds -> InvoiceRow \cup {None}],
         \A k, l \in Live(inv2) : k = l,
         S = {} \/ i \in Live(inv2),
         \A p \in Received(payments) \ S : payments[p].invoice \in Live(inv2) \cup {None},
         \A k \in Live(inv2) : inv2[k].status = "paid" =>
           \E T \in SUBSET Received(payments) :
             /\ Worth(payments, T) >= inv2[k].total
             /\ \A p \in T : IF p \in S THEN i = k ELSE payments[p].invoice = k
  PROVE  Balanced(inv2, pay2)
<1>1. \A p \in PaymentRows : payments[p] \in PaymentRow
  BY RowTyped DEF TypeInv
<1>2. \A p \in PaymentRows :
        /\ pay2[p] # None /\ pay2[p].status = payments[p].status
        /\ pay2[p].amount = payments[p].amount
        /\ pay2[p].invoice = IF p \in S THEN i ELSE payments[p].invoice
  <2> SUFFICES ASSUME NEW p \in PaymentRows
               PROVE  /\ pay2[p] # None /\ pay2[p].status = payments[p].status
                      /\ pay2[p].amount = payments[p].amount
                      /\ pay2[p].invoice = IF p \in S THEN i ELSE payments[p].invoice
    OBVIOUS
  <2>1. p \in PaymentIds /\ payments[p] # None /\ payments[p] \in PaymentRow
    BY <1>1 DEF PaymentRows
  <2>2. CASE p \in S
    <3>1. pay2[p] = [payments[p] EXCEPT !.invoice = i]
      BY <2>1, <2>2 DEF Relinks
    <3>2. pay2[p] # None
      <4>1. i \in InvoiceIds
        BY <2>2 DEF Live
      <4> QED BY <2>1, <3>1, <4>1, NoneApart DEF PaymentRow
    <3> QED BY <2>1, <2>2, <3>1, <3>2 DEF PaymentRow
  <2>3. CASE p \notin S
    BY <2>1, <2>3 DEF Relinks
  <2> QED BY <2>2, <2>3
<1>3. Rows(pay2) = PaymentRows
  <2>1. \A p \in PaymentIds \ PaymentRows : pay2[p] = None
    BY DEF Relinks, PaymentRows
  <2> QED BY <1>2, <2>1 DEF Rows, PaymentRows
<1>4. Received(pay2) = Received(payments) /\ Received(payments) \subseteq PaymentRows
  BY <1>2, <1>3, BooksNow DEF Received
<1>5. \A p \in Received(payments) :
        /\ pay2[p].amount = payments[p].amount
        /\ pay2[p].invoice = IF p \in S THEN i ELSE payments[p].invoice
  BY <1>2, <1>4
<1>6. \A p \in Received(payments) : pay2[p].invoice \in Live(inv2) \cup {None}
  BY <1>5
<1>7. ASSUME NEW k \in Live(inv2), inv2[k].status = "paid"
      PROVE  \E T \in SUBSET PaidFor(pay2, k) : Worth(payments, T) >= inv2[k].total
  <2>1. PICK T \in SUBSET Received(payments) :
          /\ Worth(payments, T) >= inv2[k].total
          /\ \A p \in T : IF p \in S THEN i = k ELSE payments[p].invoice = k
    BY <1>7
  <2>2. T \in SUBSET PaidFor(pay2, k)
    BY <1>4, <1>5, <2>1 DEF PaidFor
  <2> QED BY <2>1, <2>2
<1>8. \A p \in Received(payments) : pay2[p].invoice = None => payments[p].invoice = None
  <2>1. S = {} \/ i # None
    BY NoneApart DEF Live
  <2> QED BY <1>5, <2>1
<1>9. pay2 \in [PaymentIds -> PaymentRow \cup {None}] /\ IsFiniteSet(Rows(pay2))
  BY <1>3, BooksNow DEF Relinks
<1> QED BY <1>4, <1>5, <1>6, <1>7, <1>8, <1>9, SoundKept DEF Balanced

\* The payments that were received stay as they are.
LEMMA SameReceived ==
  ASSUME TypeInv, Sound(invoices, payments),
         NEW pay2 \in [PaymentIds -> PaymentRow \cup {None}], IsFiniteSet(Rows(pay2)),
         Received(pay2) = Received(payments),
         \A p \in Received(payments) : pay2[p] = payments[p]
  PROVE  /\ Sound(invoices, pay2)
         /\ Worth(pay2, Received(pay2)) = Worth(payments, Received(payments))
<1>1. invoices \in [InvoiceIds -> InvoiceRow \cup {None}]
  BY DEF Sound
<1>2. \A i : PaidFor(pay2, i) = PaidFor(payments, i)
  BY DEF PaidFor
<1>3. \A p \in Received(payments) : pay2[p].amount = payments[p].amount
        /\ pay2[p].invoice \in Live(invoices) \cup {None}
  BY DEF Sound
<1>4. \A i \in Live(invoices) : invoices[i].status = "paid" =>
        \E S \in SUBSET PaidFor(pay2, i) : Worth(payments, S) >= invoices[i].total
  BY <1>2 DEF Sound
<1>5. \A i, j \in Live(invoices) : i = j
  BY DEF Sound
<1> QED BY <1>1, <1>3, <1>4, <1>5, SoundKept

-----------------------------------------------------------------------------
(* What each request writes *)

LEMMA MarkedBooks ==
  ASSUME TypeInv, Sound(invoices, payments),
         NEW p \in InStatus({"pending"}), NEW i \in Link(p), NEW owed \in AmountsOwed,
         i # None => i \in ActiveInvoices,
         PaidBesides(p) + payments[p].amount <= owed,
         NEW pay2 \in [PaymentIds -> PaymentRow \cup {None}],
         \A q \in PaymentIds : pay2[q] =
           IF q = p THEN [payments[p] EXCEPT !.status = "paid", !.invoice = i] ELSE payments[q],
         NEW inv2 \in [InvoiceIds -> InvoiceRow \cup {None}],
         \A k \in InvoiceIds : inv2[k] =
           IF k = i /\ PaidOn(i) + payments[p].amount >= invoices[i].total
           THEN [invoices[k] EXCEPT !.status = "paid"] ELSE invoices[k]
  PROVE  Leaves(inv2, pay2)
<1> DEFINE a == payments[p].amount
           got == Received(payments)
<1>1. p \in PaymentRows /\ payments[p] \in PaymentRow /\ payments[p].status = "pending" /\ a \in Nat
  BY RowTyped DEF InStatus, TypeInv, PaymentRow
<1>2. /\ p \notin got /\ got \subseteq PaymentRows /\ PaymentRows \subseteq PaymentIds
      /\ \A T \in SUBSET got : Worth(payments, T) \in Nat
  BY <1>1, BooksNow, RowsCount DEF InStatus, PaymentRows
<1>3. /\ pay2[p] # None /\ pay2[p].status = "paid" /\ pay2[p].amount = a /\ pay2[p].invoice = i
      /\ \A q \in PaymentIds \ {p} : pay2[q] = payments[q]
  <2>1. i \in InvoiceIds \cup {None} /\ p \in PaymentIds
    BY <1>1 DEF ActiveInvoices, InvoiceRows, PaymentRows
  <2>2. pay2[p] = [payments[p] EXCEPT !.status = "paid", !.invoice = i] /\ pay2[p] \in PaymentRow
    BY <1>1, <2>1 DEF PaymentRow, PaymentStatus
  <2> QED BY <1>1, <2>2, NoneApart DEF PaymentRow
<1>4. Rows(pay2) = PaymentRows /\ Received(pay2) = got \cup {p} /\ IsFiniteSet(Rows(pay2))
  <2>1. Rows(pay2) = PaymentRows
    BY <1>1, <1>3 DEF Rows, PaymentRows
  <2>2. Rows(payments) = PaymentRows /\ IsFiniteSet(PaymentRows)
    BY BooksNow
  <2>3. Received(pay2) = got \cup {p}
    BY <1>1, <1>3, <2>1, <2>2 DEF Received, PaymentRows
  <2> QED BY <2>1, <2>2, <2>3
<1>5. \A k : PaidFor(pay2, k) =
        IF k = i THEN PaidFor(payments, k) \cup {p} ELSE PaidFor(payments, k)
  BY <1>2, <1>3, <1>4 DEF PaidFor
<1>6. \A T \in SUBSET got :
        /\ Worth(pay2, T) = Worth(payments, T)
        /\ Worth(pay2, T \cup {p}) = a + Worth(payments, T)
  <2> SUFFICES ASSUME NEW T \in SUBSET got
               PROVE  /\ Worth(pay2, T) = Worth(payments, T)
                      /\ Worth(pay2, T \cup {p}) = a + Worth(payments, T)
    OBVIOUS
  <2>1. Worth(pay2, T) = Worth(payments, T)
    BY <1>2, <1>3, SamePurse
  <2>2. Countable(pay2, T \cup {p})
    <3>1. T \cup {p} \subseteq Rows(pay2)
      BY <1>1, <1>2, <1>4
    <3>2. \A q \in Rows(pay2) : pay2[q].amount \in Nat
      BY DEF Rows, PaymentRow
    <3> QED BY <1>4, <3>1, <3>2, FS_Subset DEF Countable
  <2>3. (T \cup {p}) \ {p} = T
    BY <1>2
  <2> QED BY <1>3, <2>1, <2>2, <2>3, WorthTakes
<1> HIDE DEF got, a
<1>7. Live(inv2) = ActiveInvoices /\ Live(invoices) = ActiveInvoices
      /\ \A k \in ActiveInvoices :
           /\ inv2[k].total = invoices[k].total /\ invoices[k] \in InvoiceRow
           /\ inv2[k].status = "paid" => 
                \/ invoices[k].status = "paid"
                \/ k = i /\ PaidOn(i) + a >= invoices[i].total
  <2>1. \A k \in InvoiceIds : invoices[k] # None => invoices[k] \in InvoiceRow
    BY DEF TypeInv, TypeOK
  <2>2. ASSUME NEW k \in InvoiceIds, invoices[k] # None, [invoices[k] EXCEPT !.status = "paid"] = inv2[k]
        PROVE  /\ inv2[k] # None /\ inv2[k].total = invoices[k].total
               /\ inv2[k].status = "paid"
    <3>1. inv2[k] \in InvoiceRow
      BY <2>1, <2>2 DEF InvoiceRow, InvoiceStatus
    <3> QED BY <2>1, <2>2, <3>1, NoneApart DEF InvoiceRow
  <2>3. ASSUME NEW k \in InvoiceIds, inv2[k] # invoices[k]
        PROVE  k \in ActiveInvoices /\ k = i /\ PaidOn(i) + a >= invoices[i].total
               /\ inv2[k] = [invoices[k] EXCEPT !.status = "paid"]
    BY <2>3, NoneApart DEF a
  <2>4. Live(inv2) = ActiveInvoices
    BY <2>2, <2>3, NoneApart DEF Live, ActiveInvoices, InvoiceRows
  <2>5. Live(invoices) = ActiveInvoices
    BY BooksNow
  <2>6. \A k \in ActiveInvoices : k \in InvoiceIds /\ invoices[k] # None
    BY DEF ActiveInvoices, InvoiceRows
  <2> QED BY <2>1, <2>2, <2>3, <2>4, <2>5, <2>6
<1>8. \A k, l \in ActiveInvoices : k = l
  BY <1>7, BooksNow DEF Sound
<1>9. ASSUME NEW k \in Live(inv2), inv2[k].status = "paid"
      PROVE  Worth(pay2, PaidFor(pay2, k)) >= inv2[k].total
  <2>1. PaidFor(payments, k) \in SUBSET got /\ PaidOn(k) = Worth(payments, PaidFor(payments, k))
    BY BooksNow DEF PaidFor, got
  <2>2. Worth(payments, PaidFor(payments, k)) \in Nat /\ inv2[k].total \in Nat /\ a \in Nat
    BY <1>1, <1>2, <1>7, <2>1 DEF InvoiceRow, a
  <2>3. CASE k = i
    <3>1. Worth(pay2, PaidFor(pay2, k)) = a + Worth(payments, PaidFor(payments, k))
      BY <1>5, <1>6, <2>1, <2>3
    <3>2. invoices[k].status = "paid" => Worth(payments, PaidFor(payments, k)) >= invoices[k].total
      BY <1>7, <1>8 DEF Sound
    <3> QED BY <1>7, <1>9, <2>1, <2>2, <2>3, <3>1, <3>2
  <2>4. CASE k # i
    <3>1. Worth(pay2, PaidFor(pay2, k)) = Worth(payments, PaidFor(payments, k))
      BY <1>5, <1>6, <2>1, <2>4
    <3> QED BY <1>7, <1>8, <1>9, <2>4, <3>1 DEF Sound
  <2> QED BY <2>3, <2>4
<1>10. \A q \in Received(pay2) : pay2[q].invoice \in Live(inv2) \cup {None}
  <2>1. \A q \in got : q \in PaymentIds \ {p} /\ payments[q].invoice \in ActiveInvoices \cup {None}
    BY <1>2, <1>7, <1>8 DEF Sound, got
  <2> QED BY <1>3, <1>4, <1>7, <2>1
<1>11. Worth(pay2, Received(pay2)) <= owed
  <2>1. Worth(pay2, Received(pay2)) = a + Worth(payments, got)
    BY <1>4, <1>6
  <2>2. PaidBesides(p) = Worth(payments, got)
    <3>1. got \ {p} = got
      BY <1>2
    <3> QED BY <3>1, BooksNow, Totals DEF TypeInv, got
  <2> QED BY <1>1, <1>2, <2>1, <2>2 DEF a
<1>12. Live(inv2) = {} => owed = FinalAmount
  BY <1>7 DEF AmountsOwed
<1>13. Within(inv2, pay2)
  <2>1. \A k \in ActiveInvoices : owed = invoices[k].total
    BY <1>8 DEF AmountsOwed
  <2> QED BY <1>7, <1>11, <1>12, <2>1 DEF Within
<1>14. Worth(pay2, PaidFor(pay2, None)) <= FinalAmount
  <2>1. CASE i = None
    <3>1. Live(inv2) = {}
      <4>1. None \notin ActiveInvoices
        BY NoneApart DEF ActiveInvoices, InvoiceRows
      <4> QED BY <1>7, <2>1, <4>1 DEF Link
    <3>2. PaidFor(pay2, None) = Received(pay2)
      BY <1>10, <3>1 DEF PaidFor
    <3> QED BY <1>11, <1>12, <3>1, <3>2
  <2>2. CASE i # None
    <3>1. PaidFor(pay2, None) = PaidFor(payments, None) /\ PaidFor(payments, None) \in SUBSET got
      BY <1>5, <2>2 DEF PaidFor, got
    <3> QED BY <1>6, <3>1 DEF Sound
  <2> QED BY <2>1, <2>2
<1>15. Sound(inv2, pay2)
  BY <1>4, <1>7, <1>8, <1>9, <1>10, <1>14 DEF Sound
<1> QED BY <1>7, <1>13, <1>15 DEF Leaves

\* The books of the requests that leave what was received as it is.
LEMMA SettledBooks ==
  ASSUME TypeInv, Sound(invoices, payments), NEW p \in InStatus({"pending"}),
         NEW status \in {"failed", "cancelled"}
  PROVE  Leaves(invoices,
               Written(payments, TrackPayments({p}, [q \in {p} |-> [payments[p] EXCEPT !.status = status]])))
<1> DEFINE row == [q \in {p} |-> [payments[p] EXCEPT !.status = status]]
           pay2 == Written(payments, TrackPayments({p}, row))
<1>1. p \in PaymentRows /\ payments[p] \in PaymentRow /\ payments[p].status = "pending"
  BY RowTyped DEF InStatus, TypeInv
<1>2. row[p] \in PaymentRow /\ row[p].status = status
  BY <1>1 DEF PaymentRow, PaymentStatus
<1> HIDE DEF row
<1>3. /\ pay2 \in [PaymentIds -> PaymentRow \cup {None}] /\ Rows(pay2) = PaymentRows
      /\ \A q \in PaymentIds : pay2[q] = IF q \in {p} THEN row[q] ELSE payments[q]
  <2>1. \A q \in {p} : row[q] \in PaymentRow
    BY <1>2
  <2>2. {p} \in SUBSET PaymentRows
    BY <1>1
  <2> QED BY <2>1, <2>2, WrittenPayments
<1> HIDE DEF pay2
<1>4. Received(pay2) = Received(payments) /\ \A q \in Received(payments) : pay2[q] = payments[q]
  <2>1. Rows(payments) = PaymentRows /\ PaymentRows \subseteq PaymentIds
    BY BooksNow DEF PaymentRows
  <2> QED BY <1>1, <1>2, <1>3, <2>1 DEF Received
<1>5. IsFiniteSet(Rows(pay2))
  BY <1>3, BooksNow
<1> QED BY <1>3, <1>4, <1>5, SameReceived DEF Leaves, pay2, row

\* Unlinked payments are linked to the active invoice.
LEMMA LinkedBooks ==
  ASSUME TypeInv, Sound(invoices, payments), NEW S \in SUBSET PaymentRows,
         NEW i \in ActiveInvoices, \A p \in S : payments[p].invoice = None,
         NEW inv2 \in [InvoiceIds -> InvoiceRow \cup {None}], Live(inv2) = ActiveInvoices,
         \A k \in ActiveInvoices :
           /\ inv2[k].total = invoices[k].total
           /\ inv2[k].status = "paid" => PaidOn(k) >= invoices[k].total
  PROVE  Leaves(inv2, Written(payments, TrackPayments(S, Relinked(S, i))))
<1> DEFINE pay2 == Written(payments, TrackPayments(S, Relinked(S, i)))
<1>1. \A p \in S : Relinked(S, i)[p] = [payments[p] EXCEPT !.invoice = i]
                   /\ Relinked(S, i)[p] \in PaymentRow
  <2>1. i \in InvoiceIds
    BY DEF ActiveInvoices, InvoiceRows
  <2> QED BY <2>1, RowTyped DEF Relinked, PaymentRow, TypeInv
<1>2. Relinks(S, i, pay2)
  <2> DEFINE row == Relinked(S, i)
  <2>1. \A p \in S : row[p] \in PaymentRow /\ row[p] = [payments[p] EXCEPT !.invoice = i]
    BY <1>1
  <2> HIDE DEF row
  <2>2. /\ Written(payments, TrackPayments(S, row)) \in [PaymentIds -> PaymentRow \cup {None}]
        /\ \A p \in PaymentIds : Written(payments, TrackPayments(S, row))[p]
                                 = IF p \in S THEN row[p] ELSE payments[p]
    BY <2>1, WrittenPayments
  <2> QED BY <2>1, <2>2 DEF Relinks, row
<1> HIDE DEF pay2
<1>3. /\ \A k, l \in ActiveInvoices : k = l
      /\ Live(invoices) = ActiveInvoices
      /\ \A p \in Received(payments) : payments[p].invoice \in ActiveInvoices \cup {None}
      /\ \A k : PaidOn(k) = Worth(payments, PaidFor(payments, k))
  BY BooksNow DEF Sound
<1>4. ASSUME NEW k \in Live(inv2), inv2[k].status = "paid"
      PROVE  \E T \in SUBSET Received(payments) :
               /\ Worth(payments, T) >= inv2[k].total
               /\ \A p \in T : IF p \in S THEN i = k ELSE payments[p].invoice = k
  <2>1. PaidFor(payments, k) \in SUBSET Received(payments)
        /\ \A p \in PaidFor(payments, k) : payments[p].invoice = k
    BY DEF PaidFor
  <2>2. Worth(payments, PaidFor(payments, k)) >= inv2[k].total
    BY <1>3, <1>4
  <2> QED BY <1>3, <2>1, <2>2
<1>5. \A k, l \in Live(inv2) : k = l
  BY <1>3
<1>6. i \in Live(inv2) /\ Live(inv2) \subseteq Live(invoices)
  BY <1>3
<1>7. \A p \in Received(payments) \ S : payments[p].invoice \in Live(inv2) \cup {None}
  BY <1>3
<1>8. Balanced(inv2, pay2)
  BY <1>2, <1>4, <1>5, <1>6, <1>7, RelinkBooks
<1> QED BY <1>6, <1>8 DEF pay2, Leaves, Balanced

\* An invoice changes, the payments stay.
LEMMA RevisedBooks ==
  ASSUME TypeInv, Sound(invoices, payments),
         NEW inv2 \in [InvoiceIds -> InvoiceRow \cup {None}],
         \A k, l \in Live(inv2) : k = l, Live(inv2) \subseteq Live(invoices),
         \A p \in Received(payments) : payments[p].invoice \in Live(inv2) \cup {None},
         \A k \in Live(inv2) :
           inv2[k].status = "paid" => k \in ActiveInvoices /\ inv2[k] = invoices[k]
  PROVE  Leaves(inv2, payments)
<1>1. Relinks({}, None, payments)
  BY DEF Relinks, TypeInv, TypeOK
<1>2. ASSUME NEW k \in Live(inv2), inv2[k].status = "paid"
      PROVE  \E T \in SUBSET Received(payments) :
               /\ Worth(payments, T) >= inv2[k].total
               /\ \A p \in T : IF p \in {} THEN None = k ELSE payments[p].invoice = k
  <2>1. Worth(payments, PaidFor(payments, k)) >= inv2[k].total
    BY <1>2, BooksNow DEF Sound
  <2> QED BY <2>1 DEF PaidFor
<1>3. Balanced(inv2, payments)
  BY <1>1, <1>2, RelinkBooks
<1> QED BY <1>3 DEF Balanced, Leaves

LEMMA AdjustedBooks ==
  ASSUME TypeInv, Sound(invoices, payments),
         NEW i \in InvoiceRows, invoices[i].status = "draft", NEW a \in Adjustments
  PROVE  LET rows == TrackInvoice(i, [invoices[i] EXCEPT !.total = items[i] + a + a])
         IN  Leaves(Written(invoices, rows), payments)
<1> DEFINE row == [invoices[i] EXCEPT !.total = items[i] + a + a]
           inv2 == Written(invoices, TrackInvoice(i, row))
<1>1. /\ invoices[i] \in InvoiceRow /\ a \in Nat /\ items[i] \in Nat /\ i \in InvoiceIds
      /\ i \in ActiveInvoices
  BY RowTyped, AmountAssumption DEF TypeInv, TypeOK, InvoiceRows, ActiveInvoices
<1>2. row \in InvoiceRow /\ row.status = "draft"
  BY <1>1 DEF InvoiceRow
<1> HIDE DEF row
<1>3. /\ inv2 \in [InvoiceIds -> InvoiceRow \cup {None}]
      /\ inv2[i] = row /\ \A k \in InvoiceIds \ {i} : inv2[k] = invoices[k]
  BY <1>2, WrittenInvoice
<1> HIDE DEF inv2
<1>4. Live(inv2) = ActiveInvoices /\ \A k \in ActiveInvoices : k = i
  <2>1. \A k \in ActiveInvoices : k = i
    BY <1>1, BooksNow DEF Sound
  <2>2. Live(inv2) = Live(invoices)
    BY <1>1, <1>2, <1>3, NoneApart DEF Live, InvoiceRows
  <2> QED BY <2>1, <2>2, BooksNow
<1>5. \A p \in Received(payments) : payments[p].invoice \in Live(inv2) \cup {None}
  BY <1>4, BooksNow DEF Sound
<1>6. (\A k, l \in Live(inv2) : k = l) /\ Live(inv2) \subseteq Live(invoices)
  BY <1>4, BooksNow
<1>7. \A k \in Live(inv2) : inv2[k].status # "paid"
  BY <1>2, <1>3, <1>4
<1>8. Leaves(inv2, payments)
  BY <1>3, <1>5, <1>6, <1>7, RevisedBooks
<1> QED BY <1>8 DEF inv2, row

LEMMA CancelledBooks ==
  ASSUME TypeInv, Sound(invoices, payments), NEW i \in InvoiceRows,
         InStatus({"paid"}) \cap LinkedTo(i) = {}, invoices[i].status \notin {"cancelled", "paid"}
  PROVE  LET rows == TrackInvoice(i, [invoices[i] EXCEPT !.status = "cancelled"])
         IN  Leaves(Written(invoices, rows), payments)
<1> DEFINE row == [invoices[i] EXCEPT !.status = "cancelled"]
           inv2 == Written(invoices, TrackInvoice(i, row))
<1>1. invoices[i] \in InvoiceRow /\ i \in InvoiceIds
  BY RowTyped DEF TypeInv, InvoiceRows
<1>2. row \in InvoiceRow /\ row.status = "cancelled"
  BY <1>1 DEF InvoiceRow, InvoiceStatus
<1> HIDE DEF row
<1>3. /\ inv2 \in [InvoiceIds -> InvoiceRow \cup {None}]
      /\ inv2[i] = row /\ \A k \in InvoiceIds \ {i} : inv2[k] = invoices[k]
  BY <1>2, WrittenInvoice
<1> HIDE DEF inv2
<1>4. Live(inv2) = ActiveInvoices \ {i}
  <2>1. Live(inv2) = Live(invoices) \ {i}
    BY <1>1, <1>2, <1>3 DEF Live
  <2> QED BY <2>1, BooksNow
<1>5. /\ \A k, l \in ActiveInvoices : k = l
      /\ \A p \in Received(payments) : payments[p].invoice \in (ActiveInvoices \ {i}) \cup {None}
  <2>1. \A p \in Received(payments) : payments[p].invoice # i
    BY BooksNow DEF LinkedTo, InStatus
  <2> QED BY <2>1, BooksNow DEF Sound
<1>6. \A k \in Live(inv2) : k \in ActiveInvoices /\ inv2[k] = invoices[k]
  BY <1>3, <1>4 DEF Live
<1>7. (\A k, l \in Live(inv2) : k = l) /\ Live(inv2) \subseteq Live(invoices)
  BY <1>4, <1>5, BooksNow
<1>8. Leaves(inv2, payments)
  BY <1>3, <1>4, <1>5, <1>6, <1>7, RevisedBooks
<1> QED BY <1>8 DEF inv2, row

-----------------------------------------------------------------------------
(* One request at a time *)

OneWorker == \A v, w \in Workers : v = w

\* The books stay sound, and are overpaid for a reason.
InOrder == BookInv' /\ Excused

\* A step of the request that writes nothing.
LEMMA BooksServed ==
  ASSUME OneWorker, BookInv, NEW w \in Workers, UNCHANGED <<invoices, payments>>, Serving(w)'
  PROVE  InOrder
<1>1. BookInv'
  BY DEF OneWorker, BookInv
<1>2. Excused
  BY DEF Excused
<1> QED BY <1>1, <1>2 DEF InOrder

\* The request ends: its save, or its exception.
LEMMA BooksSaved ==
  ASSUME OneWorker, TypeInv, NEW w \in Workers, Finish(w), Sound(invoices', payments')
  PROVE  BookInv'
<1>1. pc'[w] = "idle" /\ seen'[w] = Untracked
  BY DEF Finish, TypeInv, TypeOK
<1>2. Serving(w)'
  BY <1>1 DEF Serving
<1> QED BY <1>2 DEF OneWorker, BookInv

\* A request is about to save.
LEMMA BooksTracked ==
  ASSUME OneWorker, TypeInv, BookInv, NEW w \in Workers, NEW rows, NEW args,
         UNCHANGED tables, pc'[w] = "save", seen'[w] = rows, ask'[w] = args,
         Leaves(Written(invoices, rows.invoices), Written(payments, rows.payments))
  PROVE  InOrder
<1>1. UNCHANGED <<invoices, payments>>
  BY DEF tables
<1>2. Leaves(Written(invoices, seen[w].invoices), Written(payments, seen[w].payments))'
  BY <1>1 DEF Leaves
<1>3. Serving(w)'
  BY <1>1, <1>2 DEF Serving
<1> QED BY <1>1, <1>3, BooksServed

LEMMA PlainReads ==
  ASSUME OneWorker, TypeInv, BookInv, NEW w \in Workers,
         \/ \E i \in InvoiceIds \cup {None}, a \in Amounts : PayRead(w, i, a)
         \/ PayLock(w) \/ DraftRead(w) \/ DraftLock(w) \/ ConfirmRead(w)
         \/ \E i \in InvoiceIds : ReissueRead(w, i)
  PROVE  InOrder
<1>1. UNCHANGED <<invoices, payments>> /\ seen' = seen /\ seen[w] = Untracked
      /\ pc'[w] \in {"pay", "pay_insert", "draft", "draft_insert", "confirm", "confirm_draft", "reissue"}
  BY DEF PayRead, PayLock, DraftRead, DraftLock, ConfirmRead, ReissueRead, Begin, Advance, tables,
     TypeInv, TypeOK, BookInv, Serving
<1>2. pc'[w] \in {"draft_insert", "confirm_draft"} => ActiveInvoices' = {}
  <2>1. pc'[w] \in {"draft_insert", "confirm_draft"} => ActiveInvoices = {}
    BY DEF PayRead, PayLock, DraftRead, DraftLock, ConfirmRead, ReissueRead, Begin, Advance,
       TypeInv, TypeOK
  <2> QED BY <1>1, <2>1 DEF ActiveInvoices, InvoiceRows
<1>3. pc'[w] = "reissue" => Reissuable(ask[w].invoice)'
  <2>1. pc'[w] = "reissue" =>
          \E i \in InvoiceIds : Reissuable(i) /\ ask'[w] = [NoAsk EXCEPT !.invoice = i, !.amount = items[i]]
    BY DEF PayRead, PayLock, DraftRead, DraftLock, ConfirmRead, ReissueRead, Begin, Advance,
       TypeInv, TypeOK
  <2>2. \A i \in InvoiceIds : [NoAsk EXCEPT !.invoice = i, !.amount = items[i]].invoice = i
    BY DEF NoAsk
  <2>3. \A i \in InvoiceIds : Reissuable(i) => Reissuable(i)'
    BY <1>1 DEF Reissuable, InvoiceRows
  <2>4. ASSUME NEW i \in InvoiceIds, Reissuable(i), ask'[w] = [NoAsk EXCEPT !.invoice = i, !.amount = items[i]]
        PROVE  Reissuable(ask[w].invoice)'
    <3>1. ask'[w].invoice = i /\ Reissuable(i)'
      BY <2>2, <2>3, <2>4
    <3> QED BY <1>1, <3>1 DEF Reissuable
  <2> QED BY <2>1, <2>4
<1>4. Serving(w)'
  BY <1>1, <1>2, <1>3 DEF Serving
<1> QED BY <1>1, <1>4, BooksServed

LEMMA PaymentSaves ==
  ASSUME OneWorker, TypeInv, BookInv, NEW w \in Workers,
         \/ \E p \in PaymentIds, status \in {"failed", "cancelled"} : SettleRead(w, p, status)
         \/ \E statuses \in {PaymentStatus, {"paid"}} : LinkRead(w, statuses)
  PROVE  InOrder
<1>0. Sound(invoices, payments) /\ (pc[w] = "idle" => seen[w] = Untracked)
  BY DEF BookInv, Serving
<1>1. ASSUME NEW p \in PaymentIds, NEW status \in {"failed", "cancelled"}, SettleRead(w, p, status)
      PROVE  InOrder
  <2> DEFINE pays == TrackPayments({p}, [q \in {p} |-> [payments[p] EXCEPT !.status = status]])
             rows == [Untracked EXCEPT !.payments = pays]
  <2>1. /\ p \in InStatus({"pending"}) /\ UNCHANGED tables
        /\ pc'[w] = "save" /\ ask'[w] = NoAsk /\ seen'[w] = rows
    BY <1>0, <1>1 DEF SettleRead, Begin, TypeInv, TypeOK
  <2>2. Leaves(invoices, Written(payments, pays))
    BY <1>0, <2>1, SettledBooks
  <2>3. rows.invoices = Untracked.invoices /\ rows.payments = pays
    <3> HIDE DEF pays
    <3> QED BY DEF Untracked
  <2> HIDE DEF rows, pays
  <2> QED BY <1>0, <2>1, <2>2, <2>3, NothingWritten, BooksTracked
<1>2. ASSUME NEW statuses, LinkRead(w, statuses) PROVE InOrder
  <2> DEFINE orphans == InStatus(statuses) \cap LinkedTo(None)
  <2>1. PICK i \in ActiveInvoices :
          seen' = [seen EXCEPT ![w].payments = TrackPayments(orphans, Relinked(orphans, i))]
    BY <1>2 DEF LinkRead
  <2>2. orphans \in SUBSET PaymentRows /\ \A p \in orphans : payments[p].invoice = None
    BY DEF InStatus, LinkedTo
  <2> HIDE DEF orphans
  <2> DEFINE pays == TrackPayments(orphans, Relinked(orphans, i))
             rows == [Untracked EXCEPT !.payments = pays]
  <2>3. UNCHANGED tables /\ pc'[w] = "save" /\ ask'[w] = NoAsk /\ seen'[w] = rows
    BY <1>0, <1>2, <2>1 DEF LinkRead, Begin, TypeInv, TypeOK
  <2>4. Leaves(invoices, Written(payments, pays))
    <3>1. /\ invoices \in [InvoiceIds -> InvoiceRow \cup {None}] /\ Live(invoices) = ActiveInvoices
          /\ \A k \in ActiveInvoices : invoices[k].status = "paid" => PaidOn(k) >= invoices[k].total
      BY <1>0, BooksNow DEF Sound
    <3> QED BY <1>0, <2>2, <3>1, LinkedBooks
  <2>5. rows.invoices = Untracked.invoices /\ rows.payments = pays
    <3> HIDE DEF pays
    <3> QED BY DEF Untracked
  <2> HIDE DEF rows, pays
  <2> QED BY <1>0, <2>3, <2>4, <2>5, NothingWritten, BooksTracked
<1> QED BY <1>1, <1>2

LEMMA MarkSaves ==
  ASSUME OneWorker, TypeInv, BookInv, NEW w \in Workers, NEW p \in PaymentIds, MarkPaidRead(w, p)
  PROVE  InOrder
<1>0. Sound(invoices, payments)
  BY DEF BookInv
<1> DEFINE paid(i) == [q \in {p} |-> [payments[p] EXCEPT !.status = "paid", !.invoice = i]]
           covered(i) == i # None /\ PaidOn(i) + payments[p].amount >= invoices[i].total
           row(i) == [invoices[i] EXCEPT !.status = "paid"]
           marked(i) == IF covered(i) /\ invoices[i].status # "paid" THEN TrackInvoice(i, row(i))
                        ELSE Untracked.invoices
           rows(i) == [payments |-> TrackPayments({p}, paid(i)), invoices |-> marked(i)]
<1>1. PICK i \in Link(p), owed \in AmountsOwed :
        /\ i # None => i \in ActiveInvoices
        /\ PaidBesides(p) + payments[p].amount <= owed
        /\ seen' = [seen EXCEPT ![w] = rows(i)]
  BY DEF MarkPaidRead
<1>2. /\ p \in InStatus({"pending"}) /\ UNCHANGED tables /\ pc'[w] = "save" /\ ask'[w] = NoAsk
      /\ seen'[w] = rows(i) /\ rows(i).payments = TrackPayments({p}, paid(i))
      /\ rows(i).invoices = marked(i)
  <2> HIDE DEF paid, marked
  <2> QED BY <1>1 DEF MarkPaidRead, Begin, TypeInv, TypeOK
<1>3. p \in PaymentRows /\ payments[p] \in PaymentRow
  BY <1>2, RowTyped DEF InStatus, TypeInv
<1>4. i \in InvoiceIds \cup {None} /\ (i # None => i \in InvoiceRows /\ invoices[i] \in InvoiceRow)
  BY <1>1, RowTyped DEF ActiveInvoices, InvoiceRows, TypeInv
<1> DEFINE pay2 == Written(payments, TrackPayments({p}, paid(i)))
           inv2 == Written(invoices, marked(i))
<1>5. /\ pay2 \in [PaymentIds -> PaymentRow \cup {None}]
      /\ \A q \in PaymentIds : pay2[q] =
           IF q = p THEN [payments[p] EXCEPT !.status = "paid", !.invoice = i] ELSE payments[q]
  <2> DEFINE new == paid(i)
  <2>1. \A q \in {p} : new[q] \in PaymentRow /\ new[q] = [payments[p] EXCEPT !.status = "paid", !.invoice = i]
    BY <1>3, <1>4 DEF PaymentRow, PaymentStatus
  <2> HIDE DEF new
  <2>2. {p} \in SUBSET PaymentRows
    BY <1>3
  <2>3. /\ Written(payments, TrackPayments({p}, new)) \in [PaymentIds -> PaymentRow \cup {None}]
        /\ \A q \in PaymentIds : Written(payments, TrackPayments({p}, new))[q]
                                 = IF q \in {p} THEN new[q] ELSE payments[q]
    BY <2>1, <2>2, WrittenPayments
  <2> QED BY <2>1, <2>3 DEF new
<1> HIDE DEF pay2
<1>6. /\ inv2 \in [InvoiceIds -> InvoiceRow \cup {None}]
      /\ \A k \in InvoiceIds : inv2[k] =
           IF k = i /\ PaidOn(i) + payments[p].amount >= invoices[i].total
           THEN [invoices[k] EXCEPT !.status = "paid"] ELSE invoices[k]
  <2>1. CASE covered(i) /\ invoices[i].status # "paid"
    <3>1. row(i) \in InvoiceRow /\ i \in InvoiceRows
      BY <1>4, <2>1 DEF InvoiceRow, InvoiceStatus
    <3>2. marked(i) = TrackInvoice(i, row(i))
      BY <2>1
    <3> DEFINE r == row(i)
    <3> HIDE DEF marked, r
    <3>3. /\ inv2 \in [InvoiceIds -> InvoiceRow \cup {None}]
          /\ inv2[i] = r /\ \A k \in InvoiceIds \ {i} : inv2[k] = invoices[k]
      BY <3>1, <3>2, WrittenInvoice DEF r
    <3> HIDE DEF inv2
    <3> QED BY <2>1, <3>3 DEF r
  <2>2. CASE ~(covered(i) /\ invoices[i].status # "paid")
    <3>1. marked(i) = Untracked.invoices
      BY <2>2
    <3> HIDE DEF marked
    <3>2. inv2 = invoices
      BY <3>1, NothingWritten
    <3>3. covered(i) => invoices[i] = [invoices[i] EXCEPT !.status = "paid"]
      BY <1>4, <2>2 DEF InvoiceRow
    <3> HIDE DEF inv2
    <3> QED BY <3>2, <3>3, NoneApart DEF TypeInv, TypeOK
  <2> QED BY <2>1, <2>2
<1> HIDE DEF inv2, marked, paid, rows, covered, row
<1>7. Leaves(inv2, pay2)
  BY <1>0, <1>1, <1>2, <1>5, <1>6, MarkedBooks
<1> QED BY <1>0, <1>2, <1>6, <1>7, BooksTracked DEF inv2, pay2

LEMMA InvoiceSaves ==
  ASSUME OneWorker, TypeInv, BookInv, NEW w \in Workers, NEW i \in InvoiceIds,
         \/ IssueRead(w, i) \/ CancelRead(w, i)
         \/ \E a \in Adjustments : AdjustRead(w, i, a)
  PROVE  InOrder
<1>0. Sound(invoices, payments) /\ (pc[w] = "idle" => seen[w] = Untracked)
  BY DEF BookInv, Serving
<1>1. ASSUME NEW row, i \in InvoiceRows, NEW args,
             seen' = [seen EXCEPT ![w].invoices = TrackInvoice(i, row)],
             pc[w] = "idle", pc'[w] = "save", ask'[w] = args, UNCHANGED tables,
             Leaves(Written(invoices, TrackInvoice(i, row)), payments)
      PROVE  InOrder
  <2> DEFINE rows == [Untracked EXCEPT !.invoices = TrackInvoice(i, row)]
  <2>1. /\ seen'[w] = rows /\ rows.payments = Untracked.payments
        /\ rows.invoices = TrackInvoice(i, row)
    BY <1>0, <1>1 DEF TypeInv, TypeOK, Untracked
  <2> HIDE DEF rows
  <2> QED BY <1>1, <2>1, NothingWritten, BooksTracked
<1>2. ASSUME NEW a \in Adjustments, AdjustRead(w, i, a) PROVE InOrder
  <2> DEFINE row == [invoices[i] EXCEPT !.total = items[i] + a + a]
             args == [NoAsk EXCEPT !.amount = a]
  <2>1. /\ i \in InvoiceRows /\ invoices[i].status = "draft"
        /\ seen' = [seen EXCEPT ![w].invoices = TrackInvoice(i, row)]
        /\ pc[w] = "idle" /\ pc'[w] = "save" /\ ask'[w] = args /\ UNCHANGED tables
    BY <1>2 DEF AdjustRead, Begin, TypeInv, TypeOK
  <2>2. Leaves(Written(invoices, TrackInvoice(i, row)), payments)
    BY <1>0, <2>1, AdjustedBooks
  <2> HIDE DEF row, args
  <2> QED BY <1>1, <2>1, <2>2
<1>3. CASE CancelRead(w, i)
  <2> DEFINE row == [invoices[i] EXCEPT !.status = "cancelled"]
  <2>1. /\ i \in InvoiceRows /\ invoices[i].status \notin {"cancelled", "paid"}
        /\ InStatus({"paid"}) \cap LinkedTo(i) = {}
        /\ seen' = [seen EXCEPT ![w].invoices = TrackInvoice(i, row)]
        /\ pc[w] = "idle" /\ pc'[w] = "save" /\ ask'[w] = NoAsk /\ UNCHANGED tables
    BY <1>3 DEF CancelRead, Begin, TypeInv, TypeOK
  <2>2. Leaves(Written(invoices, TrackInvoice(i, row)), payments)
    BY <1>0, <2>1, CancelledBooks
  <2> HIDE DEF row
  <2> QED BY <1>0, <1>1, <2>1, <2>2
<1>4. CASE IssueRead(w, i)
  <2> DEFINE orphans == LinkedTo(None)
             row == [invoices[i] EXCEPT !.status = PaidIf(PaidOn(i) >= invoices[i].total)]
             pays == TrackPayments(orphans, Relinked(orphans, i))
             rows == [invoices |-> TrackInvoice(i, row), payments |-> pays]
             inv2 == Written(invoices, TrackInvoice(i, row))
  <2>1. /\ i \in InvoiceRows /\ invoices[i].status = "draft"
        /\ seen'[w] = rows /\ pc'[w] = "save" /\ ask'[w] = NoAsk /\ UNCHANGED tables
    BY <1>4 DEF IssueRead, Begin, TypeInv, TypeOK
  <2>2. orphans \in SUBSET PaymentRows /\ \A p \in orphans : payments[p].invoice = None
    BY DEF LinkedTo
  <2>3. i \in ActiveInvoices /\ invoices[i] \in InvoiceRow
    BY <2>1, RowTyped DEF ActiveInvoices, TypeInv
  <2>4. /\ row \in InvoiceRow /\ row.total = invoices[i].total
        /\ row.status \in {"issued", "paid"}
        /\ row.status = "paid" => PaidOn(i) >= invoices[i].total
    BY <2>3 DEF PaidIf, InvoiceRow, InvoiceStatus
  <2>5. rows.invoices = TrackInvoice(i, row) /\ rows.payments = pays
    OBVIOUS
  <2> HIDE DEF row, orphans, rows
  <2>6. /\ inv2 \in [InvoiceIds -> InvoiceRow \cup {None}]
        /\ inv2[i] = row /\ \A k \in InvoiceIds \ {i} : inv2[k] = invoices[k]
    BY <2>1, <2>4, WrittenInvoice
  <2> HIDE DEF inv2
  <2>7. Live(inv2) = ActiveInvoices
    <3>1. Live(inv2) = Live(invoices)
      <4>1. inv2[i] # None /\ inv2[i].status \notin {"cancelled", "superseded"}
        BY <2>4, <2>6, NoneApart
      <4>2. invoices[i] # None /\ invoices[i].status \notin {"cancelled", "superseded"}
        BY <2>1 DEF InvoiceRows
      <4> QED BY <2>6, <4>1, <4>2 DEF Live
    <3> QED BY <1>0, <3>1, BooksNow
  <2>8. \A k \in ActiveInvoices :
          /\ inv2[k].total = invoices[k].total
          /\ inv2[k].status = "paid" => PaidOn(k) >= invoices[k].total
    <3>1. \A k \in ActiveInvoices : k = i
      BY <1>0, <2>3, BooksNow DEF Sound
    <3> QED BY <2>4, <2>6, <3>1
  <2>9. Leaves(inv2, Written(payments, pays))
    BY <1>0, <2>2, <2>3, <2>6, <2>7, <2>8, LinkedBooks
  <2> HIDE DEF pays
  <2> QED BY <1>0, <2>1, <2>5, <2>9, BooksTracked DEF inv2
<1> QED BY <1>2, <1>3, <1>4

\* A request saves the rows it tracked.
LEMMA SaveBooks ==
  ASSUME OneWorker, TypeInv, BookInv, NEW w \in Workers, Save(w)
  PROVE  InOrder
<1>1. /\ invoices' = Written(invoices, seen[w].invoices)
      /\ payments' = Written(payments, seen[w].payments)
  BY DEF Save, Written, TypeInv, TypeOK
<1>2. Leaves(invoices', payments') /\ Sound(invoices, payments)
  BY <1>1 DEF Save, BookInv, Serving
<1>3. BookInv'
  BY <1>2, BooksSaved DEF Save, Leaves
<1>4. Excused
  <2>1. CASE Within(invoices', payments')
    BY <2>1 DEF Excused
  <2>2. CASE ~Within(invoices', payments')
    BY <1>2, <2>2, SteadyBooks DEF Leaves
  <2> QED BY <2>1, <2>2
<1> QED BY <1>3, <1>4 DEF InOrder

LEMMA PaymentBooks ==
  ASSUME OneWorker, TypeInv, TypeInv', BookInv, NEW w \in Workers, NEW p \in PaymentIds, PayInsert(w, p)
  PROVE  InOrder
<1> DEFINE row == [status |-> "pending", amount |-> ask[w].amount, invoice |-> ask[w].invoice]
<1>1. /\ payments[p] = None /\ payments' = [payments EXCEPT ![p] = row] /\ row.status = "pending"
      /\ Finish(w) /\ UNCHANGED <<invoices, items>>
  BY DEF PayInsert
<1> HIDE DEF row
<1>2. /\ payments' \in [PaymentIds -> PaymentRow \cup {None}]
      /\ payments'[p] = row /\ \A q \in PaymentIds \ {p} : payments'[q] = payments[q]
  BY <1>1 DEF TypeInv, TypeOK
<1>3. Rows(payments') \subseteq Rows(payments) \cup {p} /\ IsFiniteSet(Rows(payments) \cup {p})
  <2>1. IsFiniteSet(Rows(payments))
    BY DEF BookInv, Sound
  <2>2. IsFiniteSet(Rows(payments) \cup {p})
    BY <2>1, FS_AddElement
  <2> QED BY <1>2, <2>2 DEF Rows
<1>4. /\ Received(payments') = Received(payments)
      /\ \A q \in Received(payments) : payments'[q] = payments[q]
  BY <1>1, <1>2, NoneApart DEF Received, Rows
<1>5. /\ Sound(invoices, payments) /\ Sound(invoices, payments')
      /\ Worth(payments', Received(payments')) = Worth(payments, Received(payments))
  BY <1>2, <1>3, <1>4, FS_Subset, SameReceived DEF BookInv
<1>6. BookInv'
  BY <1>1, <1>5, BooksSaved
<1>7. Excused
  BY <1>1, <1>5, SteadyBooks
<1> QED BY <1>6, <1>7 DEF InOrder

\* A new invoice replaces the active one, if any, and takes the payments S.
LEMMA InsertedBooks ==
  ASSUME OneWorker, TypeInv, TypeInv', BookInv, NEW w \in Workers, NEW j \in InvoiceIds,
         NEW S \in SUBSET PaymentRows, NEW status, NEW total, NEW lines,
         status \in {"draft", "issued", "paid"}, total \in Nat,
         InsertInvoice(w, j, status, total, lines), Finish(w),
         seen[w].payments = Carried(S),
         \A k \in InvoiceIds : seen[w].invoices[k] # None => seen[w].invoices[k].status = "superseded",
         \A k \in ActiveInvoices : seen[w].invoices[k] # None,
         \A p \in Received(payments) \ S : payments[p].invoice = None,
         status = "paid" => \E T \in SUBSET (Received(payments) \cap S) : Worth(payments, T) >= total,
         Within(invoices, payments) => Worth(payments, Received(payments)) <= total
  PROVE  InOrder
<1>1. /\ invoices[j] = None
      /\ \A k \in InvoiceIds : invoices'[k] =
           IF k = j THEN [status |-> status, total |-> total]
           ELSE IF seen[w].invoices[k] # None THEN seen[w].invoices[k] ELSE invoices[k]
      /\ \A p \in PaymentIds : payments'[p] =
           IF seen[w].payments[p] # None THEN [seen[w].payments[p] EXCEPT !.invoice = j]
           ELSE payments[p]
  BY DEF InsertInvoice, TypeInv, TypeOK
<1>2. Live(invoices') = {j} /\ invoices'[j].status = status /\ invoices'[j].total = total
  <2>1. [status |-> status, total |-> total] \in InvoiceRow
    BY DEF InvoiceRow, InvoiceStatus
  <2>2. invoices'[j] # None /\ invoices'[j].status = status /\ invoices'[j].total = total
    BY <1>1, <2>1, NoneApart
  <2>3. ASSUME NEW k \in InvoiceIds, k # j PROVE k \notin Live(invoices')
    <3>1. CASE seen[w].invoices[k] # None
      BY <1>1, <2>3, <3>1 DEF Live
    <3>2. CASE seen[w].invoices[k] = None
      BY <1>1, <2>3, <3>2 DEF Live, ActiveInvoices, InvoiceRows
    <3> QED BY <3>1, <3>2
  <2> QED BY <2>2, <2>3 DEF Live
<1>3. Relinks(S, j, payments')
  <2>1. ASSUME NEW p \in PaymentIds
        PROVE  payments'[p] = IF p \in S THEN [payments[p] EXCEPT !.invoice = j] ELSE payments[p]
    <3>1. CASE p \in S
      <4>1. payments[p] \in PaymentRow
        BY <3>1, RowTyped DEF TypeInv
      <4>2. seen[w].payments[p] = [payments[p] EXCEPT !.invoice = None]
        BY <3>1 DEF Carried, TrackPayments, Relinked
      <4>3. seen[w].payments[p] \in PaymentRow
        BY <4>1, <4>2 DEF PaymentRow
      <4>4. [[payments[p] EXCEPT !.invoice = None] EXCEPT !.invoice = j] = [payments[p] EXCEPT !.invoice = j]
        BY <4>1 DEF PaymentRow
      <4> QED BY <1>1, <3>1, <4>2, <4>3, <4>4, NoneApart
    <3>2. CASE p \notin S
      BY <1>1, <3>2 DEF Carried, TrackPayments
    <3> QED BY <3>1, <3>2
  <2> QED BY <2>1 DEF Relinks, TypeInv, TypeOK
<1>4. ASSUME NEW k \in Live(invoices'), invoices'[k].status = "paid"
      PROVE  \E T \in SUBSET Received(payments) :
               /\ Worth(payments, T) >= invoices'[k].total
               /\ \A p \in T : IF p \in S THEN j = k ELSE payments[p].invoice = k
  BY <1>2, <1>4
<1>5. Balanced(invoices', payments')
  <2>1. invoices' \in [InvoiceIds -> InvoiceRow \cup {None}]
    BY DEF TypeInv, TypeOK
  <2>2. \A p \in Received(payments) \ S : payments[p].invoice \in Live(invoices') \cup {None}
    OBVIOUS
  <2>3. Sound(invoices, payments) /\ j \in Live(invoices') /\ \A k, l \in Live(invoices') : k = l
    BY <1>2 DEF BookInv
  <2> QED BY <1>3, <1>4, <2>1, <2>2, <2>3, RelinkBooks
<1>6. BookInv'
  BY <1>5, BooksSaved DEF Balanced
<1>7. Within(invoices, payments) => Within(invoices', payments')
  <2>1. Live(invoices') # {} /\ \A k \in Live(invoices') : invoices'[k].total = total
    BY <1>2
  <2> QED BY <1>5, <2>1 DEF Within, Balanced
<1>8. Excused
  BY <1>5, <1>7 DEF Excused, Balanced
<1> QED BY <1>6, <1>8 DEF InOrder

\* Without an active invoice nothing is owed but the price.
LEMMA NoInvoiceBooks ==
  ASSUME TypeInv, Sound(invoices, payments), ActiveInvoices = {}
  PROVE  /\ \A p \in Received(payments) : payments[p].invoice = None
         /\ Worth(payments, Received(payments)) <= FinalAmount
<1>1. Sound(invoices, payments) /\ Live(invoices) = {}
  BY BooksNow
<1>2. PaidFor(payments, None) = Received(payments)
  BY <1>1, AllUnlinked
<1> QED BY <1>1, <1>2 DEF Sound

LEMMA DraftBooks ==
  ASSUME OneWorker, TypeInv, TypeInv', BookInv, NEW w \in Workers, NEW j \in InvoiceIds, DraftInsert(w, j)
  PROVE  InOrder
<1>1. ActiveInvoices = {} /\ seen[w] = Untracked /\ Sound(invoices, payments)
  BY DEF DraftInsert, BookInv, Serving
<1>2. seen[w].payments = Carried({}) /\ \A k \in InvoiceIds : seen[w].invoices[k] = None
  BY <1>1 DEF Untracked, Carried, TrackPayments
<1>3. FinalAmount \in Nat
  BY AmountAssumption
<1>4. {} \in SUBSET PaymentRows
  OBVIOUS
<1> QED BY <1>1, <1>2, <1>3, <1>4, NoInvoiceBooks, InsertedBooks DEF DraftInsert

LEMMA ConfirmBooks ==
  ASSUME OneWorker, TypeInv, TypeInv', BookInv, NEW w \in Workers,
         ConfirmIssue(w) \/ \E j \in InvoiceIds : ConfirmSave(w, j)
  PROVE  InOrder
<1>1. CASE ConfirmIssue(w)
  <2>1. /\ pc[w] = "confirm_draft" /\ pc'[w] = "confirm_save" /\ ask'[w].to = PaidIf(0 >= FinalAmount)
        /\ seen'[w] = [Untracked EXCEPT !.payments = Carried(LinkedTo(None))] /\ UNCHANGED tables
        /\ ActiveInvoices = {}
    <3>1. pc[w] = "confirm_draft" /\ seen[w] = Untracked /\ ActiveInvoices = {}
      BY <1>1 DEF ConfirmIssue, Advance, BookInv, Serving
    <3> QED BY <1>1, <3>1 DEF ConfirmIssue, Advance, Carried, TypeInv, TypeOK, Ask
  <2>2. seen'[w].payments = Carried(LinkedTo(None)) /\ seen'[w].invoices = Untracked.invoices
    BY <2>1 DEF Untracked
  <2>3. ask'[w].to = "paid" => FinalAmount = 0
    BY <2>1, AmountAssumption DEF PaidIf
  <2>4. Carried(LinkedTo(None))' = Carried(LinkedTo(None)) /\ ActiveInvoices' = {}
        /\ UNCHANGED <<invoices, payments>>
    BY <2>1 DEF tables, Carried, LinkedTo, PaymentRows, TrackPayments, Relinked, ActiveInvoices,
       InvoiceRows
  <2>5. Serving(w)'
    BY <2>1, <2>2, <2>3, <2>4 DEF Serving
  <2> QED BY <2>4, <2>5, BooksServed
<1>2. ASSUME NEW j \in InvoiceIds, ConfirmSave(w, j) PROVE InOrder
  <2>1. /\ ActiveInvoices = {} /\ seen[w].invoices = Untracked.invoices
        /\ seen[w].payments = Carried(LinkedTo(None))
        /\ ask[w].to = "paid" => FinalAmount = 0
        /\ Sound(invoices, payments)
    BY <1>2 DEF ConfirmSave, BookInv, Serving
  <2>2. /\ \A k \in InvoiceIds : seen[w].invoices[k] = None
        /\ LinkedTo(None) \in SUBSET PaymentRows
        /\ ask[w].to \in {"draft", "issued", "paid"}
    BY <1>2, <2>1 DEF Untracked, LinkedTo, ConfirmSave, TypeInv, Fits
  <2>3. FinalAmount \in Nat
    BY AmountAssumption
  <2>4. ask[w].to = "paid" =>
          \E T \in SUBSET (Received(payments) \cap LinkedTo(None)) : Worth(payments, T) >= FinalAmount
    <3>1. {} \in SUBSET (Received(payments) \cap LinkedTo(None)) /\ Worth(payments, {}) = 0
      BY WorthNothing
    <3> QED BY <2>1, <3>1
  <2> QED BY <1>2, <2>1, <2>2, <2>3, <2>4, NoInvoiceBooks, InsertedBooks DEF ConfirmSave
<1> QED BY <1>1, <1>2

LEMMA ReissueBooks ==
  ASSUME OneWorker, TypeInv, TypeInv', BookInv, NEW w \in Workers,
         ReissueLock(w) \/ ReissueFlush(w) \/ \E j \in InvoiceIds : ReissueSave(w, j)
  PROVE  InOrder
<1> DEFINE i == ask[w].invoice
           carried == LinkedTo(i) \cup LinkedTo(None)
<1>1. CASE ReissueLock(w)
  <2>1. /\ pc[w] = "reissue" /\ pc'[w] = "reissue_locked" /\ UNCHANGED <<invoices, payments, ask>>
        /\ Reissuable(i) /\ seen[w] = Untracked
        /\ seen'[w] = [Untracked EXCEPT !.invoices = Superseded(i)]
    <3>1. pc[w] = "reissue" /\ seen[w] = Untracked
      BY <1>1 DEF ReissueLock, Advance, BookInv, Serving
    <3> QED BY <1>1, <3>1 DEF ReissueLock, Advance, Superseded, tables, TypeInv, TypeOK
  <2>2. seen'[w].invoices = Superseded(i) /\ seen'[w].payments = Untracked.payments
    BY <2>1 DEF Untracked
  <2>3. Reissuable(ask[w].invoice)' /\ Superseded(ask[w].invoice)' = Superseded(i)
    BY <2>1 DEF Reissuable, InvoiceRows, Superseded, TrackInvoice
  <2>4. Serving(w)'
    BY <2>1, <2>2, <2>3 DEF Serving
  <2> QED BY <2>1, <2>4, BooksServed
<1>2. CASE ReissueFlush(w)
  <2>1. /\ pc[w] = "reissue_locked" /\ pc'[w] = "reissue_save" /\ UNCHANGED <<invoices, payments>>
        /\ Reissuable(i) /\ Sound(invoices, payments)
        /\ seen[w] \in Tracker /\ seen[w].invoices = Superseded(i)
        /\ seen'[w] = [seen[w] EXCEPT !.payments = Carried(carried)]
        /\ ask'[w] = [ask[w] EXCEPT !.to = PaidIf(Sum(InStatus({"paid"}) \cap carried) >= seen[w].invoices[i].total)]
    BY <1>2 DEF ReissueFlush, Advance, Carried, tables, TypeInv, TypeOK, BookInv, Serving
  <2>2. i \in InvoiceIds /\ i \in InvoiceRows /\ invoices[i] \in InvoiceRow
    BY <2>1, RowTyped DEF Reissuable, InvoiceRows, TypeInv
  <2>3. seen[w].invoices[i].total = invoices[i].total
    BY <2>1, <2>2 DEF Superseded, TrackInvoice, Untracked, InvoiceRow
  <2>4. /\ seen'[w].payments = Carried(carried) /\ seen'[w].invoices = Superseded(i)
        /\ ask'[w].invoice = i
        /\ ask'[w].to = PaidIf(Sum(InStatus({"paid"}) \cap carried) >= invoices[i].total)
    <3> HIDE DEF carried
    <3>1. ask[w] \in Ask
      BY DEF TypeInv, TypeOK
    <3> QED BY <2>1, <2>3, <3>1 DEF Tracker, Ask
  <2>5. ask'[w].to = "paid" => Worth(payments, InStatus({"paid"}) \cap carried) >= invoices[i].total
    <3>1. InStatus({"paid"}) \cap carried \in SUBSET PaymentRows
      BY DEF InStatus
    <3> HIDE DEF carried
    <3> QED BY <2>1, <2>4, <3>1, BooksNow DEF PaidIf
  <2>6. Serving(w)'
    <3>1. /\ Reissuable(ask[w].invoice)' /\ Superseded(ask[w].invoice)' = Superseded(i)
          /\ (LinkedTo(ask[w].invoice) \cup LinkedTo(None))' = carried
          /\ Carried(LinkedTo(ask[w].invoice) \cup LinkedTo(None))' = Carried(carried)
          /\ InStatus({"paid"})' = InStatus({"paid"})
      BY <2>1, <2>4 DEF Reissuable, InvoiceRows, Superseded, TrackInvoice, LinkedTo, PaymentRows,
         Carried,
         TrackPayments, Relinked, InStatus
    <3> HIDE DEF carried
    <3> QED BY <2>1, <2>4, <2>5, <3>1 DEF Serving
  <2> QED BY <2>1, <2>6, BooksServed
<1>3. ASSUME NEW j \in InvoiceIds, ReissueSave(w, j) PROVE InOrder
  <2>1. /\ Reissuable(i) /\ Sound(invoices, payments)
        /\ seen[w].invoices = Superseded(i) /\ seen[w].payments = Carried(carried)
        /\ ask[w].to = "paid" => Worth(payments, InStatus({"paid"}) \cap carried) >= invoices[i].total
    BY <1>3 DEF ReissueSave, BookInv, Serving
  <2>2. /\ i \in InvoiceIds /\ i \in InvoiceRows /\ invoices[i] \in InvoiceRow /\ i \in ActiveInvoices
        /\ invoices[i].total \in Nat
    BY <2>1, RowTyped DEF Reissuable, InvoiceRows, ActiveInvoices, TypeInv, TypeOK, InvoiceRow
  <2>3. /\ Sound(invoices, payments) /\ Live(invoices) = ActiveInvoices
        /\ Received(payments) = InStatus({"paid"}) /\ \A k \in ActiveInvoices : k = i
    BY <2>1, <2>2, BooksNow DEF Sound
  <2>4. [invoices[i] EXCEPT !.status = "superseded"] \in InvoiceRow
        /\ [invoices[i] EXCEPT !.status = "superseded"].status = "superseded"
        /\ [invoices[i] EXCEPT !.status = "superseded"].total = invoices[i].total
    BY <2>2 DEF InvoiceRow, InvoiceStatus
  <2>5. /\ \A k \in InvoiceIds : seen[w].invoices[k] # None => seen[w].invoices[k].status = "superseded"
        /\ \A k \in ActiveInvoices : seen[w].invoices[k] # None
        /\ seen[w].invoices[i].total = invoices[i].total
    <3> DEFINE row == [invoices[i] EXCEPT !.status = "superseded"]
    <3>1. seen[w].invoices = TrackInvoice(i, row)
      BY <2>1 DEF Superseded
    <3>2. row \in InvoiceRow /\ row.status = "superseded" /\ row.total = invoices[i].total
      BY <2>4
    <3> HIDE DEF row, i
    <3>3. TrackInvoice(i, row)[i] = row /\ \A k \in InvoiceIds \ {i} : TrackInvoice(i, row)[k] = None
      BY <2>2, <3>2, InvoiceTracked
    <3> QED BY <2>2, <2>3, <3>1, <3>2, <3>3, NoneApart
  <2>6. /\ carried \in SUBSET PaymentRows
        /\ \A p \in Received(payments) \ carried : payments[p].invoice = None
    <3>1. \A p \in Received(payments) : payments[p].invoice \in {i} \cup {None} /\ p \in PaymentRows
      BY <2>1, <2>3, BooksNow DEF Sound, InStatus
    <3> QED BY <3>1 DEF LinkedTo
  <2>7. Within(invoices, payments) => Worth(payments, Received(payments)) <= invoices[i].total
    BY <2>2, <2>3 DEF Within
  <2>8. ask[w].to \in {"draft", "issued", "paid"}
    BY <1>3 DEF ReissueSave, TypeInv, Fits
  <2>9. InsertInvoice(w, j, ask[w].to, invoices[i].total, ask[w].amount) /\ Finish(w)
    BY <1>3, <2>1, <2>5 DEF ReissueSave
  <2> HIDE DEF carried, i
  <2>10. ask[w].to = "paid" =>
           \E T \in SUBSET (Received(payments) \cap carried) : Worth(payments, T) >= invoices[i].total
    BY <2>1, <2>3
  <2> QED BY <2>1, <2>2, <2>5, <2>6, <2>7, <2>8, <2>9, <2>10, InsertedBooks
<1> QED BY <1>1, <1>2, <1>3

-----------------------------------------------------------------------------
(* The theorems *)

LEMMA InitBooks == Init => BookInv
<1> SUFFICES ASSUME Init PROVE BookInv
  OBVIOUS
<1>1. Rows(payments) = {} /\ Received(payments) = {} /\ \A i : PaidFor(payments, i) = {}
      /\ Live(invoices) = {}
  BY DEF Init, Quiet, Rows, Received, PaidFor, Live
<1>2. Sound(invoices, payments)
  <2>1. /\ invoices \in [InvoiceIds -> InvoiceRow \cup {None}]
        /\ payments \in [PaymentIds -> PaymentRow \cup {None}]
    BY DEF Init, Quiet
  <2>2. Worth(payments, PaidFor(payments, None)) <= FinalAmount
    BY <1>1, WorthNothing, AmountAssumption
  <2> QED BY <1>1, <2>1, <2>2, FS_EmptySet DEF Sound
<1>3. \A w \in Workers : Serving(w)
  BY DEF Init, Quiet, Serving
<1> QED BY <1>2, <1>3 DEF BookInv

LEMMA StepKeepsBooks ==
  ASSUME OneWorker, TypeInv, BookInv, [Next]_vars
  PROVE  InOrder
<1>0. TypeInv'
  BY StepKeepsTypes
<1>1. ASSUME NEW w \in Workers, Request(w) PROVE InOrder
  BY <1>1, PlainReads, PaymentSaves, MarkSaves, InvoiceSaves DEF Request
<1>2. ASSUME NEW w \in Workers, Proceed(w) PROVE InOrder
  BY <1>0, <1>2, PlainReads, SaveBooks, PaymentBooks, DraftBooks, ConfirmBooks, ReissueBooks
     DEF Proceed
<1>3. ASSUME UNCHANGED <<invoices, payments>>, BookInv' PROVE InOrder
  BY <1>3 DEF InOrder, Excused
<1>4. ASSUME NEW w \in Workers, Abort(w) PROVE InOrder
  <2>1. Finish(w) /\ UNCHANGED <<invoices, payments>> /\ Sound(invoices', payments')
    BY <1>4 DEF Abort, tables, BookInv
  <2> QED BY <1>3, <2>1, BooksSaved
<1>5. ASSUME UNCHANGED <<invoices, items, payments, session>> PROVE InOrder
  <2>1. Sound(invoices, payments)'
    BY <1>5 DEF BookInv
  <2>2. ASSUME NEW w \in Workers PROVE Serving(w)'
    <3>1. Serving(w) /\ UNCHANGED <<invoices, payments, pc, ask, seen>>
      BY <1>5 DEF session, BookInv
    <3> QED BY <3>1 DEF Serving, ActiveInvoices, InvoiceRows, Reissuable, Superseded, LinkedTo,
            PaymentRows, Carried, Relinked, InStatus, Leaves
  <2> QED BY <1>3, <1>5, <2>1, <2>2 DEF BookInv
<1>6. CASE Lifecycle
  BY <1>5, <1>6 DEF Lifecycle, ConfirmKeepsInvoice, BookingDropped
<1>7. CASE UNCHANGED vars
  BY <1>5, <1>7 DEF vars, tables
<1> QED BY <1>1, <1>2, <1>4, <1>6, <1>7 DEF Next

LEMMA BooksKept ==
  ASSUME OneWorker
  PROVE  TypeInv /\ BookInv /\ [Next]_vars => BookInv'
BY StepKeepsBooks DEF InOrder

LEMMA BooksAgree ==
  ASSUME TypeInv, BookInv
  PROVE  /\ PaidMoneyOnActiveInvoice /\ PaidInvoiceCovered
         /\ Receipts = Worth(payments, Received(payments))
         /\ PaidWithinOwed <=> Within(invoices, payments)
<1>1. /\ Sound(invoices, payments) /\ Live(invoices) = ActiveInvoices
      /\ Received(payments) = InStatus({"paid"})
      /\ \A i : PaidOn(i) = Worth(payments, PaidFor(payments, i))
      /\ Receipts = Worth(payments, Received(payments))
  <2>1. InStatus({"paid"}) \in SUBSET PaymentRows
    BY DEF InStatus
  <2> QED BY <2>1, BooksNow DEF BookInv, Receipts
<1>2. PaidMoneyOnActiveInvoice
  BY <1>1 DEF Sound, PaidMoneyOnActiveInvoice
<1>3. PaidInvoiceCovered
  <2>1. \A i \in InvoiceRows : invoices[i].status = "paid" => i \in ActiveInvoices
    BY DEF ActiveInvoices
  <2> QED BY <1>1, <2>1 DEF Sound, PaidInvoiceCovered
<1>4. PaidWithinOwed <=> Within(invoices, payments)
  BY <1>1 DEF Within, AmountsOwed, PaidWithinOwed
<1> QED BY <1>1, <1>2, <1>3, <1>4

\* Requests that follow one another, of whatever kind and in whatever order,
\* never leave received money on an invoice that was cancelled or superseded.
THEOREM MoneyStaysOnActiveInvoice ==
  ASSUME OneWorker
  PROVE  Spec => []PaidMoneyOnActiveInvoice
<1>1. TypeInv /\ BookInv => PaidMoneyOnActiveInvoice
  BY BooksAgree
<1> QED BY <1>1, InitTyped, StepKeepsTypes, InitBooks, BooksKept, PTL DEF Spec

\* Requests that follow one another never leave an invoice marked as paid that
\* the payments linked to it do not cover.
THEOREM PaidStaysCovered ==
  ASSUME OneWorker
  PROVE  Spec => []PaidInvoiceCovered
<1>1. TypeInv /\ BookInv => PaidInvoiceCovered
  BY BooksAgree
<1> QED BY <1>1, InitTyped, StepKeepsTypes, InitBooks, BooksKept, PTL DEF Spec

\* Requests that follow one another, with manual lines of any amounts, let a
\* booking be overpaid only by lowering the total of an invoice: the checks on
\* recording and marking a payment, and the carrying over of a reissue, keep
\* what was received within what is owed, and the rule cannot be dropped, since
\* AddManualAdjustmentAsync does lower totals.
THEOREM OverpaidByLoweringInTurn ==
  ASSUME OneWorker
  PROVE  Spec => OverpaidByLoweringOnly
<1> DEFINE Step == ~PaidWithinOwed' =>
             \/ ~PaidWithinOwed /\ Receipts' = Receipts
             \/ \E i \in InvoiceRows : invoices'[i].total < invoices[i].total
<1>1. TypeInv /\ BookInv => /\ Receipts = Worth(payments, Received(payments))
                            /\ PaidWithinOwed <=> Within(invoices, payments)
  BY BooksAgree
<1>2. (TypeInv /\ BookInv => /\ Receipts = Worth(payments, Received(payments))
                             /\ PaidWithinOwed <=> Within(invoices, payments))'
  BY <1>1, PTL
<1>3. TypeInv /\ BookInv /\ [Next]_vars => TypeInv' /\ BookInv' /\ Excused
  BY StepKeepsTypes, StepKeepsBooks DEF InOrder
<1>4. TypeInv /\ BookInv /\ [Next]_vars => [Step]_vars
  BY <1>1, <1>2, <1>3 DEF Excused, Lowers
<1>5. TypeInv /\ BookInv /\ [Next]_vars => TypeInv' /\ BookInv'
  BY <1>3
<1> QED BY <1>4, <1>5, InitTyped, InitBooks, PTL DEF Spec, OverpaidByLoweringOnly
=============================================================================
