---------------------------- MODULE UnitCalendar ----------------------------
(***************************************************************************)
(* The calendar of the rental units: bookings, date blocks and CRM leads   *)
(* served concurrently over one database.  The properties say what the     *)
(* per-unit lock, the xmin token and the re-checks are there to guarantee. *)
(***************************************************************************)
EXTENDS BookingOps, DateBlockOps, LeadOps, AccountOps

\* Nothing is being served, on the first day.
Quiet ==
  /\ unit = [u \in Units |-> "active"]
  /\ deletedClients = {}
  /\ today = 0
  /\ lock = [u \in Units |-> None]
  /\ leadLock = [l \in LeadIds |-> None]
  /\ sweepLock = None
  /\ pc = [w \in Workers |-> "idle"]
  /\ ask = [w \in Workers |-> NoAsk]
  /\ tracked = [w \in Workers |-> Untracked]

Init ==
  /\ Quiet
  /\ bookings = [b \in BookingIds |-> None]
  /\ history = [b \in BookingIds |-> <<>>]
  /\ blocks = [x \in BlockIds |-> None]
  /\ leads = [l \in LeadIds |-> None]

\* A new request, of a kind the run's clients issue.
Request(w) ==
  \/ /\ "create" \in Traffic
     /\ \E c \in Clients, u \in Units, s \in Stays : CreateCheck(w, c, u, s)
  \/ \E c \in Clients, u \in Units, s \in Stays, o \in {"quick", "storefront"} \cap Traffic :
       QuickLock(w, c, u, s, o)
  \/ /\ "update" \in Traffic
     /\ \E b \in BookingIds, s \in Stays : UpdateRead(w, b, s)
  \/ /\ "transition" \in Traffic
     /\ \E b \in BookingIds, to \in BookingStatus : TransitionRead(w, b, to)
  \/ "sweep" \in Traffic /\ SweepRead(w)
  \/ /\ "block" \in Traffic
     /\ \E u \in Units, k \in Ranges : AdminBlockCheck(w, u, k)
  \/ /\ "blockedit" \in Traffic
     /\ \E x \in BlockIds, k \in Ranges : AdminBlockEditRead(w, x, k)
  \/ /\ "ownerblock" \in Traffic
     /\ \/ \E u \in Units, k \in Ranges : OwnerBlockLock(w, u, k)
        \/ \E x \in BlockIds, d \in {"Approved", "Rejected"} : ResolveLock(w, x, d)
        \/ \E x \in BlockIds : WithdrawLock(w, x)
  \/ /\ "lead" \in Traffic
     /\ \/ \E u \in Units \cup {None}, c \in Clients \cup {None}, s \in Stays \cup {None} :
             LeadCreateCheck(w, u, c, s)
        \/ \E l \in LeadIds, to \in BookingStatus : LeadStatusRead(w, l, to)
  \/ /\ "leadedit" \in Traffic
     /\ \E l \in LeadIds, u \in Units \cup {None}, c \in Clients \cup {None},
           s \in Stays \cup {None} : LeadEditRead(w, l, u, c, s)
  \/ /\ "convert" \in Traffic
     /\ \E l \in LeadIds, u \in Units, c \in Clients, s \in Stays :
          ConvertLockUnit(w, l, u, c, s)
  \/ /\ "accounts" \in Traffic
     /\ \E u \in Units, active \in {"active", "inactive"} : UnitEditRead(w, u, active)
  \/ "profiles" \in Traffic /\ \E c \in Clients : ClientEditRead(w, c)

\* The next step of a request being served.
Proceed(w) ==
  \/ QuickReturnDuplicate(w) \/ QuickCheck(w)
  \/ \E b \in BookingIds : InsertBooking(w, b)
  \/ UpdateSave(w) \/ ApplyTransition(w)
  \/ ConfirmLock(w) \/ ConfirmCheck(w) \/ ConfirmCommit(w)
  \/ SweepCommit(w)
  \/ \E x \in BlockIds : InsertBlock(w, x)
  \/ AdminBlockEditSave(w)
  \/ OwnerBlockCheck(w)
  \/ ResolveReadConflicts(w) \/ ResolveApprove(w) \/ ResolveReject(w)
  \/ WithdrawCommit(w)
  \/ \E l \in LeadIds : LeadInsert(w, l)
  \/ LeadEditSave(w) \/ LeadStatusSave(w)
  \/ ConvertLockLead(w) \/ ConvertCheck(w)
  \/ \E b \in BookingIds : ConvertCommit(w, b)
  \/ UnitEditSave(w) \/ ClientEditSave(w)

Surroundings ==
  \/ "clock" \in Traffic /\ NextDay
  \/ "window" \in Traffic /\ \E b \in BookingIds : DuplicateWindowCloses(b)
  \/ "blockdelete" \in Traffic /\ \E x \in BlockIds : AdminBlockDelete(x)
  \/ /\ "accounts" \in Traffic
     /\ \/ \E u \in Units : DeleteUnit(u)
        \/ \E c \in Clients : DeleteClient(c)

Next ==
  \/ \E w \in Workers : Request(w) \/ Proceed(w) \/ Abort(w)
  \/ Surroundings

Spec == Init /\ [][Next]_vars

\* A request that can go on eventually goes on or fails; the job of some
\* replica wakes up daily, and its save is not refused for ever; days pass.
Fairness ==
  /\ \A w \in Workers : WF_vars(Proceed(w) \/ Abort(w))
  /\ SF_vars(\E w \in Workers : SweepRead(w))
  /\ SF_vars(\E w \in Workers : SweepCommit(w))
  /\ WF_vars(NextDay)

-----------------------------------------------------------------------------
(* Properties *)

\* Every table, lock and session holds values of its type.
TablesOK ==
  /\ bookings \in [BookingIds -> BookingRow \cup {None}]
  /\ history \in [BookingIds -> Seq(HistoryRow)]
  /\ blocks \in [BlockIds -> BlockRow \cup {None}]
  /\ leads \in [LeadIds -> LeadRow \cup {None}]
  /\ unit \in [Units -> {"active", "inactive", "deleted"}]
  /\ deletedClients \subseteq Clients
  /\ today \in Days

LocksOK ==
  /\ lock \in [Units -> Workers \cup {None}]
  /\ leadLock \in [LeadIds -> Workers \cup {None}]
  /\ sweepLock \in Workers \cup {None}

SessionOK ==
  /\ pc \in [Workers -> Steps]
  /\ ask \in [Workers -> Ask]
  /\ tracked \in [Workers -> Tracker]

TypeOK == TablesOK /\ LocksOK /\ SessionOK

\* Two stays guaranteed to guests (confirmed or checked in, of clients and
\* units not deleted) never share a night of a unit: what the lock, the
\* reload and the overlap re-check of ConfirmInternalAsync are for, although
\* moves to Booked and edits of pending bookings take no lock at all.  It
\* fails when a stale client edit undoes a deletion ("profiles").
Guaranteed(b) == bookings[b].status \in {"Confirmed", "CheckIn"} /\ IsLive(b)

NoDoubleConfirmed ==
  \A b, c \in BookingRows :
    (b # c /\ Guaranteed(b) /\ Guaranteed(c) /\ bookings[b].unit = bookings[c].unit)
      => ~StaysOverlap(bookings[b].stay, bookings[c].stay)

\* However requests and the sweep interleave, a committed status change is a
\* move of the transition table: validation reads one row, the save finds
\* another, and xmin has to refuse it.
StatusMovesAllowed ==
  [][\A b \in BookingRows :
       bookings'[b].status # bookings[b].status
         => IsValidTransition(bookings[b].status, bookings'[b].status)]_vars

\* The history of a booking is one unbroken chain from its creation to its
\* present status: no row records a move from a status it had left.
HistoryChain ==
  \A b \in BookingRows :
    LET h == history[b]
    IN  /\ h # <<>> /\ h[1].old = None /\ h[Len(h)].new = bookings[b].status
        /\ \A i \in 2 .. Len(h) : h[i].old = h[i - 1].new

\* The dates of a booking (and the price snapshot taken with them) change
\* only while it is Prospecting or Relevant, not under an admin's edit that
\* was validated before the booking moved on.
DatesFrozenOnceQualified ==
  [][\A b \in BookingRows :
       bookings[b].status \notin EditableStatuses => bookings'[b].stay = bookings[b].stay]_vars

\* Double-booking at the request stage: two storefront requests nobody has
\* touched since never overlap.
NoStorefrontDoubleRequest ==
  \A b, c \in BookingRows :
    (/\ b # c /\ bookings[b].unit = bookings[c].unit
     /\ \A d \in {b, c} :
          bookings[d].origin = "storefront" /\ bookings[d].version = 1 /\ IsLive(d))
      => ~StaysOverlap(bookings[b].stay, bookings[c].stay)

\* A double-submitted quick booking makes one row: inside the window no two
\* untouched quick bookings agree on client, unit and dates.
DuplicateSubmitOnce ==
  \A b, c \in BookingRows :
    (/\ \A d \in {b, c} :
          /\ bookings[d].origin \in {"quick", "storefront"}
          /\ bookings[d].version = 1 /\ bookings[d].fresh
     /\ bookings[b].client = bookings[c].client
     /\ bookings[b].unit = bookings[c].unit
     /\ bookings[b].stay = bookings[c].stay)
      => b = c

\* A block the owner placed, pending or approved, never covers a night of a
\* stay guaranteed to a guest, and a guest is never confirmed into one.
OwnerBlockKeepsGuests ==
  \A x \in BlockIds, b \in BookingRows :
    (/\ blocks[x] # None /\ ~blocks[x].deleted /\ blocks[x].owned
     /\ blocks[x].unit = bookings[b].unit /\ Guaranteed(b))
      => ~BlockMeetsStay(blocks[x].range, bookings[b].stay)

\* Nor a night of a stay booked by converting a lead: unlike the other moves
\* to Booked, the conversion holds the unit's lock too.
OwnerBlockKeepsConverted ==
  \A x \in BlockIds, b \in BookingRows :
    (/\ blocks[x] # None /\ ~blocks[x].deleted /\ blocks[x].owned
     /\ blocks[x].unit = bookings[b].unit
     /\ bookings[b].origin \in LeadIds /\ bookings[b].status \in HoldingStatuses /\ IsLive(b))
      => ~BlockMeetsStay(blocks[x].range, bookings[b].stay)

\* The owner's live blocks of a unit are disjoint.
OwnerBlocksDisjoint ==
  \A x, y \in BlockIds :
    (/\ x # y /\ \A z \in {x, y} : blocks[z] # None /\ ~blocks[z].deleted /\ blocks[z].owned
     /\ blocks[x].unit = blocks[y].unit)
      => ~RangesOverlap(blocks[x].range, blocks[y].range)

\* The nights promised at present: to the guests of guaranteed stays and to
\* the owner's live closures.
GuestNights ==
  UNION {[holder : {b}, unit : {bookings[b].unit},
          night : bookings[b].stay.from .. bookings[b].stay.to - 1] :
           b \in {c \in BookingRows : Guaranteed(c)}}

OwnerNights ==
  UNION {[holder : {x}, unit : {blocks[x].unit}, night : blocks[x].range.from .. blocks[x].range.to] :
           x \in {y \in BlockIds : blocks[y] # None /\ ~blocks[y].deleted /\ blocks[y].owned}}

Promises ==
  INSTANCE NightClaims WITH
    Holders <- BookingIds \cup BlockIds, Nights <- Days, claims <- GuestNights \cup OwnerNights

\* The services implement NightClaims: every confirmation and every owner
\* block claims nights that were free, and what is promised is not moved.
NightsPromisedOnce == Promises!Spec

\* Dates an owner re-opened (or an admin refused to close) stay open: a
\* block that was withdrawn or rejected never comes back to life.
WithdrawnStaysWithdrawn ==
  [][\A x \in BlockIds :
       (blocks[x] # None /\ blocks[x].deleted /\ blocks'[x] # None)
         => blocks'[x].deleted /\ blocks'[x].status = "Rejected"]_vars

\* A lead becomes at most one booking: the crm-lead lock serialises
\* conversions of one lead for different units.
LeadConvertedOnce ==
  \A b, c \in BookingRows :
    (bookings[b].origin \in LeadIds /\ bookings[c].origin = bookings[b].origin) => b = c

\* A conversion never books dates another firm booking holds: a range that
\* went stale is rejected atomically.
ConversionRejectsStaleRange ==
  [][\A b \in BookingIds :
       (bookings[b] = None /\ bookings'[b] # None /\ bookings'[b].origin \in LeadIds)
         => Overlapping(bookings'[b].unit, bookings'[b].stay, HoldingStatuses, {}) = {}]_vars

\* Nobody reopens a lead that was converted or dropped after seeing it so: it
\* leaves its final status only in the save of a request that read another
\* one before, for the lead's endpoints write whole rows and take no lock.
Settled == {"Completed", "NotRelevant"}

ReadOtherStatus(w, l) ==
  tracked[w].leads[l] # None /\ tracked[w].leads[l].status # leads[l].status

ReopenedByStaleSavesOnly ==
  [][\A l \in LeadRows :
       (leads[l].status \in Settled /\ leads'[l].status # leads[l].status)
         => \E w \in Workers : pc[w] # pc'[w] /\ ReadOtherStatus(w, l)]_vars

\* A guest still checked in after the check-out day is eventually checked
\* out by the sweep or by hand, whatever conflicts single sweeps meet.
Overstays(b) ==
  /\ b \in BookingRows /\ bookings[b].status = "CheckIn"
  /\ bookings[b].stay.to < today /\ IsLive(b)

OverdueStayEnds(b) ==
  Overstays(b) ~>
    b \in BookingRows /\ (bookings[b].status \in {"Completed", "LeftEarly"} \/ ~IsLive(b))
=============================================================================
