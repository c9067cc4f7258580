----------------------------- MODULE BookingOps -----------------------------
(***************************************************************************)
(* BookingService, BookingLifecycleService and AutoCompleteBookingsJob.    *)
(* A check and the write it justifies are two steps: other requests run in *)
(* between unless an advisory lock or the booking's xmin keeps them out.   *)
(***************************************************************************)
EXTENDS CalendarStore

\* Guards of BookingService.CreateAsync, all read before the insert.
MayCreate(c, u, s, rejectSoftHolds) ==
  /\ c \notin deletedClients
  /\ OperationallyAvailable(u, s, {})
  /\ rejectSoftHolds => Overlapping(u, s, ActiveAvailabilityHoldStatuses, {}) = {}
  /\ Overlapping(u, s, HoldingStatuses, {}) = {}

\* POST bookings: CreateAsync in no transaction and under no lock.
CreateCheck(w, c, u, s) ==
  /\ MayCreate(c, u, s, FALSE)
  /\ Begin(w, "insert", [NoAsk EXCEPT !.unit = u, !.client = c, !.stay = s,
                                      !.origin = "admin"])
  /\ UNCHANGED <<tables, locks, tracked>>

\* Mutant: no unit lock.
QuickUnlocked(w, c, u, s, origin) ==
  /\ Begin(w, "quick", [NoAsk EXCEPT !.unit = u, !.client = c, !.stay = s,
                                     !.origin = origin])
  /\ UNCHANGED <<tables, locks, tracked>>

\* CreateQuickAsync: the transaction starts with the unit's lock.  The
\* storefront and guest endpoints also reject soft-hold overlaps.
QuickLock(w, c, u, s, origin) ==
  /\ AcquireUnit(w, u)
  /\ Begin(w, "quick", [NoAsk EXCEPT !.unit = u, !.client = c, !.stay = s,
                                     !.origin = origin])
  /\ UNCHANGED <<tables, leadLock, sweepLock, tracked>>

RecentDuplicates(w) ==
  {b \in BookingRows :
     /\ bookings[b].client = ask[w].client
     /\ bookings[b].unit = ask[w].unit
     /\ bookings[b].stay = ask[w].stay
     /\ bookings[b].status = "Prospecting"
     /\ bookings[b].fresh
     /\ IsLive(b)}

\* A repeated submission gets the booking the first one made.
QuickReturnDuplicate(w) ==
  /\ pc[w] = "quick"
  /\ RecentDuplicates(w) # {}
  /\ Finish(w)
  /\ UNCHANGED tables

\* Mutant: the recent-duplicate query is left out.
QuickCheckRepeats(w) ==
  /\ Advance(w, "quick", "insert")
  /\ MayCreate(ask[w].client, ask[w].unit, ask[w].stay, FALSE)
  /\ UNCHANGED <<tables, locks, ask, tracked>>

QuickCheck(w) ==
  /\ Advance(w, "quick", "insert")
  /\ RecentDuplicates(w) = {}
  /\ MayCreate(ask[w].client, ask[w].unit, ask[w].stay, ask[w].origin = "storefront")
  /\ UNCHANGED <<tables, locks, ask, tracked>>

InsertBooking(w, b) ==
  /\ pc[w] = "insert"
  /\ AddBooking(b, ask[w].unit, ask[w].client, ask[w].stay, "Prospecting", ask[w].origin)
  /\ Finish(w)
  /\ UNCHANGED <<blocks, leads, unit, deletedClients, today>>

\* The recent-duplicate window of a booking closes.
DuplicateWindowCloses(b) ==
  /\ b \in BookingRows /\ bookings[b].fresh
  /\ bookings' = [bookings EXCEPT ![b].fresh = FALSE]
  /\ UNCHANGED <<history, blocks, leads, unit, deletedClients, today, locks, session>>

-----------------------------------------------------------------------------
(* UpdatePendingAsync: no lock; xmin protects the save *)

UpdateRead(w, b, s) ==
  /\ b \in BookingRows /\ bookings[b].version < MaxEdited
  /\ bookings[b].status \in EditableStatuses
  /\ OperationallyAvailable(bookings[b].unit, s, {b})
  /\ Overlapping(bookings[b].unit, s, HoldingStatuses, {b}) = {}
  /\ Begin(w, "update", [NoAsk EXCEPT !.stay = s])
  /\ TrackBookings(w, {b})
  /\ UNCHANGED <<tables, locks>>

\* Mutant: the edit is saved without the token.
UpdateSaveBlind(w) ==
  /\ pc[w] = "update"
  /\ bookings' = [b \in BookingIds |->
       IF b \in TrackedBookings(w)
       THEN [tracked[w].bookings[b] EXCEPT !.stay = ask[w].stay,
                                           !.version = bookings[b].version + 1]
       ELSE bookings[b]]
  /\ Finish(w)
  /\ UNCHANGED <<history, blocks, leads, unit, deletedClients, today>>

UpdateSave(w) ==
  /\ pc[w] = "update"
  /\ XminMatches(w)
  /\ bookings' = [b \in BookingIds |->
       IF b \in TrackedBookings(w)
       THEN [tracked[w].bookings[b] EXCEPT !.stay = ask[w].stay,
                                           !.version = bookings[b].version + 1,
                                           !.fresh = bookings[b].fresh]
       ELSE bookings[b]]
  /\ Finish(w)
  /\ UNCHANGED <<history, blocks, leads, unit, deletedClients, today>>

-----------------------------------------------------------------------------
(* BookingLifecycleService.TransitionAsync *)

\* Validated against the row read here; a confirmation goes on to its own
\* transaction, every other target is saved as it is.
TransitionRead(w, b, to) ==
  /\ b \in BookingRows /\ bookings[b].version < MaxVersion
  /\ IsValidTransition(bookings[b].status, to)
  /\ Begin(w, IF to = "Confirmed" THEN "confirm" ELSE "apply",
           [NoAsk EXCEPT !.unit = bookings[b].unit, !.to = to])
  /\ TrackBookings(w, {b})
  /\ UNCHANGED <<tables, locks>>

\* ApplySimpleTransitionAsync and CancelInternalAsync.
ApplyTransition(w) ==
  /\ pc[w] = "apply"
  /\ SaveStatus(w, ask[w].to)
  /\ Finish(w)
  /\ UNCHANGED <<blocks, leads, unit, deletedClients, today>>

\* Mutant: confirmation reloads without taking the unit's lock.
ConfirmUnlocked(w) ==
  /\ Advance(w, "confirm", "confirm_locked")
  /\ TrackBookings(w, TrackedBookings(w))
  /\ \A b \in TrackedBookings(w) : IsValidTransition(bookings[b].status, "Confirmed")
  /\ UNCHANGED <<tables, locks, ask>>

\* ConfirmInternalAsync: lock, reload, revalidate.
ConfirmLock(w) ==
  /\ Advance(w, "confirm", "confirm_locked")
  /\ AcquireUnit(w, ask[w].unit)
  /\ TrackBookings(w, TrackedBookings(w))
  /\ \A b \in TrackedBookings(w) : IsValidTransition(bookings[b].status, "Confirmed")
  /\ UNCHANGED <<tables, leadLock, sweepLock, ask>>

ConfirmCheck(w) ==
  /\ Advance(w, "confirm_locked", "confirm_checked")
  /\ \A b \in TrackedBookings(w) :
       LET row == tracked[w].bookings[b]
       IN  /\ OperationallyAvailable(row.unit, row.stay, {b})
           /\ Overlapping(row.unit, row.stay, HoldingStatuses, {b}) = {}
  /\ UNCHANGED <<tables, locks, ask, tracked>>

\* Status, history and (in InvoiceService) the invoice, then the commit.
ConfirmCommit(w) ==
  /\ pc[w] = "confirm_checked"
  /\ SaveStatus(w, "Confirmed")
  /\ Finish(w)
  /\ UNCHANGED <<blocks, leads, unit, deletedClients, today>>

-----------------------------------------------------------------------------
(* AutoCompleteBookingsJob.RunSweepAsync, on one of the replicas *)

\* Mutant: a sweep that looks at yesterday's departures only.
OverdueYesterday ==
  {b \in BookingRows :
     bookings[b].status = "CheckIn" /\ bookings[b].stay.to + 1 = today /\ IsLive(b)}

\* Checked-in bookings whose check-out day has passed; Include(Client) and
\* Include(Unit) join tables filtered on deleted_at.
Overdue ==
  {b \in BookingRows :
     bookings[b].status = "CheckIn" /\ bookings[b].stay.to < today /\ IsLive(b)}

SweepRead(w) ==
  /\ sweepLock = None
  /\ Overdue # {}
  /\ Begin(w, "sweep", NoAsk)
  /\ sweepLock' = w
  /\ TrackBookings(w, Overdue)
  /\ UNCHANGED <<tables, lock, leadLock>>

\* One SaveChangesAsync for all of them: one xmin conflict fails the sweep.
SweepCommit(w) ==
  /\ pc[w] = "sweep"
  /\ SaveStatus(w, "Completed")
  /\ Finish(w)
  /\ UNCHANGED <<blocks, leads, unit, deletedClients, today>>

-----------------------------------------------------------------------------
\* The date in Cairo changes.
NextDay ==
  /\ today < Horizon
  /\ today' = today + 1
  /\ UNCHANGED <<bookings, history, blocks, leads, unit, deletedClients, locks, session>>
=============================================================================
