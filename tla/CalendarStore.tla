--------------------------- MODULE CalendarStore ---------------------------
(***************************************************************************)
(* The shared database behind the unit calendar, as the services see it.   *)
(*                                                                         *)
(* Tables hold committed rows.  PostgreSQL runs at READ COMMITTED: a query *)
(* sees the rows committed when it runs, and a handler's later write is    *)
(* another step.  A request is served by a worker with its own Entity      *)
(* Framework context: tracked[w] is the change tracker, the rows as they   *)
(* were read.  Saving a booking compares its xmin (version) with the one   *)
(* read; blocks and leads carry no token and are overwritten whole.        *)
(*                                                                         *)
(* The advisory locks of a transaction are released when it ends, whether  *)
(* it commits (Finish with writes) or rolls back (Abort).                  *)
(***************************************************************************)
EXTENDS Naturals, Sequences, FiniteSets, StatusRules

CONSTANTS
  Units, Clients,                  \* rental units, clients
  BookingIds, BlockIds, LeadIds,   \* primary keys a run may insert
  Workers,                         \* requests and jobs in flight at once
  Horizon,                         \* last calendar day of a run
  MaxVersion,                      \* bound: no request moves a booking written so often
  MaxEdited,                       \* bound: no request edits a booking written so often
  Traffic,                         \* the operations clients issue in a run
  None                             \* SQL NULL, a missing row, a free lock

ASSUME HorizonAssumption == Horizon \in Nat
ASSUME MaxVersionAssumption == MaxVersion \in Nat /\ MaxEdited \in Nat
ASSUME KeysAssumption == BookingIds \cap BlockIds = {}
ASSUME LeadIdsAssumption == LeadIds \cap {"admin", "quick", "storefront"} = {}
ASSUME NoneAssumption ==
  None \notin Units \cup Clients \cup BookingIds \cup BlockIds
                \cup LeadIds \cup Workers

VARIABLES
  bookings, history,   \* bookings and booking_status_history
  blocks,              \* date_blocks
  leads,               \* crm_leads
  unit,                \* units: "active", "inactive" or "deleted"
  deletedClients,      \* clients with deleted_at set
  today,               \* the current date in Cairo
  lock,                \* advisory lock booking-unit:{unit}
  leadLock,            \* advisory lock crm-lead:{lead}
  sweepLock,           \* advisory lock job:auto-complete-bookings
  pc, ask, tracked     \* per worker: next step, arguments, change tracker

tables  == <<bookings, history, blocks, leads, unit, deletedClients, today>>
locks   == <<lock, leadLock, sweepLock>>
session == <<pc, ask, tracked>>
vars    == <<tables, locks, session>>

-----------------------------------------------------------------------------
(* Dates and rows *)

Days == 0 .. Horizon

\* A stay: the check-out day is exclusive (ValidateStayDates).
Stays == {s \in [from : Days, to : Days] : s.from < s.to}

\* A date block: both ends are inclusive (ValidateRange).
Ranges == {k \in [from : Days, to : Days] : k.from <= k.to}

Origins == {"admin", "quick", "storefront"} \cup LeadIds

\* origin is a history field (which endpoint inserted the row; no code reads
\* it), fresh says that created_at lies within the recent-duplicate window.
BookingRow ==
  [unit : Units, client : Clients, stay : Stays, status : BookingStatus,
   version : Nat, fresh : BOOLEAN, origin : Origins]

\* owned is a history field: requested by the owner and never edited since.
BlockRow ==
  [unit : Units, range : Ranges, status : BlockStatus, deleted : BOOLEAN,
   owned : BOOLEAN]

LeadRow ==
  [unit : Units \cup {None}, client : Clients \cup {None},
   stay : Stays \cup {None}, status : BookingStatus]

ASSUME NoneIsNoRow ==
  None \notin BookingRow /\ None \notin BlockRow /\ None \notin LeadRow

HistoryRow == [old : BookingStatus \cup {None}, new : BookingStatus]

\* Where a request stands: what its worker does next.
Steps ==
  {"idle", "insert", "quick", "update", "apply", "confirm", "confirm_locked",
   "confirm_checked", "sweep", "block_insert", "block_edit", "owner_block",
   "resolve", "resolve_approve", "withdraw", "lead_insert", "lead_edit",
   "lead_status", "convert_unit", "convert_locked", "convert", "unit_edit",
   "client_edit"}

\* The arguments of a request; an operation sets the fields it takes.
Ask ==
  [unit : Units \cup {None}, client : Clients \cup {None},
   stay : Stays \cup Ranges \cup {None},
   to : BookingStatus \cup BlockStatus \cup {"active", "inactive", None},
   origin : Origins \cup {"owner", None}]

NoAsk == [unit |-> None, client |-> None, stay |-> None, to |-> None, origin |-> None]

Tracker ==
  [bookings : [BookingIds -> BookingRow \cup {None}],
   blocks   : [BlockIds -> BlockRow \cup {None}],
   leads    : [LeadIds -> LeadRow \cup {None}]]

Untracked ==
  [bookings |-> [b \in BookingIds |-> None],
   blocks   |-> [x \in BlockIds |-> None],
   leads    |-> [l \in LeadIds |-> None]]

-----------------------------------------------------------------------------
(* Overlap rules *)

StaysOverlap(s, t) == s.from < t.to /\ s.to > t.from

RangesOverlap(j, k) == j.from <= k.to /\ j.to >= k.from

\* A block against a stay: blockEndExclusive = end + 1.
BlockMeetsStay(k, s) == k.from < s.to /\ k.to + 1 > s.from

\* A block against a lead: the desired check-out day counts as taken.
BlockMeetsLead(k, s) == k.from <= s.to /\ k.to >= s.from

-----------------------------------------------------------------------------
(* Queries over the committed rows *)

BookingRows == {b \in BookingIds : bookings[b] # None}

\* The query filters on the client's and the unit's deleted_at.
IsLive(b) ==
  /\ bookings[b].client \notin deletedClients
  /\ unit[bookings[b].unit] # "deleted"

\* Live bookings of unit u, other than those in except, in one of statuses.
LiveOn(u, statuses, except) ==
  {b \in BookingRows \ except :
     bookings[b].unit = u /\ bookings[b].status \in statuses /\ IsLive(b)}

Overlapping(u, s, statuses, except) ==
  {b \in LiveOn(u, statuses, except) : StaysOverlap(s, bookings[b].stay)}

\* Mutant: a pending owner request does not close its dates.
LiveBlocksApproved(u) ==
  {x \in BlockIds :
     /\ blocks[x] # None /\ blocks[x].unit = u /\ ~blocks[x].deleted
     /\ blocks[x].status = "Approved"}

LiveBlocks(u) ==
  {x \in BlockIds : blocks[x] # None /\ blocks[x].unit = u /\ ~blocks[x].deleted}

\* CheckOperationalAvailabilityAsync over the nights first..last: the days
\* taken by a live block (pending ones included) or a firm booking.
BlockedDates(u, first, last, except) ==
  {d \in first .. last :
     \/ \E x \in LiveBlocks(u) : blocks[x].range.from <= d /\ d <= blocks[x].range.to
     \/ \E b \in LiveOn(u, HoldingStatuses, except) :
          bookings[b].stay.from <= d /\ d < bookings[b].stay.to}

OperationallyAvailable(u, s, except) ==
  unit[u] = "active" /\ BlockedDates(u, s.from, s.to - 1, except) = {}

-----------------------------------------------------------------------------
(* Requests, transactions and saves *)

Begin(w, step, args) ==
  /\ pc[w] = "idle"
  /\ pc' = [pc EXCEPT ![w] = step]
  /\ ask' = [ask EXCEPT ![w] = args]

Advance(w, from, to) ==
  /\ pc[w] = from
  /\ pc' = [pc EXCEPT ![w] = to]

\* pg_advisory_xact_lock: wait until free, hold until the transaction ends.
AcquireUnit(w, u) == lock[u] = None /\ lock' = [lock EXCEPT ![u] = w]

Free(table, w) == [k \in DOMAIN table |-> IF table[k] = w THEN None ELSE table[k]]

\* The request ends: its context is disposed, its transaction locks go.
Finish(w) ==
  /\ pc' = [pc EXCEPT ![w] = "idle"]
  /\ ask' = [ask EXCEPT ![w] = NoAsk]
  /\ tracked' = [tracked EXCEPT ![w] = Untracked]
  /\ lock' = Free(lock, w)
  /\ leadLock' = Free(leadLock, w)
  /\ sweepLock' = IF sweepLock = w THEN None ELSE sweepLock

\* Any exception, cancelled request or crash before the commit: a failed
\* guard, an xmin conflict, a lost connection.  Nothing was written.
Abort(w) == pc[w] # "idle" /\ Finish(w) /\ UNCHANGED tables

TrackBookings(w, S) ==
  tracked' = [tracked EXCEPT ![w].bookings =
                [b \in BookingIds |-> IF b \in S THEN bookings[b] ELSE None]]

TrackBlock(w, x) == tracked' = [tracked EXCEPT ![w].blocks[x] = blocks[x]]

TrackLead(w, l) == tracked' = [tracked EXCEPT ![w].leads[l] = leads[l]]

TrackedBookings(w) == {b \in BookingIds : tracked[w].bookings[b] # None}
TrackedBlocks(w)   == {x \in BlockIds : tracked[w].blocks[x] # None}
TrackedLeads(w)    == {l \in LeadIds : tracked[w].leads[l] # None}

\* Mutant: no concurrency token.
XminIgnored(w) == TRUE

\* UPDATE ... WHERE xmin = <the one read> matches a row: no other save came
\* in between.
XminMatches(w) ==
  \A b \in TrackedBookings(w) :
    bookings[b] # None /\ bookings[b].version = tracked[w].bookings[b].version

\* Save the tracked bookings with status to, and one history row for each.
SaveStatus(w, to) ==
  /\ XminMatches(w)
  /\ bookings' = [b \in BookingIds |->
       IF b \in TrackedBookings(w)
       THEN [tracked[w].bookings[b] EXCEPT !.status = to,
                                           !.version = bookings[b].version + 1,
                                           !.fresh = bookings[b].fresh]
       ELSE bookings[b]]
  /\ history' = [b \in BookingIds |->
       IF b \in TrackedBookings(w)
       THEN Append(history[b], [old |-> tracked[w].bookings[b].status, new |-> to])
       ELSE history[b]]

\* Mutant: the columns of the first history row are swapped.
AddBookingSwapped(b, u, c, s, status, origin) ==
  /\ bookings[b] = None
  /\ bookings' = [bookings EXCEPT ![b] =
       [unit |-> u, client |-> c, stay |-> s, status |-> status,
        version |-> 1, fresh |-> TRUE, origin |-> origin]]
  /\ history' = [history EXCEPT ![b] = <<[old |-> status, new |-> None]>>]

\* Insert booking b with its first history row (one SaveChangesAsync).
AddBooking(b, u, c, s, status, origin) ==
  /\ bookings[b] = None
  /\ bookings' = [bookings EXCEPT ![b] =
       [unit |-> u, client |-> c, stay |-> s, status |-> status,
        version |-> 1, fresh |-> TRUE, origin |-> origin]]
  /\ history' = [history EXCEPT ![b] = <<[old |-> None, new |-> status]>>]
=============================================================================
