------------------------ MODULE UnitCalendarPromises ------------------------
(***************************************************************************)
(* What the unit's lock achieves for the calendar: the owner's closures,   *)
(* the stays of guests and the storefront's requests stay apart, a         *)
(* withdrawn block stays withdrawn, and the services implement             *)
(* NightClaims.                                                            *)
(*                                                                         *)
(* One argument serves all of them.  A worker inside the locked part of    *)
(* its transaction holds its unit (UnitHeld), and a unit has one holder    *)
(* (SoleHolder).  So what the holder checked before its save (ClearOf...)  *)
(* is still true when it saves: a closure, a firm stay or a request can    *)
(* only come to be through a save of the holder (NewlyOwned, NewlyFirm,    *)
(* InsertedBy).  Writers without the lock can only take promises away,     *)
(* except where a theorem's assumption on Traffic rules one of them out.   *)
(*                                                                         *)
(* The first theorem: no unit is confirmed to two guests for the same      *)
(* night, as long as no client edit brings a deleted client back           *)
(* (NoDoubleConfirmed fails with "profiles" in the traffic).  A worker     *)
(* that passed the re-check of a confirmation holds the unit's lock        *)
(* (Held), so until its commit no other booking of the unit is confirmed   *)
(* and the check stays true (Checked).  The xmin token makes the row it    *)
(* saves the row it checked (RowChanges).  Moves to Booked and edits take  *)
(* no lock, and need none: they make no guarantee.                         *)
(* Secured drops the unit's liveness from Guaranteed, because a stale unit *)
(* edit can bring a deleted unit back.                                     *)
(*                                                                         *)
(* The last two are about leads: what the lead's own lock achieves for     *)
(* conversions, and that only a stale save takes a lead out of a final     *)
(* status, whatever interleaves.                                           *)
(***************************************************************************)
EXTENDS UnitCalendarRows

Secured(b) ==
  bookings[b].status \in {"Confirmed", "CheckIn"} /\ bookings[b].client \notin deletedClients

SecuredDisjoint ==
  \A b, c \in BookingRows :
    (b # c /\ Secured(b) /\ Secured(c) /\ bookings[b].unit = bookings[c].unit)
      => ~StaysOverlap(bookings[b].stay, bookings[c].stay)

LockedSteps == {"confirm_locked", "confirm_checked"}

Held == \A w \in Workers : pc[w] \in LockedSteps => lock[ask[w].unit] = w

CheckedFor(w) ==
  pc[w] = "confirm_checked" =>
    \A b \in TrackedBookings(w), c \in BookingRows :
      (b # c /\ Secured(c) /\ bookings[c].unit = ask[w].unit)
        => ~StaysOverlap(Row(w, b).stay, bookings[c].stay)

Checked == \A w \in Workers : CheckedFor(w)

NoClientEdits == \A w \in Workers : pc[w] # "client_edit"

GuestInv == RowInv /\ Held /\ Checked /\ SecuredDisjoint /\ NoClientEdits

-----------------------------------------------------------------------------
(* Locks and deletions *)

\* Only the holder of a unit's lock lets it go.
LockFrame(w) == \A u \in Units : lock[u] \in Workers \ {w} => lock'[u] = lock[u]

LEMMA RequestLocks ==
  ASSUME RowInv, NEW w \in Workers, Request(w)
  PROVE  LockFrame(w) /\ pc'[w] \notin LockedSteps /\ UNCHANGED deletedClients
<1>1. \A step, args : Begin(w, step, args) => pc'[w] = step
  BY DEF Begin, RowInv, TypeInv, TypeOK, SessionOK
<1>2. lock' = lock => LockFrame(w)
  BY DEF LockFrame
<1>3. \A u : AcquireUnit(w, u) => LockFrame(w)
  BY NoneAssumption DEF LockFrame, AcquireUnit, RowInv, TypeInv, TypeOK, LocksOK
<1>4. LockFrame(w) /\ UNCHANGED deletedClients
  BY <1>2, <1>3 DEF Request, tables, locks, CreateCheck, QuickLock, UpdateRead, TransitionRead,
     SweepRead, AdminBlockCheck, AdminBlockEditRead, OwnerBlockLock, ResolveLock, WithdrawLock,
     LeadCreateCheck, LeadStatusRead, LeadEditRead, ConvertLockUnit, UnitEditRead, ClientEditRead
<1>5. pc'[w] \notin LockedSteps
  BY <1>1 DEF LockedSteps, Request, CreateCheck, QuickLock, UpdateRead, TransitionRead,
     SweepRead, AdminBlockCheck, AdminBlockEditRead, OwnerBlockLock, ResolveLock, WithdrawLock,
     LeadCreateCheck, LeadStatusRead, LeadEditRead, ConvertLockUnit, UnitEditRead, ClientEditRead
<1> QED BY <1>4, <1>5

LEMMA FinishLocks ==
  ASSUME RowInv, NEW w \in Workers, Finish(w)
  PROVE  LockFrame(w) /\ pc'[w] = "idle"
BY DEF Finish, Free, LockFrame, RowInv, TypeInv, TypeOK, LocksOK, SessionOK

LEMMA ProceedLocks ==
  ASSUME RowInv, NEW w \in Workers, Proceed(w) \/ Abort(w)
  PROVE  /\ LockFrame(w)
         /\ pc'[w] \in LockedSteps => ConfirmLock(w) \/ ConfirmCheck(w)
         /\ pc[w] # "client_edit" => UNCHANGED deletedClients
<1>1. ASSUME Finish(w) PROVE LockFrame(w) /\ pc'[w] \notin LockedSteps
  BY <1>1, FinishLocks DEF LockedSteps
<1>2. \A from, to : Advance(w, from, to) => pc'[w] = to
  BY DEF Advance, RowInv, TypeInv, TypeOK, SessionOK
<1>3. lock' = lock => LockFrame(w)
  BY DEF LockFrame
<1>4. ConfirmLock(w) => LockFrame(w)
  BY NoneAssumption DEF ConfirmLock, LockFrame, AcquireUnit, RowInv, TypeInv, TypeOK, LocksOK
<1>5. LockFrame(w) /\ (pc'[w] \in LockedSteps => ConfirmLock(w) \/ ConfirmCheck(w))
  BY <1>1, <1>2, <1>3, <1>4 DEF LockedSteps, Proceed, locks,
     QuickReturnDuplicate, QuickCheck, InsertBooking, UpdateSave, ApplyTransition, ConfirmCheck,
     ConfirmCommit, SweepCommit, InsertBlock, AdminBlockEditSave, OwnerBlockCheck,
     ResolveReadConflicts, ResolveApprove, ResolveReject, WithdrawCommit, LeadInsert, LeadEditSave,
     LeadStatusSave, ConvertLockLead, ConvertCheck, ConvertCommit, UnitEditSave, ClientEditSave, Abort
<1>6. pc[w] # "client_edit" => UNCHANGED deletedClients
  BY DEF Proceed, tables,
     QuickReturnDuplicate, QuickCheck, InsertBooking, UpdateSave, ApplyTransition, ConfirmLock,
     ConfirmCheck, ConfirmCommit, SweepCommit, InsertBlock, AdminBlockEditSave, OwnerBlockCheck,
     ResolveReadConflicts, ResolveApprove, ResolveReject, WithdrawCommit, LeadInsert, LeadEditSave,
     LeadStatusSave, ConvertLockLead, ConvertCheck, ConvertCommit, UnitEditSave, ClientEditSave, Abort
<1> QED BY <1>5, <1>6

LEMMA SurroundingsLocks ==
  ASSUME Surroundings
  PROVE  UNCHANGED <<pc, ask, tracked, lock>> /\ deletedClients \subseteq deletedClients'
BY DEF Surroundings, NextDay, DuplicateWindowCloses, AdminBlockDelete, DeleteUnit, DeleteClient,
   session, locks

LEMMA DeletedStayDeleted ==
  ASSUME RowInv, NoClientEdits, Next
  PROVE  deletedClients \subseteq deletedClients'
BY RequestLocks, ProceedLocks, SurroundingsLocks DEF Next, NoClientEdits

LEMMA HeldStep ==
  ASSUME GuestInv, Next
  PROVE  Held'
<1>1. ASSUME NEW w \in Workers, Request(w) \/ Proceed(w) \/ Abort(w)
      PROVE  Held'
  <2>1. LockFrame(w) /\ (pc'[w] \in LockedSteps => ConfirmLock(w) \/ ConfirmCheck(w))
    BY <1>1, RequestLocks, ProceedLocks DEF GuestInv
  <2>2. Frame(w)
    BY <1>1, RequestPlan, ProceedPlan DEF GuestInv
  <2>3. ASSUME NEW v \in Workers, v # w, pc'[v] \in LockedSteps
        PROVE  lock'[ask'[v].unit] = v
    <3>1. pc[v] \in LockedSteps /\ ask'[v] = ask[v]
      BY <2>2, <2>3 DEF Frame
    <3>2. lock[ask[v].unit] = v /\ ask[v].unit \in Units
      BY <3>1 DEF GuestInv, Held, RowInv, TypeInv, AskFits, Fits, LockedSteps
    <3> QED BY <2>1, <2>3, <3>1, <3>2 DEF LockFrame
  <2>4. ConfirmLock(w) => lock'[ask'[w].unit] = w
    BY DEF ConfirmLock, Advance, AcquireUnit, GuestInv, RowInv, TypeInv, TypeOK, LocksOK, AskFits,
       Fits
  <2>5. ConfirmCheck(w) => lock'[ask'[w].unit] = w
    BY DEF ConfirmCheck, Advance, locks, GuestInv, Held, LockedSteps
  <2> QED BY <2>1, <2>3, <2>4, <2>5 DEF Held
<1>2. CASE Surroundings
  BY <1>2, SurroundingsLocks DEF GuestInv, Held
<1> QED BY <1>1, <1>2 DEF Next

LEMMA NoClientEditsStep ==
  ASSUME "profiles" \notin Traffic, GuestInv, Next
  PROVE  NoClientEdits'
<1>1. ASSUME NEW w \in Workers, Request(w)
      PROVE  pc'[w] # "client_edit"
  <2>1. \A step, args : Begin(w, step, args) => pc'[w] = step
    BY DEF Begin, GuestInv, RowInv, TypeInv, TypeOK, SessionOK
  <2> QED BY <1>1, <2>1 DEF Request, CreateCheck, QuickLock, UpdateRead, TransitionRead,
     SweepRead, AdminBlockCheck, AdminBlockEditRead, OwnerBlockLock, ResolveLock, WithdrawLock,
     LeadCreateCheck, LeadStatusRead, LeadEditRead, ConvertLockUnit, UnitEditRead
<1>2. ASSUME NEW w \in Workers, Proceed(w) \/ Abort(w)
      PROVE  pc'[w] # "client_edit"
  <2>1. Finish(w) => pc'[w] = "idle"
    BY FinishLocks DEF GuestInv
  <2>2. \A from, to : Advance(w, from, to) => pc'[w] = to
    BY DEF Advance, GuestInv, RowInv, TypeInv, TypeOK, SessionOK
  <2> QED BY <1>2, <2>1, <2>2 DEF Proceed,
     QuickReturnDuplicate, QuickCheck, InsertBooking, UpdateSave, ApplyTransition, ConfirmLock,
     ConfirmCheck, ConfirmCommit, SweepCommit, InsertBlock, AdminBlockEditSave, OwnerBlockCheck,
     ResolveReadConflicts, ResolveApprove, ResolveReject, WithdrawCommit, LeadInsert, LeadEditSave,
     LeadStatusSave, ConvertLockLead, ConvertCheck, ConvertCommit, UnitEditSave, ClientEditSave, Abort
<1>3. ASSUME NEW w \in Workers, Request(w) \/ Proceed(w) \/ Abort(w)
      PROVE  Frame(w)
  BY <1>3, RequestPlan, ProceedPlan DEF GuestInv
<1>4. Surroundings => NoClientEdits'
  BY SurroundingsLocks DEF GuestInv, NoClientEdits
<1> QED BY <1>1, <1>2, <1>3, <1>4 DEF Next, Frame, GuestInv, NoClientEdits

-----------------------------------------------------------------------------
(* Guarantees *)

\* Worker w is about to confirm booking b.
Confirming(w, b) == pc[w] = "confirm_checked" /\ b \in TrackedBookings(w)

\* A confirmation is under way for the unit of its booking, under its lock.
LEMMA ConfirmingUnit ==
  ASSUME GuestInv, NEW w \in Workers, NEW b \in BookingIds, Confirming(w, b)
  PROVE  /\ bookings[b] # None /\ ask[w].unit = bookings[b].unit /\ lock[bookings[b].unit] = w
         /\ \A c \in TrackedBookings(w) : c = b
<1>1. bookings[b] # None /\ Row(w, b).unit = bookings[b].unit
  BY DEF Confirming, GuestInv, RowInv, Snapshots
<1>2. Row(w, b).unit = ask[w].unit /\ \A c \in TrackedBookings(w) : c = b
  BY DEF Confirming, GuestInv, RowInv, Plans, Plan, ConfirmSteps
<1>3. lock[ask[w].unit] = w
  BY DEF Confirming, GuestInv, Held, LockedSteps
<1> QED BY <1>1, <1>2, <1>3

\* A stay is secured after a step because it was before, or because a worker
\* confirms it, with the dates it had checked.
LEMMA NewlySecured ==
  ASSUME GuestInv, Next, NEW b \in BookingIds, bookings'[b] # None, Secured(b)'
  PROVE  /\ bookings[b] # None
         /\ bookings'[b].unit = bookings[b].unit /\ bookings'[b].stay = bookings[b].stay
         /\ Secured(b) \/ \E w \in Workers : Confirming(w, b) /\ Row(w, b).stay = bookings[b].stay
<1>1. RowChange(b) /\ deletedClients \subseteq deletedClients'
  BY RowChanges, DeletedStayDeleted DEF GuestInv
<1>2. ~Absent(b) /\ ~Inserted(b) /\ ~Edited(b)
  BY DEF Absent, Inserted, Edited, Secured, EditableStatuses
<1>3. CASE Untouched(b)
  BY <1>1, <1>3 DEF Untouched, Keeps, Secured
<1>4. CASE Moved(b)
  <2>1. /\ bookings[b] # None /\ bookings'[b].client = bookings[b].client
        /\ bookings'[b].unit = bookings[b].unit /\ bookings'[b].stay = bookings[b].stay
        /\ IsValidTransition(bookings[b].status, bookings'[b].status)
    BY <1>4 DEF Moved, Keeps
  <2>2. bookings[b].client \notin deletedClients
    BY <1>1, <2>1 DEF Secured
  <2>3. CASE bookings'[b].status = "CheckIn"
    <3>1. bookings[b].status \in BookingStatus
      BY <2>1 DEF GuestInv, RowInv, TypeInv, TypeOK, TablesOK, BookingRow
    <3>2. bookings[b].status = "Confirmed"
      BY <2>1, <2>3, <3>1 DEF IsValidTransition, AllowedTransitions, BookingStatus
    <3> QED BY <2>1, <2>2, <3>2 DEF Secured
  <2>4. CASE bookings'[b].status = "Confirmed"
    <3>1. PICK w \in Workers : Confirming(w, b) /\ XminMatches(w)
      BY <1>4, <2>4 DEF Moved, Confirming
    <3>2. Row(w, b).stay = bookings[b].stay
      BY <3>1, MatchedSnapshot DEF Confirming, GuestInv
    <3> QED BY <2>1, <3>1, <3>2
  <2> QED BY <2>3, <2>4 DEF Secured
<1> QED BY <1>1, <1>2, <1>3, <1>4 DEF RowChange

LEMMA OverlapSymmetric ==
  ASSUME NEW s \in Stays, NEW t \in Stays
  PROVE  StaysOverlap(s, t) <=> StaysOverlap(t, s)
BY DEF StaysOverlap, Stays, Days

LEMMA SecuredStep ==
  ASSUME GuestInv, Next
  PROVE  SecuredDisjoint'
<1> SUFFICES ASSUME NEW b \in BookingIds, NEW c \in BookingIds, b # c,
                    bookings'[b] # None, bookings'[c] # None, Secured(b)', Secured(c)',
                    bookings'[b].unit = bookings'[c].unit
             PROVE  ~StaysOverlap(bookings'[b].stay, bookings'[c].stay)
  BY DEF SecuredDisjoint, BookingRows
<1> USE NewlySecured
<1>1. /\ bookings[b] # None /\ bookings[c] # None /\ bookings[b].unit = bookings[c].unit
      /\ bookings'[b].stay = bookings[b].stay /\ bookings'[c].stay = bookings[c].stay
  OBVIOUS
<1>2. bookings[b].stay \in Stays /\ bookings[c].stay \in Stays
  BY <1>1 DEF GuestInv, RowInv, TypeInv, TypeOK, TablesOK, BookingRow
<1>3. CASE Secured(b) /\ Secured(c)
  BY <1>1, <1>3 DEF GuestInv, SecuredDisjoint, BookingRows
<1>4. ASSUME NEW w \in Workers, NEW d \in BookingIds, NEW e \in BookingIds, d # e,
             bookings[e] # None, bookings[d].unit = bookings[e].unit,
             Confirming(w, d), Row(w, d).stay = bookings[d].stay, Secured(e)
      PROVE  ~StaysOverlap(bookings[d].stay, bookings[e].stay)
  BY <1>4, ConfirmingUnit DEF GuestInv, Checked, CheckedFor, Confirming, BookingRows
<1>5. ASSUME NEW v \in Workers, NEW w \in Workers, Confirming(v, b), Confirming(w, c)
      PROVE  FALSE
  <2>1. v = w
    BY <1>1, <1>5, ConfirmingUnit
  <2> QED BY <1>5, <2>1, ConfirmingUnit DEF Confirming
<1> QED BY <1>1, <1>2, <1>3, <1>4, <1>5, OverlapSymmetric

\* The re-check of a confirmation finds no secured stay in the way.
LEMMA CheckFindsFree ==
  ASSUME GuestInv, NEW w \in Workers, ConfirmCheck(w),
         NEW b \in TrackedBookings(w), NEW c \in BookingRows, b # c, Secured(c),
         bookings[c].unit = ask[w].unit
  PROVE  ~StaysOverlap(Row(w, b).stay, bookings[c].stay)
<1>1. /\ unit[Row(w, b).unit] = "active"
      /\ Overlapping(Row(w, b).unit, Row(w, b).stay, HoldingStatuses, {b}) = {}
  BY DEF ConfirmCheck, OperationallyAvailable, Row
<1>2. Row(w, b).unit = ask[w].unit
  BY DEF ConfirmCheck, Advance, GuestInv, RowInv, Plans, Plan, ConfirmSteps
<1>3. c \in LiveOn(Row(w, b).unit, HoldingStatuses, {b})
  BY <1>1, <1>2 DEF LiveOn, IsLive, Secured, HoldingStatuses
<1> QED BY <1>1, <1>3 DEF Overlapping

LEMMA CheckedStep ==
  ASSUME GuestInv, Next
  PROVE  Checked'
<1> SUFFICES ASSUME NEW w \in Workers, pc'[w] = "confirm_checked", NEW b \in TrackedBookings(w)',
                    NEW c \in BookingIds, bookings'[c] # None, b # c, Secured(c)',
                    bookings'[c].unit = ask'[w].unit
             PROVE  ~StaysOverlap(Row(w, b)'.stay, bookings'[c].stay)
  BY DEF Checked, CheckedFor, BookingRows
<1>1. /\ bookings[c] # None /\ bookings'[c].unit = bookings[c].unit /\ bookings'[c].stay = bookings[c].stay
      /\ Secured(c) \/ \E v \in Workers : Confirming(v, c)
  BY NewlySecured
<1>2. CASE ConfirmCheck(w)
  <2>1. ask' = ask /\ tracked' = tracked /\ bookings' = bookings /\ deletedClients' = deletedClients
    BY <1>2 DEF ConfirmCheck, tables
  <2>2. b \in TrackedBookings(w) /\ Row(w, b)' = Row(w, b) /\ Secured(c)
    BY <2>1 DEF TrackedBookings, Row, Secured
  <2> QED BY <1>1, <1>2, <2>1, <2>2, CheckFindsFree DEF BookingRows
<1>3. CASE UNCHANGED <<pc[w], ask[w], tracked[w]>>
  <2>1. pc[w] = "confirm_checked" /\ b \in TrackedBookings(w) /\ Row(w, b)' = Row(w, b)
    BY <1>3 DEF TrackedBookings, Row
  <2>2. b \in BookingIds /\ Confirming(w, b)
    BY <2>1 DEF Confirming, TrackedBookings
  <2>3. ASSUME NEW v \in Workers, Confirming(v, c)
        PROVE  FALSE
    <3>1. bookings[b].unit = bookings[c].unit
      <4>1. ask[w].unit = bookings[b].unit
        BY <2>2, ConfirmingUnit
      <4> QED BY <1>1, <1>3, <4>1
    <3>2. v = w
      BY <2>2, <2>3, <3>1, ConfirmingUnit
    <3> QED BY <2>2, <2>3, <3>2, ConfirmingUnit DEF Confirming
  <2>4. Secured(c)
    BY <1>1, <2>3
  <2> QED BY <1>1, <1>3, <2>1, <2>4 DEF GuestInv, Checked, CheckedFor, BookingRows
<1>4. ASSUME NEW v \in Workers, Request(v) \/ Proceed(v) \/ Abort(v)
      PROVE  ConfirmCheck(w) \/ UNCHANGED <<pc[w], ask[w], tracked[w]>>
  <2>1. CASE v = w
    <3>1. ConfirmLock(w) => pc'[w] = "confirm_locked"
      BY DEF ConfirmLock, Advance, GuestInv, RowInv, TypeInv, TypeOK, SessionOK
    <3> QED BY <1>4, <2>1, <3>1, RequestLocks, ProceedLocks DEF GuestInv, LockedSteps
  <2>2. CASE v # w
    <3>1. Frame(v)
      BY <1>4, RequestPlan, ProceedPlan DEF GuestInv
    <3> QED BY <2>2, <3>1 DEF Frame
  <2> QED BY <2>1, <2>2
<1>5. Surroundings => UNCHANGED <<pc[w], ask[w], tracked[w]>>
  BY SurroundingsLocks
<1> QED BY <1>2, <1>3, <1>4, <1>5 DEF Next

-----------------------------------------------------------------------------

LEMMA GuestInvInit == Init => GuestInv
BY RowInvInit DEF Init, Quiet, GuestInv, Held, LockedSteps, Checked, CheckedFor, SecuredDisjoint,
   BookingRows, NoClientEdits

LEMMA GuestInvStep ==
  ASSUME "profiles" \notin Traffic
  PROVE  GuestInv /\ [Next]_vars => GuestInv'
<1> SUFFICES ASSUME GuestInv, [Next]_vars PROVE GuestInv'
  OBVIOUS
<1>1. RowInv'
  BY RowInvStep DEF GuestInv
<1>2. CASE Next
  BY <1>1, <1>2, HeldStep, CheckedStep, SecuredStep, NoClientEditsStep DEF GuestInv
<1>3. CASE UNCHANGED vars
  BY <1>1, <1>3 DEF vars, tables, locks, session, GuestInv, Held, Checked, CheckedFor,
     SecuredDisjoint, Secured, NoClientEdits, BookingRows, TrackedBookings, Row
<1> QED BY <1>2, <1>3

\* While no stale client edit can undo a deletion, two guaranteed stays never
\* share a night of a unit, however many requests confirm, edit and move
\* bookings at once.
THEOREM NeverDoubleConfirmed ==
  ASSUME "profiles" \notin Traffic
  PROVE  Spec => []NoDoubleConfirmed
<1>1. GuestInv => NoDoubleConfirmed
  BY DEF GuestInv, SecuredDisjoint, NoDoubleConfirmed, Guaranteed, Secured, IsLive
<1> QED BY <1>1, GuestInvInit, GuestInvStep, PTL DEF Spec

-----------------------------------------------------------------------------
(* What holds a unit *)

HeldSteps ==
  LockedSteps \cup {"quick", "convert_unit", "convert_locked", "convert",
                    "owner_block", "resolve", "resolve_approve", "withdraw"}

\* Worker w is in the part of a transaction that holds the lock of its unit.
HoldsUnit(w) ==
  \/ pc[w] \in HeldSteps
  \/ pc[w] = "insert" /\ ask[w].origin # "admin"
  \/ pc[w] = "block_insert" /\ ask[w].origin = "owner"

UnitHeld == \A w \in Workers : HoldsUnit(w) => ask[w].unit \in Units /\ lock[ask[w].unit] = w

-----------------------------------------------------------------------------
(* Who holds a unit *)

LEMMA Began ==
  ASSUME RowInv, NEW w \in Workers, NEW step, NEW args, Begin(w, step, args)
  PROVE  pc[w] = "idle" /\ pc'[w] = step /\ ask'[w] = args
BY DEF Begin, RowInv, TypeInv, TypeOK, SessionOK

LEMMA Advanced ==
  ASSUME RowInv, NEW w \in Workers, NEW from, NEW to, Advance(w, from, to)
  PROVE  pc[w] = from /\ pc'[w] = to
BY DEF Advance, RowInv, TypeInv, TypeOK, SessionOK

LEMMA Acquired ==
  ASSUME RowInv, NEW w \in Workers, NEW u \in Units, AcquireUnit(w, u)
  PROVE  lock'[u] = w
BY DEF AcquireUnit, RowInv, TypeInv, TypeOK, LocksOK

LEMMA RequestHolds ==
  ASSUME RowInv, NEW w \in Workers, Request(w), HoldsUnit(w)'
  PROVE  ask'[w].unit \in Units /\ lock'[ask'[w].unit] = w
<1> USE DEF HoldsUnit, HeldSteps, LockedSteps
<1>1. ASSUME NEW step, NEW args, Begin(w, step, args), step \notin HeldSteps,
             step = "insert" => args.origin = "admin",
             step = "block_insert" => args.origin # "owner"
      PROVE  FALSE
  BY <1>1, Began
<1>2. ASSUME NEW step, NEW args, Begin(w, step, args), NEW u \in Units, AcquireUnit(w, u),
             args.unit = u
      PROVE  ask'[w].unit \in Units /\ lock'[ask'[w].unit] = w
  BY <1>2, Began, Acquired
<1>3. ASSUME NEW c \in Clients, NEW u \in Units, NEW s \in Stays, CreateCheck(w, c, u, s)
      PROVE  FALSE
  <2> DEFINE args == [NoAsk EXCEPT !.unit = u, !.client = c, !.stay = s, !.origin = "admin"]
  <2>1. args.origin = "admin" /\ Begin(w, "insert", args)
    BY <1>3 DEF CreateCheck, NoAsk
  <2> HIDE DEF args
  <2> QED BY <2>1, <1>1
<1>4. ASSUME NEW c \in Clients, NEW u \in Units, NEW s \in Stays,
             NEW o \in {"quick", "storefront"}, QuickLock(w, c, u, s, o)
      PROVE  ask'[w].unit \in Units /\ lock'[ask'[w].unit] = w
  <2> DEFINE args == [NoAsk EXCEPT !.unit = u, !.client = c, !.stay = s, !.origin = o]
  <2>1. args.unit = u /\ Begin(w, "quick", args) /\ AcquireUnit(w, u)
    BY <1>4 DEF QuickLock, NoAsk
  <2> HIDE DEF args
  <2> QED BY <2>1, <1>2
<1>5. ASSUME NEW u \in Units, NEW k \in Ranges, AdminBlockCheck(w, u, k)
      PROVE  FALSE
  <2> DEFINE args == [NoAsk EXCEPT !.unit = u, !.stay = k, !.to = "Approved", !.origin = "admin"]
  <2>1. args.origin = "admin" /\ Begin(w, "block_insert", args)
    BY <1>5 DEF AdminBlockCheck, NoAsk
  <2> HIDE DEF args
  <2> QED BY <2>1, <1>1
<1>6. ASSUME NEW u \in Units, NEW k \in Ranges, OwnerBlockLock(w, u, k)
      PROVE  ask'[w].unit \in Units /\ lock'[ask'[w].unit] = w
  <2> DEFINE args == [NoAsk EXCEPT !.unit = u, !.stay = k, !.origin = "owner"]
  <2>1. args.unit = u /\ Begin(w, "owner_block", args) /\ AcquireUnit(w, u)
    BY <1>6 DEF OwnerBlockLock, NoAsk
  <2> HIDE DEF args
  <2> QED BY <2>1, <1>2
<1>7. ASSUME NEW x \in BlockIds, NEW d \in {"Approved", "Rejected"}, ResolveLock(w, x, d)
      PROVE  ask'[w].unit \in Units /\ lock'[ask'[w].unit] = w
  <2> DEFINE u == blocks[x].unit
             args == [NoAsk EXCEPT !.unit = u, !.to = d]
  <2>1. args.unit = u /\ Begin(w, "resolve", args) /\ AcquireUnit(w, u) /\ u \in Units
    BY <1>7 DEF ResolveLock, NoAsk, RowInv, TypeInv, TypeOK, TablesOK, BlockRow
  <2> HIDE DEF args, u
  <2> QED BY <2>1, <1>2
<1>8. ASSUME NEW x \in BlockIds, WithdrawLock(w, x)
      PROVE  ask'[w].unit \in Units /\ lock'[ask'[w].unit] = w
  <2> DEFINE u == blocks[x].unit
             args == [NoAsk EXCEPT !.unit = u]
  <2>1. args.unit = u /\ Begin(w, "withdraw", args) /\ AcquireUnit(w, u) /\ u \in Units
    BY <1>8 DEF WithdrawLock, NoAsk, RowInv, TypeInv, TypeOK, TablesOK, BlockRow
  <2> HIDE DEF args, u
  <2> QED BY <2>1, <1>2
<1>9. ASSUME NEW l \in LeadIds, NEW u \in Units, NEW c \in Clients, NEW s \in Stays,
             ConvertLockUnit(w, l, u, c, s)
      PROVE  ask'[w].unit \in Units /\ lock'[ask'[w].unit] = w
  <2> DEFINE args == [NoAsk EXCEPT !.unit = u, !.client = c, !.stay = s, !.origin = l]
  <2>1. args.unit = u /\ Begin(w, "convert_unit", args) /\ AcquireUnit(w, u)
    BY <1>9 DEF ConvertLockUnit, NoAsk
  <2> HIDE DEF args
  <2> QED BY <2>1, <1>2
<1>10. CASE \/ \E b \in BookingIds, s \in Stays : UpdateRead(w, b, s)
            \/ \E b \in BookingIds, to \in BookingStatus : TransitionRead(w, b, to)
            \/ SweepRead(w)
            \/ \E x \in BlockIds, k \in Ranges : AdminBlockEditRead(w, x, k)
  BY <1>1, <1>10 DEF UpdateRead, TransitionRead, SweepRead, AdminBlockEditRead
<1>11. CASE \/ \E u \in Units \cup {None}, c \in Clients \cup {None}, s \in Stays \cup {None} :
                 \/ LeadCreateCheck(w, u, c, s)
                 \/ \E l \in LeadIds : LeadEditRead(w, l, u, c, s)
            \/ \E l \in LeadIds, to \in BookingStatus : LeadStatusRead(w, l, to)
            \/ \E u \in Units, active \in {"active", "inactive"} : UnitEditRead(w, u, active)
            \/ \E c \in Clients : ClientEditRead(w, c)
  BY <1>1, <1>11 DEF LeadCreateCheck, LeadEditRead, LeadStatusRead, UnitEditRead, ClientEditRead
<1> QED
  BY <1>3, <1>4, <1>5, <1>6, <1>7, <1>8, <1>9, <1>10, <1>11 DEF Request

LEMMA ProceedHolds ==
  ASSUME RowInv, UnitHeld, NEW w \in Workers, Proceed(w) \/ Abort(w), HoldsUnit(w)'
  PROVE  ask'[w].unit \in Units /\ lock'[ask'[w].unit] = w
<1> USE DEF HoldsUnit, HeldSteps, LockedSteps
<1>1. ASSUME Finish(w) PROVE FALSE
  BY <1>1, FinishLocks
<1>2. ASSUME HoldsUnit(w), lock' = lock, ask'[w].unit = ask[w].unit
      PROVE  ask'[w].unit \in Units /\ lock'[ask'[w].unit] = w
  BY <1>2 DEF UnitHeld
<1>3. CASE QuickCheck(w) \/ ConvertLockLead(w) \/ ConvertCheck(w) \/ ConfirmCheck(w)
           \/ ResolveReadConflicts(w)
  BY <1>2, <1>3, Advanced
     DEF QuickCheck, ConvertLockLead, ConvertCheck, ConfirmCheck, ResolveReadConflicts, locks
<1>4. CASE OwnerBlockCheck(w)
  <2>1. ask'[w].unit = ask[w].unit
    BY <1>4 DEF OwnerBlockCheck, RowInv, TypeInv, TypeOK, SessionOK, Ask
  <2> QED BY <1>2, <1>4, <2>1, Advanced DEF OwnerBlockCheck, locks
<1>5. CASE ConfirmLock(w)
  <2>1. ask[w].unit \in Units
    BY <1>5 DEF ConfirmLock, Advance, RowInv, TypeInv, AskFits, Fits
  <2> QED BY <1>5, <2>1, Acquired DEF ConfirmLock
<1> QED BY <1>1, <1>3, <1>4, <1>5 DEF Proceed, QuickReturnDuplicate, InsertBooking, UpdateSave,
     ApplyTransition, ConfirmCommit, SweepCommit, InsertBlock, AdminBlockEditSave, ResolveApprove,
     ResolveReject, WithdrawCommit, LeadInsert, LeadEditSave, LeadStatusSave, ConvertCommit,
     UnitEditSave, ClientEditSave, Abort

LEMMA UnitHeldStep ==
  ASSUME RowInv, UnitHeld, Next
  PROVE  UnitHeld'
<1>1. ASSUME NEW w \in Workers, Request(w) \/ Proceed(w) \/ Abort(w)
      PROVE  UnitHeld'
  <2>1. LockFrame(w) /\ Frame(w)
    BY <1>1, RequestLocks, ProceedLocks, RequestPlan, ProceedPlan
  <2>2. ASSUME NEW v \in Workers, v # w, HoldsUnit(v)'
        PROVE  ask'[v].unit \in Units /\ lock'[ask'[v].unit] = v
    <3>1. HoldsUnit(v) /\ ask'[v] = ask[v]
      BY <2>1, <2>2 DEF Frame, HoldsUnit
    <3> QED BY <2>1, <2>2, <3>1 DEF UnitHeld, LockFrame
  <2> QED BY <1>1, <2>2, RequestHolds, ProceedHolds DEF UnitHeld
<1>2. CASE Surroundings
  BY <1>2, SurroundingsLocks DEF UnitHeld, HoldsUnit
<1> QED BY <1>1, <1>2 DEF Next

LEMMA SoleHolder ==
  ASSUME UnitHeld, NEW v \in Workers, NEW w \in Workers, HoldsUnit(v), HoldsUnit(w),
         ask[v].unit = ask[w].unit
  PROVE  v = w
BY DEF UnitHeld

-----------------------------------------------------------------------------
(* The blocks a request has read *)

ResolveSteps == {"resolve", "resolve_approve"}
BlockSteps == ResolveSteps \cup {"withdraw", "block_edit"}

Seen(w, x) == tracked[w].blocks[x]

\* A request reads one block at most, and resolves it for the unit it locked.
ReadsOneBlock(w) ==
  /\ pc[w] \notin BlockSteps => TrackedBlocks(w) = {}
  /\ \A x, y \in TrackedBlocks(w) : x = y
  /\ pc[w] \in ResolveSteps => \A x \in TrackedBlocks(w) : Seen(w, x).unit = ask[w].unit

OneBlockEach == \A w \in Workers : ReadsOneBlock(w)

LEMMA BlockReads ==
  ASSUME RowInv, NEW w \in Workers, Request(w) \/ Proceed(w) \/ Abort(w)
  PROVE  \/ /\ pc[w] \notin BlockSteps /\ pc'[w] \notin BlockSteps
            /\ tracked'[w].blocks = tracked[w].blocks
         \/ \E x \in BlockIds, k \in Ranges : AdminBlockEditRead(w, x, k)
         \/ \E x \in BlockIds, d \in {"Approved", "Rejected"} : ResolveLock(w, x, d)
         \/ \E x \in BlockIds : WithdrawLock(w, x)
         \/ ResolveReadConflicts(w)
         \/ Finish(w)
<1> USE DEF BlockSteps, ResolveSteps
<1> DEFINE Apart == /\ pc[w] \notin BlockSteps /\ pc'[w] \notin BlockSteps
                    /\ tracked'[w].blocks = tracked[w].blocks
           ReadsNone == \/ tracked' = tracked
                        \/ \E S : TrackBookings(w, S)
                        \/ \E l : TrackLead(w, l)
<1>1. ReadsNone => tracked'[w].blocks = tracked[w].blocks
  BY DEF TrackBookings, TrackLead, RowInv, TypeInv, TypeOK, SessionOK, Tracker
<1>2. ASSUME NEW step \in Steps \ BlockSteps, NEW args, Begin(w, step, args), ReadsNone
      PROVE  Apart
  BY <1>1, <1>2, Began
<1>3. ASSUME NEW from, NEW to, Advance(w, from, to), {from, to} \cap BlockSteps = {}, ReadsNone
      PROVE  Apart
  BY <1>1, <1>3, Advanced
<1>4. {"insert", "quick", "update", "apply", "confirm", "sweep", "block_insert", "owner_block",
       "lead_insert", "lead_edit", "lead_status", "convert_unit", "unit_edit", "client_edit"}
        \subseteq Steps \ BlockSteps
  BY DEF Steps
<1> HIDE DEF Apart
<1>5. ASSUME Request(w)
      PROVE  \/ Apart
             \/ \E x \in BlockIds, k \in Ranges : AdminBlockEditRead(w, x, k)
             \/ \E x \in BlockIds, d \in {"Approved", "Rejected"} : ResolveLock(w, x, d)
             \/ \E x \in BlockIds : WithdrawLock(w, x)
  <2>1. ASSUME NEW c \in Clients, NEW u \in Units, NEW s \in Stays,
               \/ CreateCheck(w, c, u, s) \/ \E o \in {"quick", "storefront"} : QuickLock(w, c, u, s, o)
               \/ \E l \in LeadIds : ConvertLockUnit(w, l, u, c, s)
        PROVE  Apart
    BY <2>1, <1>2, <1>4 DEF CreateCheck, QuickLock, ConvertLockUnit
  <2>2. ASSUME NEW u \in Units, NEW k \in Ranges, AdminBlockCheck(w, u, k) \/ OwnerBlockLock(w, u, k)
        PROVE  Apart
    BY <2>2, <1>2, <1>4 DEF AdminBlockCheck, OwnerBlockLock
  <2>3. ASSUME NEW b \in BookingIds, NEW s \in Stays, UpdateRead(w, b, s)
        PROVE  Apart
    BY <2>3, <1>2, <1>4 DEF UpdateRead
  <2>4. ASSUME NEW b \in BookingIds, NEW to \in BookingStatus, TransitionRead(w, b, to)
        PROVE  Apart
    BY <2>4, <1>2, <1>4 DEF TransitionRead
  <2>5. ASSUME SweepRead(w)
        PROVE  Apart
    BY <2>5, <1>2, <1>4 DEF SweepRead
  <2>6. ASSUME NEW u \in Units \cup {None}, NEW c \in Clients \cup {None},
               NEW s \in Stays \cup {None},
               LeadCreateCheck(w, u, c, s) \/ \E l \in LeadIds : LeadEditRead(w, l, u, c, s)
        PROVE  Apart
    BY <2>6, <1>2, <1>4 DEF LeadCreateCheck, LeadEditRead
  <2>7. ASSUME NEW l \in LeadIds, NEW to \in BookingStatus, LeadStatusRead(w, l, to)
        PROVE  Apart
    BY <2>7, <1>2, <1>4 DEF LeadStatusRead
  <2>8. ASSUME \/ \E u \in Units, active \in {"active", "inactive"} : UnitEditRead(w, u, active)
               \/ \E c \in Clients : ClientEditRead(w, c)
        PROVE  Apart
    BY <2>8, <1>2, <1>4 DEF UnitEditRead, ClientEditRead
  <2> QED BY <1>5, <2>1, <2>2, <2>3, <2>4, <2>5, <2>6, <2>7, <2>8 DEF Request
<1>6. ASSUME Proceed(w) \/ Abort(w)
      PROVE  Apart \/ ResolveReadConflicts(w) \/ Finish(w)
  <2>1. QuickCheck(w) \/ ConfirmCheck(w) \/ OwnerBlockCheck(w) \/ ConvertCheck(w) => Apart
    BY <1>3 DEF QuickCheck, ConfirmCheck, OwnerBlockCheck, ConvertCheck
  <2>2. ConfirmLock(w) => Apart
    BY <1>3 DEF ConfirmLock
  <2>3. ConvertLockLead(w) => Apart
    BY <1>3 DEF ConvertLockLead
  <2> QED BY <1>6, <2>1, <2>2, <2>3 DEF Proceed, QuickReturnDuplicate, InsertBooking, UpdateSave,
     ApplyTransition, ConfirmCommit, SweepCommit, InsertBlock, AdminBlockEditSave, ResolveApprove,
     ResolveReject, WithdrawCommit, LeadInsert, LeadEditSave, LeadStatusSave, ConvertCommit,
     UnitEditSave, ClientEditSave, Abort
<1> QED BY <1>5, <1>6 DEF Apart

\* A block read first, in a request that had read none.
LEMMA FirstBlock ==
  ASSUME RowInv, NEW w \in Workers, TrackedBlocks(w) = {}, NEW x \in BlockIds, TrackBlock(w, x)
  PROVE  \A y \in TrackedBlocks(w)' : y = x /\ Seen(w, y)' = blocks[x]
BY DEF TrackBlock, TrackedBlocks, Seen, RowInv, TypeInv, TypeOK, SessionOK, Tracker

\* The reads of conflicting bookings and leads leave the block alone.
LEMMA ConflictsBlocks ==
  ASSUME RowInv, NEW w \in Workers, ResolveReadConflicts(w)
  PROVE  tracked'[w].blocks = tracked[w].blocks
<1>1. PICK B, L : tracked' = [tracked EXCEPT ![w].bookings = B, ![w].leads = L]
  BY DEF ResolveReadConflicts
<1> QED BY <1>1 DEF RowInv, TypeInv, TypeOK, SessionOK, Tracker

LEMMA OneBlockStep ==
  ASSUME RowInv, OneBlockEach, Next
  PROVE  OneBlockEach'
<1> USE DEF BlockSteps, ResolveSteps
<1>1. ASSUME NEW w \in Workers, Request(w) \/ Proceed(w) \/ Abort(w)
      PROVE  ReadsOneBlock(w)'
  <2>1. ReadsOneBlock(w)
    BY DEF OneBlockEach
  <2>2. ASSUME NEW step \in BlockSteps, NEW args, Begin(w, step, args),
               NEW x \in BlockIds, TrackBlock(w, x),
               step \in ResolveSteps => args.unit = blocks[x].unit
        PROVE  ReadsOneBlock(w)'
    <3>1. TrackedBlocks(w) = {} /\ pc'[w] = step /\ ask'[w] = args
      BY <2>1, <2>2, Began DEF ReadsOneBlock
    <3>2. \A y \in TrackedBlocks(w)' : y = x /\ Seen(w, y)' = blocks[x]
      BY <2>2, <3>1, FirstBlock
    <3> QED BY <2>2, <3>1, <3>2 DEF ReadsOneBlock
  <2>3. ASSUME NEW x \in BlockIds, NEW k \in Ranges, AdminBlockEditRead(w, x, k)
        PROVE  ReadsOneBlock(w)'
    BY <2>2, <2>3 DEF AdminBlockEditRead
  <2>4. ASSUME NEW x \in BlockIds, NEW d \in {"Approved", "Rejected"}, ResolveLock(w, x, d)
        PROVE  ReadsOneBlock(w)'
    <3> DEFINE u == blocks[x].unit  args == [NoAsk EXCEPT !.unit = u, !.to = d]
    <3>1. args.unit = u /\ Begin(w, "resolve", args) /\ TrackBlock(w, x)
      BY <2>4 DEF ResolveLock, NoAsk
    <3> HIDE DEF args
    <3> QED BY <2>2, <3>1
  <2>5. ASSUME NEW x \in BlockIds, WithdrawLock(w, x)
        PROVE  ReadsOneBlock(w)'
    BY <2>2, <2>5 DEF WithdrawLock
  <2>6. CASE ResolveReadConflicts(w)
    <3>1. pc[w] = "resolve" /\ pc'[w] = "resolve_approve" /\ ask' = ask
      BY <2>6, Advanced DEF ResolveReadConflicts
    <3> QED BY <2>1, <2>6, <3>1, ConflictsBlocks DEF ReadsOneBlock, TrackedBlocks, Seen
  <2>7. CASE Finish(w)
    <3>1. pc'[w] = "idle" /\ TrackedBlocks(w)' = {}
      BY <2>7 DEF Finish, TrackedBlocks, Untracked, RowInv, TypeInv, TypeOK, SessionOK
    <3> QED BY <3>1 DEF ReadsOneBlock
  <2>8. CASE /\ pc[w] \notin BlockSteps /\ pc'[w] \notin BlockSteps
             /\ tracked'[w].blocks = tracked[w].blocks
    BY <2>1, <2>8 DEF ReadsOneBlock, TrackedBlocks
  <2> QED BY <1>1, <2>3, <2>4, <2>5, <2>6, <2>7, <2>8, BlockReads
<1>2. ASSUME NEW v \in Workers, UNCHANGED <<pc[v], ask[v], tracked[v]>>
      PROVE  ReadsOneBlock(v)'
  BY <1>2 DEF OneBlockEach, ReadsOneBlock, TrackedBlocks, Seen
<1>3. ASSUME NEW w \in Workers, Request(w) \/ Proceed(w) \/ Abort(w)
      PROVE  \A v \in Workers \ {w} : UNCHANGED <<pc[v], ask[v], tracked[v]>>
  BY <1>3, RequestPlan, ProceedPlan DEF Frame
<1>4. CASE Surroundings
  BY <1>2, <1>4, SurroundingsLocks DEF OneBlockEach
<1> QED BY <1>1, <1>2, <1>3, <1>4 DEF OneBlockEach, Next

-----------------------------------------------------------------------------
(* The owner's closures *)

Owned(x) == blocks[x] # None /\ ~blocks[x].deleted /\ blocks[x].owned

Placing(w) == pc[w] = "block_insert" /\ ask[w].origin = "owner"

\* The next save of worker w may make k the owner's closure x of its unit.
Closing(w, x, k) ==
  \/ Placing(w) /\ k = ask[w].stay
  \/ pc[w] \in ResolveSteps /\ x \in TrackedBlocks(w) /\ Seen(w, x).owned /\ k = Seen(w, x).range

\* No other closure of its unit is in the way.
ClearOfOwned(w, x, k) ==
  \A y \in BlockIds \ {x} :
    Owned(y) /\ blocks[y].unit = ask[w].unit => ~RangesOverlap(k, blocks[y].range)

ClosuresClear ==
  \A w \in Workers, x \in BlockIds, k \in Ranges : Closing(w, x, k) => ClearOfOwned(w, x, k)

OwnerInv == RowInv /\ UnitHeld /\ OneBlockEach /\ ClosuresClear /\ OwnerBlocksDisjoint

KeptOwned(x) ==
  Owned(x) /\ blocks'[x].unit = blocks[x].unit /\ blocks'[x].range = blocks[x].range

\* Worker w makes x a closure, a new one or the one it resolves.  It writes
\* no other block, and the bookings it drops are guaranteed to nobody.
Closed(w, x) ==
  /\ Closing(w, x, blocks'[x].range) /\ blocks'[x].unit = ask[w].unit /\ HoldsUnit(w)
  /\ pc'[w] = "idle" /\ ask[w].unit \in Units /\ blocks'[x].range \in Ranges
  /\ pc[w] = "block_insert" => IsUnusedBlock(x)
  /\ pc[w] # "block_insert" => blocks[x] # None
  /\ \A y \in BlockIds \ {x} : blocks'[y] = blocks[y]
  /\ \A b \in BookingIds :
       \/ bookings'[b] = bookings[b]
       \/ /\ bookings[b] # None /\ bookings[b].status \in SoftHoldStatuses
          /\ bookings'[b].status = "NotRelevant"

LEMMA SaveBlockOwned ==
  ASSUME RowInv, OneBlockEach, NEW w \in Workers, pc[w] = "resolve_approve",
         SaveBlock(w, "Approved", FALSE), NEW x \in TrackedBlocks(w), Owned(x)'
  PROVE  /\ Seen(w, x).owned /\ x \in BlockIds /\ Seen(w, x).range \in Ranges
         /\ blocks'[x].range = Seen(w, x).range /\ blocks'[x].unit = ask[w].unit
         /\ \A y \in BlockIds \ {x} : blocks'[y] = blocks[y]
<1>1. x \in BlockIds /\ Seen(w, x) \in BlockRow
  BY TrackedTyped DEF RowInv, TypeInv, TypeOK, Seen
<1>2. blocks'[x] = [Seen(w, x) EXCEPT !.status = "Approved", !.deleted = FALSE]
  BY <1>1 DEF SaveBlock, Seen
<1>3. /\ blocks'[x].owned = Seen(w, x).owned /\ blocks'[x].range = Seen(w, x).range
      /\ blocks'[x].unit = Seen(w, x).unit /\ Seen(w, x).range \in Ranges
  BY <1>1, <1>2 DEF BlockRow
<1>4. Seen(w, x).unit = ask[w].unit /\ \A y \in TrackedBlocks(w) : y = x
  BY DEF OneBlockEach, ReadsOneBlock, ResolveSteps
<1> QED BY <1>1, <1>3, <1>4 DEF Owned, SaveBlock

\* A closure after a step was one before, or a worker placed or restored it
\* under the lock of its unit.
LEMMA NewlyOwned ==
  ASSUME RowInv, OneBlockEach, UnitHeld, Next, NEW x \in BlockIds, Owned(x)'
  PROVE  KeptOwned(x) \/ \E w \in Workers : Closed(w, x)
<1>1. CASE blocks'[x] = blocks[x]
  BY <1>1 DEF KeptOwned, Owned
<1>2. ASSUME NEW w \in Workers, NEW y \in BlockIds, InsertBlock(w, y), blocks'[x] # blocks[x]
      PROVE  Closed(w, x)
  <2> DEFINE new == [unit |-> ask[w].unit, range |-> ask[w].stay, status |-> ask[w].to,
                     deleted |-> FALSE, owned |-> ask[w].origin = "owner"]
  <2>1. blocks' = [blocks EXCEPT ![y] = new] /\ pc[w] = "block_insert" /\ Finish(w)
    BY <1>2 DEF InsertBlock
  <2>2. x = y /\ blocks'[x] = new /\ \A z \in BlockIds \ {x} : blocks'[z] = blocks[z]
    BY <1>2, <2>1 DEF RowInv, TypeInv, TypeOK, TablesOK
  <2>3. Placing(w) /\ blocks'[x].unit = ask[w].unit /\ blocks'[x].range = ask[w].stay
    <3>1. blocks'[x].owned = (ask[w].origin = "owner")
      BY <2>2
    <3>2. ask[w].origin = "owner"
      BY <3>1 DEF Owned
    <3> QED BY <2>1, <2>2, <3>2 DEF Placing
  <2>4. ask[w].unit \in Units /\ ask[w].stay \in Ranges
    BY <2>1 DEF RowInv, TypeInv, AskFits, Fits, RangeSteps
  <2>5. HoldsUnit(w) /\ IsUnusedBlock(x) /\ bookings' = bookings
    BY <1>2, <2>2, <2>3 DEF Placing, HoldsUnit, InsertBlock
  <2> QED BY <2>1, <2>2, <2>3, <2>4, <2>5, FinishLocks DEF Closed, Closing
<1>3. ASSUME NEW w \in Workers, ResolveApprove(w), blocks'[x] # blocks[x]
      PROVE  Closed(w, x)
  <2>1. pc[w] = "resolve_approve" /\ SaveBlock(w, "Approved", FALSE) /\ Finish(w)
    BY <1>3 DEF ResolveApprove
  <2>2. x \in TrackedBlocks(w)
    BY <1>3, <2>1 DEF SaveBlock
  <2>3. HoldsUnit(w) /\ ask[w].unit \in Units /\ blocks[x] # None
    BY <2>1, <2>2 DEF HoldsUnit, HeldSteps, UnitHeld, SaveBlock
  <2>4. ASSUME NEW b \in BookingIds, bookings'[b] # bookings[b]
        PROVE  /\ bookings[b] # None /\ bookings[b].status \in SoftHoldStatuses
               /\ bookings'[b].status = "NotRelevant"
    <3>1. /\ XminMatches(w) /\ b \in TrackedBookings(w)
          /\ bookings'[b] = [Row(w, b) EXCEPT !.status = "NotRelevant",
                                !.version = bookings[b].version + 1, !.fresh = bookings[b].fresh]
      BY <1>3, <2>4 DEF ResolveApprove, SaveStatus, Row
    <3>2. Row(w, b) \in BookingRow /\ bookings[b] # None /\ Row(w, b).status = bookings[b].status
      BY <3>1, MatchedSnapshot
    <3>3. bookings'[b].status = "NotRelevant"
      BY <3>1, <3>2 DEF BookingRow
    <3>4. Row(w, b).status \in SoftHoldStatuses
      BY <2>1, <3>1 DEF RowInv, Plans, Plan
    <3> QED BY <3>2, <3>3, <3>4
  <2> QED BY <2>1, <2>2, <2>3, <2>4, SaveBlockOwned, FinishLocks DEF Closed, Closing, ResolveSteps
<1>4. ASSUME NEW w \in Workers, AdminBlockEditSave(w), blocks'[x] # blocks[x]
      PROVE  FALSE
  <2>1. x \in TrackedBlocks(w)
        /\ blocks'[x] = [Seen(w, x) EXCEPT !.range = ask[w].stay, !.owned = FALSE]
    BY <1>4 DEF AdminBlockEditSave, Seen
  <2>2. Seen(w, x) \in BlockRow
    BY <2>1, TrackedTyped DEF RowInv, TypeInv, TypeOK, Seen
  <2> QED BY <2>1, <2>2 DEF Owned, BlockRow
<1>5. ASSUME NEW w \in Workers, ResolveReject(w) \/ WithdrawCommit(w), blocks'[x] # blocks[x]
      PROVE  FALSE
  <2>1. x \in TrackedBlocks(w)
        /\ blocks'[x] = [Seen(w, x) EXCEPT !.status = "Rejected", !.deleted = TRUE]
    BY <1>5 DEF ResolveReject, WithdrawCommit, SaveBlock, Seen
  <2>2. Seen(w, x) \in BlockRow
    BY <2>1, TrackedTyped DEF RowInv, TypeInv, TypeOK, Seen
  <2> QED BY <2>1, <2>2 DEF Owned, BlockRow
<1>6. ASSUME NEW y \in BlockIds, AdminBlockDelete(y), blocks'[x] # blocks[x]
      PROVE  FALSE
  BY <1>6 DEF AdminBlockDelete, Owned, RowInv, TypeInv, TypeOK, TablesOK
<1>7. CASE \E w \in Workers : Request(w)
  <2>1. blocks' = blocks
    BY <1>7 DEF Request, tables, CreateCheck, QuickLock, UpdateRead, TransitionRead, SweepRead,
     AdminBlockCheck, AdminBlockEditRead, OwnerBlockLock, ResolveLock, WithdrawLock,
     LeadCreateCheck, LeadStatusRead, LeadEditRead, ConvertLockUnit, UnitEditRead, ClientEditRead
  <2> QED BY <1>1, <2>1
<1>8. ASSUME NEW w \in Workers, Proceed(w) \/ Abort(w)
      PROVE  \/ blocks' = blocks \/ ResolveApprove(w) \/ AdminBlockEditSave(w)
             \/ ResolveReject(w) \/ WithdrawCommit(w) \/ \E y \in BlockIds : InsertBlock(w, y)
  BY <1>8 DEF Proceed, tables, QuickReturnDuplicate, QuickCheck, ConfirmLock, ConfirmCheck,
     InsertBooking, UpdateSave, ApplyTransition, ConfirmCommit, SweepCommit, OwnerBlockCheck,
     ResolveReadConflicts, LeadInsert, LeadEditSave, LeadStatusSave, ConvertLockLead, ConvertCheck,
     ConvertCommit, UnitEditSave, ClientEditSave, Abort
<1>9. Surroundings => blocks' = blocks \/ \E y \in BlockIds : AdminBlockDelete(y)
  BY DEF Surroundings, NextDay, DuplicateWindowCloses, DeleteUnit, DeleteClient
<1> QED BY <1>1, <1>2, <1>3, <1>4, <1>5, <1>6, <1>7, <1>8, <1>9 DEF Next

LEMMA RangesSymmetric ==
  ASSUME NEW j \in Ranges, NEW k \in Ranges
  PROVE  RangesOverlap(j, k) <=> RangesOverlap(k, j)
BY DEF RangesOverlap, Ranges, Days

LEMMA OwnedTyped ==
  ASSUME RowInv, NEW x \in BlockIds, Owned(x)
  PROVE  blocks[x].unit \in Units /\ blocks[x].range \in Ranges
BY DEF Owned, RowInv, TypeInv, TypeOK, TablesOK, BlockRow

LEMMA OwnedDisjointStep ==
  ASSUME OwnerInv, Next
  PROVE  OwnerBlocksDisjoint'
<1> SUFFICES ASSUME NEW x \in BlockIds, NEW y \in BlockIds, x # y, Owned(x)', Owned(y)',
                    blocks'[x].unit = blocks'[y].unit
             PROVE  ~RangesOverlap(blocks'[x].range, blocks'[y].range)
  BY DEF OwnerBlocksDisjoint, Owned
<1>1. ASSUME NEW a \in BlockIds, NEW b \in BlockIds, a # b, Owned(b)', NEW w \in Workers,
             Closed(w, a), blocks'[a].unit = blocks'[b].unit
      PROVE  ~RangesOverlap(blocks'[a].range, blocks'[b].range) /\ blocks'[b].range \in Ranges
             /\ blocks'[a].range \in Ranges
  <2>1. blocks'[b] = blocks[b] /\ Owned(b) /\ blocks[b].unit = ask[w].unit
    BY <1>1 DEF Closed, Owned
  <2>2. ClearOfOwned(w, a, blocks'[a].range)
    BY <1>1 DEF Closed, OwnerInv, ClosuresClear
  <2>3. blocks[b].range \in Ranges
    BY <2>1, OwnedTyped DEF OwnerInv
  <2> QED BY <1>1, <2>1, <2>2, <2>3 DEF ClearOfOwned, Closed
<1>2. CASE KeptOwned(x) /\ KeptOwned(y)
  BY <1>2 DEF KeptOwned, Owned, OwnerInv, OwnerBlocksDisjoint
<1> QED BY <1>1, <1>2, NewlyOwned, RangesSymmetric DEF OwnerInv

\* Before the save that closes dates, the worker has checked them or has
\* read the row that closes them now.
LEMMA ClosingBegins ==
  ASSUME OwnerInv, NEW w \in Workers, Request(w) \/ Proceed(w) \/ Abort(w),
         NEW x \in BlockIds, NEW k \in Ranges, Closing(w, x, k)'
  PROVE  \/ Closing(w, x, k) /\ ask'[w] = ask[w]
         \/ /\ OwnerBlockCheck(w) /\ UNCHANGED tables
            /\ k = ask[w].stay /\ ask'[w].unit = ask[w].unit
         \/ /\ Owned(x) /\ UNCHANGED tables
            /\ k = blocks[x].range /\ ask'[w].unit = blocks[x].unit
<1>1. CASE Placing(w)' /\ k = ask'[w].stay
  <2>1. /\ OwnerBlockCheck(w) /\ UNCHANGED tables
        /\ ask'[w].stay = ask[w].stay /\ ask'[w].unit = ask[w].unit
    <3>1. OwnerBlockCheck(w)
      <4>1. ~Finish(w)
        BY <1>1, FinishLocks DEF Placing, OwnerInv
      <4>0. pc'[w] = "block_insert"
        BY <1>1 DEF Placing
      <4>5. \A step, args : Begin(w, step, args) => pc'[w] = step
        BY DEF Begin, OwnerInv, RowInv, TypeInv, TypeOK, SessionOK
      <4>6. \A from, to : Advance(w, from, to) => pc'[w] = to
        BY DEF Advance, OwnerInv, RowInv, TypeInv, TypeOK, SessionOK
      <4>2. ASSUME Request(w)
            PROVE  \E u \in Units, r \in Ranges : AdminBlockCheck(w, u, r)
        BY <4>0, <4>2, <4>5 DEF Request, CreateCheck, QuickLock, UpdateRead,
           TransitionRead, SweepRead, AdminBlockEditRead, OwnerBlockLock, ResolveLock, WithdrawLock,
           LeadCreateCheck, LeadStatusRead, LeadEditRead, ConvertLockUnit, UnitEditRead, ClientEditRead
      <4>3. ASSUME NEW u \in Units, NEW r \in Ranges, AdminBlockCheck(w, u, r)
            PROVE  FALSE
        <5> DEFINE args == [NoAsk EXCEPT !.unit = u, !.stay = r, !.to = "Approved", !.origin = "admin"]
        <5>1. args.origin = "admin" /\ Begin(w, "block_insert", args)
          BY <4>3 DEF AdminBlockCheck, NoAsk
        <5> HIDE DEF args
        <5> QED BY <1>1, <5>1, Began DEF Placing, OwnerInv
      <4>4. ASSUME Proceed(w) \/ Abort(w) PROVE OwnerBlockCheck(w)
        BY <4>0, <4>1, <4>4, <4>6 DEF Proceed, QuickReturnDuplicate,
           QuickCheck, InsertBooking, UpdateSave, ApplyTransition, ConfirmLock, ConfirmCheck,
           ConfirmCommit, SweepCommit, InsertBlock, AdminBlockEditSave, ResolveReadConflicts,
           ResolveApprove, ResolveReject, WithdrawCommit, LeadInsert, LeadEditSave, LeadStatusSave,
           ConvertLockLead, ConvertCheck, ConvertCommit, UnitEditSave, ClientEditSave, Abort
      <4> QED BY <4>2, <4>3, <4>4
    <3> QED BY <3>1 DEF OwnerBlockCheck, OwnerInv, RowInv, TypeInv, TypeOK, SessionOK, Ask
  <2> QED BY <1>1, <2>1
<1>2. CASE pc'[w] \in ResolveSteps /\ x \in TrackedBlocks(w)' /\ Seen(w, x)'.owned
           /\ k = Seen(w, x)'.range
  <2>1. ASSUME NEW y \in BlockIds, NEW d \in {"Approved", "Rejected"}, ResolveLock(w, y, d)
        PROVE  /\ Owned(x) /\ UNCHANGED tables
               /\ k = blocks[x].range /\ ask'[w].unit = blocks[x].unit
    <3> DEFINE args == [NoAsk EXCEPT !.unit = blocks[y].unit, !.to = d]
    <3>1. args.unit = blocks[y].unit /\ Begin(w, "resolve", args)
      BY <2>1 DEF ResolveLock, NoAsk
    <3> HIDE DEF args
    <3>2. pc[w] = "idle" /\ ask'[w].unit = blocks[y].unit
      BY <3>1, Began DEF OwnerInv
    <3>3. x = y /\ Seen(w, x)' = blocks[y]
      BY <1>2, <2>1, <3>2, FirstBlock DEF ResolveLock, OwnerInv, OneBlockEach, ReadsOneBlock,
         BlockSteps, ResolveSteps
    <3>4. Owned(x) /\ UNCHANGED tables /\ k = blocks[x].range
      BY <1>2, <2>1, <3>3 DEF ResolveLock, Owned
    <3> QED BY <3>2, <3>3, <3>4
  <2>2. CASE ResolveReadConflicts(w)
    <3>1. pc[w] = "resolve" /\ ask' = ask
      BY <2>2, Advanced DEF ResolveReadConflicts, OwnerInv
    <3>2. tracked'[w].blocks = tracked[w].blocks
      BY <2>2, ConflictsBlocks DEF OwnerInv
    <3> QED BY <1>2, <3>1, <3>2 DEF Closing, ResolveSteps, TrackedBlocks, Seen
  <2>3. ASSUME NEW y \in BlockIds, NEW r \in Ranges, AdminBlockEditRead(w, y, r)
        PROVE  FALSE
    BY <1>2, <2>3, Began DEF AdminBlockEditRead, ResolveSteps, OwnerInv
  <2>4. ASSUME NEW y \in BlockIds, WithdrawLock(w, y)
        PROVE  FALSE
    BY <1>2, <2>4, Began DEF WithdrawLock, ResolveSteps, OwnerInv
  <2>5. ~Finish(w)
    BY <1>2, FinishLocks DEF ResolveSteps, OwnerInv
  <2> QED BY <1>2, <2>1, <2>2, <2>3, <2>4, <2>5, BlockReads DEF OwnerInv, BlockSteps
<1> QED BY <1>1, <1>2 DEF Closing

LEMMA ClosuresClearStep ==
  ASSUME OwnerInv, Next
  PROVE  ClosuresClear'
<1> SUFFICES ASSUME NEW v \in Workers, NEW x \in BlockIds, NEW k \in Ranges, Closing(v, x, k)'
             PROVE  ClearOfOwned(v, x, k)'
  BY DEF ClosuresClear
<1>1. ASSUME Closing(v, x, k), ask'[v] = ask[v]
      PROVE  ClearOfOwned(v, x, k)'
  <2> SUFFICES ASSUME NEW y \in BlockIds \ {x}, Owned(y)', blocks'[y].unit = ask[v].unit
               PROVE  ~RangesOverlap(k, blocks'[y].range)
    BY <1>1 DEF ClearOfOwned, Owned
  <2>1. HoldsUnit(v) /\ pc'[v] # "idle"
    BY <1>1 DEF Closing, Placing, HoldsUnit, HeldSteps, ResolveSteps
  <2>2. ASSUME NEW w \in Workers, Closed(w, y)
        PROVE  FALSE
    <3>1. w = v
      BY <2>1, <2>2, SoleHolder DEF Closed, OwnerInv
    <3> QED BY <2>1, <2>2, <3>1 DEF Closed
  <2>3. KeptOwned(y)
    BY <2>2, NewlyOwned DEF OwnerInv
  <2> QED BY <1>1, <2>3 DEF KeptOwned, OwnerInv, ClosuresClear, ClearOfOwned
<1>2. CASE Request(v) \/ Proceed(v) \/ Abort(v)
  <2>1. CASE OwnerBlockCheck(v) /\ UNCHANGED tables /\ k = ask[v].stay /\ ask'[v].unit = ask[v].unit
    <3>1. OverlappingBlocks(ask[v].unit, k, {}) = {} /\ blocks' = blocks
      BY <2>1 DEF OwnerBlockCheck, tables
    <3> QED BY <2>1, <3>1 DEF ClearOfOwned, Owned, OverlappingBlocks, LiveBlocks
  <2>2. CASE Owned(x) /\ UNCHANGED tables /\ k = blocks[x].range /\ ask'[v].unit = blocks[x].unit
    BY <2>2 DEF tables, ClearOfOwned, Owned, OwnerInv, OwnerBlocksDisjoint
  <2> QED BY <1>1, <1>2, <2>1, <2>2, ClosingBegins
<1>3. ASSUME UNCHANGED <<pc[v], ask[v], tracked[v]>>
      PROVE  Closing(v, x, k) /\ ask'[v] = ask[v]
  BY <1>3 DEF Closing, Placing, TrackedBlocks, Seen
<1>4. ASSUME NEW w \in Workers \ {v}, Request(w) \/ Proceed(w) \/ Abort(w)
      PROVE  UNCHANGED <<pc[v], ask[v], tracked[v]>>
  BY <1>4, RequestPlan, ProceedPlan DEF OwnerInv, Frame
<1>5. Surroundings => UNCHANGED <<pc[v], ask[v], tracked[v]>>
  BY SurroundingsLocks
<1> QED BY <1>1, <1>2, <1>3, <1>4, <1>5 DEF Next

LEMMA OwnerInvInit == Init => OwnerInv
BY RowInvInit DEF Init, Quiet, OwnerInv, UnitHeld, HoldsUnit, HeldSteps, LockedSteps, OneBlockEach,
   ReadsOneBlock, ResolveSteps, TrackedBlocks, Untracked, ClosuresClear, Closing, Placing,
   OwnerBlocksDisjoint

LEMMA OwnerInvStep == OwnerInv /\ [Next]_vars => OwnerInv'
<1> SUFFICES ASSUME OwnerInv, [Next]_vars PROVE OwnerInv'
  OBVIOUS
<1>1. RowInv'
  BY RowInvStep DEF OwnerInv
<1>2. CASE Next
  BY <1>1, <1>2, UnitHeldStep, OneBlockStep, ClosuresClearStep, OwnedDisjointStep DEF OwnerInv
<1>3. CASE UNCHANGED vars
  BY <1>1, <1>3 DEF vars, tables, locks, session, OwnerInv, UnitHeld, HoldsUnit, OneBlockEach,
     ReadsOneBlock, TrackedBlocks, Seen, ClosuresClear, Closing, Placing, ClearOfOwned, Owned,
     OwnerBlocksDisjoint
<1> QED BY <1>2, <1>3

\* The owner's live blocks of a unit never overlap, whatever else is going on:
\* the admin's unlocked edits and deletions, stale approvals, lost updates.
THEOREM OwnerClosuresDisjoint == Spec => []OwnerBlocksDisjoint
<1>1. OwnerInv => OwnerBlocksDisjoint
  BY DEF OwnerInv
<1> QED BY <1>1, OwnerInvInit, OwnerInvStep, PTL DEF Spec

-----------------------------------------------------------------------------
(* Closures and guests *)

\* A stay booked by converting a lead, which holds the unit's lock.
Converted(b) ==
  /\ bookings[b].origin \in LeadIds /\ bookings[b].status \in HoldingStatuses
  /\ bookings[b].client \notin deletedClients

Firm(b) == Secured(b) \/ Converted(b)

\* The next save of worker w may make s a firm stay of its unit.
Staying(w, s) ==
  \/ pc[w] = "confirm_checked" /\ \E b \in TrackedBookings(w) : s = Row(w, b).stay
  \/ pc[w] = "convert" /\ s = ask[w].stay

ClosedApart ==
  \A x \in BlockIds, b \in BookingRows :
    Owned(x) /\ Firm(b) /\ blocks[x].unit = bookings[b].unit
      => ~BlockMeetsStay(blocks[x].range, bookings[b].stay)

ClearOfClosures(w, s) ==
  \A x \in BlockIds :
    Owned(x) /\ blocks[x].unit = ask[w].unit => ~BlockMeetsStay(blocks[x].range, s)

ClearOfFirm(w, k) ==
  \A b \in BookingRows :
    Firm(b) /\ bookings[b].unit = ask[w].unit => ~BlockMeetsStay(k, bookings[b].stay)

StaysClear == \A w \in Workers, s \in Stays : Staying(w, s) => ClearOfClosures(w, s)

ClosuresClearOfFirm ==
  \A w \in Workers, x \in BlockIds, k \in Ranges : Closing(w, x, k) => ClearOfFirm(w, k)

\* Only a conversion books for a lead, and its booking is never softer than Booked.
LeadsApart ==
  /\ \A w \in Workers : pc[w] \in {"quick", "insert"} => ask[w].origin \notin LeadIds
  /\ \A b \in BookingRows :
       bookings[b].origin \in LeadIds
         => bookings[b].status \notin {"Prospecting", "Relevant", "NoAnswer"}

FirmInv ==
  GuestInv /\ OwnerInv /\ LeadsApart /\ StaysClear /\ ClosuresClearOfFirm /\ ClosedApart

\* A booking appears by the insert of a request or of a conversion.
InsertedBy(w, b) ==
  /\ pc[w] \in {"insert", "convert"}
  /\ ask[w].unit \in Units /\ ask[w].client \in Clients /\ ask[w].stay \in Stays
  /\ bookings'[b] =
       [unit |-> ask[w].unit, client |-> ask[w].client, stay |-> ask[w].stay,
        status |-> IF pc[w] = "insert" THEN "Prospecting" ELSE "Booked",
        version |-> 1, fresh |-> TRUE, origin |-> ask[w].origin]
  /\ \A c \in BookingIds \ {b} : bookings'[c] = bookings[c]
  /\ pc'[w] = "idle"

LEMMA Inserting ==
  ASSUME RowInv, Next, NEW b \in BookingIds, bookings[b] = None, bookings'[b] # None
  PROVE  \E w \in Workers : InsertBooking(w, b) \/ ConvertCommit(w, b)
<1>1. ASSUME NEW w \in Workers, NEW c \in BookingIds, InsertBooking(w, c) \/ ConvertCommit(w, c)
      PROVE  b = c
  <2>1. PICK row : bookings' = [bookings EXCEPT ![c] = row]
    BY <1>1 DEF InsertBooking, ConvertCommit, AddBooking
  <2> QED BY <2>1 DEF RowInv, TypeInv, TypeOK, TablesOK
<1>2. ASSUME NEW w \in Workers, NEW to, SaveStatus(w, to)
      PROVE  FALSE
  BY <1>2 DEF SaveStatus, XminMatches
<1>3. ASSUME NEW w \in Workers, UpdateSave(w)
      PROVE  FALSE
  BY <1>3 DEF UpdateSave, XminMatches
<1>4. ASSUME NEW c \in BookingIds, DuplicateWindowCloses(c)
      PROVE  FALSE
  BY <1>4 DEF DuplicateWindowCloses, BookingRows, RowInv, TypeInv, TypeOK, TablesOK
<1>5. bookings' # bookings
  OBVIOUS
<1>6. ASSUME NEW w \in Workers, Request(w)
      PROVE  FALSE
  BY <1>5, <1>6 DEF Request, tables, CreateCheck, QuickLock, UpdateRead, TransitionRead, SweepRead,
     AdminBlockCheck, AdminBlockEditRead, OwnerBlockLock, ResolveLock, WithdrawLock,
     LeadCreateCheck, LeadStatusRead, LeadEditRead, ConvertLockUnit, UnitEditRead, ClientEditRead
<1>7. ASSUME NEW w \in Workers, Proceed(w) \/ Abort(w)
      PROVE  \/ \E c \in BookingIds : InsertBooking(w, c) \/ ConvertCommit(w, c)
             \/ UpdateSave(w) \/ \E to : SaveStatus(w, to)
  BY <1>5, <1>7 DEF Abort, Proceed, tables, QuickReturnDuplicate, QuickCheck, ApplyTransition,
     ConfirmLock, ConfirmCheck, ConfirmCommit, SweepCommit, InsertBlock, AdminBlockEditSave,
     OwnerBlockCheck, ResolveReadConflicts, ResolveApprove, ResolveReject, WithdrawCommit,
     LeadInsert, LeadEditSave, LeadStatusSave, ConvertLockLead, ConvertCheck, UnitEditSave,
     ClientEditSave
<1>8. ASSUME Surroundings
      PROVE  \E c \in BookingIds : DuplicateWindowCloses(c)
  BY <1>5, <1>8 DEF Surroundings, NextDay, AdminBlockDelete, DeleteUnit, DeleteClient
<1> QED BY <1>1, <1>2, <1>3, <1>4, <1>6, <1>7, <1>8 DEF Next

LEMMA NewBooking ==
  ASSUME RowInv, Next, NEW b \in BookingIds, bookings[b] = None, bookings'[b] # None
  PROVE  \E w \in Workers : InsertedBy(w, b)
<1>1. PICK w \in Workers : InsertBooking(w, b) \/ ConvertCommit(w, b)
  BY Inserting
<1>2. /\ pc[w] \in {"insert", "convert"} /\ Finish(w)
      /\ ask[w].unit \in Units /\ ask[w].client \in Clients /\ ask[w].stay \in Stays
  BY <1>1 DEF InsertBooking, ConvertCommit, RowInv, TypeInv, AskFits, Fits, CreateSteps
<1> DEFINE new == [unit |-> ask[w].unit, client |-> ask[w].client, stay |-> ask[w].stay,
                   status |-> IF pc[w] = "insert" THEN "Prospecting" ELSE "Booked",
                   version |-> 1, fresh |-> TRUE, origin |-> ask[w].origin]
<1>3. bookings' = [bookings EXCEPT ![b] = new]
  BY <1>1 DEF InsertBooking, ConvertCommit, AddBooking
<1> HIDE DEF new
<1>4. bookings'[b] = new /\ \A d \in BookingIds \ {b} : bookings'[d] = bookings[d]
  BY <1>3 DEF RowInv, TypeInv, TypeOK, TablesOK
<1> QED BY <1>2, <1>4, FinishLocks DEF InsertedBy, new

\* A firm stay after a step was firm before, or a worker makes it firm
\* under the lock of its unit, with dates it had checked.
NewlyFirmBy(w, b) ==
  /\ Staying(w, bookings'[b].stay) /\ bookings'[b].unit = ask[w].unit /\ HoldsUnit(w)
  /\ bookings'[b].stay \in Stays

LEMMA NewlyFirm ==
  ASSUME FirmInv, Next, NEW b \in BookingIds, bookings'[b] # None, Firm(b)'
  PROVE  \/ /\ bookings[b] # None /\ Firm(b)
            /\ bookings'[b].unit = bookings[b].unit /\ bookings'[b].stay = bookings[b].stay
         \/ \E w \in Workers : NewlyFirmBy(w, b)
<1>1. RowChange(b) /\ deletedClients \subseteq deletedClients'
  BY RowChanges, DeletedStayDeleted DEF FirmInv, GuestInv
<1>2. CASE Secured(b)'
  <2>1. ASSUME NEW w \in Workers, Confirming(w, b), Row(w, b).stay = bookings[b].stay
        PROVE  NewlyFirmBy(w, b)
    <3>1. /\ bookings[b] # None /\ bookings'[b].unit = bookings[b].unit
          /\ bookings'[b].stay = bookings[b].stay
      BY <1>2, NewlySecured DEF FirmInv
    <3>2. bookings[b].stay \in Stays /\ ask[w].unit = bookings[b].unit
      BY <2>1, <3>1, ConfirmingUnit DEF FirmInv, GuestInv, RowInv, TypeInv, TypeOK, TablesOK,
         BookingRow
    <3> QED BY <2>1, <3>1, <3>2 DEF NewlyFirmBy, Staying, Confirming, HoldsUnit, HeldSteps, LockedSteps
  <2> QED BY <1>2, <2>1, NewlySecured DEF FirmInv, Firm
<1>3. CASE Converted(b)'
  <2>1. CASE bookings[b] = None
    <3>1. PICK w \in Workers : InsertedBy(w, b)
      BY <2>1, NewBooking DEF FirmInv, GuestInv
    <3>2. pc[w] = "convert"
      BY <1>3, <3>1 DEF InsertedBy, Converted, FirmInv, LeadsApart
    <3> QED BY <3>1, <3>2 DEF InsertedBy, NewlyFirmBy, Staying, HoldsUnit, HeldSteps
  <2>2. CASE bookings[b] # None
    <3>1. /\ bookings'[b].unit = bookings[b].unit /\ bookings'[b].client = bookings[b].client
          /\ bookings'[b].origin = bookings[b].origin
          /\ Untouched(b) \/ Edited(b) \/ Moved(b)
      BY <1>1, <2>2 DEF RowChange, Absent, Inserted, Untouched, Edited, Moved, Keeps
    <3>2. /\ bookings[b].origin \in LeadIds /\ bookings[b].client \notin deletedClients
          /\ bookings[b].status \in BookingStatus
          /\ bookings[b].status \notin {"Prospecting", "Relevant", "NoAnswer"}
      BY <1>1, <1>3, <2>2, <3>1 DEF Converted, FirmInv, LeadsApart, BookingRows, GuestInv, RowInv,
         TypeInv, TypeOK, TablesOK, BookingRow
    <3>3. ~Edited(b)
      BY <3>2 DEF Edited, EditableStatuses
    <3>4. bookings[b].status \in HoldingStatuses /\ bookings'[b].stay = bookings[b].stay
      BY <1>3, <3>1, <3>2, <3>3 DEF Untouched, Moved, Converted, HoldingStatuses, IsValidTransition,
         AllowedTransitions, BookingStatus
    <3> QED BY <2>2, <3>1, <3>2, <3>4 DEF Firm, Converted
  <2> QED BY <2>1, <2>2
<1> QED BY <1>2, <1>3 DEF Firm

LEMMA OriginsStep ==
  ASSUME RowInv, LeadsApart, NEW w \in Workers, Request(w) \/ Proceed(w) \/ Abort(w),
         pc'[w] \in {"quick", "insert"}
  PROVE  ask'[w].origin \notin LeadIds
<1>1. \A step, args : Begin(w, step, args) => pc'[w] = step
  BY DEF Begin, RowInv, TypeInv, TypeOK, SessionOK
<1>2. \A from, to : Advance(w, from, to) => pc'[w] = to
  BY DEF Advance, RowInv, TypeInv, TypeOK, SessionOK
<1>3. ~Finish(w)
  BY FinishLocks
<1>4. ASSUME NEW step, NEW args, Begin(w, step, args),
             args.origin \in {"admin", "quick", "storefront"}
      PROVE  ask'[w].origin \notin LeadIds
  BY <1>4, Began, LeadIdsAssumption
<1>5. ASSUME NEW c \in Clients, NEW u \in Units, NEW s \in Stays, CreateCheck(w, c, u, s)
      PROVE  ask'[w].origin \notin LeadIds
  <2> DEFINE args == [NoAsk EXCEPT !.unit = u, !.client = c, !.stay = s, !.origin = "admin"]
  <2>1. args.origin = "admin" /\ Begin(w, "insert", args)
    BY <1>5 DEF CreateCheck, NoAsk
  <2> HIDE DEF args
  <2> QED BY <2>1, <1>4
<1>6. ASSUME NEW c \in Clients, NEW u \in Units, NEW s \in Stays,
             NEW o \in {"quick", "storefront"}, QuickLock(w, c, u, s, o)
      PROVE  ask'[w].origin \notin LeadIds
  <2> DEFINE args == [NoAsk EXCEPT !.unit = u, !.client = c, !.stay = s, !.origin = o]
  <2>1. args.origin = o /\ Begin(w, "quick", args)
    BY <1>6 DEF QuickLock, NoAsk
  <2> HIDE DEF args
  <2> QED BY <2>1, <1>4
<1>7. ASSUME Request(w)
      PROVE  \E c \in Clients, u \in Units, s \in Stays :
               CreateCheck(w, c, u, s) \/ \E o \in {"quick", "storefront"} : QuickLock(w, c, u, s, o)
  BY <1>1, <1>7 DEF Request, UpdateRead, TransitionRead, SweepRead, AdminBlockCheck,
     AdminBlockEditRead, OwnerBlockLock, ResolveLock, WithdrawLock, LeadCreateCheck,
     LeadStatusRead, LeadEditRead, ConvertLockUnit, UnitEditRead, ClientEditRead
<1>8. ASSUME Proceed(w) \/ Abort(w)
      PROVE  QuickCheck(w)
  BY <1>2, <1>3, <1>8 DEF Abort, Proceed, QuickReturnDuplicate, InsertBooking, UpdateSave,
     ApplyTransition, ConfirmLock, ConfirmCheck, ConfirmCommit, SweepCommit, InsertBlock,
     AdminBlockEditSave, OwnerBlockCheck, ResolveReadConflicts, ResolveApprove, ResolveReject,
     WithdrawCommit, LeadInsert, LeadEditSave, LeadStatusSave, ConvertLockLead, ConvertCheck,
     ConvertCommit, UnitEditSave, ClientEditSave
<1>9. QuickCheck(w) => ask'[w].origin \notin LeadIds
  BY Advanced DEF QuickCheck, LeadsApart
<1> QED BY <1>5, <1>6, <1>7, <1>8, <1>9

LEMMA LeadsApartStep ==
  ASSUME RowInv, LeadsApart, Next
  PROVE  LeadsApart'
<1>1. ASSUME NEW v \in Workers, pc'[v] \in {"quick", "insert"}
      PROVE  ask'[v].origin \notin LeadIds
  <2>1. UNCHANGED <<pc[v], ask[v]>> => ask'[v].origin \notin LeadIds
    BY <1>1 DEF LeadsApart
  <2>2. ASSUME NEW w \in Workers \ {v}, Request(w) \/ Proceed(w) \/ Abort(w)
        PROVE  UNCHANGED <<pc[v], ask[v]>>
    BY <2>2, RequestPlan, ProceedPlan DEF Frame
  <2>3. Surroundings => UNCHANGED <<pc[v], ask[v]>>
    BY SurroundingsLocks
  <2>4. Request(v) \/ Proceed(v) \/ Abort(v) => ask'[v].origin \notin LeadIds
    BY <1>1, OriginsStep
  <2> QED BY <2>1, <2>2, <2>3, <2>4 DEF Next
<1>2. ASSUME NEW b \in BookingIds, bookings'[b] # None, bookings'[b].origin \in LeadIds
      PROVE  bookings'[b].status \notin {"Prospecting", "Relevant", "NoAnswer"}
  <2>1. CASE bookings[b] = None
    <3>1. PICK w \in Workers : InsertedBy(w, b)
      BY <1>2, <2>1, NewBooking
    <3> QED BY <1>2, <3>1 DEF InsertedBy, LeadsApart
  <2>2. CASE bookings[b] # None
    <3>1. bookings'[b].origin = bookings[b].origin /\ (Untouched(b) \/ Edited(b) \/ Moved(b))
      BY <2>2, RowChanges DEF RowChange, Absent, Inserted, Untouched, Edited, Moved, Keeps
    <3>2. /\ bookings[b].status \in BookingStatus
          /\ bookings[b].status \notin {"Prospecting", "Relevant", "NoAnswer"}
      BY <1>2, <2>2, <3>1 DEF LeadsApart, BookingRows, RowInv, TypeInv, TypeOK, TablesOK, BookingRow
    <3> QED BY <3>1, <3>2 DEF Untouched, Edited, Moved, IsValidTransition, AllowedTransitions,
       BookingStatus
  <2> QED BY <2>1, <2>2
<1> QED BY <1>1, <1>2 DEF LeadsApart, BookingRows

\* The calendar check looks at every day: a live block that met the stay
\* would take one of its nights.
LEMMA AvailableMeetsNoBlock ==
  ASSUME RowInv, NEW u, NEW s \in Stays, NEW except, OperationallyAvailable(u, s, except),
         NEW x \in BlockIds, Owned(x), blocks[x].unit = u
  PROVE  ~BlockMeetsStay(blocks[x].range, s)
<1> DEFINE k == blocks[x].range
<1> SUFFICES ASSUME BlockMeetsStay(k, s) PROVE FALSE
  OBVIOUS
<1>1. k.from \in Nat /\ k.to \in Nat /\ k.from <= k.to
  BY OwnedTyped, HorizonAssumption DEF Ranges, Days
<1>2. s.from \in Nat /\ s.to \in Nat /\ s.from < s.to
  BY HorizonAssumption DEF Stays, Days
<1>3. k.from < s.to /\ k.to + 1 > s.from
  BY DEF BlockMeetsStay
<1> HIDE DEF k
<1>4. PICK d \in {k.from, s.from} : d \in s.from .. s.to - 1 /\ k.from <= d /\ d <= k.to
  BY <1>1, <1>2, <1>3
<1>5. d \in BlockedDates(u, s.from, s.to - 1, except)
  BY <1>4 DEF BlockedDates, LiveBlocks, Owned, k
<1> QED BY <1>5 DEF OperationallyAvailable

\* What the check before a stay is made firm finds.
LEMMA StayingBegins ==
  ASSUME RowInv, NEW w \in Workers, Request(w) \/ Proceed(w) \/ Abort(w),
         NEW s \in Stays, Staying(w, s)'
  PROVE  UNCHANGED tables /\ ask'[w] = ask[w] /\ \E except : OperationallyAvailable(ask[w].unit, s, except)
<1>1. \A step, args : Begin(w, step, args) => pc'[w] = step
  BY DEF Begin, RowInv, TypeInv, TypeOK, SessionOK
<1>2. \A from, to : Advance(w, from, to) => pc'[w] = to
  BY DEF Advance, RowInv, TypeInv, TypeOK, SessionOK
<1>3. pc'[w] \in {"confirm_checked", "convert"} /\ ~Finish(w)
  BY FinishLocks DEF Staying
<1>4. ~Request(w)
  BY <1>1, <1>3 DEF Request, CreateCheck, QuickLock, UpdateRead, TransitionRead, SweepRead,
     AdminBlockCheck, AdminBlockEditRead, OwnerBlockLock, ResolveLock, WithdrawLock,
     LeadCreateCheck, LeadStatusRead, LeadEditRead, ConvertLockUnit, UnitEditRead, ClientEditRead
<1>5. ConfirmCheck(w) \/ ConvertCheck(w)
  BY <1>2, <1>3, <1>4 DEF Abort, Proceed, QuickReturnDuplicate, QuickCheck, InsertBooking,
     UpdateSave, ApplyTransition, ConfirmLock, ConfirmCommit, SweepCommit, InsertBlock,
     AdminBlockEditSave, OwnerBlockCheck, ResolveReadConflicts, ResolveApprove, ResolveReject,
     WithdrawCommit, LeadInsert, LeadEditSave, LeadStatusSave, ConvertLockLead,
     ConvertCommit, UnitEditSave, ClientEditSave
<1>6. CASE ConfirmCheck(w)
  <2>1. pc[w] = "confirm_locked" /\ pc'[w] = "confirm_checked" /\ UNCHANGED <<tables, ask, tracked>>
    BY <1>6, Advanced DEF ConfirmCheck
  <2>2. PICK b \in TrackedBookings(w) : s = Row(w, b).stay
    BY <2>1 DEF Staying, TrackedBookings, Row
  <2>3. Row(w, b).unit = ask[w].unit
    BY <2>1 DEF RowInv, Plans, Plan, ConfirmSteps
  <2> QED BY <1>6, <2>1, <2>2, <2>3 DEF ConfirmCheck, Row
<1>7. CASE ConvertCheck(w)
  <2>1. pc'[w] = "convert" /\ UNCHANGED <<tables, ask>>
    BY <1>7, Advanced DEF ConvertCheck
  <2> QED BY <1>7, <2>1 DEF ConvertCheck, MayCreate, Staying
<1> QED BY <1>5, <1>6, <1>7

LEMMA StaysClearStep ==
  ASSUME FirmInv, Next
  PROVE  StaysClear'
<1> SUFFICES ASSUME NEW v \in Workers, NEW s \in Stays, Staying(v, s)',
                    NEW x \in BlockIds, Owned(x)', blocks'[x].unit = ask'[v].unit
             PROVE  ~BlockMeetsStay(blocks'[x].range, s)
  BY DEF StaysClear, ClearOfClosures, Owned
<1>1. ASSUME Staying(v, s), ask'[v] = ask[v]
      PROVE  ~BlockMeetsStay(blocks'[x].range, s)
  <2>1. ASSUME NEW w \in Workers, Closed(w, x)
        PROVE  FALSE
    <3>1. HoldsUnit(v)
      BY <1>1 DEF Staying, HoldsUnit, HeldSteps, LockedSteps
    <3>2. w = v
      BY <1>1, <2>1, <3>1, SoleHolder DEF Closed, FirmInv, OwnerInv
    <3> QED BY <1>1, <2>1, <3>2 DEF Closed, Closing, Placing, ResolveSteps, Staying
  <2>2. KeptOwned(x)
    BY <2>1, NewlyOwned DEF FirmInv, OwnerInv
  <2> QED BY <1>1, <2>2 DEF KeptOwned, FirmInv, StaysClear, ClearOfClosures
<1>2. CASE Request(v) \/ Proceed(v) \/ Abort(v)
  <2>1. /\ UNCHANGED tables /\ ask'[v] = ask[v]
        /\ \E except : OperationallyAvailable(ask[v].unit, s, except)
    BY <1>2, StayingBegins DEF FirmInv, OwnerInv
  <2>2. Owned(x) /\ blocks' = blocks
    BY <2>1 DEF tables, Owned
  <2> QED BY <2>1, <2>2, AvailableMeetsNoBlock DEF FirmInv, OwnerInv
<1>3. UNCHANGED <<pc[v], ask[v], tracked[v]>> => Staying(v, s) /\ ask'[v] = ask[v]
  BY DEF Staying, TrackedBookings, Row
<1>4. ASSUME NEW w \in Workers \ {v}, Request(w) \/ Proceed(w) \/ Abort(w)
      PROVE  UNCHANGED <<pc[v], ask[v], tracked[v]>>
  BY <1>4, RequestPlan, ProceedPlan DEF FirmInv, OwnerInv, Frame
<1>5. Surroundings => UNCHANGED <<pc[v], ask[v], tracked[v]>>
  BY SurroundingsLocks
<1> QED BY <1>1, <1>2, <1>3, <1>4, <1>5 DEF Next

LEMMA ClearOfFirmStep ==
  ASSUME FirmInv, Next
  PROVE  ClosuresClearOfFirm'
<1> SUFFICES ASSUME NEW v \in Workers, NEW x \in BlockIds, NEW k \in Ranges, Closing(v, x, k)',
                    NEW b \in BookingIds, bookings'[b] # None, Firm(b)',
                    bookings'[b].unit = ask'[v].unit
             PROVE  ~BlockMeetsStay(k, bookings'[b].stay)
  BY DEF ClosuresClearOfFirm, ClearOfFirm, BookingRows
<1>1. ASSUME Closing(v, x, k), ask'[v] = ask[v]
      PROVE  ~BlockMeetsStay(k, bookings'[b].stay)
  <2>1. ASSUME NEW w \in Workers, NewlyFirmBy(w, b)
        PROVE  FALSE
    <3>1. HoldsUnit(v)
      BY <1>1 DEF Closing, Placing, HoldsUnit, HeldSteps, ResolveSteps
    <3>2. w = v
      BY <1>1, <2>1, <3>1, SoleHolder DEF NewlyFirmBy, FirmInv, OwnerInv
    <3> QED BY <1>1, <2>1, <3>2 DEF NewlyFirmBy, Closing, Placing, ResolveSteps, Staying
  <2>2. /\ bookings[b] # None /\ Firm(b)
        /\ bookings'[b].unit = bookings[b].unit /\ bookings'[b].stay = bookings[b].stay
    BY <2>1, NewlyFirm
  <2> QED BY <1>1, <2>2 DEF FirmInv, ClosuresClearOfFirm, ClearOfFirm, BookingRows
<1>2. CASE Request(v) \/ Proceed(v) \/ Abort(v)
  <2>1. UNCHANGED tables => bookings' = bookings /\ Firm(b)
    BY DEF tables, Firm, Secured, Converted
  <2>2. CASE OwnerBlockCheck(v) /\ UNCHANGED tables /\ k = ask[v].stay /\ ask'[v].unit = ask[v].unit
    <3>1. LiveBookingsIn(ask[v].unit, k, HoldingStatuses) = {} /\ unit[ask[v].unit] # "deleted"
      BY <2>2 DEF OwnerBlockCheck
    <3> QED BY <2>1, <2>2, <3>1 DEF LiveBookingsIn, LiveOn, IsLive, BookingRows, Firm, Secured,
       Converted, HoldingStatuses
  <2>3. CASE Owned(x) /\ UNCHANGED tables /\ k = blocks[x].range /\ ask'[v].unit = blocks[x].unit
    BY <2>1, <2>3 DEF FirmInv, ClosedApart, BookingRows
  <2> QED BY <1>1, <1>2, <2>2, <2>3, ClosingBegins DEF FirmInv
<1>3. UNCHANGED <<pc[v], ask[v], tracked[v]>> => Closing(v, x, k) /\ ask'[v] = ask[v]
  BY DEF Closing, Placing, TrackedBlocks, Seen
<1>4. ASSUME NEW w \in Workers \ {v}, Request(w) \/ Proceed(w) \/ Abort(w)
      PROVE  UNCHANGED <<pc[v], ask[v], tracked[v]>>
  BY <1>4, RequestPlan, ProceedPlan DEF FirmInv, OwnerInv, Frame
<1>5. Surroundings => UNCHANGED <<pc[v], ask[v], tracked[v]>>
  BY SurroundingsLocks
<1> QED BY <1>1, <1>2, <1>3, <1>4, <1>5 DEF Next

LEMMA ClosedApartStep ==
  ASSUME FirmInv, Next
  PROVE  ClosedApart'
<1> SUFFICES ASSUME NEW x \in BlockIds, Owned(x)', NEW b \in BookingIds, bookings'[b] # None,
                    Firm(b)', blocks'[x].unit = bookings'[b].unit
             PROVE  ~BlockMeetsStay(blocks'[x].range, bookings'[b].stay)
  BY DEF ClosedApart, BookingRows
<1> DEFINE KeptFirm == /\ bookings[b] # None /\ Firm(b)
                       /\ bookings'[b].unit = bookings[b].unit /\ bookings'[b].stay = bookings[b].stay
<1>1. CASE KeptOwned(x) /\ KeptFirm
  BY <1>1 DEF KeptOwned, FirmInv, ClosedApart, BookingRows
<1>2. ASSUME NEW w \in Workers, Closed(w, x), KeptFirm
      PROVE  ~BlockMeetsStay(blocks'[x].range, bookings'[b].stay)
  BY <1>2 DEF Closed, FirmInv, ClosuresClearOfFirm, ClearOfFirm, BookingRows
<1>3. ASSUME NEW w \in Workers, NewlyFirmBy(w, b), KeptOwned(x)
      PROVE  ~BlockMeetsStay(blocks'[x].range, bookings'[b].stay)
  BY <1>3 DEF NewlyFirmBy, KeptOwned, FirmInv, StaysClear, ClearOfClosures
<1>4. ASSUME NEW v \in Workers, NEW w \in Workers, Closed(v, x), NewlyFirmBy(w, b)
      PROVE  FALSE
  <2>1. v = w
    BY <1>4, SoleHolder DEF Closed, NewlyFirmBy, FirmInv, OwnerInv
  <2> QED BY <1>4, <2>1 DEF Closed, NewlyFirmBy, Closing, Placing, ResolveSteps, Staying
<1>5. KeptOwned(x) \/ \E w \in Workers : Closed(w, x)
  BY NewlyOwned DEF FirmInv, OwnerInv
<1>6. KeptFirm \/ \E w \in Workers : NewlyFirmBy(w, b)
  BY NewlyFirm
<1> QED BY <1>1, <1>2, <1>3, <1>4, <1>5, <1>6

LEMMA FirmInvInit == Init => FirmInv
BY GuestInvInit, OwnerInvInit DEF Init, Quiet, FirmInv, LeadsApart, BookingRows, StaysClear,
   Staying,
   ClosuresClearOfFirm, Closing, Placing, ResolveSteps, ClosedApart

LEMMA FirmInvStep ==
  ASSUME "profiles" \notin Traffic
  PROVE  FirmInv /\ [Next]_vars => FirmInv'
<1> SUFFICES ASSUME FirmInv, [Next]_vars PROVE FirmInv'
  OBVIOUS
<1>1. GuestInv' /\ OwnerInv'
  BY GuestInvStep, OwnerInvStep DEF FirmInv
<1>2. CASE Next
  BY <1>1, <1>2, LeadsApartStep, StaysClearStep, ClearOfFirmStep, ClosedApartStep DEF FirmInv,
     OwnerInv
<1>3. CASE UNCHANGED vars
  BY <1>1, <1>3 DEF vars, tables, locks, session, FirmInv, LeadsApart, BookingRows, StaysClear,
     Staying,
     TrackedBookings, Row, ClearOfClosures, ClosuresClearOfFirm, Closing, Placing, TrackedBlocks,
     Seen, ClearOfFirm, ClosedApart, Owned, Firm, Secured, Converted
<1> QED BY <1>2, <1>3

\* While no stale client edit can undo a deletion, an owner's closure never
\* covers a night guaranteed to a guest, and no guest is confirmed into one.
THEOREM ClosuresKeepGuests ==
  ASSUME "profiles" \notin Traffic
  PROVE  Spec => []OwnerBlockKeepsGuests
<1>1. FirmInv => OwnerBlockKeepsGuests
  BY DEF FirmInv, ClosedApart, OwnerBlockKeepsGuests, Owned, Firm, Secured, Guaranteed, IsLive
<1> QED BY <1>1, FirmInvInit, FirmInvStep, PTL DEF Spec

\* Under the same condition it covers no night of a stay a conversion booked.
THEOREM ClosuresKeepConverted ==
  ASSUME "profiles" \notin Traffic
  PROVE  Spec => []OwnerBlockKeepsConverted
<1>1. FirmInv => OwnerBlockKeepsConverted
  BY DEF FirmInv, ClosedApart, OwnerBlockKeepsConverted, Owned, Firm, Converted, IsLive
<1> QED BY <1>1, FirmInvInit, FirmInvStep, PTL DEF Spec

-----------------------------------------------------------------------------
(* Requests of guests *)

\* A quick or storefront request nobody has touched since.
Submitted(b) == bookings[b].origin \in {"quick", "storefront"} /\ bookings[b].version = 1

YoungRows ==
  \A b \in BookingRows :
    bookings[b].version >= 1 /\ (Submitted(b) => bookings[b].status = "Prospecting")

Repeats(w, b) ==
  /\ Submitted(b) /\ bookings[b].fresh
  /\ bookings[b].client = ask[w].client /\ bookings[b].unit = ask[w].unit
  /\ bookings[b].stay = ask[w].stay

\* Worker w has checked a guest's request and inserts it next.
Submitting(w) == pc[w] = "insert" /\ ask[w].origin # "admin"

NothingRepeated == \A w \in Workers : Submitting(w) => \A b \in BookingRows : ~Repeats(w, b)

RepeatInv ==
  RowInv /\ UnitHeld /\ LeadsApart /\ YoungRows /\ NothingRepeated /\ DuplicateSubmitOnce

LEMMA YoungRowsStep ==
  ASSUME RowInv, LeadsApart, YoungRows, Next
  PROVE  YoungRows'
<1> SUFFICES ASSUME NEW b \in BookingIds, bookings'[b] # None
             PROVE  bookings'[b].version >= 1 /\ (Submitted(b)' => bookings'[b].status = "Prospecting")
  BY DEF YoungRows, BookingRows
<1>1. CASE bookings[b] = None
  <2>1. PICK w \in Workers : InsertedBy(w, b)
    BY <1>1, NewBooking
  <2>2. pc[w] = "convert" => ask[w].origin \notin {"quick", "storefront"}
    BY LeadIdsAssumption DEF RowInv, TypeInv, AskFits, Fits, ConvertSteps
  <2> QED BY <2>1, <2>2 DEF InsertedBy, Submitted
<1>2. CASE bookings[b] # None
  <2>1. /\ bookings[b].version >= 1 /\ bookings[b].version \in Nat
        /\ Submitted(b) => bookings[b].status = "Prospecting"
    BY <1>2 DEF YoungRows, BookingRows, RowInv, TypeInv, TypeOK, TablesOK, BookingRow
  <2>2. bookings'[b].origin = bookings[b].origin /\ (Untouched(b) \/ Edited(b) \/ Moved(b))
    BY <1>2, RowChanges DEF RowChange, Absent, Inserted, Untouched, Edited, Moved, Keeps
  <2>3. CASE Untouched(b)
    BY <2>1, <2>2, <2>3 DEF Untouched, Submitted
  <2>4. CASE Edited(b) \/ Moved(b)
    <3>1. bookings'[b].version = bookings[b].version + 1
      BY <2>4 DEF Edited, Moved
    <3> QED BY <2>1, <3>1 DEF Submitted
  <2> QED BY <2>2, <2>3, <2>4
<1> QED BY <1>1, <1>2

\* An untouched request was one before, or is inserted by a worker that
\* holds the lock of its unit.
LEMMA NewlySubmitted ==
  ASSUME RowInv, UnitHeld, LeadsApart, YoungRows, Next,
         NEW b \in BookingIds, bookings'[b] # None, Submitted(b)'
  PROVE  \/ /\ bookings[b] # None /\ Submitted(b) /\ Untouched(b)
            /\ bookings'[b].origin = bookings[b].origin
         \/ \E w \in Workers : InsertedBy(w, b) /\ Submitting(w) /\ HoldsUnit(w)
<1>1. CASE bookings[b] = None
  <2>1. PICK w \in Workers : InsertedBy(w, b)
    BY <1>1, NewBooking
  <2>2. bookings'[b].origin = ask[w].origin /\ ask[w].origin \in {"quick", "storefront"}
    BY <2>1 DEF InsertedBy, Submitted
  <2>3. pc[w] # "convert"
    BY <2>2, LeadIdsAssumption DEF RowInv, TypeInv, AskFits, Fits, ConvertSteps
  <2> QED BY <2>1, <2>2, <2>3 DEF InsertedBy, Submitting, HoldsUnit
<1>2. CASE bookings[b] # None
  <2>1. bookings[b].version >= 1 /\ bookings[b].version \in Nat
    BY <1>2 DEF YoungRows, BookingRows, RowInv, TypeInv, TypeOK, TablesOK, BookingRow
  <2>2. Untouched(b) \/ Edited(b) \/ Moved(b)
    BY <1>2, RowChanges DEF RowChange, Absent, Inserted
  <2>3. ~Edited(b) /\ ~Moved(b)
    BY <2>1 DEF Edited, Moved, Submitted
  <2> QED BY <1>2, <2>2, <2>3 DEF Untouched, Keeps, Submitted
<1> QED BY <1>1, <1>2

LEMMA SubmittingBegins ==
  ASSUME RowInv, NEW w \in Workers, Request(w) \/ Proceed(w) \/ Abort(w), Submitting(w)'
  PROVE  QuickCheck(w)
<1>1. \A step, args : Begin(w, step, args) => pc'[w] = step
  BY DEF Begin, RowInv, TypeInv, TypeOK, SessionOK
<1>2. \A from, to : Advance(w, from, to) => pc'[w] = to
  BY DEF Advance, RowInv, TypeInv, TypeOK, SessionOK
<1>3. pc'[w] = "insert" /\ ~Finish(w)
  BY FinishLocks DEF Submitting
<1>4. ASSUME Request(w)
      PROVE  \E c \in Clients, u \in Units, s \in Stays : CreateCheck(w, c, u, s)
  BY <1>1, <1>3, <1>4 DEF Request, QuickLock, UpdateRead, TransitionRead, SweepRead,
     AdminBlockCheck,
     AdminBlockEditRead, OwnerBlockLock, ResolveLock, WithdrawLock, LeadCreateCheck,
     LeadStatusRead, LeadEditRead, ConvertLockUnit, UnitEditRead, ClientEditRead
<1>5. ASSUME NEW c \in Clients, NEW u \in Units, NEW s \in Stays, CreateCheck(w, c, u, s)
      PROVE  FALSE
  <2> DEFINE args == [NoAsk EXCEPT !.unit = u, !.client = c, !.stay = s, !.origin = "admin"]
  <2>1. args.origin = "admin" /\ Begin(w, "insert", args)
    BY <1>5 DEF CreateCheck, NoAsk
  <2> HIDE DEF args
  <2> QED BY <2>1, Began DEF Submitting
<1> QED BY <1>2, <1>3, <1>4, <1>5 DEF Abort, Proceed, QuickReturnDuplicate, InsertBooking,
     UpdateSave, ApplyTransition, ConfirmLock, ConfirmCheck, ConfirmCommit, SweepCommit, InsertBlock,
     AdminBlockEditSave, OwnerBlockCheck, ResolveReadConflicts, ResolveApprove, ResolveReject,
     WithdrawCommit, LeadInsert, LeadEditSave, LeadStatusSave, ConvertLockLead, ConvertCheck,
     ConvertCommit, UnitEditSave, ClientEditSave

\* One worker moves: each of the others stays where it is.
LEMMA SubmittingStep ==
  ASSUME RowInv, Next, NEW v \in Workers, Submitting(v)'
  PROVE  /\ ask'[v] = ask[v]
         /\ QuickCheck(v) \/ Submitting(v)
<1>1. ASSUME UNCHANGED <<pc[v], ask[v]>>
      PROVE  ask'[v] = ask[v] /\ Submitting(v)
  BY <1>1 DEF Submitting
<1>2. ASSUME NEW w \in Workers \ {v}, Request(w) \/ Proceed(w) \/ Abort(w)
      PROVE  UNCHANGED <<pc[v], ask[v]>>
  BY <1>2, RequestPlan, ProceedPlan DEF Frame
<1>3. Surroundings => UNCHANGED <<pc[v], ask[v]>>
  BY SurroundingsLocks
<1>4. Request(v) \/ Proceed(v) \/ Abort(v) => QuickCheck(v) /\ ask'[v] = ask[v]
  BY SubmittingBegins DEF QuickCheck
<1> QED BY <1>1, <1>2, <1>3, <1>4 DEF Next

\* The lock keeps other requests for the unit out between check and insert.
LEMMA SubmitsAlone ==
  ASSUME UnitHeld, NEW v \in Workers, Submitting(v), Submitting(v)', ask'[v] = ask[v],
         NEW w \in Workers, NEW b \in BookingIds, InsertedBy(w, b), HoldsUnit(w),
         bookings'[b].unit = ask[v].unit
  PROVE  FALSE
<1>1. HoldsUnit(v)
  BY DEF Submitting, HoldsUnit
<1>2. w = v
  BY <1>1, SoleHolder DEF InsertedBy
<1> QED BY <1>2 DEF InsertedBy, Submitting

LEMMA NothingRepeatedStep ==
  ASSUME RepeatInv, Next
  PROVE  NothingRepeated'
<1> SUFFICES ASSUME NEW v \in Workers, Submitting(v)', NEW b \in BookingIds, bookings'[b] # None,
                    Repeats(v, b)'
             PROVE  FALSE
  BY DEF NothingRepeated, BookingRows
<1>1. ask'[v] = ask[v] /\ (QuickCheck(v) \/ Submitting(v))
  BY SubmittingStep DEF RepeatInv
<1>2. CASE QuickCheck(v)
  <2>1. bookings' = bookings /\ Repeats(v, b)
    BY <1>1, <1>2 DEF QuickCheck, tables, Repeats, Submitted
  <2>2. IsLive(b)
    BY <1>2, <2>1 DEF QuickCheck, MayCreate, OperationallyAvailable, IsLive, Repeats
  <2>3. bookings[b].status = "Prospecting"
    BY <2>1 DEF RepeatInv, YoungRows, BookingRows, Repeats
  <2>4. b \in RecentDuplicates(v)
    BY <2>1, <2>2, <2>3 DEF RecentDuplicates, BookingRows, Repeats
  <2> QED BY <1>2, <2>4 DEF QuickCheck
<1>3. CASE Submitting(v)
  <2>1. CASE bookings[b] # None /\ Submitted(b) /\ Untouched(b)
    BY <1>1, <1>3, <2>1 DEF Untouched, Keeps, Repeats, RepeatInv, NothingRepeated, BookingRows
  <2> QED BY <1>1, <1>3, <2>1, NewlySubmitted, SubmitsAlone DEF Repeats, RepeatInv
<1> QED BY <1>1, <1>2, <1>3

LEMMA DuplicateStep ==
  ASSUME RepeatInv, Next
  PROVE  DuplicateSubmitOnce'
<1> DEFINE Young(b) == bookings[b] # None /\ Submitted(b) /\ bookings[b].fresh
           Alike(b, c) == /\ bookings[b].client = bookings[c].client
                          /\ bookings[b].unit = bookings[c].unit
                          /\ bookings[b].stay = bookings[c].stay
<1> SUFFICES ASSUME NEW b \in BookingIds, NEW c \in BookingIds, b # c, Young(b)', Young(c)', Alike(b, c)'
             PROVE  FALSE
  BY DEF DuplicateSubmitOnce, Submitted, BookingRows
<1> DEFINE Old(d) == bookings[d] # None /\ Submitted(d) /\ Untouched(d)
<1>1. CASE Old(b) /\ Old(c)
  <2>1. Young(b) /\ Young(c) /\ Alike(b, c)
    BY <1>1 DEF Untouched, Keeps
  <2> QED BY <2>1 DEF RepeatInv, DuplicateSubmitOnce, Submitted, BookingRows
<1>2. ASSUME NEW w \in Workers, NEW d \in BookingIds, NEW e \in BookingIds, d # e,
             InsertedBy(w, d), Submitting(w), Young(e)', Alike(d, e)'
      PROVE  FALSE
  <2>1. bookings'[e] = bookings[e]
    BY <1>2 DEF InsertedBy
  <2>2. Young(e) /\ Repeats(w, e)
    BY <1>2, <2>1 DEF InsertedBy, Repeats, Submitted
  <2> QED BY <1>2, <2>2 DEF RepeatInv, NothingRepeated, BookingRows
<1>3. \A d \in {b, c} : Old(d) \/ \E w \in Workers : InsertedBy(w, d) /\ Submitting(w)
  BY NewlySubmitted DEF RepeatInv
<1> QED BY <1>1, <1>2, <1>3

LEMMA RepeatInvInit == Init => RepeatInv
BY FirmInvInit, OwnerInvInit DEF FirmInv, OwnerInv, Init, Quiet, RepeatInv, YoungRows,
   BookingRows, NothingRepeated,
   Submitting, DuplicateSubmitOnce

LEMMA RepeatInvStep == RepeatInv /\ [Next]_vars => RepeatInv'
<1> SUFFICES ASSUME RepeatInv, [Next]_vars PROVE RepeatInv'
  OBVIOUS
<1>1. RowInv'
  BY RowInvStep DEF RepeatInv
<1>2. CASE Next
  BY <1>1, <1>2, UnitHeldStep, LeadsApartStep, YoungRowsStep, NothingRepeatedStep, DuplicateStep
     DEF RepeatInv
<1>3. CASE UNCHANGED vars
  BY <1>1, <1>3 DEF vars, tables, locks, session, RepeatInv, UnitHeld, HoldsUnit, LeadsApart,
     YoungRows,
     Submitted, BookingRows, NothingRepeated, Submitting, Repeats, DuplicateSubmitOnce
<1> QED BY <1>2, <1>3

\* A request submitted twice within the window makes one booking, however
\* the two submissions interleave and whatever else is served.
THEOREM SubmittedOnce == Spec => []DuplicateSubmitOnce
<1>1. RepeatInv => DuplicateSubmitOnce
  BY DEF RepeatInv
<1> QED BY <1>1, RepeatInvInit, RepeatInvStep, PTL DEF Spec

-----------------------------------------------------------------------------
(* Requests on the storefront *)

Requested(b) ==
  /\ bookings[b].origin = "storefront" /\ bookings[b].version = 1
  /\ bookings[b].client \notin deletedClients

ClearOfRequests(w) ==
  \A b \in BookingRows :
    Requested(b) /\ bookings[b].unit = ask[w].unit => ~StaysOverlap(ask[w].stay, bookings[b].stay)

RequestsClear ==
  \A w \in Workers : Submitting(w) /\ ask[w].origin = "storefront" => ClearOfRequests(w)

RequestsDisjoint ==
  \A b, c \in BookingRows :
    (b # c /\ Requested(b) /\ Requested(c) /\ bookings[b].unit = bookings[c].unit)
      => ~StaysOverlap(bookings[b].stay, bookings[c].stay)

ShopInv == GuestInv /\ RepeatInv /\ RequestsClear /\ RequestsDisjoint

LEMMA StillRequested ==
  ASSUME ShopInv, Next, NEW b \in BookingIds, bookings'[b] # None, Requested(b)'
  PROVE  \/ /\ bookings[b] # None /\ Requested(b)
            /\ bookings'[b].unit = bookings[b].unit /\ bookings'[b].stay = bookings[b].stay
         \/ \E w \in Workers : /\ InsertedBy(w, b) /\ Submitting(w) /\ HoldsUnit(w)
                               /\ ask[w].origin = "storefront"
<1>1. deletedClients \subseteq deletedClients'
  BY DeletedStayDeleted DEF ShopInv, GuestInv
<1>2. Submitted(b)'
  BY DEF Requested, Submitted
<1> QED BY <1>1, <1>2, NewlySubmitted DEF ShopInv, RepeatInv, Requested, Submitted, Untouched, Keeps,
     InsertedBy

LEMMA RequestsClearStep ==
  ASSUME ShopInv, Next
  PROVE  RequestsClear'
<1> SUFFICES ASSUME NEW v \in Workers, Submitting(v)', ask'[v].origin = "storefront",
                    NEW b \in BookingIds, bookings'[b] # None, Requested(b)',
                    bookings'[b].unit = ask'[v].unit
             PROVE  ~StaysOverlap(ask'[v].stay, bookings'[b].stay)
  BY DEF RequestsClear, ClearOfRequests, BookingRows
<1>1. ask'[v] = ask[v] /\ (QuickCheck(v) \/ Submitting(v))
  BY SubmittingStep DEF ShopInv, RepeatInv
<1>2. CASE QuickCheck(v)
  <2>1. bookings' = bookings /\ Requested(b)
    BY <1>1, <1>2 DEF QuickCheck, tables, Requested
  <2>2. IsLive(b) /\ bookings[b].status = "Prospecting"
    BY <1>1, <1>2, <2>1 DEF QuickCheck, MayCreate, OperationallyAvailable, IsLive, Requested,
       ShopInv, RepeatInv, YoungRows, Submitted, BookingRows
  <2>3. Overlapping(ask[v].unit, ask[v].stay, ActiveAvailabilityHoldStatuses, {}) = {}
    BY <1>1, <1>2 DEF QuickCheck, MayCreate
  <2> QED BY <1>1, <2>1, <2>2, <2>3 DEF Overlapping, LiveOn, BookingRows,
     ActiveAvailabilityHoldStatuses, SoftHoldStatuses
<1>3. CASE Submitting(v)
  <2>1. CASE /\ bookings[b] # None /\ Requested(b)
             /\ bookings'[b].unit = bookings[b].unit /\ bookings'[b].stay = bookings[b].stay
    BY <1>1, <1>3, <2>1 DEF ShopInv, RequestsClear, ClearOfRequests, BookingRows
  <2> QED BY <1>1, <1>3, <2>1, StillRequested, SubmitsAlone DEF ShopInv, RepeatInv
<1> QED BY <1>1, <1>2, <1>3

LEMMA RequestsDisjointStep ==
  ASSUME ShopInv, Next
  PROVE  RequestsDisjoint'
<1> SUFFICES ASSUME NEW b \in BookingIds, NEW c \in BookingIds, b # c,
                    bookings'[b] # None, bookings'[c] # None, Requested(b)', Requested(c)',
                    bookings'[b].unit = bookings'[c].unit
             PROVE  ~StaysOverlap(bookings'[b].stay, bookings'[c].stay)
  BY DEF RequestsDisjoint, BookingRows
<1> DEFINE Old(d) == /\ bookings[d] # None /\ Requested(d)
                     /\ bookings'[d].unit = bookings[d].unit /\ bookings'[d].stay = bookings[d].stay
<1>1. CASE Old(b) /\ Old(c)
  BY <1>1 DEF ShopInv, RequestsDisjoint, BookingRows
<1>2. ASSUME NEW w \in Workers, NEW d \in BookingIds, NEW e \in BookingIds, d # e,
             bookings'[e] # None, Requested(e)', bookings'[d].unit = bookings'[e].unit,
             InsertedBy(w, d), Submitting(w), ask[w].origin = "storefront"
      PROVE  ~StaysOverlap(bookings'[d].stay, bookings'[e].stay)
  <2>1. bookings'[e] = bookings[e] /\ bookings'[d].stay = ask[w].stay /\ bookings'[d].unit = ask[w].unit
    BY <1>2 DEF InsertedBy
  <2>2. Requested(e)
    BY <1>2, <2>1, DeletedStayDeleted DEF Requested, ShopInv, GuestInv
  <2> QED BY <1>2, <2>1, <2>2 DEF ShopInv, RequestsClear, ClearOfRequests, BookingRows
<1>3. \A d \in {b, c} : Old(d) \/ \E w \in Workers : /\ InsertedBy(w, d) /\ Submitting(w)
                                                    /\ ask[w].origin = "storefront"
  BY StillRequested
<1>4. bookings'[b].stay \in Stays /\ bookings'[c].stay \in Stays
  <2>1. TypeInv'
    BY StepTyped DEF ShopInv, GuestInv, RowInv
  <2> QED BY <2>1 DEF TypeInv, TypeOK, TablesOK, BookingRow
<1> QED BY <1>1, <1>2, <1>3, <1>4, OverlapSymmetric

\* Two storefront requests for a unit that nobody has handled yet never
\* overlap, while no stale client edit can undo a deletion.
THEOREM RequestedOnce ==
  ASSUME "profiles" \notin Traffic
  PROVE  Spec => []NoStorefrontDoubleRequest
<1>1. Init => ShopInv
  BY GuestInvInit, RepeatInvInit DEF Init, Quiet, ShopInv, RequestsClear, Submitting,
     RequestsDisjoint,
     BookingRows
<1>2. ShopInv /\ [Next]_vars => ShopInv'
  <2> SUFFICES ASSUME ShopInv, [Next]_vars PROVE ShopInv'
    OBVIOUS
  <2>1. GuestInv' /\ RepeatInv'
    BY GuestInvStep, RepeatInvStep DEF ShopInv
  <2>2. CASE Next
    BY <2>1, <2>2, RequestsClearStep, RequestsDisjointStep DEF ShopInv
  <2>3. CASE UNCHANGED vars
    BY <2>1, <2>3 DEF vars, tables, session, ShopInv, RequestsClear, ClearOfRequests,
       RequestsDisjoint,
       Requested, Submitting, BookingRows
  <2> QED BY <2>2, <2>3
<1>3. ShopInv => NoStorefrontDoubleRequest
  BY DEF ShopInv, RequestsDisjoint, Requested, NoStorefrontDoubleRequest, IsLive
<1> QED BY <1>1, <1>2, <1>3, PTL DEF Spec

-----------------------------------------------------------------------------
(* Blocks that are remembered and written back *)

\* A block row is inserted live under a key nobody remembers, removed, or
\* written back by a request that had read it and ends.
WrittenBack(v, x) ==
  /\ x \in TrackedBlocks(v) /\ blocks[x] # None /\ blocks'[x].unit = Seen(v, x).unit
  /\ pc[v] \in BlockSteps /\ pc'[v] = "idle"
  /\ pc[v] # "block_edit" /\ blocks'[x].deleted => blocks'[x].status = "Rejected"

LEMMA BlockChange ==
  ASSUME RowInv, Next, NEW x \in BlockIds
  PROVE  \/ blocks'[x] = blocks[x]
         \/ blocks'[x] = None
         \/ IsUnusedBlock(x) /\ ~blocks'[x].deleted
         \/ \E v \in Workers : WrittenBack(v, x)
<1>1. ASSUME NEW v \in Workers, NEW y \in BlockIds, InsertBlock(v, y), blocks'[x] # blocks[x]
      PROVE  IsUnusedBlock(x) /\ ~blocks'[x].deleted
  BY <1>1 DEF InsertBlock, RowInv, TypeInv, TypeOK, TablesOK
<1>2. ASSUME NEW v \in Workers, blocks'[x] # blocks[x],
             AdminBlockEditSave(v) \/ ResolveApprove(v) \/ ResolveReject(v) \/ WithdrawCommit(v)
      PROVE  WrittenBack(v, x)
  <2>1. x \in TrackedBlocks(v) /\ blocks[x] # None
    BY <1>2 DEF AdminBlockEditSave, ResolveApprove, ResolveReject, WithdrawCommit, SaveBlock
  <2>2. Seen(v, x) \in BlockRow
    BY <2>1, TrackedTyped DEF RowInv, TypeInv, TypeOK, Seen
  <2>3. pc[v] \in BlockSteps /\ pc'[v] = "idle"
    BY <1>2, FinishLocks DEF AdminBlockEditSave, ResolveApprove, ResolveReject, WithdrawCommit,
       BlockSteps, ResolveSteps
  <2>4. CASE AdminBlockEditSave(v)
    <3>1. blocks'[x] = [Seen(v, x) EXCEPT !.range = ask[v].stay, !.owned = FALSE]
      BY <2>1, <2>4 DEF AdminBlockEditSave, Seen
    <3> QED BY <2>1, <2>2, <2>3, <2>4, <3>1 DEF AdminBlockEditSave, WrittenBack, BlockRow
  <2>5. ASSUME NEW status, NEW deleted, SaveBlock(v, status, deleted), deleted => status = "Rejected"
        PROVE  WrittenBack(v, x)
    <3>1. blocks'[x] = [Seen(v, x) EXCEPT !.status = status, !.deleted = deleted]
      BY <2>1, <2>5 DEF SaveBlock, Seen
    <3>2. /\ blocks'[x].unit = Seen(v, x).unit /\ blocks'[x].status = status
          /\ blocks'[x].deleted = deleted
      BY <2>2, <3>1 DEF BlockRow
    <3> QED BY <2>1, <2>3, <2>5, <3>2 DEF WrittenBack
  <2>6. CASE ResolveApprove(v)
    BY <2>5, <2>6 DEF ResolveApprove
  <2>7. CASE ResolveReject(v) \/ WithdrawCommit(v)
    BY <2>5, <2>7 DEF ResolveReject, WithdrawCommit
  <2> QED BY <1>2, <2>4, <2>6, <2>7
<1>3. ASSUME NEW y \in BlockIds, AdminBlockDelete(y), blocks'[x] # blocks[x]
      PROVE  blocks'[x] = None
  BY <1>3 DEF AdminBlockDelete, RowInv, TypeInv, TypeOK, TablesOK
<1>4. ASSUME NEW w \in Workers, Request(w)
      PROVE  blocks' = blocks
  BY <1>4 DEF Request, tables, CreateCheck, QuickLock, UpdateRead, TransitionRead, SweepRead,
     AdminBlockCheck, AdminBlockEditRead, OwnerBlockLock, ResolveLock, WithdrawLock,
     LeadCreateCheck, LeadStatusRead, LeadEditRead, ConvertLockUnit, UnitEditRead, ClientEditRead
<1>5. ASSUME NEW w \in Workers, Proceed(w) \/ Abort(w)
      PROVE  \/ blocks' = blocks \/ AdminBlockEditSave(w) \/ \E y \in BlockIds : InsertBlock(w, y)
             \/ ResolveApprove(w) \/ ResolveReject(w) \/ WithdrawCommit(w)
  BY <1>5 DEF Proceed, tables, QuickReturnDuplicate, QuickCheck, ConfirmLock, ConfirmCheck,
     InsertBooking, UpdateSave, ApplyTransition, ConfirmCommit, SweepCommit, OwnerBlockCheck,
     ResolveReadConflicts, LeadInsert, LeadEditSave, LeadStatusSave, ConvertLockLead, ConvertCheck,
     ConvertCommit, UnitEditSave, ClientEditSave, Abort
<1>6. Surroundings => blocks' = blocks \/ \E y \in BlockIds : AdminBlockDelete(y)
  BY DEF Surroundings, NextDay, DuplicateWindowCloses, DeleteUnit, DeleteClient
<1> QED BY <1>1, <1>2, <1>3, <1>4, <1>5, <1>6 DEF Next

\* A block a request remembers it had remembered before, or has just read.
LEMMA SeenBlock ==
  ASSUME RowInv, OneBlockEach, Next, NEW v \in Workers, NEW x \in TrackedBlocks(v)'
  PROVE  \/ /\ x \in TrackedBlocks(v) /\ Seen(v, x)' = Seen(v, x)
            /\ pc'[v] \in ResolveSteps => pc[v] \in ResolveSteps /\ ask'[v] = ask[v]
            /\ pc'[v] = "withdraw" => pc[v] = "withdraw" /\ ask'[v] = ask[v]
         \/ /\ Seen(v, x)' = blocks[x] /\ UNCHANGED blocks
            /\ pc'[v] # "block_edit" => ~blocks[x].deleted /\ ask'[v].unit = blocks[x].unit
<1> DEFINE Remembered == /\ x \in TrackedBlocks(v) /\ Seen(v, x)' = Seen(v, x)
                         /\ pc'[v] \in ResolveSteps => pc[v] \in ResolveSteps /\ ask'[v] = ask[v]
                         /\ pc'[v] = "withdraw" => pc[v] = "withdraw" /\ ask'[v] = ask[v]
           JustRead == /\ Seen(v, x)' = blocks[x] /\ UNCHANGED blocks
                       /\ pc'[v] # "block_edit" => ~blocks[x].deleted /\ ask'[v].unit = blocks[x].unit
<1>0. x \in BlockIds
  BY DEF TrackedBlocks
<1>1. UNCHANGED <<pc[v], ask[v], tracked[v]>> => Remembered
  BY DEF TrackedBlocks, Seen
<1>2. ASSUME NEW step \in BlockSteps, NEW args, Begin(v, step, args),
             NEW y \in BlockIds, TrackBlock(v, y)
      PROVE  x = y /\ Seen(v, x)' = blocks[x] /\ pc'[v] = step /\ ask'[v] = args
  <2>1. TrackedBlocks(v) = {}
    BY <1>2, Began DEF OneBlockEach, ReadsOneBlock, BlockSteps, ResolveSteps
  <2> QED BY <1>2, <2>1, FirstBlock, Began
<1>3. ASSUME NEW y \in BlockIds, NEW k \in Ranges, AdminBlockEditRead(v, y, k)
      PROVE  JustRead
  BY <1>2, <1>3 DEF AdminBlockEditRead, BlockSteps, tables
<1>4. ASSUME NEW y \in BlockIds, NEW d \in {"Approved", "Rejected"}, ResolveLock(v, y, d)
      PROVE  JustRead
  <2> DEFINE u == blocks[y].unit  args == [NoAsk EXCEPT !.unit = u, !.to = d]
  <2>1. args.unit = u /\ Begin(v, "resolve", args) /\ TrackBlock(v, y)
    BY <1>4 DEF ResolveLock, NoAsk
  <2> HIDE DEF args
  <2>2. "resolve" \in BlockSteps
    BY DEF BlockSteps, ResolveSteps
  <2>3. x = y /\ Seen(v, x)' = blocks[x] /\ ask'[v] = args
    BY <1>2, <2>1, <2>2
  <2> QED BY <1>4, <2>1, <2>3 DEF ResolveLock, tables
<1>5. ASSUME NEW y \in BlockIds, WithdrawLock(v, y)
      PROVE  JustRead
  <2> DEFINE u == blocks[y].unit  args == [NoAsk EXCEPT !.unit = u]
  <2>1. args.unit = u /\ Begin(v, "withdraw", args) /\ TrackBlock(v, y)
    BY <1>5 DEF WithdrawLock, NoAsk
  <2> HIDE DEF args
  <2>2. "withdraw" \in BlockSteps
    BY DEF BlockSteps
  <2>3. x = y /\ Seen(v, x)' = blocks[x] /\ ask'[v] = args
    BY <1>2, <2>1, <2>2
  <2> QED BY <1>5, <2>1, <2>3 DEF WithdrawLock, tables
<1>6. CASE ResolveReadConflicts(v)
  <2>1. /\ pc[v] = "resolve" /\ pc'[v] = "resolve_approve" /\ ask' = ask
        /\ tracked'[v].blocks = tracked[v].blocks
    BY <1>6, Advanced, ConflictsBlocks DEF ResolveReadConflicts
  <2> QED BY <2>1 DEF TrackedBlocks, Seen, ResolveSteps
<1>7. ~Finish(v)
  BY DEF Finish, TrackedBlocks, Untracked, RowInv, TypeInv, TypeOK, SessionOK
<1>8. CASE /\ pc[v] \notin BlockSteps /\ pc'[v] \notin BlockSteps
           /\ tracked'[v].blocks = tracked[v].blocks
  BY <1>8 DEF TrackedBlocks, Seen, BlockSteps
<1>9. ASSUME NEW w \in Workers \ {v}, Request(w) \/ Proceed(w) \/ Abort(w)
      PROVE  UNCHANGED <<pc[v], ask[v], tracked[v]>>
  BY <1>9, RequestPlan, ProceedPlan DEF Frame
<1>10. Surroundings => UNCHANGED <<pc[v], ask[v], tracked[v]>>
  BY SurroundingsLocks
<1>11. CASE Request(v) \/ Proceed(v) \/ Abort(v)
  BY <1>3, <1>4, <1>5, <1>6, <1>7, <1>8, <1>11, BlockReads
<1> QED BY <1>1, <1>9, <1>10, <1>11 DEF Next

-----------------------------------------------------------------------------
(* Withdrawn and rejected blocks *)

NoBlockEdits == \A w \in Workers : pc[w] # "block_edit"

DeletedRejected ==
  \A x \in BlockIds : blocks[x] # None /\ blocks[x].deleted => blocks[x].status = "Rejected"

\* The block a request resolves or withdraws is live, of the unit it locked.
SeenLive ==
  \A w \in Workers : \A x \in TrackedBlocks(w) :
    pc[w] \in BlockSteps /\ blocks[x] # None
      => ~blocks[x].deleted /\ blocks[x].unit = ask[w].unit

WithdrawInv == OwnerInv /\ NoBlockEdits /\ DeletedRejected /\ SeenLive

LEMMA NoBlockEditsStep ==
  ASSUME "blockedit" \notin Traffic, RowInv, NoBlockEdits, Next
  PROVE  NoBlockEdits'
<1>1. \A w \in Workers : \A step, args : Begin(w, step, args) => pc'[w] = step
  BY DEF Begin, RowInv, TypeInv, TypeOK, SessionOK
<1>2. \A w \in Workers : \A from, to : Advance(w, from, to) => pc'[w] = to
  BY DEF Advance, RowInv, TypeInv, TypeOK, SessionOK
<1>3. ASSUME NEW w \in Workers, Request(w)
      PROVE  pc'[w] # "block_edit"
  BY <1>1, <1>3 DEF Request, CreateCheck, QuickLock, UpdateRead, TransitionRead, SweepRead,
     AdminBlockCheck, OwnerBlockLock, ResolveLock, WithdrawLock,
     LeadCreateCheck, LeadStatusRead, LeadEditRead, ConvertLockUnit, UnitEditRead, ClientEditRead
<1>4. ASSUME NEW w \in Workers, Proceed(w) \/ Abort(w)
      PROVE  pc'[w] # "block_edit"
  <2>1. Finish(w) => pc'[w] = "idle"
    BY FinishLocks
  <2> QED BY <1>2, <1>4, <2>1 DEF Abort, Proceed, QuickReturnDuplicate, QuickCheck,
     InsertBooking, UpdateSave, ApplyTransition, ConfirmLock, ConfirmCheck, ConfirmCommit,
     SweepCommit, InsertBlock, AdminBlockEditSave, OwnerBlockCheck, ResolveReadConflicts,
     ResolveApprove, ResolveReject, WithdrawCommit, LeadInsert, LeadEditSave, LeadStatusSave,
     ConvertLockLead, ConvertCheck, ConvertCommit, UnitEditSave, ClientEditSave
<1>5. Surroundings => pc' = pc
  BY SurroundingsLocks
<1>6. ASSUME NEW w \in Workers, Request(w) \/ Proceed(w) \/ Abort(w)
      PROVE  \A v \in Workers \ {w} : pc'[v] = pc[v]
  BY <1>6, RequestPlan, ProceedPlan DEF Frame
<1> QED BY <1>3, <1>4, <1>5, <1>6 DEF Next, NoBlockEdits

\* Who writes a block back has it locked and live.
LEMMA WritesLiveBlock ==
  ASSUME WithdrawInv, NEW x \in BlockIds, NEW u \in Workers, WrittenBack(u, x)
  PROVE  ~blocks[x].deleted /\ blocks[x].unit = ask[u].unit /\ HoldsUnit(u)
BY DEF WithdrawInv, NoBlockEdits, SeenLive, WrittenBack, HoldsUnit, HeldSteps, BlockSteps,
   ResolveSteps

LEMMA DeletedRejectedStep ==
  ASSUME WithdrawInv, Next
  PROVE  DeletedRejected'
<1> SUFFICES ASSUME NEW x \in BlockIds, blocks'[x] # None, blocks'[x].deleted
             PROVE  blocks'[x].status = "Rejected"
  BY DEF DeletedRejected
<1>1. ASSUME NEW u \in Workers, WrittenBack(u, x)
      PROVE  blocks'[x].status = "Rejected"
  BY <1>1 DEF WrittenBack, WithdrawInv, NoBlockEdits
<1> QED BY <1>1, BlockChange DEF WithdrawInv, OwnerInv, DeletedRejected

LEMMA SeenLiveStep ==
  ASSUME WithdrawInv, NoBlockEdits', Next
  PROVE  SeenLive'
<1> SUFFICES ASSUME NEW v \in Workers, NEW x \in TrackedBlocks(v)', pc'[v] \in BlockSteps,
                    blocks'[x] # None
             PROVE  ~blocks'[x].deleted /\ blocks'[x].unit = ask'[v].unit
  BY DEF SeenLive
<1>0. x \in BlockIds /\ pc'[v] # "block_edit"
  BY DEF TrackedBlocks, NoBlockEdits
<1>1. CASE /\ Seen(v, x)' = blocks[x] /\ UNCHANGED blocks
           /\ ~blocks[x].deleted /\ ask'[v].unit = blocks[x].unit
  BY <1>1
<1>2. CASE x \in TrackedBlocks(v) /\ pc[v] \in BlockSteps /\ ask'[v] = ask[v]
  <2>1. ~IsUnusedBlock(x)
    BY <1>2 DEF TrackedBlocks, IsUnusedBlock
  <2>2. HoldsUnit(v)
    BY <1>2 DEF WithdrawInv, NoBlockEdits, HoldsUnit, HeldSteps, BlockSteps, ResolveSteps
  <2>3. ASSUME NEW u \in Workers, WrittenBack(u, x)
        PROVE  FALSE
    <3>1. ask[u].unit = ask[v].unit /\ HoldsUnit(u)
      BY <1>0, <1>2, <2>3, WritesLiveBlock DEF WrittenBack, WithdrawInv, SeenLive
    <3>2. u = v
      BY <2>2, <3>1, SoleHolder DEF WithdrawInv, OwnerInv
    <3> QED BY <2>3, <3>2 DEF WrittenBack, BlockSteps, ResolveSteps
  <2>4. blocks'[x] = blocks[x]
    BY <1>0, <2>1, <2>3, BlockChange DEF WithdrawInv, OwnerInv
  <2> QED BY <1>2, <2>4 DEF WithdrawInv, SeenLive
<1> QED BY <1>0, <1>1, <1>2, SeenBlock DEF WithdrawInv, OwnerInv, BlockSteps, ResolveSteps

\* Dates that were re-opened stay open, unless the admin edits blocks: that
\* edit takes no lock and writes back a row it read before the withdrawal.
THEOREM WithdrawnForGood ==
  ASSUME "blockedit" \notin Traffic
  PROVE  Spec => WithdrawnStaysWithdrawn
<1>1. Init => WithdrawInv
  BY OwnerInvInit DEF Init, Quiet, WithdrawInv, NoBlockEdits, DeletedRejected, SeenLive, BlockSteps,
     ResolveSteps
<1>2. WithdrawInv /\ [Next]_vars => WithdrawInv'
  <2> SUFFICES ASSUME WithdrawInv, [Next]_vars PROVE WithdrawInv'
    OBVIOUS
  <2>1. OwnerInv'
    BY OwnerInvStep DEF WithdrawInv
  <2>2. CASE Next
    <3>1. NoBlockEdits'
      BY <2>2, NoBlockEditsStep DEF WithdrawInv, OwnerInv
    <3> QED BY <2>1, <2>2, <3>1, DeletedRejectedStep, SeenLiveStep DEF WithdrawInv
  <2>3. CASE UNCHANGED vars
    BY <2>1, <2>3 DEF vars, tables, session, WithdrawInv, NoBlockEdits, DeletedRejected, SeenLive,
       TrackedBlocks
  <2> QED BY <2>2, <2>3
<1>3. WithdrawInv /\ [Next]_vars =>
        [\A x \in BlockIds :
           (blocks[x] # None /\ blocks[x].deleted /\ blocks'[x] # None)
             => blocks'[x].deleted /\ blocks'[x].status = "Rejected"]_vars
  <2> SUFFICES ASSUME WithdrawInv, Next, NEW x \in BlockIds,
                      blocks[x] # None, blocks[x].deleted, blocks'[x] # None
               PROVE  blocks'[x].deleted /\ blocks'[x].status = "Rejected"
    OBVIOUS
  <2>1. ASSUME NEW u \in Workers, WrittenBack(u, x)
        PROVE  FALSE
    BY <2>1, WritesLiveBlock
  <2>2. blocks'[x] = blocks[x]
    BY <2>1, BlockChange DEF WithdrawInv, OwnerInv, IsUnusedBlock
  <2> QED BY <2>2 DEF WithdrawInv, DeletedRejected
<1> QED BY <1>1, <1>2, <1>3, PTL DEF Spec, WithdrawnStaysWithdrawn

-----------------------------------------------------------------------------
(* The services implement NightClaims *)

\* Without the traffic that deletes and revives accounts.
NoDeletions ==
  /\ deletedClients = {} /\ \A u \in Units : unit[u] = "active"
  /\ \A w \in Workers : pc[w] # "unit_edit"

\* A block keeps its unit as long as a request remembers it, and the dates
\* of a pending closure stand still while it is resolved.
SeenUnits ==
  \A w \in Workers : \A x \in TrackedBlocks(w) :
    blocks[x] # None => blocks[x].unit = Seen(w, x).unit

SeenClosures ==
  \A w \in Workers : \A x \in TrackedBlocks(w) :
    pc[w] \in ResolveSteps /\ Owned(x) => blocks[x].range = Seen(w, x).range

ClaimInv == FirmInv /\ NoDeletions /\ SeenUnits /\ SeenClosures

LEMMA NoDeletionsStep ==
  ASSUME "profiles" \notin Traffic, "accounts" \notin Traffic, FirmInv, NoDeletions, Next
  PROVE  NoDeletions'
<1>1. \A w \in Workers : \A step, args : Begin(w, step, args) => pc'[w] = step
  BY DEF Begin, FirmInv, GuestInv, RowInv, TypeInv, TypeOK, SessionOK
<1>2. \A w \in Workers : \A from, to : Advance(w, from, to) => pc'[w] = to
  BY DEF Advance, FirmInv, GuestInv, RowInv, TypeInv, TypeOK, SessionOK
<1>3. ASSUME NEW w \in Workers, Request(w)
      PROVE  UNCHANGED <<unit, deletedClients>> /\ pc'[w] # "unit_edit"
  BY <1>1, <1>3 DEF Request, tables, CreateCheck, QuickLock, UpdateRead, TransitionRead, SweepRead,
     AdminBlockCheck, AdminBlockEditRead, OwnerBlockLock, ResolveLock, WithdrawLock,
     LeadCreateCheck, LeadStatusRead, LeadEditRead, ConvertLockUnit, UnitEditRead, ClientEditRead
<1>4. ASSUME NEW w \in Workers, Proceed(w) \/ Abort(w)
      PROVE  UNCHANGED <<unit, deletedClients>> /\ pc'[w] # "unit_edit"
  <2>1. pc[w] # "unit_edit" /\ pc[w] # "client_edit"
    BY DEF NoDeletions, FirmInv, GuestInv, NoClientEdits
  <2>2. Finish(w) => pc'[w] = "idle"
    BY FinishLocks DEF FirmInv, GuestInv
  <2> QED BY <1>2, <1>4, <2>1, <2>2 DEF Abort, Proceed, tables, QuickReturnDuplicate, QuickCheck,
     InsertBooking, UpdateSave, ApplyTransition, ConfirmLock, ConfirmCheck, ConfirmCommit,
     SweepCommit, InsertBlock, AdminBlockEditSave, OwnerBlockCheck, ResolveReadConflicts,
     ResolveApprove, ResolveReject, WithdrawCommit, LeadInsert, LeadEditSave, LeadStatusSave,
     ConvertLockLead, ConvertCheck, ConvertCommit, UnitEditSave, ClientEditSave
<1>5. ASSUME Surroundings
      PROVE  UNCHANGED <<unit, deletedClients, pc>>
  BY <1>5 DEF Surroundings, NextDay, DuplicateWindowCloses, AdminBlockDelete, session
<1>6. ASSUME NEW w \in Workers, Request(w) \/ Proceed(w) \/ Abort(w)
      PROVE  \A v \in Workers \ {w} : pc'[v] = pc[v]
  BY <1>6, RequestPlan, ProceedPlan DEF FirmInv, GuestInv, Frame
<1> QED BY <1>3, <1>4, <1>5, <1>6 DEF Next, NoDeletions

LEMMA SeenUnitsStep ==
  ASSUME RowInv, OneBlockEach, SeenUnits, Next
  PROVE  SeenUnits'
<1> SUFFICES ASSUME NEW v \in Workers, NEW x \in TrackedBlocks(v)', blocks'[x] # None
             PROVE  blocks'[x].unit = Seen(v, x)'.unit
  BY DEF SeenUnits
<1>1. CASE Seen(v, x)' = blocks[x] /\ UNCHANGED blocks
  BY <1>1
<1>2. CASE x \in TrackedBlocks(v) /\ Seen(v, x)' = Seen(v, x)
  <2>1. x \in BlockIds /\ ~IsUnusedBlock(x)
    BY <1>2 DEF TrackedBlocks, IsUnusedBlock
  <2>2. ASSUME NEW u \in Workers, WrittenBack(u, x)
        PROVE  blocks'[x].unit = Seen(v, x)'.unit
    BY <1>2, <2>2 DEF WrittenBack, SeenUnits
  <2> QED BY <1>2, <2>1, <2>2, BlockChange DEF SeenUnits
<1> QED BY <1>1, <1>2, SeenBlock

LEMMA SeenClosuresStep ==
  ASSUME OwnerInv, SeenUnits, SeenClosures, Next
  PROVE  SeenClosures'
<1> SUFFICES ASSUME NEW v \in Workers, NEW x \in TrackedBlocks(v)', pc'[v] \in ResolveSteps, Owned(x)'
             PROVE  blocks'[x].range = Seen(v, x)'.range
  BY DEF SeenClosures
<1>1. CASE Seen(v, x)' = blocks[x] /\ UNCHANGED blocks
  BY <1>1
<1>2. CASE /\ x \in TrackedBlocks(v) /\ Seen(v, x)' = Seen(v, x)
           /\ pc[v] \in ResolveSteps /\ ask'[v] = ask[v]
  <2>1. x \in BlockIds /\ ~IsUnusedBlock(x)
    BY <1>2 DEF TrackedBlocks, IsUnusedBlock
  <2>2. ASSUME NEW w \in Workers, Closed(w, x)
        PROVE  FALSE
    <3>1. blocks[x] # None /\ pc[w] \in ResolveSteps /\ x \in TrackedBlocks(w)
      BY <2>1, <2>2 DEF Closed, Closing, Placing
    <3>2. Seen(w, x).unit = ask[w].unit /\ Seen(v, x).unit = ask[v].unit
      BY <1>2, <3>1 DEF OwnerInv, OneBlockEach, ReadsOneBlock
    <3>3. ask[w].unit = ask[v].unit
      BY <1>2, <3>1, <3>2 DEF SeenUnits
    <3>4. HoldsUnit(v) /\ HoldsUnit(w)
      BY <1>2, <2>2 DEF Closed, HoldsUnit, HeldSteps, ResolveSteps
    <3>5. v = w
      BY <3>3, <3>4, SoleHolder DEF OwnerInv
    <3> QED BY <2>2, <3>5 DEF Closed, ResolveSteps
  <2>3. KeptOwned(x)
    BY <2>1, <2>2, NewlyOwned DEF OwnerInv
  <2> QED BY <1>2, <2>3 DEF KeptOwned, SeenClosures
<1> QED BY <1>1, <1>2, SeenBlock DEF OwnerInv

\* A stay becomes secured by the commit of its confirmation only.
LEMMA ConfirmedBy ==
  ASSUME GuestInv, Next, NEW b \in BookingIds, bookings'[b] # None, Secured(b)', ~Secured(b)
  PROVE  \E w \in Workers : Confirming(w, b) /\ ConfirmCommit(w)
<1>1. bookings[b] # None /\ RowChange(b) /\ deletedClients \subseteq deletedClients'
  BY NewlySecured, RowChanges, DeletedStayDeleted DEF GuestInv
<1>2. /\ Keeps(b) /\ bookings[b].status \in BookingStatus
      /\ Moved(b) \/ bookings'[b].status = bookings[b].status
  BY <1>1 DEF RowChange, Absent, Inserted, Untouched, Edited, Moved, GuestInv, RowInv, TypeInv,
     TypeOK,
     TablesOK, BookingRow
<1>3. bookings[b].status \notin {"Confirmed", "CheckIn"}
  BY <1>1, <1>2 DEF Secured, Keeps
<1>4. bookings'[b].status = "Confirmed"
  BY <1>2, <1>3 DEF Secured, Moved, IsValidTransition, AllowedTransitions, BookingStatus
<1>5. bookings'[b] # bookings[b]
  BY <1>3, <1>4
<1>6. ASSUME NEW w \in Workers, NEW to, SaveStatus(w, to)
      PROVE  b \in TrackedBookings(w) /\ to = "Confirmed"
  <2>1. /\ b \in TrackedBookings(w) /\ XminMatches(w)
        /\ bookings'[b] = [Row(w, b) EXCEPT !.status = to, !.version = bookings[b].version + 1,
                                            !.fresh = bookings[b].fresh]
    BY <1>5, <1>6 DEF SaveStatus, Row
  <2>2. Row(w, b) \in BookingRow
    BY <2>1, MatchedSnapshot DEF GuestInv
  <2>3. bookings'[b].status = to
    BY <2>1, <2>2 DEF BookingRow
  <2> QED BY <1>4, <2>1, <2>3
<1>7. ASSUME NEW w \in Workers, UpdateSave(w)
      PROVE  FALSE
  <2>1. /\ b \in TrackedBookings(w) /\ XminMatches(w)
        /\ bookings'[b] = [Row(w, b) EXCEPT !.stay = ask[w].stay, !.version = bookings[b].version + 1,
                                            !.fresh = bookings[b].fresh]
    BY <1>5, <1>7 DEF UpdateSave, Row
  <2>2. Row(w, b) \in BookingRow /\ Row(w, b).status = bookings[b].status
    BY <2>1, MatchedSnapshot DEF GuestInv
  <2>3. bookings'[b].status = bookings[b].status
    BY <2>1, <2>2 DEF BookingRow
  <2> QED BY <1>3, <1>4, <2>3
<1>8. ASSUME NEW w \in Workers, NEW c \in BookingIds, InsertBooking(w, c) \/ ConvertCommit(w, c)
      PROVE  FALSE
  BY <1>1, <1>5, <1>8 DEF InsertBooking, ConvertCommit, AddBooking, GuestInv, RowInv, TypeInv,
     TypeOK,
     TablesOK
<1>9. ASSUME NEW c \in BookingIds, DuplicateWindowCloses(c)
      PROVE  FALSE
  <2>1. bookings'[b] = [bookings[b] EXCEPT !.fresh = FALSE] /\ bookings[b] \in BookingRow
    BY <1>1, <1>5, <1>9 DEF DuplicateWindowCloses, BookingRows, GuestInv, RowInv, TypeInv, TypeOK,
       TablesOK
  <2>2. bookings'[b].status = bookings[b].status
    BY <2>1 DEF BookingRow
  <2> QED BY <1>3, <1>4, <2>2
<1>10. ASSUME NEW w \in Workers, Request(w)
       PROVE  FALSE
  BY <1>5, <1>10 DEF Request, tables, CreateCheck, QuickLock, UpdateRead, TransitionRead, SweepRead,
     AdminBlockCheck, AdminBlockEditRead, OwnerBlockLock, ResolveLock, WithdrawLock,
     LeadCreateCheck, LeadStatusRead, LeadEditRead, ConvertLockUnit, UnitEditRead, ClientEditRead
<1>11. ASSUME NEW w \in Workers, Proceed(w) \/ Abort(w)
       PROVE  \/ \E c \in BookingIds : InsertBooking(w, c) \/ ConvertCommit(w, c)
              \/ UpdateSave(w) \/ ApplyTransition(w) \/ ConfirmCommit(w) \/ SweepCommit(w)
              \/ ResolveApprove(w)
  BY <1>5, <1>11 DEF Abort, Proceed, tables, QuickReturnDuplicate, QuickCheck, ConfirmLock,
     ConfirmCheck, InsertBlock, AdminBlockEditSave, OwnerBlockCheck, ResolveReadConflicts,
     ResolveReject, WithdrawCommit, LeadInsert, LeadEditSave, LeadStatusSave, ConvertLockLead,
     ConvertCheck, UnitEditSave, ClientEditSave
<1>12. ASSUME Surroundings
       PROVE  \E c \in BookingIds : DuplicateWindowCloses(c)
  BY <1>5, <1>12 DEF Surroundings, NextDay, AdminBlockDelete, DeleteUnit, DeleteClient
<1>13. ASSUME NEW w \in Workers, Proceed(w) \/ Abort(w)
       PROVE  ConfirmCommit(w) /\ b \in TrackedBookings(w)
  <2>1. pc[w] = "apply" => ask[w].to # "Confirmed"
    BY DEF GuestInv, RowInv, Plans, Plan
  <2>2. ~ApplyTransition(w)
    BY <1>6, <2>1 DEF ApplyTransition
  <2>3. ~SaveStatus(w, "Completed") /\ ~SaveStatus(w, "NotRelevant")
    <3>1. "Completed" # "Confirmed" /\ "NotRelevant" # "Confirmed"
      OBVIOUS
    <3> QED BY <1>6, <3>1
  <2>4. ConfirmCommit(w)
    BY <1>7, <1>8, <1>11, <1>13, <2>2, <2>3 DEF SweepCommit, ResolveApprove
  <2> QED BY <1>6, <2>4 DEF ConfirmCommit
<1> QED BY <1>9, <1>10, <1>12, <1>13 DEF Next, Confirming, ConfirmCommit

\* Nights of a stay and of a closure, and what they have in common.
StayNights(s) == s.from .. s.to - 1
ClosedNights(k) == k.from .. k.to

LEMMA NightsApart ==
  /\ \A s \in Stays : StayNights(s) \in SUBSET Days
  /\ \A k \in Ranges : ClosedNights(k) \in SUBSET Days
  /\ \A s, t \in Stays : ~StaysOverlap(s, t) => StayNights(s) \cap StayNights(t) = {}
  /\ \A k \in Ranges, s \in Stays :
       ~BlockMeetsStay(k, s) => ClosedNights(k) \cap StayNights(s) = {}
  /\ \A j, k \in Ranges : ~RangesOverlap(j, k) => ClosedNights(j) \cap ClosedNights(k) = {}
BY HorizonAssumption DEF Stays, Ranges, Days, StayNights, ClosedNights, StaysOverlap,
   BlockMeetsStay,
   RangesOverlap

\* What holder h promises.
Promised(h, u, N) == [holder : {h}, unit : {u}, night : N]

GuestClaims(b) ==
  IF b \in BookingRows /\ Guaranteed(b)
  THEN Promised(b, bookings[b].unit, StayNights(bookings[b].stay)) ELSE {}

OwnerClaims(x) ==
  IF Owned(x) THEN Promised(x, blocks[x].unit, ClosedNights(blocks[x].range)) ELSE {}

Claims == GuestNights \cup OwnerNights

LEMMA ClaimsByHolder ==
  /\ Claims = (UNION {GuestClaims(b) : b \in BookingIds}) \cup (UNION {OwnerClaims(x) : x \in BlockIds})
  /\ Claims' = (UNION {GuestClaims(b)' : b \in BookingIds})
                  \cup (UNION {OwnerClaims(x)' : x \in BlockIds})
  /\ \A b : \A c \in GuestClaims(b) : c.holder = b
  /\ \A x : \A c \in OwnerClaims(x) : c.holder = x
<1> USE DEF Claims, GuestNights, OwnerNights, GuestClaims, OwnerClaims, Promised, StayNights,
            ClosedNights, Owned, BookingRows
<1>1. Claims = (UNION {GuestClaims(b) : b \in BookingIds}) \cup (UNION {OwnerClaims(x) : x \in BlockIds})
  OBVIOUS
<1>2. Claims' = (UNION {GuestClaims(b)' : b \in BookingIds})
                  \cup (UNION {OwnerClaims(x)' : x \in BlockIds})
  OBVIOUS
<1>3. /\ \A b : \A c \in GuestClaims(b) : c.holder = b
      /\ \A x : \A c \in OwnerClaims(x) : c.holder = x
  OBVIOUS
<1> QED BY <1>1, <1>2, <1>3

\* A step after which every holder keeps its nights or has none is a release.
LEMMA Releases ==
  ASSUME \A b \in BookingIds : GuestClaims(b)' \in {{}, GuestClaims(b)},
         \A x \in BlockIds : OwnerClaims(x)' \in {{}, OwnerClaims(x)}
  PROVE  Promises!Next
<1> DEFINE H == {b \in BookingIds : GuestClaims(b)' = {}} \cup {x \in BlockIds : OwnerClaims(x)' = {}}
<1>1. ASSUME NEW c \in Claims'
      PROVE  c \in Claims /\ c.holder \notin H
  <2>1. CASE \E b \in BookingIds : c \in GuestClaims(b)'
    BY <2>1, ClaimsByHolder, KeysAssumption
  <2>2. CASE \E x \in BlockIds : c \in OwnerClaims(x)'
    BY <2>2, ClaimsByHolder, KeysAssumption
  <2> QED BY <2>1, <2>2, ClaimsByHolder
<1>2. ASSUME NEW c \in Claims, c.holder \notin H
      PROVE  c \in Claims'
  <2>1. CASE \E b \in BookingIds : c \in GuestClaims(b)
    BY <1>2, <2>1, ClaimsByHolder
  <2>2. CASE \E x \in BlockIds : c \in OwnerClaims(x)
    BY <1>2, <2>2, ClaimsByHolder
  <2> QED BY <2>1, <2>2, ClaimsByHolder
<1>3. Promises!Release(H)
  BY <1>1, <1>2 DEF Promises!Release, Claims
<1>4. H \in SUBSET (BookingIds \cup BlockIds)
  OBVIOUS
<1> QED BY <1>3, <1>4 DEF Promises!Next

\* A step that gives one holder free nights, and changes nothing else.
LEMMA Claimed ==
  ASSUME NEW h \in BookingIds \cup BlockIds, NEW u \in Units, NEW N \in SUBSET Days,
         \A c \in Claims : c.holder # h /\ (c.unit = u => c.night \notin N),
         Claims' = Claims \cup Promised(h, u, N)
  PROVE  Promises!Next
<1>1. N \cap Promises!Taken(u) = {}
  BY DEF Promises!Taken, Claims
<1>2. Promises!Claim(h, u, N)
  BY <1>1 DEF Promises!Claim, Claims, Promised
<1> QED BY <1>2 DEF Promises!Next

\* With nothing deleted, what a guest is promised depends on the booking only.
LEMMA GuestUnmoved ==
  ASSUME TypeOK, TypeOK', NoDeletions, NoDeletions', NEW b \in BookingIds, bookings'[b] = bookings[b]
  PROVE  GuestClaims(b)' = GuestClaims(b)
<1>1. (b \in BookingRows /\ Guaranteed(b))' <=> b \in BookingRows /\ Guaranteed(b)
  BY DEF BookingRows, Guaranteed, IsLive, NoDeletions, TypeOK, TablesOK, BookingRow
<1> QED BY <1>1 DEF GuestClaims

\* A confirmation gives its guest nights of the unit that were free.
LEMMA GuestClaimStep ==
  ASSUME ClaimInv, ClaimInv', Next, NEW w \in Workers, NEW b \in BookingIds, Confirming(w, b),
         ConfirmCommit(w), bookings'[b] # None, Secured(b)', ~Secured(b)
  PROVE  Promises!Next
<1> DEFINE u == bookings[b].unit  s == bookings[b].stay  N == StayNights(s)
<1>1. /\ TypeOK /\ NoDeletions /\ TypeOK' /\ NoDeletions' /\ GuestInv
  BY DEF ClaimInv, FirmInv, GuestInv, RowInv, TypeInv
<1>2. /\ bookings[b] # None /\ bookings'[b].unit = u /\ bookings'[b].stay = s
      /\ u \in Units /\ s \in Stays
  BY <1>1, NewlySecured DEF TypeOK, TablesOK, BookingRow
<1>3. /\ ask[w].unit = u /\ Row(w, b).stay = s /\ \A d \in TrackedBookings(w) : d = b
  BY <1>1, ConfirmingUnit, MatchedSnapshot DEF Confirming, ConfirmCommit, SaveStatus, GuestInv
<1>4. \A d \in BookingIds \ {b} : GuestClaims(d)' = GuestClaims(d)
  <2>1. \A d \in BookingIds \ {b} : bookings'[d] = bookings[d]
    BY <1>3 DEF ConfirmCommit, SaveStatus
  <2> QED BY <1>1, <2>1, GuestUnmoved
<1>5. GuestClaims(b) = {} /\ GuestClaims(b)' = Promised(b, u, N)
  <2>1. ~(b \in BookingRows /\ Guaranteed(b)) /\ (b \in BookingRows /\ Guaranteed(b))'
    BY DEF Guaranteed, IsLive, Secured, BookingRows, ClaimInv, NoDeletions, FirmInv, GuestInv,
       RowInv,
       TypeInv, TypeOK, TablesOK, BookingRow
  <2> QED BY <1>2, <2>1 DEF GuestClaims
<1>6. \A x \in BlockIds : OwnerClaims(x)' = OwnerClaims(x)
  BY DEF ConfirmCommit, OwnerClaims, Owned
<1>7. Claims' = Claims \cup Promised(b, u, N)
  BY <1>4, <1>5, <1>6, ClaimsByHolder
<1>8. ASSUME NEW d \in BookingIds, NEW c \in GuestClaims(d)
      PROVE  c.holder # b /\ (c.unit = u => c.night \notin N)
  <2>1. d # b /\ d \in BookingRows /\ Secured(d) /\ c.holder = d
        /\ c.unit = bookings[d].unit /\ c.night \in StayNights(bookings[d].stay)
    BY <1>5, <1>8 DEF GuestClaims, Promised, Guaranteed, IsLive, Secured
  <2>2. c.unit = u => ~StaysOverlap(s, bookings[d].stay)
    BY <1>3, <2>1 DEF ClaimInv, FirmInv, GuestInv, Checked, CheckedFor, Confirming
  <2>3. bookings[d].stay \in Stays
    BY <1>1, <2>1 DEF BookingRows, TypeOK, TablesOK, BookingRow
  <2> QED BY <1>2, <2>1, <2>2, <2>3, NightsApart
<1>9. ASSUME NEW x \in BlockIds, NEW c \in OwnerClaims(x)
      PROVE  c.holder # b /\ (c.unit = u => c.night \notin N)
  <2>1. Owned(x) /\ c.holder = x /\ c.unit = blocks[x].unit /\ c.night \in ClosedNights(blocks[x].range)
    BY <1>9 DEF OwnerClaims, Promised
  <2>2. c.unit = u => ~BlockMeetsStay(blocks[x].range, s)
    BY <1>2, <1>3, <2>1 DEF ClaimInv, FirmInv, StaysClear, Staying, Confirming, ClearOfClosures
  <2>3. blocks[x].range \in Ranges
    BY <2>1, OwnedTyped DEF ClaimInv, FirmInv, OwnerInv
  <2> QED BY <1>2, <2>1, <2>2, <2>3, NightsApart, KeysAssumption
<1>10. N \in SUBSET Days
  BY <1>2, NightsApart
<1> QED BY <1>2, <1>7, <1>8, <1>9, <1>10, ClaimsByHolder, Claimed

\* A new closure gives the owner nights of the unit that were free.
LEMMA OwnerClaimStep ==
  ASSUME ClaimInv, ClaimInv', Next, NEW w \in Workers, NEW x \in BlockIds, Closed(w, x),
         Owned(x)', ~Owned(x)
  PROVE  Promises!Next
<1> DEFINE u == ask[w].unit  k == blocks'[x].range  N == ClosedNights(k)
<1>1. /\ TypeOK /\ NoDeletions /\ TypeOK' /\ NoDeletions'
  BY DEF ClaimInv, FirmInv, GuestInv, RowInv, TypeInv
<1>2. /\ u \in Units /\ k \in Ranges /\ blocks'[x].unit = u /\ Closing(w, x, k)
  BY DEF Closed
<1>3. \A b \in BookingIds : GuestClaims(b)' = GuestClaims(b)
  <2> SUFFICES ASSUME NEW b \in BookingIds PROVE GuestClaims(b)' = GuestClaims(b)
    OBVIOUS
  <2>1. CASE bookings'[b] = bookings[b]
    BY <1>1, <2>1, GuestUnmoved
  <2>2. CASE bookings[b].status \in SoftHoldStatuses /\ bookings'[b].status = "NotRelevant"
    BY <2>2 DEF GuestClaims, Guaranteed, SoftHoldStatuses
  <2> QED BY <2>1, <2>2 DEF Closed
<1>4. /\ \A y \in BlockIds \ {x} : OwnerClaims(y)' = OwnerClaims(y)
      /\ OwnerClaims(x) = {} /\ OwnerClaims(x)' = Promised(x, u, N)
  BY <1>2 DEF OwnerClaims, Owned, Closed
<1>5. Claims' = Claims \cup Promised(x, u, N)
  BY <1>3, <1>4, ClaimsByHolder
<1>6. ASSUME NEW b \in BookingIds, NEW c \in GuestClaims(b)
      PROVE  c.holder # x /\ (c.unit = u => c.night \notin N)
  <2>1. /\ b \in BookingRows /\ Firm(b) /\ c.holder = b
        /\ c.unit = bookings[b].unit /\ c.night \in StayNights(bookings[b].stay)
    BY <1>6 DEF GuestClaims, Promised, Guaranteed, IsLive, Firm, Secured
  <2>2. c.unit = u => ~BlockMeetsStay(k, bookings[b].stay)
    BY <1>2, <2>1 DEF ClaimInv, FirmInv, ClosuresClearOfFirm, ClearOfFirm
  <2>3. bookings[b].stay \in Stays
    BY <1>1, <2>1 DEF BookingRows, TypeOK, TablesOK, BookingRow
  <2> QED BY <1>2, <2>1, <2>2, <2>3, NightsApart, KeysAssumption
<1>7. ASSUME NEW y \in BlockIds, NEW c \in OwnerClaims(y)
      PROVE  c.holder # x /\ (c.unit = u => c.night \notin N)
  <2>1. y # x /\ Owned(y) /\ c.holder = y /\ c.unit = blocks[y].unit
        /\ c.night \in ClosedNights(blocks[y].range)
    BY <1>4, <1>7 DEF OwnerClaims, Promised
  <2>2. c.unit = u => ~RangesOverlap(k, blocks[y].range)
    BY <1>2, <2>1 DEF ClaimInv, FirmInv, OwnerInv, ClosuresClear, ClearOfOwned
  <2>3. blocks[y].range \in Ranges
    BY <2>1, OwnedTyped DEF ClaimInv, FirmInv, OwnerInv
  <2> QED BY <1>2, <2>1, <2>2, <2>3, NightsApart
<1>8. N \in SUBSET Days
  BY <1>2, NightsApart
<1> QED BY <1>2, <1>5, <1>6, <1>7, <1>8, ClaimsByHolder, Claimed

\* Every other step leaves the nights with their holder or gives up all of them.
LEMMA OtherStep ==
  ASSUME ClaimInv, ClaimInv', Next,
         \A b \in BookingIds : bookings'[b] # None /\ Secured(b)' => Secured(b),
         \A x \in BlockIds : Owned(x)' => Owned(x)
  PROVE  Promises!Next
<1>1. TypeOK /\ NoDeletions /\ TypeOK' /\ NoDeletions' /\ GuestInv
  BY DEF ClaimInv, FirmInv, GuestInv, RowInv, TypeInv
<1>2. ASSUME NEW b \in BookingIds
      PROVE  GuestClaims(b)' \in {{}, GuestClaims(b)}
  <2>1. CASE (b \in BookingRows /\ Guaranteed(b))'
    <3>1. bookings'[b] # None /\ Secured(b)'
      BY <2>1 DEF BookingRows, Guaranteed, IsLive, Secured
    <3>2. /\ bookings[b] # None /\ Secured(b)
          /\ bookings'[b].unit = bookings[b].unit /\ bookings'[b].stay = bookings[b].stay
      BY <1>1, <3>1, NewlySecured
    <3>3. b \in BookingRows /\ Guaranteed(b)
      BY <1>1, <3>2 DEF BookingRows, Guaranteed, IsLive, Secured, NoDeletions, TypeOK, TablesOK,
         BookingRow
    <3> QED BY <2>1, <3>2, <3>3 DEF GuestClaims
  <2>2. CASE ~(b \in BookingRows /\ Guaranteed(b))'
    BY <2>2 DEF GuestClaims
  <2> QED BY <2>1, <2>2
<1>3. ASSUME NEW x \in BlockIds
      PROVE  OwnerClaims(x)' \in {{}, OwnerClaims(x)}
  <2>1. ASSUME Owned(x)'
        PROVE  blocks'[x].unit = blocks[x].unit /\ blocks'[x].range = blocks[x].range
    <3>1. ASSUME NEW w \in Workers, Closed(w, x)
          PROVE  blocks'[x].unit = blocks[x].unit /\ blocks'[x].range = blocks[x].range
      <4>1. Owned(x) /\ blocks[x] # None
        BY <2>1 DEF Owned
      <4>2. /\ pc[w] \in ResolveSteps /\ x \in TrackedBlocks(w)
            /\ blocks'[x].range = Seen(w, x).range /\ blocks'[x].unit = ask[w].unit
        BY <3>1, <4>1 DEF Closed, Closing, Placing, IsUnusedBlock
      <4>3. Seen(w, x).unit = ask[w].unit
        BY <4>2 DEF ClaimInv, FirmInv, OwnerInv, OneBlockEach, ReadsOneBlock
      <4>4. blocks[x].unit = Seen(w, x).unit /\ blocks[x].range = Seen(w, x).range
        BY <4>1, <4>2 DEF ClaimInv, SeenUnits, SeenClosures
      <4> QED BY <4>2, <4>3, <4>4
    <3> QED BY <2>1, <3>1, NewlyOwned DEF KeptOwned, ClaimInv, FirmInv, OwnerInv
  <2>2. CASE Owned(x)'
    <3>1. Owned(x)
      BY <2>2
    <3> QED BY <2>1, <2>2, <3>1 DEF OwnerClaims
  <2>3. CASE ~Owned(x)'
    BY <2>3 DEF OwnerClaims
  <2> QED BY <2>2, <2>3
<1> QED BY <1>2, <1>3, Releases

LEMMA ClaimInvInit == Init => ClaimInv
BY FirmInvInit DEF Init, Quiet, ClaimInv, NoDeletions, SeenUnits, SeenClosures, TrackedBlocks,
   Untracked

LEMMA ClaimInvStep ==
  ASSUME "profiles" \notin Traffic, "accounts" \notin Traffic
  PROVE  ClaimInv /\ [Next]_vars => ClaimInv'
<1> SUFFICES ASSUME ClaimInv, [Next]_vars PROVE ClaimInv'
  OBVIOUS
<1>1. FirmInv'
  BY FirmInvStep DEF ClaimInv
<1>2. CASE Next
  BY <1>1, <1>2, NoDeletionsStep, SeenUnitsStep, SeenClosuresStep DEF ClaimInv, FirmInv, OwnerInv
<1>3. CASE UNCHANGED vars
  BY <1>1, <1>3 DEF vars, tables, locks, session, ClaimInv, NoDeletions, SeenUnits, SeenClosures,
     TrackedBlocks, Seen, Owned
<1> QED BY <1>2, <1>3

\* The detailed services implement the abstract claims: while no account is
\* deleted, every step of theirs claims free nights for one guest or for the
\* owner, gives up all nights of some holders, or changes no promise.
THEOREM PromisesImplemented ==
  ASSUME "profiles" \notin Traffic, "accounts" \notin Traffic
  PROVE  Spec => NightsPromisedOnce
<1>1. Init => Promises!Init
  BY DEF Init, Quiet, Promises!Init, GuestNights, OwnerNights, BookingRows
<1>2. ClaimInv /\ ClaimInv' /\ [Next]_vars => [Promises!Next]_(GuestNights \cup OwnerNights)
  <2> SUFFICES ASSUME ClaimInv, ClaimInv', [Next]_vars
               PROVE  Promises!Next \/ UNCHANGED (GuestNights \cup OwnerNights)
    OBVIOUS
  <2>1. ASSUME Next, NEW b \in BookingIds, bookings'[b] # None, Secured(b)', ~Secured(b)
        PROVE  Promises!Next
    BY <2>1, ConfirmedBy, GuestClaimStep DEF ClaimInv, FirmInv
  <2>2. ASSUME Next, NEW x \in BlockIds, Owned(x)', ~Owned(x)
        PROVE  Promises!Next
    BY <2>2, NewlyOwned, OwnerClaimStep DEF KeptOwned, ClaimInv, FirmInv, OwnerInv
  <2>3. CASE Next
    BY <2>1, <2>2, <2>3, OtherStep
  <2>4. CASE UNCHANGED vars
    BY <2>4 DEF vars, tables, GuestNights, OwnerNights, BookingRows, Guaranteed, IsLive
  <2> QED BY <2>3, <2>4
<1> QED BY <1>1, <1>2, ClaimInvInit, ClaimInvStep, PTL DEF Spec, NightsPromisedOnce, Promises!Spec

-----------------------------------------------------------------------------
(* Leads *)

EditSteps == {"lead_edit", "lead_status"}
BookSteps == {"convert_locked", "convert"}

\* The leads are in the pipeline already; nothing is booked yet.
LeadStart ==
  /\ Quiet
  /\ bookings = [b \in BookingIds |-> None]
  /\ history = [b \in BookingIds |-> <<>>]
  /\ blocks = [x \in BlockIds |-> None]
  /\ leads \in [LeadIds -> LeadRow \cup {None}]

LeadSpec == LeadStart /\ [][Next]_vars

\* Requests are served one at a time.
OneAtATime == \A v, w \in Workers : v = w

\* Leads are not written without a lock.
LeadsLeftAlone == Traffic \cap {"lead", "leadedit"} = {}

\* A lead that was booked for is out of the pipeline.
BookedLeadsSettled ==
  \A b \in BookingRows :
    bookings[b].origin \in LeadIds =>
      leads[bookings[b].origin] # None /\ leads[bookings[b].origin].status \in Settled

\* A conversion past its read holds the lead's lock, and nothing has been booked for the lead.
LeadHeld(w) ==
  pc[w] \in BookSteps =>
    /\ leadLock[ask[w].origin] = w
    /\ \A b \in BookingRows : bookings[b].origin # ask[w].origin

\* What an edit of a lead is about to write back is still the lead.
EditCurrent(w) ==
  /\ pc[w] \in EditSteps => \A l \in TrackedLeads(w) : tracked[w].leads[l] = leads[l]
  /\ pc[w] = "lead_status" => \A l \in TrackedLeads(w) : LeadMayMove(leads[l].status, ask[w].to)

LeadSessions(w) ==
  /\ LeadHeld(w) /\ EditCurrent(w)
  /\ LeadsLeftAlone => pc[w] \notin EditSteps
  /\ pc[w] = "idle" => TrackedLeads(w) = {}

LeadInv == RowInv /\ LeadsApart /\ BookedLeadsSettled /\ \A w \in Workers : LeadSessions(w)

LEMMA LeadStartTyped == LeadStart => TypeInv
<1> SUFFICES ASSUME LeadStart PROVE TypeInv
  OBVIOUS
<1>1. TablesOK
  BY HorizonAssumption DEF LeadStart, Quiet, TablesOK, Days
<1>2. LocksOK
  BY DEF LeadStart, Quiet, LocksOK
<1>3. SessionOK
  BY NoAskTyped, UntrackedTyped DEF LeadStart, Quiet, SessionOK, Steps
<1>4. AskFits
  BY IdleFits DEF LeadStart, Quiet, AskFits
<1>5. ConvertedExists
  BY DEF LeadStart, Quiet, ConvertedExists, ConvertSteps
<1> QED BY <1>1, <1>2, <1>3, <1>4, <1>5 DEF TypeInv, TypeOK

LEMMA LeadInvInit == LeadStart => LeadInv
<1> SUFFICES ASSUME LeadStart PROVE LeadInv
  OBVIOUS
<1>1. RowInv
  BY LeadStartTyped DEF LeadStart, Quiet, RowInv, Snapshots, Plans, Plan, TrackedBookings,
     Untracked,
     ConfirmSteps
<1>2. LeadsApart /\ BookedLeadsSettled
  BY DEF LeadStart, Quiet, LeadsApart, BookedLeadsSettled, BookingRows
<1>3. \A w \in Workers : LeadSessions(w)
  BY DEF LeadStart, Quiet, LeadSessions, LeadHeld, EditCurrent, BookSteps, EditSteps, TrackedLeads,
     Untracked
<1> QED BY <1>1, <1>2, <1>3 DEF LeadInv

LEMMA LeadWriters ==
  ASSUME Next, leads' # leads
  PROVE  \E w \in Workers :
           \/ LeadEditSave(w) \/ LeadStatusSave(w) \/ ResolveApprove(w)
           \/ \E l \in LeadIds : LeadInsert(w, l)
           \/ \E b \in BookingIds : ConvertCommit(w, b)
<1>1. ASSUME NEW w \in Workers, Request(w)
      PROVE  FALSE
  BY <1>1 DEF Request, tables, CreateCheck, QuickLock, UpdateRead, TransitionRead, SweepRead,
     AdminBlockCheck, AdminBlockEditRead, OwnerBlockLock, ResolveLock, WithdrawLock,
     LeadCreateCheck, LeadStatusRead, LeadEditRead, ConvertLockUnit, UnitEditRead, ClientEditRead
<1>2. ASSUME NEW w \in Workers, Proceed(w) \/ Abort(w)
      PROVE  \/ LeadEditSave(w) \/ LeadStatusSave(w) \/ ResolveApprove(w)
             \/ \E l \in LeadIds : LeadInsert(w, l)
             \/ \E b \in BookingIds : ConvertCommit(w, b)
  BY <1>2 DEF Abort, Proceed, tables, QuickReturnDuplicate, QuickCheck, InsertBooking, UpdateSave,
     ApplyTransition, ConfirmLock, ConfirmCheck, ConfirmCommit, SweepCommit, InsertBlock,
     AdminBlockEditSave, OwnerBlockCheck, ResolveReadConflicts, ResolveReject, WithdrawCommit,
     ConvertLockLead, ConvertCheck, UnitEditSave, ClientEditSave
<1>3. ~Surroundings
  BY DEF Surroundings, NextDay, DuplicateWindowCloses, AdminBlockDelete, DeleteUnit, DeleteClient
<1> QED BY <1>1, <1>2, <1>3 DEF Next

\* How a step changes a lead: it keeps its status, or a status change, a
\* drop or a conversion moves it.
MovedByHand(w, l) ==
  pc[w] = "lead_status" /\ LeadMayMove(leads[l].status, leads'[l].status)

DroppedBy(w, l) ==
  pc[w] = "resolve_approve" /\ l \in TrackedLeads(w) /\ leads'[l].status = "NotRelevant"

ConvertedBy(w, l) == pc[w] = "convert" /\ l = ask[w].origin /\ leads'[l].status = "Completed"

LEMMA LeadChange ==
  ASSUME LeadInv, Next, NEW l \in LeadIds, leads[l] # None
  PROVE  /\ leads'[l] # None
         /\ \/ leads'[l].status = leads[l].status
            \/ \E w \in Workers : MovedByHand(w, l) \/ DroppedBy(w, l) \/ ConvertedBy(w, l)
<1> USE DEF MovedByHand, DroppedBy, ConvertedBy
<1>0. /\ leads \in [LeadIds -> LeadRow \cup {None}] /\ leads[l] \in LeadRow
      /\ SessionOK /\ TypeInv
  BY DEF LeadInv, RowInv, TypeInv, TypeOK, TablesOK
<1>1. leads'[l] # None
  BY <1>0, LeadsStay DEF LeadsKept
<1>2. ASSUME NEW w \in Workers, LeadEditSave(w)
      PROVE  leads'[l].status = leads[l].status
  <2>1. CASE l \in TrackedLeads(w)
    <3>1. tracked[w].leads[l] \in LeadRow /\ tracked[w].leads[l] = leads[l]
      BY <1>0, <1>2, <2>1, TrackedTyped
         DEF LeadEditSave, LeadInv, LeadSessions, EditCurrent, EditSteps
    <3>2. leads'[l] = [tracked[w].leads[l] EXCEPT !.unit = ask[w].unit, !.client = ask[w].client,
                                                  !.stay = ask[w].stay]
      BY <1>2, <2>1 DEF LeadEditSave
    <3> QED BY <3>1, <3>2 DEF LeadRow
  <2>2. CASE l \notin TrackedLeads(w)
    BY <1>2, <2>2 DEF LeadEditSave
  <2> QED BY <2>1, <2>2
<1>3. ASSUME NEW w \in Workers, LeadStatusSave(w)
      PROVE  leads'[l].status = leads[l].status \/ MovedByHand(w, l)
  <2>1. CASE l \in TrackedLeads(w)
    <3>1. tracked[w].leads[l] \in LeadRow /\ LeadMayMove(leads[l].status, ask[w].to)
      BY <1>0, <1>3, <2>1, TrackedTyped
         DEF LeadStatusSave, LeadInv, LeadSessions, EditCurrent, EditSteps
    <3>2. leads'[l] = [tracked[w].leads[l] EXCEPT !.status = ask[w].to]
      BY <1>3, <2>1 DEF LeadStatusSave
    <3>3. leads'[l].status = ask[w].to
      BY <3>1, <3>2 DEF LeadRow
    <3> QED BY <1>3, <3>1, <3>3 DEF LeadStatusSave
  <2>2. CASE l \notin TrackedLeads(w)
    BY <1>3, <2>2 DEF LeadStatusSave
  <2> QED BY <2>1, <2>2
<1>4. ASSUME NEW w \in Workers, ResolveApprove(w)
      PROVE  leads'[l].status = leads[l].status \/ DroppedBy(w, l)
  <2>1. CASE l \in TrackedLeads(w)
    <3>1. tracked[w].leads[l] \in LeadRow
      BY <1>0, <2>1, TrackedTyped
    <3>2. leads'[l] = [tracked[w].leads[l] EXCEPT !.status = "NotRelevant"]
      BY <1>4, <2>1 DEF ResolveApprove
    <3>3. leads'[l].status = "NotRelevant"
      BY <3>1, <3>2 DEF LeadRow
    <3> QED BY <1>4, <2>1, <3>3 DEF ResolveApprove
  <2>2. CASE l \notin TrackedLeads(w)
    BY <1>4, <2>2 DEF ResolveApprove
  <2> QED BY <2>1, <2>2
<1>5. ASSUME NEW w \in Workers, NEW k \in LeadIds, LeadInsert(w, k)
      PROVE  leads'[l] = leads[l]
  BY <1>0, <1>5 DEF LeadInsert
<1>6. ASSUME NEW w \in Workers, NEW b \in BookingIds, ConvertCommit(w, b)
      PROVE  leads'[l].status = leads[l].status \/ ConvertedBy(w, l)
  <2>1. CASE l = ask[w].origin
    <3>1. PICK c, u : leads' = [leads EXCEPT ![l].status = "Completed", ![l].client = c, ![l].unit = u]
      <4> DEFINE c == IF tracked[w].leads[l].client = None THEN ask[w].client ELSE leads[l].client
                 u == IF tracked[w].leads[l].unit = None THEN ask[w].unit ELSE leads[l].unit
      <4>1. leads' = [leads EXCEPT ![l].status = "Completed", ![l].client = c, ![l].unit = u]
        BY <1>0, <1>6, <2>1 DEF ConvertCommit, LeadRow
      <4> QED BY <4>1
    <3>2. leads'[l].status = "Completed"
      BY <1>0, <3>1 DEF LeadRow
    <3> QED BY <1>6, <2>1, <3>2 DEF ConvertCommit
  <2>2. CASE l # ask[w].origin
    BY <1>0, <1>6, <2>2 DEF ConvertCommit
  <2> QED BY <2>1, <2>2
<1> QED BY <1>1, <1>2, <1>3, <1>4, <1>5, <1>6, LeadWriters

\* A settled lead is not moved, or moved to a settled status.
LEMMA SettledStays ==
  ASSUME LeadInv, Next, NEW l \in LeadIds, leads[l] # None, leads[l].status \in Settled
  PROVE  leads'[l] # None /\ leads'[l].status \in Settled
<1>1. ASSUME LeadMayMove(leads[l].status, leads'[l].status)
      PROVE  leads'[l].status = leads[l].status
  BY <1>1 DEF LeadMayMove, LeadTransitions, Settled, BookingStatus
<1> QED BY <1>1, LeadChange DEF MovedByHand, DroppedBy, ConvertedBy, Settled

\* A booking for a lead is made by a conversion of it, which settles it.
LEMMA BookedForLead ==
  ASSUME LeadInv, Next, NEW b \in BookingIds, bookings'[b] # None, bookings'[b].origin \in LeadIds
  PROVE  \/ bookings[b] # None /\ bookings'[b].origin = bookings[b].origin
         \/ \E w \in Workers :
              /\ pc[w] = "convert" /\ pc'[w] = "idle" /\ bookings'[b].origin = ask[w].origin
              /\ \A c \in BookingIds \ {b} : bookings'[c] = bookings[c]
              /\ leads'[ask[w].origin].status = "Completed"
<1>1. CASE bookings[b] # None
  <2>1. bookings'[b].origin = bookings[b].origin
    BY <1>1, RowChanges DEF LeadInv, RowChange, Absent, Inserted, Untouched, Edited, Moved, Keeps
  <2> QED BY <1>1, <2>1
<1>2. CASE bookings[b] = None
  <2>1. PICK w \in Workers : InsertBooking(w, b) \/ ConvertCommit(w, b)
    BY <1>2, Inserting DEF LeadInv
  <2> DEFINE new == [unit |-> ask[w].unit, client |-> ask[w].client, stay |-> ask[w].stay,
                     status |-> IF pc[w] = "insert" THEN "Prospecting" ELSE "Booked",
                     version |-> 1, fresh |-> TRUE, origin |-> ask[w].origin]
  <2>2. bookings' = [bookings EXCEPT ![b] = new] /\ new.origin = ask[w].origin
    BY <2>1 DEF InsertBooking, ConvertCommit, AddBooking
  <2> HIDE DEF new
  <2>3. /\ bookings'[b].origin = ask[w].origin
        /\ \A c \in BookingIds \ {b} : bookings'[c] = bookings[c]
    BY <2>2 DEF LeadInv, RowInv, TypeInv, TypeOK, TablesOK
  <2>4. ConvertCommit(w, b)
    BY <2>1, <2>3 DEF InsertBooking, LeadInv, LeadsApart
  <2>5. pc[w] = "convert" /\ pc'[w] = "idle"
    BY <2>4, FinishLocks DEF ConvertCommit, LeadInv
  <2>6. leads'[ask[w].origin].status = "Completed"
    <3> DEFINE l == ask[w].origin
    <3>1. l \in LeadIds /\ leads[l] \in LeadRow /\ leads \in [LeadIds -> LeadRow \cup {None}]
      BY <2>5 DEF LeadInv, RowInv, TypeInv, TypeOK, TablesOK, AskFits, Fits, ConvertSteps,
         ConvertedExists
    <3>2. PICK c, u : leads' = [leads EXCEPT ![l].status = "Completed", ![l].client = c,
                                             ![l].unit = u]
      <4> DEFINE c == IF tracked[w].leads[l].client = None THEN ask[w].client ELSE leads[l].client
                 u == IF tracked[w].leads[l].unit = None THEN ask[w].unit ELSE leads[l].unit
      <4>1. leads' = [leads EXCEPT ![l].status = "Completed", ![l].client = c, ![l].unit = u]
        BY <2>4, <3>1 DEF ConvertCommit, LeadRow
      <4> QED BY <4>1
    <3> QED BY <3>1, <3>2 DEF LeadRow
  <2> QED BY <2>3, <2>5, <2>6
<1> QED BY <1>1, <1>2

LEMMA BookedLeadsStep ==
  ASSUME LeadInv, Next
  PROVE  BookedLeadsSettled'
<1> SUFFICES ASSUME NEW b \in BookingIds, bookings'[b] # None, bookings'[b].origin \in LeadIds
             PROVE  /\ leads'[bookings'[b].origin] # None
                    /\ leads'[bookings'[b].origin].status \in Settled
  BY DEF BookedLeadsSettled, BookingRows
<1>1. CASE bookings[b] # None /\ bookings'[b].origin = bookings[b].origin
  BY <1>1, SettledStays DEF LeadInv, BookedLeadsSettled, BookingRows
<1>2. ASSUME NEW w \in Workers, pc[w] = "convert", bookings'[b].origin = ask[w].origin,
             leads'[ask[w].origin].status = "Completed"
      PROVE  /\ leads'[bookings'[b].origin] # None
             /\ leads'[bookings'[b].origin].status \in Settled
  <2>1. leads[ask[w].origin] # None
    BY <1>2 DEF LeadInv, RowInv, TypeInv, ConvertedExists, ConvertSteps
  <2> QED BY <1>2, <2>1, LeadChange DEF Settled
<1> QED BY <1>1, <1>2, BookedForLead

-----------------------------------------------------------------------------
(* The lock of a lead *)

LEMMA LeadLockKept ==
  ASSUME RowInv, NEW v \in Workers, NEW w \in Workers \ {v}, Request(w) \/ Proceed(w) \/ Abort(w),
         NEW l \in LeadIds, leadLock[l] = v
  PROVE  leadLock'[l] = v
<1>1. v # None /\ leadLock \in [LeadIds -> Workers \cup {None}]
  BY NoneAssumption DEF RowInv, TypeInv, TypeOK, LocksOK
<1>2. Finish(w) => leadLock'[l] = v
  BY <1>1 DEF Finish, Free
<1>3. ConvertLockLead(w) => leadLock'[l] = v
  BY <1>1 DEF ConvertLockLead
<1>4. Request(w) => leadLock' = leadLock
  BY DEF Request, locks, CreateCheck, QuickLock, UpdateRead, TransitionRead, SweepRead,
     AdminBlockCheck, AdminBlockEditRead, OwnerBlockLock, ResolveLock, WithdrawLock,
     LeadCreateCheck, LeadStatusRead, LeadEditRead, ConvertLockUnit, UnitEditRead, ClientEditRead
<1>5. ASSUME Proceed(w) \/ Abort(w)
      PROVE  leadLock' = leadLock \/ Finish(w) \/ ConvertLockLead(w)
  BY <1>5 DEF Abort, Proceed, locks, QuickReturnDuplicate, QuickCheck, InsertBooking, UpdateSave,
     ApplyTransition, ConfirmLock, ConfirmCheck, ConfirmCommit, SweepCommit, InsertBlock,
     AdminBlockEditSave, OwnerBlockCheck, ResolveReadConflicts, ResolveApprove, ResolveReject,
     WithdrawCommit, LeadInsert, LeadEditSave, LeadStatusSave, ConvertCheck, ConvertCommit,
     UnitEditSave, ClientEditSave
<1> QED BY <1>2, <1>3, <1>4, <1>5

\* How worker w comes to the steps that matter to leads.
LEMMA LeadStepsBegin ==
  ASSUME RowInv, NEW w \in Workers, Request(w) \/ Proceed(w) \/ Abort(w)
  PROVE  /\ pc'[w] \in BookSteps => ConvertLockLead(w) \/ ConvertCheck(w)
         /\ pc'[w] = "resolve_approve" => ResolveReadConflicts(w)
         /\ pc'[w] \in EditSteps =>
              \/ /\ "leadedit" \in Traffic
                 /\ \E l \in LeadIds, u \in Units \cup {None}, c \in Clients \cup {None},
                       s \in Stays \cup {None} : LeadEditRead(w, l, u, c, s)
              \/ /\ "lead" \in Traffic
                 /\ \E l \in LeadIds, to \in BookingStatus : LeadStatusRead(w, l, to)
         /\ pc'[w] = "idle" => Finish(w)
<1>1. \A step, args : Begin(w, step, args) => pc'[w] = step
  BY DEF Begin, RowInv, TypeInv, TypeOK, SessionOK
<1>2. \A from, to : Advance(w, from, to) => pc'[w] = to
  BY DEF Advance, RowInv, TypeInv, TypeOK, SessionOK
<1>3. Finish(w) => pc'[w] = "idle"
  BY FinishLocks
<1>4. ASSUME Request(w)
      PROVE  /\ pc'[w] \notin BookSteps \cup {"idle", "resolve_approve"}
             /\ pc'[w] \in EditSteps =>
                  \/ /\ "leadedit" \in Traffic
                     /\ \E l \in LeadIds, u \in Units \cup {None}, c \in Clients \cup {None},
                           s \in Stays \cup {None} : LeadEditRead(w, l, u, c, s)
                  \/ /\ "lead" \in Traffic
                     /\ \E l \in LeadIds, to \in BookingStatus : LeadStatusRead(w, l, to)
  BY <1>1, <1>4 DEF BookSteps, EditSteps, Request, CreateCheck, QuickLock, UpdateRead,
     TransitionRead, SweepRead, AdminBlockCheck, AdminBlockEditRead, OwnerBlockLock, ResolveLock,
     WithdrawLock, LeadCreateCheck, LeadStatusRead, LeadEditRead, ConvertLockUnit, UnitEditRead,
     ClientEditRead
<1>5. ASSUME Proceed(w) \/ Abort(w)
      PROVE  /\ pc'[w] \notin EditSteps
             /\ pc'[w] \in BookSteps => ConvertLockLead(w) \/ ConvertCheck(w)
             /\ pc'[w] = "resolve_approve" => ResolveReadConflicts(w)
             /\ pc'[w] = "idle" => Finish(w)
  BY <1>2, <1>3, <1>5 DEF BookSteps, EditSteps, Abort, Proceed, QuickReturnDuplicate, QuickCheck,
     InsertBooking, UpdateSave, ApplyTransition, ConfirmLock, ConfirmCheck, ConfirmCommit,
     SweepCommit, InsertBlock, AdminBlockEditSave, OwnerBlockCheck, ResolveReadConflicts,
     ResolveApprove, ResolveReject, WithdrawCommit, LeadInsert, LeadEditSave, LeadStatusSave,
     ConvertLockLead, ConvertCheck, ConvertCommit, UnitEditSave, ClientEditSave
<1> QED BY <1>4, <1>5

\* While a conversion is under way nobody else books for its lead.
LEMMA LeadHeldStep ==
  ASSUME LeadInv, Next, NEW v \in Workers
  PROVE  LeadHeld(v)'
<1> SUFFICES ASSUME pc'[v] \in BookSteps
             PROVE  /\ leadLock'[ask'[v].origin] = v
                    /\ \A b \in BookingIds :
                         bookings'[b] # None => bookings'[b].origin # ask'[v].origin
  BY DEF LeadHeld, BookingRows
<1>0. v # None /\ RowInv /\ RowInv'
  BY NoneAssumption, RowInvStep DEF LeadInv
<1>1. /\ leadLock'[ask'[v].origin] = v
      /\ ask'[v].origin = ask[v].origin
      /\ \A b \in BookingRows : bookings[b].origin # ask[v].origin
  <2>1. ASSUME UNCHANGED <<pc[v], ask[v]>>, leadLock[ask[v].origin] = v => leadLock'[ask[v].origin] = v
        PROVE  /\ leadLock'[ask'[v].origin] = v /\ ask'[v].origin = ask[v].origin
               /\ \A b \in BookingRows : bookings[b].origin # ask[v].origin
    BY <2>1 DEF LeadInv, LeadSessions, LeadHeld
  <2>2. ASSUME NEW w \in Workers \ {v}, Request(w) \/ Proceed(w) \/ Abort(w)
        PROVE  /\ UNCHANGED <<pc[v], ask[v]>>
               /\ leadLock[ask[v].origin] = v => leadLock'[ask[v].origin] = v
    <3>1. UNCHANGED <<pc[v], ask[v]>>
      BY <1>0, <2>2, RequestPlan, ProceedPlan DEF Frame
    <3>2. ask[v].origin \in LeadIds
      BY <3>1 DEF BookSteps, ConvertSteps, LeadInv, RowInv, TypeInv, AskFits, Fits
    <3> QED BY <1>0, <2>2, <3>1, <3>2, LeadLockKept
  <2>3. Surroundings => UNCHANGED <<pc[v], ask[v], leadLock>>
    BY DEF Surroundings, NextDay, DuplicateWindowCloses, AdminBlockDelete, DeleteUnit, DeleteClient,
       session, locks
  <2>4. ASSUME Request(v) \/ Proceed(v) \/ Abort(v)
        PROVE  /\ leadLock'[ask'[v].origin] = v /\ ask'[v].origin = ask[v].origin
               /\ \A b \in BookingRows : bookings[b].origin # ask[v].origin
    <3>1. CASE ConvertLockLead(v)
      <4>1. ask[v].origin \in LeadIds /\ leads[ask[v].origin].status = "Booked" /\ UNCHANGED ask
        BY <3>1 DEF ConvertLockLead, Advance, ConvertSteps, LeadInv, RowInv, TypeInv, AskFits, Fits
      <4>2. leadLock'[ask[v].origin] = v
        BY <3>1, <4>1 DEF ConvertLockLead, LeadInv, RowInv, TypeInv, TypeOK, LocksOK
      <4> QED BY <4>1, <4>2 DEF LeadInv, BookedLeadsSettled, Settled
    <3>2. CASE ConvertCheck(v)
      BY <2>1, <3>2 DEF ConvertCheck, Advance, BookSteps, locks, LeadInv, LeadSessions, LeadHeld
    <3> QED BY <1>0, <2>4, <3>1, <3>2, LeadStepsBegin
  <2> QED BY <2>1, <2>2, <2>3, <2>4 DEF Next
<1>2. ASSUME NEW b \in BookingIds, bookings'[b] # None, bookings'[b].origin = ask'[v].origin
      PROVE  FALSE
  <2>1. ask[v].origin \in LeadIds
    BY <1>0, <1>1 DEF RowInv, TypeInv, AskFits, Fits, BookSteps, ConvertSteps
  <2>2. PICK w \in Workers : pc[w] = "convert" /\ pc'[w] = "idle" /\ ask[w].origin = ask[v].origin
    BY <1>1, <1>2, <2>1, BookedForLead DEF BookingRows
  <2>3. w # v /\ leadLock[ask[v].origin] = w
    BY <2>2 DEF BookSteps, LeadInv, LeadSessions, LeadHeld
  <2>4. leadLock[ask[v].origin] = v
    <3>1. ASSUME NEW u \in Workers \ {v}, Request(u) \/ Proceed(u) \/ Abort(u)
          PROVE  leadLock[ask[v].origin] = v
      <4>1. pc[v] = pc'[v]
        BY <1>0, <3>1, RequestPlan, ProceedPlan DEF Frame
      <4> QED BY <4>1 DEF LeadInv, LeadSessions, LeadHeld
    <3>2. Surroundings => pc[v] = pc'[v]
      BY SurroundingsLocks
    <3>3. ~(Request(v) \/ Proceed(v) \/ Abort(v))
      <4>1. pc'[w] = pc[w] \/ ~(Request(v) \/ Proceed(v) \/ Abort(v))
        BY <1>0, <2>3, RequestPlan, ProceedPlan DEF Frame
      <4> QED BY <2>2, <4>1
    <3> QED BY <3>1, <3>2, <3>3 DEF Next, LeadInv, LeadSessions, LeadHeld
  <2> QED BY <2>3, <2>4
<1> QED BY <1>1, <1>2

\* What an edit of a lead has read stays the lead: either nobody edits leads,
\* or nobody else is being served.
LEMMA EditCurrentStep ==
  ASSUME LeadInv, Next, OneAtATime \/ LeadsLeftAlone, NEW v \in Workers
  PROVE  /\ EditCurrent(v)'
         /\ LeadsLeftAlone => pc'[v] \notin EditSteps
         /\ pc'[v] = "idle" => TrackedLeads(v)' = {}
<1>0. RowInv /\ LeadSessions(v)
  BY DEF LeadInv
<1>1. ASSUME UNCHANGED <<pc[v], ask[v], tracked[v]>>, LeadsLeftAlone \/ UNCHANGED leads
      PROVE  /\ EditCurrent(v)'
             /\ LeadsLeftAlone => pc'[v] \notin EditSteps
             /\ pc'[v] = "idle" => TrackedLeads(v)' = {}
  BY <1>0, <1>1 DEF LeadSessions, EditCurrent, TrackedLeads, EditSteps
<1>2. CASE Surroundings
  <2>1. UNCHANGED leads
    BY <1>2 DEF Surroundings, NextDay, DuplicateWindowCloses, AdminBlockDelete, DeleteUnit,
       DeleteClient
  <2> QED BY <1>1, <1>2, <2>1, SurroundingsLocks
<1>3. ASSUME NEW w \in Workers \ {v}, Request(w) \/ Proceed(w) \/ Abort(w)
      PROVE  UNCHANGED <<pc[v], ask[v], tracked[v]>> /\ LeadsLeftAlone
  BY <1>0, <1>3, RequestPlan, ProceedPlan DEF Frame, OneAtATime
<1>4. ASSUME Request(v) \/ Proceed(v) \/ Abort(v)
      PROVE  /\ EditCurrent(v)'
             /\ LeadsLeftAlone => pc'[v] \notin EditSteps
             /\ pc'[v] = "idle" => TrackedLeads(v)' = {}
  <2>1. CASE pc'[v] \notin EditSteps
    <3>1. ASSUME Finish(v)
          PROVE  TrackedLeads(v)' = {}
      BY <1>0, <3>1 DEF Finish, TrackedLeads, Untracked, RowInv, TypeInv, TypeOK, SessionOK
    <3> QED BY <1>0, <1>4, <2>1, <3>1, LeadStepsBegin DEF EditCurrent, EditSteps
  <2>2. ASSUME NEW l \in LeadIds, NEW step \in EditSteps, NEW args,
               Begin(v, step, args), TrackLead(v, l), UNCHANGED leads,
               step = "lead_status" => LeadMayMove(leads[l].status, args.to)
        PROVE  EditCurrent(v)' /\ pc'[v] # "idle"
    <3>1. pc[v] = "idle" /\ pc'[v] = step /\ ask'[v] = args
      BY <1>0, <2>2, Began
    <3>2. \A k \in LeadIds : tracked'[v].leads[k] = IF k = l THEN leads[l] ELSE tracked[v].leads[k]
      BY <2>2, <1>0 DEF TrackLead, RowInv, TypeInv, TypeOK, SessionOK, Tracker
    <3>3. TrackedLeads(v)' \subseteq {l}
      BY <1>0, <3>1, <3>2 DEF LeadSessions, TrackedLeads
    <3> QED BY <2>2, <3>1, <3>2, <3>3 DEF EditCurrent, EditSteps
  <2>3. ASSUME NEW l \in LeadIds, NEW u, NEW c, NEW s, LeadEditRead(v, l, u, c, s)
        PROVE  EditCurrent(v)' /\ pc'[v] # "idle"
    BY <2>2, <2>3 DEF LeadEditRead, tables, EditSteps
  <2>4. ASSUME NEW l \in LeadIds, NEW to, LeadStatusRead(v, l, to)
        PROVE  EditCurrent(v)' /\ pc'[v] # "idle"
    <3> DEFINE args == [NoAsk EXCEPT !.to = to]
    <3>1. args.to = to /\ Begin(v, "lead_status", args)
      BY <2>4 DEF LeadStatusRead, NoAsk
    <3> HIDE DEF args
    <3> QED BY <2>2, <2>4, <3>1 DEF LeadStatusRead, tables, EditSteps
  <2>5. CASE pc'[v] \in EditSteps
    BY <1>0, <1>4, <2>3, <2>4, <2>5, LeadStepsBegin DEF LeadsLeftAlone
  <2> QED BY <2>1, <2>5
<1> QED BY <1>1, <1>2, <1>3, <1>4 DEF Next

LEMMA LeadInvStep ==
  ASSUME OneAtATime \/ LeadsLeftAlone
  PROVE  LeadInv /\ [Next]_vars => LeadInv'
<1> SUFFICES ASSUME LeadInv, [Next]_vars PROVE LeadInv'
  OBVIOUS
<1>1. RowInv'
  BY RowInvStep DEF LeadInv
<1>2. CASE Next
  <2>1. LeadsApart' /\ BookedLeadsSettled'
    BY <1>2, LeadsApartStep, BookedLeadsStep DEF LeadInv
  <2>2. \A v \in Workers : LeadSessions(v)'
    BY <1>2, LeadHeldStep, EditCurrentStep DEF LeadSessions, LeadsLeftAlone
  <2> QED BY <1>1, <2>1, <2>2 DEF LeadInv
<1>3. CASE UNCHANGED vars
  BY <1>1, <1>3 DEF vars, tables, locks, session, LeadInv, LeadsApart, BookedLeadsSettled,
     BookingRows, LeadSessions, LeadHeld, EditCurrent, TrackedLeads, LeadsLeftAlone
<1> QED BY <1>2, <1>3

\* A step books for a lead that nothing was booked for.
LEMMA ConvertedOnceStep ==
  ASSUME LeadInv, LeadConvertedOnce, Next
  PROVE  LeadConvertedOnce'
<1> SUFFICES ASSUME NEW b \in BookingIds, NEW c \in BookingIds, b # c,
                    bookings'[b] # None, bookings'[c] # None,
                    bookings'[b].origin \in LeadIds, bookings'[c].origin = bookings'[b].origin
             PROVE  FALSE
  BY DEF LeadConvertedOnce, BookingRows
<1>1. ASSUME NEW x \in {b, c}, NEW y \in {b, c}, x # y, NEW w \in Workers, pc[w] = "convert",
             bookings'[x].origin = ask[w].origin,
             \A z \in BookingIds \ {x} : bookings'[z] = bookings[z]
      PROVE  FALSE
  BY <1>1 DEF LeadInv, LeadSessions, LeadHeld, BookSteps, BookingRows
<1>2. CASE /\ bookings[b] # None /\ bookings'[b].origin = bookings[b].origin
           /\ bookings[c] # None /\ bookings'[c].origin = bookings[c].origin
  BY <1>2 DEF LeadConvertedOnce, BookingRows
<1> QED BY <1>1, <1>2, BookedForLead

\* However conversions of one lead for different units, closures that drop
\* it and everything else interleave, at most one booking is made for it.
\* Leads are written without a lock or token too: that a stale save of one
\* does not put a converted lead back into the pipeline holds if requests
\* are served in turn or if nobody edits leads.
THEOREM ConvertedOnce ==
  ASSUME OneAtATime \/ LeadsLeftAlone
  PROVE  LeadSpec => []LeadConvertedOnce
<1>1. LeadStart => LeadConvertedOnce
  BY DEF LeadStart, LeadConvertedOnce, BookingRows
<1>2. LeadInv /\ LeadConvertedOnce /\ [Next]_vars => LeadConvertedOnce'
  <2>1. UNCHANGED vars => (LeadConvertedOnce => LeadConvertedOnce')
    BY DEF vars, tables, LeadConvertedOnce, BookingRows
  <2> QED BY <2>1, ConvertedOnceStep
<1> QED BY <1>1, <1>2, LeadInvInit, LeadInvStep, PTL DEF LeadSpec

-----------------------------------------------------------------------------
(* Settled leads *)

\* What a request that will write a lead's status read of it: a change of
\* status read one that may change so, a drop read an open lead, and a
\* conversion read a booked one.
OpenReads(w) ==
  /\ pc[w] = "idle" => TrackedLeads(w) = {}
  /\ pc[w] = "lead_status" =>
       \A l \in TrackedLeads(w) : LeadMayMove(tracked[w].leads[l].status, ask[w].to)
  /\ pc[w] = "resolve_approve" =>
       \A l \in TrackedLeads(w) : tracked[w].leads[l].status \notin Settled
  /\ pc[w] \in BookSteps =>
       /\ tracked[w].leads[ask[w].origin] # None
       /\ tracked[w].leads[ask[w].origin].status = "Booked"

ReopenInv == RowInv /\ \A w \in Workers : OpenReads(w)

LEMMA ReopenInvInit == Init => ReopenInv
BY RowInvInit DEF Init, Quiet, ReopenInv, OpenReads, TrackedLeads, Untracked, BookSteps

\* A drop tracks the open leads it finds.
LEMMA DropReadsOpen ==
  ASSUME RowInv, NEW v \in Workers, ResolveReadConflicts(v)
  PROVE  OpenReads(v)'
<1>1. PICK x \in TrackedBlocks(v) :
        LET found == SoftConflicts(ask[v].unit, tracked[v].blocks[x].range)
        IN  tracked' = [tracked EXCEPT
              ![v].bookings = [b \in BookingIds |-> IF b \in found.bookings THEN bookings[b] ELSE None],
              ![v].leads = [l \in LeadIds |-> IF l \in found.leads THEN leads[l] ELSE None]]
  BY DEF ResolveReadConflicts
<1> DEFINE L == SoftConflicts(ask[v].unit, tracked[v].blocks[x].range).leads
<1>2. \A l \in L : leads[l].status \notin Settled
  BY DEF SoftConflicts, SoftLeadsIn, SoftHoldStatuses, Settled
<1>3. PICK B : tracked' = [tracked EXCEPT
        ![v].bookings = [b \in BookingIds |-> IF b \in B THEN bookings[b] ELSE None],
        ![v].leads = [l \in LeadIds |-> IF l \in L THEN leads[l] ELSE None]]
  BY <1>1
<1> HIDE DEF L
<1>4. tracked'[v].leads = [l \in LeadIds |-> IF l \in L THEN leads[l] ELSE None]
  BY <1>3 DEF RowInv, TypeInv, TypeOK, SessionOK, Tracker
<1>5. pc'[v] = "resolve_approve"
  BY Advanced DEF ResolveReadConflicts
<1> QED BY <1>2, <1>4, <1>5 DEF OpenReads, TrackedLeads, BookSteps

\* A conversion tracks the booked lead it found under the lead's lock.
LEMMA ConversionReadsBooked ==
  ASSUME RowInv, NEW v \in Workers, OpenReads(v), ConvertLockLead(v) \/ ConvertCheck(v)
  PROVE  OpenReads(v)'
<1>1. CASE ConvertLockLead(v)
  <2> DEFINE l == ask[v].origin
  <2>1. pc[v] = "convert_unit" /\ pc'[v] = "convert_locked" /\ ask' = ask
    BY <1>1, Advanced DEF ConvertLockLead
  <2>2. l \in LeadIds /\ leads[l] # None /\ leads[l].status = "Booked"
    BY <1>1, <2>1 DEF ConvertLockLead, RowInv, TypeInv, AskFits, Fits, ConvertSteps, ConvertedExists
  <2>3. tracked'[v].leads[l] = leads[l]
    BY <1>1, <2>2 DEF ConvertLockLead, TrackLead, RowInv, TypeInv, TypeOK, SessionOK, Tracker
  <2> QED BY <2>1, <2>2, <2>3 DEF OpenReads
<1>2. CASE ConvertCheck(v)
  BY <1>2, Advanced DEF ConvertCheck, OpenReads, BookSteps
<1> QED BY <1>1, <1>2

\* A change of a lead's status tracks the one lead it read.
LEMMA EditReadsLead ==
  ASSUME RowInv, NEW v \in Workers, OpenReads(v), NEW l \in LeadIds, NEW to \in BookingStatus,
         LeadStatusRead(v, l, to)
  PROVE  OpenReads(v)'
<1> DEFINE args == [NoAsk EXCEPT !.to = to]
<1>1. args.to = to /\ Begin(v, "lead_status", args)
  BY DEF LeadStatusRead, NoAsk
<1> HIDE DEF args
<1>2. pc[v] = "idle" /\ pc'[v] = "lead_status" /\ ask'[v].to = to
  BY <1>1, Began
<1>3. \A k \in LeadIds : tracked'[v].leads[k] = IF k = l THEN leads[l] ELSE tracked[v].leads[k]
  BY DEF LeadStatusRead, TrackLead, RowInv, TypeInv, TypeOK, SessionOK, Tracker
<1>4. TrackedLeads(v)' \subseteq {l}
  BY <1>2, <1>3 DEF OpenReads, TrackedLeads
<1> QED BY <1>2, <1>3, <1>4 DEF OpenReads, BookSteps, LeadStatusRead

LEMMA OpenReadsStep ==
  ASSUME ReopenInv, Next, NEW v \in Workers
  PROVE  OpenReads(v)'
<1>0. RowInv /\ OpenReads(v)
  BY DEF ReopenInv
<1>1. ASSUME UNCHANGED <<pc[v], ask[v], tracked[v]>>
      PROVE  OpenReads(v)'
  BY <1>0, <1>1 DEF OpenReads, TrackedLeads
<1>2. Surroundings => UNCHANGED <<pc[v], ask[v], tracked[v]>>
  BY DEF Surroundings, NextDay, DuplicateWindowCloses, AdminBlockDelete, DeleteUnit, DeleteClient,
     session
<1>3. ASSUME NEW w \in Workers \ {v}, Request(w) \/ Proceed(w) \/ Abort(w)
      PROVE  UNCHANGED <<pc[v], ask[v], tracked[v]>>
  BY <1>0, <1>3, RequestPlan, ProceedPlan DEF Frame
<1>4. ASSUME Request(v) \/ Proceed(v) \/ Abort(v)
      PROVE  OpenReads(v)'
  <2>1. CASE Finish(v)
    BY <1>0, <2>1, FinishLocks
       DEF Finish, OpenReads, TrackedLeads, Untracked, BookSteps, RowInv, TypeInv, TypeOK, SessionOK
  <2>2. ASSUME NEW l \in LeadIds, NEW u, NEW c, NEW s, LeadEditRead(v, l, u, c, s)
        PROVE  OpenReads(v)'
    <3>1. pc'[v] = "lead_edit"
      BY <1>0, <2>2 DEF LeadEditRead, Begin, RowInv, TypeInv, TypeOK, SessionOK
    <3> QED BY <3>1 DEF OpenReads, BookSteps
  <2>3. CASE pc'[v] \notin BookSteps \cup EditSteps \cup {"resolve_approve", "idle"}
    BY <2>3 DEF OpenReads, EditSteps
  <2> QED BY <1>0, <1>4, <2>1, <2>2, <2>3, LeadStepsBegin, DropReadsOpen, ConversionReadsBooked,
             EditReadsLead
<1> QED BY <1>1, <1>2, <1>3, <1>4 DEF Next

LEMMA ReopenInvStep == ReopenInv /\ [Next]_vars => ReopenInv'
<1> SUFFICES ASSUME ReopenInv, [Next]_vars PROVE ReopenInv'
  OBVIOUS
<1>1. RowInv'
  BY RowInvStep DEF ReopenInv
<1>2. CASE Next
  BY <1>1, <1>2, OpenReadsStep DEF ReopenInv
<1>3. CASE UNCHANGED vars
  BY <1>1, <1>3 DEF vars, session, ReopenInv, OpenReads, TrackedLeads
<1> QED BY <1>2, <1>3

\* A save that moves a settled lead is made by a request that read another status of it.
LEMMA SettledMovedBy ==
  ASSUME ReopenInv, NEW w \in Workers, NEW l \in LeadIds, leads[l] # None,
         leads[l].status \in Settled, leads'[l].status # leads[l].status,
         \/ LeadEditSave(w) \/ LeadStatusSave(w) \/ ResolveApprove(w)
         \/ \E k \in LeadIds : LeadInsert(w, k)
         \/ \E b \in BookingIds : ConvertCommit(w, b)
  PROVE  pc[w] # pc'[w] /\ ReadOtherStatus(w, l)
<1>0. /\ leads \in [LeadIds -> LeadRow \cup {None}] /\ SessionOK /\ OpenReads(w)
      /\ Finish(w) => pc'[w] = "idle"
  BY FinishLocks DEF ReopenInv, RowInv, TypeInv, TypeOK, TablesOK
<1>1. CASE LeadEditSave(w)
  <2>1. l \in TrackedLeads(w)
    BY <1>1 DEF LeadEditSave
  <2>2. tracked[w].leads[l] \in LeadRow
    BY <1>0, <2>1, TrackedTyped
  <2>3. leads'[l] = [tracked[w].leads[l] EXCEPT !.unit = ask[w].unit, !.client = ask[w].client,
                                                !.stay = ask[w].stay]
    BY <1>1, <2>1 DEF LeadEditSave
  <2>4. leads'[l].status = tracked[w].leads[l].status
    BY <2>2, <2>3 DEF LeadRow
  <2> QED BY <1>0, <1>1, <2>1, <2>4 DEF LeadEditSave, ReadOtherStatus, TrackedLeads
<1>2. CASE LeadStatusSave(w)
  <2>1. l \in TrackedLeads(w)
    BY <1>2 DEF LeadStatusSave
  <2>2. tracked[w].leads[l] \in LeadRow
    BY <1>0, <2>1, TrackedTyped
  <2>3. leads'[l] = [tracked[w].leads[l] EXCEPT !.status = ask[w].to]
    BY <1>2, <2>1 DEF LeadStatusSave
  <2>4. leads'[l].status = ask[w].to
    BY <2>2, <2>3 DEF LeadRow
  <2>5. pc[w] = "lead_status" /\ pc'[w] = "idle"
    BY <1>0, <1>2 DEF LeadStatusSave
  <2>6. LeadMayMove(tracked[w].leads[l].status, leads'[l].status)
    BY <1>0, <2>1, <2>4, <2>5 DEF OpenReads
  <2>7. tracked[w].leads[l].status # leads[l].status
    BY <2>6 DEF LeadMayMove, LeadTransitions, Settled, BookingStatus
  <2> QED BY <2>1, <2>5, <2>7 DEF ReadOtherStatus, TrackedLeads
<1>3. CASE ResolveApprove(w)
  <2>1. l \in TrackedLeads(w)
    BY <1>3 DEF ResolveApprove
  <2>2. pc[w] = "resolve_approve" /\ pc'[w] = "idle"
    BY <1>0, <1>3 DEF ResolveApprove
  <2>3. tracked[w].leads[l].status \notin Settled
    BY <1>0, <2>1, <2>2 DEF OpenReads
  <2> QED BY <2>1, <2>2, <2>3 DEF ReadOtherStatus, TrackedLeads
<1>4. ~\E k \in LeadIds : LeadInsert(w, k)
  BY <1>0 DEF LeadInsert
<1>5. ASSUME NEW b \in BookingIds, ConvertCommit(w, b)
      PROVE  pc[w] # pc'[w] /\ ReadOtherStatus(w, l)
  <2>1. l = ask[w].origin
    BY <1>0, <1>5 DEF ConvertCommit
  <2>2. pc[w] = "convert" /\ pc'[w] = "idle"
    BY <1>0, <1>5 DEF ConvertCommit
  <2> QED BY <1>0, <2>1, <2>2 DEF OpenReads, BookSteps, ReadOtherStatus, Settled
<1> QED BY <1>1, <1>2, <1>3, <1>4, <1>5

\* Whatever interleaves, with any number of requests in flight, a completed
\* lead or a dropped one gets another status only from a request that read
\* the lead before it was settled: by an edit, a change of status, a drop or
\* a conversion of a lead it saw settled, never.
THEOREM ReopenedByStaleSaves == Spec => ReopenedByStaleSavesOnly
<1>1. ReopenInv /\ [Next]_vars =>
        [\A l \in LeadRows :
           (leads[l].status \in Settled /\ leads'[l].status # leads[l].status)
             => \E w \in Workers : pc[w] # pc'[w] /\ ReadOtherStatus(w, l)]_vars
  <2> SUFFICES ASSUME ReopenInv, Next, NEW l \in LeadRows, leads[l].status \in Settled,
                      leads'[l].status # leads[l].status
               PROVE  \E w \in Workers : pc[w] # pc'[w] /\ ReadOtherStatus(w, l)
    OBVIOUS
  <2>1. l \in LeadIds /\ leads[l] # None
    BY DEF LeadRows
  <2>2. leads' # leads
    OBVIOUS
  <2> QED BY <2>1, <2>2, LeadWriters, SettledMovedBy
<1> QED BY <1>1, ReopenInvInit, ReopenInvStep, PTL DEF Spec, ReopenedByStaleSavesOnly

=============================================================================
