---------------------------- MODULE DateBlockOps ----------------------------
(***************************************************************************)
(* DateBlockService (the admin's endpoints: no lock, no transaction) and   *)
(* DateBlockApprovalService (the owner's requests and their resolution,    *)
(* under the unit's advisory lock).                                        *)
(***************************************************************************)
EXTENDS CalendarStore

OverlappingBlocks(u, k, except) ==
  {x \in LiveBlocks(u) \ except : RangesOverlap(k, blocks[x].range)}

\* EnsureNoActiveBookingOverlapAsync of the admin service: deleted clients'
\* bookings count here.
HeldBookings(u, k) ==
  {b \in BookingRows :
     /\ bookings[b].unit = u
     /\ bookings[b].status \in HoldingStatuses
     /\ BlockMeetsStay(k, bookings[b].stay)}

\* The queries of the approval service skip them.
LiveBookingsIn(u, k, statuses) ==
  {b \in LiveOn(u, statuses, {}) : BlockMeetsStay(k, bookings[b].stay)}

SoftLeadsIn(u, k) ==
  {l \in LeadIds :
     /\ leads[l] # None
     /\ leads[l].unit = u
     /\ leads[l].status \in SoftHoldStatuses
     /\ leads[l].stay # None
     /\ BlockMeetsLead(k, leads[l].stay)}

SoftConflicts(u, k) ==
  [leads |-> SoftLeadsIn(u, k), bookings |-> LiveBookingsIn(u, k, SoftHoldStatuses)]

HasAny(conflicts) == conflicts.leads # {} \/ conflicts.bookings # {}

-----------------------------------------------------------------------------
(* DateBlockService *)

AdminBlockCheck(w, u, k) ==
  /\ unit[u] # "deleted"
  /\ OverlappingBlocks(u, k, {}) = {}
  /\ HeldBookings(u, k) = {}
  /\ Begin(w, "block_insert", [NoAsk EXCEPT !.unit = u, !.stay = k, !.to = "Approved",
                                            !.origin = "admin"])
  /\ UNCHANGED <<tables, locks, tracked>>

\* A new key: a deleted row's may return only once no request remembers it.
IsUnusedBlock(x) == blocks[x] = None /\ \A v \in Workers : tracked[v].blocks[x] = None

\* The insert of both services; the owner's runs in its transaction.
InsertBlock(w, x) ==
  /\ pc[w] = "block_insert"
  /\ IsUnusedBlock(x)
  /\ blocks' = [blocks EXCEPT ![x] =
       [unit |-> ask[w].unit, range |-> ask[w].stay, status |-> ask[w].to,
        deleted |-> FALSE, owned |-> ask[w].origin = "owner"]]
  /\ Finish(w)
  /\ UNCHANGED <<bookings, history, leads, unit, deletedClients, today>>

\* UpdateAsync finds the row by key, withdrawn and rejected ones included.
AdminBlockEditRead(w, x, k) ==
  /\ blocks[x] # None
  /\ OverlappingBlocks(blocks[x].unit, k, {x}) = {}
  /\ HeldBookings(blocks[x].unit, k) = {}
  /\ Begin(w, "block_edit", [NoAsk EXCEPT !.stay = k])
  /\ TrackBlock(w, x)
  /\ UNCHANGED <<tables, locks>>

\* Mutant: the edit re-opens the row it found.
AdminBlockEditRevives(w) ==
  /\ pc[w] = "block_edit"
  /\ \A x \in TrackedBlocks(w) : blocks[x] # None
  /\ blocks' = [x \in BlockIds |->
       IF x \in TrackedBlocks(w)
       THEN [tracked[w].blocks[x] EXCEPT !.range = ask[w].stay, !.owned = FALSE,
                                         !.status = "Approved", !.deleted = FALSE]
       ELSE blocks[x]]
  /\ Finish(w)
  /\ UNCHANGED <<bookings, history, leads, unit, deletedClients, today>>

\* Update() marks every column modified: the row as read, with the new
\* range, replaces whatever has been committed since.
AdminBlockEditSave(w) ==
  /\ pc[w] = "block_edit"
  /\ \A x \in TrackedBlocks(w) : blocks[x] # None
  /\ blocks' = [x \in BlockIds |->
       IF x \in TrackedBlocks(w)
       THEN [tracked[w].blocks[x] EXCEPT !.range = ask[w].stay, !.owned = FALSE]
       ELSE blocks[x]]
  /\ Finish(w)
  /\ UNCHANGED <<bookings, history, leads, unit, deletedClients, today>>

\* DeleteAsync removes the row.
AdminBlockDelete(x) ==
  /\ blocks[x] # None
  /\ blocks' = [blocks EXCEPT ![x] = None]
  /\ UNCHANGED <<bookings, history, leads, unit, deletedClients, today, locks, session>>

-----------------------------------------------------------------------------
(* DateBlockApprovalService *)

\* RequestOwnerBlockAsync: lock and reload the unit, then the hard checks
\* and the soft conflicts that decide whether an admin must sign off.
OwnerBlockLock(w, u, k) ==
  /\ AcquireUnit(w, u)
  /\ Begin(w, "owner_block", [NoAsk EXCEPT !.unit = u, !.stay = k, !.origin = "owner"])
  /\ UNCHANGED <<tables, leadLock, sweepLock, tracked>>

\* Mutant: the existing blocks are not checked.
OwnerBlockCheckGuests(w) ==
  LET u == ask[w].unit
      k == ask[w].stay
  IN  /\ Advance(w, "owner_block", "block_insert")
      /\ unit[u] # "deleted"
      /\ LiveBookingsIn(u, k, HoldingStatuses) = {}
      /\ ask' = [ask EXCEPT ![w].to =
           IF HasAny(SoftConflicts(u, k)) THEN "PendingApproval" ELSE "Approved"]
      /\ UNCHANGED <<tables, locks, tracked>>

OwnerBlockCheck(w) ==
  LET u == ask[w].unit
      k == ask[w].stay
  IN  /\ Advance(w, "owner_block", "block_insert")
      /\ unit[u] # "deleted"
      /\ LiveBookingsIn(u, k, HoldingStatuses) = {}
      /\ OverlappingBlocks(u, k, {}) = {}
      /\ ask' = [ask EXCEPT ![w].to =
           IF HasAny(SoftConflicts(u, k)) THEN "PendingApproval" ELSE "Approved"]
      /\ UNCHANGED <<tables, locks, tracked>>

\* Mutant: resolution takes no lock.
ResolveUnlocked(w, x, decision) ==
  /\ blocks[x] # None
  /\ blocks[x].status = "PendingApproval" /\ ~blocks[x].deleted
  /\ Begin(w, "resolve", [NoAsk EXCEPT !.unit = blocks[x].unit, !.to = decision])
  /\ TrackBlock(w, x)
  /\ UNCHANGED <<tables, locks>>

\* ResolveAsync: lock, reload, and only a live pending request goes on.
ResolveLock(w, x, decision) ==
  /\ blocks[x] # None
  /\ unit[blocks[x].unit] # "deleted"
  /\ AcquireUnit(w, blocks[x].unit)
  /\ blocks[x].status = "PendingApproval" /\ ~blocks[x].deleted
  /\ Begin(w, "resolve", [NoAsk EXCEPT !.unit = blocks[x].unit, !.to = decision])
  /\ TrackBlock(w, x)
  /\ UNCHANGED <<tables, leadLock, sweepLock>>

\* Approving releases the soft leads and bookings of the range.
ResolveReadConflicts(w) ==
  /\ Advance(w, "resolve", "resolve_approve")
  /\ ask[w].to = "Approved"
  /\ \E x \in TrackedBlocks(w) :
       LET found == SoftConflicts(ask[w].unit, tracked[w].blocks[x].range)
       IN  tracked' = [tracked EXCEPT
             ![w].bookings = [b \in BookingIds |->
                IF b \in found.bookings THEN bookings[b] ELSE None],
             ![w].leads = [l \in LeadIds |->
                IF l \in found.leads THEN leads[l] ELSE None]]
  /\ UNCHANGED <<tables, locks, ask>>

\* Write the tracked block back whole, with its new status.
SaveBlock(w, status, deleted) ==
  /\ \A x \in TrackedBlocks(w) : blocks[x] # None
  /\ blocks' = [x \in BlockIds |->
       IF x \in TrackedBlocks(w)
       THEN [tracked[w].blocks[x] EXCEPT !.status = status, !.deleted = deleted]
       ELSE blocks[x]]

ResolveApprove(w) ==
  /\ pc[w] = "resolve_approve"
  /\ SaveStatus(w, "NotRelevant")
  /\ leads' = [l \in LeadIds |->
       IF l \in TrackedLeads(w)
       THEN [tracked[w].leads[l] EXCEPT !.status = "NotRelevant"]
       ELSE leads[l]]
  /\ SaveBlock(w, "Approved", FALSE)
  /\ Finish(w)
  /\ UNCHANGED <<unit, deletedClients, today>>

ResolveReject(w) ==
  /\ pc[w] = "resolve"
  /\ ask[w].to = "Rejected"
  /\ SaveBlock(w, "Rejected", TRUE)
  /\ Finish(w)
  /\ UNCHANGED <<bookings, history, leads, unit, deletedClients, today>>

\* WithdrawOwnerBlockAsync: the block is read after the lock.
WithdrawLock(w, x) ==
  /\ blocks[x] # None
  /\ unit[blocks[x].unit] # "deleted"
  /\ AcquireUnit(w, blocks[x].unit)
  /\ ~blocks[x].deleted /\ blocks[x].status # "Rejected"
  /\ Begin(w, "withdraw", [NoAsk EXCEPT !.unit = blocks[x].unit])
  /\ TrackBlock(w, x)
  /\ UNCHANGED <<tables, leadLock, sweepLock>>

WithdrawCommit(w) ==
  /\ pc[w] = "withdraw"
  /\ SaveBlock(w, "Rejected", TRUE)
  /\ Finish(w)
  /\ UNCHANGED <<bookings, history, leads, unit, deletedClients, today>>
=============================================================================
