------------------------------- MODULE LeadOps -------------------------------
(***************************************************************************)
(* CrmLeadService.  Leads carry no concurrency token: CreateAsync,         *)
(* UpdateAsync and SetStatusAsync run unlocked, and Update() writes back   *)
(* the whole row as it was read.  Only the conversion takes locks.         *)
(***************************************************************************)
EXTENDS CalendarStore, BookingOps

LeadRows == {l \in LeadIds : leads[l] # None}

\* EnsureDesiredDatesAvailableAsync: only a lead with a unit and both dates.
DesiredDatesAvailable(row) ==
  (row.unit # None /\ row.stay # None) => OperationallyAvailable(row.unit, row.stay, {})

\* ValidateOptionalReferencesAsync.
ReferencesExist(row) ==
  /\ row.client \notin deletedClients
  /\ row.unit # None => unit[row.unit] = "active"

\* EnsureNoDuplicateOpenLeadAsync, for a lead linked to a client.
NoDuplicateOpenLead(row) ==
  (None \notin {row.unit, row.stay, row.client}) =>
    ~\E l \in LeadRows :
       /\ leads[l].status \in OpenLeadStatuses
       /\ leads[l].unit = row.unit /\ leads[l].stay = row.stay
       /\ leads[l].client = row.client

LeadCreateCheck(w, u, c, s) ==
  LET row == [unit |-> u, client |-> c, stay |-> s, status |-> "Prospecting"]
  IN  /\ ReferencesExist(row)
      /\ DesiredDatesAvailable(row)
      /\ NoDuplicateOpenLead(row)
      /\ Begin(w, "lead_insert", [NoAsk EXCEPT !.unit = u, !.client = c, !.stay = s])
      /\ UNCHANGED <<tables, locks, tracked>>

LeadInsert(w, l) ==
  /\ pc[w] = "lead_insert"
  /\ leads[l] = None
  /\ leads' = [leads EXCEPT ![l] =
       [unit |-> ask[w].unit, client |-> ask[w].client, stay |-> ask[w].stay,
        status |-> "Prospecting"]]
  /\ Finish(w)
  /\ UNCHANGED <<bookings, history, blocks, unit, deletedClients, today>>

\* UpdateAsync accepts a lead in any status; the row it read is written back
\* whole, with the fields it assigned.
LeadEditRead(w, l, u, c, s) ==
  LET row == [unit |-> u, client |-> c, stay |-> s, status |-> leads[l].status]
  IN  /\ l \in LeadRows
      /\ ReferencesExist(row)
      /\ DesiredDatesAvailable(row)
      /\ Begin(w, "lead_edit", [NoAsk EXCEPT !.unit = u, !.client = c, !.stay = s])
      /\ TrackLead(w, l)
      /\ UNCHANGED <<tables, locks>>

LeadEditSave(w) ==
  /\ pc[w] = "lead_edit"
  /\ leads' = [l \in LeadIds |->
       IF l \in TrackedLeads(w)
       THEN [tracked[w].leads[l] EXCEPT !.unit = ask[w].unit, !.client = ask[w].client,
                                        !.stay = ask[w].stay]
       ELSE leads[l]]
  /\ Finish(w)
  /\ UNCHANGED <<bookings, history, blocks, unit, deletedClients, today>>

LeadStatusRead(w, l, to) ==
  /\ l \in LeadRows
  /\ LeadMayMove(leads[l].status, to)
  /\ Begin(w, "lead_status", [NoAsk EXCEPT !.to = to])
  /\ TrackLead(w, l)
  /\ UNCHANGED <<tables, locks>>

LeadStatusSave(w) ==
  /\ pc[w] = "lead_status"
  /\ leads' = [l \in LeadIds |->
       IF l \in TrackedLeads(w)
       THEN [tracked[w].leads[l] EXCEPT !.status = ask[w].to]
       ELSE leads[l]]
  /\ Finish(w)
  /\ UNCHANGED <<bookings, history, blocks, unit, deletedClients, today>>

-----------------------------------------------------------------------------
(* ConvertToBookingAsync: the unit's lock, then the lead's *)

\* Mutant: the unit's lock is not taken.
ConvertUnlockedUnit(w, l, u, c, s) ==
  /\ l \in LeadRows
  /\ Begin(w, "convert_unit", [NoAsk EXCEPT !.unit = u, !.client = c, !.stay = s,
                                            !.origin = l])
  /\ UNCHANGED <<tables, locks, tracked>>

ConvertLockUnit(w, l, u, c, s) ==
  /\ l \in LeadRows
  /\ AcquireUnit(w, u)
  /\ Begin(w, "convert_unit", [NoAsk EXCEPT !.unit = u, !.client = c, !.stay = s,
                                            !.origin = l])
  /\ UNCHANGED <<tables, leadLock, sweepLock, tracked>>

\* Mutant: the lead's lock is not taken.
ConvertUnlockedLead(w) ==
  LET l == ask[w].origin
  IN  /\ Advance(w, "convert_unit", "convert_locked")
      /\ leads[l].status = "Booked"
      /\ leads[l].client \in {None, ask[w].client}
      /\ leads[l].unit \in {None, ask[w].unit}
      /\ leads[l].stay \in {None, ask[w].stay}
      /\ TrackLead(w, l)
      /\ UNCHANGED <<tables, locks, ask>>

\* GetByIdAsync and ReloadAsync under both locks; the lead's own terms bind.
ConvertLockLead(w) ==
  LET l == ask[w].origin
  IN  /\ Advance(w, "convert_unit", "convert_locked")
      /\ leadLock[l] = None
      /\ leadLock' = [leadLock EXCEPT ![l] = w]
      /\ leads[l].status = "Booked"
      /\ leads[l].client \in {None, ask[w].client}
      /\ leads[l].unit \in {None, ask[w].unit}
      /\ leads[l].stay \in {None, ask[w].stay}
      /\ TrackLead(w, l)
      /\ UNCHANGED <<tables, lock, sweepLock, ask>>

\* BookingService.CreateAsync re-validates availability ...
ConvertCheck(w) ==
  /\ Advance(w, "convert_locked", "convert")
  /\ MayCreate(ask[w].client, ask[w].unit, ask[w].stay, FALSE)
  /\ UNCHANGED <<tables, locks, ask, tracked>>

\* ... inserts the booking as Booked, and the lead ends as Completed.  Only
\* the columns assigned here are written to the lead.
ConvertCommit(w, b) ==
  LET l == ask[w].origin
      seen == tracked[w].leads[l]
  IN  /\ pc[w] = "convert"
      /\ AddBooking(b, ask[w].unit, ask[w].client, ask[w].stay, "Booked", l)
      /\ leads' = [leads EXCEPT
           ![l].status = "Completed",
           ![l].client = IF seen.client = None THEN ask[w].client ELSE @,
           ![l].unit = IF seen.unit = None THEN ask[w].unit ELSE @]
      /\ Finish(w)
      /\ UNCHANGED <<blocks, unit, deletedClients, today>>
=============================================================================
