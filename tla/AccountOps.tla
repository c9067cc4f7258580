----------------------------- MODULE AccountOps -----------------------------
(***************************************************************************)
(* UnitService and ClientService, as far as the calendar's queries see     *)
(* them: whether a unit is active and whether it or a client is deleted.   *)
(* These rows carry no concurrency token: an edit reads the row and writes *)
(* every column back, the deleted_at it read (null) included.              *)
(***************************************************************************)
EXTENDS CalendarStore

\* UpdateAsync, SetActiveAsync and SetPortfolioVisibilityAsync find only
\* units that are not deleted; active is the flag the save will write.
UnitEditRead(w, u, active) ==
  /\ unit[u] # "deleted"
  /\ Begin(w, "unit_edit", [NoAsk EXCEPT !.unit = u, !.to = active])
  /\ UNCHANGED <<tables, locks, tracked>>

UnitEditSave(w) ==
  /\ pc[w] = "unit_edit"
  /\ unit' = [unit EXCEPT ![ask[w].unit] = ask[w].to]
  /\ Finish(w)
  /\ UNCHANGED <<bookings, history, blocks, leads, deletedClients, today>>

DeleteUnit(u) ==
  /\ unit[u] # "deleted"
  /\ unit' = [unit EXCEPT ![u] = "deleted"]
  /\ UNCHANGED <<bookings, history, blocks, leads, deletedClients, today, locks, session>>

\* UpdateAsync, UpdateStatusAsync and ResetPasswordAsync of a client.
ClientEditRead(w, c) ==
  /\ c \notin deletedClients
  /\ Begin(w, "client_edit", [NoAsk EXCEPT !.client = c])
  /\ UNCHANGED <<tables, locks, tracked>>

ClientEditSave(w) ==
  /\ pc[w] = "client_edit"
  /\ deletedClients' = deletedClients \ {ask[w].client}
  /\ Finish(w)
  /\ UNCHANGED <<bookings, history, blocks, leads, unit, today>>

DeleteClient(c) ==
  /\ c \notin deletedClients
  /\ deletedClients' = deletedClients \cup {c}
  /\ UNCHANGED <<bookings, history, blocks, leads, unit, today, locks, session>>
=============================================================================
