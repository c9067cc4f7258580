-------------------------- MODULE MCCalendarScenes --------------------------
(***************************************************************************)
(* Scenes of UnitCalendar that share a run.  "desk": two bookings edited   *)
(* and walked through the pipeline; "shop": requests of two guests for one *)
(* unit; "owner": owner blocks beside a qualified stay; "convert": a lead  *)
(* converted for two units beside owner blocks; "pipeline": moves, edits,  *)
(* drops and conversions of one lead side by side; "office": the unlocked  *)
(* endpoints, one request at a time.  In the scenes of leads the requests  *)
(* are for the first two days.                                             *)
(***************************************************************************)
EXTENDS MCUnitCalendar

VARIABLE scene

Admin ==
  INSTANCE UnitCalendar WITH
    Units <- {Unit}, Clients <- {Client}, MaxVersion <- 4,
    Traffic <- {"create", "update", "transition"}
Shop ==
  INSTANCE UnitCalendar WITH
    Units <- {Unit}, Clients <- Clients \ {Client}, MaxVersion <- 2,
    Traffic <- {"quick", "storefront", "window", "transition"}
Owner ==
  INSTANCE UnitCalendar WITH
    Units <- {Unit}, Clients <- {Client}, Traffic <- {"ownerblock", "transition"}
Desk ==
  INSTANCE UnitCalendar WITH
    Units <- {Unit}, Clients <- {Client}, Traffic <- {"blockdelete", "accounts", "profiles"}

In(s) == scene = s /\ UNCHANGED scene

Short(spans, last) == {s \in spans : s.to <= last}

-----------------------------------------------------------------------------
(* Conversions, leads and blocks *)

ConvertRequest(w, units) ==
  \E l \in LeadIds, u \in units, s \in Short(Stays, 1) : ConvertLockUnit(w, l, u, Client, s)

OwnerBlockRequest(w, units, ranges) ==
  \/ \E u \in units, k \in ranges : OwnerBlockLock(w, u, k)
  \/ \E x \in BlockIds, d \in {"Approved", "Rejected"} : ResolveLock(w, x, d)
  \/ \E x \in BlockIds : WithdrawLock(w, x)

LeadMove(w) == \E l \in LeadIds, to \in BookingStatus : LeadStatusRead(w, l, to)

\* An edit that leaves the dates, the unit and the client as they are.
LeadNote(w) ==
  \E l \in LeadRows : LeadEditRead(w, l, leads[l].unit, leads[l].client, leads[l].stay)

\* One stay of one unit: a lead that a stale save reopens could be booked again
\* for other dates, and for these its own booking refuses it.
PipelineRequest(w) ==
  \/ LeadMove(w) \/ LeadNote(w)
  \/ ConvertRequest(w, {Unit}) \/ OwnerBlockRequest(w, {Unit}, Short(Ranges, 0))

LeadRequest(w) ==
  \/ \E u \in {Unit, None}, c \in {Client, None}, s \in Short(Stays, 1) \cup {None} :
       \/ LeadCreateCheck(w, u, c, s)
       \/ \E l \in LeadIds : LeadEditRead(w, l, u, c, s)
  \/ LeadMove(w)

\* The office works on one block.
BlockRequest(w) ==
  \/ \E x \in BlockIds, k \in Short(Ranges, 1) : AdminBlockEditRead(w, x, k)
  \/ /\ \A x \in BlockIds : blocks[x] = None
     /\ \E k \in Short(Ranges, 1) : AdminBlockCheck(w, Unit, k)
  \/ OwnerBlockRequest(w, {}, {})
  \/ /\ \A x \in BlockIds : blocks[x] = None
     /\ \E k \in Short(Ranges, 1) : OwnerBlockLock(w, Unit, k)

\* One request at a time.
OfficeRequest(w) ==
  /\ \A v \in Workers \ {w} : pc[v] = "idle"
  /\ LeadRequest(w) \/ ConvertRequest(w, {Unit}) \/ BlockRequest(w) \/ Desk!Request(w)

-----------------------------------------------------------------------------
(* Where the scenes begin *)

\* A booking that was qualified: its dates may be requested, not yet held.
RelevantRow(stay) ==
  [ConfirmedRow(stay) EXCEPT !.status = "Relevant", !.version = 2, !.fresh = TRUE]
RelevantHistory == SubSeq(ConfirmedHistory, 1, 2)

Qualified(n) ==
  /\ bookings \in [BookingIds -> {RelevantRow(s) : s \in Stays} \cup {None}]
  /\ Cardinality(BookingRows) = n
  /\ history = [b \in BookingIds |-> IF bookings[b] = None THEN <<>> ELSE RelevantHistory]

NoBookings ==
  /\ bookings = [b \in BookingIds |-> None]
  /\ history = [b \in BookingIds |-> <<>>]

ConvertibleLeads ==
  [unit : Units \cup {None}, client : {Client, None}, stay : Short(Stays, 1) \cup {None},
   status : {"Booked"}]

OpenLeads ==
  [unit : {Unit}, client : {Client}, stay : Short(Stays, 1), status : OpenLeadStatuses]

NoLeads == leads = [l \in LeadIds |-> None]

CalendarInit ==
  /\ Quiet
  /\ blocks = [x \in BlockIds |-> None]
  /\ \/ scene = "desk" /\ (NoBookings \/ Qualified(2)) /\ NoLeads
     \/ scene = "shop" /\ NoBookings /\ NoLeads
     \/ scene = "owner" /\ Qualified(1) /\ NoLeads
     \/ scene = "convert" /\ NoBookings /\ leads \in [LeadIds -> ConvertibleLeads]
     \/ scene = "pipeline" /\ NoBookings /\ leads \in [LeadIds -> OpenLeads]
     \/ scene = "office" /\ NoBookings /\ NoLeads

-----------------------------------------------------------------------------
CalendarNext ==
  \/ \E w \in Workers :
       \/ In("desk") /\ Admin!Request(w)
       \/ In("desk") /\ Admin!Proceed(w)
       \/ In("shop") /\ Shop!Request(w)
       \/ In("shop") /\ Shop!Proceed(w)
       \/ In("owner") /\ Owner!Request(w)
       \/ In("owner") /\ Owner!Proceed(w)
       \/ In("convert") /\ ConvertRequest(w, Units)
       \/ In("convert") /\ OwnerBlockRequest(w, Units, Short(Ranges, 1))
       \/ In("convert") /\ Proceed(w)
       \/ In("pipeline") /\ PipelineRequest(w)
       \/ In("pipeline") /\ Proceed(w)
       \/ In("office") /\ OfficeRequest(w)
       \/ In("office") /\ Proceed(w)
       \/ UNCHANGED scene /\ Abort(w)
  \/ In("shop") /\ Shop!Surroundings
  \/ In("office") /\ Desk!Surroundings

CalendarSpec == CalendarInit /\ [][CalendarNext]_<<vars, scene>>

\* The guests of the shop are interchangeable.
CalendarSymmetry ==
  Permutations(Workers) \cup Permutations(BookingIds) \cup Permutations(BlockIds)
    \cup Permutations(Clients \ {Client})
=============================================================================
