--------------------------- MODULE MCUnitCalendar ---------------------------
(***************************************************************************)
(* Small instances of UnitCalendar for TLC, and two later states to start  *)
(* from: a night's worth of confirmed stays, and leads ready to convert.   *)
(***************************************************************************)
EXTENDS UnitCalendar, TLC

CONSTANTS Unit, Client     \* the unit and client of the preloaded rows

\* Requests, rows and clients are interchangeable.
Symmetry ==
  Permutations(Workers) \cup Permutations(BookingIds) \cup Permutations(BlockIds)
    \cup Permutations(Clients)

\* Every booking was created and walked to Confirmed; the stays are disjoint.
ConfirmedRow(stay) ==
  [unit |-> Unit, client |-> Client, stay |-> stay, status |-> "Confirmed",
   version |-> 4, fresh |-> FALSE, origin |-> "admin"]

ConfirmedHistory ==
  <<[old |-> None, new |-> "Prospecting"], [old |-> "Prospecting", new |-> "Relevant"],
    [old |-> "Relevant", new |-> "Booked"], [old |-> "Booked", new |-> "Confirmed"]>>

ConfirmedInit ==
  /\ Quiet
  /\ bookings \in [BookingIds -> {ConfirmedRow(s) : s \in Stays}]
  /\ \A b, c \in BookingIds : b # c => ~StaysOverlap(bookings[b].stay, bookings[c].stay)
  /\ history = [b \in BookingIds |-> ConfirmedHistory]
  /\ blocks = [x \in BlockIds |-> None]
  /\ leads = [l \in LeadIds |-> None]

\* Every lead was qualified up to Booked, with or without unit and dates.
BookedLeads ==
  [unit : Units \cup {None}, client : Clients \cup {None}, stay : Stays \cup {None},
   status : {"Booked"}]

ConvertInit ==
  /\ Quiet
  /\ bookings = [b \in BookingIds |-> None]
  /\ history = [b \in BookingIds |-> <<>>]
  /\ blocks = [x \in BlockIds |-> None]
  /\ leads \in [LeadIds -> BookedLeads]

ConvertSpec == ConvertInit /\ [][Next]_vars
=============================================================================
