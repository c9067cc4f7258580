---------------------------- MODULE StatusRules ----------------------------
(***************************************************************************)
(* The status vocabularies of bookings, CRM leads and date blocks, and the *)
(* transition tables the services consult before they change a status.     *)
(***************************************************************************)

BookingStatus ==
  {"Prospecting", "Relevant", "NoAnswer", "NotRelevant", "Booked",
   "Confirmed", "CheckIn", "Completed", "Cancelled", "LeftEarly"}

AllowedTransitions ==
  [s \in BookingStatus |->
     CASE s = "Prospecting" -> {"Relevant", "NoAnswer", "NotRelevant"}
       [] s = "Relevant"    -> {"Booked", "NoAnswer", "NotRelevant"}
       [] s = "NoAnswer"    -> {"Relevant", "NotRelevant"}
       [] s = "Booked"      -> {"Confirmed", "NotRelevant"}
       [] s = "Confirmed"   -> {"CheckIn", "Cancelled"}
       [] s = "CheckIn"     -> {"Completed", "LeftEarly"}
       [] OTHER             -> {}]

IsValidTransition(from, to) == from # to /\ to \in AllowedTransitions[from]

\* Mutant: a confirmed stay no longer holds its nights.
HoldingForgetsConfirmed == {"Booked", "CheckIn"}

\* Firm holds: they block other bookings and date blocks.
HoldingStatuses == {"Booked", "Confirmed", "CheckIn"}

\* Soft holds: demand being qualified; only the storefront treats it as taken.
SoftHoldStatuses == {"Prospecting", "Relevant"}

ActiveAvailabilityHoldStatuses == HoldingStatuses \cup SoftHoldStatuses

\* The statuses BookingService.UpdatePendingAsync accepts.
EditableStatuses == {"Prospecting", "Relevant"}

\* A lead shares the vocabulary, but its pipeline ends at Booked: only a
\* conversion (Completed) or a drop (NotRelevant) leaves that stage.
LeadTransitions ==
  [s \in BookingStatus |->
     CASE s = "Prospecting" -> {"Relevant", "NoAnswer", "NotRelevant"}
       [] s = "Relevant"    -> {"Booked", "NoAnswer", "NotRelevant"}
       [] s = "NoAnswer"    -> {"Relevant", "NotRelevant"}
       [] s = "Booked"      -> {"NotRelevant"}
       [] OTHER             -> {}]

OpenLeadStatuses == {"Prospecting", "Relevant", "NoAnswer", "Booked"}

\* Mutant: the transition is not validated.
LeadMayMoveAnywhere(from, to) == TRUE

\* A lead status may be set to itself: ValidateStatusTransition accepts it.
LeadMayMove(from, to) == from = to \/ to \in LeadTransitions[from]

BlockStatus == {"PendingApproval", "Approved", "Rejected"}
=============================================================================
