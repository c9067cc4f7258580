----------------------------- MODULE MCBackOffice -----------------------------
(***************************************************************************)
(* The back office in one run: the scenes of Billing, and one for each of  *)
(* the smaller components, the assignments of a booking and a lead         *)
(* ("desk") and the reviews of a unit ("reviews").  They share no rows, so *)
(* in a scene the components it is not about rest in one initial state.    *)
(***************************************************************************)
EXTENDS MCBillingScenes

CONSTANTS
  Bookings, Leads, AssignmentIds, Admins, MaxSaves,   \* of Assignments
  Reviews, Ratings                                    \* of Reviews

VARIABLES
  parents, assignments, synced, deskPc, deskAsk, deskSeen,
  reviews, summary, reviewPc, reviewAsk, reviewSeen, met, settled

Desk == INSTANCE Assignments WITH pc <- deskPc, ask <- deskAsk, seen <- deskSeen
Rev  == INSTANCE Reviews WITH pc <- reviewPc, ask <- reviewAsk, seen <- reviewSeen

deskVars   == <<parents, assignments, synced, deskPc, deskAsk, deskSeen>>
reviewVars == <<reviews, summary, reviewPc, reviewAsk, reviewSeen, met, settled>>

ASSUME DeskNoneIsNoRow == Desk!NoneIsNoRow
ASSUME ReviewsNoneIsNoRow == Rev!NoneIsNoRow

BackOfficeInit ==
  /\ SceneInit \/ (scene \in {"desk", "reviews"} /\ Init)
  /\ Desk!Init /\ Rev!Init
  /\ scene # "desk" => \A p \in Desk!Parents : parents[p].admin = None

BackOfficeNext ==
  \/ SceneNext /\ UNCHANGED <<deskVars, reviewVars>>
  \/ In("desk") /\ Desk!Next /\ UNCHANGED <<vars, reviewVars>>
  \/ In("reviews") /\ Rev!Next /\ UNCHANGED <<vars, deskVars>>

BackOfficeSpec ==
  BackOfficeInit /\ [][BackOfficeNext]_<<vars, scene, deskVars, reviewVars>>

-----------------------------------------------------------------------------
(* Properties *)

\* A booking has one active assignment at most (Assignments).
OneActiveAssignment == Desk!OneActiveAssignment

\* A booking's column and its active assignment agree (Assignments).
AssigneeInSync == Desk!AssigneeInSync

\* A moderation served alone leaves the summary right (Reviews).
SummaryRepaired == Rev!SummaryRepaired
=============================================================================
