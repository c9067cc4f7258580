------------------------------- MODULE MCStays -------------------------------
(***************************************************************************)
(* A stay's two ends in one run, a behaviour each: "visit", the screens it *)
(* is asked for on, and "night", the days after it, with guests who        *)
(* overstay and two replicas whose sweeps meet conflicting transitions.    *)
(***************************************************************************)
EXTENDS MCScreens

CONSTANTS
  Units, Clients, BookingIds, BlockIds, LeadIds, Workers,
  Horizon, MaxVersion, MaxEdited, Unit, Client, Booking

VARIABLES
  bookings, history, blocks, leads, unit, deletedClients, today,
  lock, leadLock, sweepLock, pc, ask, tracked, scene

calendar ==
  <<bookings, history, blocks, leads, unit, deletedClients, today,
    lock, leadLock, sweepLock, pc, ask, tracked>>

Night == INSTANCE MCUnitCalendar WITH Traffic <- {"transition", "sweep", "clock"}

In(s) == scene = s /\ UNCHANGED scene

-----------------------------------------------------------------------------
\* In a visit the calendar is empty; at night a form is open that nobody uses.
StaysInit ==
  \/ scene = "visit" /\ MCInit /\ Night!Init
  \/ /\ scene = "night" /\ Night!ConfirmedInit
     /\ MCInit /\ surface = "quick" /\ Unavailable = {}

StaysNext ==
  \/ In("visit") /\ MCNext /\ UNCHANGED calendar
  \/ In("night") /\ Night!Next /\ UNCHANGED screens

\* The fairness of UnitCalendar, for the scene in which days pass.
NightFairness ==
  /\ \A w \in Workers : WF_calendar(In("night") /\ (Night!Proceed(w) \/ Night!Abort(w)))
  /\ SF_calendar(In("night") /\ \E w \in Workers : Night!SweepRead(w))
  /\ SF_calendar(In("night") /\ \E w \in Workers : Night!SweepCommit(w))
  /\ WF_calendar(In("night") /\ Night!NextDay)

StaysSpec ==
  /\ StaysInit /\ [][StaysNext]_<<screens, calendar, scene>>
  /\ VisitFairness /\ NightFairness

\* A guest who overstays is checked out in the end (UnitCalendar): of the two
\* bookings, which differ in their keys only, the run asks about one.
OverdueStaysEnd == Night!OverdueStayEnds(Booking)
=============================================================================
