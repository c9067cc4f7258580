--------------------------- MODULE StorefrontStay ---------------------------
(***************************************************************************)
(* The storefront (demo/) sells a stay in two pages: the unit's widget     *)
(* polls a year of nights and offers the free ones, the checkout page asks *)
(* once more after the button is pressed and then sends the request.  It   *)
(* has no query cache: a poll's answer is shown when it comes, whatever    *)
(* was asked after it.                                                     *)
(***************************************************************************)
EXTENDS StayCalendar

CONSTANTS
  Surfaces,      \* how visitors of a run are known: "guest", "client"
  MaxPicks,      \* bound: dates picked in a visit
  Slots          \* bound: polls under way at once

VARIABLES
  surface,       \* signed in or not
  page,          \* "unit", "checkout", "done"
  stay,          \* the range of the widget, the dates in the checkout's address
  picks,
  polls,         \* per slot: None, or a request with the server's answer
  shown,         \* the nights the widget knows as blocked or held, None at first
  check          \* the checkout's own question, None when there is none

browser == <<surface, page, stay, picks, polls, shown, check>>
vars == <<server, fails, attempts, awaiting, browser>>

Asked == [answered |-> FALSE, days |-> {}]
Answer(days) == [answered |-> TRUE, days |-> Unavailable \cap days]

-----------------------------------------------------------------------------
(* useAvailability *)

Disabled == IF shown = None THEN {} ELSE shown

\* The component is mounted: its first poll is under way.
Mounted == [i \in Slots |-> IF i = 1 THEN Asked ELSE None]

\* Mutant: no interval and no listeners, the hook asks when it mounts.
PollOnce(i) ==
  /\ page = "unit" /\ polls[i] = None /\ shown = None
  /\ polls' = [polls EXCEPT ![i] = Asked]
  /\ UNCHANGED <<server, fails, attempts, awaiting, surface, page, stay, picks, shown, check>>

\* Every minute, and whenever the window is focused or visible again.
Poll(i) ==
  /\ page = "unit" /\ polls[i] = None
  /\ polls' = [polls EXCEPT ![i] = Asked]
  /\ UNCHANGED <<server, fails, attempts, awaiting, surface, page, stay, picks, shown, check>>

\* The server's answer is of the moment it is given.
PollAnswered(i) ==
  /\ polls[i] # None /\ ~polls[i].answered
  /\ polls' = [polls EXCEPT ![i] = Answer(Days)]
  /\ UNCHANGED <<server, fails, attempts, awaiting, surface, page, stay, picks, shown, check>>

\* It is shown when it arrives; nothing tells it from an older one.
PollArrives(i) ==
  /\ polls[i] # None /\ polls[i].answered
  /\ shown' = polls[i].days
  /\ polls' = [polls EXCEPT ![i] = None]
  /\ UNCHANGED <<server, fails, attempts, awaiting, surface, page, stay, picks, check>>

\* A failed poll takes away what was known: every day is on offer again.
PollFails(i) ==
  /\ polls[i] # None
  /\ fails < MaxFails /\ fails' = fails + 1
  /\ shown' = None
  /\ polls' = [polls EXCEPT ![i] = None]
  /\ UNCHANGED <<server, attempts, awaiting, surface, page, stay, picks, check>>

-----------------------------------------------------------------------------
(* The widget *)

\* excludeDisabled: a range over a day on show as taken cannot be picked.
Pick(s) ==
  /\ page = "unit" /\ picks < MaxPicks /\ picks' = picks + 1
  /\ s # stay /\ (s.from .. s.to) \cap Disabled = {}
  /\ stay' = s
  /\ UNCHANGED <<server, fails, attempts, awaiting, surface, page, polls, shown, check>>

\* goToCheckout: the range is checked against what is on show now.
GoToCheckout ==
  /\ page = "unit" /\ stay # None
  /\ stay.from < stay.to /\ NightsOf(stay) \cap Disabled = {}
  /\ page' = "checkout"
  /\ polls' = [i \in Slots |-> None] /\ shown' = None
  /\ UNCHANGED <<server, fails, attempts, awaiting, surface, stay, picks, check>>

-----------------------------------------------------------------------------
(* submitBooking of the checkout *)

Busy == check # None \/ awaiting # 0

\* The button: nights > 0.
Press ==
  /\ page = "checkout" /\ ~Busy
  /\ stay.from < stay.to
  /\ check' = Asked
  /\ UNCHANGED <<server, fails, attempts, awaiting,
                 surface, page, stay, picks, polls, shown>>

CheckAnswered ==
  /\ check # None /\ ~check.answered
  /\ check' = Answer(NightsOf(stay))
  /\ UNCHANGED <<server, fails, attempts, awaiting,
                 surface, page, stay, picks, polls, shown>>

CheckFails ==
  /\ check # None
  /\ fails < MaxFails /\ fails' = fails + 1
  /\ check' = None
  /\ UNCHANGED <<server, attempts, awaiting,
                 surface, page, stay, picks, polls, shown>>

\* Mutant: held nights are not looked at.
RefusedFirm(s, days) == NightsOf(s) \cap days \cap Firm # {}

\* A night of the stay is among blockedDates or heldDates.
Refused(s, days) == NightsOf(s) \cap days # {}

\* "These dates are no longer available."
TurnAway ==
  /\ check # None /\ check.answered /\ Refused(stay, check.days)
  /\ check' = None
  /\ UNCHANGED <<server, fails, attempts, awaiting,
                 surface, page, stay, picks, polls, shown>>

Send ==
  /\ check # None /\ check.answered /\ ~Refused(stay, check.days)
  /\ Submit(stay, check.days)
  /\ check' = None
  /\ UNCHANGED <<server, fails, surface, page, stay, picks, polls, shown>>

\* The answer is heard: the success screen, or a message and the button again.
Hear ==
  /\ awaiting # 0 /\ attempts[awaiting].verdict # None
  /\ awaiting' = 0
  /\ page' = IF attempts[awaiting].verdict = "accepted" THEN "done" ELSE page
  /\ UNCHANGED <<server, fails, attempts, surface, stay, picks, polls, shown, check>>

\* Back to the unit's page, whose widget starts anew.
Return ==
  /\ page = "checkout" /\ ~Busy
  /\ page' = "unit" /\ stay' = None /\ shown' = None /\ polls' = Mounted
  /\ UNCHANGED <<server, fails, attempts, awaiting, surface, picks, check>>

-----------------------------------------------------------------------------
\* A visit starts at a unit.  Until the first poll has arrived every range can
\* be picked, so a checkout whose address was kept is covered too.
Init ==
  /\ CalendarInit
  /\ surface \in Surfaces
  /\ page = "unit" /\ stay = None /\ polls = Mounted
  /\ picks = 0 /\ shown = None /\ check = None

Elsewhere ==
  /\ \/ \E i \in 1 .. MaxAttempts : Judge(surface, i)
     \/ GiveUp \/ WindowCloses
     \/ \E d \in Days : OthersMove(d)
  /\ UNCHANGED browser

Next ==
  \/ \E i \in Slots : Poll(i) \/ PollAnswered(i) \/ PollArrives(i) \/ PollFails(i)
  \/ \E s \in Picks : Pick(s)
  \/ GoToCheckout \/ Press \/ CheckAnswered \/ CheckFails \/ TurnAway \/ Send
  \/ Hear \/ Return
  \/ Elsewhere

Spec == Init /\ [][Next]_vars

-----------------------------------------------------------------------------
(* Properties *)

PollsOf == {None} \cup [answered : BOOLEAN, days : SUBSET Days]

TypeOK ==
  /\ CalendarTypeOK
  /\ surface \in Surfaces /\ page \in {"unit", "checkout", "done"}
  /\ stay \in Picks \cup {None} /\ picks \in 0 .. MaxPicks
  /\ polls \in [Slots -> PollsOf] /\ check \in PollsOf
  /\ shown \in {None} \cup SUBSET Days
  /\ page = "checkout" => stay # None
=============================================================================
