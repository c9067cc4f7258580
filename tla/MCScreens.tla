------------------------------ MODULE MCScreens ------------------------------
(***************************************************************************)
(* The platform's forms and the storefront in one run: a visit is to one   *)
(* of them, chosen with its surface at the start.                          *)
(***************************************************************************)
EXTENDS StayForms

CONSTANTS
  ShopSurfaces,  \* how the storefront's visitors are known
  ShopPicks,     \* bound: ranges picked in a visit to the storefront
  Slots          \* bound: polls under way at once

ASSUME ShopAssumption == ShopSurfaces \subseteq {"guest", "client"} /\ ShopPicks \in Nat

VARIABLES polls, shown, check

Shop == INSTANCE StorefrontStay WITH Surfaces <- ShopSurfaces, MaxPicks <- ShopPicks

formVars == <<cache, fetches, reviewed, gate, leaving>>
shopVars == <<polls, shown, check>>
screens == <<vars, shopVars>>

InShop == surface \in ShopSurfaces

MCInit ==
  \/ /\ Init
     /\ polls = [i \in Slots |-> None] /\ shown = None /\ check = None
  \/ /\ Shop!Init
     /\ cache = << >> /\ fetches = {} /\ reviewed = None
     /\ gate = {} /\ leaving = FALSE

MCNext ==
  \/ ~InShop /\ Next /\ UNCHANGED shopVars
  \/ InShop /\ Shop!Next /\ UNCHANGED formVars

\* The storefront's interval keeps asking, a poll under way is answered and
\* its answer arrives, in whatever order; nobody has to pick or press.
PollsGoOn(i) ==
  /\ WF_screens(InShop /\ Shop!Poll(i) /\ UNCHANGED formVars)
  /\ WF_screens(InShop /\ Shop!PollAnswered(i) /\ UNCHANGED formVars)
  /\ WF_screens(InShop /\ Shop!PollArrives(i) /\ UNCHANGED formVars)

VisitFairness == \A i \in Slots : PollsGoOn(i)

MCSpec == MCInit /\ [][MCNext]_screens /\ VisitFairness

-----------------------------------------------------------------------------
(* Properties *)

\* Every variable of the screen on show holds a value the code can give it.
ScreensTypeOK == IF InShop THEN Shop!TypeOK ELSE TypeOK

\* What the server answers to a request for the stay s now.
Grants(s) == (MayRepeat(surface) /\ Repeats(s)) \/ Accepts(surface, s)

\* The first step of the booking page says that the dates are not available;
\* the checkout's answer makes it say so.
TurnedAway ==
  /\ stay # None
  /\ \/ page = "details" /\ Blocked(StepKey("nights", stay)) # {}
     \/ InShop /\ check # None /\ check.answered /\ Shop!Refused(stay, check.days)

\* The converse of OfferedNightsGranted: a guest is turned away only from what
\* the server would refuse too, so that nobody loses a stay to a night that is
\* not part of it (the check-out day), to an answer about other dates, or to a
\* night that somebody only holds.  An answer may be older than a change, and
\* the checkout cannot tell the visit's own night from another guest's.
RefusalsJustified ==
  moves = 0 /\ (InShop => made = <<>>) /\ TurnedAway => ~Grants(stay)

\* What is sold as free is granted while nobody else takes it: a visit's first
\* request is refused only for a reason that came up after the offer.  On the
\* platform's booking page a night under a soft hold is such a reason although
\* it did not change: the page does not look at heldDates.
OfferedNightsGranted ==
  moves = 0 /\ surface # "convert" =>
    \A i \in DOMAIN attempts :
      attempts[i].verdict = "refused" =>
        \/ made # <<>>
        \/ surface = "platform" /\ \E d \in NightsOf(attempts[i].stay) : nights[d] = "held"

\* A visitor who stays on the storefront's page of a unit ends up seeing the
\* nights as they are: freed ones come back, taken ones go, in spite of failed
\* polls and of answers that overtake each other (useAvailability has no
\* sequence number; the interval repairs it).
CalendarSettles == <>[](InShop /\ page = "unit") => <>[](shown = Unavailable)
=============================================================================
