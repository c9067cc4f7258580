----------------------------- MODULE StayForms ------------------------------
(***************************************************************************)
(* The platform's forms that sell a stay of one unit: the guest's booking  *)
(* panel and the three steps of the booking page ("platform"), the panel   *)
(* that converts a lead ("convert") and the console's form for a booking   *)
(* ("quick").                                                              *)
(*                                                                         *)
(* Every form asks through the query cache: a question is a key, what the  *)
(* server answered last stays shown while it is asked again, and a key     *)
(* that was never answered shows nothing.  An answer keeps the nights that *)
(* were firmly taken when it was given (taken); a screen is told those of  *)
(* them between the first and the last night it asked about.  Entries      *)
(* nobody observes are forgotten at once instead of after ten minutes: one *)
(* that is found again is an old answer, and any answer on show may be.    *)
(***************************************************************************)
EXTENDS StayCalendar

CONSTANTS
  Surfaces,      \* the forms of a run
  MaxPicks       \* bound: dates picked in a visit

ASSUME FormsAssumption ==
  Surfaces \subseteq {"platform", "convert", "quick"} /\ MaxPicks \in Nat

VARIABLES
  surface,       \* the form of this visit
  page,          \* "unit", "details", "contact", "review", "form", "done"
  stay,          \* the dates picked, None without both
  picks,
  cache,         \* the answers, by key
  fetches,       \* keys a fetch is under way for
  reviewed,      \* pricingData: the key of the price the review shows
  gate,          \* nights of the stay taken in the answer that let it through
  leaving        \* router.push was called, the confirmation is loading

browser == <<surface, page, stay, picks, cache, fetches, reviewed, gate, leaving>>
vars == <<server, fails, attempts, awaiting, browser>>

-----------------------------------------------------------------------------
(* Keys: what a form asks about the stay s *)

Ask(kind, first, last) == [kind |-> kind, first |-> first, last |-> last]

Keys == {Ask(k, f, l) : k \in {"nights", "price", "list"}, f \in Days, l \in 0 .. LastDay}

\* The booking panel, the conversion and the console's form ask up to the
\* check-out day.
PanelKey(kind, s) == Ask(kind, s.from, s.to)

\* Mutants: the check-out day as the last night, the last night left out.
StepKeyWide(kind, s) == Ask(kind, s.from, s.to)
StepKeyShort(kind, s) == Ask(kind, s.from, IF s.to > s.from + 1 THEN s.to - 2 ELSE s.to - 1)

\* The first step of the booking page asks up to the last night.
StepKey(kind, s) == Ask(kind, s.from, s.to - 1)

\* The half-year the panel's calendar greys out.
WindowKey == Ask("nights", 1, LastDay)

\* The queries the mounted components observe; the price the panel shows on
\* the unit's page opens and closes nothing and is left out.
Observed(at, s) ==
  LET picked == s # None
  IN  CASE at = "unit" -> {WindowKey} \cup (IF picked THEN {PanelKey("nights", s)} ELSE {})
        [] at = "details" /\ picked -> {StepKey("nights", s), StepKey("price", s)}
        [] at = "form" /\ picked -> {PanelKey("nights", s)} \cup
             (IF surface # "convert" /\ s.from < s.to THEN {PanelKey("list", s)} ELSE {})
        [] OTHER -> {}

-----------------------------------------------------------------------------
(* What the forms show *)

Known(k) == k \in DOMAIN cache

\* blockedDates of the answer shown under k; none while nothing is shown.
Blocked(k) == IF Known(k) THEN cache[k].taken \cap (k.first .. k.last) ELSE {}

IsAvailable(k) == Known(k) /\ Blocked(k) = {}
IsLoading(k)   == ~Known(k) /\ k \in fetches

\* Mutant: the page keeps the last price until there is another.
PricingKept(at, s, known) ==
  IF at # "details" \/ s = None \/ StepKey("price", s) \notin known
  THEN reviewed ELSE StepKey("price", s)

\* Mutant: the effect passes on undefined where it means null.
PricingUndefined(at, s, known) ==
  IF at # "details" THEN reviewed
  ELSE IF s # None /\ StepKey("price", s) \in known THEN StepKey("price", s)
  ELSE << >>

\* The effect of the first step that hands its price to the page, null too.
Pricing(at, s, known) ==
  IF at # "details" THEN reviewed
  ELSE IF s # None /\ StepKey("price", s) \in known THEN StepKey("price", s)
  ELSE None

-----------------------------------------------------------------------------
(* The query cache *)

\* What the server answers to k; only nights and lists are looked into.
Answer(k) ==
  [taken  |-> IF k.kind = "price" THEN {} ELSE Firm,
   hidden |-> k.kind = "list" /\ ~Listed([from |-> k.first, to |-> k.last])]

\* An answer arrives; a range whose first night is after its last gets none.
\* It may be old the moment it is shown, so when it was given does not matter.
Arrive(k) ==
  /\ k.first <= k.last
  /\ fetches' = fetches \ {k}
  /\ cache' = [q \in DOMAIN cache \cup {k} |-> IF q = k THEN Answer(k) ELSE cache[q]]
  /\ reviewed' = Pricing(page, stay, DOMAIN cache')
  /\ UNCHANGED <<server, fails, attempts, awaiting, surface, page, stay, picks, gate, leaving>>

\* A fetch fails after its retry; what was shown stays.
Fail(k) ==
  /\ \/ k.first > k.last /\ UNCHANGED fails
     \/ fails < MaxFails /\ fails' = fails + 1
  /\ fetches' = fetches \ {k}
  /\ UNCHANGED <<server, attempts, awaiting,
                 surface, page, stay, picks, cache, reviewed, gate, leaving>>

\* The window is focused again: nights and prices are stale at once, a list
\* after two minutes.
Refocus ==
  /\ \E stale \in {{"nights", "price"}, {"nights", "price", "list"}} :
       fetches' = fetches \cup {k \in Observed(page, stay) : k.kind \in stale}
  /\ UNCHANGED <<server, fails, attempts, awaiting,
                 surface, page, stay, picks, cache, reviewed, gate, leaving>>

-----------------------------------------------------------------------------
(* The visitor *)

\* The component at is mounted, or has new dates s: its queries are fetched,
\* save those it observed already.
Show(at, s) ==
  LET now == Observed(at, s)
  IN  /\ page' = at /\ stay' = s
      /\ cache' = [k \in DOMAIN cache \cap now |-> cache[k]]
      /\ fetches' = (fetches \cap now)
           \cup (now \ (IF at = page THEN Observed(page, stay) ELSE {}))
      /\ reviewed' = Pricing(at, s, DOMAIN cache')

\* The panel's picker disables the days its calendar shows as blocked.
MayPick(s) ==
  (page = "unit" /\ s # None) => {s.from, s.to} \cap Blocked(WindowKey) = {}

Pick(s) ==
  /\ page \in {"unit", "details"} \/ (page = "form" /\ surface # "convert")
  /\ s # stay /\ picks < MaxPicks /\ picks' = picks + 1
  /\ MayPick(s)
  /\ Show(page, s)
  /\ UNCHANGED <<server, fails, attempts, awaiting, surface, gate, leaving>>

\* handleBookNow.
BookNow ==
  /\ page = "unit" /\ stay # None /\ IsAvailable(PanelKey("nights", stay))
  /\ Show("details", stay)
  /\ UNCHANGED <<server, fails, attempts, awaiting, surface, picks, gate, leaving>>

\* canContinue of the first step.
Continue ==
  /\ page = "details" /\ stay # None /\ IsAvailable(StepKey("nights", stay))
  /\ gate' = NightsOf(stay) \cap cache[StepKey("nights", stay)].taken
  /\ Show("contact", stay)
  /\ UNCHANGED <<server, fails, attempts, awaiting, surface, picks, leaving>>

\* The second step: signed in, or registered or logged in on the spot.
GiveContact ==
  /\ page = "contact"
  /\ Show("review", stay)
  /\ UNCHANGED <<server, fails, attempts, awaiting, surface, picks, gate, leaving>>

Back ==
  /\ awaiting = 0
  /\ \/ page = "contact" /\ Show("details", stay)
     \/ page = "review" /\ Show(IF reviewed = None THEN "details" ELSE "contact", stay)
  /\ UNCHANGED <<server, fails, attempts, awaiting, surface, picks, gate, leaving>>

\* handleSubmit of the review: submitInFlightRef and the disabled button.
SubmitReview ==
  /\ page = "review" /\ reviewed # None
  /\ Submit(stay, gate)
  /\ UNCHANGED <<server, fails, browser>>

\* A console form sends unless its re-check found a conflict or is loading;
\* a booking also needs its unit in the list of available ones.
FormOpen ==
  LET k == PanelKey("nights", stay)
      list == PanelKey("list", stay)
  IN  /\ page = "form" /\ stay # None
      /\ Blocked(k) = {} /\ ~IsLoading(k)
      /\ surface # "convert" =>
           /\ stay.from < stay.to
           /\ Known(list) /\ ~cache[list].hidden /\ list \notin fetches

SubmitForm ==
  /\ FormOpen
  /\ Submit(stay, LET k == PanelKey("nights", stay)
                  IN  IF Known(k) THEN cache[k].taken ELSE {})
  /\ UNCHANGED <<server, fails, browser>>

\* The answer is heard.  The in-flight mark is cleared at once; the console's
\* modal closes with it, the others go when the next screen has loaded.
Hear ==
  /\ awaiting # 0 /\ attempts[awaiting].verdict # None
  /\ awaiting' = 0
  /\ LET over == attempts[awaiting].verdict = "accepted"
     IN  /\ leaving' = (leaving \/ (over /\ surface # "quick"))
         /\ page' = IF over /\ surface = "quick" THEN "done" ELSE page
  /\ UNCHANGED <<server, fails, attempts,
                 surface, stay, picks, cache, fetches, reviewed, gate>>

Navigate ==
  /\ leaving
  /\ page' = "done" /\ leaving' = FALSE
  /\ UNCHANGED <<server, fails, attempts, awaiting,
                 surface, stay, picks, cache, fetches, reviewed, gate>>

-----------------------------------------------------------------------------
\* The booking page may be opened by its address, with any dates in it.
Init ==
  /\ CalendarInit
  /\ surface \in Surfaces
  /\ \/ surface = "platform" /\ page = "unit" /\ stay = None
     \/ surface = "platform" /\ page = "details" /\ stay \in Picks
     \/ surface = "convert" /\ page = "form" /\ stay \in {s \in Picks : s.from < s.to}
     \/ surface = "quick" /\ page = "form" /\ stay = None
  /\ fetches = Observed(page, stay)
  /\ picks = 0 /\ cache = << >> /\ reviewed = None /\ gate = {} /\ leaving = FALSE

FetchStep == \E k \in fetches : Arrive(k)

Elsewhere ==
  /\ \/ \E i \in 1 .. MaxAttempts : Judge(surface, i)
     \/ GiveUp \/ WindowCloses
     \/ \E d \in Days : OthersMove(d)
  /\ UNCHANGED browser

Next ==
  \/ FetchStep
  \/ \E k \in fetches : Fail(k)
  \/ Refocus
  \/ \E s \in Picks : Pick(s)
  \/ BookNow \/ Continue \/ GiveContact \/ Back \/ SubmitReview \/ SubmitForm
  \/ Hear \/ Navigate
  \/ Elsewhere

Spec == Init /\ [][Next]_vars

-----------------------------------------------------------------------------
(* Properties *)

TypeOK ==
  /\ CalendarTypeOK
  /\ surface \in Surfaces
  /\ page \in {"unit", "details", "contact", "review", "form", "done"}
  /\ stay \in Picks \cup {None} /\ picks \in 0 .. MaxPicks
  /\ page \in {"contact", "review"} => stay # None
  /\ DOMAIN cache \subseteq Keys
  /\ \A k \in DOMAIN cache : cache[k] \in [taken : SUBSET Days, hidden : BOOLEAN]
  /\ fetches \subseteq Keys
  /\ reviewed \in Keys \cup {None}
  /\ gate \subseteq Days /\ leaving \in BOOLEAN

\* The review shows the price of the stay it sends, never that of dates the
\* guest has left (pricingData beside startDate and endDate).
ReviewedIsThisStay ==
  page = "review" /\ reviewed # None => reviewed = StepKey("price", stay)

\* However often a guest presses the button or answers get lost, no night is
\* requested twice by the same visit, and a lead becomes one booking
\* (CreateQuickAsync's duplicate window, rejectSoftHoldOverlaps).  The staff
\* may ask for the same nights twice on purpose.
NightsRequestedOnce ==
  surface # "quick" =>
    \A i, j \in DOMAIN made :
      i # j => NightsOf(made[i].stay) \cap NightsOf(made[j].stay) = {}
=============================================================================
