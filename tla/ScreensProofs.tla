---------------------------- MODULE ScreensProofs ----------------------------
(***************************************************************************)
(* The screens that sell a stay, for any number of days, requests, polls,  *)
(* failures and changes made by others.                                    *)
(*                                                                         *)
(* None of the properties is inductive.  What a screen sends was checked   *)
(* when it was picked or answered, several steps before it is sent, so the *)
(* invariant says what each page knows about its stay (FormView,           *)
(* ShopView).  What the server grants depends on the nights of the moment; *)
(* while nobody has moved one (Steady) every answer a screen holds is      *)
(* still the present one: what it sends is still free when it is judged    *)
(* (Granted), and what it turns a guest away from would be refused.        *)
(***************************************************************************)
EXTENDS MCScreens, SequenceTheorems, TLAPS

\* Other people have not changed the nights; nor has the visit itself, where
\* its own rows count: the platform's booking page and the console's form look
\* at firm nights only, and their requests hold softly.
Steady == moves = 0 /\ (InShop \/ surface = "convert" => made = <<>>)

\* At most free nights have become held, and not in the storefront.
Calm ==
  /\ withdrawn' = withdrawn /\ (InShop => nights' = nights)
  /\ \A d \in Days : nights'[d] # nights[d] => nights[d] = "free" /\ nights'[d] = "held"

OwnNightsHeld ==
  \A d \in Own : nights[d] = (IF surface = "convert" THEN "booked" ELSE "held")

\* What a surface has seen of the nights of a stay it sends.
Offered(s) ==
  NightsOf(s) \cap (IF InShop THEN Unavailable ELSE Firm) = {}

Granted ==
  Steady /\ surface # "convert" => \A i \in DOMAIN attempts : Offered(attempts[i].stay)

CalendarInv ==
  /\ CalendarTypeOK /\ surface \in Surfaces \cup ShopSurfaces
  /\ OnlyFreeNightsSent /\ OwnNightsHeld /\ NightsRequestedOnce
  /\ Granted /\ OfferedNightsGranted
  /\ moves = 0 => withdrawn = {}

-----------------------------------------------------------------------------
(* The calendar *)

LEMMA PickNights ==
  ASSUME NEW s \in Picks
  PROVE  NightsOf(s) \subseteq Days /\ s.from \in Days /\ s.to \in Days
BY BoundsAssumption DEF Picks, NightsOf, Days

\* Rows and requests are only ever added.
LEMMA Appended ==
  ASSUME NEW S, NEW q \in Seq(S), NEW e \in S
  PROVE  /\ Append(q, e) \in Seq(S) /\ Append(q, e) # <<>>
         /\ DOMAIN Append(q, e) = DOMAIN q \cup {Len(q) + 1}
         /\ \A i \in DOMAIN q : i # Len(q) + 1 /\ Append(q, e)[i] = q[i] /\ q[i] \in S
         /\ Append(q, e)[Len(q) + 1] = e /\ Len(Append(q, e)) = Len(q) + 1
OBVIOUS

\* What rows and requests are about.
LEMMA RowStays ==
  ASSUME CalendarTypeOK
  PROVE  /\ \A i \in DOMAIN made : made[i] \in MadeRow /\ made[i].stay \in Picks
         /\ \A i \in DOMAIN attempts : attempts[i] \in AttemptRow /\ attempts[i].stay \in Picks
<1>1. made \in Seq(MadeRow) /\ attempts \in Seq(AttemptRow)
  BY DEF CalendarTypeOK
<1>2. \A i \in DOMAIN made : made[i] \in MadeRow
  BY <1>1
<1>3. \A i \in DOMAIN attempts : attempts[i] \in AttemptRow
  BY <1>1
<1> QED BY <1>2, <1>3 DEF MadeRow, AttemptRow

\* A step that leaves the nights, the rows and the requests alone.
LEMMA QuietStep ==
  ASSUME CalendarInv, UNCHANGED <<server, attempts, surface>>,
         fails' \in 0 .. MaxFails, awaiting' \in 0 .. Len(attempts)
  PROVE  CalendarInv' /\ (Steady' <=> Steady)
<1>1. UNCHANGED <<nights, withdrawn, moves, made, attempts, surface>>
  BY DEF server
<1>2. CalendarTypeOK'
  BY <1>1 DEF CalendarInv, CalendarTypeOK
<1>3. OnlyFreeNightsSent' /\ OfferedNightsGranted' /\ NightsRequestedOnce' /\ OwnNightsHeld'
  BY <1>1 DEF CalendarInv, OnlyFreeNightsSent, OwnNightsHeld, Own, NightsRequestedOnce,
     OfferedNightsGranted
<1>4. Granted' /\ (Steady' <=> Steady)
  BY <1>1 DEF CalendarInv, Granted, Offered, Steady, Firm, Unavailable, InShop
<1> QED BY <1>1, <1>2, <1>3, <1>4 DEF CalendarInv

LEMMA SubmitStep ==
  ASSUME CalendarInv, UNCHANGED <<server, fails, surface>>,
         NEW s \in Picks, NEW known, Submit(s, known),
         s.from < s.to, NightsOf(s) \cap known = {},
         Steady /\ surface # "convert" => Offered(s)
  PROVE  CalendarInv' /\ (Steady' <=> Steady)
<1> DEFINE a == [stay |-> s, taken |-> NightsOf(s) \cap known, verdict |-> None]
<1>1. a \in AttemptRow /\ attempts' = Append(attempts, a) /\ attempts \in Seq(AttemptRow)
  BY PickNights DEF Submit, CalendarInv, CalendarTypeOK, AttemptRow
<1>2. NightsOf(s) # {}
  <2>1. s.from \in NightsOf(s)
    BY BoundsAssumption DEF NightsOf, Picks, Days
  <2> QED BY <2>1
<1>3. CalendarTypeOK'
  BY <1>1, Appended DEF Submit, CalendarInv, CalendarTypeOK, server
<1>4. OnlyFreeNightsSent'
  BY <1>1, <1>2, Appended DEF OnlyFreeNightsSent, CalendarInv
<1>5. Granted'
  BY <1>1, Appended DEF Granted, CalendarInv, Steady, Offered, server, Firm, Unavailable, InShop
<1>6. OfferedNightsGranted'
  <2>1. a.verdict # "refused"
    BY NoneAssumption DEF a
  <2> QED BY <1>1, <2>1, Appended DEF OfferedNightsGranted, CalendarInv, server
<1>7. OwnNightsHeld' /\ NightsRequestedOnce' /\ (moves' = 0 => withdrawn' = {})
  BY DEF CalendarInv, server, OwnNightsHeld, Own, NightsRequestedOnce
<1> QED BY <1>3, <1>4, <1>5, <1>6, <1>7 DEF CalendarInv, Steady, InShop, server

\* A row is added by a verdict.
LEMMA HoldingHolds ==
  ASSUME nights \in [Days -> {"free", "held", "booked", "blocked"}], NEW s \in Picks
  PROVE  /\ Holding(surface, s) \in [Days -> {"free", "held", "booked", "blocked"}]
         /\ \A d \in Days \ NightsOf(s) : Holding(surface, s)[d] = nights[d]
         /\ NightsAllow(surface, s) \/ surface = "convert" =>
              \A d \in NightsOf(s) :
                Holding(surface, s)[d] = (IF surface = "convert" THEN "booked" ELSE "held")
BY PickNights DEF Holding, NightsAllow, Firm, Unavailable

\* What the server refuses although it was offered.
LEMMA RefusedOffer ==
  ASSUME CalendarInv, Steady, surface # "convert",
         NEW i \in DOMAIN attempts, ~Accepts(surface, attempts[i].stay)
  PROVE  surface = "platform" /\ \E d \in NightsOf(attempts[i].stay) : nights[d] = "held"
<1> DEFINE s == attempts[i].stay
<1>1. s \in Picks /\ s.from < s.to
  <2>1. s \in Picks
    BY RowStays DEF CalendarInv
  <2>2. NightsOf(s) # {}
    BY DEF CalendarInv, OnlyFreeNightsSent
  <2>3. s.from \in Nat /\ s.to \in Nat
    BY <2>1, PickNights, BoundsAssumption DEF Days
  <2> QED BY <2>1, <2>2, <2>3 DEF NightsOf
<1>2. Offered(s) /\ MayRepeat(surface)
  BY FormsAssumption DEF CalendarInv, Granted, Steady, MayRepeat, InShop
<1>3. ~NightsAllow(surface, s)
  BY <1>1, <1>2 DEF Accepts
<1>4. CASE InShop
  BY <1>2, <1>3, <1>4 DEF Offered, NightsAllow, InShop, Firm, Unavailable, Days
<1>5. CASE ~InShop
  <2>1. surface \in {"platform", "quick"}
    BY <1>5, FormsAssumption DEF CalendarInv, InShop
  <2>2. NightsOf(s) \cap Firm = {}
    BY <1>2, <1>5 DEF Offered
  <2>3. surface = "platform"
    BY <1>3, <2>1, <2>2 DEF NightsAllow
  <2>4. PICK d \in NightsOf(s) : d \in Unavailable
    BY <1>3, <2>3 DEF NightsAllow
  <2> QED BY <2>2, <2>3, <2>4 DEF Unavailable, Firm, CalendarInv, CalendarTypeOK
<1> QED BY <1>4, <1>5

LEMMA JudgeStep ==
  ASSUME CalendarInv, UNCHANGED surface, NEW i \in 1 .. MaxAttempts, Judge(surface, i)
  PROVE  /\ CalendarInv'
         /\ Steady' => Steady /\ Calm
<1> DEFINE s == attempts[i].stay
           known == MayRepeat(surface) /\ Repeats(s)
           accepted == known \/ Accepts(surface, s)
           row == [stay |-> s, fresh |-> TRUE]
<1>1. /\ i \in DOMAIN attempts
      /\ attempts' = [attempts EXCEPT ![i].verdict = IF accepted THEN "accepted" ELSE "refused"]
      /\ UNCHANGED <<withdrawn, moves, fails, awaiting>>
  BY DEF Judge
<1>2. s \in Picks
  BY <1>1, RowStays DEF CalendarInv
<1>3. /\ attempts' \in Seq(AttemptRow)
      /\ DOMAIN attempts' = DOMAIN attempts /\ Len(attempts') = Len(attempts)
      /\ \A j \in DOMAIN attempts : /\ attempts'[j].stay = attempts[j].stay
                                    /\ attempts'[j].taken = attempts[j].taken
                                    /\ j # i => attempts'[j] = attempts[j]
      /\ attempts'[i].verdict = IF accepted THEN "accepted" ELSE "refused"
  <2> DEFINE v == IF accepted THEN "accepted" ELSE "refused"
             a == [attempts[i] EXCEPT !.verdict = v]
  <2>1. attempts \in Seq(AttemptRow) /\ v \in {"accepted", "refused"}
    BY DEF CalendarInv, CalendarTypeOK
  <2>2. attempts' = [attempts EXCEPT ![i] = a]
    BY <1>1
  <2>3. attempts[i] \in AttemptRow
    BY <1>1, <2>1
  <2>4. a \in AttemptRow /\ a.stay = attempts[i].stay /\ a.taken = attempts[i].taken /\ a.verdict = v
    <3> HIDE DEF v
    <3> QED BY <2>1, <2>3 DEF AttemptRow
  <2> HIDE DEF a
  <2>5. DOMAIN attempts' = DOMAIN attempts /\ Len(attempts') = Len(attempts)
        /\ attempts' \in Seq(AttemptRow)
        /\ attempts'[i] = a /\ \A j \in DOMAIN attempts : j # i => attempts'[j] = attempts[j]
    BY <1>1, <2>1, <2>2, <2>4
  <2> QED BY <2>4, <2>5
<1> HIDE DEF known, accepted, s
<1>4. OnlyFreeNightsSent'
  BY <1>3 DEF OnlyFreeNightsSent, CalendarInv
<1>5. CASE accepted /\ ~known
  <2>1. made' = Append(made, row) /\ nights' = Holding(surface, s) /\ Accepts(surface, s)
    BY <1>5 DEF Judge, s, accepted, known
  <2>2. /\ made' \in Seq(MadeRow) /\ made' # <<>>
        /\ DOMAIN made' = DOMAIN made \cup {Len(made) + 1}
        /\ \A j \in DOMAIN made : j # Len(made) + 1 /\ made'[j] = made[j]
        /\ made'[Len(made) + 1] = row
    <3>1. made \in Seq(MadeRow) /\ row \in MadeRow
      BY <1>2 DEF CalendarInv, CalendarTypeOK, MadeRow
    <3> QED BY <2>1, <3>1, Appended
  <2>3. /\ nights' \in [Days -> {"free", "held", "booked", "blocked"}]
        /\ \A d \in NightsOf(s) : nights'[d] = (IF surface = "convert" THEN "booked" ELSE "held")
        /\ \A d \in Days \ NightsOf(s) : nights'[d] = nights[d]
    BY <1>2, <2>1, HoldingHolds DEF CalendarInv, CalendarTypeOK, Accepts
  <2>4. CalendarTypeOK'
    BY <1>1, <1>3, <2>2, <2>3 DEF CalendarTypeOK, CalendarInv
  <2>5. Own' = Own \cup NightsOf(s) /\ Own \subseteq Days
    <3>1. Own \subseteq Days
      BY PickNights, RowStays DEF Own, CalendarInv
    <3>2. \A j \in DOMAIN made : made'[j].stay = made[j].stay
      BY <2>2
    <3>3. made'[Len(made) + 1].stay = s
      BY <2>2
    <3> QED BY <2>2, <3>1, <3>2, <3>3 DEF Own
  <2>6. OwnNightsHeld'
    BY <2>3, <2>5 DEF OwnNightsHeld, CalendarInv
  <2>7. surface # "quick" => NightsOf(s) \cap Own = {}
    <3>1. CASE surface \in {"guest", "convert"}
      BY <2>1, <3>1 DEF Accepts, MayRepeat, Own
    <3>2. CASE surface \in {"platform", "client"}
      BY <2>1, <3>2, <2>5 DEF Accepts, NightsAllow, Unavailable, CalendarInv, OwnNightsHeld
    <3> QED BY <3>1, <3>2, FormsAssumption, ShopAssumption DEF CalendarInv
  <2>8. NightsRequestedOnce'
    <3> SUFFICES ASSUME surface # "quick", NEW j \in DOMAIN made', NEW k \in DOMAIN made', j # k
                 PROVE  NightsOf(made'[j].stay) \cap NightsOf(made'[k].stay) = {}
      BY DEF NightsRequestedOnce
    <3>1. \A h \in DOMAIN made : made'[h].stay = made[h].stay /\ NightsOf(made[h].stay) \subseteq Own
      BY <2>2 DEF Own
    <3>2. made'[Len(made) + 1].stay = s
      BY <2>2
    <3>3. CASE j \in DOMAIN made /\ k \in DOMAIN made
      BY <3>1, <3>3 DEF CalendarInv, NightsRequestedOnce
    <3>4. CASE j = Len(made) + 1 /\ k \in DOMAIN made
      BY <2>7, <3>1, <3>2, <3>4
    <3>5. CASE k = Len(made) + 1 /\ j \in DOMAIN made
      BY <2>7, <3>1, <3>2, <3>5
    <3> QED BY <2>2, <3>3, <3>4, <3>5
  <2>9. surface # "convert" =>
          \A d \in Days : nights'[d] # nights[d] => nights[d] = "free" /\ nights'[d] = "held"
    <3>1. surface # "convert" => \A d \in NightsOf(s) : d \in Days => nights[d] \in {"free", "held"}
      BY <2>1 DEF Accepts, NightsAllow, Firm, Unavailable, CalendarInv, CalendarTypeOK
    <3> QED BY <2>3, <3>1
  <2>10. Steady' => Steady /\ Calm /\ ~InShop /\ surface # "convert"
    BY <1>1, <2>2, <2>9 DEF Steady, Calm, InShop
  <2>11. Granted'
    <3>1. Steady' => Firm' = Firm
      BY <2>10 DEF Firm, Calm
    <3> QED BY <1>3, <2>10, <3>1 DEF Granted, CalendarInv, Offered, InShop
  <2> QED BY <1>1, <1>4, <2>2, <2>4, <2>6, <2>8, <2>10, <2>11
      DEF CalendarInv, OfferedNightsGranted
<1>6. CASE ~(accepted /\ ~known)
  <2>1. UNCHANGED <<made, nights>>
    BY <1>6 DEF Judge, s, accepted, known
  <2>2. CalendarTypeOK'
    BY <1>1, <1>3, <2>1 DEF CalendarTypeOK, CalendarInv
  <2>3. OwnNightsHeld' /\ NightsRequestedOnce' /\ (moves' = 0 => withdrawn' = {})
    BY <1>1, <2>1 DEF CalendarInv, OwnNightsHeld, Own, NightsRequestedOnce
  <2>4. Steady' <=> Steady
    BY <1>1, <2>1 DEF Steady, InShop
  <2>5. \A t : Offered(t)' <=> Offered(t)
    BY <2>1 DEF Offered, InShop, Unavailable, Firm
  <2>6. Granted'
    BY <1>3, <2>4, <2>5 DEF Granted, CalendarInv
  <2>7. OfferedNightsGranted'
    <3> SUFFICES ASSUME moves = 0, surface # "convert", made = <<>>, NEW j \in DOMAIN attempts,
                        attempts'[j].verdict = "refused"
                 PROVE  surface = "platform" /\ \E d \in NightsOf(attempts[j].stay) : nights[d] = "held"
      BY <1>1, <1>3, <2>1 DEF OfferedNightsGranted
    <3>1. CASE j # i
      BY <1>3, <3>1 DEF OfferedNightsGranted, CalendarInv
    <3>2. CASE j = i
      BY <1>1, <1>3, <3>2, RefusedOffer DEF accepted, s, Steady
    <3> QED BY <3>1, <3>2
  <2> QED BY <1>1, <1>4, <2>1, <2>2, <2>3, <2>4, <2>6, <2>7 DEF CalendarInv, Calm
<1> QED BY <1>5, <1>6

LEMMA OthersStep ==
  ASSUME CalendarInv, UNCHANGED surface, NEW d \in Days, OthersMove(d)
  PROVE  CalendarInv' /\ ~Steady'
<1>1. moves' = moves + 1 /\ moves' \in 0 .. MaxMoves /\ moves \in Nat
  BY BoundsAssumption DEF OthersMove, CalendarInv, CalendarTypeOK
<1>2. PICK now \in {"free"} \cup Takings : nights' = [nights EXCEPT ![d] = now]
  BY DEF OthersMove
<1>3. CalendarTypeOK'
  BY <1>1, <1>2, TakingsAssumption DEF OthersMove, CalendarInv, CalendarTypeOK
<1>4. OwnNightsHeld'
  BY <1>2 DEF OthersMove, CalendarInv, OwnNightsHeld, Own, CalendarTypeOK
<1>5. moves' # 0
  BY <1>1
<1>6. OnlyFreeNightsSent' /\ NightsRequestedOnce'
  BY DEF OthersMove, CalendarInv, OnlyFreeNightsSent, NightsRequestedOnce
<1> QED BY <1>3, <1>4, <1>5, <1>6 DEF CalendarInv, Granted, OfferedNightsGranted, Steady

LEMMA WindowStep ==
  ASSUME CalendarInv, UNCHANGED surface, WindowCloses
  PROVE  CalendarInv' /\ (Steady' => Steady) /\ Calm
<1>1. PICK i \in DOMAIN made : made[i].fresh /\ made' = [made EXCEPT ![i].fresh = FALSE]
  BY DEF WindowCloses
<1>2. /\ made' \in Seq(MadeRow) /\ DOMAIN made' = DOMAIN made
      /\ \A j \in DOMAIN made : made'[j].stay = made[j].stay
      /\ made # <<>> /\ made' # <<>>
  <2> DEFINE row == [made[i] EXCEPT !.fresh = FALSE]
  <2>1. made \in Seq(MadeRow) /\ made[i] \in MadeRow
    BY DEF CalendarInv, CalendarTypeOK
  <2>2. row \in MadeRow /\ row.stay = made[i].stay /\ made' = [made EXCEPT ![i] = row]
    BY <1>1, <2>1 DEF MadeRow
  <2> HIDE DEF row
  <2> QED BY <2>1, <2>2
<1>3. Own' = Own
  BY <1>2 DEF Own
<1> QED BY <1>2, <1>3 DEF WindowCloses, CalendarInv, CalendarTypeOK, OwnNightsHeld, OnlyFreeNightsSent,
        NightsRequestedOnce, Granted, Offered, Firm, Unavailable, InShop, OfferedNightsGranted,
        Steady, Calm

LEMMA ElsewhereStep ==
  ASSUME CalendarInv, Elsewhere
  PROVE  /\ CalendarInv' /\ UNCHANGED surface
         /\ Steady' => Steady /\ Calm
<1>1. UNCHANGED surface
  BY DEF Elsewhere, browser
<1>2. CASE \E i \in 1 .. MaxAttempts : Judge(surface, i)
  BY <1>1, <1>2, JudgeStep
<1>3. CASE GiveUp
  <2>1. 0 \in 0 .. Len(attempts)
    BY DEF CalendarInv, CalendarTypeOK
  <2> QED BY <1>1, <1>3, <2>1, QuietStep DEF GiveUp, CalendarInv, CalendarTypeOK, server, Calm
<1>4. CASE WindowCloses
  BY <1>1, <1>4, WindowStep
<1>5. CASE \E d \in Days : OthersMove(d)
  BY <1>1, <1>5, OthersStep
<1> QED BY <1>1, <1>2, <1>3, <1>4, <1>5 DEF Elsewhere

-----------------------------------------------------------------------------
(* The forms of the platform *)

Fresh(k) == Steady => cache[k] = Answer(k)

BookingPages == {"contact", "review"}

\* While nobody moves a night every answer on show is the present one; the
\* price handed to the page is the one of its dates; past the first step the
\* stay has nights and none of them was taken.
FormView ==
  /\ surface = "convert" => page \in {"form", "done"} /\ stay # None /\ stay.from < stay.to
  /\ \A k \in DOMAIN cache : k.first <= k.last /\ Fresh(k)
  /\ page \in BookingPages \cup {"details"} /\ reviewed # None =>
       stay # None /\ reviewed = StepKey("price", stay)
  /\ page \in BookingPages =>
       /\ stay.from < stay.to /\ gate = {}
       /\ Steady => NightsOf(stay) \cap Firm = {}

FormInv == ~InShop /\ CalendarInv /\ TypeOK /\ FormView

LEMMA KeyTypes ==
  ASSUME NEW s \in Picks \cup {None}
  PROVE  /\ \A at : Observed(at, s) \subseteq Keys
         /\ s # None => \A kind \in {"nights", "price", "list"} :
              StepKey(kind, s) \in Keys /\ PanelKey(kind, s) \in Keys
<1>1. WindowKey \in Keys
  BY BoundsAssumption DEF WindowKey, Keys, Ask, Days
<1>2. ASSUME s # None, NEW kind \in {"nights", "price", "list"}
      PROVE  StepKey(kind, s) \in Keys /\ PanelKey(kind, s) \in Keys
  <2>1. s.from \in Days /\ s.to \in Days /\ s.to \in 0 .. LastDay /\ s.to - 1 \in 0 .. LastDay
    BY <1>2, PickNights, BoundsAssumption DEF Days
  <2> QED BY <2>1 DEF StepKey, PanelKey, Keys, Ask
<1> QED BY <1>1, <1>2 DEF Observed

LEMMA CalmQuiet == UNCHANGED <<nights, withdrawn>> => Calm
BY DEF Calm

\* What the server would answer a form has not changed.
LEMMA SameAnswers ==
  ASSUME Calm
  PROVE  Firm' = Firm /\ \A k \in Keys : Answer(k)' = Answer(k)
<1>1. Firm' = Firm
  BY DEF Calm, Firm
<1>2. ASSUME NEW k \in Keys
      PROVE  Answer(k)' = Answer(k)
  <2> DEFINE s == [from |-> k.first, to |-> k.last]
  <2>1. s.from .. s.to \subseteq Days /\ NightsOf(s) \subseteq Days
    BY BoundsAssumption DEF Keys, Ask, Days, NightsOf
  <2>2. Listed(s)' <=> Listed(s)
    BY <2>1 DEF Listed, Calm, NightsOf
  <2> QED BY <1>1, <2>2 DEF Answer
<1> QED BY <1>1, <1>2

\* A step that shows nothing new.
LEMMA FormQuiet ==
  ASSUME FormInv, CalendarInv', Steady' => Steady /\ Calm,
         UNCHANGED <<surface, stay, picks, cache, reviewed, gate>>,
         page' \in {page, "done"}, fetches' \subseteq Keys, leaving' \in BOOLEAN
  PROVE  FormInv'
<1>1. ~InShop'
  BY DEF FormInv, InShop
<1>2. TypeOK'
  BY DEF FormInv, CalendarInv, TypeOK
<1>3. \A k \in DOMAIN cache' : k.first <= k.last /\ Fresh(k)'
  BY SameAnswers DEF FormInv, FormView, Fresh, TypeOK
<1>4. FormView'
  BY <1>3, SameAnswers DEF FormInv, FormView, BookingPages, StepKey, Ask, NightsOf
<1> QED BY <1>1, <1>2, <1>4 DEF FormInv

\* A step that mounts a component or shows it new dates.
LEMMA ShowStep ==
  ASSUME FormInv, NEW at \in {"unit", "details", "contact", "review", "form"},
         NEW s \in Picks \cup {None}, Show(at, s),
         UNCHANGED <<server, fails, attempts, awaiting, surface>>
  PROVE  /\ ~InShop' /\ CalendarInv' /\ (Steady' <=> Steady) /\ UNCHANGED <<nights, withdrawn>>
         /\ page' = at /\ stay' = s
         /\ DOMAIN cache' \subseteq Keys
         /\ \A k \in DOMAIN cache' :
              k \in DOMAIN cache /\ cache'[k] \in [taken : SUBSET Days, hidden : BOOLEAN]
         /\ \A k \in DOMAIN cache' : k.first <= k.last /\ Fresh(k)'
         /\ fetches' \subseteq Keys /\ reviewed' \in Keys \cup {None}
         /\ at = "details" /\ reviewed' # None => s # None /\ reviewed' = StepKey("price", s)
         /\ at # "details" => reviewed' = reviewed
<1>1. CalendarInv' /\ (Steady' <=> Steady)
  BY QuietStep DEF FormInv, CalendarInv, CalendarTypeOK
<1>2. ~InShop' /\ UNCHANGED <<nights, withdrawn>>
  BY DEF FormInv, InShop, server
<1>3. DOMAIN cache' \subseteq DOMAIN cache /\ \A k \in DOMAIN cache' : cache'[k] = cache[k]
  BY DEF Show
<1>4. DOMAIN cache' \subseteq Keys
      /\ \A k \in DOMAIN cache' : cache'[k] \in [taken : SUBSET Days, hidden : BOOLEAN]
  BY <1>3 DEF FormInv, TypeOK
<1>5. \A k \in DOMAIN cache' : k.first <= k.last /\ Fresh(k)'
  BY <1>1, <1>2, <1>3, SameAnswers, CalmQuiet DEF FormInv, FormView, Fresh, TypeOK
<1>6. fetches' \subseteq Keys
  BY KeyTypes DEF Show, FormInv, TypeOK
<1>7. reviewed' \in Keys \cup {None}
  BY KeyTypes DEF Show, Pricing, FormInv, TypeOK
<1> QED BY <1>1, <1>2, <1>3, <1>4, <1>5, <1>6, <1>7 DEF Show, Pricing

LEMMA ArriveStep ==
  ASSUME FormInv, NEW k \in fetches, Arrive(k)
  PROVE  FormInv'
<1>1. CalendarInv' /\ (Steady' <=> Steady) /\ UNCHANGED <<nights, withdrawn>> /\ ~InShop'
  BY QuietStep DEF Arrive, FormInv, CalendarInv, CalendarTypeOK, server, InShop
<1>2. k \in Keys /\ k.first <= k.last
  BY DEF Arrive, FormInv, TypeOK
<1>3. Answer(k) \in [taken : SUBSET Days, hidden : BOOLEAN]
  BY DEF Answer, Firm
<1>4. /\ DOMAIN cache' = DOMAIN cache \cup {k} /\ cache'[k] = Answer(k)
      /\ \A q \in DOMAIN cache : q # k => cache'[q] = cache[q]
  BY DEF Arrive
<1>5. reviewed' \in Keys \cup {None}
  BY KeyTypes DEF Arrive, Pricing, FormInv, TypeOK
<1>6. TypeOK'
  BY <1>1, <1>2, <1>3, <1>4, <1>5 DEF Arrive, FormInv, TypeOK, CalendarInv
<1>7. \A q \in DOMAIN cache' : q.first <= q.last /\ Fresh(q)'
  BY <1>1, <1>2, <1>4, SameAnswers, CalmQuiet DEF FormInv, FormView, Fresh, TypeOK
<1>8. page' \in BookingPages \cup {"details"} /\ reviewed' # None =>
        stay' # None /\ reviewed' = StepKey("price", stay')
  BY DEF Arrive, Pricing, FormInv, FormView
<1>9. FormView'
  BY <1>1, <1>7, <1>8, SameAnswers, CalmQuiet DEF Arrive, FormInv, FormView, BookingPages, NightsOf
<1> QED BY <1>1, <1>6, <1>9 DEF FormInv

LEMMA FailStep ==
  ASSUME FormInv, NEW k \in fetches, Fail(k)
  PROVE  FormInv'
<1>1. CalendarInv' /\ (Steady' <=> Steady) /\ UNCHANGED <<nights, withdrawn>>
  BY QuietStep, BoundsAssumption DEF Fail, FormInv, CalendarInv, CalendarTypeOK, server
<1> QED BY <1>1, FormQuiet, CalmQuiet DEF Fail, FormInv, TypeOK

LEMMA RefocusStep ==
  ASSUME FormInv, Refocus
  PROVE  FormInv'
<1>1. CalendarInv' /\ (Steady' <=> Steady) /\ UNCHANGED <<nights, withdrawn>>
  BY QuietStep DEF Refocus, FormInv, CalendarInv, CalendarTypeOK, server
<1>2. fetches' \subseteq Keys
  BY KeyTypes DEF Refocus, FormInv, TypeOK
<1> QED BY <1>1, <1>2, FormQuiet, CalmQuiet DEF Refocus, FormInv, TypeOK

LEMMA PickStep ==
  ASSUME FormInv, NEW s \in Picks, Pick(s)
  PROVE  FormInv'
<1>1. page \in {"unit", "details", "form"} /\ Show(page, s) /\ surface # "convert"
      /\ picks' \in 0 .. MaxPicks
      /\ UNCHANGED <<server, fails, attempts, awaiting, surface, gate, leaving>>
  BY FormsAssumption DEF Pick, FormInv, FormView, TypeOK
<1>2. TypeOK'
  BY <1>1, ShowStep DEF FormInv, TypeOK, CalendarInv
<1>3. FormView'
  BY <1>1, ShowStep DEF FormView, BookingPages
<1> QED BY <1>1, <1>2, <1>3, ShowStep DEF FormInv

LEMMA BookNowStep ==
  ASSUME FormInv, BookNow
  PROVE  FormInv'
<1>1. page = "unit" /\ stay \in Picks /\ Show("details", stay)
      /\ UNCHANGED <<server, fails, attempts, awaiting, surface, picks, gate, leaving>>
  BY DEF BookNow, FormInv, TypeOK
<1>2. TypeOK'
  BY <1>1, ShowStep DEF FormInv, TypeOK, CalendarInv
<1>3. FormView'
  BY <1>1, ShowStep DEF FormInv, FormView, BookingPages
<1> QED BY <1>1, <1>2, <1>3, ShowStep DEF FormInv

\* What the first step lets through.
LEMMA FreeStay ==
  ASSUME FormInv, stay # None, IsAvailable(StepKey("nights", stay))
  PROVE  /\ stay \in Picks /\ stay.from < stay.to
         /\ NightsOf(stay) \cap cache[StepKey("nights", stay)].taken = {}
         /\ Steady => NightsOf(stay) \cap Firm = {}
<1> DEFINE k == StepKey("nights", stay)
<1>1. stay \in Picks /\ stay.from \in Nat /\ stay.to \in Nat
  BY PickNights, BoundsAssumption DEF FormInv, TypeOK, Days
<1>2. k \in DOMAIN cache /\ k.first <= k.last /\ Fresh(k)
  BY DEF IsAvailable, Known, FormInv, FormView
<1>3. k.kind = "nights" /\ k.first = stay.from /\ k.last = stay.to - 1
  BY DEF StepKey, Ask
<1>4. NightsOf(stay) \cap cache[k].taken = {}
  BY <1>2, <1>3 DEF IsAvailable, Blocked, Known, NightsOf
<1>5. Steady => cache[k].taken = Firm
  BY <1>2, <1>3 DEF Fresh, Answer
<1> QED BY <1>1, <1>2, <1>3, <1>4, <1>5

LEMMA ContinueStep ==
  ASSUME FormInv, Continue
  PROVE  FormInv'
<1>1. page = "details" /\ stay # None /\ IsAvailable(StepKey("nights", stay))
      /\ gate' = NightsOf(stay) \cap cache[StepKey("nights", stay)].taken
      /\ Show("contact", stay)
      /\ UNCHANGED <<server, fails, attempts, awaiting, surface, picks, leaving>>
  BY DEF Continue
<1>2. stay \in Picks /\ stay.from < stay.to /\ gate' = {}
      /\ (Steady => NightsOf(stay) \cap Firm = {})
  BY <1>1, FreeStay
<1>3. TypeOK'
  BY <1>1, <1>2, ShowStep DEF FormInv, TypeOK, CalendarInv
<1>4. FormView'
  BY <1>1, <1>2, ShowStep, SameAnswers, CalmQuiet DEF FormInv, FormView, BookingPages
<1> QED BY <1>1, <1>2, <1>3, <1>4, ShowStep DEF FormInv

\* The steps of the booking page after the first: the stay stays what it is.
LEMMA TurnPage ==
  ASSUME FormInv, page \in BookingPages, NEW at \in BookingPages \cup {"details"},
         Show(at, stay),
         UNCHANGED <<server, fails, attempts, awaiting, surface, picks, gate, leaving>>
  PROVE  FormInv'
<1>1. stay \in Picks /\ at \in {"unit", "details", "contact", "review", "form"} /\ stay # None
  BY DEF FormInv, TypeOK, BookingPages
<1>2. TypeOK'
  BY <1>1, ShowStep DEF FormInv, TypeOK, CalendarInv
<1>3. FormView'
  BY <1>1, ShowStep, SameAnswers, CalmQuiet DEF FormInv, FormView, BookingPages
<1> QED BY <1>1, <1>2, <1>3, ShowStep DEF FormInv

LEMMA SubmitReviewStep ==
  ASSUME FormInv, SubmitReview
  PROVE  FormInv'
<1>1. page = "review" /\ Submit(stay, gate) /\ UNCHANGED <<server, fails, browser>>
  BY DEF SubmitReview
<1>2. stay \in Picks /\ stay.from < stay.to /\ gate = {}
      /\ (Steady => NightsOf(stay) \cap Firm = {})
  BY <1>1 DEF FormInv, FormView, TypeOK, BookingPages
<1>3. CalendarInv' /\ (Steady' <=> Steady)
  BY <1>1, <1>2, SubmitStep DEF FormInv, Offered, browser
<1> QED BY <1>1, <1>3, FormQuiet, CalmQuiet DEF server, browser, FormInv, TypeOK

\* What a console form lets through: it knows of no taken night, and the
\* booking's unit is listed as available.
LEMMA OpenStay ==
  ASSUME FormInv, FormOpen
  PROVE  LET k == PanelKey("nights", stay)
         IN  /\ stay \in Picks /\ stay.from < stay.to
             /\ NightsOf(stay) \cap (IF Known(k) THEN cache[k].taken ELSE {}) = {}
             /\ Steady /\ surface # "convert" => NightsOf(stay) \cap Firm = {}
<1> DEFINE k == PanelKey("nights", stay)
           list == PanelKey("list", stay)
<1>1. stay \in Picks /\ stay.from \in Nat /\ stay.to \in Nat /\ stay # None
  BY PickNights, BoundsAssumption DEF FormOpen, FormInv, TypeOK, Days
<1>2. stay.from < stay.to
  BY DEF FormOpen, FormInv, FormView
<1>3. NightsOf(stay) \subseteq k.first .. k.last
  BY <1>1 DEF PanelKey, Ask, NightsOf
<1>4. NightsOf(stay) \cap (IF Known(k) THEN cache[k].taken ELSE {}) = {}
  BY <1>3 DEF FormOpen, Blocked
<1>5. ASSUME Steady, surface # "convert"
      PROVE  NightsOf(stay) \cap Firm = {}
  <2>1. list \in DOMAIN cache /\ ~cache[list].hidden /\ cache[list] = Answer(list)
    BY <1>5 DEF FormOpen, Known, FormInv, FormView, Fresh, TypeOK
  <2>2. Listed([from |-> stay.from, to |-> stay.to])
    <3>1. list.kind = "list" /\ list.first = stay.from /\ list.last = stay.to
      BY DEF PanelKey, Ask
    <3> HIDE DEF list
    <3>2. Answer(list).hidden
            = (list.kind = "list" /\ ~Listed([from |-> list.first, to |-> list.last]))
      BY DEF Answer
    <3>3. Listed([from |-> list.first, to |-> list.last])
      BY <2>1, <3>1, <3>2
    <3> QED BY <3>1, <3>3
  <2>3. \A d \in NightsOf(stay) : nights[d] # "booked" /\ nights[d] # "blocked"
    BY <1>1, <2>2 DEF Listed, NightsOf
  <2> QED BY <2>3 DEF Firm
<1> QED BY <1>1, <1>2, <1>4, <1>5

LEMMA SubmitFormStep ==
  ASSUME FormInv, SubmitForm
  PROVE  FormInv'
<1> DEFINE k == PanelKey("nights", stay)
           known == IF Known(k) THEN cache[k].taken ELSE {}
<1>1. FormOpen /\ Submit(stay, known) /\ UNCHANGED <<server, fails, browser>>
  BY DEF SubmitForm
<1>2. /\ stay \in Picks /\ stay.from < stay.to /\ NightsOf(stay) \cap known = {}
      /\ Steady /\ surface # "convert" => NightsOf(stay) \cap Firm = {}
  BY <1>1, OpenStay
<1> HIDE DEF known
<1>3. CalendarInv' /\ (Steady' <=> Steady)
  BY <1>1, <1>2, SubmitStep DEF FormInv, Offered, browser
<1> QED BY <1>1, <1>3, FormQuiet, CalmQuiet DEF server, browser, FormInv, TypeOK

LEMMA HearStep ==
  ASSUME FormInv, Hear
  PROVE  FormInv'
<1>1. 0 \in 0 .. Len(attempts)
  BY DEF FormInv, CalendarInv, CalendarTypeOK
<1>2. CalendarInv' /\ (Steady' <=> Steady) /\ UNCHANGED <<nights, withdrawn>>
  BY <1>1, QuietStep DEF Hear, FormInv, CalendarInv, CalendarTypeOK, server
<1>3. leaving' \in BOOLEAN /\ page' \in {page, "done"}
  BY DEF Hear, FormInv, TypeOK
<1> QED BY <1>2, <1>3, FormQuiet, CalmQuiet DEF Hear, FormInv, TypeOK

LEMMA NavigateStep ==
  ASSUME FormInv, Navigate
  PROVE  FormInv'
<1>1. CalendarInv' /\ (Steady' <=> Steady) /\ UNCHANGED <<nights, withdrawn>>
  BY QuietStep DEF Navigate, FormInv, CalendarInv, CalendarTypeOK, server
<1> QED BY <1>1, FormQuiet, CalmQuiet DEF Navigate, FormInv, TypeOK

LEMMA FormElsewhere ==
  ASSUME FormInv, Elsewhere
  PROVE  FormInv'
<1>1. CalendarInv' /\ (Steady' => Steady /\ Calm)
  BY ElsewhereStep DEF FormInv
<1> QED BY <1>1, FormQuiet, CalmQuiet DEF Elsewhere, browser, FormInv, TypeOK

LEMMA FormStep ==
  ASSUME FormInv, Next
  PROVE  FormInv'
<1>1. CASE FetchStep
  BY <1>1, ArriveStep DEF FetchStep
<1>2. CASE \E k \in fetches : Fail(k)
  BY <1>2, FailStep
<1>3. CASE Refocus
  BY <1>3, RefocusStep
<1>4. CASE \E s \in Picks : Pick(s)
  BY <1>4, PickStep
<1>5. CASE BookNow
  BY <1>5, BookNowStep
<1>6. CASE Continue
  BY <1>6, ContinueStep
<1>7. CASE GiveContact
  BY <1>7, TurnPage DEF GiveContact, BookingPages
<1>8. CASE Back
  <2>1. PICK at \in BookingPages \cup {"details"} : Show(at, stay)
    BY <1>8 DEF Back, BookingPages
  <2> QED BY <1>8, <2>1, TurnPage DEF Back, BookingPages
<1>9. CASE SubmitReview
  BY <1>9, SubmitReviewStep
<1>10. CASE SubmitForm
  BY <1>10, SubmitFormStep
<1>11. CASE Hear
  BY <1>11, HearStep
<1>12. CASE Navigate
  BY <1>12, NavigateStep
<1>13. CASE Elsewhere
  BY <1>13, FormElsewhere
<1> QED BY <1>1, <1>2, <1>3, <1>4, <1>5, <1>6, <1>7, <1>8, <1>9, <1>10, <1>11, <1>12, <1>13
        DEF Next

-----------------------------------------------------------------------------
(* The storefront *)

\* The instance has the calendar's operators once more.
LEMMA SameCalendar ==
  /\ Shop!Days = Days /\ Shop!Picks = Picks /\ Shop!server = server
  /\ Shop!Unavailable = Unavailable /\ Shop!Firm = Firm
  /\ \A s : Shop!NightsOf(s) = NightsOf(s)
  /\ Shop!CalendarInit <=> CalendarInit
  /\ Shop!CalendarTypeOK <=> CalendarTypeOK
<1>1. Shop!Days = Days
  BY DEF Shop!Days, Days
<1>2. Shop!Picks = Picks
  BY <1>1 DEF Shop!Picks, Picks
<1>3. Shop!Unavailable = Unavailable /\ Shop!Firm = Firm
  BY <1>1 DEF Shop!Unavailable, Unavailable, Shop!Firm, Firm
<1>4. \A s : Shop!NightsOf(s) = NightsOf(s)
  BY DEF Shop!NightsOf, NightsOf
<1>5. Shop!CalendarInit <=> CalendarInit
  BY <1>1 DEF Shop!CalendarInit, CalendarInit
<1>6. Shop!MadeRow = MadeRow /\ Shop!AttemptRow = AttemptRow
  BY <1>1, <1>2 DEF Shop!MadeRow, MadeRow, Shop!AttemptRow, AttemptRow
<1>7. Shop!CalendarTypeOK <=> CalendarTypeOK
  BY <1>1, <1>6 DEF Shop!CalendarTypeOK, CalendarTypeOK
<1> QED BY <1>1, <1>2, <1>3, <1>4, <1>5, <1>7 DEF Shop!server, server

LEMMA SameActions ==
  /\ \A s, known : Shop!Submit(s, known) <=> Submit(s, known)
  /\ \A i : Shop!Judge(surface, i) <=> Judge(surface, i)
  /\ Shop!GiveUp <=> GiveUp
  /\ Shop!WindowCloses <=> WindowCloses
  /\ \A d : Shop!OthersMove(d) <=> OthersMove(d)
<1>1. \A s, known : Shop!Submit(s, known) <=> Submit(s, known)
  BY DEF Shop!Submit, Submit, Shop!NightsOf, NightsOf
<1>2. ASSUME NEW i
      PROVE  Shop!Judge(surface, i) <=> Judge(surface, i)
  <2>1. \A s : Shop!Repeats(s) <=> Repeats(s)
    BY DEF Shop!Repeats, Repeats
  <2>2. Shop!MayRepeat(surface) <=> MayRepeat(surface)
    BY DEF Shop!MayRepeat, MayRepeat
  <2>3. \A s : Shop!NightsAllow(surface, s) <=> NightsAllow(surface, s)
    BY SameCalendar DEF Shop!NightsAllow, NightsAllow
  <2>4. \A s : Shop!Accepts(surface, s) <=> Accepts(surface, s)
    BY <2>2, <2>3 DEF Shop!Accepts, Accepts
  <2>5. \A s : Shop!Holding(surface, s) = Holding(surface, s)
    BY SameCalendar DEF Shop!Holding, Holding
  <2> QED BY <2>1, <2>2, <2>4, <2>5 DEF Shop!Judge, Judge
<1>3. (Shop!GiveUp <=> GiveUp) /\ (Shop!WindowCloses <=> WindowCloses)
  BY DEF Shop!GiveUp, GiveUp, Shop!WindowCloses, WindowCloses, Shop!server, server
<1>4. Shop!Own = Own
  BY SameCalendar DEF Shop!Own, Own
<1>5. \A d : Shop!OthersMove(d) <=> OthersMove(d)
  BY <1>4 DEF Shop!OthersMove, OthersMove
<1> QED BY <1>1, <1>2, <1>3, <1>5

\* The checkout has a stay of one night or more; it asks about it before it
\* sends, one thing at a time, and while nobody moves a night the answer is
\* the present one.
ShopView ==
  /\ page = "checkout" => stay.from < stay.to
  /\ check # None =>
       /\ page = "checkout" /\ awaiting = 0
       /\ check.answered /\ Steady => check.days = Unavailable \cap NightsOf(stay)

ShopInv == InShop /\ CalendarInv /\ Shop!TypeOK /\ ShopView

LEMMA PollTypes ==
  /\ Shop!Asked \in Shop!PollsOf /\ None \in Shop!PollsOf
  /\ Shop!Mounted \in [Slots -> Shop!PollsOf]
  /\ \A days : Shop!Answer(days) \in Shop!PollsOf
BY SameCalendar DEF Shop!Asked, Shop!PollsOf, Shop!Mounted, Shop!Answer, Unavailable

\* A step that leaves the stay and the checkout's question alone.
LEMMA ShopQuiet ==
  ASSUME ShopInv, CalendarInv', Steady' => Steady /\ Calm,
         UNCHANGED <<surface, stay, picks, check>>,
         page' = page \/ (page' = "done" /\ check = None), awaiting' \in {awaiting, 0},
         polls' \in [Slots -> Shop!PollsOf], shown' \in {None} \cup SUBSET Days
  PROVE  ShopInv'
<1>1. InShop'
  BY DEF ShopInv, InShop
<1>2. Shop!CalendarTypeOK'
  BY SameCalendar, PTL DEF CalendarInv
<1>3. Shop!TypeOK'
  BY <1>2, SameCalendar DEF ShopInv, Shop!TypeOK, Shop!PollsOf
<1>4. Steady' => Unavailable' = Unavailable
  BY DEF Unavailable, Calm, ShopInv
<1>5. ShopView'
  BY <1>4 DEF ShopInv, ShopView, NightsOf
<1> QED BY <1>1, <1>3, <1>5 DEF ShopInv

\* A step of the page only, or one that hears, gives up or fails.
LEMMA ShopBrowses ==
  ASSUME ShopInv, UNCHANGED <<server, attempts, surface>>,
         fails' \in 0 .. MaxFails, awaiting' \in {awaiting, 0}
  PROVE  CalendarInv' /\ (Steady' <=> Steady) /\ UNCHANGED <<nights, withdrawn>>
<1>1. awaiting' \in 0 .. Len(attempts)
  BY DEF ShopInv, CalendarInv, CalendarTypeOK
<1> QED BY <1>1, QuietStep DEF ShopInv, server

LEMMA PollSteps ==
  ASSUME ShopInv, NEW i \in Slots,
         Shop!Poll(i) \/ Shop!PollAnswered(i) \/ Shop!PollArrives(i) \/ Shop!PollFails(i)
  PROVE  ShopInv'
<1>1. UNCHANGED <<server, attempts, awaiting, surface, page, stay, picks, check>>
  BY SameCalendar DEF Shop!Poll, Shop!PollAnswered, Shop!PollArrives, Shop!PollFails, Shop!server,
     server
<1>2. fails' \in 0 .. MaxFails
  BY BoundsAssumption DEF ShopInv, CalendarInv, CalendarTypeOK,
     Shop!Poll, Shop!PollAnswered, Shop!PollArrives, Shop!PollFails
<1>3. CalendarInv' /\ (Steady' <=> Steady) /\ UNCHANGED <<nights, withdrawn>>
  BY <1>1, <1>2, ShopBrowses
<1>4. \A p \in Shop!PollsOf : p # None => p.days \in SUBSET Days
  BY SameCalendar DEF Shop!PollsOf
<1>5. polls[i] \in Shop!PollsOf /\ polls \in [Slots -> Shop!PollsOf]
      /\ shown \in {None} \cup SUBSET Days
  BY SameCalendar DEF ShopInv, Shop!TypeOK
<1>6. polls' \in [Slots -> Shop!PollsOf]
  BY <1>5, PollTypes DEF Shop!Poll, Shop!PollAnswered, Shop!PollArrives, Shop!PollFails
<1>7. shown' \in {None} \cup SUBSET Days
  BY <1>4, <1>5 DEF Shop!Poll, Shop!PollAnswered, Shop!PollArrives, Shop!PollFails
<1> QED BY <1>1, <1>3, <1>6, <1>7, ShopQuiet, CalmQuiet

LEMMA ShopPickStep ==
  ASSUME ShopInv, NEW s \in Picks, Shop!Pick(s)
  PROVE  ShopInv'
<1>1. CalendarInv' /\ (Steady' <=> Steady) /\ UNCHANGED <<nights, withdrawn>>
  BY ShopBrowses DEF Shop!Pick, Shop!server, server, ShopInv, CalendarInv, CalendarTypeOK
<1>2. Shop!TypeOK'
  <2>1. Shop!CalendarTypeOK'
    BY <1>1, SameCalendar, PTL DEF CalendarInv
  <2> QED BY <2>1, SameCalendar, ShopAssumption DEF Shop!Pick, ShopInv, Shop!TypeOK, Shop!PollsOf
<1>3. ShopView'
  BY DEF Shop!Pick, ShopInv, ShopView
<1> QED BY <1>1, <1>2, <1>3 DEF ShopInv, InShop, Shop!Pick

LEMMA GoToCheckoutStep ==
  ASSUME ShopInv, Shop!GoToCheckout
  PROVE  ShopInv'
<1>1. CalendarInv' /\ (Steady' <=> Steady) /\ UNCHANGED <<nights, withdrawn>>
  BY ShopBrowses DEF Shop!GoToCheckout, Shop!server, server, ShopInv, CalendarInv, CalendarTypeOK
<1>2. Shop!TypeOK'
  <2>1. Shop!CalendarTypeOK'
    BY <1>1, SameCalendar, PTL DEF CalendarInv
  <2> QED BY <2>1, SameCalendar, PollTypes DEF Shop!GoToCheckout, ShopInv, Shop!TypeOK, Shop!PollsOf
<1>3. ShopView'
  BY DEF Shop!GoToCheckout, ShopInv, ShopView
<1> QED BY <1>1, <1>2, <1>3 DEF ShopInv, InShop, Shop!GoToCheckout

LEMMA ReturnStep ==
  ASSUME ShopInv, Shop!Return
  PROVE  ShopInv'
<1>1. CalendarInv' /\ (Steady' <=> Steady) /\ UNCHANGED <<nights, withdrawn>>
  BY ShopBrowses DEF Shop!Return, Shop!server, server, ShopInv, CalendarInv, CalendarTypeOK
<1>2. Shop!TypeOK'
  <2>1. Shop!CalendarTypeOK'
    BY <1>1, SameCalendar, PTL DEF CalendarInv
  <2> QED BY <2>1, SameCalendar, PollTypes DEF Shop!Return, ShopInv, Shop!TypeOK, Shop!PollsOf
<1>3. ShopView'
  BY DEF Shop!Return, Shop!Busy, ShopInv, ShopView
<1> QED BY <1>1, <1>2, <1>3 DEF ShopInv, InShop, Shop!Return

\* The checkout's question before the request.
LEMMA CheckSteps ==
  ASSUME ShopInv, Shop!Press \/ Shop!CheckAnswered \/ Shop!CheckFails \/ Shop!TurnAway
  PROVE  ShopInv'
<1>1. UNCHANGED <<server, attempts, awaiting, surface, page, stay, picks, polls, shown>>
  BY DEF Shop!Press, Shop!CheckAnswered, Shop!CheckFails, Shop!TurnAway, Shop!server, server
<1>2. fails' \in 0 .. MaxFails
  BY BoundsAssumption DEF ShopInv, CalendarInv, CalendarTypeOK,
     Shop!Press, Shop!CheckAnswered, Shop!CheckFails, Shop!TurnAway
<1>3. CalendarInv' /\ (Steady' <=> Steady) /\ UNCHANGED <<nights, withdrawn>>
  BY <1>1, <1>2, ShopBrowses
<1>4. check' \in Shop!PollsOf
  BY PollTypes DEF Shop!Press, Shop!CheckAnswered, Shop!CheckFails, Shop!TurnAway
<1>5. Shop!TypeOK'
  <2>1. Shop!CalendarTypeOK'
    BY <1>3, SameCalendar, PTL DEF CalendarInv
  <2> QED BY <1>1, <1>4, <2>1, SameCalendar DEF ShopInv, Shop!TypeOK, Shop!PollsOf
<1>6. check' # None => page = "checkout" /\ awaiting = 0
  BY DEF Shop!Press, Shop!CheckAnswered, Shop!CheckFails, Shop!TurnAway, Shop!Busy, ShopInv,
     ShopView
<1>7. check' # None /\ check'.answered => check'.days = Unavailable \cap NightsOf(stay)
  BY SameCalendar DEF Shop!Press, Shop!CheckAnswered, Shop!CheckFails, Shop!TurnAway,
     Shop!Asked, Shop!Answer
<1>8. ShopView'
  BY <1>1, <1>3, <1>6, <1>7 DEF ShopInv, ShopView, Unavailable, NightsOf
<1> QED BY <1>1, <1>3, <1>5, <1>8 DEF ShopInv, InShop

LEMMA SendStep ==
  ASSUME ShopInv, Shop!Send
  PROVE  ShopInv'
<1>1. check # None /\ check.answered /\ NightsOf(stay) \cap check.days = {}
      /\ Submit(stay, check.days) /\ check' = None
      /\ UNCHANGED <<server, fails, surface, page, stay, picks, polls, shown>>
  BY SameCalendar, SameActions DEF Shop!Send, Shop!Refused, Shop!server, server
<1>2. stay \in Picks /\ stay.from < stay.to
  BY <1>1, SameCalendar DEF ShopInv, ShopView, Shop!TypeOK
<1>3. Steady => Offered(stay)
  BY <1>1 DEF ShopInv, ShopView, Offered
<1>4. CalendarInv' /\ (Steady' <=> Steady)
  BY <1>1, <1>2, <1>3, SubmitStep DEF ShopInv
<1>5. Shop!TypeOK'
  <2>1. Shop!CalendarTypeOK'
    BY <1>4, SameCalendar, PTL DEF CalendarInv
  <2> QED BY <1>1, <2>1, SameCalendar, PollTypes DEF ShopInv, Shop!TypeOK, Shop!PollsOf
<1>6. ShopView'
  BY <1>1 DEF ShopInv, ShopView
<1> QED BY <1>1, <1>4, <1>5, <1>6 DEF ShopInv, InShop

LEMMA ShopHearStep ==
  ASSUME ShopInv, Shop!Hear
  PROVE  ShopInv'
<1>1. UNCHANGED <<server, fails, attempts, surface, stay, picks, polls, shown, check>>
      /\ awaiting # 0 /\ awaiting' = 0 /\ page' \in {page, "done"}
  BY DEF Shop!Hear, Shop!server, server
<1>2. fails' \in 0 .. MaxFails
  BY <1>1 DEF ShopInv, CalendarInv, CalendarTypeOK
<1>3. CalendarInv' /\ (Steady' <=> Steady) /\ UNCHANGED <<nights, withdrawn>>
  BY <1>1, <1>2, ShopBrowses
<1>4. check = None
  BY <1>1 DEF ShopInv, ShopView
<1>5. polls \in [Slots -> Shop!PollsOf] /\ shown \in {None} \cup SUBSET Days
  BY SameCalendar DEF ShopInv, Shop!TypeOK
<1> QED BY <1>1, <1>3, <1>4, <1>5, ShopQuiet, CalmQuiet

LEMMA ShopElsewhere ==
  ASSUME ShopInv, Shop!Elsewhere
  PROVE  ShopInv'
<1>1. UNCHANGED <<surface, page, stay, picks, polls, shown, check>>
  BY DEF Shop!Elsewhere, Shop!browser
<1>2. \/ \E i \in 1 .. MaxAttempts : Judge(surface, i)
      \/ GiveUp \/ WindowCloses
      \/ \E d \in Days : OthersMove(d)
  BY SameActions, SameCalendar DEF Shop!Elsewhere
<1>3. CalendarInv' /\ (Steady' => Steady /\ Calm)
      /\ awaiting' \in {awaiting, 0}
  <2>1. CASE \E i \in 1 .. MaxAttempts : Judge(surface, i)
    BY <1>1, <2>1, JudgeStep DEF ShopInv, Judge
  <2>2. CASE GiveUp
    BY <1>1, <2>2, ShopBrowses, CalmQuiet DEF GiveUp, ShopInv, CalendarInv, CalendarTypeOK
  <2>3. CASE WindowCloses
    BY <1>1, <2>3, WindowStep DEF ShopInv, WindowCloses
  <2>4. CASE \E d \in Days : OthersMove(d)
    BY <1>1, <2>4, OthersStep DEF ShopInv, OthersMove
  <2> QED BY <1>2, <2>1, <2>2, <2>3, <2>4
<1>4. polls \in [Slots -> Shop!PollsOf] /\ shown \in {None} \cup SUBSET Days
  BY SameCalendar DEF ShopInv, Shop!TypeOK
<1> QED BY <1>1, <1>3, <1>4, ShopQuiet, CalmQuiet

LEMMA ShopStep ==
  ASSUME ShopInv, Shop!Next
  PROVE  ShopInv'
<1>1. CASE \E i \in Slots : Shop!Poll(i) \/ Shop!PollAnswered(i)
                              \/ Shop!PollArrives(i) \/ Shop!PollFails(i)
  BY <1>1, PollSteps
<1>2. CASE \E s \in Shop!Picks : Shop!Pick(s)
  BY <1>2, SameCalendar, ShopPickStep
<1>3. CASE Shop!GoToCheckout
  BY <1>3, GoToCheckoutStep
<1>4. CASE Shop!Press \/ Shop!CheckAnswered \/ Shop!CheckFails \/ Shop!TurnAway
  BY <1>4, CheckSteps
<1>5. CASE Shop!Send
  BY <1>5, SendStep
<1>6. CASE Shop!Hear
  BY <1>6, ShopHearStep
<1>7. CASE Shop!Return
  BY <1>7, ReturnStep
<1>8. CASE Shop!Elsewhere
  BY <1>8, ShopElsewhere
<1> QED BY <1>1, <1>2, <1>3, <1>4, <1>5, <1>6, <1>7, <1>8 DEF Shop!Next

-----------------------------------------------------------------------------
(* Every visit *)

ScreenInv == FormInv \/ ShopInv

LEMMA InitCalendar ==
  ASSUME CalendarInit, surface \in Surfaces \cup ShopSurfaces
  PROVE  CalendarInv
<1>1. CalendarTypeOK
  <2>1. nights \in [Days -> {"free", "held", "booked", "blocked"}]
    BY TakingsAssumption DEF CalendarInit
  <2> QED BY <2>1, BoundsAssumption DEF CalendarInit, CalendarTypeOK
<1> QED BY <1>1 DEF CalendarInit, CalendarInv, OnlyFreeNightsSent, OwnNightsHeld, Own,
        NightsRequestedOnce, Granted, OfferedNightsGranted

LEMMA InitScreens ==
  ASSUME MCInit
  PROVE  ScreenInv
<1>1. Surfaces \cap ShopSurfaces = {}
  BY FormsAssumption, ShopAssumption
<1>2. CASE Init
  <2>1. CalendarInv /\ ~InShop
    BY <1>1, <1>2, InitCalendar DEF Init, InShop
  <2>2. stay \in Picks \cup {None} /\ DOMAIN cache = {}
    BY <1>2 DEF Init
  <2>3. TypeOK
    <3>1. fetches \subseteq Keys
      BY <1>2, <2>2, KeyTypes DEF Init
    <3>2. page \in {"unit", "details", "form"}
      BY <1>2 DEF Init
    <3>3. surface \in Surfaces /\ picks \in 0 .. MaxPicks /\ reviewed = None /\ gate = {}
      BY <1>2, FormsAssumption DEF Init
    <3>4. leaving \in BOOLEAN
      BY <1>2 DEF Init
    <3> QED BY <3>4, <2>1, <2>2, <3>1, <3>2, <3>3, FormsAssumption DEF TypeOK, CalendarInv
  <2>4. FormView
    <3>1. page \in {"unit", "details", "form"} /\ reviewed = None
      BY <1>2 DEF Init
    <3>2. surface = "convert" => page = "form" /\ stay \in Picks /\ stay.from < stay.to
      BY <1>2 DEF Init
    <3>3. surface = "convert" => stay # None
      BY <3>2, NoneAssumption
    <3> QED BY <2>2, <3>1, <3>2, <3>3 DEF FormView, BookingPages
  <2> QED BY <2>1, <2>3, <2>4 DEF ScreenInv, FormInv
<1>3. CASE Shop!Init
  <2>1. CalendarInv /\ InShop
    BY <1>3, InitCalendar, SameCalendar DEF Shop!Init, InShop
  <2>2. Shop!TypeOK
    BY <1>3, <2>1, PollTypes, SameCalendar, ShopAssumption
       DEF Shop!Init, Shop!TypeOK, Shop!PollsOf, CalendarInv
  <2>3. ShopView
    BY <1>3 DEF Shop!Init, ShopView
  <2> QED BY <2>1, <2>2, <2>3 DEF ScreenInv, ShopInv
<1> QED BY <1>2, <1>3 DEF MCInit

LEMMA StutterScreens ==
  ASSUME ScreenInv, UNCHANGED screens
  PROVE  ScreenInv'
<1>1. UNCHANGED <<nights, withdrawn, moves, fails, made, attempts, awaiting, surface, page, stay,
                  picks, cache, fetches, reviewed, gate, leaving, polls, shown, check>>
  BY DEF screens, vars, server, browser, shopVars
<1>2. (FormInv \/ ShopInv) => CalendarInv' /\ (Steady' <=> Steady)
  BY <1>1, QuietStep DEF FormInv, ShopInv, CalendarInv, CalendarTypeOK, server
<1>3. CASE FormInv
  BY <1>1, <1>2, <1>3, FormQuiet, CalmQuiet DEF ScreenInv, FormInv, TypeOK
<1>4. CASE ShopInv
  BY <1>1, <1>2, <1>4, ShopQuiet, CalmQuiet, SameCalendar DEF ScreenInv, ShopInv, Shop!TypeOK
<1> QED BY <1>3, <1>4 DEF ScreenInv

LEMMA ScreensInvariant == MCSpec => []ScreenInv
<1>1. ScreenInv /\ [MCNext]_screens => ScreenInv'
  BY FormStep, ShopStep, StutterScreens DEF MCNext, ScreenInv, FormInv, ShopInv
<1> QED BY <1>1, InitScreens, PTL DEF MCSpec

\* Every variable of the screen on show holds a value the code can give it,
\* on every form and surface.
THEOREM ScreensHoldTypes == MCSpec => []ScreensTypeOK
<1>1. ScreenInv => ScreensTypeOK
  BY DEF ScreenInv, FormInv, ShopInv, ScreensTypeOK
<1> QED BY <1>1, ScreensInvariant, PTL

\* No screen sends a stay without nights, or one of which it was told that a
\* night is taken: what the first step or the checkout's question let through
\* is still what is sent several pages later.
THEOREM SendsFreeNightsOnly == MCSpec => []OnlyFreeNightsSent
<1>1. ScreenInv => OnlyFreeNightsSent
  BY DEF ScreenInv, FormInv, ShopInv, CalendarInv
<1> QED BY <1>1, ScreensInvariant, PTL

\* The price the review shows was quoted for the dates it sends, through any
\* number of steps back, new dates, refetches and failures.
THEOREM ReviewShowsItsPrice == MCSpec => []ReviewedIsThisStay
<1>1. ScreenInv => ReviewedIsThisStay
  BY DEF ScreenInv, FormInv, FormView, ShopInv, Shop!TypeOK, ReviewedIsThisStay, BookingPages
<1> QED BY <1>1, ScreensInvariant, PTL

\* While others leave the nights alone, the booking page and the checkout
\* turn a guest away only from a stay that the server would refuse as well.
THEOREM TurnsAwayWhatIsTaken == MCSpec => []RefusalsJustified
<1>1. ScreenInv => RefusalsJustified
  <2> SUFFICES ASSUME ScreenInv, moves = 0, InShop => made = <<>>, TurnedAway
               PROVE  ~Grants(stay)
    BY DEF RefusalsJustified
  <2>1. CASE FormInv
    <3> DEFINE k == StepKey("nights", stay)
    <3>1. ~InShop /\ page = "details" /\ stay # None /\ Blocked(k) # {}
      BY <2>1 DEF TurnedAway, FormInv
    <3>2. Steady /\ surface # "convert"
      BY <2>1, <3>1 DEF Steady, FormInv, FormView
    <3>3. k.kind = "nights" /\ k.first = stay.from /\ k.last = stay.to - 1
      BY DEF StepKey, Ask
    <3>4. k \in DOMAIN cache /\ cache[k] = Answer(k)
      BY <2>1, <3>1, <3>2 DEF Blocked, Known, FormInv, FormView, Fresh
    <3> HIDE DEF k
    <3>5. PICK d \in Firm : d \in NightsOf(stay)
      BY <3>1, <3>3, <3>4 DEF Blocked, Answer, NightsOf
    <3>6. d \in Days /\ nights[d] \in {"booked", "blocked"}
      BY <3>5 DEF Firm
    <3>7. ~NightsAllow(surface, stay)
      BY <3>5, <3>6 DEF NightsAllow, Unavailable
    <3>8. ~Repeats(stay)
      <4> SUFFICES ASSUME NEW i \in DOMAIN made, made[i] = [stay |-> stay, fresh |-> TRUE]
                   PROVE  FALSE
        BY DEF Repeats
      <4>1. d \in Own
        BY <3>5 DEF Own
      <4> QED BY <2>1, <3>2, <3>6, <4>1 DEF OwnNightsHeld, FormInv, CalendarInv
    <3> QED BY <3>7, <3>8 DEF Grants, Accepts
  <2>2. CASE ShopInv
    <3>1. InShop /\ page # "details"
      BY <2>2 DEF ShopInv, Shop!TypeOK
    <3>2. Steady /\ check # None /\ check.answered /\ NightsOf(stay) \cap check.days # {}
      BY <3>1, SameCalendar DEF TurnedAway, Steady, Shop!Refused
    <3>3. check.days = Unavailable \cap NightsOf(stay)
      BY <2>2, <3>2 DEF ShopInv, ShopView
    <3>4. ~NightsAllow(surface, stay)
      BY <3>1, <3>2, <3>3, ShopAssumption DEF NightsAllow, InShop
    <3>5. ~Repeats(stay)
      BY <3>1 DEF Repeats
    <3> QED BY <3>4, <3>5 DEF Grants, Accepts
  <2> QED BY <2>1, <2>2 DEF ScreenInv
<1> QED BY <1>1, ScreensInvariant, PTL

\* However often a visitor sends, however many answers are lost and whatever
\* others do, no night gets two rows of one visit.
THEOREM RequestsNightsOnce == MCSpec => []NightsRequestedOnce
<1>1. ScreenInv => NightsRequestedOnce
  BY DEF ScreenInv, FormInv, ShopInv, CalendarInv
<1> QED BY <1>1, ScreensInvariant, PTL

\* A first request of nights shown as free is granted as long as nobody moves
\* a night, save for the soft holds the booking page does not look at.
THEOREM GrantsWhatIsOffered == MCSpec => []OfferedNightsGranted
<1>1. ScreenInv => OfferedNightsGranted
  BY DEF ScreenInv, FormInv, ShopInv, CalendarInv
<1> QED BY <1>1, ScreensInvariant, PTL
=============================================================================
