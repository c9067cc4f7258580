---------------------------- MODULE StayCalendar ----------------------------
(***************************************************************************)
(* What a screen that sells a stay meets on the other side of the network: *)
(* the nights of one unit, the questions the API answers about them, and   *)
(* the requests a visit sends.  The services behind the answers are        *)
(* modelled in UnitCalendar; here an answer or a verdict is one step.      *)
(*                                                                         *)
(* Day d stands for its night too.  A stay ends on its check-out day,      *)
(* whose night is the next guest's (decision 0006); the availability and   *)
(* pricing endpoints take the first and the last night, both included.     *)
(***************************************************************************)
EXTENDS Naturals, Sequences

CONSTANTS
  LastDay,       \* bound: the days of a run are 1 .. LastDay
  Takings,       \* bound: what takes a night in a run
  MaxMoves,      \* bound: changes other people make to the nights
  MaxAttempts,   \* bound: requests a visit sends
  MaxFails,      \* bound: reads that fail
  None

ASSUME BoundsAssumption ==
  LastDay \in Nat \ {0} /\ MaxMoves \in Nat /\ MaxAttempts \in Nat /\ MaxFails \in Nat
ASSUME TakingsAssumption == Takings \subseteq {"held", "booked", "blocked"}

VARIABLES
  nights,        \* what holds each night: "free", "held", "booked", "blocked"
  withdrawn,     \* nights of date blocks with deleted_at set
  moves, fails,
  made,          \* the visit's rows in the database
  attempts,      \* the requests sent, in their order
  awaiting       \* the attempt the screen waits for, 0 for none

server == <<nights, withdrawn, moves, made>>

Days == 1 .. LastDay

\* What a date picker can return; check-in and check-out may coincide.
Picks == {s \in [from : Days, to : Days] : s.from <= s.to}
NightsOf(s) == s.from .. (s.to - 1)

ASSUME NoneAssumption == None \notin {"accepted", "refused"} \cup Picks

Firm        == {d \in Days : nights[d] \in {"booked", "blocked"}}
Unavailable == {d \in Days : nights[d] # "free"}

-----------------------------------------------------------------------------
(* GetInternalCatalogAsync *)

\* The availability filter of the unit list: half-open on bookings, closed on
\* date blocks, and deleted_at is not looked at.
Listed(s) ==
  /\ \A d \in NightsOf(s) : nights[d] # "booked"
  /\ \A d \in s.from .. s.to : nights[d] # "blocked" /\ d \notin withdrawn

-----------------------------------------------------------------------------
(* The requests *)

\* CreateQuickAsync: the guest's own request, sent again within the window.
Repeats(s) == \E i \in DOMAIN made : made[i] = [stay |-> s, fresh |-> TRUE]

\* Mutant: the storefront's endpoints tolerate soft holds like the console's.
NightsAllowSoft(surface, s) == NightsOf(s) \cap Firm = {}

\* The overlap checks of CreateAsync; the storefront rejects soft holds too.
NightsAllow(surface, s) ==
  NightsOf(s) \cap (IF surface \in {"platform", "guest", "client"}
                    THEN Unavailable ELSE Firm) = {}

\* A guest account is made with its first request, a lead is converted once.
MayRepeat(surface) == surface \in {"guest", "convert"} => made = <<>>

Accepts(surface, s) ==
  s.from < s.to /\ MayRepeat(surface) /\ NightsAllow(surface, s)

\* A conversion books the stay, every other request holds it softly.
Holding(surface, s) ==
  [d \in Days |->
     IF d \notin NightsOf(s) THEN nights[d]
     ELSE IF surface = "convert" THEN "booked"
     ELSE IF nights[d] = "free" THEN "held" ELSE nights[d]]

\* The screen sends s, having been told that the nights of known are taken.
Submit(s, known) ==
  /\ awaiting = 0 /\ Len(attempts) < MaxAttempts
  /\ attempts' = Append(attempts,
       [stay |-> s, taken |-> NightsOf(s) \cap known, verdict |-> None])
  /\ awaiting' = Len(attempts) + 1

\* The server answers an attempt, whether or not a screen still waits for it.
Judge(surface, i) ==
  LET s == attempts[i].stay
      known == MayRepeat(surface) /\ Repeats(s)
      accepted == known \/ Accepts(surface, s)
  IN  /\ i \in DOMAIN attempts /\ attempts[i].verdict = None
      /\ attempts' = [attempts EXCEPT ![i].verdict =
           IF accepted THEN "accepted" ELSE "refused"]
      /\ IF accepted /\ ~known
         THEN /\ made' = Append(made, [stay |-> s, fresh |-> TRUE])
              /\ nights' = Holding(surface, s)
         ELSE UNCHANGED <<made, nights>>
      /\ UNCHANGED <<withdrawn, moves, fails, awaiting>>

\* The answer is lost or the 30 seconds of the client are over.
GiveUp ==
  /\ awaiting # 0
  /\ awaiting' = 0
  /\ UNCHANGED <<server, fails, attempts>>

-----------------------------------------------------------------------------
(* Everybody else *)

Own == UNION {NightsOf(made[i].stay) : i \in DOMAIN made}

\* Another guest, an owner or the staff take a night or give one back; the row
\* of a block stays when it is deleted.  The visit's own nights stay its own.
OthersMove(d) ==
  /\ d \notin Own
  /\ moves < MaxMoves /\ moves' = moves + 1
  /\ \E now \in ({"free"} \cup Takings) \ {nights[d]} :
       nights' = [nights EXCEPT ![d] = now]
  /\ withdrawn' = withdrawn \cup (IF nights[d] = "blocked" THEN {d} ELSE {})
  /\ UNCHANGED <<made, fails, attempts, awaiting>>

\* Half a minute after a request, or once it is being handled, the same one
\* counts as new.
WindowCloses ==
  /\ \E i \in DOMAIN made :
       made[i].fresh /\ made' = [made EXCEPT ![i].fresh = FALSE]
  /\ UNCHANGED <<nights, withdrawn, moves, fails, attempts, awaiting>>

CalendarInit ==
  /\ nights \in {[d \in Days |-> IF d = e THEN n ELSE "free"] :
                   e \in Days, n \in {"free"} \cup Takings}
  /\ withdrawn = {} /\ moves = 0 /\ fails = 0
  /\ made = <<>> /\ attempts = <<>> /\ awaiting = 0

MadeRow    == [stay : Picks, fresh : BOOLEAN]
AttemptRow == [stay : Picks, taken : SUBSET Days, verdict : {None, "accepted", "refused"}]

CalendarTypeOK ==
  /\ nights \in [Days -> {"free", "held", "booked", "blocked"}]
  /\ withdrawn \subseteq Days
  /\ moves \in 0 .. MaxMoves /\ fails \in 0 .. MaxFails
  /\ made \in Seq(MadeRow) /\ attempts \in Seq(AttemptRow)
  /\ awaiting \in 0 .. Len(attempts)

-----------------------------------------------------------------------------
(* Properties *)

\* A guest's request is for one night or more, and every night of it was free
\* in the answer that let it through: the dates asked about are the dates sent
\* (the first step of the booking page, submitBooking of the checkout).
OnlyFreeNightsSent ==
  \A i \in DOMAIN attempts :
    NightsOf(attempts[i].stay) # {} /\ attempts[i].taken = {}
=============================================================================
