----------------------------- MODULE NightClaims -----------------------------
(***************************************************************************)
(* What the unit calendar promises, without its locks, tokens or checks:   *)
(* a night of a unit is promised to one holder at a time, a guest's stay   *)
(* or a closure by the owner.  A holder claims all its nights of one unit  *)
(* in one step, while they are free, and keeps exactly these until it      *)
(* gives all of them up.                                                   *)
(***************************************************************************)
CONSTANTS Holders, Units, Nights

VARIABLE claims     \* the records [holder, unit, night] of promised nights

Init == claims = {}

Taken(u) == {c.night : c \in {d \in claims : d.unit = u}}

Claim(h, u, N) ==
  /\ N \cap Taken(u) = {}
  /\ \A c \in claims : c.holder # h
  /\ claims' = claims \cup [holder : {h}, unit : {u}, night : N]

Release(H) == claims' = {c \in claims : c.holder \notin H}

Next ==
  \/ \E h \in Holders, u \in Units, N \in SUBSET Nights : Claim(h, u, N)
  \/ \E H \in SUBSET Holders : Release(H)

Spec == Init /\ [][Next]_claims
=============================================================================
