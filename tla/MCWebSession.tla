---------------------------- MODULE MCWebSession ----------------------------
(***************************************************************************)
(* A tab that remembers whether its user signed out in it: for the run     *)
(* about sign-out only.                                                    *)
(***************************************************************************)
EXTENDS WebSession

VARIABLE gone      \* signed out, and not signed in again by hand

GoneNext ==
  /\ Next
  /\ gone' = IF LogoutEnds THEN TRUE ELSE IF \E p \in Portals : Login(p) THEN FALSE ELSE gone

GoneSpec == Init /\ gone = FALSE /\ [][GoneNext]_<<vars, gone>>

\* useLogout.ts: "If logout API fails, still clear local state (fail-safe)".
\* A tab whose user signed out has no token until somebody signs in.
SignedOutStaysSignedOut == gone => store.token = 0
=============================================================================
