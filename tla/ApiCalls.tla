------------------------------ MODULE ApiCalls ------------------------------
(***************************************************************************)
(* What a screen may count on when it calls the API: every call settles    *)
(* exactly once, with an answer or an error, unless the page is unloaded   *)
(* first.  Expired access tokens, the refresh they cause and the calls     *)
(* that wait for it are invisible here.                                    *)
(***************************************************************************)
CONSTANTS Calls

VARIABLE outcome      \* what became of each call

Outcomes == {"unsent", "pending", "answered", "failed", "unloaded"}

Init == outcome = [c \in Calls |-> "unsent"]

Issue(c) ==
  /\ outcome[c] = "unsent"
  /\ outcome' = [outcome EXCEPT ![c] = "pending"]

\* One refresh may settle several waiting calls at once.
Settle(done) ==
  /\ \A c \in done : outcome[c] = "pending"
  /\ \E how \in {"answered", "failed"} :
       outcome' = [c \in Calls |-> IF c \in done THEN how ELSE outcome[c]]

Unload ==
  outcome' = [c \in Calls |-> IF outcome[c] = "pending" THEN "unloaded" ELSE outcome[c]]

Next ==
  \/ \E c \in Calls : Issue(c)
  \/ \E done \in SUBSET Calls : Settle(done)
  \/ Unload

Spec ==
  /\ Init /\ [][Next]_outcome
  /\ \A c \in Calls : WF_outcome(Settle({c}) \/ Unload)
=============================================================================
