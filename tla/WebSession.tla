----------------------------- MODULE WebSession -----------------------------
(***************************************************************************)
(* A tab of the platform from sign-in to sign-out.                         *)
(***************************************************************************)
EXTENDS PortalGuards

\* What the user, other tabs and time may do.
Surroundings ==
  \/ \E p \in Portals : Login(p) \/ AccountChanges(p)
  \/ \E n \in Grants : AccessLapses(n)
  \/ \E c \in Calls : Send(c)
  \/ Logout \/ Reload \/ OtherTab

\* What the browser and the network bring to an end.
CallStep(c) ==
  Serve(c) \/ Settle(c) \/ Enqueue(c) \/ Lead(c) \/ RefreshSucceeds(c) \/ RefreshFails(c)
Effect == LoginEffect \/ GuardRedirects \/ GuardAdmits \/ GuardRefreshes
GuardAnswer == \E i \in DOMAIN guards : GuardGranted(i) \/ GuardRefused(i)
Navigation == Arrive \/ HardArrive

Next ==
  \/ Surroundings
  \/ \E c \in Calls : CallStep(c)
  \/ Effect \/ GuardAnswer \/ Navigation \/ LogoutEnds

\* Requests are answered or fail, effects run, navigations end.
Fairness ==
  /\ \A c \in Calls : WF_vars(CallStep(c))
  /\ WF_vars(Effect) /\ SF_vars(GuardAnswer) /\ WF_vars(Navigation) /\ WF_vars(LogoutEnds)

Spec == Init /\ [][Next]_vars /\ Fairness

-----------------------------------------------------------------------------
(* Properties *)

CallStates ==
  {"idle", "sent", "ok", "error", "unauthorized", "waiting", "leading",
   "answered", "failed", "unloaded"}
Pages == [portal : Portals, login : BOOLEAN]

\* The tab, the cookie and the server hold values of their types.
TypeOK ==
  /\ grants \in Seq(Portals) /\ Len(grants) <= MaxGrants
  /\ live \subseteq DOMAIN grants /\ renewable \subseteq DOMAIN grants
  /\ cookie \in {0} \cup DOMAIN grants
  /\ store \in [token : {0} \cup DOMAIN grants, as : Portals \cup {None}]
  /\ page \in Pages
  /\ going \in [to : Pages, hard : BOOLEAN] \cup {None}
  /\ due \in BOOLEAN /\ ready \in BOOLEAN
  /\ guards \in Seq([portal : Portals, sent : {0} \cup DOMAIN grants])
  /\ call \in [Calls -> [at : CallStates, token : {0} \cup DOMAIN grants,
                         retried : BOOLEAN, sends : Nat]]
  /\ refreshing \in BOOLEAN
  /\ queue \in Seq(Calls)
  /\ leaving \in BOOLEAN

\* Nobody waits in vain: a call is parked only in the queue, once, and only
\* while exactly one other call leads the refresh that will release it.
Leaders == {c \in Calls : call[c].at = "leading"}

QueueHasLeader ==
  /\ {c \in Calls : call[c].at = "waiting"} = {queue[i] : i \in DOMAIN queue}
  /\ \A i, j \in DOMAIN queue : i # j => queue[i] # queue[j]
  /\ refreshing <=> Leaders # {}
  /\ \A c, d \in Leaders : c = d

\* No refresh loop: a call is sent at most twice, and twice only after a 401.
RetriedOnce ==
  \A c \in Calls : call[c].sends <= 2 /\ (call[c].sends = 2 => call[c].retried)

\* Expiry, refresh and queueing are invisible to the screens: every call
\* settles once, and does settle unless the page is unloaded.
Api ==
  INSTANCE ApiCalls WITH outcome <-
    [c \in Calls |->
       CASE call[c].at = "idle" -> "unsent"
         [] call[c].at \in {"answered", "failed", "unloaded"} -> call[c].at
         [] OTHER -> "pending"]

CallsSettleOnce == Api!Spec

\* A portal's page without a token is temporary: it gets one, or the tab is
\* taken to a login page, whatever became of refreshes and sign-out.
GuardedPageNeedsToken ==
  ~page.login /\ store.token = 0 ~> page.login \/ store.token # 0

\* middleware.ts leaves it to the pages to "Redirect logged-in users away from
\* auth pages".  In a tab with a token, in a browser with a cookie, the
\* redirects come to an end, or it stops being signed in.
SignedIn == store.token # 0 /\ cookie # 0

RedirectsEnd == SignedIn ~> ~SignedIn \/ (going = None /\ ~due)
=============================================================================
