----------------------------- MODULE PortalGuards -----------------------------
(***************************************************************************)
(* Signing in and out, the auth effects of the portals' layouts and of the *)
(* login pages, and the navigations they cause.                            *)
(***************************************************************************)
EXTENDS ApiClient, SequencesExt

\* A login (or a registration and the login after it) is answered.
Login(p) ==
  /\ page = LoginPage(p) /\ p \in Accounts /\ store.token = 0
  /\ GenerateAuthResponse(p)
  /\ SetAuth(p) /\ StoreWatched
  /\ Go(Home(p))
  /\ UNCHANGED <<page, ready, guards, client, leaving>>

Logout ==
  /\ Shown /\ ~leaving
  /\ leaving' = TRUE
  /\ UNCHANGED <<server, cookie, store, screen, client>>

\* The request came through, or did not; the tab is signed out either way.
LogoutEnds ==
  /\ leaving /\ leaving' = FALSE
  /\ cookie' \in {0, cookie}
  /\ ClearAuth /\ StoreWatched
  /\ Go(LoginOf(store.as))
  /\ UNCHANGED <<server, page, ready, guards, client>>

-----------------------------------------------------------------------------
(* Effects *)

\* Where a login page sends a tab that has a token.
AfterLogin(p) ==
  CASE p = "Admin" -> Home("Admin")
    [] p = "Owner" -> Home(IF store.as = "Admin" THEN "Admin" ELSE "Owner")
    [] p = "Client" -> Home(store.as)

LoginEffect ==
  /\ due /\ page.login /\ due' = FALSE
  /\ IF store.token # 0 THEN Go(AfterLogin(page.portal)) ELSE UNCHANGED going
  /\ UNCHANGED <<server, cookie, store, page, ready, guards, client, leaving>>

\* Where a layout sends a tab of the wrong account, before it refreshes.
Elsewhere(p) ==
  CASE p = "Admin" -> IF store.token # 0 /\ store.as # "Admin" THEN {Home(store.as)} ELSE {}
    [] p = "Owner" -> IF store.as # "Owner" THEN {LoginPage("Owner")} ELSE {}
    [] p = "Client" -> IF store.as \in {"Admin", "Owner"} THEN {Home(store.as)} ELSE {}

GuardRedirects ==
  /\ due /\ ~page.login /\ due' = FALSE
  /\ \E to \in Elsewhere(page.portal) : Go(to)
  /\ ready' = (ready \/ page.portal = "Client")
  /\ UNCHANGED <<server, cookie, store, page, guards, client, leaving>>

GuardAdmits ==
  /\ due /\ ~page.login /\ due' = FALSE
  /\ Elsewhere(page.portal) = {} /\ store.token # 0
  /\ ready' = TRUE
  /\ UNCHANGED <<server, cookie, store, page, going, guards, client, leaving>>

\* No token in memory: ask for one with the cookie.
GuardRefreshes ==
  /\ due /\ ~page.login /\ due' = FALSE
  /\ Elsewhere(page.portal) = {} /\ store.token = 0
  /\ Len(guards) < MaxGuards
  /\ guards' = Append(guards, [portal |-> page.portal, sent |-> cookie])
  /\ UNCHANGED <<server, cookie, store, page, going, ready, client, leaving>>

\* The answer finds the tab wherever it is by then.
Admit(p) == ready' = (ready \/ page = Home(p))

GuardGranted(i) ==
  LET p == guards[i].portal  who == grants[guards[i].sent]
  IN  /\ Refresh(guards[i].sent)
      /\ IF p = "Owner" /\ who # "Owner" THEN ClearAuth ELSE SetAuth(who)
      /\ StoreWatched
      /\ CASE who = p -> UNCHANGED going
           [] who # p /\ p = "Owner" -> Go(LoginPage("Owner"))
           [] OTHER -> Go(Home(who))
      /\ IF p = "Admin" /\ who # "Admin" THEN UNCHANGED ready ELSE Admit(p)
      /\ guards' = RemoveAt(guards, i)
      /\ UNCHANGED <<page, client, leaving>>

\* Mutant: the token is given up, the page stays.
GuardRefusedStays(i) ==
  LET p == guards[i].portal
  IN  /\ RefreshRefused
      /\ ClearAuth /\ StoreWatched
      /\ IF p = "Admin" THEN UNCHANGED ready ELSE Admit(p)
      /\ guards' = RemoveAt(guards, i)
      /\ UNCHANGED <<page, going, client, leaving>>

GuardRefused(i) ==
  LET p == guards[i].portal
  IN  /\ RefreshRefused
      /\ ClearAuth /\ StoreWatched
      /\ Go(LoginPage(p))
      /\ IF p = "Admin" THEN UNCHANGED ready ELSE Admit(p)
      /\ guards' = RemoveAt(guards, i)
      /\ UNCHANGED <<page, client, leaving>>

-----------------------------------------------------------------------------
(* Navigation *)

\* A client-side navigation ends.  The middleware turns a portal's page into
\* its login page when there is no cookie, unless the router had it cached.
Arrive ==
  /\ going # None /\ ~going.hard
  /\ \E to \in {going.to} \cup (IF cookie = 0 THEN {LoginPage(going.to.portal)} ELSE {}) :
       /\ page' = to
       /\ IF to = page THEN UNCHANGED <<due, ready>>
          ELSE due' = TRUE /\ ready' = (to = Home("Owner") /\ store.token # 0)
  /\ going' = None
  /\ UNCHANGED <<server, cookie, store, guards, client, leaving>>

\* A page load: the middleware runs, and of the tab's memory only the
\* persisted account type is left.
Load(to) ==
  /\ page' = IF cookie = 0 THEN LoginPage(to.portal) ELSE to
  /\ going' = None /\ due' = TRUE /\ ready' = FALSE /\ guards' = <<>>
  /\ store' = [store EXCEPT !.token = 0]
  /\ call' = [c \in Calls |->
                IF call[c].at \in {"idle", "answered", "failed"} THEN call[c]
                ELSE [call[c] EXCEPT !.at = "unloaded", !.token = 0]]
  /\ refreshing' = FALSE /\ queue' = <<>> /\ leaving' = FALSE
  /\ UNCHANGED <<server, cookie>>

HardArrive == going # None /\ going.hard /\ Load(going.to)

Reload == going = None /\ Load(page)
=============================================================================
