---------------------------- MODULE SessionState ----------------------------
(***************************************************************************)
(* One browser tab of the platform: its auth store, its page, its API      *)
(* calls; the refresh cookie it shares with the browser's other tabs; and  *)
(* the tokens the server accepts.                                          *)
(*                                                                         *)
(* Tokens and cookies are the numbers of the grants they came from.  A     *)
(* synchronous run of JavaScript, up to its next await, is one step.       *)
(***************************************************************************)
EXTENDS Integers, Sequences, FiniteSets

CONSTANTS
  Calls,        \* API calls of the portals' screens, each made once
  Accounts,     \* the account types that sign in here, one account each
  MaxGrants,    \* bound: how often the server grants a session
  MaxGuards,    \* bound: guard refreshes in flight
  None

Portals == {"Admin", "Owner", "Client"}

ASSUME AccountsKnown == Accounts \subseteq Portals
ASSUME BoundsAreNumbers == MaxGrants \in Nat /\ MaxGuards \in Nat
ASSUME NoneIsNoPortal == None \notin Portals

VARIABLES
  grants,       \* the account of every session granted so far
  live,         \* grants whose access token the API accepts
  renewable,    \* grants whose refresh cookie the API accepts
  cookie,       \* the grant in the refresh cookie, 0 when there is none
  store,        \* kaza-auth: the access token (0: none) and the account type
  page,         \* the page shown
  going,        \* the navigation under way, or None
  due,          \* the page's auth effect has to run
  ready,        \* the guard lets the page's content through
  guards,       \* refreshes the guards are waiting for
  call,         \* every API call
  refreshing,   \* isRefreshing
  queue,        \* refreshQueue
  leaving       \* a sign-out request is in flight

server == <<grants, live, renewable>>
screen == <<page, going, due, ready, guards>>
client == <<call, refreshing, queue>>
vars == <<grants, live, renewable, cookie, store, page, going, due, ready, guards,
          call, refreshing, queue, leaving>>

Grants == 1 .. MaxGrants
NoAuth == [token |-> 0, as |-> None]
Home(p) == [portal |-> p, login |-> FALSE]
LoginPage(p) == [portal |-> p, login |-> TRUE]
Idle == [at |-> "idle", token |-> 0, retried |-> FALSE, sends |-> 0]

\* A browser that never signed in, on a login page.
FirstVisit ==
  /\ grants = <<>> /\ renewable = {} /\ cookie = 0
  /\ store = NoAuth
  /\ page \in {LoginPage(p) : p \in Portals} /\ due = FALSE

\* A browser opened again on a portal's page: of an earlier session it has the
\* cookie and the persisted account type.
Returning(p) ==
  /\ grants = <<p>> /\ renewable = {1} /\ cookie = 1
  /\ store = [token |-> 0, as |-> p]
  /\ page \in {Home(q) : q \in Portals} /\ due = TRUE

Init ==
  /\ FirstVisit \/ \E p \in Accounts : MaxGrants > 0 /\ Returning(p)
  /\ live = {}
  /\ going = None /\ ready = FALSE /\ guards = <<>>
  /\ call = [c \in Calls |-> Idle]
  /\ refreshing = FALSE /\ queue = <<>>
  /\ leaving = FALSE

-----------------------------------------------------------------------------
(* The server *)

\* A session is granted: new tokens and a new cookie.  Grants are stateless,
\* those before stay as good as they were.
GenerateAuthResponse(p) ==
  LET n == Len(grants) + 1
  IN  /\ n \in Grants
      /\ grants' = Append(grants, p)
      /\ live' = live \cup {n} /\ renewable' = renewable \cup {n}
      /\ cookie' = n

\* POST /auth/refresh, with the cookie the request was sent with.
Refresh(sent) == sent \in renewable /\ GenerateAuthResponse(grants[sent])

\* It is refused, or no answer comes.
RefreshRefused == UNCHANGED <<server, cookie>>

GrantsOf(p) == {n \in DOMAIN grants : grants[n] = p}

\* An access token expires, with nobody's help.
AccessLapses(n) ==
  /\ n \in live
  /\ live' = live \ {n}
  /\ UNCHANGED <<grants, renewable, cookie, store, screen, client, leaving>>

\* An account is deactivated, or its security stamp changes with an edit.  An
\* owner's access token is not looked up again and lives to its expiry.
AccountChanges(p) ==
  /\ GrantsOf(p) \cap renewable # {}
  /\ renewable' = renewable \ GrantsOf(p)
  /\ live' = IF p = "Owner" THEN live ELSE live \ GrantsOf(p)
  /\ UNCHANGED <<grants, cookie, store, screen, client, leaving>>

\* Another tab signs in or out: the cookie is the browser's.
OtherTab ==
  /\ \/ \E p \in Accounts : GenerateAuthResponse(p)
     \/ cookie # 0 /\ cookie' = 0 /\ UNCHANGED server
  /\ UNCHANGED <<store, screen, client, leaving>>

-----------------------------------------------------------------------------
(* The store and the router *)

SetAuth(p) == store' = [token |-> cookie', as |-> p]
ClearAuth == store' = NoAuth

\* Effects that depend on the store run again when it changed.
StoreWatched == due' = (due \/ store' # store)

\* router.push and router.replace; a page load under way is not stopped.
Go(p) == going' = IF going # None /\ going.hard THEN going ELSE [to |-> p, hard |-> FALSE]

\* Mutant: an account type nobody stored has no login page.
LoginOfStored(as) == LoginPage(as)

LoginOf(as) == LoginPage(IF as = None THEN "Admin" ELSE as)

\* The portal's content is on the screen.
Shown ==
  /\ ~page.login /\ ready
  /\ page.portal \in {"Owner", "Client"} => store.as = page.portal
=============================================================================
