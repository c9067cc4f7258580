-------------------------- MODULE WebSessionProofs --------------------------
(***************************************************************************)
(* Two results about the tab, for any number of calls, accounts, grants    *)
(* and guard refreshes: its values are of their types; and the refresh     *)
(* queue of axios.ts keeps its promises - a parked call always has a       *)
(* leader, and a call is sent at most twice.                               *)
(***************************************************************************)
EXTENDS WebSession, TLAPS

Tokens == {0} \cup DOMAIN grants
CallRecs == [at : CallStates, token : Tokens, retried : BOOLEAN, sends : Nat]
Stores == [token : Tokens, as : Portals \cup {None}]
Navs == [to : Pages, hard : BOOLEAN] \cup {None}
GuardRecs == [portal : Portals, sent : Tokens]

ServerOK ==
  /\ grants \in Seq(Portals) /\ Len(grants) <= MaxGrants
  /\ live \subseteq DOMAIN grants /\ renewable \subseteq DOMAIN grants
  /\ cookie \in Tokens

ScreenOK ==
  /\ page \in Pages /\ going \in Navs
  /\ due \in BOOLEAN /\ ready \in BOOLEAN /\ leaving \in BOOLEAN

ClientOK ==
  /\ call \in [Calls -> CallRecs]
  /\ refreshing \in BOOLEAN /\ queue \in Seq(Calls)

LEMMA Parts ==
  TypeOK <=> ServerOK /\ ScreenOK /\ ClientOK /\ store \in Stores /\ guards \in Seq(GuardRecs)
  BY DEF TypeOK, ServerOK, ScreenOK, ClientOK, Tokens, CallRecs, Stores, Navs, GuardRecs

LEMMA PageTypes ==
  /\ \A p \in Portals : Home(p) \in Pages /\ LoginPage(p) \in Pages
  /\ \A as \in Portals \cup {None} : LoginOf(as) \in Pages
  /\ \A pg \in Pages : pg.portal \in Portals
  BY NoneIsNoPortal DEF Home, LoginPage, LoginOf, Pages, Portals

\* A grant only adds: every token and cookie stays one.
LEMMA GrantAdds ==
  ASSUME ServerOK, NEW p \in Portals, GenerateAuthResponse(p)
  PROVE  /\ ServerOK'
         /\ cookie' \in DOMAIN grants'
         /\ DOMAIN grants \subseteq DOMAIN grants'
  BY BoundsAreNumbers DEF ServerOK, GenerateAuthResponse, Grants, Tokens

LEMMA RefreshAdds ==
  ASSUME ServerOK, NEW sent \in Tokens, Refresh(sent)
  PROVE  /\ ServerOK'
         /\ cookie' \in DOMAIN grants'
         /\ DOMAIN grants \subseteq DOMAIN grants'
         /\ grants[sent] \in Portals
  <1>1. sent \in DOMAIN grants
    BY DEF Refresh, ServerOK
  <1>2. grants[sent] \in Portals
    BY <1>1 DEF ServerOK
  <1> QED
    BY <1>2, GrantAdds DEF Refresh

\* What a grant leaves alone keeps its type.
LEMMA Widen ==
  ASSUME DOMAIN grants \subseteq DOMAIN grants'
  PROVE  /\ Tokens \subseteq Tokens'
         /\ CallRecs \subseteq CallRecs'
         /\ Stores \subseteq Stores'
         /\ GuardRecs \subseteq GuardRecs'
         /\ \A f \in [Calls -> CallRecs] : f \in [Calls -> CallRecs']
         /\ \A s \in Seq(GuardRecs) : s \in Seq(GuardRecs')
  <1>1. Tokens \subseteq Tokens'
    BY DEF Tokens
  <1>2. CallRecs \subseteq CallRecs' /\ Stores \subseteq Stores' /\ GuardRecs \subseteq GuardRecs'
    BY <1>1 DEF CallRecs, Stores, GuardRecs
  <1>3. \A f \in [Calls -> CallRecs] : f \in [Calls -> CallRecs']
    BY <1>2
  <1>4. \A s \in Seq(GuardRecs) : s \in Seq(GuardRecs')
    BY <1>2
  <1> QED
    BY <1>1, <1>2, <1>3, <1>4

\* TypeOK is not inductive: the effects send a tab to the home of the account
\* type stored with its token, which there has to be.
TokenNamed == store.token # 0 => store.as # None
TypeInv == TypeOK /\ TokenNamed

LEMMA EmptyQueue == <<>> \in Seq(Calls)
  OBVIOUS

LEMMA Resend ==
  ASSUME NEW T, NEW k \in T,
         NEW r \in [at : CallStates, token : T, retried : BOOLEAN, sends : Nat]
  PROVE  [r EXCEPT !.at = "sent", !.token = k, !.sends = @ + 1]
           \in [at : CallStates, token : T, retried : BOOLEAN, sends : Nat]
  <1>1. r.sends + 1 \in Nat
    OBVIOUS
  <1>2. ASSUME NEW n \in Nat
        PROVE  [r EXCEPT !.at = "sent", !.token = k, !.sends = n]
                 \in [at : CallStates, token : T, retried : BOOLEAN, sends : Nat]
    BY DEF CallStates
  <1> QED
    BY <1>1, <1>2

LEMMA GoTypes ==
  ASSUME going \in Navs, NEW p \in Pages, Go(p)
  PROVE  going' \in Navs
  BY DEF Go, Navs

LEMMA SetTypes ==
  ASSUME NEW p \in Portals, SetAuth(p), cookie' \in DOMAIN grants'
  PROVE  store' \in Stores'
  BY DEF SetAuth, Stores, Tokens

LEMMA ClearTypes ==
  ASSUME ClearAuth
  PROVE  store' \in Stores'
  BY DEF ClearAuth, NoAuth, Stores, Tokens

LEMMA WatchedTypes ==
  ASSUME due \in BOOLEAN, StoreWatched
  PROVE  due' \in BOOLEAN
  BY DEF StoreWatched

LEMMA Join ==
  ASSUME ServerOK', ScreenOK', ClientOK', store' \in Stores', guards' \in Seq(GuardRecs')
  PROVE  TypeOK'
  BY DEF TypeOK, ServerOK, ScreenOK, ClientOK, Tokens, CallRecs, Stores, Navs, GuardRecs

\* A step that grants nothing leaves the server and the sets of tokens as
\* they were.
LEMMA Still ==
  ASSUME TypeOK, UNCHANGED <<server, cookie>>
  PROVE  /\ ServerOK'
         /\ Tokens' = Tokens /\ CallRecs' = CallRecs /\ Stores' = Stores
         /\ GuardRecs' = GuardRecs
  BY Parts DEF server, ServerOK, Tokens, CallRecs, Stores, GuardRecs

-----------------------------------------------------------------------------
(* What time, the user and other tabs do *)

LEMMA SurroundingTypes ==
  ASSUME TypeOK
  PROVE  /\ \A n \in Grants : AccessLapses(n) => TypeOK'
         /\ \A p \in Portals : AccountChanges(p) => TypeOK'
         /\ OtherTab => TypeOK'
  <1> USE Parts
  <1>1. ASSUME NEW n \in Grants, AccessLapses(n)
        PROVE  TypeOK'
    BY <1>1, Join DEF AccessLapses, ServerOK, ScreenOK, ClientOK, Tokens, CallRecs, Stores,
                      Navs, GuardRecs, screen, client
  <1>2. ASSUME NEW p \in Portals, AccountChanges(p)
        PROVE  TypeOK'
    <2>1. ServerOK'
      BY <1>2 DEF AccountChanges, ServerOK, Tokens, GrantsOf
    <2> QED
      BY <1>2, <2>1, Join DEF AccountChanges, ScreenOK, ClientOK, Tokens, CallRecs, Stores,
                              Navs, GuardRecs, screen, client
  <1>3. ASSUME OtherTab
        PROVE  TypeOK'
    <2>1. ServerOK' /\ DOMAIN grants \subseteq DOMAIN grants'
      <3>1. CASE \E p \in Accounts : GenerateAuthResponse(p)
        BY <3>1, GrantAdds, AccountsKnown
      <3>2. CASE cookie # 0 /\ cookie' = 0 /\ UNCHANGED server
        BY <3>2 DEF server, ServerOK, Tokens
      <3> QED
        BY <1>3, <3>1, <3>2 DEF OtherTab
    <2>2. UNCHANGED <<store, screen, client, leaving>>
      BY <1>3 DEF OtherTab
    <2> QED
      BY <2>1, <2>2, Widen, Join DEF ScreenOK, ClientOK, Navs, screen, client
  <1> QED
    BY <1>1, <1>2, <1>3

-----------------------------------------------------------------------------
(* API calls *)

\* The steps of a call that ask the server for no session.
LEMMA QuietCallTypes ==
  ASSUME TypeOK, NEW c \in Calls
  PROVE  /\ Send(c) => TypeOK'
         /\ Serve(c) => TypeOK'
         /\ Settle(c) => TypeOK'
         /\ Enqueue(c) => TypeOK'
         /\ Lead(c) => TypeOK'
         /\ RefreshFails(c) => TypeOK'
  <1> USE Parts
  <1>1. ASSUME Send(c)
        PROVE  TypeOK'
    <2>1. call' \in [Calls -> CallRecs]
      BY <1>1 DEF Send, ClientOK, CallRecs, Stores, CallStates
    <2> QED
      BY <1>1, <2>1, Still, Join DEF Send, ScreenOK, ClientOK, Navs, screen
  <1>2. ASSUME Serve(c)
        PROVE  TypeOK'
    <2>1. call' \in [Calls -> CallRecs]
      <3>1. PICK answer \in {"ok", "unauthorized", "error"} :
              call' = [call EXCEPT ![c].at = answer, ![c].token = 0]
        BY <1>2 DEF Serve
      <3> QED
        BY <3>1 DEF ClientOK, CallRecs, Tokens, CallStates
    <2> QED
      BY <1>2, <2>1, Still, Join DEF Serve, ScreenOK, ClientOK, Navs, screen
  <1>3. ASSUME Settle(c)
        PROVE  TypeOK'
    <2>1. call' \in [Calls -> CallRecs]
      BY <1>3 DEF Settle, ClientOK, CallRecs, CallStates
    <2> QED
      BY <1>3, <2>1, Still, Join DEF Settle, ScreenOK, ClientOK, Navs, screen
  <1>4. ASSUME Enqueue(c)
        PROVE  TypeOK'
    <2>1. call' \in [Calls -> CallRecs]
      BY <1>4 DEF Enqueue, ClientOK, CallRecs, CallStates
    <2>2. queue' \in Seq(Calls)
      BY <1>4 DEF Enqueue, ClientOK
    <2> QED
      BY <1>4, <2>1, <2>2, Still, Join DEF Enqueue, ScreenOK, ClientOK, Navs, screen
  <1>5. ASSUME Lead(c)
        PROVE  TypeOK'
    <2>1. call' \in [Calls -> CallRecs]
      BY <1>5 DEF Lead, ClientOK, ServerOK, CallRecs, CallStates
    <2> QED
      BY <1>5, <2>1, Still, Join DEF Lead, ScreenOK, ClientOK, Navs, screen
  <1>6. ASSUME RefreshFails(c)
        PROVE  TypeOK'
    <2>1. UNCHANGED <<server, cookie>> /\ store' \in Stores' /\ due' \in BOOLEAN
      BY <1>6, ClearTypes, WatchedTypes DEF RefreshFails, RefreshRefused, ScreenOK
    <2>2. call' \in [Calls -> CallRecs]
      BY <1>6 DEF RefreshFails, ClientOK, CallRecs, CallStates, Tokens
    <2>3. going' \in Navs
      BY <1>6, PageTypes DEF RefreshFails, ScreenOK, Navs, Stores
    <2>4. ScreenOK'
      BY <1>6, <2>1, <2>3 DEF RefreshFails, ScreenOK, Navs
    <2>5. queue' = <<>> /\ refreshing' = FALSE
      BY <1>6 DEF RefreshFails
    <2>7. ClientOK'
      BY <2>1, <2>2, <2>5, Still, EmptyQueue DEF ClientOK
    <2>6. guards' \in Seq(GuardRecs')
      BY <1>6, <2>1, Still DEF RefreshFails
    <2> QED
      BY <2>1, <2>4, <2>6, <2>7, Still, Join
  <1> QED
    BY <1>1, <1>2, <1>3, <1>4, <1>5, <1>6

LEMMA RefreshSucceedsTypes ==
  ASSUME TypeOK, NEW c \in Calls, RefreshSucceeds(c)
  PROVE  TypeOK'
  <1> USE Parts
  <1>1. call[c].token \in Tokens
    BY DEF ClientOK, CallRecs
  <1>2. /\ ServerOK' /\ cookie' \in DOMAIN grants' /\ DOMAIN grants \subseteq DOMAIN grants'
        /\ grants[call[c].token] \in Portals
    BY <1>1, RefreshAdds DEF RefreshSucceeds
  <1>3. store' \in Stores' /\ due' \in BOOLEAN
    BY <1>2, SetTypes, WatchedTypes DEF RefreshSucceeds, ScreenOK
  <1>4. call' \in [Calls -> CallRecs']
    <2>1. \A d \in Calls : call[d] \in CallRecs'
      BY <1>2, Widen DEF ClientOK
    <2>2. cookie' \in Tokens'
      BY <1>2 DEF Tokens
    <2>3. ASSUME NEW r \in CallRecs'
          PROVE  [r EXCEPT !.at = "sent", !.token = cookie', !.sends = @ + 1] \in CallRecs'
      BY <2>2, <2>3, Resend DEF CallRecs
    <2> QED
      BY <2>1, <2>3 DEF RefreshSucceeds
  <1>5. /\ queue' = <<>> /\ refreshing' = FALSE
        /\ UNCHANGED <<page, going, ready, guards, leaving>>
    BY DEF RefreshSucceeds
  <1>6. ClientOK'
    BY <1>4, <1>5, EmptyQueue DEF ClientOK
  <1>7. ScreenOK'
    BY <1>3, <1>5 DEF ScreenOK, Navs
  <1>8. guards' \in Seq(GuardRecs')
    BY <1>2, <1>5, Widen
  <1> QED
    BY <1>2, <1>3, <1>6, <1>7, <1>8, Join

-----------------------------------------------------------------------------
(* Signing in and out, effects and navigation *)

LEMMA SignInTypes ==
  ASSUME TypeOK, NEW p \in Portals, Login(p)
  PROVE  TypeOK'
  <1> USE Parts
  <1>1. /\ ServerOK' /\ cookie' \in DOMAIN grants' /\ DOMAIN grants \subseteq DOMAIN grants'
    BY GrantAdds DEF Login
  <1>2. store' \in Stores' /\ due' \in BOOLEAN
    BY <1>1, SetTypes, WatchedTypes DEF Login, ScreenOK
  <1>3. going' \in Navs
    BY PageTypes, GoTypes DEF Login, ScreenOK
  <1>4. UNCHANGED <<page, ready, guards, client, leaving>>
    BY DEF Login
  <1>5. ScreenOK'
    BY <1>2, <1>3, <1>4 DEF ScreenOK, Navs
  <1>6. ClientOK' /\ guards' \in Seq(GuardRecs')
    BY <1>1, <1>4, Widen DEF ClientOK, client
  <1> QED
    BY <1>1, <1>2, <1>5, <1>6, Join

LEMMA SignOutTypes ==
  ASSUME TypeOK
  PROVE  /\ Logout => TypeOK'
         /\ LogoutEnds => TypeOK'
  <1> USE Parts
  <1>1. ASSUME Logout
        PROVE  TypeOK'
    BY <1>1, Still, Join DEF Logout, ScreenOK, ClientOK, Navs, screen, client
  <1>2. ASSUME LogoutEnds
        PROVE  TypeOK'
    <2>1. /\ leaving' = FALSE /\ cookie' \in {0, cookie} /\ ClearAuth /\ StoreWatched
          /\ Go(LoginOf(store.as)) /\ UNCHANGED <<server, page, ready, guards, client>>
      BY <1>2 DEF LogoutEnds
    <2>2. ServerOK' /\ DOMAIN grants \subseteq DOMAIN grants'
      BY <2>1 DEF ServerOK, Tokens, server
    <2>3. store' \in Stores' /\ due' \in BOOLEAN
      BY <2>1, ClearTypes, WatchedTypes DEF ScreenOK
    <2>4. store.as \in Portals \cup {None}
      BY DEF Stores
    <2>5. going' \in Navs
      BY <2>1, <2>4, PageTypes, GoTypes DEF ScreenOK
    <2>6. ScreenOK'
      BY <2>1, <2>3, <2>5 DEF ScreenOK, Navs
    <2>7. ClientOK' /\ guards' \in Seq(GuardRecs')
      BY <2>1, <2>2, Widen DEF ClientOK, client
    <2> QED
      BY <2>2, <2>3, <2>6, <2>7, Join
  <1> QED
    BY <1>1, <1>2

LEMMA TargetTypes ==
  ASSUME TypeInv, NEW p \in Portals
  PROVE  /\ store.token # 0 => AfterLogin(p) \in Pages
         /\ Elsewhere(p) \subseteq Pages
  <1>1. store.as \in Portals \cup {None} /\ (store.token # 0 => store.as \in Portals)
    BY DEF TypeInv, TypeOK, TokenNamed
  <1> QED
    BY <1>1, PageTypes, NoneIsNoPortal DEF AfterLogin, Elsewhere, Portals

LEMMA EffectTypes ==
  ASSUME TypeInv, Effect
  PROVE  TypeOK'
  <1> USE Parts DEF TypeInv
  <1> DEFINE p == page.portal
  <1>1. p \in Portals
    BY PageTypes DEF ScreenOK
  <1>2. CASE LoginEffect
    <2>1. going' \in Navs
      <3>1. CASE store.token # 0
        BY <1>1, <1>2, <3>1, TargetTypes, GoTypes DEF LoginEffect, ScreenOK
      <3>2. CASE store.token = 0
        BY <1>2, <3>2 DEF LoginEffect, ScreenOK
      <3> QED
        BY <3>1, <3>2
    <2> QED
      BY <1>2, <2>1, Still, Join DEF LoginEffect, ScreenOK, ClientOK, Navs, client
  <1>3. CASE GuardRedirects
    <2>1. PICK to \in Elsewhere(p) : Go(to)
      BY <1>3 DEF GuardRedirects
    <2>2. going' \in Navs
      BY <1>1, <2>1, TargetTypes, GoTypes DEF ScreenOK
    <2> QED
      BY <1>3, <2>2, Still, Join DEF GuardRedirects, ScreenOK, ClientOK, Navs, client
  <1>4. CASE GuardAdmits
    BY <1>4, Still, Join DEF GuardAdmits, ScreenOK, ClientOK, Navs, client
  <1>5. CASE GuardRefreshes
    <2>1. guards' = Append(guards, [portal |-> p, sent |-> cookie])
      BY <1>5 DEF GuardRefreshes
    <2>2. [portal |-> p, sent |-> cookie] \in GuardRecs
      BY <1>1 DEF GuardRecs, ServerOK
    <2>3. guards' \in Seq(GuardRecs)
      BY <2>1, <2>2
    <2> QED
      BY <1>5, <2>3, Still, Join DEF GuardRefreshes, ScreenOK, ClientOK, Navs, client
  <1> QED
    BY <1>2, <1>3, <1>4, <1>5 DEF Effect

LEMMA RemoveTypes ==
  ASSUME NEW S, NEW s \in Seq(S), NEW i \in DOMAIN s
  PROVE  RemoveAt(s, i) \in Seq(S)
  BY DEF RemoveAt

LEMMA GuardTypes ==
  ASSUME TypeOK, NEW i \in DOMAIN guards
  PROVE  guards[i].portal \in Portals /\ guards[i].sent \in Tokens
  <1>1. guards[i] \in GuardRecs
    BY Parts
  <1> QED
    BY <1>1 DEF GuardRecs

LEMMA GuardGrantedTypes ==
  ASSUME TypeOK, NEW i \in DOMAIN guards, GuardGranted(i)
  PROVE  TypeOK'
  <1> USE Parts
  <1> DEFINE p == guards[i].portal
             who == grants[guards[i].sent]
  <1>1. p \in Portals /\ guards[i].sent \in Tokens
    BY GuardTypes
  <1>2. /\ ServerOK' /\ cookie' \in DOMAIN grants' /\ DOMAIN grants \subseteq DOMAIN grants'
        /\ who \in Portals
    BY <1>1, RefreshAdds DEF GuardGranted
  <1>3. store' \in Stores' /\ due' \in BOOLEAN
    BY <1>2, SetTypes, ClearTypes, WatchedTypes DEF GuardGranted, ScreenOK
  <1>4. going' \in Navs
    <2>1. CASE UNCHANGED going
      BY <2>1 DEF ScreenOK
    <2>2. CASE Go(LoginPage("Owner")) \/ Go(Home(who))
      BY <1>2, <2>2, PageTypes, GoTypes DEF ScreenOK, Portals
    <2> QED
      BY <2>1, <2>2 DEF GuardGranted
  <1>5. ready' \in BOOLEAN
    BY DEF GuardGranted, Admit, ScreenOK
  <1>6. guards' = RemoveAt(guards, i) /\ UNCHANGED <<page, client, leaving>>
    BY DEF GuardGranted
  <1>7. ScreenOK'
    BY <1>3, <1>4, <1>5, <1>6 DEF ScreenOK, Navs
  <1>8. ClientOK' /\ guards' \in Seq(GuardRecs')
    BY <1>2, <1>6, Widen, RemoveTypes DEF ClientOK, client
  <1> QED
    BY <1>2, <1>3, <1>7, <1>8, Join

LEMMA GuardRefusedTypes ==
  ASSUME TypeOK, NEW i \in DOMAIN guards, GuardRefused(i)
  PROVE  TypeOK'
  <1> USE Parts
  <1>1. guards[i].portal \in Portals
    BY GuardTypes
  <1>2. UNCHANGED <<server, cookie>> /\ store' \in Stores' /\ due' \in BOOLEAN
    BY ClearTypes, WatchedTypes DEF GuardRefused, RefreshRefused, ScreenOK
  <1>3. going' \in Navs /\ ready' \in BOOLEAN
    BY <1>1, PageTypes, GoTypes DEF GuardRefused, Admit, ScreenOK
  <1>4. guards' = RemoveAt(guards, i) /\ UNCHANGED <<page, client, leaving>>
    BY DEF GuardRefused
  <1>5. guards' \in Seq(GuardRecs')
    BY <1>2, <1>4, Still, RemoveTypes
  <1>6. ScreenOK' /\ ClientOK'
    BY <1>2, <1>3, <1>4, Still DEF ScreenOK, ClientOK, Navs, client
  <1> QED
    BY <1>2, <1>5, <1>6, Still, Join

LEMMA ArriveTypes ==
  ASSUME TypeOK, Arrive
  PROVE  TypeOK'
  <1> USE Parts
  <1>1. going.to \in Pages
    BY DEF Arrive, ScreenOK, Navs
  <1>2. PICK to \in {going.to} \cup (IF cookie = 0 THEN {LoginPage(going.to.portal)} ELSE {}) :
          /\ page' = to
          /\ IF to = page THEN UNCHANGED <<due, ready>>
             ELSE due' = TRUE /\ ready' = (to = Home("Owner") /\ store.token # 0)
    BY DEF Arrive
  <1>3. to \in Pages
    BY <1>1, PageTypes
  <1>4. /\ going' = None
        /\ UNCHANGED <<server, cookie, store, guards, client, leaving>>
    BY DEF Arrive
  <1>5. ScreenOK'
    BY <1>2, <1>3, <1>4 DEF ScreenOK, Navs
  <1> QED
    BY <1>4, <1>5, Still, Join DEF ClientOK, client

LEMMA LoadTypes ==
  ASSUME TypeOK, NEW to \in Pages, Load(to)
  PROVE  TypeOK'
  <1> USE Parts
  <1>1. /\ UNCHANGED <<server, cookie>>
        /\ page' = (IF cookie = 0 THEN LoginPage(to.portal) ELSE to)
        /\ going' = None /\ due' = TRUE /\ ready' = FALSE /\ guards' = <<>>
        /\ store' = [store EXCEPT !.token = 0]
        /\ refreshing' = FALSE /\ queue' = <<>> /\ leaving' = FALSE
    BY DEF Load
  <1>2. page' \in Pages
    BY <1>1, PageTypes
  <1>3. ScreenOK'
    BY <1>1, <1>2 DEF ScreenOK, Navs
  <1>4. store' \in Stores'
    BY <1>1, Still DEF Stores, Tokens
  <1>5. call' \in [Calls -> CallRecs]
    BY DEF Load, ClientOK, CallRecs, CallStates, Tokens
  <1>6. ClientOK'
    BY <1>1, <1>5, Still, EmptyQueue DEF ClientOK
  <1>7. guards' \in Seq(GuardRecs')
    BY <1>1
  <1> QED
    BY <1>1, <1>3, <1>4, <1>6, <1>7, Still, Join

LEMMA NavigationTypes ==
  ASSUME TypeOK
  PROVE  Navigation \/ Reload => TypeOK'
  <1>1. ASSUME HardArrive
        PROVE  TypeOK'
    BY <1>1, LoadTypes, Parts DEF HardArrive, ScreenOK, Navs
  <1>2. ASSUME Reload
        PROVE  TypeOK'
    BY <1>2, LoadTypes, Parts DEF Reload, ScreenOK
  <1> QED
    BY <1>1, <1>2, ArriveTypes DEF Navigation

-----------------------------------------------------------------------------
(* The theorem *)

LEMMA InitTypes == Init => TypeInv
  <1> SUFFICES ASSUME Init
               PROVE  TypeInv
    OBVIOUS
  <1>1. ServerOK /\ store \in Stores /\ TokenNamed
    <2>1. CASE FirstVisit
      BY <2>1, BoundsAreNumbers DEF FirstVisit, Init, ServerOK, Stores, Tokens, NoAuth, TokenNamed
    <2>2. ASSUME NEW p \in Accounts, MaxGrants > 0, Returning(p)
          PROVE  ServerOK /\ store \in Stores /\ TokenNamed
      <3>1. p \in Portals /\ Len(<<p>>) = 1 /\ <<p>> \in Seq(Portals) /\ DOMAIN <<p>> = {1}
        BY AccountsKnown
      <3> QED
        BY <2>2, <3>1, BoundsAreNumbers DEF Returning, Init, ServerOK, Stores, Tokens, TokenNamed
    <2> QED
      BY <2>1, <2>2 DEF Init
  <1>2. ScreenOK
    BY PageTypes DEF Init, FirstVisit, Returning, ScreenOK, Navs
  <1>3. ClientOK
    BY EmptyQueue DEF Init, ClientOK, CallRecs, CallStates, Tokens, Idle
  <1>4. guards \in Seq(GuardRecs)
    BY DEF Init
  <1> QED
    BY <1>1, <1>2, <1>3, <1>4, Parts DEF TypeInv

\* A token is stored with its account and given up with or before it.
LEMMA NamedStep ==
  ASSUME TypeInv, [Next]_vars
  PROVE  TokenNamed'
  <1> USE DEF TypeInv
  <1>1. CASE UNCHANGED store
    BY <1>1 DEF TokenNamed
  <1>2. CASE ClearAuth
    BY <1>2 DEF ClearAuth, NoAuth, TokenNamed
  <1>3. CASE \E p \in Portals : SetAuth(p)
    BY <1>3, NoneIsNoPortal DEF SetAuth, TokenNamed
  <1>4. CASE \E to \in Pages : Load(to)
    BY <1>4, Parts DEF Load, Stores, TokenNamed
  <1>5. UNCHANGED store \/ ClearAuth \/ (\E p \in Portals : SetAuth(p)) \/ \E to \in Pages : Load(to)
    <2>1. ASSUME NEW c \in Calls, CallStep(c)
          PROVE  UNCHANGED store \/ ClearAuth \/ \E p \in Portals : SetAuth(p)
      <3>1. CASE RefreshSucceeds(c)
        <4>1. call[c].token \in Tokens
          BY Parts DEF ClientOK, CallRecs
        <4>2. grants[call[c].token] \in Portals
          BY <3>1, <4>1, RefreshAdds, Parts DEF RefreshSucceeds
        <4> QED
          BY <3>1, <4>2 DEF RefreshSucceeds
      <3>2. CASE RefreshFails(c)
        BY <3>2 DEF RefreshFails
      <3>3. CASE Serve(c) \/ Settle(c) \/ Enqueue(c) \/ Lead(c)
        BY <3>3 DEF Serve, Settle, Enqueue, Lead
      <3> QED
        BY <2>1, <3>1, <3>2, <3>3 DEF CallStep
    <2>2. ASSUME NEW i \in DOMAIN guards, GuardGranted(i) \/ GuardRefused(i)
          PROVE  ClearAuth \/ \E p \in Portals : SetAuth(p)
      <3>1. guards[i].sent \in Tokens
        BY GuardTypes
      <3>2. GuardGranted(i) => grants[guards[i].sent] \in Portals
        BY <3>1, RefreshAdds, Parts DEF GuardGranted
      <3> QED
        BY <2>2, <3>2 DEF GuardGranted, GuardRefused
    <2>3. ASSUME Surroundings, ~Reload
          PROVE  UNCHANGED store \/ \E p \in Portals : SetAuth(p)
      BY <2>3 DEF Surroundings, Login, AccountChanges, AccessLapses, Send, Logout, OtherTab
    <2>4. ASSUME HardArrive \/ Reload
          PROVE  \E to \in Pages : Load(to)
      BY <2>4, Parts DEF HardArrive, Reload, ScreenOK, Navs
    <2>5. ASSUME Effect \/ Arrive \/ LogoutEnds
          PROVE  UNCHANGED store \/ ClearAuth
      BY <2>5 DEF Effect, LoginEffect, GuardRedirects, GuardAdmits, GuardRefreshes, Arrive,
                  LogoutEnds
    <2> QED
      BY <2>1, <2>2, <2>3, <2>4, <2>5 DEF Next, vars, Navigation, GuardAnswer
  <1> QED
    BY <1>1, <1>2, <1>3, <1>4, <1>5

LEMMA TypeStep == TypeInv /\ [Next]_vars => TypeInv'
  <1> SUFFICES ASSUME TypeInv, [Next]_vars
               PROVE  TypeOK'
    BY NamedStep DEF TypeInv
  <1> USE DEF TypeInv
  <1>1. CASE Surroundings
    <2>1. ASSUME NEW p \in Portals, Login(p)
          PROVE  TypeOK'
      BY <2>1, SignInTypes
    <2> QED
      BY <1>1, <2>1, SurroundingTypes, QuietCallTypes, SignOutTypes, NavigationTypes
         DEF Surroundings
  <1>2. CASE \E c \in Calls : CallStep(c)
    BY <1>2, QuietCallTypes, RefreshSucceedsTypes DEF CallStep
  <1>3. CASE GuardAnswer
    BY <1>3, GuardGrantedTypes, GuardRefusedTypes DEF GuardAnswer
  <1>4. CASE Effect \/ Navigation \/ LogoutEnds
    BY <1>4, EffectTypes, NavigationTypes, SignOutTypes
  <1>5. CASE UNCHANGED vars
    BY <1>5 DEF vars, server, screen, client, TypeOK
  <1> QED
    BY <1>1, <1>2, <1>3, <1>4, <1>5, NamedStep DEF Next

\* The tab, the cookie and the server hold values of their types, and a token
\* in memory is the token of a known account, in every state of axios.ts, the
\* guards and the login pages.
THEOREM SessionTypeCorrect == Spec => [](TypeOK /\ TokenNamed)
  <1>1. Spec => []TypeInv
    BY InitTypes, TypeStep, PTL DEF Spec
  <1> QED
    BY <1>1 DEF TypeInv

-----------------------------------------------------------------------------
(* The refresh queue *)

Parked == {c \in Calls : call[c].at = "waiting"}
Queued == {queue[i] : i \in DOMAIN queue}

\* RetriedOnce is not inductive: a call held by a refresh is about to be sent
\* again, so it must have been sent once only and be marked.
HeldMarked ==
  \A c \in Calls : call[c].at \in {"waiting", "leading"} => call[c].retried /\ call[c].sends <= 1

QueueInv == TypeInv /\ QueueHasLeader /\ RetriedOnce /\ HeldMarked

CallsKeep == QueueHasLeader' /\ RetriedOnce' /\ HeldMarked'

LEMMA CallTyped ==
  ASSUME TypeInv, NEW c \in Calls
  PROVE  /\ call[c] \in CallRecs /\ call \in [Calls -> CallRecs]
         /\ call[c].sends \in Nat /\ call[c].retried \in BOOLEAN
  <1>1. call \in [Calls -> CallRecs]
    BY Parts DEF TypeInv, ClientOK
  <1> QED
    BY <1>1 DEF CallRecs

LEMMA ClientStill ==
  ASSUME QueueInv, UNCHANGED client
  PROVE  CallsKeep
  BY DEF QueueInv, client, CallsKeep, QueueHasLeader, RetriedOnce, HeldMarked, Leaders

\* One call moves, outside the queue and its lead.
LEMMA OneMoves ==
  ASSUME QueueInv, NEW c \in Calls, NEW r \in CallRecs,
         call[c].at \notin {"waiting", "leading"}, r.at \notin {"waiting", "leading"},
         r.sends \in {1, call[c].sends}, r.retried = call[c].retried,
         call' = [call EXCEPT ![c] = r], UNCHANGED <<refreshing, queue>>
  PROVE  CallsKeep
  <1> USE DEF QueueInv
  <1>1. /\ \A d \in Calls : d # c => call'[d] = call[d]
        /\ call'[c] = r
    BY CallTyped
  <1>2. \A d \in Calls : /\ call'[d].at = "waiting" <=> call[d].at = "waiting"
                         /\ call'[d].at = "leading" <=> call[d].at = "leading"
    BY <1>1
  <1>3. QueueHasLeader'
    BY <1>2 DEF QueueHasLeader, Leaders
  <1>4. RetriedOnce'
    BY <1>1 DEF RetriedOnce
  <1>5. HeldMarked'
    BY <1>1, <1>2 DEF HeldMarked
  <1> QED
    BY <1>3, <1>4, <1>5 DEF CallsKeep

LEMMA QuietMoves ==
  ASSUME QueueInv, NEW c \in Calls, Send(c) \/ Serve(c) \/ Settle(c)
  PROVE  CallsKeep
  <1> USE CallTyped DEF QueueInv
  <1> DEFINE r == call'[c]
  <1>1. call' = [call EXCEPT ![c] = r]
    BY DEF Send, Serve, Settle
  <1>2. /\ call[c].at \notin {"waiting", "leading"} /\ r.at \notin {"waiting", "leading"}
        /\ r.sends \in {1, call[c].sends} /\ r.retried = call[c].retried
    BY DEF Send, Serve, Settle, CallRecs
  <1>3. TypeOK'
    BY QuietCallTypes DEF TypeInv
  <1>4. UNCHANGED <<refreshing, queue, grants>>
    BY DEF Send, Serve, Settle, server
  <1>5. r \in CallRecs
    BY <1>3, <1>4 DEF TypeOK, CallRecs, Tokens
  <1> QED
    BY <1>1, <1>2, <1>4, <1>5, OneMoves

LEMMA EnqueueKeeps ==
  ASSUME QueueInv, NEW c \in Calls, Enqueue(c)
  PROVE  CallsKeep
  <1> USE CallTyped DEF QueueInv
  <1>1. /\ call[c].at = "unauthorized" /\ ~call[c].retried /\ refreshing
        /\ \A d \in Calls : d # c => call'[d] = call[d]
        /\ call'[c].at = "waiting" /\ call'[c].retried /\ call'[c].sends = call[c].sends
        /\ queue' = Append(queue, c) /\ UNCHANGED refreshing
    BY DEF Enqueue, FirstUnauthorized, CallRecs
  <1>2. queue \in Seq(Calls)
    BY Parts DEF TypeInv, ClientOK
  <1>3. /\ DOMAIN queue' = 1 .. Len(queue) + 1
        /\ \A i \in DOMAIN queue : queue'[i] = queue[i] /\ call[queue[i]].at = "waiting"
        /\ queue'[Len(queue) + 1] = c
    <2>1. \A i \in DOMAIN queue : queue[i] \in Parked
      BY DEF QueueHasLeader, Parked
    <2> QED
      BY <1>1, <1>2, <2>1 DEF Parked
  <1>4. \A i \in DOMAIN queue : queue[i] # c
    BY <1>1, <1>3
  <1>5. {d \in Calls : call'[d].at = "waiting"} = {queue'[i] : i \in DOMAIN queue'}
    <2>1. {d \in Calls : call'[d].at = "waiting"} = Parked \cup {c}
      BY <1>1 DEF Parked
    <2>2. {queue'[i] : i \in DOMAIN queue'} = Queued \cup {c}
      BY <1>2, <1>3 DEF Queued
    <2> QED
      BY <2>1, <2>2 DEF QueueHasLeader, Parked, Queued
  <1>6. \A i, j \in DOMAIN queue' : i # j => queue'[i] # queue'[j]
    BY <1>2, <1>3, <1>4 DEF QueueHasLeader
  <1>7. Leaders' = Leaders
    BY <1>1 DEF Leaders
  <1>8. QueueHasLeader'
    BY <1>1, <1>5, <1>6, <1>7 DEF QueueHasLeader
  <1>9. call[c].sends <= 1
    BY <1>1 DEF RetriedOnce
  <1> QED
    BY <1>1, <1>8, <1>9 DEF CallsKeep, RetriedOnce, HeldMarked

LEMMA LeadKeeps ==
  ASSUME QueueInv, NEW c \in Calls, Lead(c)
  PROVE  CallsKeep
  <1> USE CallTyped DEF QueueInv
  <1>1. /\ call[c].at = "unauthorized" /\ ~call[c].retried /\ ~refreshing
        /\ \A d \in Calls : d # c => call'[d] = call[d]
        /\ call'[c].at = "leading" /\ call'[c].retried /\ call'[c].sends = call[c].sends
        /\ UNCHANGED queue /\ refreshing'
    BY DEF Lead, FirstUnauthorized, CallRecs
  <1>2. Leaders' = {c}
    BY <1>1 DEF QueueHasLeader, Leaders
  <1>3. {d \in Calls : call'[d].at = "waiting"} = {d \in Calls : call[d].at = "waiting"}
    BY <1>1
  <1>4. QueueHasLeader'
    BY <1>1, <1>2, <1>3 DEF QueueHasLeader
  <1>5. call[c].sends <= 1
    BY <1>1 DEF RetriedOnce
  <1> QED
    BY <1>1, <1>4, <1>5 DEF CallsKeep, RetriedOnce, HeldMarked

\* The leader's refresh is over: nobody leads and nobody is parked.
LEMMA Released ==
  ASSUME QueueInv, NEW c \in Calls, call[c].at = "leading",
         queue' = <<>>, refreshing' = FALSE, call' \in [Calls -> CallRecs'],
         \A d \in Calls \ Held(c) : call'[d] = call[d],
         \A d \in Held(c) : call'[d].at \notin {"waiting", "leading"}
  PROVE  QueueHasLeader' /\ HeldMarked'
  <1> USE DEF QueueInv
  <1>1. \A d \in Calls : call[d].at \in {"waiting", "leading"} => d \in Held(c)
    BY DEF QueueHasLeader, Leaders, Held
  <1>2. \A d \in Calls : call'[d].at \notin {"waiting", "leading"}
    BY <1>1
  <1> QED
    BY <1>2 DEF QueueHasLeader, Leaders, HeldMarked

LEMMA HeldCalls ==
  ASSUME QueueInv, NEW c \in Calls, call[c].at = "leading", NEW d \in Held(c)
  PROVE  d \in Calls /\ call[d].retried /\ call[d].sends <= 1
  <1>1. d \in Calls /\ call[d].at \in {"waiting", "leading"}
    BY DEF QueueInv, QueueHasLeader, Held
  <1> QED
    BY <1>1 DEF QueueInv, HeldMarked

LEMMA RefreshKeeps ==
  ASSUME QueueInv, NEW c \in Calls, RefreshSucceeds(c) \/ RefreshFails(c)
  PROVE  CallsKeep
  <1> USE CallTyped DEF QueueInv
  <1>1. /\ call[c].at = "leading" /\ queue' = <<>> /\ refreshing' = FALSE
        /\ \A d \in Calls \ Held(c) : call'[d] = call[d]
    BY DEF RefreshSucceeds, RefreshFails
  <1>2. call' \in [Calls -> CallRecs']
    <2>1. TypeOK'
      BY QuietCallTypes, RefreshSucceedsTypes DEF TypeInv
    <2> QED
      BY <2>1 DEF TypeOK, CallRecs, Tokens
  <1>3. ASSUME NEW d \in Held(c)
        PROVE  /\ call'[d].at \notin {"waiting", "leading"} /\ call'[d].retried
               /\ call'[d].sends <= 2
    <2>1. d \in Calls /\ call[d].retried /\ call[d].sends <= 1
      BY <1>1, <1>3, HeldCalls
    <2>2. CASE RefreshSucceeds(c)
      <3>1. call'[d] = [call[d] EXCEPT !.at = "sent", !.token = cookie', !.sends = @ + 1]
        BY <1>3, <2>1, <2>2 DEF RefreshSucceeds
      <3> QED
        BY <2>1, <3>1 DEF CallRecs
    <2>3. CASE RefreshFails(c)
      <3>1. call'[d] = [call[d] EXCEPT !.at = "failed", !.token = 0]
        BY <1>3, <2>1, <2>3 DEF RefreshFails
      <3> QED
        BY <2>1, <3>1 DEF CallRecs
    <2> QED
      BY <2>2, <2>3
  <1>4. RetriedOnce'
    BY <1>1, <1>3 DEF RetriedOnce
  <1> QED
    BY <1>1, <1>2, <1>3, <1>4, Released DEF CallsKeep

\* A page load leaves no call in flight.
LEMMA LoadKeeps ==
  ASSUME QueueInv, NEW to \in Pages, Load(to)
  PROVE  CallsKeep
  <1> USE CallTyped DEF QueueInv
  <1>1. queue' = <<>> /\ refreshing' = FALSE
    BY DEF Load
  <1>2. ASSUME NEW d \in Calls
        PROVE  /\ call'[d].at \notin {"waiting", "leading"}
               /\ call'[d].sends = call[d].sends /\ call'[d].retried = call[d].retried
    <2>1. CASE call[d].at \in {"idle", "answered", "failed"}
      BY <2>1 DEF Load
    <2>2. CASE call[d].at \notin {"idle", "answered", "failed"}
      <3>1. call'[d] = [call[d] EXCEPT !.at = "unloaded", !.token = 0]
        BY <2>2 DEF Load
      <3> QED
        BY <3>1 DEF CallRecs
    <2> QED
      BY <2>1, <2>2
  <1> QED
    BY <1>1, <1>2 DEF CallsKeep, QueueHasLeader, Leaders, RetriedOnce, HeldMarked

-----------------------------------------------------------------------------
(* The theorems *)

LEMMA QueueInit == Init => QueueInv
  BY InitTypes DEF Init, Idle, QueueInv, QueueHasLeader, Leaders, RetriedOnce, HeldMarked

LEMMA QueueStep == QueueInv /\ [Next]_vars => QueueInv'
  <1> SUFFICES ASSUME QueueInv, [Next]_vars
               PROVE  CallsKeep
    BY TypeStep DEF QueueInv, CallsKeep
  <1>1. ASSUME NEW c \in Calls, CallStep(c) \/ Send(c)
        PROVE  CallsKeep
    BY <1>1, QuietMoves, EnqueueKeeps, LeadKeeps, RefreshKeeps DEF CallStep
  <1>2. CASE HardArrive \/ Reload
    <2>1. \E to \in Pages : Load(to)
      BY <1>2, Parts DEF HardArrive, Reload, ScreenOK, Navs, QueueInv, TypeInv
    <2> QED
      BY <2>1, LoadKeeps
  <1>3. CASE UNCHANGED client
    BY <1>3, ClientStill
  <1>4. ASSUME Surroundings, ~Reload, \A c \in Calls : ~Send(c)
        PROVE  UNCHANGED client
    BY <1>4 DEF Surroundings, Login, AccountChanges, AccessLapses, Logout, OtherTab
  <1>5. ASSUME Effect \/ GuardAnswer \/ Arrive \/ LogoutEnds
        PROVE  UNCHANGED client
    BY <1>5 DEF Effect, LoginEffect, GuardRedirects, GuardAdmits, GuardRefreshes, GuardAnswer,
                GuardGranted, GuardRefused, Arrive, LogoutEnds
  <1> QED
    BY <1>1, <1>2, <1>3, <1>4, <1>5 DEF Next, vars, client, Navigation

LEMMA QueueInvariant == Spec => []QueueInv
  BY QueueInit, QueueStep, PTL DEF Spec

\* No call waits for a refresh that nobody leads, and one call at most leads
\* one (axios.ts: isRefreshing, refreshQueue and the catch block that drains it).
THEOREM NobodyWaitsInVain == Spec => []QueueHasLeader
  <1>1. QueueInv => QueueHasLeader
    BY DEF QueueInv
  <1> QED
    BY <1>1, QueueInvariant, PTL

\* No call is sent a third time (axios.ts: _retry).
THEOREM NoRetryLoop == Spec => []RetriedOnce
  <1>1. QueueInv => RetriedOnce
    BY DEF QueueInv
  <1> QED
    BY <1>1, QueueInvariant, PTL
=============================================================================
