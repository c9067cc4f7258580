------------------------------ MODULE ApiClient ------------------------------
(***************************************************************************)
(* The axios instance: every call carries the store's token; the first 401 *)
(* of a call leads one refresh or waits for the one under way, after which *)
(* the call is sent once more.                                             *)
(***************************************************************************)
EXTENDS SessionState

Send(c) ==
  /\ Shown /\ call[c].at = "idle"
  /\ call' = [call EXCEPT ![c].at = "sent", ![c].token = store.token, ![c].sends = 1]
  /\ UNCHANGED <<server, cookie, store, screen, refreshing, queue, leaving>>

\* Mutant: requests have no time-out.
ServeUntimed(c) ==
  /\ call[c].at = "sent"
  /\ \E answer \in {IF call[c].token \in live THEN "ok" ELSE "unauthorized", "lost"} :
       call' = [call EXCEPT ![c].at = answer, ![c].token = 0]
  /\ UNCHANGED <<server, cookie, store, screen, refreshing, queue, leaving>>

\* The API answers, does not accept the token, refuses for reasons of its
\* own, or nothing comes back before the time-out.
Serve(c) ==
  /\ call[c].at = "sent"
  /\ \E answer \in {IF call[c].token \in live THEN "ok" ELSE "unauthorized", "error"} :
       call' = [call EXCEPT ![c].at = answer, ![c].token = 0]
  /\ UNCHANGED <<server, cookie, store, screen, refreshing, queue, leaving>>

\* A second 401 is an error like any other.
Settle(c) ==
  /\ call[c].at \in {"ok", "error"} \/ (call[c].at = "unauthorized" /\ call[c].retried)
  /\ call' = [call EXCEPT ![c].at = IF @ = "ok" THEN "answered" ELSE "failed"]
  /\ UNCHANGED <<server, cookie, store, screen, refreshing, queue, leaving>>

FirstUnauthorized(c) == call[c].at = "unauthorized" /\ ~call[c].retried

\* Mutant: the mark is set after the queue has been tried.
EnqueueUnmarked(c) ==
  /\ FirstUnauthorized(c) /\ refreshing
  /\ call' = [call EXCEPT ![c].at = "waiting"]
  /\ queue' = Append(queue, c)
  /\ UNCHANGED <<server, cookie, store, screen, refreshing, leaving>>

\* A refresh is under way: wait for its token.
Enqueue(c) ==
  /\ FirstUnauthorized(c) /\ refreshing
  /\ call' = [call EXCEPT ![c].at = "waiting", ![c].retried = TRUE]
  /\ queue' = Append(queue, c)
  /\ UNCHANGED <<server, cookie, store, screen, refreshing, leaving>>

\* None is: lead one, with the cookie of the moment.
Lead(c) ==
  /\ FirstUnauthorized(c) /\ ~refreshing
  /\ call' = [call EXCEPT ![c].at = "leading", ![c].retried = TRUE, ![c].token = cookie]
  /\ refreshing' = TRUE
  /\ UNCHANGED <<server, cookie, store, screen, queue, leaving>>

\* The leader and every call that waits for it.
Held(c) == {c} \cup {queue[i] : i \in DOMAIN queue}

\* Mutant: the released calls stay in the queue.
RefreshKeepsQueue(c) ==
  /\ call[c].at = "leading"
  /\ Refresh(call[c].token)
  /\ SetAuth(grants[call[c].token]) /\ StoreWatched
  /\ call' = [d \in Calls |->
                IF d \in Held(c)
                THEN [call[d] EXCEPT !.at = "sent", !.token = cookie', !.sends = @ + 1]
                ELSE call[d]]
  /\ refreshing' = FALSE
  /\ UNCHANGED <<queue, page, going, ready, guards, leaving>>

RefreshSucceeds(c) ==
  /\ call[c].at = "leading"
  /\ Refresh(call[c].token)
  /\ SetAuth(grants[call[c].token]) /\ StoreWatched
  /\ call' = [d \in Calls |->
                IF d \in Held(c)
                THEN [call[d] EXCEPT !.at = "sent", !.token = cookie', !.sends = @ + 1]
                ELSE call[d]]
  /\ queue' = <<>> /\ refreshing' = FALSE
  /\ UNCHANGED <<page, going, ready, guards, leaving>>

\* The catch block: the session is given up whether the server refused or
\* could not be reached.
RefreshFails(c) ==
  /\ call[c].at = "leading"
  /\ RefreshRefused
  /\ call' = [d \in Calls |->
                IF d \in Held(c) THEN [call[d] EXCEPT !.at = "failed", !.token = 0] ELSE call[d]]
  /\ queue' = <<>> /\ refreshing' = FALSE
  /\ ClearAuth /\ StoreWatched
  /\ going' = IF page.login THEN going ELSE [to |-> LoginOf(store.as), hard |-> TRUE]
  /\ UNCHANGED <<page, ready, guards, leaving>>
=============================================================================
