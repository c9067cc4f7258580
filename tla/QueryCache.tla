----------------------------- MODULE QueryCache -----------------------------
(***************************************************************************)
(* The query cache of one browser tab (TanStack Query under the defaults   *)
(* of lib/providers/query-provider.tsx) and the hooks that write through   *)
(* the server.                                                             *)
(*                                                                         *)
(* Entries of different queries never meet in the cache, so a behaviour    *)
(* follows one query, chosen at the start, with everything that can happen *)
(* to it.  "now" counts the writes that changed the query's answer on the  *)
(* server; the tab knows an answer by the count it was served at.  A       *)
(* fetch is asked, served (read at the server) and delivered, and a        *)
(* mutation is sent, committed and answered, all at moments of their own.  *)
(***************************************************************************)
EXTENDS Naturals, Sequences

CONSTANTS
    Queries,    \* the queries
    Hooks,      \* the mutation hooks
    Effect,     \* [Hooks \X Queries -> Seq(SUBSET {"invalidate","refetch","set"})]
    Changes,    \* <<hook, query>>: the hook's endpoint changes the answer
    Left,       \* the pairs in Changes the hook is known to leave alone
    Polls,      \* the queries with a refetchInterval
    Slots,      \* mutations under way at once
    MaxWrites   \* bound on now

VARIABLES
    query,      \* the query followed
    now,        \* its version at the server
    shown,      \* the version in the cache, 0 when there is no data
    fetch,      \* the fetch under way
    invalid,    \* isInvalidated
    failed,     \* the last fetch failed (status "error")
    mounted,    \* a component observes the query
    focused,    \* the window has the focus
    calls,      \* the mutations under way
    owed        \* the newest of the tab's own writes the view answers for

vars == <<query, now, shown, fetch, invalid, failed, mounted, focused, calls,
          owed>>

Ops == {"invalidate", "refetch", "set"}

ASSUME CacheAssumption ==
    /\ MaxWrites \in Nat \ {0}
    /\ \A h \in Hooks, q \in Queries :
          /\ Effect[<<h, q>>] \in Seq(SUBSET Ops)
          /\ Effect[<<h, q>>] # <<>>

NoFetch == [at |-> "idle", seen |-> 0]
Asked   == [at |-> "asked", seen |-> 0]
NoCall  == [at |-> "idle", does |-> <<>>, next |-> 1, seen |-> 0,
            writes |-> FALSE, left |-> FALSE]

Fetch == [at : {"idle", "asked", "served"}, seen : 0 .. MaxWrites]
Call  == [at : {"idle", "sent", "done"}, does : Seq(SUBSET Ops), next : Nat,
          seen : 0 .. MaxWrites, writes : BOOLEAN, left : BOOLEAN]

Idle == fetch.at = "idle"
Older(a, b) == IF a < b THEN a ELSE b
Newer(a, b) == IF a < b THEN b ELSE a

TypeOK ==
    /\ query \in Queries
    /\ now \in 1 .. MaxWrites
    /\ shown \in 0 .. MaxWrites
    /\ fetch \in Fetch
    /\ invalid \in BOOLEAN /\ failed \in BOOLEAN
    /\ mounted \in BOOLEAN /\ focused \in BOOLEAN
    /\ calls \in [Slots -> Call]
    /\ owed \in 0 .. MaxWrites

Init ==
    /\ query \in Queries
    /\ now = 1
    /\ shown = 0
    /\ fetch = NoFetch
    /\ invalid = FALSE
    /\ failed = FALSE
    /\ mounted = FALSE
    /\ focused = TRUE
    /\ calls = [s \in Slots |-> NoCall]
    /\ owed = 0

-----------------------------------------------------------------------------
(* The view and its fetches *)

\* A fetch starts unless one is under way; data younger than the query's
\* staleTime may be left as it is, missing or invalidated data may not.
MayAsk == fetch' = Asked \/ (shown # 0 /\ ~invalid /\ fetch' = fetch)

Mount ==
    /\ ~mounted
    /\ mounted' = TRUE
    /\ IF Idle THEN MayAsk ELSE fetch' = fetch
    /\ UNCHANGED <<query, now, shown, invalid, failed, focused, calls, owed>>

\* The fetch under way goes on without its observer.
Unmount ==
    /\ mounted
    /\ mounted' = FALSE
    /\ UNCHANGED <<query, now, shown, fetch, invalid, failed, focused, calls, owed>>

Blur ==
    /\ focused
    /\ focused' = FALSE
    /\ UNCHANGED <<query, now, shown, fetch, invalid, failed, mounted, calls, owed>>

\* refetchOnWindowFocus
Refocus ==
    /\ ~focused
    /\ focused' = TRUE
    /\ IF mounted /\ Idle THEN MayAsk ELSE fetch' = fetch
    /\ UNCHANGED <<query, now, shown, invalid, failed, mounted, calls, owed>>

\* refetchInterval, which rests while the window is in the background.
Poll ==
    /\ query \in Polls /\ mounted /\ focused /\ Idle
    /\ fetch' = Asked
    /\ UNCHANGED <<query, now, shown, invalid, failed, mounted, focused, calls, owed>>

Serve ==
    /\ fetch.at = "asked"
    /\ fetch' = [at |-> "served", seen |-> now]
    /\ UNCHANGED <<query, now, shown, invalid, failed, mounted, focused, calls, owed>>

Deliver ==
    /\ fetch.at = "served"
    /\ shown' = fetch.seen
    /\ fetch' = NoFetch
    /\ invalid' = FALSE
    /\ failed' = FALSE
    /\ UNCHANGED <<query, now, mounted, focused, calls, owed>>

\* The fetch failed and so did its retry, if it had one.
FetchFails ==
    /\ ~Idle
    /\ fetch' = NoFetch
    /\ failed' = TRUE
    /\ invalid' = (shown # 0)
    /\ UNCHANGED <<query, now, shown, mounted, focused, calls, owed>>

\* gcTime is over: an entry nobody observes is dropped.
Collect ==
    /\ ~mounted /\ Idle /\ shown # 0
    /\ shown' = 0
    /\ invalid' = FALSE
    /\ failed' = FALSE
    /\ owed' = 0
    /\ UNCHANGED <<query, now, fetch, mounted, focused, calls>>

-----------------------------------------------------------------------------
(* The hooks *)

Touches(h) ==
    \/ <<h, query>> \in Changes
    \/ \E i \in DOMAIN Effect[<<h, query>>] : Effect[<<h, query>>][i] # {}

Send(s, h) ==
    /\ calls[s] = NoCall
    /\ now < MaxWrites
    /\ Touches(h)
    /\ calls' = [calls EXCEPT ![s] =
         [ at |-> "sent", does |-> Effect[<<h, query>>], next |-> 1, seen |-> 0,
           writes |-> <<h, query>> \in Changes, left |-> <<h, query>> \in Left ]]
    /\ UNCHANGED <<query, now, shown, fetch, invalid, failed, mounted, focused, owed>>

\* The endpoint writes; its answer carries the state it leaves behind.
Commit(s) ==
    LET v == IF calls[s].writes THEN now + 1 ELSE now IN
    /\ calls[s].at = "sent"
    /\ v <= MaxWrites
    /\ now' = v
    /\ calls' = [calls EXCEPT ![s].at = "done", ![s].seen = v]
    /\ UNCHANGED <<query, shown, fetch, invalid, failed, mounted, focused, owed>>

\* The call fails, before or after the server has done its part.
CallFails(s) ==
    /\ calls[s].at # "idle"
    /\ calls[s].next = 1
    /\ calls' = [calls EXCEPT ![s] = NoCall]
    /\ UNCHANGED <<query, now, shown, fetch, invalid, failed, mounted, focused, owed>>

\* What the batch puts in the cache: setQueryData stores the answer and
\* clears the flags, an in-flight fetch goes on.
Stored(batch, v) == IF "set" \in batch THEN v ELSE shown

\* invalidateQueries refetches what is mounted, refetchQueries also what is
\* only cached.
Wanted(batch, v) ==
    \/ "invalidate" \in batch /\ mounted
    \/ "refetch" \in batch /\ (mounted \/ Stored(batch, v) # 0)

\* cancelRefetch: a fetch under way is replaced, but never the first load.
Refetched(batch, v) ==
    IF Wanted(batch, v) /\ (Stored(batch, v) # 0 \/ Idle) THEN Asked ELSE fetch

\* The call's write is one the view answers for once the batch has run: the
\* first batch that touches the query settles it, or the last one if none
\* does.  Excused is the write whose older answer is under way and cannot be
\* replaced.
Settles(c) ==
    /\ c.writes /\ ~c.left
    /\ \/ c.does[c.next] # {}
       \/ c.next = Len(c.does) /\ \A i \in DOMAIN c.does : c.does[i] = {}

Excused(batch, v) ==
    LET f == Refetched(batch, v) IN f.at = "served" /\ f.seen < v

\* An answer stored late, over newer data and with no refetch, takes the view
\* back to its own version.
Kept(batch, v) == IF batch = {"set"} THEN Older(owed, v) ELSE owed

RunBatch(s) ==
    LET c == calls[s]
        batch == c.does[c.next]
    IN
    /\ c.at = "done"
    /\ shown' = Stored(batch, c.seen)
    /\ failed' = (failed /\ "set" \notin batch)
    /\ invalid' = \/ invalid /\ "set" \notin batch
                  \/ "invalidate" \in batch /\ Stored(batch, c.seen) # 0
    /\ fetch' = Refetched(batch, c.seen)
    /\ owed' = IF Settles(c) /\ ~Excused(batch, c.seen)
               THEN Newer(Kept(batch, c.seen), c.seen)
               ELSE Kept(batch, c.seen)
    /\ calls' = IF c.next = Len(c.does) THEN [calls EXCEPT ![s] = NoCall]
                ELSE [calls EXCEPT ![s].next = c.next + 1]
    /\ UNCHANGED <<query, now, mounted, focused>>

\* Another session writes.
OtherWrite ==
    /\ now < MaxWrites
    /\ now' = now + 1
    /\ UNCHANGED <<query, shown, fetch, invalid, failed, mounted, focused, calls, owed>>

\* The page is loaded anew: the cache and the calls' answers are lost.
Reload ==
    /\ shown' = 0
    /\ fetch' = NoFetch
    /\ invalid' = FALSE
    /\ failed' = FALSE
    /\ mounted' = FALSE
    /\ focused' = TRUE
    /\ calls' = [s \in Slots |-> NoCall]
    /\ owed' = 0
    /\ UNCHANGED <<query, now>>

View == Mount \/ Unmount \/ Blur \/ Refocus \/ Poll \/ Serve \/ Deliver
        \/ FetchFails \/ Collect

Mutation == \E s \in Slots :
    \/ \E h \in Hooks : Send(s, h)
    \/ Commit(s) \/ CallFails(s) \/ RunBatch(s)

Next == View \/ Mutation \/ OtherWrite \/ Reload

Fairness == WF_vars(Poll) /\ SF_vars(Serve) /\ SF_vars(Deliver)

Spec == Init /\ [][Next]_vars /\ Fairness

-----------------------------------------------------------------------------
\* A view on screen whose fetches are done and did not fail shows every write
\* this tab has made and finished, on the hooks not known to leave it alone.
OwnWritesShown == mounted /\ Idle /\ ~failed => shown >= owed
=============================================================================
