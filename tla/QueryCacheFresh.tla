--------------------------- MODULE QueryCacheFresh ---------------------------
(***************************************************************************)
(* OwnWritesShown holds of any set of queries and hooks, and any number of *)
(* calls under way, as long as every hook touches every query it changes   *)
(* and is not known to leave alone.                                        *)
(***************************************************************************)
EXTENDS QueryCache, TLAPS

\* The tables keep their promise: no write is forgotten but those in Left.
EveryWriteHandled ==
    \A h \in Hooks, q \in Queries :
        <<h, q>> \in Changes /\ <<h, q>> \notin Left
          => \E i \in DOMAIN Effect[<<h, q>>] : Effect[<<h, q>>][i] # {}

-----------------------------------------------------------------------------
(* The inductive invariant *)

CallOK(c) ==
    c.at # "idle" =>
      /\ c.next \in 1 .. Len(c.does)
      /\ c.at = "done" => c.seen \in 1 .. now
      /\ c.writes /\ ~c.left => \E i \in DOMAIN c.does : c.does[i] # {}

\* An answer under way was read after every write the view answers for.
AnswerOK ==
    fetch.at = "served" => fetch.seen \in 1 .. now /\ owed <= fetch.seen

\* A view at rest shows them; or it is marked, and the next mount will ask.
ViewOK ==
    Idle /\ ~failed =>
      /\ shown # 0 => shown >= owed \/ (invalid /\ ~mounted)
      /\ mounted => shown # 0

CacheInv ==
    /\ TypeOK
    /\ owed <= now
    /\ AnswerOK
    /\ ViewOK
    /\ \A s \in Slots : CallOK(calls[s])

-----------------------------------------------------------------------------
(* Types *)

\* The values that stand for nothing under way.
LEMMA NothingTyped == NoCall \in Call /\ NoFetch \in Fetch /\ Asked \in Fetch
  <1>1. <<>> \in Seq(SUBSET Ops)
    OBVIOUS
  <1>. QED BY <1>1, CacheAssumption DEF NoCall, Call, NoFetch, Asked, Fetch

\* Every batch of a well-typed call is a set of operations.
LEMMA BatchTyped ==
    ASSUME NEW c \in Call, c.next \in 1 .. Len(c.does)
    PROVE  c.does[c.next] \in SUBSET Ops
  BY DEF Call

LEMMA TypesStart == Init => TypeOK
  <1>. SUFFICES ASSUME Init PROVE TypeOK
    OBVIOUS
  <1>1. now \in 1 .. MaxWrites /\ 0 \in 0 .. MaxWrites
    BY CacheAssumption DEF Init
  <1>2. calls \in [Slots -> Call]
    BY NothingTyped DEF Init
  <1>. QED BY <1>1, <1>2, NothingTyped DEF Init, TypeOK

\* No step of the view, of a call or of the world leaves the types.
LEMMA TypesStep == TypeOK /\ [Next]_vars => TypeOK'
  <1>. SUFFICES ASSUME TypeOK, [Next]_vars PROVE TypeOK'
    OBVIOUS
  <1>. USE CacheAssumption, NothingTyped
  <1>1. CASE Mount
    BY <1>1 DEF TypeOK, Mount, MayAsk
  <1>2. CASE Unmount
    BY <1>2 DEF TypeOK, Unmount
  <1>3. CASE Blur
    BY <1>3 DEF TypeOK, Blur
  <1>4. CASE Refocus
    BY <1>4 DEF TypeOK, Refocus, MayAsk
  <1>5. CASE Poll
    BY <1>5 DEF TypeOK, Poll
  <1>6. CASE Serve
    <2>1. fetch' \in Fetch
      BY <1>6 DEF TypeOK, Serve, Fetch
    <2>. QED BY <2>1, <1>6 DEF TypeOK, Serve
  <1>7. CASE Deliver
    <2>1. shown' \in 0 .. MaxWrites
      BY <1>7 DEF TypeOK, Deliver, Fetch
    <2>. QED BY <2>1, <1>7 DEF TypeOK, Deliver
  <1>8. CASE FetchFails
    BY <1>8 DEF TypeOK, FetchFails
  <1>9. CASE Collect
    <2>1. 0 \in 0 .. MaxWrites
      OBVIOUS
    <2>. QED BY <2>1, <1>9 DEF TypeOK, Collect
  <1>10. ASSUME NEW s \in Slots, NEW h \in Hooks, Send(s, h) PROVE TypeOK'
    <2>1. Effect[<<h, query>>] \in Seq(SUBSET Ops)
      BY DEF TypeOK
    <2>. QED BY <2>1, <1>10 DEF TypeOK, Send, Call
  <1>11. ASSUME NEW s \in Slots, Commit(s) PROVE TypeOK'
    <2>. DEFINE v == IF calls[s].writes THEN now + 1 ELSE now
    <2>1. v \in 1 .. MaxWrites /\ v \in 0 .. MaxWrites
      BY <1>11 DEF TypeOK, Commit
    <2>2. calls[s] \in Call
      BY DEF TypeOK
    <2>. HIDE DEF v
    <2>3. [calls[s] EXCEPT !.at = "done", !.seen = v] \in Call
      BY <2>1, <2>2 DEF Call
    <2>4. /\ now' = v
          /\ calls' = [calls EXCEPT ![s] =
                         [calls[s] EXCEPT !.at = "done", !.seen = v]]
      BY <2>2, <1>11 DEF Commit, TypeOK, Call, v
    <2>. QED BY <2>1, <2>3, <2>4, <1>11 DEF TypeOK, Commit
  <1>12. ASSUME NEW s \in Slots, CallFails(s) PROVE TypeOK'
    BY <1>12 DEF TypeOK, CallFails
  <1>13. ASSUME NEW s \in Slots, RunBatch(s) PROVE TypeOK'
    <2>. DEFINE c == calls[s]
                batch == c.does[c.next]
    <2>1. c \in Call
      BY DEF TypeOK
    <2>2. shown' \in 0 .. MaxWrites /\ owed' \in 0 .. MaxWrites
      BY <2>1, <1>13 DEF TypeOK, RunBatch, Stored, Kept, Older, Newer, Call
    <2>3. fetch' \in Fetch
      BY <1>13 DEF TypeOK, RunBatch, Refetched
    <2>4. calls' \in [Slots -> Call]
      <3>1. c.next + 1 \in Nat
        BY <2>1 DEF Call
      <3>. HIDE DEF c
      <3>2. [c EXCEPT !.next = c.next + 1] \in Call
        BY <2>1, <3>1 DEF Call
      <3>3. \/ calls' = [calls EXCEPT ![s] = NoCall]
            \/ calls' = [calls EXCEPT ![s] = [c EXCEPT !.next = c.next + 1]]
        BY <1>13 DEF RunBatch, c
      <3>. QED BY <3>2, <3>3 DEF TypeOK
    <2>. HIDE DEF c, batch
    <2>5. failed' \in BOOLEAN /\ invalid' \in BOOLEAN
      BY <1>13 DEF RunBatch
    <2>. QED BY <2>2, <2>3, <2>4, <2>5, <1>13 DEF TypeOK, RunBatch
  <1>14. CASE OtherWrite
    BY <1>14 DEF TypeOK, OtherWrite
  <1>15. CASE Reload
    <2>1. 0 \in 0 .. MaxWrites
      OBVIOUS
    <2>. QED BY <2>1, <1>15 DEF TypeOK, Reload
  <1>16. CASE UNCHANGED vars
    BY <1>16 DEF TypeOK, vars
  <1>. QED
    BY <1>1, <1>2, <1>3, <1>4, <1>5, <1>6, <1>7, <1>8, <1>9, <1>10, <1>11,
       <1>12, <1>13, <1>14, <1>15, <1>16 DEF Next, View, Mutation

\* The cache, the fetch and the calls keep their types, whatever the hooks.
THEOREM CacheTypeCorrect == Spec => []TypeOK
  BY TypesStart, TypesStep, PTL DEF Spec

-----------------------------------------------------------------------------
(* Calls: a step that starts, ends or moves none but one of them *)

\* An idle call promises nothing.
LEMMA NoCallOK == CallOK(NoCall)
  BY DEF CallOK, NoCall

\* Calls left alone keep their promise while the server goes on.
LEMMA CallsStay ==
    ASSUME TypeOK, now' \in Nat, now <= now',
           NEW s \in Slots, CallOK(calls[s]), calls'[s] = calls[s]
    PROVE  CallOK(calls[s])'
  <1>. DEFINE c == calls[s]
  <1>1. c \in Call /\ now \in Nat
    BY DEF TypeOK
  <1>2. c' = c
    OBVIOUS
  <1>. QED BY <1>1, <1>2 DEF CallOK, Call

\* A call has a batch left to run, its answer is one the server has given and
\* a write it answers for meets a batch that touches the query.
LEMMA CallsStep ==
    ASSUME EveryWriteHandled, CacheInv, [Next]_vars
    PROVE  \A s \in Slots : CallOK(calls[s])'
  <1>. USE NoCallOK
  <1>0. TypeOK /\ TypeOK' /\ now \in Nat /\ now' \in Nat
    BY TypesStep DEF CacheInv, TypeOK
  <1>1. ASSUME now' >= now, calls' = calls
        PROVE  \A s \in Slots : CallOK(calls[s])'
    BY <1>0, <1>1, CallsStay DEF CacheInv
  <1>2. ASSUME NEW s \in Slots, now' >= now,
               \A t \in Slots \ {s} : calls'[t] = calls[t],
               CallOK(calls[s])'
        PROVE  \A t \in Slots : CallOK(calls[t])'
    BY <1>0, <1>2, CallsStay DEF CacheInv
  <1>3. CASE View
    BY <1>0, <1>1, <1>3 DEF View, Mount, Unmount, Blur, Refocus, Poll, Serve,
       Deliver, FetchFails, Collect
  <1>4. ASSUME NEW s \in Slots, NEW h \in Hooks, Send(s, h)
        PROVE  \A t \in Slots : CallOK(calls[t])'
    <2>. DEFINE does == Effect[<<h, query>>]
                writes == <<h, query>> \in Changes
                left == <<h, query>> \in Left
    <2>1. does \in Seq(SUBSET Ops) /\ does # <<>> /\ query \in Queries
      BY <1>0, CacheAssumption DEF TypeOK
    <2>2. Len(does) \in Nat /\ Len(does) >= 1
      BY <2>1
    <2>3. writes /\ ~left => \E i \in DOMAIN does : does[i] # {}
      BY <2>1 DEF CacheInv, EveryWriteHandled
    <2>4. calls'[s] = [at |-> "sent", does |-> does, next |-> 1, seen |-> 0,
                       writes |-> writes, left |-> left]
      BY <1>0, <1>4 DEF Send, TypeOK
    <2>. HIDE DEF does, writes, left
    <2>5. CallOK(calls[s])'
      BY <2>2, <2>3, <2>4 DEF CallOK
    <2>6. now' = now /\ \A t \in Slots \ {s} : calls'[t] = calls[t]
      BY <1>0, <1>4 DEF Send, TypeOK
    <2>. QED BY <2>5, <2>6, <1>0, <1>2
  <1>5. ASSUME NEW s \in Slots, Commit(s)
        PROVE  \A t \in Slots : CallOK(calls[t])'
    <2>. DEFINE c == calls[s]
    <2>1. c \in Call /\ CallOK(c) /\ c.at = "sent"
      BY <1>0, <1>5 DEF TypeOK, CacheInv, Commit
    <2>2. now' >= now /\ now' \in 1 .. now'
      BY <1>0, <1>5 DEF Commit, TypeOK
    <2>3. calls'[s] = [c EXCEPT !.at = "done", !.seen = now']
      BY <1>0, <1>5, <2>1 DEF Commit, TypeOK, Call
    <2>4. \A t \in Slots \ {s} : calls'[t] = calls[t]
      BY <1>0, <1>5 DEF Commit, TypeOK
    <2>. HIDE DEF c
    <2>5. CallOK(calls[s])'
      BY <2>1, <2>2, <2>3 DEF CallOK, Call
    <2>. QED BY <2>2, <2>4, <2>5, <1>0, <1>2
  <1>6. ASSUME NEW s \in Slots, CallFails(s)
        PROVE  \A t \in Slots : CallOK(calls[t])'
    <2>1. now' = now /\ calls'[s] = NoCall
          /\ \A t \in Slots \ {s} : calls'[t] = calls[t]
      BY <1>0, <1>6 DEF CallFails, TypeOK
    <2>2. CallOK(calls[s])'
      BY <2>1 DEF CallOK, NoCall
    <2>. QED BY <2>1, <2>2, <1>0, <1>2
  <1>7. ASSUME NEW s \in Slots, RunBatch(s)
        PROVE  \A t \in Slots : CallOK(calls[t])'
    <2>. DEFINE c == calls[s]
    <2>1. c \in Call /\ CallOK(c) /\ c.at = "done"
      BY <1>0, <1>7 DEF TypeOK, CacheInv, RunBatch
    <2>2. now' = now /\ \A t \in Slots \ {s} : calls'[t] = calls[t]
      BY <1>0, <1>7 DEF RunBatch, TypeOK
    <2>3. \/ calls'[s] = NoCall
          \/ /\ c.next # Len(c.does)
             /\ calls'[s] = [c EXCEPT !.next = c.next + 1]
      BY <1>0, <1>7 DEF RunBatch, TypeOK
    <2>4. Len(c.does) \in Nat
      BY <2>1 DEF Call
    <2>. HIDE DEF c
    <2>5. CallOK(calls[s])'
      BY <2>1, <2>2, <2>3, <2>4 DEF CallOK, Call, NoCall
    <2>. QED BY <2>2, <2>5, <1>0, <1>2
  <1>8. CASE OtherWrite
    BY <1>0, <1>1, <1>8 DEF OtherWrite
  <1>9. CASE Reload
    BY <1>9 DEF Reload, CallOK, NoCall
  <1>10. CASE UNCHANGED vars
    BY <1>0, <1>1, <1>10 DEF vars
  <1>. QED
    BY <1>3, <1>4, <1>5, <1>6, <1>7, <1>8, <1>9, <1>10 DEF Next, Mutation

-----------------------------------------------------------------------------
(* The view: what runs a batch, and the other steps *)

\* Two versions compared.
LEMMA Compared ==
    ASSUME NEW a \in Nat, NEW b \in Nat
    PROVE  /\ Older(a, b) \in Nat /\ Older(a, b) <= a /\ Older(a, b) <= b
           /\ Newer(a, b) \in Nat /\ (Newer(a, b) = a \/ Newer(a, b) = b)
  BY DEF Older, Newer

\* Running a batch keeps the view's promise: what it does not refetch it
\* stores, and what it neither stores nor refetches it marks for the mount.
LEMMA BatchStep ==
    ASSUME CacheInv, NEW s \in Slots, RunBatch(s)
    PROVE  owed' <= now' /\ AnswerOK' /\ ViewOK'
  <1>. DEFINE c == calls[s]
              batch == c.does[c.next]
              v == c.seen
  <1>1. /\ CallOK(c) /\ c \in Call /\ c.at = "done"
        /\ now \in Nat /\ owed \in Nat /\ shown \in Nat
        /\ fetch \in Fetch /\ owed <= now
    BY DEF CacheInv, TypeOK, RunBatch
  <1>2. batch \in SUBSET Ops /\ v \in Nat /\ v >= 1 /\ v <= now
    BY <1>1, BatchTyped DEF CallOK
  <1>3. /\ now' = now /\ mounted' = mounted
        /\ shown' = Stored(batch, v)
        /\ failed' = (failed /\ "set" \notin batch)
        /\ invalid' = (\/ invalid /\ "set" \notin batch
                       \/ "invalidate" \in batch /\ Stored(batch, v) # 0)
        /\ fetch' = Refetched(batch, v)
        /\ owed' = IF Settles(c) /\ ~Excused(batch, v)
                   THEN Newer(Kept(batch, v), v) ELSE Kept(batch, v)
    BY DEF RunBatch
  <1>4. Settles(c) /\ batch = {} => FALSE
    BY <1>1 DEF Settles, CallOK
  <1>. HIDE DEF c, batch, v
  <1>5. Kept(batch, v) \in Nat /\ Kept(batch, v) <= owed
    BY <1>1, <1>2, Compared DEF Kept
  <1>6. owed' \in Nat /\ (owed' = Kept(batch, v) \/ owed' = v)
    BY <1>2, <1>3, <1>5, Compared
  <1>7. owed' <= now'
    BY <1>1, <1>2, <1>3, <1>5, <1>6
  <1>8. AnswerOK'
    <2>. SUFFICES ASSUME fetch'.at = "served"
                  PROVE  fetch'.seen \in 1 .. now' /\ owed' <= fetch'.seen
      BY DEF AnswerOK
    <2>1. fetch' = fetch
      BY <1>3 DEF Refetched, Asked
    <2>2. fetch.seen \in 1 .. now /\ owed <= fetch.seen
      BY <2>1 DEF CacheInv, AnswerOK
    <2>3. CASE Excused(batch, v)
      BY <2>1, <2>2, <2>3, <1>1, <1>3, <1>5
    <2>4. CASE ~Excused(batch, v)
      <3>1. ~(fetch.seen < v)
        BY <2>1, <2>4, <1>3 DEF Excused
      <3>. QED BY <3>1, <2>1, <2>2, <1>1, <1>2, <1>3, <1>5, <1>6
    <2>. QED BY <2>3, <2>4
  <1>9. ViewOK'
    <2>. SUFFICES ASSUME Idle', ~failed'
                  PROVE  /\ shown' # 0 => shown' >= owed'
                                          \/ (invalid' /\ ~mounted')
                         /\ mounted' => shown' # 0
      BY DEF ViewOK
    <2>1. Idle /\ ~Wanted(batch, v)
      BY <1>3 DEF Refetched, Asked, Idle
    <2>2. CASE "set" \in batch
      <3>1. shown' = v
        BY <2>2, <1>3 DEF Stored
      <3>2. "refetch" \notin batch /\ ("invalidate" \in batch => ~mounted)
        BY <2>1, <2>2, <1>2 DEF Wanted, Stored
      <3>3. CASE "invalidate" \in batch
        BY <3>1, <3>2, <3>3, <2>2, <1>2, <1>3 DEF Stored
      <3>4. CASE "invalidate" \notin batch
        <4>1. batch = {"set"}
          BY <3>2, <3>4, <2>2, <1>2 DEF Ops
        <4>2. Kept(batch, v) <= v
          BY <4>1, <1>1, <1>2, Compared DEF Kept
        <4>. QED BY <4>2, <3>1, <1>2, <1>5, <1>6
      <3>. QED BY <3>3, <3>4
    <2>3. CASE "set" \notin batch
      <3>1. shown' = shown /\ ~failed /\ Kept(batch, v) = owed
        BY <2>3, <1>3 DEF Stored, Kept
      <3>2. /\ shown # 0 => shown >= owed \/ (invalid /\ ~mounted)
            /\ mounted => shown # 0
        BY <2>1, <3>1 DEF CacheInv, ViewOK
      <3>3. mounted' => shown' # 0
        BY <3>1, <3>2, <1>3
      <3>4. ASSUME shown # 0
            PROVE  shown' >= owed' \/ (invalid' /\ ~mounted')
        <4>1. "refetch" \notin batch /\ ("invalidate" \in batch => ~mounted)
          BY <2>1, <2>3, <3>4 DEF Wanted, Stored
        <4>2. CASE "invalidate" \in batch
          BY <4>1, <4>2, <3>1, <3>4, <1>3
        <4>3. CASE "invalidate" \notin batch
          <5>1. batch = {}
            BY <4>1, <4>3, <2>3, <1>2 DEF Ops
          <5>2. owed' = owed
            BY <5>1, <3>1, <1>3, <1>4 DEF batch
          <5>. QED BY <5>2, <3>1, <3>2, <3>4, <2>3, <1>3
        <4>. QED BY <4>2, <4>3
      <3>. QED BY <3>1, <3>3, <3>4
    <2>. QED BY <2>2, <2>3
  <1>. QED BY <1>7, <1>8, <1>9

\* The steps that start, answer or drop a fetch keep it too.
LEMMA ViewStep ==
    ASSUME CacheInv, View
    PROVE  owed' <= now' /\ AnswerOK' /\ ViewOK'
  <1>1. /\ now \in Nat /\ owed \in Nat /\ shown \in Nat /\ fetch \in Fetch
        /\ now >= 1 /\ owed <= now /\ AnswerOK /\ ViewOK
    BY DEF CacheInv, TypeOK
  <1>. USE <1>1 DEF AnswerOK, ViewOK, Idle
  <1>2. CASE Mount
    BY <1>2 DEF Mount, MayAsk, Asked
  <1>3. CASE Unmount
    BY <1>3 DEF Unmount
  <1>4. CASE Blur
    BY <1>4 DEF Blur
  <1>5. CASE Refocus
    BY <1>5 DEF Refocus, MayAsk, Asked
  <1>6. CASE Poll
    BY <1>6 DEF Poll, Asked
  <1>7. CASE Serve
    BY <1>7 DEF Serve
  <1>8. CASE Deliver
    BY <1>8 DEF Deliver, NoFetch
  <1>9. CASE FetchFails
    BY <1>9 DEF FetchFails, NoFetch
  <1>10. CASE Collect
    BY <1>10 DEF Collect
  <1>. QED
    BY <1>2, <1>3, <1>4, <1>5, <1>6, <1>7, <1>8, <1>9, <1>10 DEF View

LEMMA FreshStart == Init => CacheInv
  <1>. SUFFICES ASSUME Init PROVE CacheInv
    OBVIOUS
  <1>1. TypeOK
    BY TypesStart
  <1>2. owed <= now /\ AnswerOK /\ ViewOK
    BY DEF Init, AnswerOK, ViewOK, NoFetch
  <1>3. \A s \in Slots : CallOK(calls[s])
    BY NoCallOK DEF Init
  <1>. QED BY <1>1, <1>2, <1>3 DEF CacheInv

\* Every step keeps the invariant, when no hook forgets a write.
LEMMA FreshStep == EveryWriteHandled /\ CacheInv /\ [Next]_vars => CacheInv'
  <1>. SUFFICES ASSUME EveryWriteHandled, CacheInv, [Next]_vars
                PROVE  CacheInv'
    OBVIOUS
  <1>1. TypeOK'
    BY TypesStep DEF CacheInv
  <1>2. \A s \in Slots : CallOK(calls[s])'
    BY CallsStep
  <1>3. /\ now \in Nat /\ owed \in Nat /\ now' \in Nat /\ owed <= now
        /\ AnswerOK /\ ViewOK
    BY <1>1 DEF CacheInv, TypeOK
  <1>4. ASSUME UNCHANGED <<shown, fetch, invalid, failed, mounted, owed>>,
               now' >= now
        PROVE  owed' <= now' /\ AnswerOK' /\ ViewOK'
    BY <1>3, <1>4 DEF AnswerOK, ViewOK, Idle
  <1>5. owed' <= now' /\ AnswerOK' /\ ViewOK'
    <2>1. CASE View
      BY <2>1, ViewStep
    <2>2. ASSUME NEW s \in Slots, NEW h \in Hooks, Send(s, h)
          PROVE  owed' <= now' /\ AnswerOK' /\ ViewOK'
      BY <1>3, <1>4, <2>2 DEF Send
    <2>3. ASSUME NEW s \in Slots, Commit(s)
          PROVE  owed' <= now' /\ AnswerOK' /\ ViewOK'
      BY <1>3, <1>4, <2>3 DEF Commit
    <2>4. ASSUME NEW s \in Slots, CallFails(s)
          PROVE  owed' <= now' /\ AnswerOK' /\ ViewOK'
      BY <1>3, <1>4, <2>4 DEF CallFails
    <2>5. ASSUME NEW s \in Slots, RunBatch(s)
          PROVE  owed' <= now' /\ AnswerOK' /\ ViewOK'
      BY <2>5, BatchStep
    <2>6. CASE OtherWrite
      BY <1>3, <1>4, <2>6 DEF OtherWrite
    <2>7. CASE Reload
      BY <1>3, <2>7 DEF Reload, AnswerOK, ViewOK, NoFetch
    <2>8. CASE UNCHANGED vars
      BY <1>3, <1>4, <2>8 DEF vars
    <2>. QED BY <2>1, <2>2, <2>3, <2>4, <2>5, <2>6, <2>7, <2>8
             DEF Next, Mutation
  <1>. QED BY <1>1, <1>2, <1>5 DEF CacheInv

\* A view on screen, its fetches done, shows every finished write of its own
\* tab, for any tables of queries and hooks in which no write is forgotten.
THEOREM FinishedWritesShown == EveryWriteHandled => (Spec => []OwnWritesShown)
  <1>. SUFFICES ASSUME EveryWriteHandled PROVE Spec => []OwnWritesShown
    OBVIOUS
  <1>1. Init => CacheInv
    BY FreshStart
  <1>2. CacheInv /\ [Next]_vars => CacheInv'
    BY FreshStep
  <1>3. CacheInv => OwnWritesShown
    BY DEF CacheInv, TypeOK, ViewOK, OwnWritesShown
  <1>. QED BY <1>1, <1>2, <1>3, PTL DEF Spec
=============================================================================
