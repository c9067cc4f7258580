------------------------------- MODULE Reviews -------------------------------
(***************************************************************************)
(* The reviews of one unit and the summary its public page shows           *)
(* (ReviewService, ReviewModerationService, ReviewSummaryService).         *)
(*                                                                         *)
(* A moderation saves the review's status, then asks the database for the  *)
(* published reviews, then saves the summary: two saves in no transaction. *)
(* No row carries a token, so a save replaces what was committed since its *)
(* read.                                                                   *)
(***************************************************************************)
EXTENDS Naturals

CONSTANTS
  Reviews,   \* the reviews; a completed booking has one
  Ratings,   \* the ratings a guest may give
  Workers,   \* requests in flight at once
  None       \* a missing row

VARIABLES
  reviews,         \* reviews
  summary,         \* unit_review_summaries: what it was computed from
  pc, ask, seen,   \* per worker: next step, arguments, what was read
  met,             \* the requests that have met another one
  settled          \* the last moderation was served alone, to its end

ReviewStatus == {"pending", "published", "rejected", "hidden"}
ReviewRow == [rating : Ratings, status : ReviewStatus]

\* What the theorems assume of the constants.
NoneIsNoRow == None \notin ReviewRow /\ \A S \in SUBSET (Reviews \X Ratings) : S # None

vars == <<reviews, summary, pc, ask, seen, met, settled>>

Steps == {"idle", "insert", "edit", "flush", "recompute", "upsert"}

NoAsk == [review |-> None, rating |-> None, to |-> None]
NothingSeen == [review |-> None, published |-> {}, summary |-> None]

\* Count and average are a function of these.
Published ==
  {<<r, reviews[r].rating>> : r \in {q \in Reviews :
      reviews[q] # None /\ reviews[q].status = "published"}}

TypeOK ==
  /\ reviews \in [Reviews -> ReviewRow \cup {None}]
  /\ summary \in {None} \cup SUBSET (Reviews \X Ratings)
  /\ pc \in [Workers -> Steps]
  /\ ask \in [Workers -> [review : Reviews \cup {None}, rating : Ratings \cup {None},
                          to : ReviewStatus \cup {None}]]
  /\ seen \in [Workers -> [review : ReviewRow \cup {None},
                           published : SUBSET (Reviews \X Ratings),
                           summary : {None} \cup SUBSET (Reviews \X Ratings)]]
  /\ met \subseteq Workers
  /\ settled \in BOOLEAN

Init ==
  /\ reviews = [r \in Reviews |-> None]
  /\ summary = None
  /\ pc = [w \in Workers |-> "idle"]
  /\ ask = [w \in Workers |-> NoAsk]
  /\ seen = [w \in Workers |-> NothingSeen]
  /\ met = {}
  /\ settled = TRUE

-----------------------------------------------------------------------------
(* Requests *)

Busy == {v \in Workers : pc[v] # "idle"}

Begin(w, step, r, args) ==
  /\ pc[w] = "idle"
  /\ pc' = [pc EXCEPT ![w] = step]
  /\ ask' = [ask EXCEPT ![w] = args]
  /\ seen' = [seen EXCEPT ![w].review = reviews[r]]
  /\ met' = IF Busy = {} THEN met ELSE met \cup Busy \cup {w}
  /\ settled' = (settled /\ Busy = {})
  /\ UNCHANGED <<reviews, summary>>

Advance(w, from, to) == pc[w] = from /\ pc' = [pc EXCEPT ![w] = to]

Finish(w) ==
  /\ pc' = [pc EXCEPT ![w] = "idle"]
  /\ ask' = [ask EXCEPT ![w] = NoAsk]
  /\ seen' = [seen EXCEPT ![w] = NothingSeen]
  /\ met' = met \ {w}

\* An exception or a crash between two of the request's steps.
Abort(w) ==
  /\ pc[w] # "idle"
  /\ settled' = (settled /\ pc[w] \notin {"recompute", "upsert"})
  /\ Finish(w)
  /\ UNCHANGED <<reviews, summary>>

-----------------------------------------------------------------------------
(* ReviewService: the guest *)

Submit(w, r, n) ==
  /\ reviews[r] = None
  /\ Begin(w, "insert", r, [review |-> r, rating |-> n, to |-> "pending"])

\* ux_reviews_booking_id lets one of two submissions through.
SubmitSave(w) ==
  /\ pc[w] = "insert"
  /\ reviews[ask[w].review] = None
  /\ reviews' = [reviews EXCEPT ![ask[w].review] =
                   [rating |-> ask[w].rating, status |-> "pending"]]
  /\ Finish(w)
  /\ UNCHANGED <<summary, settled>>

Edit(w, r, n) ==
  /\ reviews[r] # None /\ reviews[r].status = "pending"
  /\ Begin(w, "edit", r, [review |-> r, rating |-> n, to |-> "pending"])

EditSave(w) ==
  /\ pc[w] = "edit"
  /\ reviews' = [reviews EXCEPT ![ask[w].review] =
                   [seen[w].review EXCEPT !.rating = ask[w].rating]]
  /\ Finish(w)
  /\ UNCHANGED <<summary, settled>>

-----------------------------------------------------------------------------
(* ReviewModerationService: the administrator *)

Allowed(to) ==
  CASE to = "published" -> {"pending", "hidden"}
    [] to = "rejected"  -> {"pending"}
    [] to = "hidden"    -> {"published"}

Moderate(w, r, to) ==
  /\ reviews[r] # None /\ reviews[r].status \in Allowed(to)
  /\ Begin(w, "flush", r, [review |-> r, rating |-> None, to |-> to])

\* Mutant: the published reviews are queried before the status is saved.
FlushLate(w) ==
  /\ Advance(w, "flush", "upsert")
  /\ seen' = [seen EXCEPT ![w].published = Published, ![w].summary = summary]
  /\ reviews' = [reviews EXCEPT ![ask[w].review] =
                   [seen[w].review EXCEPT !.status = ask[w].to]]
  /\ UNCHANGED <<summary, ask, met, settled>>

\* The status is flushed before the summary is recomputed.
Flush(w) ==
  /\ Advance(w, "flush", "recompute")
  /\ reviews' = [reviews EXCEPT ![ask[w].review] =
                   [seen[w].review EXCEPT !.status = ask[w].to]]
  /\ UNCHANGED <<summary, ask, seen, met, settled>>

Recompute(w) ==
  /\ Advance(w, "recompute", "upsert")
  /\ seen' = [seen EXCEPT ![w].published = Published, ![w].summary = summary]
  /\ UNCHANGED <<reviews, summary, ask, met, settled>>

\* Two first inserts of the summary collide on its key.
Upsert(w) ==
  /\ pc[w] = "upsert"
  /\ seen[w].summary = None => summary = None
  /\ summary' = seen[w].published
  /\ settled' = (w \notin met)
  /\ Finish(w)
  /\ UNCHANGED reviews

-----------------------------------------------------------------------------
Step(w) ==
  \/ \E r \in Reviews, n \in Ratings : Submit(w, r, n) \/ Edit(w, r, n)
  \/ \E r \in Reviews, to \in ReviewStatus \ {"pending"} : Moderate(w, r, to)
  \/ SubmitSave(w) \/ EditSave(w)
  \/ Flush(w) \/ Recompute(w) \/ Upsert(w)
  \/ Abort(w)

Next == \E w \in Workers : Step(w)

Spec == Init /\ [][Next]_vars

-----------------------------------------------------------------------------
\* GetUnitSummaryAsync: a unit without a row has no published reviews.
ShownSummary == IF summary = None THEN {} ELSE summary

\* Overlapping requests and failures between the two saves may leave the
\* summary wrong.  One moderation of the unit that meets no other request
\* and runs to its end repairs it, and it stays right through any requests
\* served one at a time.
SummaryRepaired == settled /\ Busy = {} => ShownSummary = Published
=============================================================================
