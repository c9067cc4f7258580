-------------------------- MODULE BackOfficeProofs --------------------------
(***************************************************************************)
(* The desk and the reviews of the back office.                            *)
(*                                                                         *)
(* The desk's invariants are theorems of Assignments; At is that module's  *)
(* instance with its theorems, and DeskImplemented shows that the back     *)
(* office takes no other steps on the desk's variables.                    *)
(*                                                                         *)
(* SummaryRepaired is not inductive. A request that has met no other is    *)
(* the only one (LonelyRequests), so what it read when it recomputed the   *)
(* summary is what the table still holds (FreshReads); and as long as the  *)
(* last moderation counts as settled, the summary is right unless a        *)
(* moderation is between its two saves (SummaryRight).                     *)
(***************************************************************************)
EXTENDS MCBackOffice, TLAPS

At == INSTANCE AssignmentsProofs WITH pc <- deskPc, ask <- deskAsk, seen <- deskSeen

-----------------------------------------------------------------------------
(* The desk *)

LEMMA DeskSame ==
  /\ Desk!Init => At!Init
  /\ Desk!OneActiveAssignment <=> At!OneActiveAssignment
  /\ Desk!AssigneeInSync <=> At!AssigneeInSync
<1>1. Desk!Init => At!Init
  BY DEF At!Init, Desk!Init, At!Parents, Desk!Parents, At!NoAsk, Desk!NoAsk,
     At!NothingSeen, Desk!NothingSeen
<1>2. Desk!OneActiveAssignment <=> At!OneActiveAssignment
  BY DEF At!OneActiveAssignment, Desk!OneActiveAssignment, At!Active, Desk!Active
<1>3. Desk!AssigneeInSync <=> At!AssigneeInSync
  BY DEF At!AssigneeInSync, Desk!AssigneeInSync, At!Active, Desk!Active
<1> QED BY <1>1, <1>2, <1>3

LEMMA DeskNone == At!NoneIsNoRow
<1>1. At!NoneIsNoRow <=> Desk!NoneIsNoRow
  BY DEF At!NoneIsNoRow, Desk!NoneIsNoRow, At!Assignment, Desk!Assignment, At!Parents, Desk!Parents
<1> QED BY <1>1, DeskNoneIsNoRow

LEMMA DeskSteps == Desk!Next => At!Next
BY DEF Desk!Next, At!Next, Desk!Step, At!Step, Desk!Assign, At!Assign, Desk!Clear, At!Clear,
   Desk!Edit, At!Edit, Desk!Move, At!Move, Desk!AlreadyAssigned, At!AlreadyAssigned,
   Desk!FindOther, At!FindOther, Desk!Deactivate, At!Deactivate, Desk!AssignSave, At!AssignSave,
   Desk!ClearSave, At!ClearSave, Desk!EditSave, At!EditSave, Desk!MoveSave, At!MoveSave,
   Desk!Abort, At!Abort, Desk!Begin, At!Begin, Desk!Finish, At!Finish, Desk!Active, At!Active,
   Desk!TokenMatches, At!TokenMatches, Desk!Stored, At!Stored, Desk!Ended, At!Ended,
   Desk!NoAsk, At!NoAsk, Desk!NothingSeen, At!NothingSeen, Desk!Parents, At!Parents

LEMMA DeskImplemented == BackOfficeSpec => At!Spec
<1>1. BackOfficeInit => At!Init
  BY DeskSame DEF BackOfficeInit
<1>2. [BackOfficeNext]_<<vars, scene, deskVars, reviewVars>> => [At!Next]_(At!vars)
  BY DeskSteps DEF BackOfficeNext, deskVars, At!vars
<1> QED BY <1>1, <1>2, PTL DEF BackOfficeSpec, At!Spec

\* Beside the money and the reviews of the booking, its reassignments still
\* leave it one active assignment at most.
THEOREM BookingKeepsOneAssignee == BackOfficeSpec => []OneActiveAssignment
<1>1. At!OneActiveAssignment => OneActiveAssignment
  BY DeskSame DEF OneActiveAssignment
<1>2. At!NoneIsNoRow /\ At!Spec => []At!OneActiveAssignment
  BY At!OneAssignee
<1> QED BY <1>1, <1>2, DeskNone, DeskImplemented, PTL

\* Beside the money and the reviews of the booking, the administrator in its
\* column is the one its active assignment names until an edit overwrites it.
THEOREM BookingShowsItsAssignee == BackOfficeSpec => []AssigneeInSync
<1>1. At!AssigneeInSync => AssigneeInSync
  BY DeskSame DEF AssigneeInSync
<1>2. At!NoneIsNoRow /\ At!Spec => []At!AssigneeInSync
  BY At!AssigneeAgrees
<1> QED BY <1>1, <1>2, DeskNone, DeskImplemented, PTL

-----------------------------------------------------------------------------
(* The reviews *)

\* A request that has met no other is the only one.
LonelyRequests ==
  met \subseteq Rev!Busy /\ \A w \in Rev!Busy \ met : Rev!Busy = {w}

\* What it has read is still so.
FreshReads ==
  \A w \in Rev!Busy \ met :
    /\ reviewPc[w] = "upsert" => reviewSeen[w].published = Rev!Published
    /\ reviewPc[w] = "edit" =>
         LET r == reviewAsk[w].review IN
         /\ r \in Reviews /\ reviews[r] # None /\ reviews[r] = reviewSeen[w].review
         /\ reviews[r].status = "pending"

\* The summary is right, or a moderation is between its two saves.
SummaryRight ==
  settled =>
    /\ Rev!Busy \cap met = {}
    /\ \/ Rev!ShownSummary = Rev!Published
       \/ \E w \in Rev!Busy : reviewPc[w] \in {"recompute", "upsert"}

\* What a request carries, by the step it stands at.
ReviewFits(w) ==
  /\ reviewPc[w] # "idle" => reviewAsk[w].review \in Reviews
  /\ reviewPc[w] \in {"insert", "edit"} => reviewAsk[w].rating \in Ratings
  /\ reviewPc[w] \in {"edit", "flush"} => reviewSeen[w].review \in Rev!ReviewRow
  /\ reviewPc[w] = "flush" => reviewAsk[w].to \in Rev!ReviewStatus

ReviewTypes == Rev!TypeOK /\ \A w \in Workers : ReviewFits(w)

ReviewInv == ReviewTypes /\ LonelyRequests /\ FreshReads /\ SummaryRight

LEMMA ReviewNone ==
  /\ None \notin Rev!ReviewRow
  /\ \A S \in SUBSET (Reviews \X Ratings) : S # None
BY ReviewsNoneIsNoRow DEF Rev!NoneIsNoRow

LEMMA SessionTypes ==
  /\ Rev!NoAsk \in [review : Reviews \cup {None}, rating : Ratings \cup {None},
                    to : Rev!ReviewStatus \cup {None}]
  /\ Rev!NothingSeen \in [review : Rev!ReviewRow \cup {None},
                          published : SUBSET (Reviews \X Ratings),
                          summary : {None} \cup SUBSET (Reviews \X Ratings)]
BY DEF Rev!NoAsk, Rev!NothingSeen

\* Published reads the reviews only, and only those that are published.
LEMMA SamePublished ==
  ASSUME Rev!TypeOK, NEW r \in Reviews, NEW row \in Rev!ReviewRow,
         reviews' = [reviews EXCEPT ![r] = row], row.status # "published",
         reviews[r] = None \/ reviews[r].status # "published"
  PROVE  Rev!Published' = Rev!Published
<1>1. reviews'[r] = row /\ \A q \in Reviews \ {r} : reviews'[q] = reviews[q]
  BY DEF Rev!TypeOK
<1>2. \A q \in Reviews : (reviews'[q] # None /\ reviews'[q].status = "published")
                     <=> (reviews[q] # None /\ reviews[q].status = "published")
  BY <1>1
<1>3. {q \in Reviews : reviews'[q] # None /\ reviews'[q].status = "published"}
        = {q \in Reviews : reviews[q] # None /\ reviews[q].status = "published"}
  BY <1>2
<1>4. \A q \in Reviews : reviews[q] # None /\ reviews[q].status = "published" =>
        reviews'[q].rating = reviews[q].rating
  BY <1>1
<1> QED BY <1>3, <1>4 DEF Rev!Published

LEMMA PublishedTyped == Rev!TypeOK => Rev!Published \in SUBSET (Reviews \X Ratings)
BY ReviewNone DEF Rev!TypeOK, Rev!Published, Rev!ReviewRow

\* The end of a request.
LEMMA ReviewEnd ==
  ASSUME ReviewTypes, LonelyRequests, NEW w \in Workers, reviewPc[w] # "idle", Rev!Finish(w)
  PROVE  /\ Rev!Busy' = Rev!Busy \ {w} /\ LonelyRequests' /\ met' \subseteq met
         /\ w \notin met => Rev!Busy' = {}
         /\ \A v \in Rev!Busy' : v # w /\ reviewPc'[v] = reviewPc[v] /\ reviewAsk'[v] = reviewAsk[v]
              /\ reviewSeen'[v] = reviewSeen[v] /\ (v \notin met' => v \notin met)
         /\ reviewPc' \in [Workers -> Rev!Steps]
         /\ reviewAsk' \in [Workers -> [review : Reviews \cup {None}, rating : Ratings \cup {None},
                                        to : Rev!ReviewStatus \cup {None}]]
         /\ reviewSeen' \in [Workers -> [review : Rev!ReviewRow \cup {None},
                                         published : SUBSET (Reviews \X Ratings),
                                         summary : {None} \cup SUBSET (Reviews \X Ratings)]]
         /\ met' \subseteq Workers /\ \A v \in Workers : ReviewFits(v)'
<1>0. Rev!TypeOK
  BY DEF ReviewTypes
<1>1. /\ reviewPc' \in [Workers -> Rev!Steps] /\ reviewPc'[w] = "idle"
      /\ \A v \in Workers \ {w} : reviewPc'[v] = reviewPc[v] /\ reviewAsk'[v] = reviewAsk[v]
           /\ reviewSeen'[v] = reviewSeen[v]
      /\ met' = met \ {w}
  BY <1>0 DEF Rev!Finish, Rev!TypeOK, Rev!Steps
<1>2. Rev!Busy' = Rev!Busy \ {w} /\ w \in Rev!Busy /\ Rev!Busy \subseteq Workers
  BY <1>1 DEF Rev!Busy
<1>3. w \notin met => Rev!Busy' = {}
  BY <1>2 DEF LonelyRequests
<1>4. LonelyRequests'
  BY <1>1, <1>2 DEF LonelyRequests
<1>5. \A v \in Workers : ReviewFits(v)'
  BY <1>1 DEF ReviewFits, ReviewTypes
<1> QED BY <1>0, <1>1, <1>2, <1>3, <1>4, <1>5, SessionTypes DEF Rev!Finish, Rev!TypeOK

\* A request that is not alone ends: the others have all met.
LEMMA OthersHaveMet ==
  ASSUME ReviewInv, NEW w \in Workers, reviewPc[w] # "idle", Rev!Finish(w),
         ReviewTypes', settled' => settled,
         Rev!Busy' = {} => (settled' => Rev!ShownSummary' = Rev!Published')
  PROVE  ReviewInv'
<1>1. /\ Rev!Busy' = Rev!Busy \ {w} /\ LonelyRequests'
      /\ w \notin met => Rev!Busy' = {}
      /\ \A v \in Rev!Busy' : v \in met'
  <2>1. \A v \in Rev!Busy : v # w => v \in met
    BY DEF ReviewInv, LonelyRequests, Rev!Busy
  <2> QED BY <2>1, ReviewEnd DEF ReviewInv, Rev!Finish
<1>2. FreshReads'
  BY <1>1 DEF FreshReads
<1>3. SummaryRight'
  <2>1. CASE Rev!Busy' = {}
    BY <2>1 DEF SummaryRight
  <2>2. CASE Rev!Busy' # {}
    <3>1. Rev!Busy \cap met # {}
      BY <1>1, <2>2, ReviewEnd DEF ReviewInv
    <3> QED BY <3>1 DEF SummaryRight, ReviewInv
  <2> QED BY <2>1, <2>2
<1> QED BY <1>1, <1>2, <1>3 DEF ReviewInv

LEMMA ReviewBegins ==
  ASSUME ReviewInv, NEW w \in Workers, NEW r \in Reviews, NEW step \in {"insert", "edit", "flush"},
         NEW args \in [review : Reviews \cup {None}, rating : Ratings \cup {None},
                       to : Rev!ReviewStatus \cup {None}],
         args.review = r, Rev!Begin(w, step, r, args),
         step \in {"insert", "edit"} => args.rating \in Ratings,
         step = "flush" => args.to \in Rev!ReviewStatus,
         step \in {"edit", "flush"} => reviews[r] # None,
         step = "edit" => reviews[r].status = "pending"
  PROVE  ReviewInv'
<1>0. Rev!TypeOK
  BY DEF ReviewInv, ReviewTypes
<1>1. /\ reviewPc[w] = "idle" /\ reviewPc' = [reviewPc EXCEPT ![w] = step]
      /\ reviewAsk' = [reviewAsk EXCEPT ![w] = args]
      /\ reviewSeen' = [reviewSeen EXCEPT ![w].review = reviews[r]]
      /\ met' = IF Rev!Busy = {} THEN met ELSE met \cup Rev!Busy \cup {w}
      /\ settled' = (settled /\ Rev!Busy = {})
      /\ UNCHANGED <<reviews, summary>>
  BY DEF Rev!Begin
<1>2. ReviewTypes'
  <2>1. reviews[r] \in Rev!ReviewRow \cup {None}
    BY <1>0 DEF Rev!TypeOK
  <2>2. reviewSeen' \in [Workers -> [review : Rev!ReviewRow \cup {None},
                                     published : SUBSET (Reviews \X Ratings),
                                     summary : {None} \cup SUBSET (Reviews \X Ratings)]]
    BY <1>0, <1>1, <2>1 DEF Rev!TypeOK
  <2>3. Rev!Busy \subseteq Workers
    BY DEF Rev!Busy
  <2>4. Rev!TypeOK'
    BY <1>0, <1>1, <2>2, <2>3 DEF Rev!TypeOK, Rev!Steps
  <2>5. ASSUME NEW v \in Workers PROVE ReviewFits(v)'
    <3>1. CASE v = w
      <4>1. /\ reviewPc'[w] = step /\ reviewAsk'[w] = args /\ reviewSeen'[w].review = reviews[r]
        BY <1>0, <1>1 DEF Rev!TypeOK
      <4> QED BY <2>1, <3>1, <4>1 DEF ReviewFits
    <3>2. CASE v # w
      BY <1>0, <1>1, <3>2 DEF ReviewFits, ReviewInv, ReviewTypes, Rev!TypeOK
    <3> QED BY <3>1, <3>2
  <2> QED BY <2>4, <2>5 DEF ReviewTypes
<1>3. /\ Rev!Busy' = Rev!Busy \cup {w} /\ w \notin Rev!Busy
      /\ Rev!Published' = Rev!Published /\ Rev!ShownSummary' = Rev!ShownSummary
  BY <1>0, <1>1 DEF Rev!Busy, Rev!Published, Rev!ShownSummary, Rev!TypeOK
<1>4. CASE Rev!Busy = {}
  <2>1. met' = {} /\ Rev!Busy' = {w}
    BY <1>1, <1>3, <1>4 DEF ReviewInv, LonelyRequests
  <2>2. LonelyRequests'
    BY <2>1 DEF LonelyRequests
  <2>3. FreshReads'
    <3>1. /\ reviewPc'[w] = step /\ reviewAsk'[w] = args /\ reviewSeen'[w].review = reviews[r]
      BY <1>0, <1>1 DEF Rev!TypeOK
    <3> QED BY <1>1, <2>1, <3>1 DEF FreshReads
  <2>4. SummaryRight'
    <3>1. settled' => Rev!ShownSummary = Rev!Published
      BY <1>1, <1>4 DEF ReviewInv, SummaryRight
    <3> QED BY <1>3, <2>1, <3>1 DEF SummaryRight
  <2> QED BY <1>2, <2>2, <2>3, <2>4 DEF ReviewInv
<1>5. CASE Rev!Busy # {}
  <2>1. ~settled' /\ met' = Rev!Busy'
    BY <1>1, <1>3, <1>5 DEF ReviewInv, LonelyRequests
  <2> QED BY <1>2, <2>1 DEF ReviewInv, LonelyRequests, FreshReads, SummaryRight
<1> QED BY <1>4, <1>5

\* A request goes on between its first step and its last.
LEMMA ReviewGoesOn ==
  ASSUME ReviewInv, NEW w \in Workers, Rev!Flush(w) \/ Rev!Recompute(w)
  PROVE  ReviewInv'
<1>0. Rev!TypeOK /\ ReviewFits(w)
  BY DEF ReviewInv, ReviewTypes
<1>1. /\ reviewPc[w] # "idle" /\ reviewPc' \in [Workers -> Rev!Steps]
      /\ reviewPc'[w] \in {"recompute", "upsert"}
      /\ \A v \in Workers \ {w} : reviewPc'[v] = reviewPc[v]
      /\ UNCHANGED <<summary, reviewAsk, met, settled>>
  BY <1>0 DEF Rev!Flush, Rev!Recompute, Rev!Advance, Rev!TypeOK, Rev!Steps
<1>2. Rev!Busy' = Rev!Busy /\ w \in Rev!Busy
  BY <1>1 DEF Rev!Busy
<1>3. LonelyRequests'
  BY <1>1, <1>2 DEF ReviewInv, LonelyRequests
<1>4. SummaryRight'
  BY <1>1, <1>2 DEF ReviewInv, SummaryRight
<1>5. FreshReads'
  <2>1. ASSUME NEW v \in Rev!Busy \ met PROVE v = w
    BY <1>2, <2>1 DEF ReviewInv, LonelyRequests
  <2>2. reviewPc'[w] = "upsert" => reviewSeen'[w].published = Rev!Published'
    <3>1. CASE Rev!Flush(w)
      BY <1>0, <3>1 DEF Rev!Flush, Rev!Advance, Rev!TypeOK
    <3>2. CASE Rev!Recompute(w)
      <4>1. reviewSeen'[w].published = Rev!Published /\ UNCHANGED reviews
        BY <1>0, <3>2 DEF Rev!Recompute, Rev!TypeOK
      <4> QED BY <4>1 DEF Rev!Published
    <3> QED BY <3>1, <3>2
  <2> QED BY <1>1, <1>2, <2>1, <2>2 DEF FreshReads
<1>6. Rev!TypeOK'
  <2>1. reviews' \in [Reviews -> Rev!ReviewRow \cup {None}]
    <3>1. CASE Rev!Flush(w)
      <4>1. [reviewSeen[w].review EXCEPT !.status = reviewAsk[w].to] \in Rev!ReviewRow
        BY <1>0, <3>1 DEF Rev!Flush, Rev!Advance, ReviewFits, Rev!ReviewRow
      <4> QED BY <1>0, <3>1, <4>1 DEF Rev!Flush, Rev!TypeOK
    <3>2. CASE Rev!Recompute(w)
      BY <1>0, <3>2 DEF Rev!Recompute, Rev!TypeOK
    <3> QED BY <3>1, <3>2
  <2>2. reviewSeen' \in [Workers -> [review : Rev!ReviewRow \cup {None},
                                     published : SUBSET (Reviews \X Ratings),
                                     summary : {None} \cup SUBSET (Reviews \X Ratings)]]
    <3>1. CASE Rev!Flush(w)
      BY <1>0, <3>1 DEF Rev!Flush, Rev!TypeOK
    <3>2. CASE Rev!Recompute(w)
      <4>1. Rev!Published \in SUBSET (Reviews \X Ratings)
        BY <1>0, PublishedTyped
      <4> DEFINE row == [reviewSeen[w] EXCEPT !.published = Rev!Published, !.summary = summary]
      <4>2. row \in [review : Rev!ReviewRow \cup {None},
                     published : SUBSET (Reviews \X Ratings),
                     summary : {None} \cup SUBSET (Reviews \X Ratings)]
        BY <1>0, <4>1 DEF Rev!TypeOK
      <4>3. reviewSeen' = [reviewSeen EXCEPT ![w] = row]
        BY <1>0, <3>2 DEF Rev!Recompute, Rev!TypeOK
      <4> HIDE DEF row
      <4> QED BY <1>0, <4>2, <4>3 DEF Rev!TypeOK
    <3> QED BY <3>1, <3>2
  <2> QED BY <1>0, <1>1, <2>1, <2>2 DEF Rev!TypeOK
<1>7. ASSUME NEW v \in Workers PROVE ReviewFits(v)'
  <2>1. CASE v = w
    BY <1>0, <1>1, <2>1 DEF ReviewFits
  <2>2. CASE v # w
    <3>1. reviewSeen'[v] = reviewSeen[v]
      BY <1>0, <2>2 DEF Rev!Flush, Rev!Recompute, Rev!TypeOK
    <3> QED BY <1>1, <2>2, <3>1 DEF ReviewFits, ReviewInv, ReviewTypes
  <2> QED BY <2>1, <2>2
<1> QED BY <1>3, <1>4, <1>5, <1>6, <1>7 DEF ReviewInv, ReviewTypes

\* A guest's save changes no published review.
LEMMA GuestSaves ==
  ASSUME ReviewInv, NEW w \in Workers, Rev!SubmitSave(w) \/ Rev!EditSave(w)
  PROVE  ReviewInv'
<1> DEFINE r == reviewAsk[w].review
           row == IF reviewPc[w] = "insert"
                  THEN [rating |-> reviewAsk[w].rating, status |-> "pending"]
                  ELSE [reviewSeen[w].review EXCEPT !.rating = reviewAsk[w].rating]
<1>0. Rev!TypeOK /\ ReviewFits(w) /\ LonelyRequests
  BY DEF ReviewInv, ReviewTypes
<1>1. /\ reviewPc[w] \in {"insert", "edit"} /\ Rev!Finish(w) /\ UNCHANGED <<summary, settled>>
      /\ reviews' = [reviews EXCEPT ![r] = row]
      /\ reviewPc[w] = "insert" => reviews[r] = None
  BY DEF Rev!SubmitSave, Rev!EditSave
<1>2. r \in Reviews /\ row \in Rev!ReviewRow
  BY <1>0, <1>1 DEF ReviewFits, Rev!ReviewRow, Rev!ReviewStatus
<1>3. ReviewTypes'
  <2> HIDE DEF r, row
  <2>1. reviews' \in [Reviews -> Rev!ReviewRow \cup {None}]
    BY <1>0, <1>1, <1>2 DEF Rev!TypeOK
  <2> QED BY <1>0, <1>1, <2>1, ReviewEnd DEF ReviewInv, ReviewTypes, Rev!TypeOK
<1>4. ASSUME settled PROVE Rev!ShownSummary' = Rev!Published'
  <2>1. Rev!Busy \cap met = {} /\ w \in Rev!Busy
    BY <1>1, <1>4 DEF ReviewInv, SummaryRight, Rev!Busy
  <2>2. Rev!Busy = {w} /\ w \notin met
    BY <1>0, <2>1 DEF LonelyRequests
  <2>3. Rev!ShownSummary = Rev!Published
    BY <1>1, <1>4, <2>2 DEF ReviewInv, SummaryRight
  <2>4. reviews[r] = None \/ reviews[r].status # "published"
    BY <1>1, <2>1, <2>2 DEF ReviewInv, FreshReads
  <2>5. row.status # "published"
    <3>1. CASE reviewPc[w] = "insert"
      BY <3>1
    <3>2. CASE reviewPc[w] # "insert"
      <4>1. reviewSeen[w].review.status = "pending" /\ reviewSeen[w].review \in Rev!ReviewRow
        BY <1>0, <1>1, <2>1, <2>2, <3>2 DEF ReviewInv, FreshReads, ReviewFits
      <4> QED BY <3>2, <4>1 DEF Rev!ReviewRow
    <3> QED BY <3>1, <3>2
  <2>6. Rev!Published' = Rev!Published
    <3> HIDE DEF r, row
    <3> QED BY <1>0, <1>1, <1>2, <2>4, <2>5, SamePublished
  <2>7. Rev!ShownSummary' = Rev!ShownSummary
    BY <1>1 DEF Rev!ShownSummary
  <2> QED BY <2>3, <2>6, <2>7
<1> QED BY <1>1, <1>3, <1>4, OthersHaveMet

\* A moderation that has met no other request leaves the summary right.
LEMMA ModerationEnds ==
  ASSUME ReviewInv, NEW w \in Workers, Rev!Upsert(w)
  PROVE  ReviewInv'
<1>0. Rev!TypeOK /\ ReviewTypes /\ LonelyRequests
  BY DEF ReviewInv, ReviewTypes
<1>1. /\ reviewPc[w] = "upsert" /\ Rev!Finish(w) /\ UNCHANGED reviews
      /\ summary' = reviewSeen[w].published /\ settled' = (w \notin met)
  BY DEF Rev!Upsert
<1>2. reviewSeen[w].published \in SUBSET (Reviews \X Ratings)
  BY <1>0 DEF Rev!TypeOK
<1>3. ReviewTypes'
  BY <1>0, <1>1, <1>2, ReviewEnd DEF ReviewTypes, Rev!TypeOK
<1>4. CASE w \in met
  <2>1. \A v \in Rev!Busy' : v \in met'
    <3>1. \A v \in Rev!Busy : v \in met
      BY <1>0, <1>1, <1>4 DEF LonelyRequests, Rev!Busy
    <3> QED BY <1>0, <1>1, <3>1, ReviewEnd DEF Rev!Finish
  <2>2. ~settled' /\ LonelyRequests'
    BY <1>0, <1>1, <1>4, ReviewEnd
  <2> QED BY <1>3, <2>1, <2>2 DEF ReviewInv, FreshReads, SummaryRight
<1>5. CASE w \notin met
  <2>1. Rev!Busy' = {} /\ LonelyRequests'
    BY <1>0, <1>1, <1>5, ReviewEnd
  <2>2. summary' = Rev!Published
    BY <1>1, <1>5 DEF ReviewInv, FreshReads, Rev!Busy
  <2>3. Rev!Published' = Rev!Published
    BY <1>1 DEF Rev!Published
  <2>4. Rev!ShownSummary' = Rev!Published'
    BY <1>1, <1>2, <2>2, <2>3, ReviewNone DEF Rev!ShownSummary
  <2> QED BY <1>3, <2>1, <2>4 DEF ReviewInv, FreshReads, SummaryRight
<1> QED BY <1>4, <1>5

LEMMA ReviewAborts ==
  ASSUME ReviewInv, NEW w \in Workers, Rev!Abort(w)
  PROVE  ReviewInv'
<1>0. Rev!TypeOK /\ ReviewTypes /\ LonelyRequests
  BY DEF ReviewInv, ReviewTypes
<1>1. /\ reviewPc[w] # "idle" /\ Rev!Finish(w) /\ UNCHANGED <<reviews, summary>>
      /\ settled' = (settled /\ reviewPc[w] \notin {"recompute", "upsert"})
  BY DEF Rev!Abort
<1>2. ReviewTypes'
  BY <1>0, <1>1, ReviewEnd DEF ReviewTypes, Rev!TypeOK
<1>3. ASSUME settled' PROVE Rev!ShownSummary' = Rev!Published'
  <2>1. settled /\ reviewPc[w] \notin {"recompute", "upsert"} /\ w \in Rev!Busy
    BY <1>1, <1>3 DEF Rev!Busy
  <2>2. Rev!Busy = {w}
    BY <1>0, <2>1 DEF ReviewInv, SummaryRight, LonelyRequests
  <2>3. Rev!ShownSummary = Rev!Published
    BY <2>1, <2>2 DEF ReviewInv, SummaryRight
  <2> QED BY <1>1, <2>3 DEF Rev!ShownSummary, Rev!Published
<1> QED BY <1>1, <1>2, <1>3, OthersHaveMet

LEMMA ReviewInitially == Rev!Init => ReviewInv
<1> SUFFICES ASSUME Rev!Init PROVE ReviewInv
  OBVIOUS
<1>1. Rev!TypeOK
  BY SessionTypes DEF Rev!Init, Rev!TypeOK, Rev!Steps
<1>2. Rev!Busy = {} /\ met = {} /\ Rev!Published = {} /\ Rev!ShownSummary = {}
  BY DEF Rev!Init, Rev!Busy, Rev!Published, Rev!ShownSummary
<1>3. \A w \in Workers : ReviewFits(w)
  BY DEF Rev!Init, ReviewFits
<1> QED BY <1>1, <1>2, <1>3 DEF ReviewInv, ReviewTypes, LonelyRequests, FreshReads, SummaryRight

LEMMA ReviewSteps == ReviewInv /\ Rev!Next => ReviewInv'
<1> SUFFICES ASSUME ReviewInv, NEW w \in Workers, Rev!Step(w) PROVE ReviewInv'
  BY DEF Rev!Next
<1>1. ASSUME NEW r \in Reviews, NEW n \in Ratings, Rev!Submit(w, r, n) PROVE ReviewInv'
  <2> DEFINE args == [review |-> r, rating |-> n, to |-> "pending"]
  <2>1. args \in [review : Reviews \cup {None}, rating : Ratings \cup {None},
                  to : Rev!ReviewStatus \cup {None}] /\ args.review = r /\ args.rating \in Ratings
    BY DEF Rev!ReviewStatus
  <2> HIDE DEF args
  <2> QED BY <1>1, <2>1, ReviewBegins DEF Rev!Submit, args
<1>2. ASSUME NEW r \in Reviews, NEW n \in Ratings, Rev!Edit(w, r, n) PROVE ReviewInv'
  <2> DEFINE args == [review |-> r, rating |-> n, to |-> "pending"]
  <2>1. args \in [review : Reviews \cup {None}, rating : Ratings \cup {None},
                  to : Rev!ReviewStatus \cup {None}] /\ args.review = r /\ args.rating \in Ratings
    BY DEF Rev!ReviewStatus
  <2>2. Rev!Begin(w, "edit", r, args) /\ reviews[r] # None /\ reviews[r].status = "pending"
    BY <1>2 DEF Rev!Edit
  <2> HIDE DEF args
  <2> QED BY <2>1, <2>2, ReviewBegins
<1>3. ASSUME NEW r \in Reviews, NEW to \in Rev!ReviewStatus, Rev!Moderate(w, r, to) PROVE ReviewInv'
  <2> DEFINE args == [review |-> r, rating |-> None, to |-> to]
  <2>1. args \in [review : Reviews \cup {None}, rating : Ratings \cup {None},
                  to : Rev!ReviewStatus \cup {None}] /\ args.review = r /\ args.to \in Rev!ReviewStatus
    OBVIOUS
  <2>2. Rev!Begin(w, "flush", r, args) /\ reviews[r] # None
    BY <1>3 DEF Rev!Moderate
  <2> HIDE DEF args
  <2> QED BY <2>1, <2>2, ReviewBegins
<1> QED BY <1>1, <1>2, <1>3, ReviewGoesOn, GuestSaves, ModerationEnds, ReviewAborts DEF Rev!Step

LEMMA ReviewsRest == ReviewInv /\ UNCHANGED reviewVars => ReviewInv'
BY DEF reviewVars, ReviewInv, ReviewTypes, ReviewFits, Rev!TypeOK, LonelyRequests, FreshReads,
   SummaryRight,
   Rev!Busy, Rev!Published, Rev!ShownSummary

LEMMA ReviewsKept == BackOfficeSpec => []ReviewInv
<1>1. BackOfficeInit => ReviewInv
  BY ReviewInitially DEF BackOfficeInit
<1>2. ReviewInv /\ [BackOfficeNext]_<<vars, scene, deskVars, reviewVars>> => ReviewInv'
  BY ReviewSteps, ReviewsRest DEF BackOfficeNext
<1> QED BY <1>1, <1>2, PTL DEF BackOfficeSpec

\* However requests overlap and wherever they fail: a moderation of the unit
\* that meets no other request and runs to its end makes the summary right,
\* and requests served one at a time keep it so.
THEOREM ModerationRepairsSummary == BackOfficeSpec => []SummaryRepaired
<1>1. ReviewInv => SummaryRepaired
  BY DEF ReviewInv, SummaryRight, SummaryRepaired, Rev!SummaryRepaired
<1> QED BY <1>1, ReviewsKept, PTL
=============================================================================
