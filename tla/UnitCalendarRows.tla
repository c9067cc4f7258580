-------------------------- MODULE UnitCalendarRows --------------------------
(***************************************************************************)
(* Type correctness of UnitCalendar, for every set of units, clients, keys *)
(* and workers, every horizon and every traffic.                           *)
(*                                                                         *)
(* TypeOK is not inductive: that a save writes a well-formed row depends   *)
(* on which arguments the step behind pc was begun with.  Fits says it,    *)
(* and ConvertedExists that the lead a conversion works on is a row.       *)
(*                                                                         *)
(* On top of it, what the xmin token achieves: a booking is only written   *)
(* by a request whose snapshot of it is still the committed row, so what   *)
(* the request validated when it read the row still holds when it saves.   *)
(*                                                                         *)
(* The invariant says that a snapshot of the present version shows the     *)
(* present status and dates (Snapshots), and that a worker's next write    *)
(* was validated against its snapshot (Plans).  Every step then changes a  *)
(* booking in one of four ways (RowChange), from which the theorems on     *)
(* status moves, dates and histories follow.                               *)
(***************************************************************************)
EXTENDS UnitCalendar, TLAPS

CreateSteps == {"insert", "quick", "convert_unit", "convert_locked", "convert"}
ConvertSteps == {"convert_unit", "convert_locked", "convert"}
LeadFieldSteps == {"lead_insert", "lead_edit"}
RangeSteps == {"block_insert", "block_edit", "owner_block"}

\* What the arguments of a request at a step are good for.
Fits(step, args) ==
  /\ step \in CreateSteps =>
       /\ args.unit \in Units /\ args.client \in Clients /\ args.stay \in Stays
       /\ args.origin \in Origins
  /\ step \in ConvertSteps => args.origin \in LeadIds
  /\ step = "update" => args.stay \in Stays
  /\ step \in {"apply", "lead_status"} => args.to \in BookingStatus
  /\ step \in {"confirm", "confirm_locked", "confirm_checked"} => args.unit \in Units
  /\ step \in {"block_insert", "owner_block"} => args.unit \in Units
  /\ step \in RangeSteps => args.stay \in Ranges
  /\ step = "block_insert" => args.to \in BlockStatus
  /\ step \in LeadFieldSteps => args.stay \in Stays \cup {None}
  /\ step = "unit_edit" => args.unit \in Units /\ args.to \in {"active", "inactive"}

AskFits == \A w \in Workers : Fits(pc[w], ask[w])

ConvertedExists ==
  \A w \in Workers : pc[w] \in ConvertSteps => leads[ask[w].origin] # None

TypeInv == TypeOK /\ AskFits /\ ConvertedExists

-----------------------------------------------------------------------------
(* Sessions *)

LEMMA NoAskTyped == NoAsk \in Ask
BY DEF NoAsk, Ask

LEMMA UntrackedTyped == Untracked \in Tracker
BY DEF Untracked, Tracker

LEMMA IdleFits == ASSUME NEW args PROVE Fits("idle", args)
BY DEF Fits, CreateSteps, ConvertSteps, RangeSteps, LeadFieldSteps

\* A worker that goes to a step its arguments fit keeps the sessions typed.
LEMMA SessionMove ==
  ASSUME SessionOK, AskFits, NEW w \in Workers, NEW step \in Steps, NEW args \in Ask,
         Fits(step, args),
         pc' = [pc EXCEPT ![w] = step], ask' = [ask EXCEPT ![w] = args],
         tracked' \in [Workers -> Tracker]
  PROVE  SessionOK' /\ AskFits'
<1>1. SessionOK'
  BY DEF SessionOK
<1>2. ASSUME NEW v \in Workers PROVE Fits(pc'[v], ask'[v])
  <2>1. CASE v = w
    BY <2>1 DEF SessionOK
  <2>2. CASE v # w
    <3>1. pc'[v] = pc[v] /\ ask'[v] = ask[v]
      BY <2>2 DEF SessionOK
    <3> QED BY <3>1 DEF AskFits
  <2> QED BY <2>1, <2>2
<1>3. AskFits'
  BY <1>2 DEF AskFits, Fits
<1> QED BY <1>1, <1>3

\* Ending a request keeps sessions and locks typed.
LEMMA FinishTyped ==
  ASSUME TypeInv, NEW w \in Workers, Finish(w)
  PROVE  LocksOK' /\ SessionOK' /\ AskFits'
<1>1. LocksOK'
  BY DEF TypeInv, TypeOK, LocksOK, Finish, Free
<1>2. tracked' \in [Workers -> Tracker]
  BY UntrackedTyped DEF TypeInv, TypeOK, SessionOK, Finish
<1>3. "idle" \in Steps
  BY DEF Steps
<1> QED BY <1>1, <1>2, <1>3, SessionMove, NoAskTyped, IdleFits DEF TypeInv, TypeOK, Finish

LeadsKept == \A l \in LeadIds : leads[l] # None => leads'[l] # None

\* A request begins: no table changes.
LEMMA BeginTyped ==
  ASSUME TypeInv, NEW w \in Workers, NEW step \in Steps, NEW args \in Ask,
         Begin(w, step, args), UNCHANGED tables, LocksOK',
         tracked' \in [Workers -> Tracker], Fits(step, args),
         step \in ConvertSteps => leads[args.origin] # None
  PROVE  TypeInv'
<1>1. TablesOK'
  BY DEF TypeInv, TypeOK, TablesOK, tables
<1>2. SessionOK' /\ AskFits'
  BY SessionMove DEF TypeInv, TypeOK, Begin
<1>3. ConvertedExists'
  BY DEF TypeInv, TypeOK, SessionOK, ConvertedExists, Begin, tables
<1> QED BY <1>1, <1>2, <1>3 DEF TypeInv, TypeOK

\* A request goes on inside its transaction: no table changes.
LEMMA AdvanceTyped ==
  ASSUME TypeInv, NEW w \in Workers, NEW from \in Steps, NEW to \in Steps,
         Advance(w, from, to), UNCHANGED tables, LocksOK',
         NEW args \in Ask, ask' = [ask EXCEPT ![w] = args], args.origin = ask[w].origin,
         tracked' \in [Workers -> Tracker], Fits(from, ask[w]) => Fits(to, args),
         to \in ConvertSteps => from \in ConvertSteps
  PROVE  TypeInv'
<1>1. TablesOK'
  BY DEF TypeInv, TypeOK, TablesOK, tables
<1>2. Fits(to, args)
  BY DEF TypeInv, AskFits, Advance
<1>3. SessionOK' /\ AskFits'
  BY <1>2, SessionMove DEF TypeInv, TypeOK, Advance
<1>4. ConvertedExists'
  BY DEF TypeInv, TypeOK, SessionOK, ConvertedExists, Advance, tables
<1> QED BY <1>1, <1>3, <1>4 DEF TypeInv, TypeOK

\* A request ends, with whatever it writes.
LEMMA EndTyped ==
  ASSUME TypeInv, NEW w \in Workers, Finish(w), TablesOK', LeadsKept
  PROVE  TypeInv'
<1>1. LocksOK' /\ SessionOK' /\ AskFits'
  BY FinishTyped
<1>2. ASSUME NEW v \in Workers, pc'[v] \in ConvertSteps
      PROVE  leads'[ask'[v].origin] # None
  <2>1. v # w /\ pc'[v] = pc[v] /\ ask'[v] = ask[v]
    BY <1>2 DEF TypeInv, TypeOK, SessionOK, Finish, ConvertSteps
  <2>2. ask[v].origin \in LeadIds
    BY <1>2, <2>1 DEF TypeInv, AskFits, Fits
  <2> QED BY <1>2, <2>1, <2>2 DEF TypeInv, ConvertedExists, LeadsKept
<1>3. ConvertedExists'
  BY <1>2 DEF ConvertedExists
<1> QED BY <1>1, <1>3 DEF TypeInv, TypeOK

\* A row changes outside every request.
LEMMA OutsideTyped ==
  ASSUME TypeInv, UNCHANGED <<locks, session>>, UNCHANGED leads, TablesOK'
  PROVE  TypeInv'
BY DEF TypeInv, TypeOK, LocksOK, SessionOK, AskFits, ConvertedExists, locks, session

-----------------------------------------------------------------------------
(* Reads and writes *)

LEMMA AcquireTyped ==
  ASSUME LocksOK, NEW w \in Workers, NEW u \in Units, AcquireUnit(w, u),
         UNCHANGED <<leadLock, sweepLock>>
  PROVE  LocksOK'
BY DEF LocksOK, AcquireUnit

LEMMA TrackTyped ==
  ASSUME TypeOK, NEW w \in Workers,
         \/ tracked' = tracked
         \/ \E S \in SUBSET BookingIds : TrackBookings(w, S)
         \/ \E x \in BlockIds : TrackBlock(w, x)
         \/ \E l \in LeadIds : TrackLead(w, l)
  PROVE  tracked' \in [Workers -> Tracker]
<1>1. CASE tracked' = tracked
  BY <1>1 DEF TypeOK, SessionOK
<1>2. ASSUME NEW S \in SUBSET BookingIds, TrackBookings(w, S)
      PROVE  tracked' \in [Workers -> Tracker]
  BY <1>2 DEF TypeOK, TablesOK, SessionOK, TrackBookings, Tracker
<1>3. ASSUME NEW x \in BlockIds, TrackBlock(w, x)
      PROVE  tracked' \in [Workers -> Tracker]
  BY <1>3 DEF TypeOK, TablesOK, SessionOK, TrackBlock, Tracker
<1>4. ASSUME NEW l \in LeadIds, TrackLead(w, l)
      PROVE  tracked' \in [Workers -> Tracker]
  BY <1>4 DEF TypeOK, TablesOK, SessionOK, TrackLead, Tracker
<1> QED BY <1>1, <1>2, <1>3, <1>4

\* What a request tracks are rows.
LEMMA TrackedTyped ==
  ASSUME SessionOK, NEW w \in Workers
  PROVE  /\ \A b \in TrackedBookings(w) : b \in BookingIds /\ tracked[w].bookings[b] \in BookingRow
         /\ \A x \in TrackedBlocks(w) : x \in BlockIds /\ tracked[w].blocks[x] \in BlockRow
         /\ \A l \in TrackedLeads(w) : l \in LeadIds /\ tracked[w].leads[l] \in LeadRow
<1>1. tracked[w] \in Tracker
  BY DEF SessionOK
<1>2. /\ tracked[w].bookings \in [BookingIds -> BookingRow \cup {None}]
      /\ tracked[w].blocks \in [BlockIds -> BlockRow \cup {None}]
      /\ tracked[w].leads \in [LeadIds -> LeadRow \cup {None}]
  BY <1>1 DEF Tracker
<1> QED BY <1>2 DEF TrackedBookings, TrackedBlocks, TrackedLeads

LEMMA MatchedRows ==
  ASSUME TablesOK, NEW w \in Workers, XminMatches(w)
  PROVE  \A b \in TrackedBookings(w) : bookings[b] \in BookingRow
BY DEF TablesOK, XminMatches, TrackedBookings

LEMMA SaveStatusTyped ==
  ASSUME TypeOK, NEW w \in Workers, NEW to \in BookingStatus, SaveStatus(w, to)
  PROVE  /\ bookings' \in [BookingIds -> BookingRow \cup {None}]
         /\ history' \in [BookingIds -> Seq(HistoryRow)]
<1>1. ASSUME NEW b \in TrackedBookings(w)
      PROVE  b \in BookingIds /\ tracked[w].bookings[b] \in BookingRow /\ bookings[b] \in BookingRow
  BY TrackedTyped, MatchedRows DEF TypeOK, SaveStatus
<1>2. ASSUME NEW b \in TrackedBookings(w)
      PROVE  [tracked[w].bookings[b] EXCEPT !.status = to, !.version = bookings[b].version + 1,
                                            !.fresh = bookings[b].fresh] \in BookingRow
  <2> DEFINE row == tracked[w].bookings[b]  now == bookings[b]
  <2>1. row \in BookingRow /\ now \in BookingRow
    BY <1>1
  <2>2. now.version + 1 \in Nat /\ now.fresh \in BOOLEAN
    BY <2>1 DEF BookingRow
  <2> HIDE DEF row, now
  <2>3. [row EXCEPT !.status = to, !.version = now.version + 1, !.fresh = now.fresh] \in BookingRow
    BY <2>1, <2>2 DEF BookingRow
  <2> QED BY <2>3 DEF row, now
<1>3. bookings' \in [BookingIds -> BookingRow \cup {None}]
  BY <1>2 DEF TypeOK, TablesOK, SaveStatus
<1>4. ASSUME NEW b \in TrackedBookings(w)
      PROVE  [old |-> tracked[w].bookings[b].status, new |-> to] \in HistoryRow
  BY <1>1 DEF BookingRow, HistoryRow
<1>5. ASSUME NEW b \in TrackedBookings(w)
      PROVE  Append(history[b], [old |-> tracked[w].bookings[b].status, new |-> to]) \in Seq(HistoryRow)
  BY <1>1, <1>4 DEF TypeOK, TablesOK
<1>6. history' \in [BookingIds -> Seq(HistoryRow)]
  BY <1>5 DEF TypeOK, TablesOK, SaveStatus
<1> QED BY <1>3, <1>6

LEMMA AddBookingTyped ==
  ASSUME TypeOK, NEW b \in BookingIds, NEW u \in Units, NEW c \in Clients,
         NEW s \in Stays, NEW status \in BookingStatus, NEW origin \in Origins,
         AddBooking(b, u, c, s, status, origin)
  PROVE  /\ bookings' \in [BookingIds -> BookingRow \cup {None}]
         /\ history' \in [BookingIds -> Seq(HistoryRow)]
<1>1. bookings' \in [BookingIds -> BookingRow \cup {None}]
  BY DEF TypeOK, TablesOK, AddBooking, BookingRow
<1>2. [old |-> None, new |-> status] \in HistoryRow
  BY DEF HistoryRow
<1>3. <<[old |-> None, new |-> status]>> \in Seq(HistoryRow)
  BY <1>2
<1>4. history' \in [BookingIds -> Seq(HistoryRow)]
  BY <1>3 DEF TypeOK, TablesOK, AddBooking
<1> QED BY <1>1, <1>4

LEMMA SaveBlockTyped ==
  ASSUME TypeOK, NEW w \in Workers, NEW status \in BlockStatus, NEW deleted \in BOOLEAN,
         SaveBlock(w, status, deleted)
  PROVE  blocks' \in [BlockIds -> BlockRow \cup {None}]
<1>1. ASSUME NEW x \in TrackedBlocks(w)
      PROVE  [tracked[w].blocks[x] EXCEPT !.status = status, !.deleted = deleted] \in BlockRow
  BY TrackedTyped DEF TypeOK, BlockRow
<1> QED BY <1>1 DEF TypeOK, TablesOK, SaveBlock

\* Writing tracked leads back keeps the table typed and every lead a row.
LEMMA WriteLeadTyped ==
  ASSUME TypeOK, NEW w \in Workers, NEW new,
         \A l \in TrackedLeads(w) : new[l] \in LeadRow,
         leads' = [l \in LeadIds |-> IF l \in TrackedLeads(w) THEN new[l] ELSE leads[l]]
  PROVE  leads' \in [LeadIds -> LeadRow \cup {None}] /\ LeadsKept
BY NoneIsNoRow DEF TypeOK, TablesOK, LeadsKept

-----------------------------------------------------------------------------
(* BookingOps *)

LEMMA CreateTyped ==
  ASSUME TypeInv, NEW w \in Workers, NEW c \in Clients, NEW u \in Units, NEW s \in Stays,
         CreateCheck(w, c, u, s) \/ \E o \in {"quick", "storefront"} : QuickLock(w, c, u, s, o)
  PROVE  TypeInv'
<1>1. ASSUME NEW o \in {"admin", "quick", "storefront"}, NEW step \in {"insert", "quick"}
      PROVE  LET args == [NoAsk EXCEPT !.unit = u, !.client = c, !.stay = s, !.origin = o]
             IN  args \in Ask /\ Fits(step, args) /\ step \in Steps /\ step \notin ConvertSteps
  BY DEF NoAsk, Ask, Origins, Fits, CreateSteps, ConvertSteps, RangeSteps, LeadFieldSteps, Steps
<1>2. CASE CreateCheck(w, c, u, s)
  <2>1. LocksOK' /\ tracked' \in [Workers -> Tracker] /\ UNCHANGED tables
    BY <1>2 DEF CreateCheck, locks, TypeInv, TypeOK, LocksOK, SessionOK
  <2> QED BY <1>1, <1>2, <2>1, BeginTyped DEF CreateCheck
<1>3. ASSUME NEW o \in {"quick", "storefront"}, QuickLock(w, c, u, s, o)
      PROVE  TypeInv'
  <2>1. LocksOK' /\ tracked' \in [Workers -> Tracker] /\ UNCHANGED tables
    BY <1>3, AcquireTyped DEF QuickLock, TypeInv, TypeOK, SessionOK
  <2> QED BY <1>1, <1>3, <2>1, BeginTyped DEF QuickLock
<1> QED BY <1>2, <1>3

LEMMA QuickTyped ==
  ASSUME TypeInv, NEW w \in Workers, QuickReturnDuplicate(w) \/ QuickCheck(w)
  PROVE  TypeInv'
<1>1. CASE QuickReturnDuplicate(w)
  <2>1. TablesOK' /\ LeadsKept
    BY <1>1 DEF QuickReturnDuplicate, tables, TypeInv, TypeOK, TablesOK, LeadsKept
  <2> QED BY <1>1, <2>1, EndTyped DEF QuickReturnDuplicate
<1>2. CASE QuickCheck(w)
  <2>1. LocksOK' /\ tracked' \in [Workers -> Tracker] /\ UNCHANGED tables
    BY <1>2 DEF QuickCheck, locks, TypeInv, TypeOK, LocksOK, SessionOK
  <2>2. ask[w] \in Ask /\ ask' = [ask EXCEPT ![w] = ask[w]]
    BY <1>2 DEF QuickCheck, TypeInv, TypeOK, SessionOK
  <2>3. Fits("quick", ask[w]) => Fits("insert", ask[w])
    BY DEF Fits, CreateSteps, ConvertSteps, RangeSteps, LeadFieldSteps
  <2>4. "quick" \in Steps /\ "insert" \in Steps /\ "insert" \notin ConvertSteps
    BY DEF Steps, ConvertSteps
  <2> QED BY <1>2, <2>1, <2>2, <2>3, <2>4, AdvanceTyped DEF QuickCheck
<1> QED BY <1>1, <1>2

LEMMA InsertTyped ==
  ASSUME TypeInv, NEW w \in Workers, NEW b \in BookingIds, InsertBooking(w, b)
  PROVE  TypeInv'
<1>1. /\ ask[w].unit \in Units /\ ask[w].client \in Clients /\ ask[w].stay \in Stays
      /\ ask[w].origin \in Origins
  BY DEF InsertBooking, TypeInv, AskFits, Fits, CreateSteps
<1>2. "Prospecting" \in BookingStatus
  BY DEF BookingStatus
<1>3. TablesOK' /\ LeadsKept
  BY <1>1, <1>2, AddBookingTyped DEF InsertBooking, TypeInv, TypeOK, TablesOK, LeadsKept
<1> QED BY <1>3, EndTyped DEF InsertBooking

LEMMA UpdateTyped ==
  ASSUME TypeInv, NEW w \in Workers,
         UpdateSave(w) \/ \E b \in BookingIds, s \in Stays : UpdateRead(w, b, s)
  PROVE  TypeInv'
<1>1. ASSUME NEW b \in BookingIds, NEW s \in Stays, UpdateRead(w, b, s)
      PROVE  TypeInv'
  <2> DEFINE args == [NoAsk EXCEPT !.stay = s]
  <2>1. args \in Ask /\ Fits("update", args) /\ "update" \in Steps /\ "update" \notin ConvertSteps
    BY DEF NoAsk, Ask, Fits, CreateSteps, ConvertSteps, RangeSteps, LeadFieldSteps, Steps
  <2>2. tracked' \in [Workers -> Tracker]
    BY <1>1, TrackTyped, {b} \in SUBSET BookingIds DEF UpdateRead, TypeInv
  <2>3. LocksOK' /\ UNCHANGED tables
    BY <1>1 DEF UpdateRead, locks, TypeInv, TypeOK, LocksOK
  <2> QED BY <1>1, <2>1, <2>2, <2>3, BeginTyped DEF UpdateRead
<1>2. CASE UpdateSave(w)
  <2>1. ask[w].stay \in Stays
    BY <1>2 DEF UpdateSave, TypeInv, AskFits, Fits
  <2>2. ASSUME NEW b \in TrackedBookings(w)
        PROVE  [tracked[w].bookings[b] EXCEPT !.stay = ask[w].stay,
                  !.version = bookings[b].version + 1, !.fresh = bookings[b].fresh] \in BookingRow
    <3> DEFINE row == tracked[w].bookings[b]  now == bookings[b]  s == ask[w].stay
    <3>1. row \in BookingRow /\ now \in BookingRow
      BY <1>2, TrackedTyped, MatchedRows DEF UpdateSave, TypeInv, TypeOK
    <3>2. now.version + 1 \in Nat /\ now.fresh \in BOOLEAN /\ s \in Stays
      BY <2>1, <3>1 DEF BookingRow
    <3> HIDE DEF row, now, s
    <3>3. [row EXCEPT !.stay = s, !.version = now.version + 1, !.fresh = now.fresh] \in BookingRow
      BY <3>1, <3>2 DEF BookingRow
    <3> QED BY <3>3 DEF row, now, s
  <2>3. bookings' \in [BookingIds -> BookingRow \cup {None}]
    BY <1>2, <2>2 DEF UpdateSave, TypeInv, TypeOK, TablesOK
  <2>4. TablesOK' /\ LeadsKept
    BY <1>2, <2>3 DEF UpdateSave, TypeInv, TypeOK, TablesOK, LeadsKept
  <2> QED BY <1>2, <2>4, EndTyped DEF UpdateSave
<1> QED BY <1>1, <1>2

\* The three commits that save a status end their request.
LEMMA StatusCommitTyped ==
  ASSUME TypeInv, NEW w \in Workers, NEW to \in BookingStatus, SaveStatus(w, to), Finish(w),
         UNCHANGED <<blocks, leads, unit, deletedClients, today>>
  PROVE  TypeInv'
<1>1. TablesOK' /\ LeadsKept
  BY SaveStatusTyped DEF TypeInv, TypeOK, TablesOK, LeadsKept
<1> QED BY <1>1, EndTyped

LEMMA TransitionTyped ==
  ASSUME TypeInv, NEW w \in Workers,
         \/ \E b \in BookingIds, to \in BookingStatus : TransitionRead(w, b, to)
         \/ ApplyTransition(w) \/ ConfirmLock(w) \/ ConfirmCheck(w) \/ ConfirmCommit(w)
  PROVE  TypeInv'
<1>1. ASSUME NEW b \in BookingIds, NEW to \in BookingStatus, TransitionRead(w, b, to)
      PROVE  TypeInv'
  <2> DEFINE args == [NoAsk EXCEPT !.unit = bookings[b].unit, !.to = to]
             step == IF to = "Confirmed" THEN "confirm" ELSE "apply"
  <2>1. bookings[b].unit \in Units
    BY <1>1 DEF TransitionRead, BookingRows, TypeInv, TypeOK, TablesOK, BookingRow
  <2>2. args \in Ask /\ Fits(step, args) /\ step \in Steps /\ step \notin ConvertSteps
    BY <2>1 DEF NoAsk, Ask, Fits, CreateSteps, ConvertSteps, RangeSteps, LeadFieldSteps, Steps
  <2>3. tracked' \in [Workers -> Tracker]
    BY <1>1, TrackTyped, {b} \in SUBSET BookingIds DEF TransitionRead, TypeInv
  <2>4. LocksOK' /\ UNCHANGED tables
    BY <1>1 DEF TransitionRead, locks, TypeInv, TypeOK, LocksOK
  <2> QED BY <1>1, <2>2, <2>3, <2>4, BeginTyped DEF TransitionRead
<1>2. CASE ApplyTransition(w)
  <2>1. ask[w].to \in BookingStatus
    BY <1>2 DEF ApplyTransition, TypeInv, AskFits, Fits
  <2> QED BY <1>2, <2>1, StatusCommitTyped DEF ApplyTransition
<1>3. CASE ConfirmLock(w)
  <2>1. ask[w].unit \in Units /\ ask[w] \in Ask /\ ask' = [ask EXCEPT ![w] = ask[w]]
    BY <1>3 DEF ConfirmLock, Advance, TypeInv, TypeOK, SessionOK, AskFits, Fits
  <2>2. TrackedBookings(w) \in SUBSET BookingIds
    BY DEF TrackedBookings
  <2>3. tracked' \in [Workers -> Tracker]
    BY <1>3, <2>2, TrackTyped DEF ConfirmLock, TypeInv
  <2>4. LocksOK' /\ UNCHANGED tables
    BY <1>3, <2>1, AcquireTyped DEF ConfirmLock, TypeInv, TypeOK
  <2>5. Fits("confirm", ask[w]) => Fits("confirm_locked", ask[w])
    BY DEF Fits, CreateSteps, ConvertSteps, RangeSteps, LeadFieldSteps
  <2>6. "confirm" \in Steps /\ "confirm_locked" \in Steps /\ "confirm_locked" \notin ConvertSteps
    BY DEF Steps, ConvertSteps
  <2> QED BY <1>3, <2>1, <2>3, <2>4, <2>5, <2>6, AdvanceTyped DEF ConfirmLock
<1>4. CASE ConfirmCheck(w)
  <2>1. LocksOK' /\ tracked' \in [Workers -> Tracker] /\ UNCHANGED tables
    BY <1>4 DEF ConfirmCheck, locks, TypeInv, TypeOK, LocksOK, SessionOK
  <2>2. ask[w] \in Ask /\ ask' = [ask EXCEPT ![w] = ask[w]]
    BY <1>4 DEF ConfirmCheck, TypeInv, TypeOK, SessionOK
  <2>3. Fits("confirm_locked", ask[w]) => Fits("confirm_checked", ask[w])
    BY DEF Fits, CreateSteps, ConvertSteps, RangeSteps, LeadFieldSteps
  <2>4. /\ "confirm_locked" \in Steps /\ "confirm_checked" \in Steps
        /\ "confirm_checked" \notin ConvertSteps
    BY DEF Steps, ConvertSteps
  <2> QED BY <1>4, <2>1, <2>2, <2>3, <2>4, AdvanceTyped DEF ConfirmCheck
<1>5. CASE ConfirmCommit(w)
  BY <1>5, StatusCommitTyped DEF ConfirmCommit, BookingStatus
<1> QED BY <1>1, <1>2, <1>3, <1>4, <1>5

LEMMA SweepTyped ==
  ASSUME TypeInv, NEW w \in Workers, SweepRead(w) \/ SweepCommit(w)
  PROVE  TypeInv'
<1>1. CASE SweepRead(w)
  <2>1. NoAsk \in Ask /\ Fits("sweep", NoAsk) /\ "sweep" \in Steps /\ "sweep" \notin ConvertSteps
    BY DEF NoAsk, Ask, Fits, CreateSteps, ConvertSteps, RangeSteps, LeadFieldSteps, Steps
  <2>2. Overdue \in SUBSET BookingIds
    BY DEF Overdue, BookingRows
  <2>3. tracked' \in [Workers -> Tracker]
    BY <1>1, <2>2, TrackTyped DEF SweepRead, TypeInv
  <2>4. LocksOK'
    BY <1>1 DEF SweepRead, TypeInv, TypeOK, LocksOK
  <2> QED BY <1>1, <2>1, <2>3, <2>4, BeginTyped DEF SweepRead
<1>2. CASE SweepCommit(w)
  BY <1>2, StatusCommitTyped DEF SweepCommit, BookingStatus
<1> QED BY <1>1, <1>2

\* What happens outside the requests, and a request that fails.
LEMMA SurroundingsTyped ==
  ASSUME TypeInv, Surroundings
  PROVE  TypeInv'
<1>1. CASE NextDay
  <2>1. TablesOK'
    BY <1>1, HorizonAssumption DEF NextDay, TypeInv, TypeOK, TablesOK, Days
  <2> QED BY <1>1, <2>1, OutsideTyped DEF NextDay
<1>2. ASSUME NEW b \in BookingIds, DuplicateWindowCloses(b)
      PROVE  TypeInv'
  <2>1. bookings[b] \in BookingRow
    BY <1>2 DEF DuplicateWindowCloses, BookingRows, TypeInv, TypeOK, TablesOK
  <2>2. [bookings[b] EXCEPT !.fresh = FALSE] \in BookingRow
    BY <2>1 DEF BookingRow
  <2>3. TablesOK'
    BY <1>2, <2>2 DEF DuplicateWindowCloses, TypeInv, TypeOK, TablesOK
  <2> QED BY <1>2, <2>3, OutsideTyped DEF DuplicateWindowCloses
<1>3. ASSUME NEW x \in BlockIds, AdminBlockDelete(x)
      PROVE  TypeInv'
  <2>1. TablesOK'
    BY <1>3 DEF AdminBlockDelete, TypeInv, TypeOK, TablesOK
  <2> QED BY <1>3, <2>1, OutsideTyped DEF AdminBlockDelete
<1>4. ASSUME NEW u \in Units, DeleteUnit(u)
      PROVE  TypeInv'
  <2>1. TablesOK'
    BY <1>4 DEF DeleteUnit, TypeInv, TypeOK, TablesOK
  <2> QED BY <1>4, <2>1, OutsideTyped DEF DeleteUnit
<1>5. ASSUME NEW c \in Clients, DeleteClient(c)
      PROVE  TypeInv'
  <2>1. TablesOK'
    BY <1>5 DEF DeleteClient, TypeInv, TypeOK, TablesOK
  <2> QED BY <1>5, <2>1, OutsideTyped DEF DeleteClient
<1> QED BY <1>1, <1>2, <1>3, <1>4, <1>5 DEF Surroundings

LEMMA AbortTyped ==
  ASSUME TypeInv, NEW w \in Workers, Abort(w)
  PROVE  TypeInv'
<1>1. TablesOK' /\ LeadsKept
  BY DEF Abort, tables, TypeInv, TypeOK, TablesOK, LeadsKept
<1> QED BY <1>1, EndTyped DEF Abort

-----------------------------------------------------------------------------
(* DateBlockOps *)

LEMMA AdminBlockTyped ==
  ASSUME TypeInv, NEW w \in Workers,
         \/ \E u \in Units, k \in Ranges : AdminBlockCheck(w, u, k)
         \/ \E x \in BlockIds, k \in Ranges : AdminBlockEditRead(w, x, k)
         \/ AdminBlockEditSave(w)
         \/ \E x \in BlockIds : InsertBlock(w, x)
  PROVE  TypeInv'
<1>1. ASSUME NEW u \in Units, NEW k \in Ranges, AdminBlockCheck(w, u, k)
      PROVE  TypeInv'
  <2> DEFINE args == [NoAsk EXCEPT !.unit = u, !.stay = k, !.to = "Approved", !.origin = "admin"]
  <2>1. /\ args \in Ask /\ Fits("block_insert", args) /\ "block_insert" \in Steps
        /\ "block_insert" \notin ConvertSteps
    BY DEF NoAsk, Ask, Fits, CreateSteps, ConvertSteps, RangeSteps, LeadFieldSteps, Steps,
       BlockStatus, Origins
  <2>2. LocksOK' /\ tracked' \in [Workers -> Tracker] /\ UNCHANGED tables
    BY <1>1 DEF AdminBlockCheck, locks, TypeInv, TypeOK, LocksOK, SessionOK
  <2> QED BY <1>1, <2>1, <2>2, BeginTyped DEF AdminBlockCheck
<1>2. ASSUME NEW x \in BlockIds, NEW k \in Ranges, AdminBlockEditRead(w, x, k)
      PROVE  TypeInv'
  <2> DEFINE args == [NoAsk EXCEPT !.stay = k]
  <2>1. /\ args \in Ask /\ Fits("block_edit", args) /\ "block_edit" \in Steps
        /\ "block_edit" \notin ConvertSteps
    BY DEF NoAsk, Ask, Fits, CreateSteps, ConvertSteps, RangeSteps, LeadFieldSteps, Steps
  <2>2. tracked' \in [Workers -> Tracker]
    BY <1>2, TrackTyped DEF AdminBlockEditRead, TypeInv
  <2>3. LocksOK' /\ UNCHANGED tables
    BY <1>2 DEF AdminBlockEditRead, locks, TypeInv, TypeOK, LocksOK
  <2> QED BY <1>2, <2>1, <2>2, <2>3, BeginTyped DEF AdminBlockEditRead
<1>3. CASE AdminBlockEditSave(w)
  <2>1. ask[w].stay \in Ranges
    BY <1>3 DEF AdminBlockEditSave, TypeInv, AskFits, Fits, RangeSteps
  <2>2. ASSUME NEW x \in TrackedBlocks(w)
        PROVE  [tracked[w].blocks[x] EXCEPT !.range = ask[w].stay, !.owned = FALSE] \in BlockRow
    BY <2>1, TrackedTyped DEF TypeInv, TypeOK, BlockRow
  <2>3. TablesOK' /\ LeadsKept
    BY <1>3, <2>2 DEF AdminBlockEditSave, TypeInv, TypeOK, TablesOK, LeadsKept
  <2> QED BY <1>3, <2>3, EndTyped DEF AdminBlockEditSave
<1>4. ASSUME NEW x \in BlockIds, InsertBlock(w, x)
      PROVE  TypeInv'
  <2>1. ask[w].unit \in Units /\ ask[w].stay \in Ranges /\ ask[w].to \in BlockStatus
    BY <1>4 DEF InsertBlock, TypeInv, AskFits, Fits, RangeSteps
  <2>2. [unit |-> ask[w].unit, range |-> ask[w].stay, status |-> ask[w].to,
         deleted |-> FALSE, owned |-> ask[w].origin = "owner"] \in BlockRow
    BY <2>1 DEF BlockRow
  <2>3. TablesOK' /\ LeadsKept
    BY <1>4, <2>2 DEF InsertBlock, TypeInv, TypeOK, TablesOK, LeadsKept
  <2> QED BY <1>4, <2>3, EndTyped DEF InsertBlock
<1> QED BY <1>1, <1>2, <1>3, <1>4

LEMMA OwnerBlockTyped ==
  ASSUME TypeInv, NEW w \in Workers,
         \/ \E u \in Units, k \in Ranges : OwnerBlockLock(w, u, k)
         \/ OwnerBlockCheck(w)
  PROVE  TypeInv'
<1>1. ASSUME NEW u \in Units, NEW k \in Ranges, OwnerBlockLock(w, u, k)
      PROVE  TypeInv'
  <2> DEFINE args == [NoAsk EXCEPT !.unit = u, !.stay = k, !.origin = "owner"]
  <2>1. /\ args \in Ask /\ Fits("owner_block", args) /\ "owner_block" \in Steps
        /\ "owner_block" \notin ConvertSteps
    BY DEF NoAsk, Ask, Fits, CreateSteps, ConvertSteps, RangeSteps, LeadFieldSteps, Steps
  <2>2. LocksOK' /\ tracked' \in [Workers -> Tracker] /\ UNCHANGED tables
    BY <1>1, AcquireTyped DEF OwnerBlockLock, TypeInv, TypeOK, SessionOK
  <2> QED BY <1>1, <2>1, <2>2, BeginTyped DEF OwnerBlockLock
<1>2. CASE OwnerBlockCheck(w)
  <2> DEFINE to == IF HasAny(SoftConflicts(ask[w].unit, ask[w].stay))
                   THEN "PendingApproval" ELSE "Approved"
             args == [ask[w] EXCEPT !.to = to]
  <2>1. to \in BlockStatus
    BY DEF BlockStatus
  <2> HIDE DEF to
  <2>2. ask[w] \in Ask
    BY DEF TypeInv, TypeOK, SessionOK
  <2>3. args \in Ask /\ args.origin = ask[w].origin
    BY <2>1, <2>2 DEF Ask
  <2>4. ask' = [ask EXCEPT ![w] = args]
    BY <1>2 DEF OwnerBlockCheck, to, TypeInv, TypeOK, SessionOK
  <2>5. Fits("owner_block", ask[w]) => Fits("block_insert", args)
    BY <2>1, <2>2 DEF Ask, Fits, CreateSteps, ConvertSteps, RangeSteps, LeadFieldSteps
  <2>6. LocksOK' /\ tracked' \in [Workers -> Tracker] /\ UNCHANGED tables
    BY <1>2 DEF OwnerBlockCheck, locks, TypeInv, TypeOK, LocksOK, SessionOK
  <2>7. /\ "owner_block" \in Steps /\ "block_insert" \in Steps
        /\ "block_insert" \notin ConvertSteps
    BY DEF Steps, ConvertSteps
  <2> QED BY <1>2, <2>3, <2>4, <2>5, <2>6, <2>7, AdvanceTyped DEF OwnerBlockCheck
<1> QED BY <1>1, <1>2

LEMMA ResolveLockTyped ==
  ASSUME TypeInv, NEW w \in Workers, NEW x \in BlockIds,
         WithdrawLock(w, x) \/ \E d \in {"Approved", "Rejected"} : ResolveLock(w, x, d)
  PROVE  TypeInv'
<1>1. blocks[x].unit \in Units /\ tracked' \in [Workers -> Tracker]
  BY TrackTyped DEF WithdrawLock, ResolveLock, TypeInv, TypeOK, TablesOK, BlockRow
<1>2. LocksOK' /\ UNCHANGED tables
  BY <1>1, AcquireTyped DEF WithdrawLock, ResolveLock, TypeInv, TypeOK
<1>3. ASSUME NEW d \in {"Approved", "Rejected"}
      PROVE  LET args == [NoAsk EXCEPT !.unit = blocks[x].unit, !.to = d]
             IN  /\ args \in Ask /\ Fits("resolve", args) /\ "resolve" \in Steps
                 /\ "resolve" \notin ConvertSteps
  BY <1>1 DEF NoAsk, Ask, Fits, CreateSteps, ConvertSteps, RangeSteps, LeadFieldSteps, Steps,
     BlockStatus
<1>4. CASE WithdrawLock(w, x)
  <2> DEFINE args == [NoAsk EXCEPT !.unit = blocks[x].unit]
  <2>1. /\ args \in Ask /\ Fits("withdraw", args) /\ "withdraw" \in Steps
        /\ "withdraw" \notin ConvertSteps
    BY <1>1 DEF NoAsk, Ask, Fits, CreateSteps, ConvertSteps, RangeSteps, LeadFieldSteps, Steps
  <2> QED BY <1>1, <1>2, <1>4, <2>1, BeginTyped DEF WithdrawLock
<1>5. ASSUME NEW d \in {"Approved", "Rejected"}, ResolveLock(w, x, d)
      PROVE  TypeInv'
  BY <1>1, <1>2, <1>3, <1>5, BeginTyped DEF ResolveLock
<1> QED BY <1>4, <1>5

LEMMA ResolveTyped ==
  ASSUME TypeInv, NEW w \in Workers,
         ResolveReadConflicts(w) \/ ResolveApprove(w) \/ ResolveReject(w) \/ WithdrawCommit(w)
  PROVE  TypeInv' /\ LeadsKept
<1>1. CASE ResolveReadConflicts(w)
  <2>1. ask[w] \in Ask /\ ask' = [ask EXCEPT ![w] = ask[w]]
    BY <1>1 DEF ResolveReadConflicts, TypeInv, TypeOK, SessionOK
  <2>2. tracked' \in [Workers -> Tracker]
    <3>0. PICK x \in TrackedBlocks(w) :
            LET found == SoftConflicts(ask[w].unit, tracked[w].blocks[x].range)
            IN  tracked' = [tracked EXCEPT
              ![w].bookings = [b \in BookingIds |->
                 IF b \in found.bookings THEN bookings[b] ELSE None],
              ![w].leads = [l \in LeadIds |->
                 IF l \in found.leads THEN leads[l] ELSE None]]
      BY <1>1 DEF ResolveReadConflicts
    <3>1. PICK B, L :
            tracked' = [tracked EXCEPT
              ![w].bookings = [b \in BookingIds |-> IF b \in B THEN bookings[b] ELSE None],
              ![w].leads = [l \in LeadIds |-> IF l \in L THEN leads[l] ELSE None]]
      BY <3>0
    <3>2. /\ [b \in BookingIds |-> IF b \in B THEN bookings[b] ELSE None]
               \in [BookingIds -> BookingRow \cup {None}]
          /\ [l \in LeadIds |-> IF l \in L THEN leads[l] ELSE None]
               \in [LeadIds -> LeadRow \cup {None}]
      BY DEF TypeInv, TypeOK, TablesOK
    <3> QED BY <3>1, <3>2 DEF TypeInv, TypeOK, SessionOK, Tracker
  <2>3. LocksOK' /\ UNCHANGED tables
    BY <1>1 DEF ResolveReadConflicts, locks, TypeInv, TypeOK, LocksOK
  <2>4. Fits("resolve_approve", ask[w])
    BY DEF Fits, CreateSteps, ConvertSteps, RangeSteps, LeadFieldSteps
  <2>5. /\ "resolve" \in Steps /\ "resolve_approve" \in Steps
        /\ "resolve_approve" \notin ConvertSteps
    BY DEF Steps, ConvertSteps
  <2>6. LeadsKept
    BY <2>3 DEF tables, LeadsKept
  <2> QED BY <1>1, <2>1, <2>2, <2>3, <2>4, <2>5, <2>6, AdvanceTyped DEF ResolveReadConflicts
<1>2. CASE ResolveApprove(w)
  <2>1. \A l \in TrackedLeads(w) :
          [tracked[w].leads[l] EXCEPT !.status = "NotRelevant"] \in LeadRow
    BY TrackedTyped DEF TypeInv, TypeOK, LeadRow, BookingStatus
  <2>2. leads' \in [LeadIds -> LeadRow \cup {None}] /\ LeadsKept
    <3> DEFINE new == [l \in LeadIds |-> [tracked[w].leads[l] EXCEPT !.status = "NotRelevant"]]
    <3>1. \A l \in TrackedLeads(w) : new[l] \in LeadRow
      BY <2>1 DEF TrackedLeads
    <3>2. leads' = [l \in LeadIds |-> IF l \in TrackedLeads(w) THEN new[l] ELSE leads[l]]
      BY <1>2 DEF ResolveApprove
    <3> HIDE DEF new
    <3> QED BY <3>1, <3>2, WriteLeadTyped DEF TypeInv
  <2>3. blocks' \in [BlockIds -> BlockRow \cup {None}]
    BY <1>2, SaveBlockTyped DEF ResolveApprove, TypeInv, BlockStatus
  <2>4. /\ bookings' \in [BookingIds -> BookingRow \cup {None}]
        /\ history' \in [BookingIds -> Seq(HistoryRow)]
    BY <1>2, SaveStatusTyped DEF ResolveApprove, TypeInv, BookingStatus
  <2>5. TablesOK'
    BY <1>2, <2>2, <2>3, <2>4 DEF ResolveApprove, TypeInv, TypeOK, TablesOK
  <2> QED BY <1>2, <2>2, <2>5, EndTyped DEF ResolveApprove
<1>3. CASE ResolveReject(w) \/ WithdrawCommit(w)
  <2>1. blocks' \in [BlockIds -> BlockRow \cup {None}]
    BY <1>3, SaveBlockTyped DEF ResolveReject, WithdrawCommit, TypeInv, BlockStatus
  <2>2. TablesOK' /\ LeadsKept
    BY <1>3, <2>1 DEF ResolveReject, WithdrawCommit, TypeInv, TypeOK, TablesOK, LeadsKept
  <2> QED BY <1>3, <2>2, EndTyped DEF ResolveReject, WithdrawCommit
<1> QED BY <1>1, <1>2, <1>3

-----------------------------------------------------------------------------
(* LeadOps *)

LEMMA LeadReadTyped ==
  ASSUME TypeInv, NEW w \in Workers,
         \/ \E u \in Units \cup {None}, c \in Clients \cup {None}, s \in Stays \cup {None} :
              \/ LeadCreateCheck(w, u, c, s)
              \/ \E l \in LeadIds : LeadEditRead(w, l, u, c, s)
         \/ \E l \in LeadIds, to \in BookingStatus : LeadStatusRead(w, l, to)
  PROVE  TypeInv'
<1>1. ASSUME NEW u \in Units \cup {None}, NEW c \in Clients \cup {None},
             NEW s \in Stays \cup {None}, NEW step \in LeadFieldSteps
      PROVE  LET args == [NoAsk EXCEPT !.unit = u, !.client = c, !.stay = s]
             IN  args \in Ask /\ Fits(step, args) /\ step \in Steps /\ step \notin ConvertSteps
  BY DEF NoAsk, Ask, Fits, CreateSteps, ConvertSteps, RangeSteps, LeadFieldSteps, Steps
<1>2. ASSUME NEW u \in Units \cup {None}, NEW c \in Clients \cup {None},
             NEW s \in Stays \cup {None}, LeadCreateCheck(w, u, c, s)
      PROVE  TypeInv'
  <2>1. LocksOK' /\ tracked' \in [Workers -> Tracker] /\ UNCHANGED tables
    BY <1>2 DEF LeadCreateCheck, locks, TypeInv, TypeOK, LocksOK, SessionOK
  <2> QED BY <1>1, <1>2, <2>1, BeginTyped DEF LeadCreateCheck, LeadFieldSteps
<1>3. ASSUME NEW u \in Units \cup {None}, NEW c \in Clients \cup {None},
             NEW s \in Stays \cup {None}, NEW l \in LeadIds, LeadEditRead(w, l, u, c, s)
      PROVE  TypeInv'
  <2>1. tracked' \in [Workers -> Tracker]
    BY <1>3, TrackTyped DEF LeadEditRead, TypeInv
  <2>2. LocksOK' /\ UNCHANGED tables
    BY <1>3 DEF LeadEditRead, locks, TypeInv, TypeOK, LocksOK
  <2> QED BY <1>1, <1>3, <2>1, <2>2, BeginTyped DEF LeadEditRead, LeadFieldSteps
<1>4. ASSUME NEW l \in LeadIds, NEW to \in BookingStatus, LeadStatusRead(w, l, to)
      PROVE  TypeInv'
  <2> DEFINE args == [NoAsk EXCEPT !.to = to]
  <2>1. /\ args \in Ask /\ Fits("lead_status", args) /\ "lead_status" \in Steps
        /\ "lead_status" \notin ConvertSteps
    BY DEF NoAsk, Ask, Fits, CreateSteps, ConvertSteps, RangeSteps, LeadFieldSteps, Steps
  <2>2. tracked' \in [Workers -> Tracker]
    BY <1>4, TrackTyped DEF LeadStatusRead, TypeInv
  <2>3. LocksOK' /\ UNCHANGED tables
    BY <1>4 DEF LeadStatusRead, locks, TypeInv, TypeOK, LocksOK
  <2> QED BY <1>4, <2>1, <2>2, <2>3, BeginTyped DEF LeadStatusRead
<1> QED BY <1>2, <1>3, <1>4

LEMMA LeadWriteTyped ==
  ASSUME TypeInv, NEW w \in Workers,
         (\E l \in LeadIds : LeadInsert(w, l)) \/ LeadEditSave(w) \/ LeadStatusSave(w)
  PROVE  TypeInv' /\ LeadsKept
<1>1. ask[w].unit \in Units \cup {None} /\ ask[w].client \in Clients \cup {None}
  BY DEF TypeInv, TypeOK, SessionOK, Ask
<1>2. pc[w] \in LeadFieldSteps => ask[w].stay \in Stays \cup {None}
  BY DEF TypeInv, AskFits, Fits
<1>3. ASSUME NEW l \in LeadIds, LeadInsert(w, l)
      PROVE  TypeInv' /\ LeadsKept
  <2>1. [unit |-> ask[w].unit, client |-> ask[w].client, stay |-> ask[w].stay,
         status |-> "Prospecting"] \in LeadRow
    BY <1>1, <1>2, <1>3 DEF LeadInsert, LeadFieldSteps, LeadRow, BookingStatus
  <2>2. TablesOK' /\ LeadsKept
    BY <1>3, <2>1, NoneIsNoRow DEF LeadInsert, TypeInv, TypeOK, TablesOK, LeadsKept
  <2> QED BY <1>3, <2>2, EndTyped DEF LeadInsert
<1>4. CASE LeadEditSave(w)
  <2> DEFINE new == [l \in LeadIds |-> [tracked[w].leads[l] EXCEPT
                       !.unit = ask[w].unit, !.client = ask[w].client, !.stay = ask[w].stay]]
  <2>1. \A l \in TrackedLeads(w) : new[l] \in LeadRow
    BY <1>1, <1>2, <1>4, TrackedTyped
       DEF LeadEditSave, LeadFieldSteps, TypeInv, TypeOK, LeadRow
  <2>2. leads' = [l \in LeadIds |-> IF l \in TrackedLeads(w) THEN new[l] ELSE leads[l]]
    BY <1>4 DEF LeadEditSave
  <2> HIDE DEF new
  <2>3. TablesOK' /\ LeadsKept
    BY <1>4, <2>1, <2>2, WriteLeadTyped DEF LeadEditSave, TypeInv, TypeOK, TablesOK
  <2> QED BY <1>4, <2>3, EndTyped DEF LeadEditSave
<1>5. CASE LeadStatusSave(w)
  <2> DEFINE new == [l \in LeadIds |-> [tracked[w].leads[l] EXCEPT !.status = ask[w].to]]
  <2>1. ask[w].to \in BookingStatus
    BY <1>5 DEF LeadStatusSave, TypeInv, AskFits, Fits
  <2>2. \A l \in TrackedLeads(w) : new[l] \in LeadRow
    BY <2>1, TrackedTyped DEF TypeInv, TypeOK, LeadRow
  <2>3. leads' = [l \in LeadIds |-> IF l \in TrackedLeads(w) THEN new[l] ELSE leads[l]]
    BY <1>5 DEF LeadStatusSave
  <2> HIDE DEF new
  <2>4. TablesOK' /\ LeadsKept
    BY <1>5, <2>2, <2>3, WriteLeadTyped DEF LeadStatusSave, TypeInv, TypeOK, TablesOK
  <2> QED BY <1>5, <2>4, EndTyped DEF LeadStatusSave
<1> QED BY <1>3, <1>4, <1>5

LEMMA ConvertTyped ==
  ASSUME TypeInv, NEW w \in Workers,
         \/ \E l \in LeadIds, u \in Units, c \in Clients, s \in Stays :
              ConvertLockUnit(w, l, u, c, s)
         \/ ConvertLockLead(w) \/ ConvertCheck(w)
         \/ \E b \in BookingIds : ConvertCommit(w, b)
  PROVE  TypeInv' /\ LeadsKept
<1>0. UNCHANGED leads => LeadsKept
  BY DEF LeadsKept
<1>1. ASSUME NEW l \in LeadIds, NEW u \in Units, NEW c \in Clients, NEW s \in Stays,
             ConvertLockUnit(w, l, u, c, s)
      PROVE  TypeInv'
  <2> DEFINE args == [NoAsk EXCEPT !.unit = u, !.client = c, !.stay = s, !.origin = l]
  <2>1. args \in Ask /\ Fits("convert_unit", args) /\ "convert_unit" \in Steps /\ args.origin = l
    BY DEF NoAsk, Ask, Fits, CreateSteps, ConvertSteps, RangeSteps, LeadFieldSteps, Steps, Origins
  <2>2. leads[l] # None
    BY <1>1 DEF ConvertLockUnit, LeadRows
  <2>3. LocksOK' /\ tracked' \in [Workers -> Tracker] /\ UNCHANGED tables
    BY <1>1, AcquireTyped DEF ConvertLockUnit, TypeInv, TypeOK, SessionOK
  <2> QED BY <1>1, <2>1, <2>2, <2>3, BeginTyped DEF ConvertLockUnit
<1>2. ASSUME NEW from \in {"convert_unit", "convert_locked"}, NEW to \in {"convert_locked", "convert"},
             Advance(w, from, to), UNCHANGED <<tables, ask>>, LocksOK',
             tracked' \in [Workers -> Tracker]
      PROVE  TypeInv'
  <2>1. ask[w] \in Ask /\ ask' = [ask EXCEPT ![w] = ask[w]]
    BY <1>2 DEF TypeInv, TypeOK, SessionOK
  <2>2. Fits(from, ask[w]) => Fits(to, ask[w])
    BY DEF Fits, CreateSteps, ConvertSteps, RangeSteps, LeadFieldSteps
  <2>3. from \in Steps /\ to \in Steps /\ from \in ConvertSteps
    BY DEF Steps, ConvertSteps
  <2> QED BY <1>2, <2>1, <2>2, <2>3, AdvanceTyped
<1>3. CASE ConvertLockLead(w)
  <2>1. ask[w].origin \in LeadIds
    BY <1>3 DEF ConvertLockLead, Advance, TypeInv, AskFits, Fits, ConvertSteps
  <2>2. tracked' \in [Workers -> Tracker]
    BY <1>3, <2>1, TrackTyped DEF ConvertLockLead, TypeInv
  <2>3. LocksOK'
    BY <1>3 DEF ConvertLockLead, TypeInv, TypeOK, LocksOK
  <2> QED BY <1>0, <1>2, <1>3, <2>2, <2>3 DEF ConvertLockLead, tables
<1>4. CASE ConvertCheck(w)
  <2>1. LocksOK' /\ tracked' \in [Workers -> Tracker]
    BY <1>4 DEF ConvertCheck, locks, TypeInv, TypeOK, LocksOK, SessionOK
  <2> QED BY <1>0, <1>2, <1>4, <2>1 DEF ConvertCheck, tables
<1>5. ASSUME NEW b \in BookingIds, ConvertCommit(w, b)
      PROVE  TypeInv' /\ LeadsKept
  <2> DEFINE l == ask[w].origin  seen == tracked[w].leads[l]
  <2>1. /\ ask[w].unit \in Units /\ ask[w].client \in Clients /\ ask[w].stay \in Stays
        /\ l \in LeadIds /\ l \in Origins
    BY <1>5 DEF ConvertCommit, TypeInv, AskFits, Fits, CreateSteps, ConvertSteps
  <2>2. leads[l] \in LeadRow
    BY <1>5, <2>1 DEF ConvertCommit, TypeInv, TypeOK, TablesOK, ConvertedExists, ConvertSteps
  <2>3. PICK c \in Clients \cup {None}, u \in Units \cup {None} :
          leads' = [leads EXCEPT ![l] = [leads[l] EXCEPT !.status = "Completed",
                                                         !.client = c, !.unit = u]]
    <3>1. leads[l].client \in Clients \cup {None} /\ leads[l].unit \in Units \cup {None}
      BY <2>2 DEF LeadRow
    <3> DEFINE c == IF seen.client = None THEN ask[w].client ELSE leads[l].client
               u == IF seen.unit = None THEN ask[w].unit ELSE leads[l].unit
    <3>2. c \in Clients \cup {None} /\ u \in Units \cup {None}
      BY <2>1, <3>1
    <3>3. leads' = [leads EXCEPT ![l] = [leads[l] EXCEPT !.status = "Completed",
                                                         !.client = c, !.unit = u]]
      BY <1>5, <2>1, <2>2 DEF ConvertCommit, LeadRow, TypeInv, TypeOK, TablesOK
    <3> QED BY <3>2, <3>3
  <2>4. [leads[l] EXCEPT !.status = "Completed", !.client = c, !.unit = u] \in LeadRow
    BY <2>2 DEF LeadRow, BookingStatus
  <2>5. leads' \in [LeadIds -> LeadRow \cup {None}] /\ LeadsKept
    BY <2>1, <2>3, <2>4, NoneIsNoRow DEF TypeInv, TypeOK, TablesOK, LeadsKept
  <2>6. TablesOK'
    BY <1>5, <2>1, <2>5, AddBookingTyped
       DEF ConvertCommit, TypeInv, TypeOK, TablesOK, BookingStatus
  <2> QED BY <1>5, <2>5, <2>6, EndTyped DEF ConvertCommit
<1> QED BY <1>0, <1>1, <1>3, <1>4, <1>5 DEF ConvertLockUnit, tables

-----------------------------------------------------------------------------
(* AccountOps *)

LEMMA AccountTyped ==
  ASSUME TypeInv, NEW w \in Workers,
         \/ \E u \in Units, active \in {"active", "inactive"} : UnitEditRead(w, u, active)
         \/ UnitEditSave(w)
         \/ \E c \in Clients : ClientEditRead(w, c)
         \/ ClientEditSave(w)
  PROVE  TypeInv'
<1>1. ASSUME NEW u \in Units, NEW active \in {"active", "inactive"}, UnitEditRead(w, u, active)
      PROVE  TypeInv'
  <2> DEFINE args == [NoAsk EXCEPT !.unit = u, !.to = active]
  <2>1. /\ args \in Ask /\ Fits("unit_edit", args) /\ "unit_edit" \in Steps
        /\ "unit_edit" \notin ConvertSteps
    BY DEF NoAsk, Ask, Fits, CreateSteps, ConvertSteps, RangeSteps, LeadFieldSteps, Steps
  <2>2. LocksOK' /\ tracked' \in [Workers -> Tracker] /\ UNCHANGED tables
    BY <1>1 DEF UnitEditRead, locks, TypeInv, TypeOK, LocksOK, SessionOK
  <2> QED BY <1>1, <2>1, <2>2, BeginTyped DEF UnitEditRead
<1>2. CASE UnitEditSave(w)
  <2>1. ask[w].unit \in Units /\ ask[w].to \in {"active", "inactive"}
    BY <1>2 DEF UnitEditSave, TypeInv, AskFits, Fits
  <2>2. TablesOK' /\ LeadsKept
    BY <1>2, <2>1 DEF UnitEditSave, TypeInv, TypeOK, TablesOK, LeadsKept
  <2> QED BY <1>2, <2>2, EndTyped DEF UnitEditSave
<1>3. ASSUME NEW c \in Clients, ClientEditRead(w, c)
      PROVE  TypeInv'
  <2> DEFINE args == [NoAsk EXCEPT !.client = c]
  <2>1. /\ args \in Ask /\ Fits("client_edit", args) /\ "client_edit" \in Steps
        /\ "client_edit" \notin ConvertSteps
    BY DEF NoAsk, Ask, Fits, CreateSteps, ConvertSteps, RangeSteps, LeadFieldSteps, Steps
  <2>2. LocksOK' /\ tracked' \in [Workers -> Tracker] /\ UNCHANGED tables
    BY <1>3 DEF ClientEditRead, locks, TypeInv, TypeOK, LocksOK, SessionOK
  <2> QED BY <1>3, <2>1, <2>2, BeginTyped DEF ClientEditRead
<1>4. CASE ClientEditSave(w)
  <2>1. TablesOK' /\ LeadsKept
    BY <1>4 DEF ClientEditSave, TypeInv, TypeOK, TablesOK, LeadsKept
  <2> QED BY <1>4, <2>1, EndTyped DEF ClientEditSave
<1> QED BY <1>1, <1>2, <1>3, <1>4

-----------------------------------------------------------------------------
(* The theorem *)

LEMMA InitTyped == Init => TypeInv
<1> SUFFICES ASSUME Init PROVE TypeInv
  OBVIOUS
<1>1. TablesOK
  BY HorizonAssumption DEF Init, Quiet, TablesOK, Days
<1>2. LocksOK
  BY DEF Init, Quiet, LocksOK
<1>3. SessionOK
  BY NoAskTyped, UntrackedTyped DEF Init, Quiet, SessionOK, Steps
<1>4. AskFits
  BY IdleFits DEF Init, Quiet, AskFits
<1>5. ConvertedExists
  BY DEF Init, Quiet, ConvertedExists, ConvertSteps
<1> QED BY <1>1, <1>2, <1>3, <1>4, <1>5 DEF TypeInv, TypeOK

LEMMA RequestTyped ==
  ASSUME TypeInv, NEW w \in Workers, Request(w)
  PROVE  TypeInv'
BY CreateTyped, UpdateTyped, TransitionTyped, SweepTyped, AdminBlockTyped, OwnerBlockTyped,
   ResolveLockTyped, LeadReadTyped, ConvertTyped, AccountTyped
   DEF Request

LEMMA ProceedTyped ==
  ASSUME TypeInv, NEW w \in Workers, Proceed(w)
  PROVE  TypeInv'
BY QuickTyped, InsertTyped, UpdateTyped, TransitionTyped, SweepTyped, AdminBlockTyped,
   OwnerBlockTyped, ResolveTyped, LeadWriteTyped, ConvertTyped, AccountTyped
   DEF Proceed

LEMMA StepTyped == TypeInv /\ [Next]_vars => TypeInv'
<1> SUFFICES ASSUME TypeInv, [Next]_vars PROVE TypeInv'
  OBVIOUS
<1>1. ASSUME NEW w \in Workers, Request(w) \/ Proceed(w) \/ Abort(w)
      PROVE  TypeInv'
  BY <1>1, RequestTyped, ProceedTyped, AbortTyped
<1>2. CASE UNCHANGED vars
  BY <1>2 DEF vars, tables, locks, session, TypeInv, TypeOK, TablesOK, LocksOK, SessionOK,
              AskFits, ConvertedExists
<1> QED BY <1>1, <1>2, SurroundingsTyped DEF Next

\* No step removes a lead.
LEMMA LeadsStay ==
  ASSUME TypeInv, Next
  PROVE  LeadsKept
<1>1. UNCHANGED leads => LeadsKept
  BY DEF LeadsKept
<1>2. ASSUME NEW w \in Workers, Request(w)
      PROVE  UNCHANGED leads
  BY <1>2 DEF Request, tables, CreateCheck, QuickLock, UpdateRead, TransitionRead, SweepRead,
     AdminBlockCheck, AdminBlockEditRead, OwnerBlockLock, ResolveLock, WithdrawLock,
     LeadCreateCheck, LeadStatusRead, LeadEditRead, ConvertLockUnit, UnitEditRead, ClientEditRead
<1>3. ASSUME NEW w \in Workers, Proceed(w) \/ Abort(w)
      PROVE  LeadsKept
  <2>1. \/ UNCHANGED leads
        \/ LeadEditSave(w) \/ LeadStatusSave(w) \/ ResolveApprove(w)
        \/ \E l \in LeadIds : LeadInsert(w, l)
        \/ \E b \in BookingIds : ConvertCommit(w, b)
    BY <1>3 DEF Abort, Proceed, tables, QuickReturnDuplicate, QuickCheck, InsertBooking, UpdateSave,
       ApplyTransition, ConfirmLock, ConfirmCheck, ConfirmCommit, SweepCommit, InsertBlock,
       AdminBlockEditSave, OwnerBlockCheck, ResolveReadConflicts, ResolveReject, WithdrawCommit,
       ConvertLockLead, ConvertCheck, UnitEditSave, ClientEditSave
  <2> QED BY <1>1, <2>1, LeadWriteTyped, ResolveTyped, ConvertTyped
<1>4. Surroundings => UNCHANGED leads
  BY DEF Surroundings, NextDay, DuplicateWindowCloses, AdminBlockDelete, DeleteUnit, DeleteClient
<1> QED BY <1>1, <1>2, <1>3, <1>4 DEF Next

\* Every table, lock and session keeps the type of its columns, however the
\* requests interleave, fail and read stale rows: no save writes a malformed row.
THEOREM TypeCorrect == Spec => []TypeOK
<1>1. TypeInv => TypeOK
  BY DEF TypeInv
<1> QED BY <1>1, InitTyped, StepTyped, PTL DEF Spec

-----------------------------------------------------------------------------
(* The rows of bookings *)

Row(w, b) == tracked[w].bookings[b]

Snapshots ==
  \A w \in Workers : \A b \in TrackedBookings(w) :
    /\ bookings[b] # None
    /\ Row(w, b).unit = bookings[b].unit /\ Row(w, b).client = bookings[b].client
    /\ Row(w, b).origin = bookings[b].origin
    /\ Row(w, b).version <= bookings[b].version
    /\ Row(w, b).version = bookings[b].version =>
         Row(w, b).stay = bookings[b].stay /\ Row(w, b).status = bookings[b].status

ConfirmSteps == {"confirm", "confirm_locked", "confirm_checked"}

\* What a worker validated before the write that is next.
Plan(w) ==
  /\ pc[w] = "apply" => /\ ask[w].to # "Confirmed"
                        /\ \A b \in TrackedBookings(w) : IsValidTransition(Row(w, b).status, ask[w].to)
  /\ pc[w] \in ConfirmSteps =>
       /\ \A b \in TrackedBookings(w) :
            /\ Row(w, b).unit = ask[w].unit
            /\ IsValidTransition(Row(w, b).status, "Confirmed")
       /\ \A b, c \in TrackedBookings(w) : b = c
  /\ pc[w] = "sweep" => \A b \in TrackedBookings(w) : Row(w, b).status = "CheckIn"
  /\ pc[w] = "resolve_approve" => \A b \in TrackedBookings(w) : Row(w, b).status \in SoftHoldStatuses
  /\ pc[w] = "update" => \A b \in TrackedBookings(w) : Row(w, b).status \in EditableStatuses

Plans == \A w \in Workers : Plan(w)

RowInv == TypeInv /\ Snapshots /\ Plans

PlannedSteps == ConfirmSteps \cup {"apply", "sweep", "resolve_approve", "update"}

-----------------------------------------------------------------------------
(* Sessions: a step of worker w leaves the other sessions alone, and what  *)
(* it adds to its tracker it has just read.                                *)

Frame(w) ==
  \A v \in Workers \ {w} : pc'[v] = pc[v] /\ ask'[v] = ask[v] /\ tracked'[v] = tracked[v]

Tracks(w) ==
  \/ tracked'[w].bookings = tracked[w].bookings
  \/ \A b \in BookingIds : tracked'[w].bookings[b] = None
  \/ /\ bookings' = bookings
     /\ \A b \in BookingIds : tracked'[w].bookings[b] \in {bookings[b], None}

LEMMA FinishFrame ==
  ASSUME TypeInv, NEW w \in Workers, Finish(w)
  PROVE  Frame(w) /\ Tracks(w) /\ pc'[w] = "idle"
BY DEF TypeInv, TypeOK, SessionOK, Finish, Frame, Tracks, Untracked

LEMMA MoveFrame ==
  ASSUME TypeInv, NEW w \in Workers, NEW step, NEW args,
         pc' = [pc EXCEPT ![w] = step], ask' = [ask EXCEPT ![w] = args],
         \/ tracked' = tracked
         \/ \E x \in BlockIds : TrackBlock(w, x)
         \/ \E l \in LeadIds : TrackLead(w, l)
  PROVE  Frame(w) /\ Tracks(w) /\ pc'[w] = step /\ tracked'[w].bookings = tracked[w].bookings
BY DEF TypeInv, TypeOK, SessionOK, Tracker, Frame, Tracks, TrackBlock, TrackLead

LEMMA TrackFrame ==
  ASSUME TypeInv, NEW w \in Workers, NEW step, NEW args, NEW S \in SUBSET BookingIds,
         pc' = [pc EXCEPT ![w] = step], ask' = [ask EXCEPT ![w] = args],
         TrackBookings(w, S), bookings' = bookings
  PROVE  /\ Frame(w) /\ Tracks(w) /\ pc'[w] = step /\ ask'[w] = args
         /\ \A b \in TrackedBookings(w)' : b \in S /\ Row(w, b)' = bookings[b]
<1>1. /\ Frame(w) /\ pc'[w] = step /\ ask'[w] = args
      /\ tracked'[w].bookings = [b \in BookingIds |-> IF b \in S THEN bookings[b] ELSE None]
  BY DEF TypeInv, TypeOK, SessionOK, Tracker, Frame, TrackBookings
<1> QED BY <1>1 DEF Tracks, TrackedBookings, Row

-----------------------------------------------------------------------------
(* The reads that make a plan *)

LEMMA UpdateReadPlan ==
  ASSUME RowInv, NEW w \in Workers, NEW b \in BookingIds, NEW s \in Stays, UpdateRead(w, b, s)
  PROVE  Frame(w) /\ Tracks(w) /\ Plan(w)'
<1>1. /\ Frame(w) /\ Tracks(w) /\ pc'[w] = "update"
      /\ \A c \in TrackedBookings(w)' : c \in {b} /\ Row(w, c)' = bookings[c]
  BY TrackFrame, {b} \in SUBSET BookingIds DEF UpdateRead, Begin, tables, RowInv
<1> QED BY <1>1 DEF UpdateRead, Plan, ConfirmSteps

LEMMA TransitionReadPlan ==
  ASSUME RowInv, NEW w \in Workers, NEW b \in BookingIds, NEW to \in BookingStatus,
         TransitionRead(w, b, to)
  PROVE  Frame(w) /\ Tracks(w) /\ Plan(w)'
<1> DEFINE step == IF to = "Confirmed" THEN "confirm" ELSE "apply"
           args == [NoAsk EXCEPT !.unit = bookings[b].unit, !.to = to]
<1>1. /\ pc' = [pc EXCEPT ![w] = step] /\ ask' = [ask EXCEPT ![w] = args]
      /\ TrackBookings(w, {b}) /\ bookings' = bookings
      /\ IsValidTransition(bookings[b].status, to)
  BY DEF TransitionRead, Begin, tables
<1>2. args.unit = bookings[b].unit /\ args.to = to
  BY DEF NoAsk
<1> HIDE DEF args, step
<1>3. /\ Frame(w) /\ Tracks(w) /\ pc'[w] = step /\ ask'[w] = args
      /\ \A c \in TrackedBookings(w)' : c \in {b} /\ Row(w, c)' = bookings[c]
  BY <1>1, TrackFrame, {b} \in SUBSET BookingIds DEF RowInv
<1> QED BY <1>1, <1>2, <1>3 DEF step, Plan, ConfirmSteps

LEMMA SweepReadPlan ==
  ASSUME RowInv, NEW w \in Workers, SweepRead(w)
  PROVE  Frame(w) /\ Tracks(w) /\ Plan(w)'
<1>1. /\ Frame(w) /\ Tracks(w) /\ pc'[w] = "sweep"
      /\ \A b \in TrackedBookings(w)' : b \in Overdue /\ Row(w, b)' = bookings[b]
  <2>1. Overdue \in SUBSET BookingIds
    BY DEF Overdue, BookingRows
  <2> QED BY <2>1, TrackFrame DEF SweepRead, Begin, tables, RowInv
<1> QED BY <1>1 DEF Overdue, Plan, ConfirmSteps

LEMMA ConfirmLockPlan ==
  ASSUME RowInv, NEW w \in Workers, ConfirmLock(w)
  PROVE  Frame(w) /\ Tracks(w) /\ Plan(w)'
<1> DEFINE S == TrackedBookings(w)
<1>1. S \in SUBSET BookingIds
  BY DEF TrackedBookings
<1>2. /\ pc' = [pc EXCEPT ![w] = "confirm_locked"] /\ ask' = [ask EXCEPT ![w] = ask[w]]
      /\ TrackBookings(w, S) /\ bookings' = bookings
  BY DEF ConfirmLock, Advance, tables, RowInv, TypeInv, TypeOK, SessionOK
<1>3. /\ \A b \in S : IsValidTransition(bookings[b].status, "Confirmed")
      /\ \A b \in S : bookings[b].unit = ask[w].unit
      /\ \A b, c \in S : b = c
  <2>1. \A b \in S : Row(w, b).unit = bookings[b].unit
    BY DEF RowInv, Snapshots
  <2>2. pc[w] \in ConfirmSteps /\ Plan(w)
    BY DEF ConfirmLock, Advance, RowInv, Plans, ConfirmSteps
  <2> QED BY <2>1, <2>2 DEF ConfirmLock, Plan
<1> HIDE DEF S
<1>4. /\ Frame(w) /\ Tracks(w) /\ pc'[w] = "confirm_locked" /\ ask'[w] = ask[w]
      /\ \A b \in TrackedBookings(w)' : b \in S /\ Row(w, b)' = bookings[b]
  BY <1>1, <1>2, TrackFrame DEF RowInv
<1> QED BY <1>3, <1>4 DEF Plan, ConfirmSteps

LEMMA ConfirmCheckPlan ==
  ASSUME RowInv, NEW w \in Workers, ConfirmCheck(w)
  PROVE  Frame(w) /\ Tracks(w) /\ Plan(w)'
<1>1. ask' = [ask EXCEPT ![w] = ask[w]]
  BY DEF ConfirmCheck, RowInv, TypeInv, TypeOK, SessionOK
<1>2. Frame(w) /\ Tracks(w) /\ pc'[w] = "confirm_checked" /\ ask'[w] = ask[w] /\ tracked' = tracked
  BY <1>1, MoveFrame DEF ConfirmCheck, Advance, RowInv
<1> QED BY <1>2 DEF ConfirmCheck, Advance, RowInv, Plans, Plan, ConfirmSteps, Row, TrackedBookings

LEMMA ResolveReadPlan ==
  ASSUME RowInv, NEW w \in Workers, ResolveReadConflicts(w)
  PROVE  Frame(w) /\ Tracks(w) /\ Plan(w)'
<1>1. PICK x \in TrackedBlocks(w) :
        LET found == SoftConflicts(ask[w].unit, tracked[w].blocks[x].range)
        IN  tracked' = [tracked EXCEPT
              ![w].bookings = [b \in BookingIds |-> IF b \in found.bookings THEN bookings[b] ELSE None],
              ![w].leads = [l \in LeadIds |-> IF l \in found.leads THEN leads[l] ELSE None]]
  BY DEF ResolveReadConflicts
<1> DEFINE B == SoftConflicts(ask[w].unit, tracked[w].blocks[x].range).bookings
           L == SoftConflicts(ask[w].unit, tracked[w].blocks[x].range).leads
<1>2. \A b \in B : bookings[b].status \in SoftHoldStatuses
  BY DEF SoftConflicts, LiveBookingsIn, LiveOn
<1>3. tracked' = [tracked EXCEPT
        ![w].bookings = [b \in BookingIds |-> IF b \in B THEN bookings[b] ELSE None],
        ![w].leads = [l \in LeadIds |-> IF l \in L THEN leads[l] ELSE None]]
  BY <1>1
<1> HIDE DEF B, L
<1>4. /\ tracked'[w].bookings = [b \in BookingIds |-> IF b \in B THEN bookings[b] ELSE None]
      /\ \A v \in Workers \ {w} : tracked'[v] = tracked[v]
  BY <1>3 DEF RowInv, TypeInv, TypeOK, SessionOK, Tracker
<1>5. Frame(w) /\ pc'[w] = "resolve_approve"
  BY <1>4 DEF ResolveReadConflicts, Advance, RowInv, TypeInv, TypeOK, SessionOK, Frame
<1>6. Tracks(w)
  BY <1>4 DEF ResolveReadConflicts, tables, Tracks
<1> QED BY <1>2, <1>4, <1>5, <1>6 DEF Plan, ConfirmSteps, Row, TrackedBookings

\* Steps that plan no write of a booking.
LEMMA NoPlan ==
  ASSUME NEW w \in Workers, pc'[w] \notin PlannedSteps
  PROVE  Plan(w)'
BY DEF PlannedSteps, Plan, ConfirmSteps

LEMMA RequestPlan ==
  ASSUME RowInv, NEW w \in Workers, Request(w)
  PROVE  Frame(w) /\ Tracks(w) /\ Plan(w)'
<1>1. ASSUME NEW step \in Steps \ PlannedSteps, NEW args, Begin(w, step, args),
             \/ tracked' = tracked
             \/ \E x \in BlockIds : TrackBlock(w, x)
             \/ \E l \in LeadIds : TrackLead(w, l)
      PROVE  Frame(w) /\ Tracks(w) /\ Plan(w)'
  <2>1. Frame(w) /\ Tracks(w) /\ pc'[w] = step
    BY <1>1, MoveFrame DEF Begin, RowInv
  <2> QED BY <2>1, NoPlan
<1>2. {"insert", "quick", "block_insert", "block_edit", "owner_block", "resolve", "withdraw",
       "lead_insert", "lead_edit", "lead_status", "convert_unit", "unit_edit", "client_edit"}
        \subseteq Steps \ PlannedSteps
  BY DEF Steps, PlannedSteps, ConfirmSteps
<1>3. ASSUME NEW c \in Clients, NEW u \in Units, NEW s \in Stays,
             CreateCheck(w, c, u, s) \/ \E o \in {"quick", "storefront"} : QuickLock(w, c, u, s, o)
      PROVE  Frame(w) /\ Tracks(w) /\ Plan(w)'
  BY <1>1, <1>2, <1>3 DEF CreateCheck, QuickLock
<1>4. ASSUME NEW u \in Units, NEW k \in Ranges, AdminBlockCheck(w, u, k) \/ OwnerBlockLock(w, u, k)
      PROVE  Frame(w) /\ Tracks(w) /\ Plan(w)'
  BY <1>1, <1>2, <1>4 DEF AdminBlockCheck, OwnerBlockLock
<1>5. ASSUME NEW x \in BlockIds, NEW k \in Ranges, AdminBlockEditRead(w, x, k)
      PROVE  Frame(w) /\ Tracks(w) /\ Plan(w)'
  BY <1>1, <1>2, <1>5 DEF AdminBlockEditRead
<1>6. ASSUME NEW x \in BlockIds,
             WithdrawLock(w, x) \/ \E d \in {"Approved", "Rejected"} : ResolveLock(w, x, d)
      PROVE  Frame(w) /\ Tracks(w) /\ Plan(w)'
  BY <1>1, <1>2, <1>6 DEF WithdrawLock, ResolveLock
<1>7. ASSUME NEW u \in Units \cup {None}, NEW c \in Clients \cup {None}, NEW s \in Stays \cup {None},
             LeadCreateCheck(w, u, c, s) \/ \E l \in LeadIds : LeadEditRead(w, l, u, c, s)
      PROVE  Frame(w) /\ Tracks(w) /\ Plan(w)'
  BY <1>1, <1>2, <1>7 DEF LeadCreateCheck, LeadEditRead
<1>8. ASSUME NEW l \in LeadIds, NEW to \in BookingStatus, LeadStatusRead(w, l, to)
      PROVE  Frame(w) /\ Tracks(w) /\ Plan(w)'
  BY <1>1, <1>2, <1>8 DEF LeadStatusRead
<1>9. ASSUME NEW l \in LeadIds, NEW u \in Units, NEW c \in Clients, NEW s \in Stays,
             ConvertLockUnit(w, l, u, c, s)
      PROVE  Frame(w) /\ Tracks(w) /\ Plan(w)'
  BY <1>1, <1>2, <1>9 DEF ConvertLockUnit
<1>10. ASSUME \/ \E u \in Units, active \in {"active", "inactive"} : UnitEditRead(w, u, active)
              \/ \E c \in Clients : ClientEditRead(w, c)
       PROVE  Frame(w) /\ Tracks(w) /\ Plan(w)'
  BY <1>1, <1>2, <1>10 DEF UnitEditRead, ClientEditRead
<1> QED
  BY <1>3, <1>4, <1>5, <1>6, <1>7, <1>8, <1>9, <1>10, UpdateReadPlan, TransitionReadPlan,
     SweepReadPlan
     DEF Request

LEMMA ProceedPlan ==
  ASSUME RowInv, NEW w \in Workers, Proceed(w) \/ Abort(w)
  PROVE  Frame(w) /\ Tracks(w) /\ Plan(w)'
<1>1. CASE Finish(w)
  <2>1. Frame(w) /\ Tracks(w) /\ pc'[w] = "idle"
    BY <1>1, FinishFrame DEF RowInv
  <2> QED BY <2>1, NoPlan DEF PlannedSteps, ConfirmSteps
<1>2. ASSUME NEW from, NEW step \in Steps \ PlannedSteps, Advance(w, from, step), NEW args,
             ask' = [ask EXCEPT ![w] = args],
             tracked' = tracked \/ \E l \in LeadIds : TrackLead(w, l)
      PROVE  Frame(w) /\ Tracks(w) /\ Plan(w)'
  <2>1. Frame(w) /\ Tracks(w) /\ pc'[w] = step
    BY <1>2, MoveFrame DEF Advance, RowInv
  <2> QED BY <2>1, NoPlan
<1>3. {"insert", "block_insert", "convert_locked", "convert"} \subseteq Steps \ PlannedSteps
  BY DEF Steps, PlannedSteps, ConfirmSteps
<1>4. ask = [ask EXCEPT ![w] = ask[w]]
  BY DEF RowInv, TypeInv, TypeOK, SessionOK
<1>5. CASE QuickCheck(w)
  BY <1>2, <1>3, <1>4, <1>5 DEF QuickCheck
<1>6. CASE OwnerBlockCheck(w)
  <2>1. PICK args : ask' = [ask EXCEPT ![w] = args]
    BY <1>6 DEF OwnerBlockCheck
  <2> QED BY <1>2, <1>3, <1>6, <2>1 DEF OwnerBlockCheck
<1>7. CASE ConvertLockLead(w)
  <2>1. ask[w].origin \in LeadIds
    BY <1>7 DEF ConvertLockLead, Advance, RowInv, TypeInv, AskFits, Fits, ConvertSteps
  <2> QED BY <1>2, <1>3, <1>4, <1>7, <2>1 DEF ConvertLockLead
<1>8. CASE ConvertCheck(w)
  BY <1>2, <1>3, <1>4, <1>8 DEF ConvertCheck
<1>9. ASSUME \/ QuickReturnDuplicate(w) \/ UpdateSave(w) \/ ApplyTransition(w) \/ ConfirmCommit(w)
             \/ SweepCommit(w) \/ AdminBlockEditSave(w) \/ ResolveApprove(w) \/ ResolveReject(w)
             \/ WithdrawCommit(w) \/ LeadEditSave(w) \/ LeadStatusSave(w) \/ UnitEditSave(w)
             \/ ClientEditSave(w) \/ Abort(w)
             \/ \E b \in BookingIds : InsertBooking(w, b) \/ ConvertCommit(w, b)
             \/ \E x \in BlockIds : InsertBlock(w, x)
             \/ \E l \in LeadIds : LeadInsert(w, l)
      PROVE  Finish(w)
  BY <1>9 DEF QuickReturnDuplicate, UpdateSave, ApplyTransition, ConfirmCommit, SweepCommit,
     AdminBlockEditSave, ResolveApprove, ResolveReject, WithdrawCommit, LeadEditSave,
     LeadStatusSave, UnitEditSave, ClientEditSave, Abort, InsertBooking, ConvertCommit,
     InsertBlock, LeadInsert
<1> QED
  BY <1>1, <1>5, <1>6, <1>7, <1>8, <1>9, ConfirmLockPlan, ConfirmCheckPlan, ResolveReadPlan
     DEF Proceed

-----------------------------------------------------------------------------
(* The four ways a step changes a booking *)

Keeps(b) ==
  /\ bookings[b] # None /\ bookings'[b] # None
  /\ bookings'[b].unit = bookings[b].unit /\ bookings'[b].client = bookings[b].client
  /\ bookings'[b].origin = bookings[b].origin
  /\ bookings'[b].fresh => bookings[b].fresh

Absent(b) == bookings[b] = None /\ bookings'[b] = None /\ history'[b] = history[b]

Inserted(b) ==
  /\ bookings[b] = None /\ bookings'[b] # None
  /\ bookings'[b].status \in {"Prospecting", "Booked"}
  /\ history'[b] = <<[old |-> None, new |-> bookings'[b].status]>>

Untouched(b) ==
  /\ Keeps(b) /\ history'[b] = history[b]
  /\ bookings'[b].stay = bookings[b].stay /\ bookings'[b].status = bookings[b].status
  /\ bookings'[b].version = bookings[b].version

Edited(b) ==
  /\ Keeps(b) /\ history'[b] = history[b]
  /\ bookings'[b].status = bookings[b].status /\ bookings[b].status \in EditableStatuses
  /\ bookings'[b].version = bookings[b].version + 1

Moved(b) ==
  /\ Keeps(b)
  /\ bookings'[b].stay = bookings[b].stay
  /\ IsValidTransition(bookings[b].status, bookings'[b].status)
  /\ bookings'[b].version = bookings[b].version + 1
  /\ history'[b] = Append(history[b], [old |-> bookings[b].status, new |-> bookings'[b].status])
  /\ bookings'[b].status = "Confirmed" =>
       \E w \in Workers : pc[w] = "confirm_checked" /\ b \in TrackedBookings(w) /\ XminMatches(w)

RowChange(b) == Absent(b) \/ Inserted(b) \/ Untouched(b) \/ Edited(b) \/ Moved(b)

LEMMA Unwritten ==
  ASSUME RowInv, NEW b \in BookingIds, bookings'[b] = bookings[b], history'[b] = history[b]
  PROVE  RowChange(b)
BY DEF RowChange, Absent, Untouched, Keeps

LEMMA AddBookingChange ==
  ASSUME RowInv, NEW b \in BookingIds, NEW u \in Units, NEW c \in Clients, NEW s \in Stays,
         NEW status \in {"Prospecting", "Booked"}, NEW origin \in Origins,
         AddBooking(b, u, c, s, status, origin)
  PROVE  \A d \in BookingIds : RowChange(d)
<1> DEFINE row == [unit |-> u, client |-> c, stay |-> s, status |-> status, version |-> 1,
                   fresh |-> TRUE, origin |-> origin]
<1>1. row # None /\ row.status = status
  <2>1. row \in BookingRow
    BY DEF BookingRow, BookingStatus
  <2> QED BY <2>1, NoneIsNoRow
<1>2. /\ bookings[b] = None /\ bookings' = [bookings EXCEPT ![b] = row]
      /\ history' = [history EXCEPT ![b] = <<[old |-> None, new |-> status]>>]
  BY DEF AddBooking
<1> HIDE DEF row
<1>3. ASSUME NEW d \in BookingIds
      PROVE  RowChange(d)
  <2>1. CASE d = b
    BY <1>1, <1>2, <2>1 DEF RowInv, TypeInv, TypeOK, TablesOK, RowChange, Inserted
  <2>2. CASE d # b
    <3>1. bookings'[d] = bookings[d] /\ history'[d] = history[d]
      BY <1>2, <2>2 DEF RowInv, TypeInv, TypeOK, TablesOK
    <3> QED BY <3>1, Unwritten
  <2> QED BY <2>1, <2>2
<1> QED BY <1>3

\* A snapshot that passes the xmin comparison is the committed row.
LEMMA MatchedSnapshot ==
  ASSUME RowInv, NEW w \in Workers, XminMatches(w), NEW b \in TrackedBookings(w)
  PROVE  /\ b \in BookingIds /\ bookings[b] \in BookingRow /\ bookings[b] # None
         /\ Row(w, b) \in BookingRow
         /\ Row(w, b).unit = bookings[b].unit /\ Row(w, b).client = bookings[b].client
         /\ Row(w, b).origin = bookings[b].origin
         /\ Row(w, b).stay = bookings[b].stay /\ Row(w, b).status = bookings[b].status
<1>1. Row(w, b).version = bookings[b].version /\ bookings[b] # None
  BY DEF XminMatches, Row
<1>2. b \in BookingIds /\ Row(w, b) \in BookingRow
  BY TrackedTyped DEF RowInv, TypeInv, TypeOK, Row
<1> QED BY <1>1, <1>2 DEF RowInv, TypeInv, TypeOK, TablesOK, Snapshots

LEMMA SaveStatusChange ==
  ASSUME RowInv, NEW w \in Workers, NEW to \in BookingStatus, SaveStatus(w, to),
         \A b \in TrackedBookings(w) : IsValidTransition(Row(w, b).status, to),
         to = "Confirmed" => pc[w] = "confirm_checked"
  PROVE  \A b \in BookingIds : RowChange(b)
<1>1. XminMatches(w)
  BY DEF SaveStatus
<1>2. ASSUME NEW b \in TrackedBookings(w)
      PROVE  Moved(b)
  <2> DEFINE row == Row(w, b)  now == bookings[b]
             new == [row EXCEPT !.status = to, !.version = now.version + 1, !.fresh = now.fresh]
  <2>1. /\ b \in BookingIds /\ now \in BookingRow /\ now # None /\ row \in BookingRow
        /\ row.unit = now.unit /\ row.client = now.client /\ row.origin = now.origin
        /\ row.stay = now.stay /\ row.status = now.status
    BY <1>1, MatchedSnapshot
  <2>2. bookings'[b] = new
    BY <2>1 DEF SaveStatus, Row
  <2>3. history'[b] = Append(history[b], [old |-> now.status, new |-> to])
    BY <2>1 DEF SaveStatus, Row
  <2>4. new # None
    <3>1. now.version + 1 \in Nat /\ now.fresh \in BOOLEAN
      BY <2>1 DEF BookingRow
    <3> HIDE DEF row, now
    <3>2. new \in BookingRow
      BY <2>1, <3>1 DEF BookingRow
    <3> QED BY <3>2, NoneIsNoRow
  <2>5. /\ new.unit = now.unit /\ new.client = now.client /\ new.stay = now.stay
        /\ new.origin = now.origin /\ new.fresh = now.fresh
        /\ new.status = to /\ new.version = now.version + 1
    <3> HIDE DEF row, now
    <3> QED BY <2>1 DEF BookingRow
  <2>6. IsValidTransition(now.status, to)
    BY <2>1
  <2> HIDE DEF new, row
  <2> QED BY <1>1, <2>1, <2>2, <2>3, <2>4, <2>5, <2>6 DEF Moved, Keeps
<1>3. ASSUME NEW b \in BookingIds, b \notin TrackedBookings(w)
      PROVE  RowChange(b)
  <2>1. bookings'[b] = bookings[b] /\ history'[b] = history[b]
    BY <1>3 DEF SaveStatus
  <2> QED BY <2>1, Unwritten
<1> QED BY <1>2, <1>3 DEF RowChange

LEMMA UpdateSaveChange ==
  ASSUME RowInv, NEW w \in Workers, UpdateSave(w)
  PROVE  \A b \in BookingIds : RowChange(b)
<1>1. XminMatches(w) /\ history' = history
  BY DEF UpdateSave
<1>2. ASSUME NEW b \in TrackedBookings(w)
      PROVE  Edited(b)
  <2> DEFINE row == Row(w, b)  now == bookings[b]  s == ask[w].stay
             new == [row EXCEPT !.stay = s, !.version = now.version + 1, !.fresh = now.fresh]
  <2>1. /\ b \in BookingIds /\ now \in BookingRow /\ now # None /\ row \in BookingRow
        /\ row.unit = now.unit /\ row.client = now.client /\ row.status = now.status
        /\ row.origin = now.origin
    BY <1>1, MatchedSnapshot
  <2>2. bookings'[b] = new
    BY <2>1 DEF UpdateSave, Row
  <2>3. now.version + 1 \in Nat /\ now.fresh \in BOOLEAN /\ s \in Stays
    <3>1. s \in Stays
      BY DEF UpdateSave, RowInv, TypeInv, AskFits, Fits
    <3> QED BY <2>1, <3>1 DEF BookingRow
  <2>4. row.status \in EditableStatuses
    BY DEF UpdateSave, RowInv, Plans, Plan
  <2> HIDE DEF row, now, s
  <2>5. new # None
    <3>1. new \in BookingRow
      BY <2>1, <2>3 DEF BookingRow
    <3> QED BY <3>1, NoneIsNoRow
  <2>6. /\ new.unit = now.unit /\ new.client = now.client
        /\ new.origin = now.origin /\ new.fresh = now.fresh
        /\ new.status = now.status /\ new.version = now.version + 1
    BY <2>1 DEF BookingRow
  <2> HIDE DEF new
  <2> QED BY <1>1, <2>1, <2>2, <2>4, <2>5, <2>6 DEF Edited, Keeps, now
<1>3. ASSUME NEW b \in BookingIds, b \notin TrackedBookings(w)
      PROVE  RowChange(b)
  <2>1. bookings'[b] = bookings[b] /\ history'[b] = history[b]
    BY <1>1, <1>3 DEF UpdateSave
  <2> QED BY <2>1, Unwritten
<1> QED BY <1>2, <1>3 DEF RowChange

\* Each commit of a status writes the move its worker validated.
LEMMA CommitChange ==
  ASSUME RowInv, NEW w \in Workers,
         ApplyTransition(w) \/ ConfirmCommit(w) \/ SweepCommit(w) \/ ResolveApprove(w)
  PROVE  \A b \in BookingIds : RowChange(b)
<1>1. Plan(w)
  BY DEF RowInv, Plans
<1>2. CASE ApplyTransition(w)
  <2>1. ask[w].to \in BookingStatus
    BY <1>2 DEF ApplyTransition, RowInv, TypeInv, AskFits, Fits
  <2> QED BY <1>1, <1>2, <2>1, SaveStatusChange DEF ApplyTransition, Plan
<1>3. CASE ConfirmCommit(w)
  <2>1. \A b \in TrackedBookings(w) : IsValidTransition(Row(w, b).status, "Confirmed")
    BY <1>1, <1>3 DEF ConfirmCommit, Plan, ConfirmSteps
  <2> QED BY <1>3, <2>1, SaveStatusChange DEF ConfirmCommit, BookingStatus
<1>4. CASE SweepCommit(w)
  <2>1. \A b \in TrackedBookings(w) : IsValidTransition(Row(w, b).status, "Completed")
    BY <1>1, <1>4 DEF SweepCommit, Plan, IsValidTransition, AllowedTransitions, BookingStatus
  <2> QED BY <1>4, <2>1, SaveStatusChange DEF SweepCommit, BookingStatus
<1>5. CASE ResolveApprove(w)
  <2>1. \A b \in TrackedBookings(w) : IsValidTransition(Row(w, b).status, "NotRelevant")
    BY <1>1, <1>5 DEF ResolveApprove, Plan, SoftHoldStatuses, IsValidTransition,
                      AllowedTransitions, BookingStatus
  <2> QED BY <1>5, <2>1, SaveStatusChange DEF ResolveApprove, BookingStatus
<1> QED BY <1>2, <1>3, <1>4, <1>5

\* Every step changes a booking in one of these ways only.
LEMMA RowChanges ==
  ASSUME RowInv, Next
  PROVE  \A b \in BookingIds : RowChange(b)
<1>1. CASE UNCHANGED <<bookings, history>>
  BY <1>1, Unwritten
<1>2. ASSUME NEW w \in Workers, Request(w)
      PROVE  UNCHANGED <<bookings, history>>
  BY <1>2 DEF Request, tables, CreateCheck, QuickLock, UpdateRead, TransitionRead, SweepRead,
     AdminBlockCheck, AdminBlockEditRead, OwnerBlockLock, ResolveLock, WithdrawLock,
     LeadCreateCheck, LeadStatusRead, LeadEditRead, ConvertLockUnit, UnitEditRead, ClientEditRead
<1>3. ASSUME NEW w \in Workers, Abort(w)
      PROVE  UNCHANGED <<bookings, history>>
  BY <1>3 DEF Abort, tables
<1>4. ASSUME NEW w \in Workers, NEW b \in BookingIds, InsertBooking(w, b) \/ ConvertCommit(w, b)
      PROVE  \A d \in BookingIds : RowChange(d)
  <2>1. /\ ask[w].unit \in Units /\ ask[w].client \in Clients /\ ask[w].stay \in Stays
        /\ ask[w].origin \in Origins
    BY <1>4 DEF InsertBooking, ConvertCommit, RowInv, TypeInv, AskFits, Fits, CreateSteps
  <2> QED BY <1>4, <2>1, AddBookingChange DEF InsertBooking, ConvertCommit
<1>5. ASSUME NEW w \in Workers, Proceed(w)
      PROVE  \A b \in BookingIds : RowChange(b)
  <2>1. CASE \/ UpdateSave(w) \/ ApplyTransition(w) \/ ConfirmCommit(w) \/ SweepCommit(w)
             \/ ResolveApprove(w) \/ \E b \in BookingIds : InsertBooking(w, b) \/ ConvertCommit(w, b)
    BY <1>4, <2>1, UpdateSaveChange, CommitChange
  <2>2. CASE ~(\/ UpdateSave(w) \/ ApplyTransition(w) \/ ConfirmCommit(w) \/ SweepCommit(w)
               \/ ResolveApprove(w) \/ \E b \in BookingIds : InsertBooking(w, b) \/ ConvertCommit(w, b))
    <3>1. UNCHANGED <<bookings, history>>
      BY <1>5, <2>2 DEF Proceed, tables, QuickReturnDuplicate, QuickCheck, ConfirmLock,
         ConfirmCheck,
         InsertBlock, AdminBlockEditSave, OwnerBlockCheck, ResolveReadConflicts, ResolveReject,
         WithdrawCommit, LeadInsert, LeadEditSave, LeadStatusSave, ConvertLockLead, ConvertCheck,
         UnitEditSave, ClientEditSave
    <3> QED BY <1>1, <3>1
  <2> QED BY <2>1, <2>2
<1>6. ASSUME NEW b \in BookingIds, DuplicateWindowCloses(b)
      PROVE  \A d \in BookingIds : RowChange(d)
  <2> DEFINE new == [bookings[b] EXCEPT !.fresh = FALSE]
  <2>1. bookings[b] \in BookingRow /\ bookings[b] # None
    BY <1>6 DEF DuplicateWindowCloses, BookingRows, RowInv, TypeInv, TypeOK, TablesOK
  <2>2. new \in BookingRow
    BY <2>1 DEF BookingRow
  <2>3. /\ new # None /\ new.unit = bookings[b].unit /\ new.client = bookings[b].client
        /\ new.stay = bookings[b].stay /\ new.status = bookings[b].status
        /\ new.version = bookings[b].version /\ new.origin = bookings[b].origin /\ ~new.fresh
    BY <2>1, <2>2, NoneIsNoRow DEF BookingRow
  <2>4. bookings' = [bookings EXCEPT ![b] = new] /\ history' = history
    BY <1>6 DEF DuplicateWindowCloses
  <2> HIDE DEF new
  <2>5. ASSUME NEW d \in BookingIds
        PROVE  RowChange(d)
    <3>1. CASE d = b
      BY <2>1, <2>3, <2>4, <3>1
         DEF RowInv, TypeInv, TypeOK, TablesOK, RowChange, Untouched, Keeps
    <3>2. CASE d # b
      <4>1. bookings'[d] = bookings[d] /\ history'[d] = history[d]
        BY <2>4, <3>2 DEF RowInv, TypeInv, TypeOK, TablesOK
      <4> QED BY <4>1, Unwritten
    <3> QED BY <3>1, <3>2
  <2> QED BY <2>5
<1>7. CASE Surroundings
  <2>1. (\E b \in BookingIds : DuplicateWindowCloses(b)) \/ UNCHANGED <<bookings, history>>
    BY <1>7 DEF Surroundings, NextDay, AdminBlockDelete, DeleteUnit, DeleteClient
  <2> QED BY <1>1, <1>6, <2>1
<1> QED BY <1>1, <1>2, <1>3, <1>5, <1>7 DEF Next

-----------------------------------------------------------------------------
(* The invariant *)

\* One step moves one session: the others keep their plans, and every
\* tracker keeps what it has, drops it, or reads committed rows.
LEMMA SessionSteps ==
  ASSUME RowInv, Next
  PROVE  Plans' /\ \A w \in Workers : Tracks(w)
<1>1. ASSUME NEW w \in Workers, Request(w) \/ Proceed(w) \/ Abort(w)
      PROVE  Plans' /\ \A v \in Workers : Tracks(v)
  <2>1. Frame(w) /\ Tracks(w) /\ Plan(w)'
    BY <1>1, RequestPlan, ProceedPlan
  <2>2. ASSUME NEW v \in Workers, v # w
        PROVE  Plan(v)' /\ Tracks(v)
    <3>1. pc'[v] = pc[v] /\ ask'[v] = ask[v] /\ tracked'[v] = tracked[v]
      BY <2>1, <2>2 DEF Frame
    <3>2. Plan(v)'
      BY <3>1 DEF RowInv, Plans, Plan, Row, TrackedBookings
    <3> QED BY <3>1, <3>2 DEF Tracks
  <2> QED BY <2>1, <2>2 DEF Plans
<1>2. CASE Surroundings
  <2>1. UNCHANGED <<pc, ask, tracked>>
    BY <1>2 DEF Surroundings, NextDay, DuplicateWindowCloses, AdminBlockDelete, DeleteUnit,
       DeleteClient, session
  <2>2. Plans'
    BY <2>1 DEF RowInv, Plans, Plan, Row, TrackedBookings
  <2> QED BY <2>1, <2>2 DEF Tracks
<1> QED BY <1>1, <1>2 DEF Next

LEMMA SnapshotStep ==
  ASSUME RowInv, Next
  PROVE  Snapshots'
<1> SUFFICES ASSUME NEW w \in Workers, NEW b \in TrackedBookings(w)'
             PROVE  /\ bookings'[b] # None
                    /\ Row(w, b)'.unit = bookings'[b].unit /\ Row(w, b)'.client = bookings'[b].client
                    /\ Row(w, b)'.origin = bookings'[b].origin
                    /\ Row(w, b)'.version <= bookings'[b].version
                    /\ Row(w, b)'.version = bookings'[b].version =>
                         /\ Row(w, b)'.stay = bookings'[b].stay
                         /\ Row(w, b)'.status = bookings'[b].status
  BY DEF Snapshots
<1>1. b \in BookingIds /\ Row(w, b)' # None
  BY DEF TrackedBookings, Row
<1>2. bookings[b] # None => bookings[b].version \in Nat
  BY <1>1 DEF RowInv, TypeInv, TypeOK, TablesOK, BookingRow
<1>3. CASE bookings' = bookings /\ Row(w, b)' = bookings[b]
  BY <1>1, <1>2, <1>3
<1>4. CASE Row(w, b)' = Row(w, b)
  <2>1. b \in TrackedBookings(w)
    BY <1>1, <1>4 DEF TrackedBookings, Row
  <2>2. /\ bookings[b] # None
        /\ Row(w, b).unit = bookings[b].unit /\ Row(w, b).client = bookings[b].client
        /\ Row(w, b).origin = bookings[b].origin
        /\ Row(w, b).version <= bookings[b].version
        /\ Row(w, b).version = bookings[b].version =>
             Row(w, b).stay = bookings[b].stay /\ Row(w, b).status = bookings[b].status
    BY <2>1 DEF RowInv, Snapshots
  <2>3. Row(w, b).version \in Nat
    BY <2>1, TrackedTyped DEF RowInv, TypeInv, TypeOK, BookingRow, Row
  <2>4. Untouched(b) \/ Edited(b) \/ Moved(b)
    BY <1>1, <2>2, RowChanges DEF RowChange, Absent, Inserted
  <2>5. CASE Untouched(b)
    BY <1>4, <2>2, <2>5 DEF Untouched, Keeps
  <2>6. CASE Edited(b) \/ Moved(b)
    <3>1. Keeps(b) /\ bookings'[b].version = bookings[b].version + 1
      BY <2>6 DEF Edited, Moved
    <3> QED BY <1>2, <1>4, <2>2, <2>3, <3>1 DEF Keeps
  <2> QED BY <2>4, <2>5, <2>6
<1>5. Tracks(w)
  BY SessionSteps
<1> QED BY <1>1, <1>3, <1>4, <1>5 DEF Tracks, Row

LEMMA RowInvInit == Init => RowInv
BY InitTyped DEF Init, Quiet, RowInv, Snapshots, Plans, Plan, TrackedBookings, Untracked,
   ConfirmSteps

LEMMA RowInvStep == RowInv /\ [Next]_vars => RowInv'
<1> SUFFICES ASSUME RowInv, [Next]_vars PROVE RowInv'
  OBVIOUS
<1>1. TypeInv'
  BY StepTyped DEF RowInv
<1>2. CASE Next
  BY <1>1, <1>2, SnapshotStep, SessionSteps DEF RowInv
<1>3. CASE UNCHANGED vars
  BY <1>1, <1>3 DEF vars, tables, session, RowInv, Snapshots, Plans, Plan, Row, TrackedBookings
<1> QED BY <1>2, <1>3

\* The status of a booking moves along the transition table only, whatever
\* other requests did between its validation and its save.
THEOREM MovesAllowed == Spec => StatusMovesAllowed
<1>1. RowInv /\ [Next]_vars =>
        [\A b \in BookingRows : bookings'[b].status # bookings[b].status
           => IsValidTransition(bookings[b].status, bookings'[b].status)]_vars
  BY RowChanges DEF BookingRows, RowChange, Absent, Inserted, Untouched, Edited, Moved
<1> QED BY <1>1, RowInvInit, RowInvStep, PTL DEF Spec, StatusMovesAllowed

\* The dates of a booking past qualification never change.
THEOREM DatesFrozen == Spec => DatesFrozenOnceQualified
<1>1. RowInv /\ [Next]_vars =>
        [\A b \in BookingRows : bookings[b].status \notin EditableStatuses
           => bookings'[b].stay = bookings[b].stay]_vars
  BY RowChanges DEF BookingRows, RowChange, Absent, Inserted, Untouched, Edited, Moved
<1> QED BY <1>1, RowInvInit, RowInvStep, PTL DEF Spec, DatesFrozenOnceQualified

\* A chain stays one when a row that starts where it ends is appended.
LEMMA ChainAppend ==
  ASSUME NEW h \in Seq(HistoryRow), NEW from \in BookingStatus, NEW to \in BookingStatus,
         h # <<>>, h[1].old = None, h[Len(h)].new = from,
         \A i \in 2 .. Len(h) : h[i].old = h[i - 1].new
  PROVE  LET k == Append(h, [old |-> from, new |-> to])
         IN  /\ k # <<>> /\ k[1].old = None /\ k[Len(k)].new = to
             /\ \A i \in 2 .. Len(k) : k[i].old = k[i - 1].new
<1> DEFINE row == [old |-> from, new |-> to]
           k == Append(h, row)
<1>1. row \in HistoryRow /\ row.old = from /\ row.new = to
  BY DEF HistoryRow
<1> HIDE DEF row
<1>2. Len(h) \in Nat /\ Len(h) # 0
  OBVIOUS
<1>3. /\ Len(k) = Len(h) + 1 /\ k[Len(h) + 1] = row
      /\ \A i \in 1 .. Len(h) : k[i] = h[i]
  BY <1>1
<1> HIDE DEF k
<1>4. k # <<>> /\ k[1].old = None /\ k[Len(k)].new = to
  BY <1>1, <1>2, <1>3
<1>5. ASSUME NEW i \in 2 .. Len(k)
      PROVE  k[i].old = k[i - 1].new
  BY <1>1, <1>2, <1>3
<1> QED BY <1>4, <1>5 DEF k, row

LEMMA HistoryStep == RowInv /\ HistoryChain /\ [Next]_vars => HistoryChain'
<1> SUFFICES ASSUME RowInv, HistoryChain, Next PROVE HistoryChain'
  BY DEF HistoryChain, BookingRows, vars, tables
<1> SUFFICES ASSUME NEW b \in BookingIds, bookings'[b] # None
             PROVE  LET h == history'[b]
                    IN  /\ h # <<>> /\ h[1].old = None /\ h[Len(h)].new = bookings'[b].status
                        /\ \A i \in 2 .. Len(h) : h[i].old = h[i - 1].new
  BY DEF HistoryChain, BookingRows
<1>1. bookings[b] # None =>
        LET h == history[b]
        IN  /\ h # <<>> /\ h[1].old = None /\ h[Len(h)].new = bookings[b].status
            /\ \A i \in 2 .. Len(h) : h[i].old = h[i - 1].new
  BY DEF HistoryChain, BookingRows
<1>2. RowChange(b) /\ ~Absent(b)
  BY RowChanges DEF Absent
<1>3. CASE Inserted(b)
  <2>1. history'[b] = <<[old |-> None, new |-> bookings'[b].status]>>
    BY <1>3 DEF Inserted
  <2> QED BY <2>1
<1>4. CASE Untouched(b) \/ Edited(b)
  BY <1>1, <1>4 DEF Untouched, Edited, Keeps
<1>5. CASE Moved(b)
  <2>1. bookings[b] # None /\ bookings[b].status \in BookingStatus /\ history[b] \in Seq(HistoryRow)
    BY <1>5 DEF Moved, Keeps, RowInv, TypeInv, TypeOK, TablesOK, BookingRow
  <2>2. bookings'[b].status \in BookingStatus
    <3>1. TypeInv'
      BY StepTyped DEF RowInv
    <3> QED BY <3>1 DEF TypeInv, TypeOK, TablesOK, BookingRow
  <2>3. history'[b] = Append(history[b], [old |-> bookings[b].status, new |-> bookings'[b].status])
    BY <1>5 DEF Moved
  <2> QED BY <1>1, <2>1, <2>2, <2>3, ChainAppend
<1> QED BY <1>2, <1>3, <1>4, <1>5 DEF RowChange

\* The history of every booking is an unbroken chain from its creation to its
\* present status: no lost update leaves a row that never was true.
THEOREM HistoryUnbroken == Spec => []HistoryChain
<1>1. Init => HistoryChain
  BY DEF Init, HistoryChain, BookingRows
<1> QED BY <1>1, RowInvInit, RowInvStep, HistoryStep, PTL DEF Spec
=============================================================================
