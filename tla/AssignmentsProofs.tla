-------------------------- MODULE AssignmentsProofs --------------------------
(***************************************************************************)
(* A booking has one active assignment at most, and its column agrees with *)
(* it, for any bookings, leads, administrators and requests.               *)
(***************************************************************************)
EXTENDS Assignments, TLAPS

\* The rows a request is about to end are rows of its parent.
OwnRows(w) ==
  pc[w] = "save" =>
    \A x \in seen[w].active : assignments[x] # None /\ assignments[x].parent = ask[w].parent

\* While the token a request has read is the booking's, so is the rest of
\* what it has read.
Current(w) ==
  ask[w].parent \in Bookings =>
    LET b == ask[w].parent IN
    /\ seen[w].version <= parents[b].version
    /\ seen[w].version = parents[b].version =>
         /\ pc[w] = "save" => Active(b) \subseteq seen[w].active
         /\ pc[w] = "move" => ask[w].admin = parents[b].admin

Underway == \A w \in Workers : pc[w] # "idle" => OwnRows(w) /\ Current(w)

DeskInv == NoneIsNoRow /\ TypeOK /\ Underway /\ OneActiveAssignment /\ AssigneeInSync

-----------------------------------------------------------------------------
(* Types *)

LEMMA InitTypes == Init => TypeOK
  BY DEF Init, TypeOK, ParentRow, Steps, NoAsk, NothingSeen

LEMMA FinishTypes ==
  ASSUME TypeOK, NEW w \in Workers, Finish(w),
         parents' \in [Parents -> ParentRow],
         assignments' \in [AssignmentIds -> Assignment \cup {None}],
         synced' \in [Parents -> BOOLEAN]
  PROVE  TypeOK'
  BY DEF TypeOK, Finish, NoAsk, NothingSeen, Steps

LEMMA BeginTypes ==
  ASSUME TypeOK, NEW w \in Workers, NEW s \in Steps, NEW p \in Parents,
         NEW a \in Admins \cup {None}, Begin(w, s, p, a)
  PROVE  TypeOK'
  BY DEF TypeOK, Begin, Steps, ParentRow

LEMMA StoredTypes ==
  ASSUME TypeOK, NEW p \in Parents, NEW a \in Admins \cup {None}
  PROVE  /\ Stored(p, a) \in [Parents -> ParentRow]
         /\ \A q \in Parents : q # p => Stored(p, a)[q] = parents[q]
         /\ Stored(p, a)[p].admin = a
         /\ p \in Bookings => Stored(p, a)[p].version = parents[p].version + 1
  BY DEF TypeOK, ParentRow, Stored

LEMMA EndedTypes ==
  ASSUME NoneIsNoRow, TypeOK, NEW S \in SUBSET AssignmentIds
  PROVE  /\ Ended(S) \in [AssignmentIds -> Assignment \cup {None}]
         /\ \A x \in AssignmentIds : x \notin S => Ended(S)[x] = assignments[x]
         /\ \A x \in AssignmentIds :
              assignments[x] = None => Ended(S)[x] = None
         /\ \A x \in S : assignments[x] # None =>
              /\ Ended(S)[x] # None
              /\ Ended(S)[x].parent = assignments[x].parent
              /\ ~Ended(S)[x].active
  <1> DEFINE ended(x) == [assignments[x] EXCEPT !.active = FALSE]
  <1>1. ASSUME NEW x \in AssignmentIds, assignments[x] # None
        PROVE  /\ ended(x) \in Assignment /\ ended(x) # None
               /\ ended(x).parent = assignments[x].parent /\ ~ended(x).active
    <2>1. assignments[x] \in Assignment
      BY <1>1 DEF TypeOK
    <2>2. ended(x) \in Assignment
      BY <2>1 DEF Assignment
    <2> QED
      BY <2>1, <2>2 DEF NoneIsNoRow, Assignment
  <1>2. \A x \in AssignmentIds : Ended(S)[x] =
          IF x \in S /\ assignments[x] # None THEN ended(x) ELSE assignments[x]
    BY DEF Ended
  <1> HIDE DEF ended
  <1>3. Ended(S) \in [AssignmentIds -> Assignment \cup {None}]
    <2>1. \A x \in AssignmentIds : Ended(S)[x] \in Assignment \cup {None}
      BY <1>1, <1>2 DEF TypeOK
    <2>2. Ended(S) = [x \in AssignmentIds |-> Ended(S)[x]]
      BY DEF Ended
    <2> QED
      BY <2>1, <2>2
  <1> QED
    BY <1>1, <1>2, <1>3

\* What a step that is not a save changes: its own worker's session.
Reads(w) ==
  \/ Assign(w) \/ Clear(w) \/ Edit(w) \/ Move(w)
  \/ AlreadyAssigned(w) \/ FindOther(w) \/ Deactivate(w) \/ Abort(w)

LEMMA ReadTypes ==
  ASSUME TypeOK, NEW w \in Workers, Reads(w)
  PROVE  TypeOK'
  <1>1. CASE Assign(w)
    BY <1>1, BeginTypes DEF Assign, Steps
  <1>2. CASE Clear(w)
    BY <1>2, BeginTypes DEF Clear, Steps
  <1>3. CASE Edit(w)
    BY <1>3, BeginTypes DEF Edit, Steps
  <1>4. CASE Move(w)
    BY <1>4, BeginTypes DEF Move, Steps, TypeOK, ParentRow
  <1>5. CASE AlreadyAssigned(w) \/ Abort(w)
    BY <1>5, FinishTypes DEF AlreadyAssigned, Abort, TypeOK
  <1>6. CASE FindOther(w)
    BY <1>6 DEF FindOther, TypeOK, Steps
  <1>7. CASE Deactivate(w)
    BY <1>7 DEF Deactivate, TypeOK, Steps, Active
  <1> QED
    BY <1>1, <1>2, <1>3, <1>4, <1>5, <1>6, <1>7 DEF Reads

LEMMA SaveTypes ==
  ASSUME NoneIsNoRow, TypeOK, NEW w \in Workers,
         (\E x \in AssignmentIds : AssignSave(w, x)) \/ ClearSave(w)
           \/ EditSave(w) \/ MoveSave(w)
  PROVE  TypeOK'
  <1> DEFINE p == ask[w].parent
  <1>1. p \in Parents /\ ask[w].admin \in Admins \cup {None}
        /\ seen[w].active \in SUBSET AssignmentIds
    BY DEF TypeOK, AssignSave, ClearSave, EditSave, MoveSave
  <1>2. CASE \E x \in AssignmentIds : AssignSave(w, x)
    <2>1. PICK x \in AssignmentIds : AssignSave(w, x)
      BY <1>2
    <2>2. [parent |-> p, admin |-> ask[w].admin, active |-> TRUE] \in Assignment
      BY <1>1, <2>1 DEF AssignSave, Assignment
    <2>3. assignments' \in [AssignmentIds -> Assignment \cup {None}]
      BY <1>1, <2>1, <2>2, EndedTypes DEF AssignSave
    <2> QED
      BY <1>1, <2>1, <2>3, StoredTypes, FinishTypes DEF AssignSave, TypeOK
  <1>3. CASE ClearSave(w)
    BY <1>1, <1>3, StoredTypes, EndedTypes, FinishTypes DEF ClearSave, TypeOK
  <1>4. CASE EditSave(w)
    BY <1>1, <1>4, StoredTypes, FinishTypes DEF EditSave, TypeOK
  <1>5. CASE MoveSave(w)
    BY <1>1, <1>5, StoredTypes, FinishTypes DEF MoveSave, TypeOK
  <1> QED
    BY <1>2, <1>3, <1>4, <1>5

-----------------------------------------------------------------------------
(* The steps before a save *)

LEMMA ReadKeeps ==
  ASSUME DeskInv, NEW w \in Workers, Reads(w)
  PROVE  DeskInv'
  <1> USE DEF DeskInv
  <1>1. UNCHANGED <<parents, assignments, synced>>
    BY DEF Reads, Assign, Clear, Edit, Move, Begin, AlreadyAssigned, FindOther,
           Deactivate, Abort
  <1>2. OneActiveAssignment' /\ AssigneeInSync'
    BY <1>1 DEF OneActiveAssignment, AssigneeInSync, Active
  <1>3. \A v \in Workers \ {w} : pc'[v] = pc[v] /\ ask'[v] = ask[v] /\ seen'[v] = seen[v]
    BY DEF Reads, Assign, Clear, Edit, Move, Begin, AlreadyAssigned, FindOther,
           Deactivate, Abort, Finish, TypeOK
  <1>4. \A v \in Workers \ {w} : pc'[v] # "idle" => OwnRows(v)' /\ Current(v)'
    BY <1>1, <1>3 DEF Underway, OwnRows, Current, Active
  <1>5. ASSUME pc'[w] # "idle"
        PROVE  OwnRows(w)' /\ Current(w)'
    <2>1. ASSUME NEW s \in Steps, NEW p \in Parents, NEW a \in Admins \cup {None},
                 Begin(w, s, p, a), s # "save", s = "move" => a = parents[p].admin
          PROVE  OwnRows(w)' /\ Current(w)'
      BY <2>1 DEF Begin, OwnRows, Current, TypeOK, ParentRow
    <2>2. CASE Assign(w) \/ Clear(w) \/ Edit(w)
      BY <2>1, <2>2 DEF Assign, Clear, Edit, Steps
    <2>3. CASE Move(w)
      BY <2>1, <2>3 DEF Move, Steps, TypeOK, ParentRow
    <2>4. CASE FindOther(w)
      BY <1>1, <2>4 DEF FindOther, OwnRows, Current, Underway, TypeOK
    <2>5. CASE Deactivate(w)
      BY <1>1, <2>5 DEF Deactivate, OwnRows, Current, Underway, TypeOK, Active
    <2>6. CASE AlreadyAssigned(w) \/ Abort(w)
      BY <1>5, <2>6 DEF AlreadyAssigned, Abort, Finish, TypeOK
    <2> QED
      BY <2>2, <2>3, <2>4, <2>5, <2>6 DEF Reads
  <1>6. Underway'
    BY <1>4, <1>5 DEF Underway
  <1> QED
    BY <1>2, <1>6, ReadTypes

-----------------------------------------------------------------------------
(* The saves *)

\* A save of worker w for parent p leaves the rows of other parents alone.
Elsewhere(p) ==
  /\ \A x \in AssignmentIds : assignments[x] # None =>
       assignments'[x] # None /\ assignments'[x].parent = assignments[x].parent
  /\ \A q \in Bookings : q # p =>
       Active(q)' = Active(q) /\ parents'[q] = parents[q] /\ synced'[q] = synced[q]

\* The requests under way either are for another parent, or hold a token
\* that is now behind.
LEMMA OthersBehind ==
  ASSUME DeskInv, NEW w \in Workers, pc[w] # "idle", Finish(w), Elsewhere(ask[w].parent),
         NEW a \in Admins \cup {None}, parents' = Stored(ask[w].parent, a)
  PROVE  Underway'
  <1> USE DEF DeskInv
  <1> DEFINE p == ask[w].parent
  <1>1. p \in Parents
    BY DEF TypeOK
  <1>2. SUFFICES ASSUME NEW v \in Workers, pc'[v] # "idle"
                 PROVE  OwnRows(v)' /\ Current(v)'
    BY DEF Underway
  <1>3. /\ v # w /\ pc'[v] = pc[v] /\ ask'[v] = ask[v] /\ seen'[v] = seen[v]
        /\ OwnRows(v) /\ Current(v)
        /\ ask[v].parent \in Parents
        /\ seen[v].active \subseteq AssignmentIds /\ seen[v].version \in Nat
    BY <1>2 DEF Finish, Underway, TypeOK
  <1>4. OwnRows(v)'
    BY <1>3 DEF OwnRows, Elsewhere
  <1>5. Current(v)'
    <2>1. CASE ask[v].parent # p
      BY <1>3, <2>1 DEF Current, Elsewhere
    <2>2. CASE ask[v].parent = p /\ p \in Bookings
      <3>1. parents'[p].version = parents[p].version + 1 /\ parents[p].version \in Nat
        BY <1>1, <2>2, StoredTypes DEF TypeOK, ParentRow
      <3>2. seen[v].version <= parents[p].version
        BY <1>3, <2>2 DEF Current
      <3> QED
        BY <1>3, <2>2, <3>1, <3>2 DEF Current
    <2> QED
      BY <1>3, <2>1, <2>2 DEF Current
  <1> QED
    BY <1>4, <1>5

\* Parents other than p keep both invariants, so p is what is left to show.
LEMMA OneParent ==
  ASSUME DeskInv, NEW p \in Parents, Elsewhere(p),
         p \in Bookings =>
           /\ \A x, y \in Active(p)' : x = y
           /\ synced'[p] =>
                \/ parents'[p].admin = None /\ Active(p)' = {}
                \/ \E x \in Active(p)' : assignments'[x].admin = parents'[p].admin,
         \A q \in Bookings : q # p =>
           \A x \in Active(q) : assignments'[x].admin = assignments[x].admin
  PROVE  OneActiveAssignment' /\ AssigneeInSync'
  <1>1. OneActiveAssignment'
    BY DEF DeskInv, OneActiveAssignment, Elsewhere
  <1>2. AssigneeInSync'
    <2>1. SUFFICES ASSUME NEW b \in Bookings, synced'[b]
                   PROVE  \/ parents'[b].admin = None /\ Active(b)' = {}
                          \/ \E x \in Active(b)' : assignments'[x].admin = parents'[b].admin
      BY DEF AssigneeInSync
    <2>2. CASE b # p
      BY <2>1, <2>2 DEF DeskInv, AssigneeInSync, Elsewhere
    <2> QED
      BY <2>1, <2>2
  <1> QED
    BY <1>1, <1>2

\* Ending the rows a request has read.
LEMMA EndedRows ==
  ASSUME DeskInv, NEW w \in Workers, pc[w] = "save", TokenMatches(w),
         NEW x \in AssignmentIds
  PROVE  LET ended == Ended(seen[w].active) IN
         /\ assignments[x] # None =>
              /\ ended[x] # None /\ ended[x].parent = assignments[x].parent
              /\ ended[x].admin = assignments[x].admin
              /\ ended[x].active => assignments[x].active
         /\ assignments[x] # None /\ assignments[x].parent # ask[w].parent =>
              ended[x] = assignments[x]
         /\ ask[w].parent \in Bookings /\ assignments[x] # None
              /\ assignments[x].parent = ask[w].parent => ~ended[x].active
         /\ assignments[x] = None => ended[x] = None
  <1> USE DEF DeskInv
  <1> DEFINE S == seen[w].active
  <1>1. S \in SUBSET AssignmentIds /\ ask[w].parent \in Parents
    BY DEF TypeOK
  <1>2. OwnRows(w) /\ Current(w)
    BY DEF Underway
  <1>3. assignments[x] # None /\ assignments[x].parent # ask[w].parent => x \notin S
    BY <1>2 DEF OwnRows
  <1>4. ask[w].parent \in Bookings => Active(ask[w].parent) \subseteq S
    BY <1>2 DEF Current, TokenMatches
  <1>5. assignments[x] # None => assignments[x] \in Assignment
    BY DEF TypeOK
  <1>6. assignments[x] # None =>
          Ended(S)[x] # None /\ Ended(S)[x].admin = assignments[x].admin
    BY <1>1, <1>5, EndedTypes DEF Ended, Assignment
  <1>7. ask[w].parent \in Bookings /\ assignments[x] # None
          /\ assignments[x].parent = ask[w].parent /\ x \notin S => ~assignments[x].active
    BY <1>4 DEF Active
  <1> QED
    BY <1>1, <1>3, <1>6, <1>7, EndedTypes

LEMMA AssignSaveKeeps ==
  ASSUME DeskInv, NEW w \in Workers, NEW x \in AssignmentIds, AssignSave(w, x)
  PROVE  DeskInv'
  <1> USE DEF DeskInv
  <1>p. PICK p \in Parents : p = ask[w].parent
    BY DEF AssignSave, TypeOK
  <1> DEFINE new == [parent |-> p, admin |-> ask[w].admin, active |-> TRUE]
  <1>0. ask[w].admin \in Admins
    BY DEF AssignSave, TypeOK
  <1>1. /\ pc[w] = "save" /\ TokenMatches(w) /\ assignments[x] = None /\ Finish(w)
        /\ new \in Assignment /\ new # None
    <2>1. new \in Assignment
      BY <1>0 DEF Assignment
    <2> QED
      BY <2>1 DEF NoneIsNoRow, AssignSave
  <1>2. /\ assignments'[x] = new
        /\ \A y \in AssignmentIds : y # x =>
             assignments'[y] = Ended(seen[w].active)[y]
    BY <1>p, <1>1, EndedTypes DEF AssignSave, TypeOK
  <1>3. /\ parents'[p].admin = ask[w].admin
        /\ \A q \in Parents : q # p => parents'[q] = parents[q] /\ synced'[q] = synced[q]
    BY <1>p, <1>0, <1>1, StoredTypes DEF AssignSave, TypeOK
  <1>4. \A q \in Bookings : q # p => Active(q)' = Active(q)
    <2>1. ASSUME NEW q \in Bookings, q # p, NEW y \in AssignmentIds
          PROVE  y \in Active(q)' <=> y \in Active(q)
      <3>1. CASE y = x
        BY <1>1, <1>2, <2>1, <3>1 DEF Active
      <3>2. CASE y # x /\ assignments[y] = None
        BY <1>1, <1>2, <3>2, EndedRows DEF Active
      <3>3. CASE y # x /\ assignments[y] # None /\ assignments[y].parent = p
        BY <1>p, <1>1, <1>2, <2>1, <3>3, EndedRows DEF Active
      <3>4. CASE y # x /\ assignments[y] # None /\ assignments[y].parent # p
        BY <1>p, <1>1, <1>2, <3>4, EndedRows DEF Active
      <3> QED
        BY <3>1, <3>2, <3>3, <3>4
    <2> QED
      BY <2>1 DEF Active
  <1>5. \A y \in AssignmentIds : assignments[y] # None =>
          /\ assignments'[y] # None /\ assignments'[y].parent = assignments[y].parent
          /\ assignments'[y].admin = assignments[y].admin
    BY <1>1, <1>2, EndedRows
  <1>6. Elsewhere(p)
    BY <1>3, <1>4, <1>5 DEF Elsewhere, Parents
  <1>7. p \in Bookings => Active(p)' = {x}
    <2> SUFFICES ASSUME p \in Bookings  PROVE Active(p)' = {x}
      OBVIOUS
    <2>1. x \in Active(p)'
      BY <1>1, <1>2 DEF Active
    <2>2. ASSUME NEW y \in AssignmentIds, y # x
          PROVE  y \notin Active(p)'
      BY <1>p, <1>1, <1>2, <2>2, EndedRows DEF Active
    <2> QED
      BY <2>1, <2>2 DEF Active
  <1>8. OneActiveAssignment' /\ AssigneeInSync'
    <2>1. assignments'[x].admin = parents'[p].admin
      BY <1>2, <1>3
    <2>2. \A q \in Bookings : \A y \in Active(q) :
            assignments'[y].admin = assignments[y].admin
      BY <1>5 DEF Active
    <2>3. p \in Bookings => \E y \in Active(p)' : assignments'[y].admin = parents'[p].admin
      BY <1>7, <2>1
    <2>4. p \in Bookings => \A y, z \in Active(p)' : y = z
      BY <1>7
    <2> QED
      BY <1>1, <1>6, <2>2, <2>3, <2>4, OneParent
  <1>9. Underway'
    BY <1>p, <1>0, <1>1, <1>6, OthersBehind DEF AssignSave
  <1> QED
    BY <1>8, <1>9, SaveTypes

LEMMA ClearSaveKeeps ==
  ASSUME DeskInv, NEW w \in Workers, ClearSave(w)
  PROVE  DeskInv'
  <1> USE DEF DeskInv
  <1>p. PICK p \in Parents : p = ask[w].parent
    BY DEF ClearSave, TypeOK
  <1>1. pc[w] = "save" /\ TokenMatches(w) /\ Finish(w)
    BY DEF ClearSave
  <1>2. \A y \in AssignmentIds : assignments'[y] = Ended(seen[w].active)[y]
    BY DEF ClearSave
  <1>3. /\ parents'[p].admin = None
        /\ \A q \in Parents : q # p => parents'[q] = parents[q] /\ synced'[q] = synced[q]
    BY <1>p, StoredTypes DEF ClearSave, TypeOK
  <1>4. \A q \in Bookings : q # p => Active(q)' = Active(q)
    <2>1. ASSUME NEW q \in Bookings, q # p, NEW y \in AssignmentIds
          PROVE  y \in Active(q)' <=> y \in Active(q)
      <3>1. CASE assignments[y] = None
        BY <1>1, <1>2, <3>1, EndedRows DEF Active
      <3>2. CASE assignments[y] # None /\ assignments[y].parent = p
        BY <1>p, <1>1, <1>2, <2>1, <3>2, EndedRows DEF Active
      <3>3. CASE assignments[y] # None /\ assignments[y].parent # p
        BY <1>p, <1>1, <1>2, <3>3, EndedRows DEF Active
      <3> QED
        BY <3>1, <3>2, <3>3
    <2> QED
      BY <2>1 DEF Active
  <1>5. \A y \in AssignmentIds : assignments[y] # None =>
          /\ assignments'[y] # None /\ assignments'[y].parent = assignments[y].parent
          /\ assignments'[y].admin = assignments[y].admin
    BY <1>1, <1>2, EndedRows
  <1>6. Elsewhere(p)
    BY <1>3, <1>4, <1>5 DEF Elsewhere, Parents
  <1>7. p \in Bookings => Active(p)' = {}
    BY <1>p, <1>1, <1>2, EndedRows DEF Active
  <1>8. OneActiveAssignment' /\ AssigneeInSync'
    <2>1. \A q \in Bookings : \A y \in Active(q) :
            assignments'[y].admin = assignments[y].admin
      BY <1>5 DEF Active
    <2> QED
      BY <1>3, <1>6, <1>7, <2>1, OneParent
  <1>9. Underway'
    BY <1>p, <1>1, <1>6, OthersBehind DEF ClearSave
  <1> QED
    BY <1>8, <1>9, SaveTypes

LEMMA EditSaveKeeps ==
  ASSUME DeskInv, NEW w \in Workers, EditSave(w)
  PROVE  DeskInv'
  <1> USE DEF DeskInv
  <1>p. PICK p \in Parents : p = ask[w].parent
    BY DEF EditSave, TypeOK
  <1>1. pc[w] = "edit" /\ Finish(w) /\ UNCHANGED assignments
        /\ ask[w].admin \in Admins \cup {None}
    BY DEF EditSave, TypeOK
  <1>2. /\ ~synced'[p]
        /\ \A q \in Parents : q # p => parents'[q] = parents[q] /\ synced'[q] = synced[q]
    BY <1>p, <1>1, StoredTypes DEF EditSave, TypeOK
  <1>3. Elsewhere(p)
    BY <1>1, <1>2 DEF Elsewhere, Parents, Active
  <1>4. OneActiveAssignment' /\ AssigneeInSync'
    BY <1>1, <1>2, <1>3, OneParent DEF OneActiveAssignment, Active
  <1>5. Underway'
    BY <1>p, <1>1, <1>3, OthersBehind DEF EditSave
  <1> QED
    BY <1>4, <1>5, SaveTypes

LEMMA MoveSaveKeeps ==
  ASSUME DeskInv, NEW w \in Workers, MoveSave(w)
  PROVE  DeskInv'
  <1> USE DEF DeskInv
  <1>p. PICK p \in Parents : p = ask[w].parent
    BY DEF MoveSave, TypeOK
  <1>1. pc[w] = "move" /\ Finish(w) /\ TokenMatches(w) /\ UNCHANGED <<assignments, synced>>
        /\ ask[w].admin \in Admins \cup {None} /\ Current(w)
    BY DEF MoveSave, TypeOK, Underway
  <1>2. \A q \in Parents : q # p => parents'[q] = parents[q]
    BY <1>p, <1>1, StoredTypes DEF MoveSave
  <1>3. Elsewhere(p)
    BY <1>1, <1>2 DEF Elsewhere, Parents, Active
  <1>4. p \in Bookings => parents'[p].admin = parents[p].admin
    BY <1>p, <1>1, StoredTypes DEF MoveSave, TokenMatches, Current
  <1>5. OneActiveAssignment' /\ AssigneeInSync'
    BY <1>1, <1>2, <1>4 DEF OneActiveAssignment, AssigneeInSync, Active, Parents
  <1>6. Underway'
    BY <1>p, <1>1, <1>3, OthersBehind DEF MoveSave
  <1> QED
    BY <1>5, <1>6, SaveTypes

-----------------------------------------------------------------------------
LEMMA DeskInit == NoneIsNoRow /\ Init => DeskInv
  <1> SUFFICES ASSUME NoneIsNoRow, Init  PROVE DeskInv
    OBVIOUS
  <1>1. \A b \in Bookings : Active(b) = {}
    BY DEF Init, Active
  <1>2. OneActiveAssignment /\ AssigneeInSync
    BY <1>1 DEF Init, OneActiveAssignment, AssigneeInSync, Parents
  <1>3. Underway
    BY DEF Init, Underway
  <1> QED
    BY <1>2, <1>3, InitTypes DEF DeskInv

LEMMA DeskStep == DeskInv /\ [Next]_vars => DeskInv'
  <1> SUFFICES ASSUME DeskInv, [Next]_vars  PROVE DeskInv'
    OBVIOUS
  <1>1. CASE UNCHANGED vars
    BY <1>1 DEF vars, DeskInv, TypeOK, Underway, OwnRows, Current, Active,
                OneActiveAssignment, AssigneeInSync
  <1>2. ASSUME NEW w \in Workers, Step(w)
        PROVE  DeskInv'
    <2>1. CASE Reads(w)
      BY <2>1, ReadKeeps
    <2>2. CASE \E x \in AssignmentIds : AssignSave(w, x)
      BY <2>2, AssignSaveKeeps
    <2>3. CASE ClearSave(w)
      BY <2>3, ClearSaveKeeps
    <2>4. CASE EditSave(w)
      BY <2>4, EditSaveKeeps
    <2>5. CASE MoveSave(w)
      BY <2>5, MoveSaveKeeps
    <2> QED
      BY <1>2, <2>1, <2>2, <2>3, <2>4, <2>5 DEF Step, Reads
  <1> QED
    BY <1>1, <1>2 DEF Next

LEMMA DeskInvariant == NoneIsNoRow /\ Spec => []DeskInv
  BY DeskInit, DeskStep, PTL DEF Spec

\* Reassignments of one booking may overlap in any way, with each other and
\* with edits and status changes: one active assignment is left at most.
\* CrmAssignmentService.AssignBookingAsync takes no lock; the token that
\* saving the booking compares is enough.
THEOREM OneAssignee == NoneIsNoRow /\ Spec => []OneActiveAssignment
  BY DeskInvariant, PTL DEF DeskInv

\* The booking's column and its active assignment agree until an edit of the
\* booking overwrites the column, which UpdatePendingAsync does alone.
THEOREM AssigneeAgrees == NoneIsNoRow /\ Spec => []AssigneeInSync
  BY DeskInvariant, PTL DEF DeskInv
=============================================================================
