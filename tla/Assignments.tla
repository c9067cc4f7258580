----------------------------- MODULE Assignments -----------------------------
(***************************************************************************)
(* Who works on a booking or a lead (CrmAssignmentService).                *)
(*                                                                         *)
(* The answer is stored twice: as the active row of crm_assignments and in *)
(* the parent's assigned_admin_user_id.  The service reads the parent,     *)
(* then the active rows, and saves both in one SaveChangesAsync.  No lock  *)
(* is taken; a booking carries a token (xmin), a lead carries none.  The   *)
(* other services save parents too, with the column they were asked for    *)
(* (an edit) or as they read it (a status change).                         *)
(***************************************************************************)
EXTENDS Naturals

CONSTANTS
  Bookings, Leads,   \* the parents
  AssignmentIds,     \* primary keys a run may insert
  Admins,            \* administrators that may be assigned
  Workers,           \* requests in flight at once
  MaxSaves,          \* bound: no request for a booking saved so often
  None               \* SQL NULL, a missing row

VARIABLES
  parents,        \* the parents' column, and xmin
  assignments,    \* crm_assignments
  synced,         \* the assignment service was the last to set the column
  pc, ask, seen   \* per worker: next step, arguments, what was read

Parents == Bookings \cup Leads

ParentRow == [admin : Admins \cup {None}, version : Nat]
Assignment == [parent : Parents, admin : Admins, active : BOOLEAN]

\* What the theorems assume of the constants.
NoneIsNoRow == None \notin Assignment

vars == <<parents, assignments, synced, pc, ask, seen>>

Steps == {"idle", "find", "deactivate", "save", "edit", "move"}

NoAsk == [parent |-> None, admin |-> None]
NothingSeen == [version |-> 0, active |-> {}]

\* The active assignments of parent p.
Active(p) ==
  {x \in AssignmentIds :
     assignments[x] # None /\ assignments[x].parent = p /\ assignments[x].active}

TypeOK ==
  /\ parents \in [Parents -> ParentRow]
  /\ assignments \in [AssignmentIds -> Assignment \cup {None}]
  /\ synced \in [Parents -> BOOLEAN]
  /\ pc \in [Workers -> Steps]
  /\ ask \in [Workers -> [parent : Parents \cup {None}, admin : Admins \cup {None}]]
  /\ seen \in [Workers -> [version : Nat, active : SUBSET AssignmentIds]]
  /\ \A w \in Workers : pc[w] # "idle" => ask[w].parent \in Parents

\* The endpoints that create parents set the column and no assignment.
Init ==
  /\ parents \in [Parents -> [admin : Admins \cup {None}, version : {1}]]
  /\ assignments = [x \in AssignmentIds |-> None]
  /\ synced = [p \in Parents |-> parents[p].admin = None]
  /\ pc = [w \in Workers |-> "idle"]
  /\ ask = [w \in Workers |-> NoAsk]
  /\ seen = [w \in Workers |-> NothingSeen]

-----------------------------------------------------------------------------
\* A request reads its parent first.
Begin(w, step, p, a) ==
  /\ pc[w] = "idle"
  /\ parents[p].version < MaxSaves
  /\ pc' = [pc EXCEPT ![w] = step]
  /\ ask' = [ask EXCEPT ![w] = [parent |-> p, admin |-> a]]
  /\ seen' = [seen EXCEPT ![w].version = parents[p].version]
  /\ UNCHANGED <<parents, assignments, synced>>

Finish(w) ==
  /\ pc' = [pc EXCEPT ![w] = "idle"]
  /\ ask' = [ask EXCEPT ![w] = NoAsk]
  /\ seen' = [seen EXCEPT ![w] = NothingSeen]

\* A refused request, a conflict of the token, a lost connection.
Abort(w) ==
  /\ pc[w] # "idle"
  /\ Finish(w)
  /\ UNCHANGED <<parents, assignments, synced>>

Assign(w) == \E p \in Parents, a \in Admins : Begin(w, "find", p, a)
Clear(w)  == \E p \in Parents : Begin(w, "deactivate", p, None)

\* FirstOrDefaultAsync over the active rows, in no order.
AlreadyAssigned(w) ==
  /\ pc[w] = "find"
  /\ \E x \in Active(ask[w].parent) : assignments[x].admin = ask[w].admin
  /\ Finish(w)
  /\ UNCHANGED <<parents, assignments, synced>>

FindOther(w) ==
  /\ pc[w] = "find"
  /\ \/ Active(ask[w].parent) = {}
     \/ \E x \in Active(ask[w].parent) : assignments[x].admin # ask[w].admin
  /\ pc' = [pc EXCEPT ![w] = "deactivate"]
  /\ UNCHANGED <<parents, assignments, synced, ask, seen>>

Deactivate(w) ==
  /\ pc[w] = "deactivate"
  /\ seen' = [seen EXCEPT ![w].active = Active(ask[w].parent)]
  /\ pc' = [pc EXCEPT ![w] = "save"]
  /\ UNCHANGED <<parents, assignments, synced, ask>>

\* Mutant: bookings carry no token.
TokenIgnored(w) == TRUE

\* UPDATE bookings ... WHERE xmin = <the one read> finds the row.
TokenMatches(w) ==
  ask[w].parent \in Bookings => parents[ask[w].parent].version = seen[w].version

Stored(p, a) ==
  [parents EXCEPT ![p] =
     [admin |-> a, version |-> IF p \in Bookings THEN @.version + 1 ELSE @.version]]

\* The rows read as active are written back inactive.
Ended(S) ==
  [x \in AssignmentIds |->
     IF x \in S /\ assignments[x] # None
     THEN [assignments[x] EXCEPT !.active = FALSE] ELSE assignments[x]]

AssignSave(w, x) ==
  LET p == ask[w].parent IN
  /\ pc[w] = "save" /\ ask[w].admin # None
  /\ TokenMatches(w)
  /\ assignments[x] = None
  /\ assignments' = [Ended(seen[w].active) EXCEPT ![x] =
                       [parent |-> p, admin |-> ask[w].admin, active |-> TRUE]]
  /\ parents' = Stored(p, ask[w].admin)
  /\ synced' = [synced EXCEPT ![p] = TRUE]
  /\ Finish(w)

\* Mutant: the column is left as it is.
ClearSaveRowsOnly(w) ==
  LET p == ask[w].parent IN
  /\ pc[w] = "save" /\ ask[w].admin = None
  /\ TokenMatches(w)
  /\ assignments' = Ended(seen[w].active)
  /\ parents' = Stored(p, parents[p].admin)
  /\ synced' = [synced EXCEPT ![p] = TRUE]
  /\ Finish(w)

ClearSave(w) ==
  LET p == ask[w].parent IN
  /\ pc[w] = "save" /\ ask[w].admin = None
  /\ TokenMatches(w)
  /\ assignments' = Ended(seen[w].active)
  /\ parents' = Stored(p, None)
  /\ synced' = [synced EXCEPT ![p] = TRUE]
  /\ Finish(w)

-----------------------------------------------------------------------------
(* The other services *)

Edit(w) == \E p \in Parents, a \in Admins \cup {None} : Begin(w, "edit", p, a)
Move(w) == \E p \in Parents : Begin(w, "move", p, parents[p].admin)

EditSave(w) ==
  /\ pc[w] = "edit"
  /\ TokenMatches(w)
  /\ parents' = Stored(ask[w].parent, ask[w].admin)
  /\ synced' = [synced EXCEPT ![ask[w].parent] = FALSE]
  /\ Finish(w)
  /\ UNCHANGED assignments

\* Update(parent) marks every column modified.
MoveSave(w) ==
  /\ pc[w] = "move"
  /\ TokenMatches(w)
  /\ parents' = Stored(ask[w].parent, ask[w].admin)
  /\ Finish(w)
  /\ UNCHANGED <<assignments, synced>>

-----------------------------------------------------------------------------
Step(w) ==
  \/ Assign(w) \/ Clear(w) \/ Edit(w) \/ Move(w)
  \/ AlreadyAssigned(w) \/ FindOther(w) \/ Deactivate(w)
  \/ \E x \in AssignmentIds : AssignSave(w, x)
  \/ ClearSave(w) \/ EditSave(w) \/ MoveSave(w)
  \/ Abort(w)

Next == \E w \in Workers : Step(w)

Spec == Init /\ [][Next]_vars

-----------------------------------------------------------------------------
\* However requests for it overlap, a booking has one active assignment at
\* most: the service takes no lock, the booking's token is all that stands
\* between two reassignments that read the same active row.
OneActiveAssignment ==
  \A b \in Bookings : \A x, y \in Active(b) : x = y

\* A booking's column names the administrator of its active assignment, and
\* nobody when there is none, as long as no edit has overwritten the column
\* since the service last set it ("Synchronize parent snapshot field").
AssigneeInSync ==
  \A b \in Bookings : synced[b] =>
    \/ parents[b].admin = None /\ Active(b) = {}
    \/ \E x \in Active(b) : assignments[x].admin = parents[b].admin
=============================================================================
