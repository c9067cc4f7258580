\* A stale client edit undoes the client's deletion.
CONSTANTS
  Units = {u1}
  Clients = {c1}
  BookingIds = {b1, b2}
  BlockIds = {}
  LeadIds = {}
  Workers = {w1, w2}
  Horizon = 1
  MaxVersion = 4
  MaxEdited = 2
  Traffic = {"transition", "create", "accounts", "profiles"}
  None = None
  Unit = u1
  Client = c1
SPECIFICATION Spec
SYMMETRY Symmetry
INVARIANTS
  NoDoubleConfirmed
CHECK_DEADLOCK FALSE
