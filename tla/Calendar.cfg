\* Bookings at the desk; double submissions; owner blocks beside guests; a lead
\* converted twice, moved, edited and dropped; the office's unlocked endpoints.
CONSTANTS
  Units = {u1, u2}
  Clients = {c1, c2, c3}
  BookingIds = {b1, b2}
  BlockIds = {x1, x2}
  LeadIds = {l1}
  Workers = {w1, w2}
  Horizon = 2
  MaxVersion = 5
  MaxEdited = 2
  Traffic = {}
  None = None
  Unit = u1
  Client = c3
SPECIFICATION CalendarSpec
SYMMETRY CalendarSymmetry
INVARIANTS
  TypeOK
  NoDoubleConfirmed
  HistoryChain
  NoStorefrontDoubleRequest
  DuplicateSubmitOnce
  LeadConvertedOnce
  OwnerBlockKeepsConverted
  OwnerBlockKeepsGuests
  OwnerBlocksDisjoint
PROPERTIES
  StatusMovesAllowed
  DatesFrozenOnceQualified
  WithdrawnStaysWithdrawn
  ReopenedByStaleSavesOnly
  NightsPromisedOnce
CHECK_DEADLOCK FALSE
