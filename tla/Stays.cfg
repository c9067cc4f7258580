\* A visit to one of the screens that sell a stay, and guests who overstay.
CONSTANTS
  LastDay = 3
  Takings = {"held", "booked", "blocked"}
  MaxMoves = 1
  MaxAttempts = 2
  MaxFails = 1
  MaxPicks = 1
  ShopPicks = 1
  Slots = {1, 2}
  Surfaces = {"platform", "convert", "quick"}
  ShopSurfaces = {"guest", "client"}
  Units = {u1}
  Clients = {c1}
  BookingIds = {b1, b2}
  BlockIds = {}
  LeadIds = {}
  Workers = {w1, w2}
  Horizon = 3
  MaxVersion = 6
  MaxEdited = 2
  Unit = u1
  Client = c1
  Booking = b1
  None = None
SPECIFICATION StaysSpec
INVARIANTS
  ScreensTypeOK
  OnlyFreeNightsSent
  ReviewedIsThisStay
  NightsRequestedOnce
  OfferedNightsGranted
  RefusalsJustified
PROPERTIES
  CalendarSettles
  OverdueStaysEnd
CHECK_DEADLOCK FALSE
