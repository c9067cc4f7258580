\* A move to Booked takes no lock: a conversion's check can be overtaken.
CONSTANTS
  Units = {u1}
  Clients = {c1}
  BookingIds = {b1, b2}
  BlockIds = {}
  LeadIds = {l1}
  Workers = {w1, w2}
  Horizon = 1
  MaxVersion = 4
  MaxEdited = 2
  Traffic = {"create", "transition", "convert"}
  None = None
  Unit = u1
  Client = c1
SPECIFICATION ConvertSpec
SYMMETRY Symmetry
PROPERTIES
  ConversionRejectsStaleRange
CHECK_DEADLOCK FALSE
