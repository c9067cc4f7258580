\* A client in the owners' portal: login page and dashboard redirect for ever.
CONSTANTS
  Calls = {c1}
  Accounts = {"Owner", "Client"}
  MaxGrants = 3
  MaxGuards = 1
  None = None
SPECIFICATION Spec
PROPERTIES
  RedirectsEnd
CHECK_DEADLOCK FALSE
