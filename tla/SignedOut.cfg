\* Sign-out while the API is unreachable: the guard signs the tab in again.
CONSTANTS
  Calls = {c1}
  Accounts = {"Admin"}
  MaxGrants = 2
  MaxGuards = 1
  None = None
SPECIFICATION GoneSpec
INVARIANTS
  SignedOutStaysSignedOut
CHECK_DEADLOCK FALSE
