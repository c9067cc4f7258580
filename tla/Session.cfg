\* Two calls of one tab through expiry, refresh, guards, sign-out and other tabs.
CONSTANTS
  Calls = {c1, c2}
  Accounts = {"Admin", "Client"}
  MaxGrants = 2
  MaxGuards = 1
  None = None
SPECIFICATION Spec
INVARIANTS
  TypeOK
  QueueHasLeader
  RetriedOnce
PROPERTIES
  CallsSettleOnce
  GuardedPageNeedsToken
CHECK_DEADLOCK FALSE
