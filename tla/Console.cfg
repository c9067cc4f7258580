\* Every view of the portals with every hook, two mutations at once.
CONSTANTS
  Queries <- MCQueries
  Hooks <- MCHooks
  Effect <- TabEffect
  Changes <- TabChanges
  Left <- MCLeft
  Polls <- MCPolls
  Slots = {s1, s2}
  MaxWrites = 3
SPECIFICATION Spec
INVARIANTS
  OwnWritesShown
PROPERTIES
  PolledViewsCatchUp
