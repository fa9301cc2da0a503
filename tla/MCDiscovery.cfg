\* Two lookups that overlap while the zone changes twice.
SPECIFICATION FairSpec
CONSTANTS
  r1 = r1  r2 = r2  r3 = r3  r4 = r4
  None = None
  Callers = {c1, c2}
  Zones <- MCZones
  Addresses <- MCAddresses
  Label <- MCLabel
  ExactBelow = 8
  IdsPerSecond = 2
INVARIANTS
  TypeOK
  CallbackOwed
  ListIsOneAnswer
PROPERTIES
  NoOlderThanQuestion
  ImplementsLookup
  ListCatchesUp
CHECK_DEADLOCK FALSE
