SPECIFICATION FairSpec
CONSTANTS
  c1 = c1
  c2 = c2
  None = None
  Clients <- MCClients
  PortMin = 3
  PortMax = 5
INVARIANTS
  TypeOK
  NoneIsLeftOut
  OwnPortLast
PROPERTIES
  ScanEnds
