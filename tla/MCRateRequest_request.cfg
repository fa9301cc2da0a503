SPECIFICATION FairSpec
CONSTANTS
  e1 = e1
  e2 = e2
  e3 = e3
  None = None
  Strangers <- MCStrangers
  Requests <- MCRequests
CHECK_DEADLOCK FALSE
INVARIANTS
  TypeOK
  CandidateIsOldestSeen
  HeardMeansFirstRound
  TimeoutAtHorizon
  UndeliveredMeansWholeRound
PROPERTIES
  ImplementsDecision
  DecisionIsFinal
  RequestEnds
