CONSTANTS
  r1 = r1
  r2 = r2
  p1 = p1
  p2 = p2
  Rows <- MCRows
  Routable <- MCRoutable
  Replicas <- MCReplicas
  MaxAttempts = 2
  BatchSize = 2
  DuplicateAnswers <- MCDuplicateAnswers
  MaxStalls = 1
  MaxFaults = 1
SPECIFICATION FairSpec
INVARIANTS
  TypeOK
  DeliveredWasAccepted
  LiveRowHasAttemptsLeft
  LeaseIsExclusive
PROPERTIES
  DeliveredIsFinalUnlessOvertaken
  EveryRowSettles
CHECK_DEADLOCK FALSE
