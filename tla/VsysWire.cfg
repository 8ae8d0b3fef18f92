SPECIFICATION FairSpec
CONSTANTS
  Sent <- MCSent
  Atomic = 2
  Cap = 4
  MaxAlloc = 100
INVARIANTS
  WholeMessages
  AcceptedIsSent
PROPERTIES
  EveryMessageArrives
CHECK_DEADLOCK FALSE
