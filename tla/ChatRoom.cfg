SPECIFICATION FairSpec
CONSTANTS
  a = a  b = b
  Users <- TwoUsers
  MaxMsgs = 2
  Backlog = 1
  MayLeave <- OneLeaver
  Faults <- AllFaults
  Apart = TRUE
INVARIANTS
  ForwardedInOrder
PROPERTIES
  LastReachesAll
CHECK_DEADLOCK FALSE
