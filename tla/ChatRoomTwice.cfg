SPECIFICATION Spec
CONSTANTS
  a = a  b = b
  Users <- TwoUsers
  MaxMsgs = 1
  Backlog = 1
  MayLeave <- NoUsers
  Faults <- NoFaults
  Apart = FALSE
INVARIANTS
  NoneTwice
CHECK_DEADLOCK FALSE
