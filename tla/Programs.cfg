SPECIFICATION Spec
CONSTANTS
  r1 = r1  r2 = r2  r3 = r3
  Runs <- ThreeRuns
  Half = 1024
  MaxNum = 32
  MaxDigits = 4
  Setters <- TwoRuns
  Getters <- OneRun
  CreateMayFail = TRUE
  Clients <- TwoRuns
  Messages = 2
  Pieces = 2
  MayFail <- AnyCall
  None = None
INVARIANTS
  LostBySpoiltOnly
  IdIsTyped
  StoredStays
  TornByOtherOnly
  OrderlyIfWhole
  ReportedIsReceived
PROPERTIES
  JoinReturns
  EveryClientEnds
  EveryoneServed
CHECK_DEADLOCK FALSE
