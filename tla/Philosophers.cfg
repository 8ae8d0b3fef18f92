SPECIFICATION FairSpec
CONSTANTS
  N = 4
  Seats = 3
  MayLack <- ChopstickAndRoom
INVARIANTS
  TypeOK
  Exclusion
  NeverAllStuck
  AllGivenBack
PROPERTIES
  EveryoneEats
CHECK_DEADLOCK FALSE
