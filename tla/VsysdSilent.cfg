SPECIFICATION Spec
CONSTANTS
  i1 = i1  i2 = i2  c1 = c1  c2 = c2  c3 = c3  p1 = p1  p2 = p2
  Daemon = Daemon  Nobody = Nobody
  Ids <- TwoIds
  Clients <- TwoClients
  Procs <- TwoProcs
  Refusers <- TwoClients
  Faults <- EveryFault
  Backlog = 0
  MaxAcceptErrs = 1
SYMMETRY Symmetry
INVARIANTS
  TypeOK
  SInv
CHECK_DEADLOCK FALSE
PROPERTIES
  ImplementsService
  OnlyAskedChanges
  KilledByLeavers
