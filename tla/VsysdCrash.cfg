SPECIFICATION CSpec
CONSTANTS
  i1 = i1  i2 = i2  c1 = c1  c2 = c2  p1 = p1  p2 = p2
  Daemon = Daemon  Nobody = Nobody
  Ids <- TwoIds
  Clients <- TwoClients
  Procs <- TwoProcs
  Refusers <- NoClients
  Faults <- CloneFails
  Backlog = 0
  MaxAcceptErrs = 0
  MaxKills = 1
SYMMETRY Symmetry
INVARIANTS
  PidStaysOwn
  NoStaleAnswer
  NoParentLeak
