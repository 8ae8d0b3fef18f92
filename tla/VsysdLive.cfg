SPECIFICATION FairSpec
CONSTANTS
  i1 = i1  i2 = i2  c1 = c1  c2 = c2  c3 = c3  p1 = p1  p2 = p2
  Daemon = Daemon  Nobody = Nobody
  Ids <- OneId
  Clients <- TwoClients
  Procs <- OneProc
  Refusers <- TwoClients
  Faults <- LostConnections
  Backlog = 0
  MaxAcceptErrs = 1
PROPERTIES
  EveryCommandEnds
