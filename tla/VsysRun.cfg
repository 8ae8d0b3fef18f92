SPECIFICATION FairSpec
CONSTANTS
  p1 = p1  p2 = p2  p3 = p3
  Nobody = Nobody
  Progs <- ThreeProgs
  FreeFds = 3
  Prompt = TRUE
INVARIANTS
  TypeOK
  ErrorExperiencedWithFds
PROPERTIES
  LostOnlyBySuccess
  EveryProcessCollected
  EveryRunAnswered
