CONSTANTS
  good = good
  good2 = good2
  slow = slow
  bad = bad
  Conns <- MCConns
  Prompt <- MCBoth
  Faulty <- MCFaulty
  Https = TRUE
  ListenQ = 1
  Main = Main
  Pids = {p1, p2}
  None = None
  Sigint = {p1, p2}
  ForkMayFail = TRUE
SYMMETRY MCSymmetry
SPECIFICATION Spec
INVARIANTS
  TypeOK
  NoLostZombie
  ServedOnce
  OwnDescriptorsOnly
PROPERTIES
  ParentSurvives
  ImplementsService
CHECK_DEADLOCK FALSE
