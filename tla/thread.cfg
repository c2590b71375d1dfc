CONSTANTS
  good = good
  slow = slow
  bad = bad
  Conns <- MCConns
  Prompt <- MCPrompt
  Faulty <- MCFaulty
  Https = TRUE
  ListenQ = 2
  Main = Main
  None = None
  Threads = {t1, t2}
  MaxFds = 4
  HandleFds = 1
  Modules = TRUE
  ForkMayFail = TRUE
  MayStop = TRUE
SPECIFICATION Spec
INVARIANTS
  TypeOK
  SoleOwner
  ServedOnce
PROPERTY ImplementsService
CHECK_DEADLOCK FALSE
