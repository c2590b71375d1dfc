CONSTANTS
  good = good
  slow = slow
  bad = bad
  Conns <- MCConns
  Prompt <- MCPrompt
  Faulty <- MCFaulty
  Https = TRUE
  ListenQ = 1
  None = None
  Workers = {w1, w2, w3}
  ForkMayFail = TRUE
  MayStop = TRUE
SPECIFICATION FairSpec
INVARIANTS
  TypeOK
  OneInside
  ServedOnce
PROPERTIES
  ImplementsService
  PromptHandled
CHECK_DEADLOCK FALSE
