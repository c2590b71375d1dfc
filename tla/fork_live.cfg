CONSTANTS
  good = good
  good2 = good2
  slow = slow
  bad = bad
  Conns <- MCPair
  Prompt <- MCPrompt
  Faulty <- MCNone
  Https = FALSE
  ListenQ = 2
  Main = Main
  Pids = {p1, p2}
  None = None
  Sigint <- MCSigint
  ForkMayFail = FALSE
SPECIFICATION FairSpec
PROPERTIES
  ZombiesReaped
  PromptClosed
  ChildrenFinish
CHECK_DEADLOCK FALSE
