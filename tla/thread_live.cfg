CONSTANTS
  good = good
  slow = slow
  bad = bad
  Conns <- MCGentle
  Prompt <- MCPrompt
  Faulty <- MCNone
  Https = FALSE
  ListenQ = 2
  Main = Main
  None = None
  Threads = {t1, t2}
  MaxFds = 4
  HandleFds = 1
  Modules = FALSE
  ForkMayFail = FALSE
  MayStop = FALSE
SPECIFICATION FairSpec
 
PROPERTY PromptHandled
