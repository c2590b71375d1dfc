CONSTANTS
  small = small
  large = large
  module = module
  longer = longer
  Threads = {t1, t2}
  Programs <- MCPrograms
  Modules <- MCModules
  Output <- MCOutput
  Text <- MCText
  Names <- MCNames
  Pth <- MCPth
  PipeCap = 2
  Server = Server
  None = None
  MaxRequests = 3
SPECIFICATION FairSpec
INVARIANT OutputWhole
PROPERTIES
  AnsweredUnlessStuck
  VerdictsStand
CHECK_DEADLOCK FALSE
