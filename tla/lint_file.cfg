CONSTANTS
  Namespaces <- MCNamespaces
  LongNamespace = 3
  CppHeaders <- MCCpp
  Inputs <- MCInputs
  NormalTrigger = 1
  TestTrigger = 2
  Verbose = 1
SPECIFICATION Spec
INVARIANTS
  StackIsOfPath
  BlocksAreBraces
  FunctionsMeasured
  IncludesJudged
CHECK_DEADLOCK FALSE
