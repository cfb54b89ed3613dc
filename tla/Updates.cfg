SPECIFICATION FairSpec
CONSTANTS
  Releases = {a1, a2}
  Cores = {c1}
  Bundled = bundled
  MaxMishaps = 2
  MaxAppMishaps = 1
  None = None
INVARIANTS ReadyIsTheOneShown CoreRunsSelected AllOrNothing
PROPERTIES CancelledLeavesNothing OperationsEnd
CHECK_DEADLOCK FALSE
