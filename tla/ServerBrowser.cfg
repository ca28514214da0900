CONSTANTS
  Servers = {alpha, beta}
  MaxList = 2
  Capacity = 2
  Batch = 1
  StepTime = 2
  Wrap = 4
  MaxRefreshes = 2
SPECIFICATION Spec
INVARIANTS ListAskedOnce RowsRight
PROPERTIES StepsApart EveryServerAsked
