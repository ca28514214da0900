CONSTANTS
  Servers = {alpha, beta}
  MaxList = 2
  Capacity = 3
  Batch = 1
  StepTime = 2
  Wrap = 5
  MaxRefreshes = 2
SPECIFICATION Spec
PROPERTY ReleaseCancels
