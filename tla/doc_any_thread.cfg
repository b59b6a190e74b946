SPECIFICATION Spec
CONSTANTS
  f = f
  None = None
  Files <- OneFile
  Capacity = 1
  UiCapacity = 1
  MaxAgents = 1
  MaxPresses = 1
  MaxBatches = 0
INVARIANT SafeFromAnyThread
