SPECIFICATION FairSpec
CONSTANTS
  f = f
  None = None
  Files <- OneFile
  Capacity = 1
  UiCapacity = 1
  MaxAgents = 2
  MaxPresses = 2
  MaxBatches = 1
INVARIANTS TypeOK OneAgent PulseWhileQueued MountHasAgent
PROPERTIES Settles CallsReturn
