SPECIFICATION FairSpec
CONSTANTS
  d = d
  f = f
  g = g
  Top = Top
  Nodes <- MCNodes
  FolderNodes <- MCFolders
  ParentOf <- MCParentOf
  Capacity = 1
  RacingEdits = FALSE
  SecondEdits = FALSE
  MaxEdits = 2
  MaxTime = 3
  MaxScanFaults = 0
  MaxPollFaults = 1
  MaxRestarts = 0
INVARIANTS TypeOK CursorSound
PROPERTIES CursorMonotone FeedFairSpec
