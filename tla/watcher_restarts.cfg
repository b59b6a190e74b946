SPECIFICATION Spec
CONSTANTS
  d = d
  f = f
  g = g
  Top = Top
  Nodes <- FewNodes
  FolderNodes <- MCFolders
  ParentOf <- FewParentOf
  Capacity = 1
  RacingEdits = TRUE
  SecondEdits = TRUE
  MaxEdits = 2
  MaxTime = 2
  MaxScanFaults = 1
  MaxPollFaults = 1
  MaxRestarts = 1
PROPERTY NeverOlder
