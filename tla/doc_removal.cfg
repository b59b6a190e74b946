SPECIFICATION Spec
CONSTANTS
  d = d
  f = f
  g = g
  Names <- MCNames
  CopyName <- MCCopyName
  LocalRels <- FlatRels
  RemoteRels <- NoRels
  Folders <- NoRels
  Excluded = {}
  UserActions = {"LocalWrite", "LocalRemove"}
  MaxStamp = 3
  Capacity = 1
  Attempts = 2
  MaxEdits = 3
  MaxFaults = 0
  MaxRestarts = 0
INVARIANT RemovalPropagates
