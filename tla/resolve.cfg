SPECIFICATION Spec
CONSTANTS
  d = d
  f = f
  x = x
  Names <- MCNames
  CopyName <- MCCopyName
  LocalRels <- MCLocalRels
  MaxStamp = 1
  Excluded = {x}
  LocalChanges <- MCLocalChanges
  RemoteChanges <- MCRemoteChanges
  MaxBatch = 4
INVARIANTS ResolveIsReference ConflictFree NothingLost
