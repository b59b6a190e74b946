SPECIFICATION Spec
CONSTANTS
  d = d
  f = f
  g = g
  Names <- MCNames
  CopyName <- MCCopyName
  LocalRels <- TreeRels
  RemoteRels <- MoveRels
  Folders <- FolderD
  Excluded = {}
  UserActions = {"LocalWrite", "LocalMkdir", "LocalRemove", "RemoteWrite", "RemoteMkdir", "RemoteTrash", "RemoteRename"}
  MaxStamp = 3
  Capacity = 1
  Attempts = 2
  MaxEdits = 4
  MaxFaults = 1
  MaxRestarts = 1
INVARIANTS TypeOK Inv
PROPERTY KeepBothInBatch
