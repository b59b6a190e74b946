SPECIFICATION FairSpec
CONSTANTS
  d = d
  f = f
  g = g
  Names <- MCNames
  CopyName <- MCCopyName
  LocalRels <- DeepRels
  RemoteRels <- GreyRels
  Folders <- DeepFolders
  Excluded = {g}
  UserActions = {"LocalWrite", "LocalMkdir", "LocalRemove", "RemoteWrite", "RemoteMkdir"}
  MaxStamp = 3
  Capacity = 1
  Attempts = 2
  MaxEdits = 3
  MaxFaults = 2
  MaxRestarts = 0
INVARIANTS RowsFaithful ExcludedNotMirrored
PROPERTY BusyEnds
