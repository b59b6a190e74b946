SPECIFICATION FairSpec
CONSTANTS
  d = d
  f = f
  g = g
  Names <- MCNames
  CopyName <- MCCopyName
  LocalRels <- FlatRels
  RemoteRels <- MixedRels
  Folders <- FolderD
  Excluded = {}
  UserActions = {"LocalWrite", "RemoteWrite", "RemoteMkdir", "RemoteTrash"}
  MaxStamp = 3
  Capacity = 1
  Attempts = 2
  MaxEdits = 4
  MaxFaults = 0
  MaxRestarts = 0
INVARIANTS LocalRemembered RemoteRemembered
PROPERTIES LocalContentReachesDrive ReportedEventuallyMirrored
