SPECIFICATION Spec
CONSTANTS
  Top = Top
  F = F
  G = G
  f = f
  g = g
  Root = Top
  Places <- MCPlaces
  ReadLinks = {F}
  Blocks = 2
  MaxMounts = 2
  MaxEvents = 1
INVARIANTS TypeOK CacheWhole VfsInv MaterializedIsCached ListingExact InodesOneToOne
