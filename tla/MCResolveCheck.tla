--------------------------- MODULE MCResolveCheck ---------------------------
EXTENDS ResolveCheck

CONSTANTS d, f, x

MCNames == {d, f, x} \cup ({d, f, x} \X {1})
MCCopyName(n, s) == <<n, s>>
MCLocalRels == {<<d>>, <<f>>, <<d, f>>}

MCLocalChanges ==
  {[kind |-> "Upsert", rel |-> <<f>>, folder |-> FALSE],
   [kind |-> "Upsert", rel |-> <<d, f>>, folder |-> FALSE],
   [kind |-> "Upsert", rel |-> <<d>>, folder |-> TRUE],
   [kind |-> "Removed", rel |-> <<f>>]}

MCRemoteChanges ==
  {[rel |-> <<d>>, link |-> 1, parent |-> 0, folder |-> TRUE, rev |-> 0],
   [rel |-> <<f>>, link |-> 2, parent |-> 0, folder |-> FALSE, rev |-> 1],
   [rel |-> <<d, f>>, link |-> 3, parent |-> 1, folder |-> FALSE, rev |-> 1],
   [rel |-> <<d, x>>, link |-> 6, parent |-> 1, folder |-> FALSE, rev |-> 1],
   [rel |-> <<x, f>>, link |-> 4, parent |-> 5, folder |-> FALSE, rev |-> 1]}
=============================================================================
