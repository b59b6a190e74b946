----------------------------- MODULE ChangeFeed -----------------------------
(***************************************************************************)
(* What the sync engine wants from its remote watcher, with no word on     *)
(* scanning, polling or cursors: each change of the drive reaches the      *)
(* engine through a FIFO feed, a folder before what is in it, never an     *)
(* older version after a newer one, and none is left out.                  *)
(***************************************************************************)
EXTENDS Naturals, Sequences

CONSTANTS
  Nodes,      \* files and folders of the drive
  ParentOf,   \* ParentOf[n]: the folder n is in
  Top         \* the root folder, not itself a node

VARIABLES
  ver,        \* ver[n]: version of n on the drive, 0 while it does not exist
  reported,   \* reported[n]: the version last put into the feed
  feed,       \* versions on their way to the engine
  applied     \* applied[n]: the version the engine's database knows

vars == <<ver, reported, feed, applied>>

Present(table) == {Top} \cup {n \in Nodes : table[n] > 0}

Init ==
  /\ ver \in [Nodes -> {0, 1}]
  /\ \A n \in Nodes : ver[n] > 0 => ParentOf[n] \in Present(ver)
  /\ reported = [n \in Nodes |-> 0] /\ applied = [n \in Nodes |-> 0]
  /\ feed = <<>>

Edit(n) ==
  /\ ParentOf[n] \in Present(ver)
  /\ ver' = [ver EXCEPT ![n] = @ + 1]
  /\ UNCHANGED <<reported, feed, applied>>

Report(n) ==
  /\ ParentOf[n] \in Present(reported)
  /\ \E v \in reported[n] + 1 .. ver[n] :
       /\ reported' = [reported EXCEPT ![n] = v]
       /\ feed' = Append(feed, [node |-> n, ver |-> v])
  /\ UNCHANGED <<ver, applied>>

Take ==
  /\ feed # <<>>
  /\ applied' = [applied EXCEPT ![Head(feed).node] = Head(feed).ver]
  /\ feed' = Tail(feed)
  /\ UNCHANGED <<ver, reported>>

Next == (\E n \in Nodes : Edit(n) \/ Report(n)) \/ Take

Spec == Init /\ [][Next]_vars

FairSpec == Spec /\ WF_vars(Take) /\ \A n \in Nodes : WF_vars(Report(n))
=============================================================================
