----------------------------- MODULE Operations -----------------------------
(***************************************************************************)
(* The pure stages of the sync engine: translating observations into       *)
(* operations (reconciliation.rs) and resolving the operations of a batch  *)
(* that collide on a path (conflict.rs).                                   *)
(*                                                                         *)
(* A relative path is a sequence of names, so "Docs/a.txt" is              *)
(* <<"Docs", "a.txt">>; the sync root is the empty sequence.               *)
(***************************************************************************)
EXTENDS Naturals, Sequences, Functions

CONSTANTS
  Names,          \* names of files and folders, conflict copies included
  LocalRels,      \* relative paths local programs create and remove
  MaxStamp,       \* bound: how many conflict timestamps a behaviour may use
  CopyName(_, _), \* CopyName(n, s): name n with the conflict suffix of stamp s
  Excluded        \* top-level names left out by selective sync

Rels   == Seq(Names) \ {<<>>}
Stamps == 1 .. MaxStamp

ParentOf(rel) == SubSeq(rel, 1, Len(rel) - 1)
LeafOf(rel)   == rel[Len(rel)]

(***************************************************************************)
(* Link ids the server hands out are numbered; the root folder is link 0.  *)
(***************************************************************************)
Links == Nat
Root  == 0

ASSUME NamesAssumption ==
  /\ MaxStamp \in Nat
  /\ LocalRels \subseteq Rels
  /\ \A rel \in LocalRels, s \in Stamps : CopyName(LeafOf(rel), s) \in Names

(***************************************************************************)
(* Observations.  LocalChange::Renamed and RemoteChange::Removed exist in  *)
(* the source but no watcher constructs them, so they are left out.        *)
(***************************************************************************)
LocalChange  == [kind : {"Upsert"}, rel : LocalRels, folder : BOOLEAN]
                  \cup [kind : {"Removed"}, rel : LocalRels]
RemoteChange == [rel : Rels, link : Links, parent : Links,
                 folder : BOOLEAN, rev : Nat]

(***************************************************************************)
(* Operations the engine ever constructs.  "Skip" stands for an observed   *)
(* entry that reconcile drops (its loop `continue`s): the sequence keeps   *)
(* its place and the propagator passes over it.                            *)
(***************************************************************************)
Skip == [op |-> "Skip"]

Operation ==
  {Skip}
    \cup [op : {"CreateRemoteDir"}, rel : Rels]
    \cup [op : {"UploadNew"}, rel : Rels, path : LocalRels]
    \cup [op : {"DeleteRemote"}, rel : Rels]
    \cup [op : {"DownloadNew", "CreateLocalDir"},
          rel : Rels, link : Links, parent : Links, rev : Nat]

IsUpload(o)      == o.op = "UploadNew"
IsDownload(o)    == o.op = "DownloadNew"
IsPlaceholder(o) == o.op \in {"DownloadNew", "CreateLocalDir"}

(* Mutant: the name of the entry itself is looked up. *)
IsExcludedLeaf(rel) == LeafOf(rel) \in Excluded

IsExcluded(rel) == rel[1] \in Excluded

LocalOp(c) ==
  IF c.kind = "Removed"
    THEN [op |-> "DeleteRemote", rel |-> c.rel]
  ELSE IF c.folder
    THEN [op |-> "CreateRemoteDir", rel |-> c.rel]
  ELSE [op |-> "UploadNew", rel |-> c.rel, path |-> c.rel]

RemoteOp(e) ==
  IF IsExcluded(e.rel)
    THEN Skip
    ELSE [op |-> IF e.folder THEN "CreateLocalDir" ELSE "DownloadNew",
          rel |-> e.rel, link |-> e.link, parent |-> e.parent, rev |-> e.rev]

Reconcile(local, remote) ==
  [i \in 1 .. Len(local) |-> LocalOp(local[i])]
    \o [i \in 1 .. Len(remote) |-> RemoteOp(remote[i])]

(***************************************************************************)
(* Conflict resolution.  A path both uploaded and downloaded by one batch  *)
(* is in conflict: its uploads leave their place, get the suffix and go to *)
(* the end, grouped by path (the paths come out of a HashMap, so in any    *)
(* order).  A resolution is therefore a permutation of the batch.          *)
(***************************************************************************)
(* Mutant: a path is left alone unless it occurs more than twice. *)
InConflictThrice(ops, rel) ==
  \E i, j, k \in DOMAIN ops :
    /\ i < j /\ j < k
    /\ \A n \in {i, j, k} : ops[n].op # "Skip" /\ ops[n].rel = rel
    /\ \E n \in {i, j, k} : IsUpload(ops[n])
    /\ \E n \in {i, j, k} : IsDownload(ops[n])

InConflict(ops, rel) ==
  /\ \E i \in DOMAIN ops : IsUpload(ops[i]) /\ ops[i].rel = rel
  /\ \E i \in DOMAIN ops : IsDownload(ops[i]) /\ ops[i].rel = rel

Renamed(ops) ==
  {i \in DOMAIN ops : IsUpload(ops[i]) /\ InConflict(ops, ops[i].rel)}

CopyRel(rel, stamp) == Append(ParentOf(rel), CopyName(LeafOf(rel), stamp))

(* Mutant: the remote file wins and the upload is dropped. *)
KeepRemote(o, stamp) == Skip

(* Mutant: the copy is read from its own new path. *)
KeepBothMoved(o, stamp) ==
  [o EXCEPT !.rel = CopyRel(o.rel, stamp), !.path = CopyRel(o.rel, stamp)]

KeepBoth(o, stamp) == [o EXCEPT !.rel = CopyRel(o.rel, stamp)]

(* Mutant: the renamed uploads of all paths keep their order. *)
IsResolutionOrderUngrouped(ops, perm) ==
  LET moved == Renamed(ops)
  IN  /\ \A i, j \in DOMAIN ops :
           i < j /\ perm[i] \in moved => perm[j] \in moved
      /\ \A i, j \in DOMAIN ops :
           i < j /\ (perm[i] \in moved <=> perm[j] \in moved) => perm[i] < perm[j]

(* perm lists the untouched operations in order, then the renamed uploads. *)
IsResolutionOrder(ops, perm) ==
  LET moved == Renamed(ops)
      SamePath(i, j) == ops[perm[i]].rel = ops[perm[j]].rel
  IN  /\ \A i, j \in DOMAIN ops :
           i < j /\ perm[i] \in moved => perm[j] \in moved
      /\ \A i, j \in DOMAIN ops :
           /\ i < j
           /\ perm[j] \notin moved \/ (perm[i] \in moved /\ SamePath(i, j))
           => perm[i] < perm[j]
      /\ \A i, j, k \in DOMAIN ops :
           i < j /\ j < k /\ perm[i] \in moved /\ SamePath(i, k)
           => SamePath(i, j)

Resolve(ops, stamp) ==
  LET Entry(i) == IF i \in Renamed(ops) THEN KeepBoth(ops[i], stamp) ELSE ops[i]
  IN  {[i \in DOMAIN ops |-> Entry(perm[i])] :
         perm \in {p \in Injection(DOMAIN ops, DOMAIN ops) : IsResolutionOrder(ops, p)}}

=============================================================================
