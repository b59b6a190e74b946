------------------------- MODULE VirtualFsInvariant -------------------------
(***************************************************************************)
(* The inductive invariants of VirtualFs.  CacheWhole follows from         *)
(* CacheInv: which of the three paths of a link may name a file that is    *)
(* still being written, and what the thread that writes it knows.          *)
(* MaterializedIsCached follows from FlagInv, InodesOneToOne from InodeInv *)
(* and ListingExact from ListInv: where in a table that grows and changes  *)
(* a listing has stopped.                                                  *)
(***************************************************************************)
EXTENDS VirtualFs

(* The cache directory and the tasks are of their types, and a download    *)
(* that copies has a file to copy to.                                      *)
DiskType ==
  /\ rev \in [Files -> Nat \ {0}]
  /\ mount \in Mounts /\ overtaken \in BOOLEAN
  /\ data \in Seq(Content)
  /\ pddl \in [Files -> 0 .. Len(data)]
  /\ tmp \in [Files -> 0 .. Len(data)]
  /\ cache \in [Files -> 0 .. Len(data)]
  /\ task \in [Mounts -> Task]
  /\ \A m \in Mounts : /\ task[m].at # "idle" => task[m].link \in Files
                       /\ task[m].at = "copy" => task[m].fd \in 1 .. Len(data)

(* No mount but the current one is downloading. *)
Alone == \A m \in Mounts \ {mount} : task[m].at = "idle"

(* A download is of a link that is not cached; the blocks it has copied    *)
(* are of one revision that the drive has had, in the link's part file.    *)
TaskTrue(t) ==
  /\ t.at # "idle" => cache[t.link] = 0
  /\ t.at \in {"ask", "create"} => t.done = 0
  /\ t.at \in {"create", "copy"} => t.rev \in 1 .. rev[t.link]
  /\ t.at = "copy" => /\ t.fd = pddl[t.link]
                      /\ \A b \in 1 .. t.done : data[t.fd][b] = t.rev

(* A part file is under no other name. *)
PartsApart ==
  \A l \in Files : pddl[l] # 0 =>
    \A k \in Files : /\ pddl[l] # tmp[k] /\ pddl[l] # cache[k]
                     /\ k # l => pddl[l] # pddl[k]

TmpIsWhole == \A l \in Files : tmp[l] # 0 => Whole(l, tmp[l])

DiskTrue ==
  Alone /\ TaskTrue(task[mount]) /\ PartsApart /\ TmpIsWhole /\ CacheIsWhole

(* The cache directory in every reachable state, by what ensure_cached and *)
(* pd_download write to it.                                                *)
CacheInv == DiskType /\ (overtaken \/ DiskTrue)

(* Rows are rows, and a marked one is of a file that is cached.            *)
FlagInv ==
  /\ table \in Seq(Row)
  /\ \A i \in DOMAIN table :
       table[i].materialized => table[i].link \in Files /\ cache[table[i].link] # 0

-----------------------------------------------------------------------------
Listing == [dir : Folders \cup {Root}, open : BOOLEAN, offset : Nat,
            names : Seq(Rels \cup {<<>>}), start : SUBSET Rels,
            moved : BOOLEAN, done : BOOLEAN]

(* UNIQUE(rel_path): a path has one row.                                   *)
OneRowPerPath == \A i, j \in DOMAIN table : table[i].rel = table[j].rel => i = j

PathsBelow(rows, dir) ==
  [i \in DOMAIN RowsBelow(rows, dir) |-> RowsBelow(rows, dir)[i].rel]

(* A listing has handed out its directory's rows up to its offset, which   *)
(* are still where they were, as are those that were there at its start.   *)
InPlace(l, paths) ==
  /\ Len(l.names) = l.offset /\ l.offset <= Len(paths) + 2
  /\ \A i \in 3 .. l.offset : l.names[i] = paths[i - 2]
  /\ l.start \subseteq ToSet(paths)
  /\ l.done => l.start \subseteq {l.names[i] : i \in 3 .. l.offset}

ListInv ==
  /\ table \in Seq(Row) /\ OneRowPerPath
  /\ ls \in Listing
  /\ ~ls.moved => InPlace(ls, PathsBelow(table, ls.dir))

InodeInv ==
  inos \in Seq(Links \cup {Root}) /\ IsInjective(inos) /\ events \in Nat

(* What is true of the cache, the table, a listing and the inodes after    *)
(* every step: each part is inductive with those before it.                *)
VfsInv == CacheInv /\ FlagInv /\ ListInv /\ InodeInv
=============================================================================
