----------------------------- MODULE VirtualFs -----------------------------
(***************************************************************************)
(* The virtual filesystem of protondrive-fuse: inode table, directory      *)
(* listings out of the mapping table, and files downloaded into a cache    *)
(* directory on their first read (with pd_download of bridge.go), while    *)
(* the agent rewrites the table and the process dies or remounts.          *)
(*                                                                         *)
(* A mount has one thread, which serves one request at a time.  A file on  *)
(* disk is an element of `data`, its content the revision each block was   *)
(* copied from (0: not yet); a path (pddl, tmp, cache) is the file it      *)
(* names, or 0.  Renaming moves a path and leaves open files alone.  A     *)
(* mount is read-only, so nothing changes below it and all the agent does  *)
(* is store what the drive reports.                                        *)
(***************************************************************************)
EXTENDS Naturals, Sequences, SequencesExt

CONSTANTS
  Root,       \* the link of the drive's root folder
  Places,     \* places nodes are reported at: [link, rel, parent, folder]
  ReadLinks,  \* the files programs read, and other clients change
  Blocks,     \* blocks of a file
  MaxMounts,  \* bound on mounts, the first one included
  MaxEvents   \* bound on new revisions and failed downloads, together

Links   == {p.link : p \in Places}
Folders == {p.link : p \in {q \in Places : q.folder}}
Files   == Links \ Folders
Rels    == {p.rel : p \in Places}
Mounts  == 1 .. MaxMounts

ASSUME VfsAssumption ==
  /\ Root \notin Links /\ Root \notin Nat
  /\ \A p \in Places : /\ p.folder \in BOOLEAN
                       /\ p.parent \in Folders \cup {Root}
                       /\ p.folder <=> p.link \in Folders
  /\ ReadLinks \subseteq Files
  /\ Blocks \in Nat \ {0} /\ MaxMounts \in Nat \ {0}
  /\ MaxEvents \in Nat

VARIABLES
  rev,     \* the drive: revision of each file
  table,   \* the mappings table, in the order of its row ids
  mount,   \* the current mount
  inos,    \* its inode table: inode i is link inos[i]
  task,    \* what each mount's thread is doing
  overtaken,  \* has a remount left a download of the old mount under way?
  data, pddl, tmp, cache,   \* the cache directory
  ls,      \* a program listing a directory of the current mount
  events

mountVars == <<mount, overtaken>>
diskVars  == <<data, pddl, tmp, cache>>
vars == <<rev, table, mountVars, inos, task, diskVars, ls, events>>

Row == [rel : Rels, link : Links, parent : Folders \cup {Root},
        folder : BOOLEAN, rev : Nat, materialized : BOOLEAN]

Content == [1 .. Blocks -> Nat]
Empty   == [b \in 1 .. Blocks |-> 0]

Task == [at : {"idle", "ask", "create", "copy", "publish"}, link : Files \cup {Root},
         rev : Nat, fd : Nat, done : 0 .. Blocks]
Idle == [at |-> "idle", link |-> Root, rev |-> 0, fd |-> 0, done |-> 0]

(* start: the entries there when the directory was opened; moved: an entry *)
(* came from or went to another directory since.                           *)
NotListing == [dir |-> Root, open |-> FALSE, offset |-> 0, names |-> <<>>,
               start |-> {}, moved |-> FALSE, done |-> FALSE]

(***************************************************************************)
(* The drive and the agent                                                 *)
(***************************************************************************)
Edit(l) ==
  /\ events < MaxEvents /\ events' = events + 1
  /\ rev' = [rev EXCEPT ![l] = @ + 1]
  /\ UNCHANGED <<table, mountVars, inos, task, diskVars, ls>>

Placeholder(p) ==
  [rel |-> p.rel, link |-> p.link, parent |-> p.parent, folder |-> p.folder,
   rev |-> IF p.folder THEN 0 ELSE rev[p.link], materialized |-> FALSE]

Other(rel) == SelectSeq(table, LAMBDA r : r.rel # rel)

(* Mutants: INSERT OR REPLACE; a conflict that keeps the flag.             *)
UpsertReplacing(row) == Append(Other(row.rel), row)

UpsertKeepingFlag(row) ==
  IF \E i \in DOMAIN table : table[i].rel = row.rel
    THEN [i \in DOMAIN table |->
            IF table[i].rel = row.rel
              THEN [row EXCEPT !.materialized = table[i].materialized]
              ELSE table[i]]
    ELSE Append(table, row)

(* INSERT ... ON CONFLICT(rel_path) DO UPDATE: the row keeps its id.       *)
Upsert(row) ==
  IF \E i \in DOMAIN table : table[i].rel = row.rel
    THEN [i \in DOMAIN table |-> IF table[i].rel = row.rel THEN row ELSE table[i]]
    ELSE Append(table, row)

(* The agent stores what a report says of a node.                          *)
StorePlaceholder(p) ==
  /\ table' = Upsert(Placeholder(p))
  /\ ls' = [ls EXCEPT !.moved = @ \/ \E i \in DOMAIN table :
               /\ table[i].rel = p.rel /\ table[i].parent # p.parent
               /\ ls.dir \in {table[i].parent, p.parent}]
  /\ UNCHANGED <<rev, mountVars, inos, task, diskVars, events>>

(***************************************************************************)
(* Inodes and directories                                                  *)
(***************************************************************************)
GetOrAssign(s, l) == IF \E i \in DOMAIN s : s[i] = l THEN s ELSE Append(s, l)

AssignAll(s, rows) ==
  LET after[n \in 0 .. Len(rows)] ==
        IF n = 0 THEN s ELSE GetOrAssign(after[n - 1], rows[n].link)
  IN  after[Len(rows)]

(* Mutant: one inode for each row. *)
FirstInodesPerRow == <<Root>> \o [i \in DOMAIN table |-> table[i].link]

FirstInodes == AssignAll(<<Root>>, table)

RowsBelow(rows, dir) ==
  LET upto[n \in 0 .. Len(rows)] ==
        IF n = 0 THEN <<>>
        ELSE IF rows[n].parent = dir THEN Append(upto[n - 1], rows[n]) ELSE upto[n - 1]
  IN  upto[Len(rows)]

Children(dir) == RowsBelow(table, dir)

(* readdir's list: ".", ".." (written as the empty path) and the children. *)
Entries(dir) ==
  <<<<>>, <<>>>> \o [i \in DOMAIN Children(dir) |-> Children(dir)[i].rel]

Free == task[mount].at = "idle"

(* The first child whose path ends in the name. *)
Lookup(dir, name) ==
  /\ Free /\ \E i \in DOMAIN inos : inos[i] = dir
  /\ LET rows == Children(dir)
         named == {n \in DOMAIN rows : Last(rows[n].rel) = name}
     IN  /\ named # {}
         /\ inos' = GetOrAssign(inos, rows[Min(named)].link)
  /\ UNCHANGED <<rev, table, mountVars, task, diskVars, ls, events>>

OpenDir(dir) ==
  /\ Free /\ ~ls.open /\ \E i \in DOMAIN inos : inos[i] = dir
  /\ ls' = [NotListing EXCEPT !.dir = dir, !.open = TRUE,
                              !.start = {r.rel : r \in ToSet(Children(dir))}]
  /\ UNCHANGED <<rev, table, mountVars, inos, task, diskVars, events>>

(* One readdir call: as many entries after the offset as fit the buffer.   *)
ReadDir ==
  /\ Free /\ ls.open /\ ~ls.done
  /\ LET all == Entries(ls.dir)
     IN  IF ls.offset >= Len(all)
           THEN ls' = [ls EXCEPT !.done = TRUE]
           ELSE \E upto \in ls.offset + 1 .. Len(all) :
                  ls' = [ls EXCEPT !.names = @ \o SubSeq(all, ls.offset + 1, upto),
                                   !.offset = upto]
  /\ inos' = AssignAll(inos, Children(ls.dir))
  /\ UNCHANGED <<rev, table, mountVars, task, diskVars, events>>

CloseDir ==
  /\ ls.open
  /\ ls' = NotListing
  /\ UNCHANGED <<rev, table, mountVars, inos, task, diskVars, events>>

(***************************************************************************)
(* Reading a file                                                          *)
(***************************************************************************)
Doing(m, t) == task' = [task EXCEPT ![m] = t]

(* ensure_cached; a file that exists is read and nothing changes.          *)
Read(l) ==
  /\ Free /\ \E i \in DOMAIN inos : inos[i] = l
  /\ cache[l] = 0
  /\ Doing(mount, [Idle EXCEPT !.at = "ask", !.link = l])
  /\ UNCHANGED <<rev, table, mountVars, inos, diskVars, ls, events>>

(* DownloadFileByID asks for the active revision. *)
Ask(m) ==
  /\ task[m].at = "ask"
  /\ Doing(m, [task[m] EXCEPT !.at = "create", !.rev = rev[task[m].link]])
  /\ UNCHANGED <<rev, table, mountVars, inos, diskVars, ls, events>>

(* Mutant: the bridge is told to write to the cache file itself. *)
CreateInCache(m) ==
  /\ task[m].at = "create"
  /\ data' = Append(data, Empty)
  /\ cache' = [cache EXCEPT ![task[m].link] = Len(data) + 1]
  /\ pddl' = [pddl EXCEPT ![task[m].link] = Len(data) + 1]
  /\ Doing(m, [task[m] EXCEPT !.at = "copy", !.fd = Len(data) + 1])
  /\ UNCHANGED <<rev, table, mountVars, inos, tmp, ls, events>>

(* os.Create makes the file, or empties the one that is there. *)
CreatePart(m) ==
  LET l == task[m].link
  IN  /\ task[m].at = "create"
      /\ \/ /\ pddl[l] = 0
            /\ data' = Append(data, Empty)
            /\ pddl' = [pddl EXCEPT ![l] = Len(data) + 1]
            /\ Doing(m, [task[m] EXCEPT !.at = "copy", !.fd = Len(data) + 1])
         \/ /\ pddl[l] # 0
            /\ data' = [data EXCEPT ![pddl[l]] = Empty]
            /\ Doing(m, [task[m] EXCEPT !.at = "copy", !.fd = pddl[l]])
            /\ UNCHANGED pddl
      /\ UNCHANGED <<rev, table, mountVars, inos, tmp, cache, ls, events>>

(* Mutant: a block too many. *)
CopyBlockMore(m) ==
  /\ task[m].at = "copy" /\ task[m].done <= Blocks
  /\ data' = [data EXCEPT ![task[m].fd][task[m].done + 1] = task[m].rev]
  /\ Doing(m, [task[m] EXCEPT !.done = @ + 1])
  /\ UNCHANGED <<rev, table, mountVars, inos, pddl, tmp, cache, ls, events>>

CopyBlock(m) ==
  /\ task[m].at = "copy" /\ task[m].done < Blocks
  /\ data' = [data EXCEPT ![task[m].fd][task[m].done + 1] = task[m].rev]
  /\ Doing(m, [task[m] EXCEPT !.done = @ + 1])
  /\ UNCHANGED <<rev, table, mountVars, inos, pddl, tmp, cache, ls, events>>

(* Mutant: an error of io.Copy is not looked at. *)
FinishPartEarly(m) ==
  LET l == task[m].link
  IN  /\ task[m].at = "copy" /\ pddl[l] # 0
      /\ tmp' = [tmp EXCEPT ![l] = pddl[l]]
      /\ pddl' = [pddl EXCEPT ![l] = 0]
      /\ Doing(m, [task[m] EXCEPT !.at = "publish"])
      /\ UNCHANGED <<rev, table, mountVars, inos, data, cache, ls, events>>

(* pd_download's rename; without the file it fails. *)
FinishPart(m) ==
  LET l == task[m].link
  IN  /\ task[m].at = "copy" /\ task[m].done = Blocks
      /\ \/ /\ pddl[l] # 0
            /\ tmp' = [tmp EXCEPT ![l] = pddl[l]]
            /\ pddl' = [pddl EXCEPT ![l] = 0]
            /\ Doing(m, [task[m] EXCEPT !.at = "publish"])
         \/ /\ pddl[l] = 0
            /\ tmp' = [tmp EXCEPT ![l] = 0]
            /\ Doing(m, Idle)
            /\ UNCHANGED pddl
      /\ UNCHANGED <<rev, table, mountVars, inos, data, cache, ls, events>>

SetMaterialized(l) ==
  [i \in DOMAIN table |-> [table[i] EXCEPT !.materialized = @ \/ table[i].link = l]]

(* ensure_cached's rename, and the flag (an error of the database is       *)
(* ignored).                                                               *)
Publish(m) ==
  LET l == task[m].link
  IN  /\ task[m].at = "publish"
      /\ \/ /\ tmp[l] # 0
            /\ cache' = [cache EXCEPT ![l] = tmp[l]]
            /\ tmp' = [tmp EXCEPT ![l] = 0]
            /\ table' \in {table, SetMaterialized(l)}
         \/ /\ tmp[l] = 0
            /\ UNCHANGED <<table, tmp, cache>>
      /\ Doing(m, Idle)
      /\ UNCHANGED <<rev, mountVars, inos, data, pddl, ls, events>>

(* The call fails: pd_download removes its part, ensure_cached its file.   *)
DownloadFails(m) ==
  LET l == task[m].link
  IN  /\ task[m].at \in {"ask", "create", "copy"}
      /\ events < MaxEvents /\ events' = events + 1
      /\ pddl' = IF task[m].at = "copy" THEN [pddl EXCEPT ![l] = 0] ELSE pddl
      /\ tmp' = [tmp EXCEPT ![l] = 0]
      /\ Doing(m, Idle)
      /\ UNCHANGED <<rev, table, mountVars, inos, data, cache, ls>>

(***************************************************************************)
(* Mounting                                                                *)
(***************************************************************************)
NewMount ==
  /\ mount < MaxMounts
  /\ mount' = mount + 1
  /\ inos' = FirstInodes
  /\ ls' = NotListing
  /\ UNCHANGED <<rev, table, diskVars, events>>

(* SyncController unmounts and mounts again.  The old mount's thread is    *)
(* not waited for: a download it has begun goes on.                        *)
Remount ==
  /\ NewMount
  /\ overtaken' = (overtaken \/ ~Free)
  /\ UNCHANGED task

(* The process dies and is started again. *)
Crash ==
  /\ NewMount
  /\ task' = [m \in Mounts |-> Idle]
  /\ UNCHANGED overtaken

(***************************************************************************)
(* Specification                                                           *)
(***************************************************************************)
Init ==
  /\ rev = [l \in Files |-> 1]
  /\ table = <<>> /\ mount = 1 /\ inos = <<Root>>
  /\ task = [m \in Mounts |-> Idle] /\ overtaken = FALSE
  /\ data = <<>> /\ ls = NotListing
  /\ pddl = [l \in Files |-> 0] /\ tmp = pddl /\ cache = pddl
  /\ events = 0

Download(m) ==
  Ask(m) \/ CreatePart(m) \/ CopyBlock(m) \/ FinishPart(m) \/ Publish(m)
    \/ DownloadFails(m)

Next ==
  \/ \E l \in ReadLinks : Edit(l) \/ Read(l)
  \/ \E p \in Places : StorePlaceholder(p) \/ Lookup(p.parent, Last(p.rel))
  \/ \E dir \in Folders \cup {Root} : OpenDir(dir)
  \/ ReadDir \/ CloseDir
  \/ \E m \in Mounts : Download(m)
  \/ Remount \/ Crash

Spec == Init /\ [][Next]_vars

-----------------------------------------------------------------------------
(* Properties                                                              *)

(* Every variable stays within its type.                                   *)
TypeOK ==
  /\ rev \in [Files -> Nat]
  /\ table \in Seq(Row)
  /\ mount \in Mounts
  /\ inos \in Seq(Links \cup {Root})
  /\ task \in [Mounts -> Task]
  /\ data \in Seq(Content)
  /\ pddl \in [Files -> 0 .. Len(data)]
  /\ tmp \in [Files -> 0 .. Len(data)]
  /\ cache \in [Files -> 0 .. Len(data)]
  /\ events \in Nat

(* File n of the disk is a revision of link l, all of it.                  *)
Whole(l, n) == \E r \in 1 .. rev[l] : \A b \in 1 .. Blocks : data[n][b] = r

CacheIsWhole == \A l \in Files : cache[l] # 0 => Whole(l, cache[l])

(* ensure_cached: a file that read() can find in the cache is a complete   *)
(* revision, whatever crashed or failed while it was downloaded, unless a  *)
(* remount has left a download of the old mount running beside the new's.  *)
CacheWhole == overtaken \/ CacheIsWhole

(* state.rs "True if the file content is present on local disk": a row the *)
(* filesystem has marked is cached, also after its path got another link.  *)
MaterializedIsCached ==
  \A i \in DOMAIN table : table[i].materialized => cache[table[i].link] # 0

(* A listing read in several calls, while the agent inserts and updates    *)
(* rows, has every entry that was there at its start once and nothing      *)
(* twice, as long as no entry changed its directory.                       *)
ListingExact ==
  ls.done /\ ~ls.moved =>
    LET children == SubSeq(ls.names, 3, Len(ls.names))
    IN  ls.start \subseteq ToSet(children) /\ IsInjective(children)

(* Two inodes never name one link, so the kernel caches each file once.    *)
InodesOneToOne == IsInjective(inos)
=============================================================================
