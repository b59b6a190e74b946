-------------------------- MODULE VirtualFsProofs --------------------------
(***************************************************************************)
(* Proofs that a file in the cache is a complete revision, that the table  *)
(* marks only files that are in the cache, that a listing in several calls *)
(* loses and repeats nothing and that no link gets two inodes, for any     *)
(* number of files, blocks, mounts, rows, edits and failures.              *)
(***************************************************************************)
EXTENDS VirtualFsInvariant, SequenceTheorems, WellFoundedInduction, TLAPS

-----------------------------------------------------------------------------
(* Files on disk                                                           *)

(* os.Create of a new file: the files that were there are as they were.    *)
LEMMA NewFile ==
  ASSUME DiskType, data' = Append(data, Empty)
  PROVE  /\ data' \in Seq(Content) /\ Len(data) \in Nat /\ Len(data') = Len(data) + 1
         /\ \A n \in 1 .. Len(data) : data'[n] = data[n]
<1>1. Empty \in Content
  BY DEF Empty, Content
<1>2. data \in Seq(Content)
  BY DEF DiskType
<1> QED
  BY <1>1, <1>2, AppendProperties

(* Writing to one file: the others are as they were.                       *)
LEMMA WriteFile ==
  ASSUME DiskType, NEW n \in 1 .. Len(data), NEW c \in Content,
         data' = [data EXCEPT ![n] = c]
  PROVE  /\ data' \in Seq(Content) /\ Len(data') = Len(data) /\ Len(data) \in Nat
         /\ \A k \in 1 .. Len(data) : data'[k] = IF k = n THEN c ELSE data[k]
<1>1. data \in Seq(Content)
  BY DEF DiskType
<1> QED
  BY <1>1, ExceptSeq

(* io.Copy of one block: the file gets it, and keeps the others.           *)
LEMMA WriteBlock ==
  ASSUME VfsAssumption, DiskType, NEW n \in 1 .. Len(data), NEW b \in 1 .. Blocks,
         NEW r \in Nat, data' = [data EXCEPT ![n][b] = r]
  PROVE  /\ data' \in Seq(Content) /\ Len(data') = Len(data) /\ Len(data) \in Nat
         /\ \A k \in 1 .. Len(data) : k # n => data'[k] = data[k]
         /\ \A a \in 1 .. Blocks : data'[n][a] = IF a = b THEN r ELSE data[n][a]
<1> DEFINE c == [data[n] EXCEPT ![b] = r]
<1>1. data[n] \in Content
  BY ElementOfSeq DEF DiskType
<1>2. /\ c \in Content
      /\ \A a \in 1 .. Blocks : c[a] = IF a = b THEN r ELSE data[n][a]
  BY <1>1 DEF Content
<1>3. data' = [data EXCEPT ![n] = c]
  OBVIOUS
<1> HIDE DEF c
<1>4. /\ data' \in Seq(Content) /\ Len(data') = Len(data) /\ Len(data) \in Nat
      /\ \A k \in 1 .. Len(data) : data'[k] = IF k = n THEN c ELSE data[k]
  BY <1>2, <1>3, WriteFile, ZenonT(60)
<1> QED
  BY <1>2, <1>4

(* A complete revision stays one while its file is not written to and the  *)
(* drive does not forget revisions.                                        *)
LEMMA WholeLasts ==
  ASSUME NEW l \in Files, NEW n, Whole(l, n), data'[n] = data[n],
         rev[l] \in Nat, rev'[l] \in Nat, rev'[l] >= rev[l]
  PROVE  Whole(l, n)'
<1>1. PICK r \in 1 .. rev[l] : \A b \in 1 .. Blocks : data[n][b] = r
  BY DEF Whole
<1>2. r \in 1 .. rev'[l]
  BY <1>1
<1>3. \A b \in 1 .. Blocks : data'[n][b] = r
  BY <1>1
<1> QED
  BY <1>2, <1>3 DEF Whole

(* What is published stays whole while nobody writes to its files.         *)
LEMMA PublishedLast ==
  ASSUME TmpIsWhole, CacheIsWhole, UNCHANGED <<rev, tmp, cache>>,
         \A l \in Files : /\ tmp[l] # 0 => data'[tmp[l]] = data[tmp[l]]
                          /\ cache[l] # 0 => data'[cache[l]] = data[cache[l]]
  PROVE  TmpIsWhole' /\ CacheIsWhole'
<1>1. ASSUME NEW l \in Files, tmp[l] # 0
      PROVE  \E r \in 1 .. rev[l] : \A b \in 1 .. Blocks : data'[tmp[l]][b] = r
  BY <1>1 DEF TmpIsWhole, Whole
<1>2. ASSUME NEW l \in Files, cache[l] # 0
      PROVE  \E r \in 1 .. rev[l] : \A b \in 1 .. Blocks : data'[cache[l]][b] = r
  BY <1>2 DEF CacheIsWhole, Whole
<1> QED
  BY <1>1, <1>2 DEF TmpIsWhole, CacheIsWhole, Whole

-----------------------------------------------------------------------------
(* Steps of the thread of a mount                                          *)

(* A thread that does nothing. *)
LEMMA IdleTask ==
  ASSUME VfsAssumption
  PROVE  Idle \in Task /\ Idle.at = "idle" /\ Idle.done = 0
<1>1. 0 \in Nat /\ 0 \in 0 .. Blocks
  BY DEF VfsAssumption
<1> QED
  BY <1>1 DEF Idle, Task

(* A step that gives one mount another task leaves the others' alone, and  *)
(* files are never deleted under a task: a path may go, the file stays.    *)
LEMMA DoingType ==
  ASSUME DiskType, NEW m \in Mounts, NEW t \in Task, Doing(m, t),
         Len(data') \in Nat, Len(data) \in Nat, Len(data') >= Len(data),
         t.at # "idle" => t.link \in Files,
         t.at = "copy" => t.fd \in 1 .. Len(data')
  PROVE  /\ task' \in [Mounts -> Task] /\ task'[m] = t
         /\ \A k \in Mounts : k # m => task'[k] = task[k]
         /\ \A k \in Mounts :
              /\ task'[k].at # "idle" => task'[k].link \in Files
              /\ task'[k].at = "copy" => task'[k].fd \in 1 .. Len(data')
<1>1. /\ task' \in [Mounts -> Task] /\ task'[m] = t
      /\ \A k \in Mounts : k # m => task'[k] = task[k]
  BY DEF DiskType, Doing
<1>2. ASSUME NEW k \in Mounts
      PROVE  /\ task'[k].at # "idle" => task'[k].link \in Files
             /\ task'[k].at = "copy" => task'[k].fd \in 1 .. Len(data')
  <2>1. CASE k = m
    BY <1>1, <2>1
  <2>2. CASE k # m
    BY <1>1, <2>2 DEF DiskType
  <2> QED
    BY <2>1, <2>2
<1> QED
  BY <1>1, <1>2

(* Unless a download was overtaken, only the current mount has one.        *)
LEMMA OnlyCurrent ==
  ASSUME DiskTrue, NEW m \in Mounts, task[m].at # "idle"
  PROVE  m = mount
BY DEF DiskTrue, Alone
-----------------------------------------------------------------------------
(* Steps that do not touch the cache directory                             *)

(* The agent's and the directories' steps change nothing the invariant     *)
(* speaks of.                                                              *)
LEMMA ElsewhereKeeps ==
  ASSUME CacheInv, UNCHANGED <<rev, mount, overtaken, task, data, pddl, tmp, cache>>
  PROVE  CacheInv'
<1>1. DiskType'
  BY DEF CacheInv, DiskType
<1>2. DiskTrue => DiskTrue'
  BY DEF DiskTrue, Alone, TaskTrue, PartsApart, TmpIsWhole, CacheIsWhole, Whole
<1> QED
  BY <1>1, <1>2 DEF CacheInv

(* A new revision on the drive: what is cached is of an older one.         *)
LEMMA EditKeeps ==
  ASSUME VfsAssumption, CacheInv, NEW e \in ReadLinks, Edit(e)
  PROVE  CacheInv'
<1>1. /\ rev \in [Files -> Nat \ {0}] /\ rev' \in [Files -> Nat \ {0}]
      /\ \A l \in Files : rev'[l] >= rev[l]
      /\ UNCHANGED <<mount, overtaken, task, data, pddl, tmp, cache>>
  BY DEF VfsAssumption, CacheInv, DiskType, Edit, mountVars, diskVars
<1>2. DiskType'
  BY <1>1 DEF CacheInv, DiskType
<1>3. ASSUME DiskTrue PROVE DiskTrue'
  <2>1. Alone' /\ PartsApart'
    BY <1>1, <1>3 DEF DiskTrue, Alone, PartsApart
  <2>2. TaskTrue(task[mount])'
    <3>1. mount \in Mounts /\ task[mount].at \in {"create", "copy"}
            => task[mount].link \in Files
      BY DEF CacheInv, DiskType
    <3> QED
      BY <1>1, <1>3, <3>1 DEF DiskTrue, TaskTrue, CacheInv, DiskType
  <2>3. TmpIsWhole' /\ CacheIsWhole'
    BY <1>1, <1>3, WholeLasts DEF DiskTrue, TmpIsWhole, CacheIsWhole
  <2> QED
    BY <2>1, <2>2, <2>3 DEF DiskTrue
<1> QED
  BY <1>1, <1>2, <1>3 DEF CacheInv

(* A step of a mount's thread that is about its task only.                 *)
LEMMA TaskKeeps ==
  ASSUME CacheInv, NEW m \in Mounts, NEW t \in Task, Doing(m, t),
         UNCHANGED <<rev, mount, overtaken, data, pddl, tmp, cache>>,
         t.at # "idle" => t.link \in Files, t.at \notin {"copy"},
         t.at # "idle" => m = mount \/ overtaken,
         t.at = "create" => t.rev \in 1 .. rev[t.link],
         t.at \in {"ask", "create"} => t.done = 0 \/ overtaken,
         t.at # "idle" => cache[t.link] = 0 \/ overtaken
  PROVE  CacheInv'
<1>1. /\ task' \in [Mounts -> Task] /\ task'[m] = t
      /\ \A k \in Mounts : k # m => task'[k] = task[k]
      /\ \A k \in Mounts :
           /\ task'[k].at # "idle" => task'[k].link \in Files
           /\ task'[k].at = "copy" => task'[k].fd \in 1 .. Len(data')
  <2>1. Len(data) \in Nat /\ Len(data') = Len(data)
    BY LenProperties DEF CacheInv, DiskType
  <2> QED
    BY <2>1, DoingType DEF CacheInv
<1>2. DiskType'
  BY <1>1 DEF CacheInv, DiskType
<1>3. ASSUME DiskTrue, ~overtaken PROVE DiskTrue'
  <2>1. Alone'
    BY <1>1, <1>3 DEF DiskTrue, Alone
  <2>2. TaskTrue(task[mount])'
    BY <1>1, <1>3 DEF DiskTrue, TaskTrue, CacheInv, DiskType
  <2>3. PartsApart' /\ TmpIsWhole' /\ CacheIsWhole'
    BY <1>3 DEF DiskTrue, PartsApart, TmpIsWhole, CacheIsWhole, Whole
  <2> QED
    BY <2>1, <2>2, <2>3 DEF DiskTrue
<1> QED
  BY <1>2, <1>3 DEF CacheInv

(* ensure_cached begins. *)
LEMMA ReadKeeps ==
  ASSUME VfsAssumption, CacheInv, NEW l \in ReadLinks, Read(l)
  PROVE  CacheInv'
<1> DEFINE t == [Idle EXCEPT !.at = "ask", !.link = l]
<1>1. t \in Task /\ t.at = "ask" /\ t.link = l /\ l \in Files /\ t.done = 0
  <2>1. l \in Files
    BY DEF VfsAssumption
  <2> QED
    BY <2>1, IdleTask DEF Task
<1>2. Doing(mount, t) /\ mount \in Mounts /\ cache[l] = 0
  BY DEF Read, CacheInv, DiskType
<1>3. UNCHANGED <<rev, mount, overtaken, data, pddl, tmp, cache>>
  BY DEF Read, mountVars, diskVars
<1> QED
  BY <1>1, <1>2, <1>3, TaskKeeps

(* The bridge learns the active revision. *)
LEMMA AskKeeps ==
  ASSUME CacheInv, NEW m \in Mounts, Ask(m)
  PROVE  CacheInv'
<1> DEFINE t == [task[m] EXCEPT !.at = "create", !.rev = rev[task[m].link]]
<1>1. /\ task[m] \in Task /\ task[m].link \in Files
      /\ rev \in [Files -> Nat \ {0}]
  BY DEF CacheInv, DiskType, Ask
<1>2. /\ t \in Task /\ t.at = "create" /\ t.link = task[m].link
      /\ t.rev \in 1 .. rev[t.link] /\ t.done = task[m].done
  <2> DEFINE r == rev[task[m].link]
  <2>1. r \in Nat \ {0} /\ t = [task[m] EXCEPT !.at = "create", !.rev = r]
    BY <1>1
  <2> HIDE DEF r
  <2>2. /\ t \in Task /\ t.at = "create" /\ t.link = task[m].link /\ t.rev = r
        /\ t.done = task[m].done
    BY <1>1, <2>1 DEF Task
  <2> QED
    BY <2>1, <2>2 DEF r
<1>3. Doing(m, t) /\ UNCHANGED <<rev, mount, overtaken, data, pddl, tmp, cache>>
  BY DEF Ask, mountVars, diskVars
<1>4. \/ m = mount /\ task[m].done = 0 /\ cache[task[m].link] = 0
      \/ overtaken
  BY OnlyCurrent DEF CacheInv, DiskTrue, TaskTrue, Ask
<1> HIDE DEF t
<1> QED
  BY <1>1, <1>2, <1>3, <1>4, TaskKeeps

-----------------------------------------------------------------------------
(* Steps on the cache directory                                            *)

(* os.Create of a part file that is not there: it has a file of its own.   *)
LEMMA CreateNewKeeps ==
  ASSUME VfsAssumption, CacheInv, NEW m \in Mounts, CreatePart(m),
         pddl[task[m].link] = 0
  PROVE  CacheInv'
<1> DEFINE l == task[m].link
           n == Len(data) + 1
           t == [task[m] EXCEPT !.at = "copy", !.fd = n]
<1>1. /\ task[m].at = "create" /\ data' = Append(data, Empty)
      /\ pddl' = [pddl EXCEPT ![l] = n] /\ Doing(m, t)
      /\ UNCHANGED <<rev, mount, overtaken, tmp, cache>>
  BY DEF CreatePart, mountVars
<1>2. /\ task[m] \in Task /\ l \in Files /\ DiskType
  BY <1>1 DEF CacheInv, DiskType
<1>3. /\ data' \in Seq(Content) /\ Len(data) \in Nat /\ Len(data') = n
      /\ \A k \in 1 .. Len(data) : data'[k] = data[k]
  BY <1>1, <1>2, NewFile
<1> HIDE DEF n
<1>4. n \in Nat \ {0} /\ n > Len(data) /\ n \in 1 .. Len(data')
  BY <1>3 DEF n
<1>5. /\ t \in Task /\ t.at = "copy" /\ t.fd = n /\ t.link = l
      /\ t.rev = task[m].rev /\ t.done = task[m].done
  BY <1>2, <1>4 DEF Task
<1> HIDE DEF t
<1>6. /\ task' \in [Mounts -> Task] /\ task'[m] = t
      /\ \A k \in Mounts : k # m => task'[k] = task[k]
      /\ \A k \in Mounts :
           /\ task'[k].at # "idle" => task'[k].link \in Files
           /\ task'[k].at = "copy" => task'[k].fd \in 1 .. Len(data')
  BY <1>1, <1>2, <1>3, <1>4, <1>5, DoingType
<1>7. DiskType'
  <2>1. /\ pddl' \in [Files -> 0 .. Len(data')]
        /\ tmp' \in [Files -> 0 .. Len(data')]
        /\ cache' \in [Files -> 0 .. Len(data')]
    BY <1>1, <1>2, <1>3, <1>4 DEF DiskType
  <2> QED
    BY <1>1, <1>2, <1>3, <1>6, <2>1 DEF DiskType
<1>8. ASSUME DiskTrue, ~overtaken PROVE DiskTrue'
  <2>1. m = mount /\ task[m].done = 0
    BY <1>1, <1>8, OnlyCurrent DEF DiskTrue, TaskTrue
  <2>2. Alone'
    BY <1>1, <1>6, <1>8, <2>1 DEF DiskTrue, Alone
  <2>3. TaskTrue(task[mount])'
    <3>1. /\ task'[mount'] = t /\ t.done = 0 /\ t.rev \in 1 .. rev'[t.link]
          /\ pddl'[t.link] = t.fd /\ cache'[t.link] = 0
      BY <1>1, <1>2, <1>5, <1>6, <1>8, <2>1 DEF DiskTrue, TaskTrue, DiskType
    <3> QED
      BY <1>5, <3>1 DEF TaskTrue
  <2>4. PartsApart'
    <3>1. PartsApart /\ \A k \in Files : tmp[k] <= Len(data) /\ cache[k] <= Len(data)
      BY <1>2, <1>8 DEF DiskTrue, DiskType
    <3> QED
      BY <1>1, <1>2, <1>3, <1>4, <3>1 DEF PartsApart, DiskType
  <2>5. TmpIsWhole' /\ CacheIsWhole'
    <3>1. \A k \in Files : /\ tmp[k] # 0 => data'[tmp[k]] = data[tmp[k]]
                           /\ cache[k] # 0 => data'[cache[k]] = data[cache[k]]
      BY <1>2, <1>3 DEF DiskType
    <3> QED
      BY <1>1, <1>8, <3>1, PublishedLast DEF DiskTrue
  <2> QED
    BY <2>2, <2>3, <2>4, <2>5 DEF DiskTrue
<1> QED
  BY <1>1, <1>7, <1>8 DEF CacheInv

(* os.Create of a part file that a crash left behind: it is emptied, and   *)
(* nothing published is the same file.                                     *)
LEMMA CreateOldKeeps ==
  ASSUME VfsAssumption, CacheInv, NEW m \in Mounts, CreatePart(m),
         pddl[task[m].link] # 0
  PROVE  CacheInv'
<1> DEFINE l == task[m].link
           n == pddl[l]
           t == [task[m] EXCEPT !.at = "copy", !.fd = n]
<1> HIDE DEF t
<1>1. /\ task[m].at = "create" /\ data' = [data EXCEPT ![n] = Empty] /\ n # 0
      /\ Doing(m, t) /\ UNCHANGED <<rev, mount, overtaken, pddl, tmp, cache>>
  BY DEF CreatePart, mountVars, t
<1>2. /\ task[m] \in Task /\ l \in Files /\ DiskType /\ Empty \in Content
  BY <1>1 DEF CacheInv, DiskType, Empty, Content
<1>3. n \in 1 .. Len(data) /\ Len(data) \in Nat /\ n \in Nat
  BY <1>1, <1>2, LenProperties DEF DiskType
<1> HIDE DEF n
<1>4. /\ data' \in Seq(Content) /\ Len(data') = Len(data)
      /\ \A k \in 1 .. Len(data) : k # n => data'[k] = data[k]
  <2>1. /\ data' \in Seq(Content) /\ Len(data') = Len(data) /\ Len(data) \in Nat
        /\ \A k \in 1 .. Len(data) : data'[k] = IF k = n THEN Empty ELSE data[k]
    BY <1>1, <1>2, <1>3, WriteFile, Zenon
  <2> QED
    BY <2>1
<1>5. /\ t \in Task /\ t.at = "copy" /\ t.fd = n /\ t.link = l
      /\ t.rev = task[m].rev /\ t.done = task[m].done
  BY <1>2, <1>3 DEF Task, t
<1>6. /\ task' \in [Mounts -> Task] /\ task'[m] = t
      /\ \A k \in Mounts : k # m => task'[k] = task[k]
      /\ \A k \in Mounts :
           /\ task'[k].at # "idle" => task'[k].link \in Files
           /\ task'[k].at = "copy" => task'[k].fd \in 1 .. Len(data')
  BY <1>1, <1>2, <1>3, <1>4, <1>5, DoingType
<1>7. DiskType'
  BY <1>1, <1>2, <1>4, <1>6 DEF DiskType
<1>8. ASSUME DiskTrue, ~overtaken PROVE DiskTrue'
  <2>1. m = mount /\ task[m].done = 0
    BY <1>1, <1>8, OnlyCurrent DEF DiskTrue, TaskTrue
  <2>2. Alone' /\ PartsApart'
    BY <1>1, <1>6, <1>8, <2>1 DEF DiskTrue, Alone, PartsApart
  <2>3. TaskTrue(task[mount])'
    <3>1. /\ task'[mount'] = t /\ t.done = 0 /\ t.rev \in 1 .. rev'[t.link]
          /\ pddl'[t.link] = t.fd /\ cache'[t.link] = 0
      BY <1>1, <1>2, <1>5, <1>6, <1>8, <2>1 DEF DiskTrue, TaskTrue, DiskType, n
    <3> QED
      BY <1>5, <3>1 DEF TaskTrue
  <2>4. TmpIsWhole' /\ CacheIsWhole'
    <3>1. \A k \in Files : tmp[k] # n /\ cache[k] # n
      BY <1>1, <1>2, <1>8 DEF DiskTrue, PartsApart, n
    <3>2. \A k \in Files : /\ tmp[k] # 0 => data'[tmp[k]] = data[tmp[k]]
                           /\ cache[k] # 0 => data'[cache[k]] = data[cache[k]]
      BY <1>2, <1>3, <1>4, <3>1 DEF DiskType
    <3> QED
      BY <1>1, <1>8, <3>2, PublishedLast DEF DiskTrue
  <2> QED
    BY <2>2, <2>3, <2>4 DEF DiskTrue
<1> QED
  BY <1>1, <1>7, <1>8 DEF CacheInv

(* One more block of the part file is of the revision being downloaded.    *)
LEMMA CopyKeeps ==
  ASSUME VfsAssumption, CacheInv, NEW m \in Mounts, CopyBlock(m)
  PROVE  CacheInv'
<1> DEFINE l == task[m].link
           n == task[m].fd
           b == task[m].done + 1
           t == [task[m] EXCEPT !.done = b]
<1> HIDE DEF t
<1>1. /\ task[m].at = "copy" /\ task[m].done < Blocks
      /\ data' = [data EXCEPT ![n][b] = task[m].rev]
      /\ Doing(m, t) /\ UNCHANGED <<rev, mount, overtaken, pddl, tmp, cache>>
  BY DEF CopyBlock, mountVars, t
<1>2. /\ task[m] \in Task /\ l \in Files /\ DiskType /\ n \in 1 .. Len(data)
  BY <1>1 DEF CacheInv, DiskType
<1>3. /\ b \in 1 .. Blocks /\ b \in 0 .. Blocks /\ task[m].rev \in Nat
      /\ b - 1 = task[m].done
  <2>1. task[m].done \in 0 .. Blocks /\ task[m].rev \in Nat
    BY <1>2 DEF Task
  <2>2. Blocks \in Nat
    BY VfsAssumption
  <2> QED
    BY <1>1, <2>1, <2>2
<1> HIDE DEF b, n
<1>4. /\ data' \in Seq(Content) /\ Len(data') = Len(data) /\ Len(data) \in Nat
      /\ \A k \in 1 .. Len(data) : k # n => data'[k] = data[k]
      /\ \A a \in 1 .. Blocks :
           data'[n][a] = IF a = b THEN task[m].rev ELSE data[n][a]
  BY <1>1, <1>2, <1>3, WriteBlock, ZenonT(60)
<1>5. /\ t \in Task /\ t.at = "copy" /\ t.fd = n /\ t.link = l
      /\ t.rev = task[m].rev /\ t.done = b
  BY <1>1, <1>2, <1>3 DEF Task, t, n
<1>6. /\ task' \in [Mounts -> Task] /\ task'[m] = t
      /\ \A k \in Mounts : k # m => task'[k] = task[k]
      /\ \A k \in Mounts :
           /\ task'[k].at # "idle" => task'[k].link \in Files
           /\ task'[k].at = "copy" => task'[k].fd \in 1 .. Len(data')
  BY <1>1, <1>2, <1>4, <1>5, DoingType
<1>7. DiskType'
  BY <1>1, <1>2, <1>4, <1>6 DEF DiskType
<1>8. ASSUME DiskTrue, ~overtaken PROVE DiskTrue'
  <2>1. /\ m = mount /\ n = pddl[l] /\ task[m].rev \in 1 .. rev[l] /\ cache[l] = 0
        /\ \A a \in 1 .. b - 1 : data[n][a] = task[m].rev
    BY <1>1, <1>3, <1>8, OnlyCurrent DEF DiskTrue, TaskTrue, n
  <2>2. Alone' /\ PartsApart'
    BY <1>1, <1>6, <1>8, <2>1 DEF DiskTrue, Alone, PartsApart
  <2>3. TaskTrue(task[mount])'
    <3>1. \A a \in 1 .. b : data'[n][a] = task[m].rev
      <4>1. \A a \in 1 .. b : a \in 1 .. Blocks /\ (a = b \/ a \in 1 .. b - 1)
        BY <1>3 DEF VfsAssumption
      <4> QED
        BY <1>4, <2>1, <4>1
    <3>2. task'[mount'] = t
      BY <1>1, <1>6, <2>1
    <3> QED
      BY <1>1, <1>5, <2>1, <3>1, <3>2 DEF TaskTrue
  <2>4. TmpIsWhole' /\ CacheIsWhole'
    <3>1. \A k \in Files : tmp[k] # n /\ cache[k] # n
      BY <1>2, <1>8, <2>1 DEF DiskTrue, PartsApart
    <3>2. \A k \in Files : /\ tmp[k] # 0 => data'[tmp[k]] = data[tmp[k]]
                           /\ cache[k] # 0 => data'[cache[k]] = data[cache[k]]
      BY <1>2, <1>4, <3>1 DEF DiskType
    <3> QED
      BY <1>1, <1>8, <3>2, PublishedLast DEF DiskTrue
  <2> QED
    BY <2>2, <2>3, <2>4 DEF DiskTrue
<1> QED
  BY <1>1, <1>7, <1>8 DEF CacheInv

(* What the paths name after a step that writes to no file is whole.       *)
PathsTrueAfter ==
  /\ \A k \in Files : /\ tmp'[k] # 0 => Whole(k, tmp'[k])
                      /\ cache'[k] # 0 => Whole(k, cache'[k])
  /\ PartsApart'

(* A thread's step that renames or removes paths and writes to no file.    *)
LEMMA PathsKeep ==
  ASSUME CacheInv, NEW m \in Mounts, NEW t \in Task, Doing(m, t),
         t.at \in {"idle", "publish"}, t.at = "publish" => t.link \in Files,
         task[m].at # "idle", UNCHANGED <<rev, mount, overtaken, data>>,
         pddl' \in [Files -> 0 .. Len(data)], tmp' \in [Files -> 0 .. Len(data)],
         cache' \in [Files -> 0 .. Len(data)],
         DiskTrue /\ m = mount => PathsTrueAfter,
         DiskTrue /\ m = mount /\ t.at = "publish" => cache'[t.link] = 0
  PROVE  CacheInv'
<1>1. Len(data) \in Nat /\ Len(data') = Len(data)
  BY LenProperties DEF CacheInv, DiskType
<1>2. /\ task' \in [Mounts -> Task] /\ task'[m] = t
      /\ \A k \in Mounts : k # m => task'[k] = task[k]
      /\ \A k \in Mounts :
           /\ task'[k].at # "idle" => task'[k].link \in Files
           /\ task'[k].at = "copy" => task'[k].fd \in 1 .. Len(data')
  BY <1>1, DoingType DEF CacheInv
<1>3. DiskType'
  BY <1>1, <1>2 DEF CacheInv, DiskType
<1>4. ASSUME DiskTrue, ~overtaken PROVE DiskTrue'
  <2>1. m = mount
    BY <1>4, OnlyCurrent
  <2>2. Alone'
    BY <1>2, <1>4, <2>1 DEF DiskTrue, Alone
  <2>3. TaskTrue(task[mount])'
    BY <1>2, <1>4, <2>1 DEF TaskTrue
  <2>4. TmpIsWhole' /\ CacheIsWhole'
    <3>1. PathsTrueAfter
      BY <1>4, <2>1, Zenon
    <3>2. ASSUME NEW k \in Files
          PROVE  /\ tmp'[k] # 0 => \E r \in 1 .. rev[k] :
                                      \A b \in 1 .. Blocks : data[tmp'[k]][b] = r
                 /\ cache'[k] # 0 => \E r \in 1 .. rev[k] :
                                        \A b \in 1 .. Blocks : data[cache'[k]][b] = r
      BY <3>1, Zenon DEF PathsTrueAfter, Whole
    <3>3. rev' = rev /\ data' = data
      OBVIOUS
    <3>4. ASSUME NEW k \in Files
          PROVE  /\ tmp'[k] # 0 => \E r \in 1 .. rev'[k] :
                                      \A b \in 1 .. Blocks : data'[tmp'[k]][b] = r
                 /\ cache'[k] # 0 => \E r \in 1 .. rev'[k] :
                                        \A b \in 1 .. Blocks : data'[cache'[k]][b] = r
      BY <3>2, <3>3
    <3> QED
      BY <3>4, Zenon DEF TmpIsWhole, CacheIsWhole, Whole
  <2> QED
    BY <1>4, <2>1, <2>2, <2>3, <2>4 DEF DiskTrue, PathsTrueAfter
<1> QED
  BY <1>3, <1>4 DEF CacheInv

(* pd_download's rename publishes a part file with all its blocks.         *)
LEMMA FinishKeeps ==
  ASSUME VfsAssumption, CacheInv, NEW m \in Mounts, FinishPart(m)
  PROVE  CacheInv'
<1> DEFINE l == task[m].link
<1>1. /\ task[m].at = "copy" /\ task[m].done = Blocks
      /\ UNCHANGED <<rev, mount, overtaken, data, cache>>
  BY DEF FinishPart, mountVars
<1>2. /\ task[m] \in Task /\ l \in Files
      /\ pddl \in [Files -> 0 .. Len(data)] /\ tmp \in [Files -> 0 .. Len(data)]
      /\ cache \in [Files -> 0 .. Len(data)]
      /\ Len(data) \in Nat
  BY <1>1, LenProperties DEF CacheInv, DiskType
<1> HIDE DEF l
<1>3. CASE pddl[l] = 0
  <2>1. Doing(m, Idle) /\ UNCHANGED pddl /\ tmp' = [tmp EXCEPT ![l] = 0]
    BY <1>3 DEF FinishPart, l
  <2>2. /\ tmp' \in [Files -> 0 .. Len(data)]
        /\ \A k \in Files : tmp'[k] = IF k = l THEN 0 ELSE tmp[k]
    BY <1>2, <2>1
  <2>3. DiskTrue /\ m = mount => PathsTrueAfter
    BY <1>1, <2>1, <2>2
       DEF DiskTrue, TmpIsWhole, CacheIsWhole, PartsApart, PathsTrueAfter
  <2> QED
    <3>1. /\ Idle \in Task /\ Idle.at = "idle" /\ task[m].at # "idle"
          /\ cache' \in [Files -> 0 .. Len(data)] /\ pddl' \in [Files -> 0 .. Len(data)]
      BY <1>1, <1>2, <2>1, IdleTask
    <3> QED
      BY <1>1, <2>1, <2>2, <2>3, <3>1, PathsKeep
<1>4. CASE pddl[l] # 0
  <2> DEFINE t == [task[m] EXCEPT !.at = "publish"]
  <2> HIDE DEF t
  <2>1. /\ Doing(m, t) /\ tmp' = [tmp EXCEPT ![l] = pddl[l]]
        /\ pddl' = [pddl EXCEPT ![l] = 0]
    BY <1>4 DEF FinishPart, t, l
  <2>2. t \in Task /\ t.at = "publish" /\ t.link = l /\ l \in Files
    BY <1>2 DEF Task, t, l
  <2>3. /\ pddl' \in [Files -> 0 .. Len(data)] /\ tmp' \in [Files -> 0 .. Len(data)]
        /\ \A k \in Files : /\ tmp'[k] = IF k = l THEN pddl[l] ELSE tmp[k]
                            /\ pddl'[k] = IF k = l THEN 0 ELSE pddl[k]
    BY <1>2, <2>1
  <2>4. ASSUME DiskTrue, m = mount PROVE PathsTrueAfter
    <3>1. Whole(l, pddl[l])
      BY <1>1, <2>4 DEF DiskTrue, TaskTrue, Whole, l
    <3>2. PartsApart'
      <4>1. PartsApart
        BY <2>4 DEF DiskTrue
      <4>2. ASSUME NEW a \in Files, pddl'[a] # 0, NEW k \in Files
            PROVE  /\ pddl'[a] # tmp'[k] /\ pddl'[a] # cache'[k]
                   /\ k # a => pddl'[a] # pddl'[k]
        <5>1. a # l /\ pddl'[a] = pddl[a] /\ pddl[a] # 0
          BY <2>3, <4>2
        <5>2. pddl[a] # pddl[l] /\ pddl[a] # tmp[k] /\ pddl[a] # cache[k]
          BY <1>2, <4>1, <5>1 DEF PartsApart
        <5> QED
          BY <1>1, <2>3, <4>1, <5>1, <5>2 DEF PartsApart
      <4> QED
        BY <4>2 DEF PartsApart
    <3> QED
      BY <1>1, <2>3, <2>4, <3>1, <3>2
         DEF DiskTrue, TmpIsWhole, CacheIsWhole, PathsTrueAfter
  <2> QED
    <3>1. /\ cache' \in [Files -> 0 .. Len(data)] /\ task[m].at # "idle"
          /\ DiskTrue /\ m = mount => cache'[l] = 0
      BY <1>1, <1>2 DEF DiskTrue, TaskTrue, l
    <3> QED
      BY <1>1, <2>1, <2>2, <2>3, <2>4, <3>1, PathsKeep
<1> QED
  BY <1>3, <1>4

(* ensure_cached's rename publishes what pd_download has finished.         *)
LEMMA PublishKeeps ==
  ASSUME VfsAssumption, CacheInv, NEW m \in Mounts, Publish(m)
  PROVE  CacheInv'
<1> DEFINE l == task[m].link
<1>1. /\ task[m].at = "publish" /\ Doing(m, Idle)
      /\ UNCHANGED <<rev, mount, overtaken, data, pddl>>
  BY DEF Publish, mountVars
<1>2. /\ l \in Files
      /\ pddl \in [Files -> 0 .. Len(data)] /\ tmp \in [Files -> 0 .. Len(data)]
      /\ cache \in [Files -> 0 .. Len(data)]
      /\ Len(data) \in Nat
  BY <1>1, LenProperties DEF CacheInv, DiskType
<1> HIDE DEF l
<1>3. \/ UNCHANGED <<tmp, cache>>
      \/ /\ tmp[l] # 0 /\ tmp' = [tmp EXCEPT ![l] = 0]
         /\ cache' = [cache EXCEPT ![l] = tmp[l]]
  BY DEF Publish, l
<1>4. /\ tmp' \in [Files -> 0 .. Len(data)] /\ cache' \in [Files -> 0 .. Len(data)]
      /\ \A k \in Files : /\ tmp'[k] \in {0, tmp[k]}
                          /\ cache'[k] \in {cache[k], tmp[k]}
  <2>1. CASE UNCHANGED <<tmp, cache>>
    BY <1>2, <2>1
  <2>2. CASE /\ tmp[l] # 0 /\ tmp' = [tmp EXCEPT ![l] = 0]
             /\ cache' = [cache EXCEPT ![l] = tmp[l]]
    BY <1>2, <2>2
  <2> QED
    BY <1>3, <2>1, <2>2
<1>5. DiskTrue /\ m = mount => PathsTrueAfter
  <2> SUFFICES ASSUME DiskTrue PROVE PathsTrueAfter
    OBVIOUS
  <2>1. PartsApart'
    BY <1>1, <1>4 DEF DiskTrue, PartsApart
  <2> QED
    BY <1>4, <2>1 DEF DiskTrue, TmpIsWhole, CacheIsWhole, PathsTrueAfter
<1> QED
  <2>1. /\ Idle \in Task /\ Idle.at = "idle" /\ task[m].at # "idle"
        /\ pddl' \in [Files -> 0 .. Len(data)]
    BY <1>1, <1>2, IdleTask
  <2> QED
    BY <1>1, <1>4, <1>5, <2>1, PathsKeep

(* A failed download removes its own paths.                                *)
LEMMA FailKeeps ==
  ASSUME VfsAssumption, CacheInv, NEW m \in Mounts, DownloadFails(m)
  PROVE  CacheInv'
<1> DEFINE l == task[m].link
<1>1. /\ task[m].at \in {"ask", "create", "copy"} /\ Doing(m, Idle)
      /\ UNCHANGED <<rev, mount, overtaken, data, cache>>
      /\ tmp' = [tmp EXCEPT ![l] = 0]
      /\ pddl' = pddl \/ pddl' = [pddl EXCEPT ![l] = 0]
  BY DEF DownloadFails, mountVars
<1>2. /\ l \in Files
      /\ pddl \in [Files -> 0 .. Len(data)] /\ tmp \in [Files -> 0 .. Len(data)]
      /\ cache \in [Files -> 0 .. Len(data)]
      /\ Len(data) \in Nat
  BY <1>1, LenProperties DEF CacheInv, DiskType
<1>3. /\ tmp' \in [Files -> 0 .. Len(data)] /\ pddl' \in [Files -> 0 .. Len(data)]
      /\ \A k \in Files : tmp'[k] \in {0, tmp[k]} /\ pddl'[k] \in {0, pddl[k]}
  BY <1>1, <1>2, SMTT(30)
<1>4. DiskTrue /\ m = mount => PathsTrueAfter
  <2> SUFFICES ASSUME DiskTrue PROVE PathsTrueAfter
    OBVIOUS
  <2>1. PartsApart'
    BY <1>1, <1>3 DEF DiskTrue, PartsApart
  <2> QED
    BY <1>1, <1>3, <2>1 DEF DiskTrue, TmpIsWhole, CacheIsWhole, PathsTrueAfter
<1> QED
  <2>1. /\ Idle \in Task /\ Idle.at = "idle" /\ task[m].at # "idle"
        /\ cache' \in [Files -> 0 .. Len(data)]
    BY <1>1, <1>2, IdleTask
  <2> QED
    BY <1>1, <1>3, <1>4, <2>1, PathsKeep

(* A remount: either nothing was being downloaded, or it counts as one     *)
(* that overtook a download.                                               *)
LEMMA RemountKeeps ==
  ASSUME VfsAssumption, CacheInv, Remount
  PROVE  CacheInv'
<1>1. /\ mount \in Mounts /\ mount' = mount + 1 /\ mount' \in Mounts
      /\ overtaken' = (overtaken \/ task[mount].at # "idle")
      /\ UNCHANGED <<rev, task, data, pddl, tmp, cache>>
  BY DEF CacheInv, DiskType, Remount, NewMount, Free, Mounts, VfsAssumption,
         diskVars
<1>2. DiskType'
  <2>1. overtaken' \in BOOLEAN
    BY <1>1
  <2> QED
    BY <1>1, <2>1 DEF CacheInv, DiskType
<1>3. ASSUME DiskTrue, task[mount].at = "idle" PROVE DiskTrue'
  <2>1. \A m \in Mounts : task[m].at = "idle"
    BY <1>1, <1>3 DEF DiskTrue, Alone
  <2>2. Alone' /\ TaskTrue(task[mount])'
    BY <1>1, <2>1 DEF Alone, TaskTrue
  <2>3. PartsApart' /\ TmpIsWhole' /\ CacheIsWhole'
    BY <1>1, <1>3 DEF DiskTrue, PartsApart, TmpIsWhole, CacheIsWhole, Whole
  <2> QED
    BY <2>2, <2>3 DEF DiskTrue
<1> QED
  BY <1>1, <1>2, <1>3 DEF CacheInv

(* After a crash no thread is left, and what it published stays.           *)
LEMMA CrashKeeps ==
  ASSUME VfsAssumption, CacheInv, Crash
  PROVE  CacheInv'
<1>1. /\ mount' \in Mounts /\ task' = [m \in Mounts |-> Idle]
      /\ UNCHANGED <<rev, overtaken, data, pddl, tmp, cache>>
  BY DEF CacheInv, DiskType, Crash, NewMount, Mounts, VfsAssumption, diskVars
<1>2. \A m \in Mounts : task'[m] \in Task /\ task'[m].at = "idle"
  BY <1>1, IdleTask
<1>3. DiskType'
  <2>1. task' \in [Mounts -> Task]
    BY <1>1, <1>2
  <2> QED
    BY <1>1, <1>2, <2>1 DEF CacheInv, DiskType
<1>4. ASSUME DiskTrue PROVE DiskTrue'
  <2>1. Alone' /\ TaskTrue(task[mount])'
    BY <1>1, <1>2 DEF Alone, TaskTrue
  <2>2. PartsApart' /\ TmpIsWhole' /\ CacheIsWhole'
    BY <1>1, <1>4 DEF DiskTrue, PartsApart, TmpIsWhole, CacheIsWhole, Whole
  <2> QED
    BY <2>1, <2>2 DEF DiskTrue
<1> QED
  BY <1>1, <1>3, <1>4 DEF CacheInv

-----------------------------------------------------------------------------
(* The theorems                                                            *)

(* At first nothing is cached and nothing downloads.                       *)
LEMMA InitKeeps == ASSUME VfsAssumption, Init PROVE CacheInv
<1>1. /\ rev = [l \in Files |-> 1] /\ mount = 1 /\ overtaken = FALSE /\ data = <<>>
      /\ pddl = [l \in Files |-> 0] /\ tmp = pddl /\ cache = pddl
      /\ task = [m \in Mounts |-> Idle]
  BY DEF Init
<1>2. data \in Seq(Content) /\ Len(data) = 0 /\ mount \in Mounts
  BY <1>1 DEF Mounts, VfsAssumption
<1>3. \A m \in Mounts : task[m] \in Task /\ task[m].at = "idle"
  BY <1>1, IdleTask
<1>4. \A l \in Files : pddl[l] = 0 /\ tmp[l] = 0 /\ cache[l] = 0
  BY <1>1
<1>5. DiskType
  <2>1. rev \in [Files -> Nat \ {0}] /\ task \in [Mounts -> Task]
    BY <1>1, <1>3
  <2>2. /\ pddl \in [Files -> 0 .. Len(data)] /\ tmp \in [Files -> 0 .. Len(data)]
        /\ cache \in [Files -> 0 .. Len(data)]
    BY <1>1, <1>2
  <2> QED
    BY <1>1, <1>2, <1>3, <2>1, <2>2 DEF DiskType
<1>6. DiskTrue
  BY <1>2, <1>3, <1>4
     DEF DiskTrue, Alone, TaskTrue, PartsApart, TmpIsWhole, CacheIsWhole
<1> QED
  BY <1>5, <1>6 DEF CacheInv

(* Every step keeps the cache directory as CacheInv has it.                *)
LEMMA NextKeeps == ASSUME VfsAssumption, CacheInv, [Next]_vars PROVE CacheInv'
<1>1. ASSUME NEW l \in ReadLinks, Edit(l) \/ Read(l) PROVE CacheInv'
  BY <1>1, EditKeeps, ReadKeeps
<1>2. ASSUME NEW p \in Places, StorePlaceholder(p) \/ Lookup(p.parent, Last(p.rel))
      PROVE  CacheInv'
  BY <1>2, ElsewhereKeeps DEF StorePlaceholder, Lookup, mountVars, diskVars
<1>3. ASSUME NEW dir, OpenDir(dir) \/ ReadDir \/ CloseDir PROVE CacheInv'
  BY <1>3, ElsewhereKeeps DEF OpenDir, ReadDir, CloseDir, mountVars, diskVars
<1>4. ASSUME NEW m \in Mounts, Download(m) PROVE CacheInv'
  <2>1. CASE Ask(m)
    BY <2>1, AskKeeps
  <2>2. CASE CreatePart(m)
    BY <2>2, CreateNewKeeps, CreateOldKeeps
  <2>3. CASE CopyBlock(m)
    BY <2>3, CopyKeeps
  <2>4. CASE FinishPart(m)
    BY <2>4, FinishKeeps
  <2>5. CASE Publish(m)
    BY <2>5, PublishKeeps
  <2>6. CASE DownloadFails(m)
    BY <2>6, FailKeeps
  <2> QED
    BY <1>4, <2>1, <2>2, <2>3, <2>4, <2>5, <2>6 DEF Download
<1>5. CASE Remount \/ Crash
  BY <1>5, RemountKeeps, CrashKeeps
<1>6. CASE UNCHANGED vars
  BY <1>6, ElsewhereKeeps DEF vars, mountVars, diskVars
<1> QED
  BY <1>1, <1>2, <1>3, <1>4, <1>5, <1>6 DEF Next

(* The invariant of the cache directory holds in every reachable state.    *)
THEOREM CacheInvariant == Spec => []CacheInv
<1>1. Init => CacheInv
  BY VfsAssumption, InitKeeps
<1>2. CacheInv /\ [Next]_vars => CacheInv'
  BY VfsAssumption, NextKeeps
<1> QED
  BY <1>1, <1>2, PTL DEF Spec

(* ensure_cached publishes complete revisions only, through failures and   *)
(* crashes, as long as no remount overtakes a download.                    *)
THEOREM CacheIsAlwaysWhole == Spec => []CacheWhole
<1>1. CacheInv => CacheWhole
  BY DEF CacheInv, DiskTrue, CacheWhole
<1> QED
  BY <1>1, CacheInvariant, PTL

-----------------------------------------------------------------------------
(* The flags of the table                                                  *)

(* What the agent stores of a node is a row.                               *)
LEMMA PlaceholderIsRow ==
  ASSUME VfsAssumption, DiskType, NEW p \in Places
  PROVE  /\ Placeholder(p) \in Row
         /\ Placeholder(p).rel = p.rel /\ Placeholder(p).parent = p.parent
         /\ Placeholder(p).materialized = FALSE
<1> DEFINE r == IF p.folder THEN 0 ELSE rev[p.link]
           row == Placeholder(p)
<1>1. /\ p.rel \in Rels /\ p.link \in Links /\ p.parent \in Folders \cup {Root}
      /\ p.folder \in BOOLEAN
  BY DEF Rels, Links, VfsAssumption
<1>2. ~p.folder => p.link \in Files
  BY <1>1 DEF Files, VfsAssumption
<1>3. r \in Nat
  BY <1>1, <1>2 DEF DiskType
<1>4. row = [rel |-> p.rel, link |-> p.link, parent |-> p.parent, folder |-> p.folder,
             rev |-> r, materialized |-> FALSE]
  BY DEF Placeholder
<1> HIDE DEF r, row
<1>5. row \in Row /\ row.rel = p.rel /\ row.parent = p.parent /\ row.materialized = FALSE
  BY <1>1, <1>3, <1>4 DEF Row
<1> QED
  BY <1>5 DEF row

(* The agent's row replaces one of the same path, with the flag taken      *)
(* back, or is added.                                                      *)
LEMMA StoreKeepsFlags ==
  ASSUME VfsAssumption, DiskType, FlagInv, NEW p \in Places, StorePlaceholder(p)
  PROVE  FlagInv'
<1> DEFINE row == Placeholder(p)
<1>1. row \in Row /\ row.materialized = FALSE
  BY PlaceholderIsRow
<1>2. table \in Seq(Row) /\ Len(table) \in Nat /\ DOMAIN table = 1 .. Len(table)
  BY LenProperties DEF FlagInv
<1>3. table' = Upsert(row) /\ UNCHANGED cache
  BY DEF StorePlaceholder, diskVars
<1> HIDE DEF row
<1>4. table' \in Seq(Row) /\ \A i \in DOMAIN table' : (i \in DOMAIN table /\ table'[i] = table[i]) \/ table'[i] = row
  <2>1. CASE table' = [i \in DOMAIN table |-> IF table[i].rel = row.rel THEN row ELSE table[i]]
    <3>1. \A i \in DOMAIN table : table[i] \in Row
      BY <1>2, ElementOfSeq
    <3>2. table' \in [1 .. Len(table) -> Row]
      BY <1>1, <1>2, <2>1, <3>1
    <3>3. table' \in Seq(Row)
      BY <1>2, <3>2, IsASeq
    <3> QED
      BY <2>1, <3>3
  <2>2. CASE table' = Append(table, row)
    <3>1. /\ Append(table, row) \in Seq(Row)
          /\ Len(Append(table, row)) = Len(table) + 1
          /\ \A i \in 1 .. Len(table) : Append(table, row)[i] = table[i]
          /\ Append(table, row)[Len(table) + 1] = row
      BY <1>1, <1>2, AppendProperties
    <3>2. DOMAIN Append(table, row) = 1 .. Len(table) + 1
      BY <3>1, LenProperties
    <3> QED
      BY <1>2, <2>2, <3>1, <3>2
  <2> QED
    BY <1>3, <2>1, <2>2 DEF Upsert
<1> QED
  BY <1>1, <1>3, <1>4 DEF FlagInv

(* ensure_cached marks the rows of the link it has just cached.            *)
LEMMA PublishKeepsFlags ==
  ASSUME DiskType, FlagInv, NEW m \in Mounts, Publish(m)
  PROVE  FlagInv'
<1> DEFINE l == task[m].link
<1>1. l \in Files /\ cache \in [Files -> 0 .. Len(data)]
  BY DEF DiskType, Publish
<1>2. table \in Seq(Row) /\ Len(table) \in Nat /\ DOMAIN table = 1 .. Len(table)
  BY LenProperties DEF FlagInv
<1> HIDE DEF l
<1>3. CASE UNCHANGED <<table, cache>>
  BY <1>3 DEF FlagInv
<1>4. CASE cache' = [cache EXCEPT ![l] = tmp[l]] /\ tmp[l] # 0 /\ table' \in {table, SetMaterialized(l)}
  <2>1. cache'[l] # 0 /\ \A k \in Files : k # l => cache'[k] = cache[k]
    BY <1>1, <1>4
  <2>2. CASE table' = table
    BY <2>1, <2>2 DEF FlagInv
  <2>3. CASE table' = SetMaterialized(l)
    <3>1. ASSUME NEW i \in DOMAIN table
          PROVE  /\ table'[i] \in Row /\ table'[i].link = table[i].link
                 /\ table'[i].materialized => table[i].materialized \/ table[i].link = l
      <4>1. table[i] \in Row /\ table'[i] = [table[i] EXCEPT !.materialized = @ \/ table[i].link = l]
        BY <1>2, <2>3, ElementOfSeq DEF SetMaterialized
      <4> QED
        BY <4>1 DEF Row
    <3>2. table' \in Seq(Row) /\ DOMAIN table' = DOMAIN table
      <4>1. table' \in [1 .. Len(table) -> Row]
        BY <1>2, <2>3, <3>1 DEF SetMaterialized
      <4> QED
        BY <1>2, <4>1, IsASeq
    <3> QED
      BY <1>1, <2>1, <3>1, <3>2 DEF FlagInv
  <2> QED
    BY <1>4, <2>2, <2>3
<1> QED
  BY <1>3, <1>4 DEF Publish, l

(* Only the agent's steps and a finished download touch flags and cache.   *)
LEMMA FlagStep ==
  ASSUME VfsAssumption, DiskType, FlagInv, [Next]_vars
  PROVE  FlagInv'
<1>1. CASE UNCHANGED <<table, cache>>
  BY <1>1 DEF FlagInv
<1>2. \/ UNCHANGED <<table, cache>>
      \/ \E p \in Places : StorePlaceholder(p)
      \/ \E m \in Mounts : Publish(m)
  BY DEF Next, Download, Edit, Read, Lookup, OpenDir, ReadDir, CloseDir, Ask, CreatePart,
         CopyBlock, FinishPart, DownloadFails, Remount, Crash, NewMount, vars, diskVars
<1> QED
  BY <1>1, <1>2, StoreKeepsFlags, PublishKeepsFlags

(* The rows and their flags in every reachable state.                      *)
LEMMA FlagsAndRows == Spec => []FlagInv
<1>1. Init => FlagInv
  BY DEF Init, FlagInv
<1>2. CacheInv /\ FlagInv /\ [Next]_vars => FlagInv'
  BY VfsAssumption, FlagStep DEF CacheInv
<1> QED
  BY <1>1, <1>2, CacheInvariant, PTL DEF Spec

(* A row marked as present on local disk is of a file that is cached, also *)
(* when remounts overtake downloads (lib.rs:223, state.rs:147).            *)
THEOREM MarkedIsCached == Spec => []MaterializedIsCached
<1>1. FlagInv => MaterializedIsCached
  BY DEF FlagInv, MaterializedIsCached
<1> QED
  BY <1>1, FlagsAndRows, PTL

-----------------------------------------------------------------------------
(* Recursion over the rows of a table                                      *)

(* Induction up to a number, for a set in the place of a property.         *)
LEMMA UpTo ==
  ASSUME NEW n \in Nat, NEW S, 0 \in S,
         \A k \in 1 .. n : k - 1 \in S => k \in S
  PROVE  0 .. n \subseteq S
<1> DEFINE T == {k \in 0 .. n : k \notin S}
<1>1. SUFFICES ASSUME T # {} PROVE FALSE
  BY <1>1
<1>2. T \subseteq Nat
  OBVIOUS
<1> HIDE DEF T
<1>3. PICK k \in T : \A j \in T : ~ (j < k)
  <2> DEFINE R == OpToRel(<, Nat)
  <2>1. PICK k \in T : \A j \in T : ~ (<<j, k>> \in R)
    BY <1>1, <1>2, NatLessThanWellFounded, WFMin
  <2>2. \A j \in T : ~ (j < k)
    BY <1>2, <2>1 DEF OpToRel
  <2> QED
    BY <2>2
<1>4. k \in 1 .. n /\ k \notin S
  BY <1>3 DEF T
<1>5. k - 1 \in 0 .. n /\ k - 1 < k
  BY <1>4
<1>6. k - 1 \in S
  BY <1>3, <1>5 DEF T
<1> QED
  BY <1>4, <1>6

(* f[i] is what the first i steps make of a value.                         *)
Carries(f, n, first, step) ==
  f[0] = first /\ \A i \in 1 .. n : f[i] = step[i][f[i - 1]]

(* A value that is carried from row to row is that of a function.          *)
LEMMA StepsCompose ==
  ASSUME NEW n \in Nat, NEW X, NEW first \in X, NEW step \in [1 .. n -> [X -> X]]
  PROVE  \E f \in [0 .. n -> X] : Carries(f, n, first, step)
<1> DEFINE S == {k \in 0 .. n : \E f \in [0 .. k -> X] :
                   f[0] = first /\ \A i \in 1 .. k : f[i] = step[i][f[i - 1]]}
<1>1. 0 \in S
  <2> DEFINE f == [i \in 0 .. 0 |-> first]
  <2>1. f \in [0 .. 0 -> X] /\ f[0] = first
    OBVIOUS
  <2>2. \A i \in 1 .. 0 : f[i] = step[i][f[i - 1]]
    OBVIOUS
  <2> HIDE DEF f
  <2> QED
    BY <2>1, <2>2
<1>2. ASSUME NEW k \in 1 .. n, k - 1 \in S PROVE k \in S
  <2>1. PICK f \in [0 .. k - 1 -> X] :
          f[0] = first /\ \A i \in 1 .. k - 1 : f[i] = step[i][f[i - 1]]
    BY <1>2
  <2> DEFINE g == [i \in 0 .. k |-> IF i < k THEN f[i] ELSE step[k][f[k - 1]]]
  <2>2. f[k - 1] \in X /\ step[k] \in [X -> X]
    OBVIOUS
  <2>3. g \in [0 .. k -> X] /\ g[0] = first
    BY <2>1, <2>2
  <2>4. ASSUME NEW i \in 1 .. k PROVE g[i] = step[i][g[i - 1]]
    <3>1. i - 1 \in 0 .. k - 1 /\ g[i - 1] = f[i - 1]
      OBVIOUS
    <3>2. CASE i = k
      BY <3>1, <3>2
    <3>3. CASE i < k
      BY <2>1, <3>1, <3>3
    <3> QED
      BY <3>2, <3>3
  <2> HIDE DEF g
  <2> QED
    BY <2>3, <2>4
<1> HIDE DEF S
<1>3. 0 .. n \subseteq S
  BY <1>1, <1>2, UpTo
<1>4. n \in S
  BY <1>3
<1> QED
  BY <1>4 DEF S, Carries

(* The next inode is that of a link that has none.                         *)
LEMMA AssignOne ==
  ASSUME NEW L, NEW s \in Seq(L), NEW l \in L, IsInjective(s)
  PROVE  GetOrAssign(s, l) \in Seq(L) /\ IsInjective(GetOrAssign(s, l))
<1>1. CASE \E i \in DOMAIN s : s[i] = l
  BY <1>1 DEF GetOrAssign
<1>2. CASE ~\E i \in DOMAIN s : s[i] = l
  <2>1. /\ Append(s, l) \in Seq(L) /\ Len(Append(s, l)) = Len(s) + 1
        /\ \A i \in 1 .. Len(s) : Append(s, l)[i] = s[i]
        /\ Append(s, l)[Len(s) + 1] = l
    BY AppendProperties
  <2>2. /\ Len(s) \in Nat /\ DOMAIN s = 1 .. Len(s)
        /\ DOMAIN Append(s, l) = 1 .. Len(s) + 1
    BY <2>1, LenProperties
  <2>3. GetOrAssign(s, l) = Append(s, l)
    BY <1>2 DEF GetOrAssign
  <2> QED
    BY <1>2, <2>1, <2>2, <2>3 DEF IsInjective
<1> QED
  BY <1>1, <1>2

(* new() and readdir assign inodes row by row.                             *)
LEMMA AssignRows ==
  ASSUME NEW L, NEW s \in Seq(L), IsInjective(s), NEW rows, Len(rows) \in Nat,
         \A i \in 1 .. Len(rows) : rows[i].link \in L
  PROVE  AssignAll(s, rows) \in Seq(L) /\ IsInjective(AssignAll(s, rows))
<1> DEFINE X == {t \in Seq(L) : IsInjective(t)}
           n == Len(rows)
           step == [i \in 1 .. n |-> [t \in X |-> GetOrAssign(t, rows[i].link)]]
<1>1. s \in X
  OBVIOUS
<1>2. step \in [1 .. n -> [X -> X]]
  BY AssignOne
<1>n. n \in Nat
  OBVIOUS
<1>a. \A i \in 1 .. n : \A t \in X : step[i][t] = GetOrAssign(t, rows[i].link)
  OBVIOUS
<1> HIDE DEF X, step, n
<1>3. PICK f \in [0 .. n -> X] : Carries(f, n, s, step)
  BY <1>n, <1>1, <1>2, StepsCompose
<1> DEFINE after[k \in 0 .. n] ==
      IF k = 0 THEN s ELSE GetOrAssign(after[k - 1], rows[k].link)
<1>4. f = [k \in 0 .. n |-> IF k = 0 THEN s ELSE GetOrAssign(f[k - 1], rows[k].link)]
  <2>1. ASSUME NEW k \in 1 .. n PROVE f[k] = GetOrAssign(f[k - 1], rows[k].link)
    BY <1>n, <1>a, <1>3 DEF Carries
  <2> QED
    BY <1>3, <2>1 DEF Carries
<1>5. after = [k \in 0 .. n |-> IF k = 0 THEN s ELSE GetOrAssign(after[k - 1], rows[k].link)]
  BY <1>4
<1>6. AssignAll(s, rows) = after[n]
  BY DEF AssignAll, n
<1> HIDE DEF after
<1> DEFINE S == {k \in 0 .. n : after[k] \in X}
<1>7. 0 \in S
  <2>1. 0 \in 0 .. n /\ after[0] = s
    BY <1>n, <1>5
  <2> QED
    BY <1>1, <2>1
<1>8. ASSUME NEW k \in 1 .. n, k - 1 \in S PROVE k \in S
  <2>1. after[k - 1] \in X /\ after[k] = GetOrAssign(after[k - 1], rows[k].link)
    <3>1. k \in 0 .. n /\ k # 0
      BY <1>n
    <3> QED
      BY <1>5, <1>8, <3>1
  <2>2. rows[k].link \in L
    BY DEF n
  <2> QED
    BY <2>1, <2>2, AssignOne DEF X
<1> HIDE DEF S
<1>9. 0 .. n \subseteq S
  BY <1>n, <1>7, <1>8, UpTo
<1>10. n \in S
  BY <1>n, <1>9
<1> QED
  BY <1>6, <1>10 DEF S, X

(* u[k] is what the first k rows have below dir.                           *)
Below(u, rows, dir) ==
  /\ u[0] = <<>>
  /\ \A k \in 1 .. Len(rows) :
       u[k] = IF rows[k].parent = dir THEN Append(u[k - 1], rows[k]) ELSE u[k - 1]

(* A directory's rows are found row by row.                                *)
LEMMA BelowExists ==
  ASSUME NEW rows \in Seq(Row), NEW dir
  PROVE  \E u \in [0 .. Len(rows) -> Seq(Row)] :
           Below(u, rows, dir) /\ RowsBelow(rows, dir) = u[Len(rows)]
<1> DEFINE X == Seq(Row)
           n == Len(rows)
           Add(t, i) == IF rows[i].parent = dir THEN Append(t, rows[i]) ELSE t
           step == [i \in 1 .. n |-> [t \in X |-> Add(t, i)]]
<1>1. n \in Nat /\ <<>> \in X /\ \A i \in 1 .. n : rows[i] \in Row
  BY LenProperties, EmptySeq, ElementOfSeq
<1>2. \A i \in 1 .. n : \A t \in X : Add(t, i) \in X
  BY <1>1, AppendProperties
<1>3. step \in [1 .. n -> [X -> X]]
  BY <1>2
<1>4. \A i \in 1 .. n : \A t \in X : step[i][t] = Add(t, i)
  OBVIOUS
<1> HIDE DEF X, step, n
<1>5. PICK f \in [0 .. n -> X] : Carries(f, n, <<>>, step)
  BY <1>1, <1>3, StepsCompose
<1> DEFINE upto[k \in 0 .. n] ==
      IF k = 0 THEN <<>>
      ELSE IF rows[k].parent = dir THEN Append(upto[k - 1], rows[k]) ELSE upto[k - 1]
<1>6. f = [k \in 0 .. n |-> IF k = 0 THEN <<>>
           ELSE IF rows[k].parent = dir THEN Append(f[k - 1], rows[k]) ELSE f[k - 1]]
  <2>1. ASSUME NEW k \in 1 .. n PROVE f[k] = Add(f[k - 1], k)
    <3>1. f[k - 1] \in X /\ f[k] = step[k][f[k - 1]]
      BY <1>1, <1>5 DEF Carries
    <3> QED
      BY <1>4, <3>1
  <2> DEFINE body(k) == IF k = 0 THEN <<>> ELSE Add(f[k - 1], k)
  <2>2. ASSUME NEW k \in 0 .. n PROVE f[k] = body(k)
    <3>1. CASE k = 0
      BY <1>5, <3>1 DEF Carries
    <3>2. CASE k # 0
      <4>1. k \in 1 .. n
        BY <1>1, <3>2
      <4> QED
        BY <2>1, <3>2, <4>1
    <3> QED
      BY <3>1, <3>2
  <2> HIDE DEF body
  <2>3. f = [k \in 0 .. n |-> body(k)]
    BY <2>2
  <2> QED
    BY <2>3 DEF body
<1>7. upto = [k \in 0 .. n |-> IF k = 0 THEN <<>>
              ELSE IF rows[k].parent = dir THEN Append(upto[k - 1], rows[k]) ELSE upto[k - 1]]
  BY <1>6
<1>8. RowsBelow(rows, dir) = upto[n]
  BY DEF RowsBelow, n
<1> HIDE DEF upto
<1>9. Below(upto, rows, dir)
  <2>1. upto[0] = <<>>
    BY <1>1, <1>7
  <2>2. ASSUME NEW k \in 1 .. n PROVE upto[k] = Add(upto[k - 1], k)
    <3>1. k \in 0 .. n /\ k # 0
      BY <1>1
    <3> QED
      BY <1>7, <3>1
  <2> QED
    BY <2>1, <2>2 DEF Below, n
<1> DEFINE S == {k \in 0 .. n : upto[k] \in X}
<1>10. 0 \in S
  BY <1>1, <1>9 DEF Below, n
<1>11. ASSUME NEW k \in 1 .. n, k - 1 \in S PROVE k \in S
  <2>1. upto[k - 1] \in X /\ upto[k] = Add(upto[k - 1], k)
    BY <1>9, <1>11 DEF Below, n
  <2> QED
    BY <1>2, <2>1
<1> HIDE DEF S
<1>12. 0 .. n \subseteq S
  BY <1>1, <1>10, <1>11, UpTo
<1>13. \A k \in 0 .. n : upto[k] \in X
  BY <1>12 DEF S
<1>14. upto \in [0 .. n -> X]
  BY <1>7, <1>13
<1> QED
  BY <1>8, <1>9, <1>14 DEF X, n

(* What is below a directory are rows of the table, each once.             *)
LEMMA BelowOnce ==
  ASSUME NEW rows \in Seq(Row), NEW dir,
         \A i, j \in DOMAIN rows : rows[i].rel = rows[j].rel => i = j
  PROVE  /\ RowsBelow(rows, dir) \in Seq(Row)
         /\ \A i, j \in 1 .. Len(RowsBelow(rows, dir)) :
              RowsBelow(rows, dir)[i].rel = RowsBelow(rows, dir)[j].rel => i = j
<1> DEFINE n == Len(rows)
<1>1. PICK u \in [0 .. n -> Seq(Row)] : Below(u, rows, dir) /\ RowsBelow(rows, dir) = u[n]
  BY BelowExists
<1>2. n \in Nat /\ DOMAIN rows = 1 .. n
  BY LenProperties
<1> DEFINE Once(s, k) ==
             /\ \A i \in 1 .. Len(s) : \E j \in 1 .. k : s[i] = rows[j]
             /\ \A i, j \in 1 .. Len(s) : s[i].rel = s[j].rel => i = j
           S == {k \in 0 .. n : Once(u[k], k)}
<1>3. 0 \in S
  BY <1>1, <1>2 DEF Below
<1>4. ASSUME NEW k \in 1 .. n, k - 1 \in S PROVE k \in S
  <2> DEFINE s == u[k - 1]
  <2>1. /\ s \in Seq(Row) /\ Once(s, k - 1)
        /\ u[k] = IF rows[k].parent = dir THEN Append(s, rows[k]) ELSE s
    BY <1>1, <1>4 DEF Below
  <2> HIDE DEF s
  <2>2. CASE u[k] = s
    BY <1>2, <2>1, <2>2
  <2>3. CASE u[k] = Append(s, rows[k])
    <3>1. /\ Len(s) \in Nat /\ Len(u[k]) = Len(s) + 1
          /\ \A i \in 1 .. Len(s) : u[k][i] = s[i]
          /\ u[k][Len(s) + 1] = rows[k]
      BY <1>2, <2>1, <2>3, LenProperties, ElementOfSeq, AppendProperties
    <3>2. ASSUME NEW i \in 1 .. Len(u[k]) PROVE \E j \in 1 .. k : u[k][i] = rows[j]
      <4>1. CASE i = Len(s) + 1
        BY <1>2, <3>1, <4>1
      <4>2. CASE i \in 1 .. Len(s)
        <5>1. PICK j \in 1 .. k - 1 : s[i] = rows[j]
          BY <2>1, <4>2
        <5> QED
          BY <3>1, <4>2, <5>1
      <4> QED
        BY <3>1, <4>1, <4>2
    <3>3. ASSUME NEW i \in 1 .. Len(s) PROVE s[i].rel # rows[k].rel
      <4>1. PICK j \in 1 .. k - 1 : s[i] = rows[j]
        BY <2>1
      <4> QED
        BY <1>2, <4>1
    <3>4. ASSUME NEW i \in 1 .. Len(u[k]), NEW j \in 1 .. Len(u[k]), u[k][i].rel = u[k][j].rel
          PROVE  i = j
      BY <2>1, <3>1, <3>3, <3>4
    <3> QED
      BY <1>2, <3>2, <3>4
  <2> QED
    BY <2>1, <2>2, <2>3
<1> HIDE DEF S
<1>5. 0 .. n \subseteq S
  BY <1>2, <1>3, <1>4, UpTo
<1>6. n \in S
  BY <1>2, <1>5
<1> QED
  BY <1>1, <1>2, <1>6 DEF S

(* Rows that keep their path and stay below a directory, or out of it,     *)
(* leave its paths as they are.                                            *)
LEMMA PathsKept ==
  ASSUME NEW rows \in Seq(Row), NEW new \in Seq(Row), NEW dir, Len(new) = Len(rows),
         \A i \in 1 .. Len(rows) : /\ new[i].rel = rows[i].rel
                                   /\ new[i].parent = dir <=> rows[i].parent = dir
  PROVE  PathsBelow(new, dir) = PathsBelow(rows, dir)
<1> DEFINE n == Len(rows)
<1>1. PICK u \in [0 .. n -> Seq(Row)] : Below(u, rows, dir) /\ RowsBelow(rows, dir) = u[n]
  BY BelowExists
<1>2. PICK v \in [0 .. n -> Seq(Row)] : Below(v, new, dir) /\ RowsBelow(new, dir) = v[n]
  BY BelowExists
<1>3. n \in Nat /\ DOMAIN rows = 1 .. n
  BY LenProperties
<1> DEFINE Alike(s, t) == Len(s) = Len(t) /\ \A i \in 1 .. Len(s) : s[i].rel = t[i].rel
           S == {k \in 0 .. n : Alike(u[k], v[k])}
<1>4. 0 \in S
  BY <1>1, <1>2, <1>3 DEF Below
<1>5. ASSUME NEW k \in 1 .. n, k - 1 \in S PROVE k \in S
  <2> DEFINE s == u[k - 1]
             t == v[k - 1]
  <2>1. /\ s \in Seq(Row) /\ t \in Seq(Row) /\ Alike(s, t)
        /\ rows[k] \in Row /\ new[k] \in Row
        /\ u[k] = IF rows[k].parent = dir THEN Append(s, rows[k]) ELSE s
        /\ v[k] = IF new[k].parent = dir THEN Append(t, new[k]) ELSE t
    BY <1>1, <1>2, <1>5, ElementOfSeq DEF Below
  <2> HIDE DEF s, t
  <2>2. CASE rows[k].parent # dir
    BY <2>1, <2>2
  <2>3. CASE rows[k].parent = dir
    <3>1. /\ Len(s) \in Nat /\ Len(u[k]) = Len(s) + 1
          /\ \A i \in 1 .. Len(s) : u[k][i] = s[i]
          /\ u[k][Len(s) + 1] = rows[k]
      BY <2>1, <2>3, LenProperties, AppendProperties
    <3>2. /\ Len(v[k]) = Len(t) + 1
          /\ \A i \in 1 .. Len(t) : v[k][i] = t[i]
          /\ v[k][Len(t) + 1] = new[k]
      BY <2>1, <2>3, AppendProperties
    <3>3. Len(u[k]) = Len(v[k])
      BY <2>1, <3>1, <3>2
    <3>4. ASSUME NEW i \in 1 .. Len(u[k]) PROVE u[k][i].rel = v[k][i].rel
      <4>1. CASE i = Len(s) + 1
        BY <2>1, <3>1, <3>2, <4>1
      <4>2. CASE i \in 1 .. Len(s)
        BY <2>1, <3>1, <3>2, <4>2
      <4> QED
        BY <3>1, <4>1, <4>2
    <3> QED
      BY <3>3, <3>4
  <2> QED
    BY <2>2, <2>3
<1> HIDE DEF S
<1>6. 0 .. n \subseteq S
  BY <1>3, <1>4, <1>5, UpTo
<1>7. Alike(u[n], v[n]) /\ u[n] \in Seq(Row) /\ v[n] \in Seq(Row)
  BY <1>3, <1>6 DEF S
<1>8. DOMAIN u[n] = DOMAIN v[n] /\ DOMAIN u[n] = 1 .. Len(u[n])
  BY <1>7, LenProperties
<1> QED
  BY <1>1, <1>2, <1>7, <1>8 DEF PathsBelow

(* A new row comes after those its directory has.                          *)
LEMMA PathsGrow ==
  ASSUME NEW rows \in Seq(Row), NEW row \in Row, NEW dir
  PROVE  RowsBelow(Append(rows, row), dir)
           \in {RowsBelow(rows, dir), Append(RowsBelow(rows, dir), row)}
<1> DEFINE n == Len(rows)
           new == Append(rows, row)
<1>1. /\ n \in Nat /\ new \in Seq(Row) /\ Len(new) = n + 1
      /\ \A i \in 1 .. n : new[i] = rows[i]
      /\ new[n + 1] = row
  BY LenProperties, AppendProperties
<1>2. PICK u \in [0 .. n -> Seq(Row)] : Below(u, rows, dir) /\ RowsBelow(rows, dir) = u[n]
  BY BelowExists
<1> HIDE DEF new
<1>3. PICK v \in [0 .. n + 1 -> Seq(Row)] : Below(v, new, dir) /\ RowsBelow(new, dir) = v[n + 1]
  BY <1>1, BelowExists
<1> DEFINE S == {k \in 0 .. n : u[k] = v[k]}
<1>4. 0 \in S
  BY <1>1, <1>2, <1>3 DEF Below
<1>5. ASSUME NEW k \in 1 .. n, k - 1 \in S PROVE k \in S
  <2>1. k \in 1 .. Len(new) /\ new[k] = rows[k] /\ u[k - 1] = v[k - 1]
    BY <1>1, <1>5
  <2>2. v[k] = IF new[k].parent = dir THEN Append(v[k - 1], new[k]) ELSE v[k - 1]
    BY <1>3, <2>1 DEF Below
  <2>3. u[k] = IF rows[k].parent = dir THEN Append(u[k - 1], rows[k]) ELSE u[k - 1]
    BY <1>2 DEF Below
  <2> QED
    BY <2>1, <2>2, <2>3
<1> HIDE DEF S
<1>6. 0 .. n \subseteq S
  BY <1>1, <1>4, <1>5, UpTo
<1>7. u[n] = v[n]
  BY <1>1, <1>6 DEF S
<1>8. v[n + 1] \in {v[n], Append(v[n], row)}
  <2>1. n + 1 \in 1 .. Len(new) /\ (n + 1) - 1 = n
    BY <1>1
  <2>2. v[n + 1] = IF new[n + 1].parent = dir THEN Append(v[n], new[n + 1]) ELSE v[n]
    BY <1>3, <2>1 DEF Below
  <2> QED
    BY <1>1, <2>2
<1> QED
  BY <1>2, <1>3, <1>7, <1>8 DEF new

(* The paths of a directory's rows. *)
LEMMA PathsType ==
  ASSUME NEW rows \in Seq(Row), NEW dir
  PROVE  /\ RowsBelow(rows, dir) \in Seq(Row)
         /\ PathsBelow(rows, dir) \in Seq(Rels)
         /\ Len(PathsBelow(rows, dir)) = Len(RowsBelow(rows, dir))
         /\ Len(PathsBelow(rows, dir)) \in Nat
         /\ \A i \in 1 .. Len(PathsBelow(rows, dir)) :
              PathsBelow(rows, dir)[i] = RowsBelow(rows, dir)[i].rel
<1> DEFINE s == RowsBelow(rows, dir)
           paths == [i \in DOMAIN s |-> s[i].rel]
<1>1. s \in Seq(Row)
  <2>1. PICK u \in [0 .. Len(rows) -> Seq(Row)] :
          Below(u, rows, dir) /\ RowsBelow(rows, dir) = u[Len(rows)]
    BY BelowExists
  <2> QED
    BY <2>1, LenProperties
<1> HIDE DEF s
<1>2. Len(s) \in Nat /\ DOMAIN s = 1 .. Len(s) /\ \A i \in 1 .. Len(s) : s[i] \in Row
  BY <1>1, LenProperties, ElementOfSeq
<1>3. paths \in [1 .. Len(s) -> Rels]
  BY <1>2 DEF Row
<1>4. paths \in Seq(Rels) /\ Len(paths) = Len(s) /\ \A i \in 1 .. Len(s) : paths[i] = s[i].rel
  BY <1>2, <1>3, IsASeq
<1>5. PathsBelow(rows, dir) = paths
  BY DEF PathsBelow, s
<1> QED
  BY <1>1, <1>2, <1>4, <1>5 DEF s

-----------------------------------------------------------------------------
(* Listing a directory                                                     *)

(* readdir lists "." and ".." before the rows.                             *)
LEMMA EntriesAre ==
  ASSUME table \in Seq(Row), NEW dir
  PROVE  /\ Entries(dir) \in Seq(Rels \cup {<<>>})
         /\ Len(Entries(dir)) = Len(PathsBelow(table, dir)) + 2
         /\ \A i \in 3 .. Len(PathsBelow(table, dir)) + 2 :
              Entries(dir)[i] = PathsBelow(table, dir)[i - 2]
<1> DEFINE paths == PathsBelow(table, dir)
           dots == <<<<>>, <<>>>>
           T == Rels \cup {<<>>}
<1>1. Entries(dir) = dots \o paths
  BY DEF Entries, Children, PathsBelow
<1>2. paths \in Seq(Rels) /\ Len(paths) \in Nat
  BY PathsType
<1> HIDE DEF paths
<1>3. dots \in Seq(T) /\ Len(dots) = 2
  OBVIOUS
<1>4. paths \in Seq(T)
  BY <1>2, SeqMonotonic
<1> HIDE DEF dots, T
<1>5. /\ dots \o paths \in Seq(T) /\ Len(dots \o paths) = Len(dots) + Len(paths)
      /\ \A i \in 1 .. Len(dots) + Len(paths) :
           (dots \o paths)[i] = IF i <= Len(dots) THEN dots[i] ELSE paths[i - Len(dots)]
  BY <1>3, <1>4, ConcatProperties
<1>6. Len(Entries(dir)) = Len(paths) + 2
  BY <1>1, <1>2, <1>3, <1>5
<1>7. ASSUME NEW i \in 3 .. Len(paths) + 2 PROVE Entries(dir)[i] = paths[i - 2]
  <2>1. i \in 1 .. Len(dots) + Len(paths) /\ ~(i <= Len(dots))
    BY <1>2, <1>3
  <2> QED
    BY <1>1, <1>3, <1>5, <2>1
<1> QED
  BY <1>1, <1>5, <1>6, <1>7 DEF paths, T

(* What has been listed stays in its place when rows are added behind.     *)
LEMMA InPlaceGrows ==
  ASSUME NEW a \in Seq(Rels), NEW b \in Seq(Rels), Len(a) \in Nat, Len(b) \in Nat,
         Len(b) >= Len(a), \A i \in 1 .. Len(a) : b[i] = a[i],
         NEW l \in Listing, InPlace(l, a)
  PROVE  InPlace(l, b)
<1>1. l.offset \in Nat
  BY DEF Listing
<1>2. Len(l.names) = l.offset /\ l.offset <= Len(b) + 2
  BY <1>1 DEF InPlace
<1>3. ASSUME NEW i \in 3 .. l.offset PROVE l.names[i] = b[i - 2]
  <2>1. i - 2 \in 1 .. Len(a) /\ l.names[i] = a[i - 2]
    BY <1>1 DEF InPlace
  <2> QED
    BY <2>1
<1>4. ToSet(a) \subseteq ToSet(b)
  <2>1. DOMAIN a = 1 .. Len(a) /\ DOMAIN b = 1 .. Len(b)
    BY LenProperties
  <2> QED
    BY <2>1 DEF ToSet
<1> QED
  BY <1>2, <1>3, <1>4 DEF InPlace

(* The report of a node.                                                   *)
LEMMA StoreKeepsListing ==
  ASSUME VfsAssumption, DiskType, ListInv, NEW p \in Places, StorePlaceholder(p)
  PROVE  ListInv'
<1> DEFINE row == Placeholder(p)
           moved == ls.moved \/ \E i \in DOMAIN table :
                      /\ table[i].rel = p.rel /\ table[i].parent # p.parent
                      /\ ls.dir \in {table[i].parent, p.parent}
<1>1. /\ row \in Row /\ row.rel = p.rel /\ row.parent = p.parent
  BY PlaceholderIsRow
<1>2. /\ table \in Seq(Row) /\ Len(table) \in Nat /\ DOMAIN table = 1 .. Len(table)
      /\ \A i \in 1 .. Len(table) : table[i] \in Row
  BY LenProperties, ElementOfSeq DEF ListInv
<1>3. table' = Upsert(row) /\ ls' = [ls EXCEPT !.moved = moved]
  BY DEF StorePlaceholder
<1>4. moved \in BOOLEAN /\ (~moved => ~ls.moved)
  BY DEF ListInv, Listing
<1> HIDE DEF row
<1>5. CASE /\ \E i \in DOMAIN table : table[i].rel = row.rel
           /\ table' = [i \in DOMAIN table |-> IF table[i].rel = row.rel THEN row ELSE table[i]]
  <2>1. /\ table' \in Seq(Row) /\ Len(table') = Len(table) /\ DOMAIN table' = DOMAIN table
        /\ \A i \in 1 .. Len(table) : table'[i] = IF table[i].rel = row.rel THEN row ELSE table[i]
    <3>1. table' \in [1 .. Len(table) -> Row]
      BY <1>1, <1>2, <1>5
    <3> QED
      BY <1>2, <1>5, <3>1, IsASeq
  <2>2. OneRowPerPath'
    BY <1>2, <2>1 DEF ListInv, OneRowPerPath
  <2>3. ASSUME ~moved PROVE PathsBelow(table', ls.dir) = PathsBelow(table, ls.dir)
    <3>1. \A i \in 1 .. Len(table) : /\ table'[i].rel = table[i].rel
                                     /\ table'[i].parent = ls.dir <=> table[i].parent = ls.dir
      BY <1>1, <1>2, <2>1, <2>3
    <3> QED
      BY <1>2, <2>1, <3>1, PathsKept
  <2>4. ls' \in Listing /\ ls'.moved = moved /\ ls'.dir = ls.dir
    BY <1>3, <1>4 DEF ListInv, Listing
  <2>5. ASSUME ~moved PROVE InPlace(ls', PathsBelow(table', ls'.dir))
    <3> DEFINE paths == PathsBelow(table, ls.dir)
    <3>1. InPlace(ls, paths) /\ PathsBelow(table', ls'.dir) = paths
      BY <1>4, <2>3, <2>4, <2>5 DEF ListInv
    <3> HIDE DEF paths, moved
    <3>2. /\ ls'.names = ls.names /\ ls'.offset = ls.offset /\ ls'.start = ls.start
          /\ ls'.done = ls.done
      BY <1>3, <1>4 DEF ListInv, Listing
    <3> QED
      BY <3>1, <3>2 DEF InPlace
  <2> HIDE DEF moved
  <2> QED
    BY <2>1, <2>2, <2>4, <2>5 DEF ListInv
<1>6. CASE /\ ~\E i \in DOMAIN table : table[i].rel = row.rel
           /\ table' = Append(table, row)
  <2>1. /\ table' \in Seq(Row) /\ Len(table') = Len(table) + 1
        /\ DOMAIN table' = 1 .. Len(table) + 1
        /\ \A i \in 1 .. Len(table) : table'[i] = table[i]
        /\ table'[Len(table) + 1] = row
    BY <1>1, <1>2, <1>6, AppendProperties, LenProperties
  <2>2. OneRowPerPath'
    <3>1. ASSUME NEW i \in DOMAIN table', NEW j \in DOMAIN table', table'[i].rel = table'[j].rel
          PROVE  i = j
      BY <1>2, <1>6, <2>1, <3>1 DEF ListInv, OneRowPerPath
    <3> QED
      BY <3>1 DEF OneRowPerPath
  <2>3. ls' \in Listing /\ ls'.moved = moved /\ ls'.dir = ls.dir
    BY <1>3, <1>4 DEF ListInv, Listing
  <2>4. ASSUME ~moved PROVE InPlace(ls', PathsBelow(table', ls'.dir))
    <3> DEFINE d == ls.dir
               a == PathsBelow(table, d)
               b == PathsBelow(table', d)
               s == RowsBelow(table, d)
    <3>1. InPlace(ls, a)
      BY <1>4, <2>4 DEF ListInv
    <3>2. /\ ls'.names = ls.names /\ ls'.offset = ls.offset /\ ls'.start = ls.start
          /\ ls'.done = ls.done
      BY <1>3, <1>4 DEF ListInv, Listing
    <3>3. InPlace(ls', a)
      BY <3>1, <3>2 DEF InPlace
    <3>4. /\ s \in Seq(Row) /\ a \in Seq(Rels) /\ Len(a) = Len(s) /\ Len(a) \in Nat
          /\ \A i \in 1 .. Len(a) : a[i] = s[i].rel
      BY <1>2, PathsType
    <3>5. /\ b \in Seq(Rels) /\ Len(b) = Len(RowsBelow(table', d)) /\ Len(b) \in Nat
          /\ \A i \in 1 .. Len(b) : b[i] = RowsBelow(table', d)[i].rel
      BY <2>1, PathsType
    <3>6. RowsBelow(table', d) \in {s, Append(s, row)}
      BY <1>1, <1>2, <1>6, PathsGrow
    <3>7. /\ Len(Append(s, row)) = Len(s) + 1
          /\ \A i \in 1 .. Len(s) : Append(s, row)[i] = s[i]
      BY <1>1, <3>4, AppendProperties
    <3> HIDE DEF a, b, s, d
    <3>8. Len(b) >= Len(a) /\ \A i \in 1 .. Len(a) : b[i] = a[i]
      <4>1. CASE RowsBelow(table', d) = s
        BY <3>4, <3>5, <4>1
      <4>2. CASE RowsBelow(table', d) = Append(s, row)
        <5>1. Len(b) = Len(a) + 1
          BY <3>4, <3>5, <3>7, <4>2
        <5>2. ASSUME NEW i \in 1 .. Len(a) PROVE b[i] = a[i]
          BY <3>4, <3>5, <3>7, <4>2, <5>1
        <5> QED
          BY <3>4, <5>1, <5>2
      <4> QED
        BY <3>6, <4>1, <4>2
    <3>9. InPlace(ls', b)
      BY <2>3, <3>3, <3>4, <3>5, <3>8, InPlaceGrows
    <3> QED
      BY <2>3, <3>9 DEF b, d
  <2> HIDE DEF moved
  <2> QED
    BY <2>1, <2>2, <2>3, <2>4 DEF ListInv
<1> QED
  BY <1>3, <1>5, <1>6 DEF Upsert

(* ensure_cached's flag changes neither paths nor folders.                 *)
LEMMA PublishKeepsListing ==
  ASSUME ListInv, NEW m \in Mounts, Publish(m)
  PROVE  ListInv'
<1>1. ls' = ls
  BY DEF Publish
<1>2. /\ table \in Seq(Row) /\ Len(table) \in Nat /\ DOMAIN table = 1 .. Len(table)
  BY LenProperties DEF ListInv
<1>3. CASE UNCHANGED table
  BY <1>1, <1>3 DEF ListInv, OneRowPerPath
<1>4. CASE table' = SetMaterialized(task[m].link)
  <2>1. ASSUME NEW i \in DOMAIN table
        PROVE  /\ table'[i] \in Row /\ table'[i].rel = table[i].rel
               /\ table'[i].parent = table[i].parent
    <3> DEFINE flag == table[i].materialized \/ table[i].link = task[m].link
    <3>1. table[i] \in Row /\ table'[i] = [table[i] EXCEPT !.materialized = flag]
      BY <1>2, <1>4, ElementOfSeq DEF SetMaterialized
    <3>2. flag \in BOOLEAN
      BY <3>1 DEF Row
    <3> HIDE DEF flag
    <3> QED
      BY <3>1, <3>2 DEF Row
  <2>2. table' \in Seq(Row) /\ Len(table') = Len(table) /\ DOMAIN table' = DOMAIN table
    <3>1. table' \in [1 .. Len(table) -> Row]
      BY <1>2, <1>4, <2>1 DEF SetMaterialized
    <3> QED
      BY <1>2, <3>1, IsASeq
  <2>3. OneRowPerPath'
    BY <2>1, <2>2 DEF ListInv, OneRowPerPath
  <2>4. PathsBelow(table', ls.dir) = PathsBelow(table, ls.dir)
    BY <1>2, <2>1, <2>2, PathsKept
  <2> QED
    BY <1>1, <2>2, <2>3, <2>4 DEF ListInv
<1> QED
  BY <1>3, <1>4 DEF Publish

(* opendir and a listing's end start afresh.                               *)
LEMMA NoListing ==
  ASSUME VfsAssumption
  PROVE  /\ NotListing \in Listing /\ NotListing.names = <<>> /\ NotListing.offset = 0
         /\ NotListing.start = {} /\ ~NotListing.done
<1>1. <<>> \in Seq(Rels \cup {<<>>})
  BY EmptySeq
<1> QED
  BY <1>1 DEF NotListing, Listing

(* opendir: nothing is listed, and the start is what is there now.         *)
LEMMA OpenKeepsListing ==
  ASSUME VfsAssumption, ListInv, NEW dir \in Folders \cup {Root}, OpenDir(dir)
  PROVE  ListInv'
<1> DEFINE paths == PathsBelow(table, dir)
           start == {r.rel : r \in ToSet(Children(dir))}
<1>1. /\ ls' = [NotListing EXCEPT !.dir = dir, !.open = TRUE, !.start = start]
      /\ UNCHANGED table
  BY DEF OpenDir
<1>2. start = ToSet(paths) /\ paths \in Seq(Rels) /\ Len(paths) \in Nat
  <2>1. /\ paths \in Seq(Rels) /\ Len(paths) = Len(RowsBelow(table, dir))
        /\ RowsBelow(table, dir) \in Seq(Row) /\ Len(paths) \in Nat
        /\ \A i \in 1 .. Len(paths) : paths[i] = RowsBelow(table, dir)[i].rel
    BY PathsType DEF ListInv
  <2>2. DOMAIN paths = 1 .. Len(paths) /\ DOMAIN RowsBelow(table, dir) = 1 .. Len(paths)
    BY <2>1, LenProperties
  <2> HIDE DEF paths
  <2> QED
    BY <2>1, <2>2 DEF ToSet, Children
<1> HIDE DEF start, paths
<1>3. start \subseteq Rels
  <2>1. DOMAIN paths = 1 .. Len(paths) /\ \A i \in 1 .. Len(paths) : paths[i] \in Rels
    BY <1>2, LenProperties, ElementOfSeq
  <2> QED
    BY <1>2, <2>1 DEF ToSet
<1>4. /\ ls' \in Listing /\ ls'.dir = dir /\ ls'.names = <<>> /\ ls'.offset = 0
      /\ ls'.start = start /\ ~ls'.done
  BY <1>1, <1>3, NoListing DEF Listing
<1>5. InPlace(ls', paths)
  BY <1>2, <1>4, EmptySeq DEF InPlace
<1> QED
  BY <1>1, <1>4, <1>5 DEF ListInv, OneRowPerPath, paths

(* A reply goes on where the last one has stopped.                         *)
Extended(new, all, names, o, upto) ==
  Len(names) = o =>
    /\ Len(new) = upto
    /\ \A i \in 1 .. upto : new[i] = IF i <= o THEN names[i] ELSE all[i]

(* readdir's reply, appended to the earlier ones, is the list up to there. *)
LEMMA Continues ==
  ASSUME NEW T, NEW all \in Seq(T), NEW names \in Seq(T), NEW o \in Nat,
         Len(all) \in Nat, Len(names) \in Nat, NEW upto \in o + 1 .. Len(all)
  PROVE  /\ names \o SubSeq(all, o + 1, upto) \in Seq(T)
         /\ Extended(names \o SubSeq(all, o + 1, upto), all, names, o, upto)
<1> DEFINE more == SubSeq(all, o + 1, upto)
           both == names \o more
<1>1. /\ o + 1 \in Int /\ upto \in Int /\ o + 1 <= upto /\ upto - (o + 1) + 1 = upto - o
      /\ \A i \in 1 .. upto - o : (o + 1) + i - 1 = o + i
  OBVIOUS
<1>2. \A i \in o + 1 .. upto : all[i] \in T
  BY ElementOfSeq
<1>3. /\ more \in Seq(T) /\ Len(more) = upto - o
      /\ \A i \in 1 .. upto - o : more[i] = all[o + i]
  <2>1. /\ more \in Seq(T)
        /\ Len(more) = IF o + 1 <= upto THEN upto - (o + 1) + 1 ELSE 0
        /\ \A i \in 1 .. upto - (o + 1) + 1 : more[i] = all[(o + 1) + i - 1]
    BY <1>1, <1>2, SubSeqProperties
  <2> HIDE DEF more
  <2> QED
    BY <1>1, <2>1
<1> HIDE DEF more
<1>4. /\ both \in Seq(T) /\ Len(both) = Len(names) + Len(more)
      /\ \A i \in 1 .. Len(names) + Len(more) :
           both[i] = IF i <= Len(names) THEN names[i] ELSE more[i - Len(names)]
  BY <1>3, ConcatProperties
<1> HIDE DEF both
<1>5. ASSUME Len(names) = o, NEW i \in 1 .. upto
      PROVE  both[i] = IF i <= o THEN names[i] ELSE all[i]
  <2>1. CASE i <= o
    BY <1>3, <1>4, <1>5, <2>1
  <2>2. CASE ~(i <= o)
    <3>1. i - o \in 1 .. upto - o /\ o + (i - o) = i
      BY <2>2
    <3>2. i \in 1 .. Len(names) + Len(more) /\ ~(i <= Len(names))
      BY <1>3, <1>5, <2>2
    <3>3. both[i] = more[i - o]
      BY <1>4, <1>5, <3>2
    <3> QED
      BY <1>3, <2>2, <3>1, <3>3
  <2> QED
    BY <2>1, <2>2
<1>6. Len(names) = o => Len(both) = upto
  BY <1>3, <1>4
<1> QED
  BY <1>4, <1>5, <1>6 DEF Extended, both, more

(* One readdir call. *)
LEMMA ReadDirKeepsListing ==
  ASSUME ListInv, ReadDir
  PROVE  ListInv'
<1> DEFINE paths == PathsBelow(table, ls.dir)
           all == Entries(ls.dir)
           T == Rels \cup {<<>>}
<1>1. /\ all \in Seq(T) /\ Len(all) = Len(paths) + 2
      /\ \A i \in 3 .. Len(paths) + 2 : all[i] = paths[i - 2]
  BY EntriesAre DEF ListInv
<1>2. paths \in Seq(Rels) /\ Len(paths) \in Nat
  BY PathsType DEF ListInv
<1>3. UNCHANGED table
  BY DEF ReadDir
<1>4. /\ ls \in Listing /\ ls.offset \in Nat /\ ls.names \in Seq(T) /\ Len(ls.names) \in Nat
      /\ (~ls.moved => InPlace(ls, paths))
  BY LenProperties DEF ListInv, Listing
<1>5. SUFFICES /\ ls' \in Listing /\ ls'.dir = ls.dir
               /\ (~ls'.moved => InPlace(ls', paths))
  BY <1>3, <1>5 DEF ListInv, OneRowPerPath
<1> DEFINE further(upto) ==
             [ls EXCEPT !.names = @ \o SubSeq(all, ls.offset + 1, upto), !.offset = upto]
           complete == [ls EXCEPT !.done = TRUE]
<1>6. IF ls.offset >= Len(all)
        THEN ls' = complete
        ELSE \E upto \in ls.offset + 1 .. Len(all) : ls' = further(upto)
  BY Zenon DEF ReadDir
<1> HIDE DEF paths, all
<1>7. CASE ls.offset >= Len(all) /\ ls' = complete
  <2>1. /\ ls' \in Listing /\ ls'.dir = ls.dir /\ ls'.moved = ls.moved /\ ls'.names = ls.names
        /\ ls'.offset = ls.offset /\ ls'.start = ls.start
    BY <1>4, <1>7 DEF Listing
  <2>2. ASSUME ~ls.moved PROVE ls.start \subseteq {ls.names[i] : i \in 3 .. ls.offset}
    <3>1. InPlace(ls, paths) /\ ls.offset = Len(paths) + 2
      BY <1>1, <1>2, <1>4, <1>7, <2>2 DEF InPlace
    <3>2. ASSUME NEW x \in ls.start PROVE \E i \in 3 .. ls.offset : x = ls.names[i]
      <4>1. PICK k \in 1 .. Len(paths) : x = paths[k]
        BY <1>2, <3>1, LenProperties DEF InPlace, ToSet
      <4>2. k + 2 \in 3 .. ls.offset /\ ls.names[k + 2] = paths[(k + 2) - 2] /\ (k + 2) - 2 = k
        BY <1>2, <3>1 DEF InPlace
      <4> QED
        BY <4>1, <4>2
    <3> QED
      BY <3>2
  <2> QED
    BY <1>4, <2>1, <2>2 DEF InPlace
<1>8. ASSUME NEW upto \in ls.offset + 1 .. Len(all), ls' = further(upto)
      PROVE  /\ ls' \in Listing /\ ls'.dir = ls.dir
             /\ (~ls'.moved => InPlace(ls', paths))
  <2> DEFINE names == ls.names \o SubSeq(all, ls.offset + 1, upto)
  <2>1. /\ names \in Seq(T)
        /\ Extended(names, all, ls.names, ls.offset, upto)
    <3>1. Len(all) \in Nat
      BY <1>1, <1>2
    <3> QED
      BY <1>1, <1>4, <3>1, Continues
  <2>2. ls' = [ls EXCEPT !.names = names, !.offset = upto] /\ upto \in Nat
    BY <1>1, <1>2, <1>4, <1>8
  <2> HIDE DEF names, further
  <2>3. /\ ls' \in Listing /\ ls'.dir = ls.dir /\ ls'.moved = ls.moved /\ ls'.names = names
        /\ ls'.offset = upto /\ ls'.start = ls.start /\ ls'.done = ls.done
    BY <1>4, <2>1, <2>2 DEF Listing
  <2>4. ASSUME ~ls.moved PROVE InPlace(ls', paths)
    <3>1. InPlace(ls, paths) /\ Len(ls.names) = ls.offset
      BY <1>4, <2>4 DEF InPlace
    <3>2. Len(names) = upto /\ upto <= Len(paths) + 2
      BY <1>1, <1>2, <2>1, <3>1 DEF Extended
    <3>3. ASSUME NEW i \in 3 .. upto PROVE names[i] = paths[i - 2]
      <4>1. names[i] = IF i <= ls.offset THEN ls.names[i] ELSE all[i]
        BY <2>1, <3>1 DEF Extended
      <4>2. CASE i <= ls.offset
        <5>1. i \in 3 .. ls.offset
          BY <1>4, <4>2
        <5> QED
          BY <3>1, <4>1, <4>2, <5>1 DEF InPlace
      <4>3. CASE ~(i <= ls.offset)
        <5>1. i \in 3 .. Len(paths) + 2
          BY <1>2, <3>2, <2>2
        <5> QED
          BY <1>1, <4>1, <4>3, <5>1
      <4> QED
        BY <4>2, <4>3
    <3>4. ASSUME NEW i \in 3 .. ls.offset PROVE names[i] = ls.names[i] /\ i \in 3 .. upto
      <4>1. i \in 1 .. upto /\ i <= ls.offset /\ i \in 3 .. upto
        BY <1>4, <2>2
      <4> QED
        BY <2>1, <3>1, <4>1 DEF Extended
    <3>5. {ls.names[i] : i \in 3 .. ls.offset} \subseteq {names[i] : i \in 3 .. upto}
      BY <3>4
    <3>6. /\ ls.start \subseteq ToSet(paths)
          /\ ls.done => ls.start \subseteq {ls.names[i] : i \in 3 .. ls.offset}
      BY <3>1 DEF InPlace
    <3> QED
      BY <2>3, <3>2, <3>3, <3>5, <3>6 DEF InPlace
  <2> QED
    BY <2>3, <2>4
<1> QED
  BY <1>6, <1>7, <1>8

(* The directories' steps, the agent's, and those of the mounts.           *)
LEMMA ListingStep ==
  ASSUME VfsAssumption, DiskType, ListInv, [Next]_vars
  PROVE  ListInv'
<1>1. CASE UNCHANGED <<table, ls>>
  BY <1>1 DEF ListInv, OneRowPerPath
<1>2. CASE UNCHANGED table /\ ls' = NotListing
  <2> DEFINE paths == PathsBelow(table, NotListing.dir)
  <2>1. Len(paths) \in Nat
    BY PathsType DEF ListInv
  <2> HIDE DEF paths
  <2>2. InPlace(NotListing, paths)
    BY <2>1, NoListing, EmptySeq DEF InPlace
  <2> QED
    BY <1>2, <2>2, NoListing DEF ListInv, OneRowPerPath, paths
<1>3. \/ UNCHANGED <<table, ls>>
      \/ UNCHANGED table /\ ls' = NotListing
      \/ \E p \in Places : StorePlaceholder(p)
      \/ \E dir \in Folders \cup {Root} : OpenDir(dir)
      \/ ReadDir
      \/ \E m \in Mounts : Publish(m)
  BY DEF Next, Download, Edit, Read, Lookup, CloseDir, Ask, CreatePart, CopyBlock,
         FinishPart, DownloadFails, Remount, Crash, NewMount, vars
<1> QED
  BY <1>1, <1>2, <1>3, StoreKeepsListing, OpenKeepsListing, ReadDirKeepsListing,
     PublishKeepsListing

(* A complete listing has what was there at its start, once.               *)
LEMMA InPlaceIsExact ==
  ASSUME ListInv
  PROVE  ListingExact
<1> DEFINE names == ls.names
           children == SubSeq(names, 3, Len(names))
           T == Rels \cup {<<>>}
           paths == PathsBelow(table, ls.dir)
           s == RowsBelow(table, ls.dir)
<1>1. SUFFICES ASSUME ls.done, ~ls.moved
               PROVE  ls.start \subseteq ToSet(children) /\ IsInjective(children)
  BY DEF ListingExact
<1>2. /\ names \in Seq(T) /\ ls.offset \in Nat /\ InPlace(ls, paths) /\ ls.offset = Len(names)
  BY <1>1 DEF ListInv, Listing, InPlace
<1>3. /\ Len(paths) \in Nat /\ Len(paths) = Len(s)
      /\ \A i \in 1 .. Len(paths) : paths[i] = s[i].rel
      /\ \A i, j \in 1 .. Len(s) : s[i].rel = s[j].rel => i = j
  BY PathsType, BelowOnce DEF ListInv, OneRowPerPath
<1> HIDE DEF paths, s, T
<1>4. /\ children \in Seq(T) /\ Len(children) = IF 3 <= Len(names) THEN Len(names) - 2 ELSE 0
      /\ \A i \in 1 .. Len(names) - 2 : children[i] = names[i + 2]
  <2>1. \A i \in 3 .. Len(names) : names[i] \in T
    BY <1>2, ElementOfSeq
  <2>2. /\ Len(names) \in Int /\ 3 \in Int
        /\ Len(names) - 3 + 1 = Len(names) - 2
        /\ \A i \in 1 .. Len(names) - 2 : 3 + i - 1 = i + 2
    BY <1>2
  <2>3. /\ children \in Seq(T)
        /\ Len(children) = IF 3 <= Len(names) THEN Len(names) - 3 + 1 ELSE 0
        /\ \A i \in 1 .. Len(names) - 3 + 1 : children[i] = names[3 + i - 1]
    BY <2>1, <2>2, SubSeqProperties
  <2> HIDE DEF children, names
  <2> QED
    BY <2>2, <2>3
<1>5. DOMAIN children = 1 .. Len(children)
  BY <1>4, LenProperties
<1>6. \A i \in DOMAIN children :
        /\ i \in 1 .. Len(paths) /\ i \in 1 .. Len(names) - 2
        /\ i + 2 \in 3 .. ls.offset /\ (i + 2) - 2 = i
  <2> HIDE DEF children, names
  <2> QED
    BY <1>2, <1>3, <1>4, <1>5 DEF InPlace
<1>7. \A i \in DOMAIN children : children[i] = paths[i]
  <2>1. ASSUME NEW i \in DOMAIN children PROVE children[i] = paths[i]
    <3>1. children[i] = names[i + 2] /\ i + 2 \in 3 .. ls.offset /\ (i + 2) - 2 = i
      BY <1>4, <1>6
    <3>2. names[i + 2] = paths[(i + 2) - 2]
      BY <1>2, <3>1 DEF InPlace
    <3> QED
      BY <3>1, <3>2
  <2> QED
    BY <2>1
<1>8. IsInjective(children)
  <2>1. ASSUME NEW i \in DOMAIN children, NEW j \in DOMAIN children,
               children[i] = children[j]
        PROVE  i = j
    <3>1. i \in 1 .. Len(paths) /\ j \in 1 .. Len(paths) /\ paths[i] = paths[j]
      BY <1>6, <1>7, <2>1
    <3> HIDE DEF children, names
    <3> QED
      BY <1>3, <3>1
  <2> HIDE DEF children, names
  <2> QED
    BY <2>1 DEF IsInjective
<1>9. ASSUME NEW x \in ls.start PROVE x \in ToSet(children)
  <2>1. PICK i \in 3 .. ls.offset : x = names[i]
    BY <1>1, <1>2 DEF InPlace
  <2>2. i - 2 \in 1 .. Len(names) - 2 /\ (i - 2) + 2 = i /\ 3 <= Len(names)
    BY <1>2
  <2>3. i - 2 \in DOMAIN children /\ children[i - 2] = names[i]
    <3> HIDE DEF children, names
    <3> QED
      BY <1>4, <1>5, <2>2
  <2> QED
    BY <2>1, <2>3 DEF ToSet
<1> QED
  BY <1>8, <1>9

(* Where a listing is in the table it is read from, for any tables,        *)
(* directories and lengths of replies.                                     *)
THEOREM ListingInvariant == Spec => []ListInv
<1>1. Init => ListInv
  <2> SUFFICES ASSUME Init PROVE ListInv
    OBVIOUS
  <2>1. table = <<>> /\ ls = NotListing
    BY DEF Init
  <2>2. table \in Seq(Row) /\ OneRowPerPath
    BY <2>1, EmptySeq DEF OneRowPerPath
  <2> DEFINE paths == PathsBelow(table, NotListing.dir)
  <2>3. Len(paths) \in Nat
    BY <2>2, PathsType
  <2> HIDE DEF paths
  <2>4. InPlace(NotListing, paths)
    BY <2>3, NoListing, VfsAssumption, EmptySeq DEF InPlace
  <2> QED
    BY <2>1, <2>2, <2>4, NoListing, VfsAssumption DEF ListInv, paths
<1>2. CacheInv /\ ListInv /\ [Next]_vars => ListInv'
  BY VfsAssumption, ListingStep DEF CacheInv
<1> QED
  BY <1>1, <1>2, CacheInvariant, PTL DEF Spec

(* readdir in several calls loses and repeats no row, whatever the agent   *)
(* inserts and updates between them in the directory (lib.rs:305).         *)
THEOREM ListingIsExact == Spec => []ListingExact
<1>1. ListInv => ListingExact
  BY InPlaceIsExact
<1> QED
  BY <1>1, ListingInvariant, PTL

-----------------------------------------------------------------------------
(* Inodes                                                                  *)

(* A set of numbers has a least one.                                       *)
LEMMA LeastIsThere ==
  ASSUME NEW S \in SUBSET Nat, S # {}
  PROVE  Min(S) \in S
<1>1. PICK k \in S : \A j \in S : k <= j
  <2> DEFINE R == OpToRel(<, Nat)
  <2>1. PICK k \in S : \A j \in S : ~ (<<j, k>> \in R)
    BY NatLessThanWellFounded, WFMin
  <2>2. \A j \in S : ~ (j < k)
    BY <2>1 DEF OpToRel
  <2> QED
    BY <2>2
<1> QED
  BY <1>1 DEF Min

(* The links of the table's rows get inodes: all of them when a mount      *)
(* begins, those of a directory when it is listed, one when it is found.   *)
LEMMA InodeStep ==
  ASSUME VfsAssumption, table \in Seq(Row), InodeInv, [Next]_vars
  PROVE  InodeInv'
<1> DEFINE L == Links \cup {Root}
<1>1. ASSUME NEW rows \in Seq(Row)
      PROVE  Len(rows) \in Nat /\ \A i \in 1 .. Len(rows) : rows[i].link \in L
  <2>1. Len(rows) \in Nat
    BY LenProperties
  <2>2. \A i \in 1 .. Len(rows) : rows[i] \in Row
    BY ElementOfSeq
  <2>3. \A r \in Row : r.link \in L
    BY DEF Row
  <2> QED
    BY <2>1, <2>2, <2>3
<1>2. ASSUME NEW dir PROVE Children(dir) \in Seq(Row)
  BY PathsType DEF Children
<1>3. ASSUME inos' = FirstInodes
      PROVE  inos' \in Seq(L) /\ IsInjective(inos')
  <2>1. <<Root>> \in Seq(L) /\ IsInjective(<<Root>>)
    BY DEF IsInjective
  <2>2. Len(table) \in Nat /\ \A i \in 1 .. Len(table) : table[i].link \in L
    BY <1>1
  <2> HIDE DEF L
  <2>3. AssignAll(<<Root>>, table) \in Seq(L) /\ IsInjective(AssignAll(<<Root>>, table))
    BY <2>1, <2>2, AssignRows
  <2> QED
    BY <1>3, <2>3 DEF FirstInodes
<1>4. ASSUME NEW dir, inos' = AssignAll(inos, Children(dir))
      PROVE  inos' \in Seq(L) /\ IsInjective(inos')
  <2> DEFINE rows == Children(dir)
  <2>1. Len(rows) \in Nat /\ \A i \in 1 .. Len(rows) : rows[i].link \in L
    BY <1>1, <1>2
  <2>2. inos \in Seq(L) /\ IsInjective(inos)
    BY DEF InodeInv
  <2> HIDE DEF L, rows
  <2>3. AssignAll(inos, rows) \in Seq(L) /\ IsInjective(AssignAll(inos, rows))
    BY <2>1, <2>2, AssignRows
  <2> QED
    BY <1>4, <2>3 DEF rows
<1>5. ASSUME NEW dir, NEW name, Lookup(dir, name)
      PROVE  inos' \in Seq(L) /\ IsInjective(inos')
  <2> DEFINE rows == Children(dir)
             named == {n \in DOMAIN rows : Last(rows[n].rel) = name}
  <2>1. named # {} /\ inos' = GetOrAssign(inos, rows[Min(named)].link)
    BY <1>5 DEF Lookup
  <2>2. rows \in Seq(Row) /\ Len(rows) \in Nat /\ DOMAIN rows = 1 .. Len(rows)
    BY <1>2, LenProperties
  <2>3. Min(named) \in DOMAIN rows
    <3>1. named \in SUBSET Nat /\ named \in SUBSET DOMAIN rows
      <4> HIDE DEF rows
      <4> QED
        BY <2>2
    <3> HIDE DEF named
    <3>2. Min(named) \in named
      BY <2>1, <3>1, LeastIsThere
    <3> QED
      BY <3>1, <3>2
  <2>4. rows[Min(named)].link \in L
    <3> HIDE DEF rows, named, L
    <3> QED
      BY <1>1, <2>2, <2>3
  <2> QED
    BY <2>1, <2>4, AssignOne DEF InodeInv
<1>6. events' \in Nat
  <2>1. events' = events + 1 \/ UNCHANGED events
    BY DEF Next, Download, Edit, Read, Lookup, StorePlaceholder, OpenDir, ReadDir,
           CloseDir, Ask, CreatePart, CopyBlock, FinishPart, Publish, DownloadFails,
           Remount, Crash, NewMount, vars
  <2> QED
    BY <2>1 DEF InodeInv
<1>7. \/ UNCHANGED inos
      \/ inos' = FirstInodes
      \/ \E dir : inos' = AssignAll(inos, Children(dir))
      \/ \E p \in Places : Lookup(p.parent, Last(p.rel))
  BY DEF Next, Download, Edit, Read, StorePlaceholder, OpenDir, ReadDir, CloseDir, Ask,
         CreatePart, CopyBlock, FinishPart, Publish, DownloadFails, Remount, Crash,
         NewMount, vars
<1> QED
  BY <1>3, <1>4, <1>5, <1>6, <1>7 DEF InodeInv

(* The inode table in every reachable state.                               *)
LEMMA InodesAndEvents == Spec => []InodeInv
<1>1. Init => InodeInv
  BY DEF Init, InodeInv, IsInjective
<1>2. ListInv /\ InodeInv /\ [Next]_vars => InodeInv'
  BY VfsAssumption, InodeStep DEF ListInv
<1> QED
  BY <1>1, <1>2, ListingInvariant, PTL DEF Spec

(* get_or_assign never gives a link two inodes, whether it is found by     *)
(* new(), lookup or readdir (lib.rs:57).                                   *)
THEOREM InodesAreOneToOne == Spec => []InodesOneToOne
<1>1. InodeInv => InodesOneToOne
  BY DEF InodeInv, InodesOneToOne
<1> QED
  BY <1>1, InodesAndEvents, PTL

(* All of it together, as the run checks it.                               *)
THEOREM VfsInvariant == Spec => []VfsInv
<1>1. CacheInv /\ FlagInv /\ ListInv /\ InodeInv => VfsInv
  BY DEF VfsInv
<1> QED
  BY <1>1, CacheInvariant, FlagsAndRows, ListingInvariant, InodesAndEvents, PTL

(* The variables of the filesystem stay in their types.                    *)
THEOREM VfsTypes == Spec => []TypeOK
<1>1. VfsInv => TypeOK
  <2>1. CacheInv => rev \in [Files -> Nat]
    BY DEF CacheInv, DiskType
  <2> QED
    BY <2>1 DEF VfsInv, CacheInv, DiskType, ListInv, InodeInv, TypeOK
<1> QED
  BY <1>1, VfsInvariant, PTL
=============================================================================
