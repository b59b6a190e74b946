------------------------ MODULE SyncEngineInvariant ------------------------
(***************************************************************************)
(* The inductive invariants of the engine: the one every proof uses and    *)
(* those behind RemoteRemembered and LocalRemembered.                      *)
(***************************************************************************)
EXTENDS SyncEngineProperties

-----------------------------------------------------------------------------
(* Behind RowsFaithful.  A row is written from what the agent remembers of *)
(* the drive: a report of the remote watcher, or the folder                *)
(* parent_link_for found and the link a call returned.  The invariant says *)
(* that each of these memories is true when it is used, however many steps *)
(* of users and of the server lie in between.                              *)

IsParent(p) == p = Root \/ p \in DOMAIN drive

IsDir(p) == p = Root \/ (p \in DOMAIN drive /\ drive[p].folder)

(* Folder p is at path rel; p may also turn out to be a file, in which     *)
(* case the server refuses to work in it.                                  *)
StandsAt(p, rel) == IsParent(p) /\ (IsDir(p) => RelOf(p) = rel)

(* The paths of the drive are those its parent links spell, and folders    *)
(* stay where they were created.                                           *)
TreeFaithful ==
  \A l \in DOMAIN drive :
    /\ IsDir(drive[l].parent)
    /\ RelOf(drive[l].parent) = ParentOf(drive[l].rel)
    /\ [rel |-> drive[l].rel, parent |-> drive[l].parent] \in drive[l].was
    /\ drive[l].folder => \A w \in drive[l].was : w.rel = drive[l].rel

IsReport(e) == IsNode(e.link, e.rel, e.parent, e.folder)

(* What the watcher reported, in its channel or in the agent's buffer. *)
ReportsFaithful ==
  /\ \A i \in DOMAIN remoteRx : IsReport(remoteRx[i])
  /\ \A i \in DOMAIN buf.remote : IsReport(buf.remote[i])

(* What the operation at the head knows of the folder it works in. *)
StepFaithful ==
  LET rel    == Head(ops).rel
      folder == Head(ops).op = "CreateRemoteDir"
  IN  /\ step.at \in {"walk", "walked", "send", "record"} =>
           /\ ops # <<>> /\ Head(ops).op \in {"UploadNew", "CreateRemoteDir"}
      /\ step.at \in {"walk", "walked"} =>
           /\ step.depth \in 1 .. Len(rel) - 1
           /\ StandsAt(step.into, SubSeq(rel, 1, step.depth - 1))
      /\ At("walked") => IsNode(step.link, Segment, step.into, TRUE)
      /\ step.at \in {"send", "record"} => StandsAt(step.into, ParentOf(rel))
      /\ At("record") => IsNode(step.link, rel, step.into, folder)

(* TypeOK and RowsFaithful with what they rest on. *)
Inv == TypeOK /\ RowsFaithful /\ TreeFaithful /\ ReportsFaithful /\ StepFaithful

-----------------------------------------------------------------------------
(* Behind RemoteRemembered.  A report and a call speak of the drive as it  *)
(* was; a row may be replaced by a later report, dropped by an operation,  *)
(* or written after a call that other clients have overtaken.  The         *)
(* invariant says who has the last word on each path.                      *)

(* The folder of a node that is alive is alive, no two nodes that are      *)
(* alive are at one path, and only those that are alive are reported.      *)
OneTree ==
  /\ \A l \in DOMAIN drive : drive[l].alive => IsFolder(drive[l].parent)
  /\ \A l, m \in DOMAIN drive :
       drive[l].alive /\ drive[m].alive /\ drive[l].rel = drive[m].rel => l = m
  /\ \A l \in unseen : drive[l].alive

(* While nobody removes local paths, every event names one that is there,  *)
(* and no change and no operation speaks of a removal.                     *)
EventsStand ==
  \A i \in DOMAIN fsEvents : ~fsEvents[i].gone /\ fsEvents[i].rel \in DOMAIN disk

NoneRemoved(changes) == \A i \in DOMAIN changes : changes[i].kind # "Removed"

RemovalsAsked ==
  /\ "LocalRemove" \notin UserActions =>
       EventsStand /\ NoneRemoved(localRx) /\ NoneRemoved(buf.local)
  /\ \A i \in DOMAIN ops :
       ops[i].op = "DeleteRemote"
         => ops[i].rel \in LocalRels /\ "LocalRemove" \in UserActions

(* Reports the agent has not yet taken a batch with, in their order.       *)
Reports == buf.remote \o remoteRx

(* The last report of the path of node l is of node l.                     *)
LastReport(l) ==
  \E i \in DOMAIN Reports :
    /\ Reports[i].rel = drive[l].rel /\ Reports[i].link = l
    /\ \A j \in DOMAIN Reports : Reports[j].rel = drive[l].rel => j <= i

NoReport(rel) == \A i \in DOMAIN Reports : Reports[i].rel # rel

(* The operation at the head is about to write the row of that path.       *)
AboutToWrite(rel) ==
  (At("record") /\ Head(ops).rel = rel) \/ (At("walked") /\ Segment = rel)

(* The row of node l is there, and nothing is on its way that replaces it. *)
RowStands(l) ==
  /\ NoReport(drive[l].rel) /\ HasRow(l)
  /\ AboutToWrite(drive[l].rel) => step.link = l

(* Of all that is known of its path, node l has the last word.             *)
Remembered(l) == l \in unseen \/ LastReport(l) \/ RowStands(l)

DriveRemembered ==
  Undisturbed =>
    \A l \in DOMAIN drive :
      drive[l].alive /\ IsKept(drive[l].rel) => Remembered(l)

(* What RemoteRemembered rests on.                                         *)
RemoteInv == OneTree /\ RemovalsAsked /\ DriveRemembered

-----------------------------------------------------------------------------
(* Behind LocalRemembered.  An upload that is refused is dropped, so the   *)
(* invariant says why none is: the folder is there, is the right one, and  *)
(* no folder has the name of the file.                                     *)

(* Folders and files keep their paths: everything a local path lies in is  *)
(* a local folder, and no copy of a file has the path of a folder.         *)
PathsKeepKind ==
  /\ \A rel \in LocalRels : \A n \in 1 .. Len(rel) - 1 :
       SubSeq(rel, 1, n) \in LocalRels \cap Folders
  /\ \A rel \in LocalRels \ Folders, s \in Stamps : CopyRel(rel, s) \notin Folders

(* A folder is at the path of a folder, a file at that of a file.          *)
OfKind(rel, folder) == folder <=> rel \in Folders

KindsOf(changes) ==
  \A i \in DOMAIN changes :
    changes[i].kind = "Upsert" => OfKind(changes[i].rel, changes[i].folder)

(* An operation that goes to the drive works at a path of its kind, in     *)
(* local folders.                                                          *)
SoundOp(o) ==
  o.op \in {"UploadNew", "CreateRemoteDir"} =>
    /\ \A n \in 1 .. Len(o.rel) - 1 : SubSeq(o.rel, 1, n) \in LocalRels \cap Folders
    /\ OfKind(o.rel, o.op = "CreateRemoteDir")
    /\ IsUpload(o) => o.path \notin Folders /\ Len(o.path) = Len(o.rel)

(* So it is on the drive, on the disk, and in what is on its way between.  *)
DriveKinds ==
  \A l \in DOMAIN drive : \A w \in drive[l].was : OfKind(w.rel, drive[l].folder)

KindsKept ==
  /\ \A rel \in DOMAIN disk : OfKind(rel, disk[rel].folder)
  /\ DriveKinds
  /\ KindsOf(localRx) /\ KindsOf(buf.local)
  /\ \A i \in DOMAIN ops : SoundOp(ops[i])

(* Nothing dies on a drive where nobody trashes.                           *)
AllAlive == TreeStays => \A l \in DOMAIN drive : drive[l].alive

(* The folders local paths lie in have their rows, so no walk makes them   *)
(* again.                                                                  *)
FoldersRecorded ==
  Undisturbed /\ TreeStays =>
    \A l \in DOMAIN drive :
      drive[l].folder /\ drive[l].rel \in LocalRels
        => drive[l].rel \in DOMAIN rows \/ AboutToWrite(drive[l].rel)

(* The folder the operation at the head works in is there.                 *)
FolderFound ==
  step.at \in {"walk", "walked", "send"} /\ (Len(Head(ops).rel) = 1 \/ TreeStays)
    => IsFolder(step.into)

(* Only an abort stops the agent; between two cycles no operation is left. *)
AgentRuns ==
  /\ At("down") => restarts > 0
  /\ step.at \in {"select", "down"} => ops = <<>>

(* What LocalRemembered rests on, with OneTree and RemovalsAsked.          *)
LocalInv ==
  KindsKept /\ AllAlive /\ FoldersRecorded /\ FolderFound /\ AgentRuns /\ LocalRemembered

=============================================================================
