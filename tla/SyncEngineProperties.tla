------------------------ MODULE SyncEngineProperties ------------------------
(***************************************************************************)
(* What the sync engine promises, over the state machine of SyncEngine.    *)
(***************************************************************************)
EXTENDS SyncEngine, FiniteSets

(* Every variable of the engine stays within its type. *)
TypeOK ==
  /\ DOMAIN disk \subseteq LocalRels
  /\ \A rel \in DOMAIN disk : disk[rel] \in Entry
  /\ drive \in Seq(Node)
  /\ fsEvents \in Seq([rel : LocalRels, gone : BOOLEAN])
  /\ unseen \subseteq DOMAIN drive
  /\ localRx \in Seq(LocalChange)
  /\ remoteRx \in Seq(RemoteChange)
  /\ buf \in [local : Seq(LocalChange), remote : Seq(RemoteChange)]
  /\ ops \in Seq(Operation)
  /\ step \in Step
  /\ stamp \in 0 .. MaxStamp
  /\ DOMAIN rows \subseteq Rels
  /\ \A rel \in DOMAIN rows : rows[rel] \in Row
  /\ status \in {"idle", "busy"}
  /\ fetched \subseteq [link : DOMAIN drive, rel : Rels]
  /\ edits \in Nat /\ faults \in Nat /\ restarts \in Nat

(* Link l is a node the server has had at path rel, in that folder.        *)
IsNode(l, rel, parent, folder) ==
  /\ l \in DOMAIN drive
  /\ [rel |-> rel, parent |-> parent] \in drive[l].was
  /\ drive[l].folder = folder

(* The mappings table never mixes up two nodes of the drive: a row names   *)
(* a node the server has had at exactly that path, in exactly that parent, *)
(* and of that kind, through retries, walks that create parents, conflict  *)
(* renames, aborted cycles, files moved and links replaced after a trash.  *)
RowsFaithful ==
  \A rel \in DOMAIN rows :
    IsNode(rows[rel].link, rel, rows[rel].parent, rows[rel].folder)

(* Selective sync: no row lies under an excluded top-level folder unless   *)
(* local programs work there themselves (reconcile filters only the remote *)
(* side).                                                                  *)
ExcludedNotMirrored ==
  \A rel \in DOMAIN rows :
    rel[1] \in Excluded => \E r \in LocalRels : r[1] = rel[1]

(* conflict.rs "both-modified -> keep both", as far as one batch sees both *)
(* changes: a file whose download is in the running cycle is not revised   *)
(* by an upload of that cycle; the local content goes to a conflict copy.  *)
AgentRevises(l) ==
  /\ At("send") /\ step' # step
  /\ l \in DOMAIN drive /\ drive'[l].rev # drive[l].rev

KeepBothInBatch ==
  [][\A w \in fetched :
       drive[w.link].rel = w.rel => ~AgentRevises(w.link)]_vars

(* Nothing is on its way between the two sides. *)
Quiescent ==
  /\ fsEvents = <<>> /\ unseen = {} /\ localRx = <<>> /\ remoteRx = <<>>
  /\ buf.local = <<>> /\ buf.remote = <<>> /\ At("select")

Files(tree) == {rel \in DOMAIN tree : ~tree[rel].folder}

(* Once edits stop, the content of every local file has become a revision  *)
(* of some file of the drive, under its own name or a conflict copy's: it  *)
(* is there unless another client trashed it afterwards.                   *)
LocalContentReachesDrive ==
  <>[](\A rel \in Files(disk) :
         \E l \in DOMAIN drive : /\ ~drive[l].folder
                                 /\ disk[rel].rev \in drive[l].revs)

(* The instance without failed calls and aborts, where nothing is excused. *)
Undisturbed == faults = 0 /\ restarts = 0

(* The content of a local file is a revision of some file of the drive.    *)
Stored(rel) ==
  \E l \in DOMAIN drive : ~drive[l].folder /\ disk[rel].rev \in drive[l].revs

(* An event, a change or an operation still to be carried out names it.    *)
Underway(rel) ==
  LET upsert == [kind |-> "Upsert", rel |-> rel, folder |-> FALSE]
  IN  \/ [rel |-> rel, gone |-> FALSE] \in Range(fsEvents)
      \/ upsert \in Range(localRx) \/ upsert \in Range(buf.local)
      \/ \E i \in DOMAIN ops : /\ IsUpload(ops[i]) /\ ops[i].path = rel
                               /\ i = 1 => ~At("record")

(* No folder a local file lies in is removed or made by others. *)
TreeStays ==
  /\ UserActions \cap {"LocalRemove", "RemoteTrash"} = {}
  /\ LocalRels \cap RemoteRels \cap Folders = {}

(* The content of a local file is never forgotten between the inotify      *)
(* event and the drive, whatever is renamed, trashed or made on the way:   *)
(* not through reading the disk late, taking a batch, conflict renames or  *)
(* an upload the server refuses.  A file in a folder needs its folder.     *)
LocalRemembered ==
  Undisturbed =>
    \A rel \in Files(disk) :
      Len(rel) = 1 \/ TreeStays => Stored(rel) \/ Underway(rel)

(* The row of that path names node l. *)
HasRow(l) == drive[l].rel \in DOMAIN rows /\ rows[drive[l].rel].link = l

IsReported(l) ==
  \E e \in Range(remoteRx) \cup Range(buf.remote) :
    e.link = l /\ e.rel = drive[l].rel

(* A path selective sync keeps, and which no local program removes.        *)
IsKept(rel) ==
  ~IsExcluded(rel) /\ (rel \in LocalRels => "LocalRemove" \notin UserActions)

(* A node of the drive whose last change the watcher has found has its own *)
(* row, or a report of it is still to be written: not a row of another     *)
(* node that had the path before or after, though calls return and batches *)
(* are stored long after they were true.                                   *)
RemoteRemembered ==
  Undisturbed =>
    \A l \in DOMAIN drive :
      drive[l].alive /\ IsKept(drive[l].rel)
        => l \in unseen \/ IsReported(l) \/ HasRow(l)

(* Every node outside the excluded folders whose last change was found. *)
ReportedMirrored ==
  \A l \in DOMAIN drive \ unseen :
    drive[l].alive /\ ~IsExcluded(drive[l].rel) => HasRow(l)

(* Once edits stop, every node of the drive outside the excluded folders   *)
(* that the remote watcher has handed over since it last changed has its   *)
(* row, so the virtual filesystem can list it.  What the watcher overlooks *)
(* is excepted: CursorSound of RemoteWatcher.tla says when it overlooks    *)
(* nothing.                                                                *)
ReportedEventuallyMirrored == <>[]ReportedMirrored

(* A cycle that told the UI Busy comes to tell it Idle, or the agent waits *)
(* for ever in one and the same call of the bridge, made after another one *)
(* had failed: retries, refused calls and walks never keep it busy.        *)
BusyEnds ==
  \/ []<>(status = "idle")
  \/ <>[](Calling /\ faults > 0) /\ <>[][FALSE]_<<ops, step>>

-----------------------------------------------------------------------------
(* A statement of the repository that the engine does not keep.            *)

(* config.rs:20 "The folder synced bidirectionally with Proton Drive": with *)
(* only local programs at work, a path removed locally is gone from the    *)
(* drive once nothing is on its way.                                       *)
RemovalPropagates ==
  Quiescent => \A l \in DOMAIN drive : drive[l].alive => drive[l].rel \in DOMAIN disk

=============================================================================
