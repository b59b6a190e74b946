----------------------------- MODULE SyncEngine -----------------------------
(***************************************************************************)
(* The sync agent (agent.rs) with its watchers' channels, the propagator   *)
(* (propagation.rs) and the mapping table of the state database (state.rs),*)
(* between a local folder and a remote drive that other programs change.   *)
(*                                                                         *)
(* A path's content is the number of the edit that wrote it (`rev`).  The  *)
(* remote watcher is abstracted to "a changed link may be reported": which *)
(* changes it finds, and which it overlooks for ever (those made while it  *)
(* scans or polls, or in the second of its cursor), is the subject of      *)
(* RemoteWatcher.tla.                                                      *)
(***************************************************************************)
EXTENDS Operations

CONSTANTS
  RemoteRels,   \* paths other clients create and modify on the drive
  Folders,      \* the paths of LocalRels and RemoteRels that are folders
  UserActions,  \* what users of both sides may do in this instance
  Capacity,     \* room in each watcher channel (1024 in the source)
  Attempts,     \* how often retry() calls the bridge (4 in the source)
  MaxEdits,     \* bound on user actions
  MaxFaults,    \* bound on failed calls
  MaxRestarts   \* bound on aborts of the agent

ASSUME EngineAssumption ==
  /\ RemoteRels \subseteq Rels
  /\ Capacity \in Nat \ {0} /\ Attempts \in Nat \ {0}
  /\ MaxEdits \in Nat /\ MaxFaults \in Nat /\ MaxRestarts \in Nat

VARIABLES
  (* environment *)
  disk,      \* the watched folder: path -> entry
  drive,     \* the remote drive: drive[l] is the node with link l
  (* the agent and its watchers *)
  fsEvents,  \* inotify events not yet translated
  unseen,    \* links changed on the drive since they were last reported
  localRx,   \* channel of the local watcher
  remoteRx,  \* channel of the remote watcher
  buf,       \* the agent's Observations
  ops,       \* operations of the running cycle not yet applied
  step,      \* where the agent is
  stamp,     \* the last conflict timestamp used
  rows,      \* the mappings table: path -> row
  status,    \* the last of the events Busy and Idle
  (* observation: what DownloadNew operations of the running cycle name *)
  fetched,
  (* counters of the bounds *)
  edits, faults, restarts

watcherVars == <<fsEvents, unseen, localRx, remoteRx>>
agentVars   == <<buf, ops, step, stamp, rows, status, fetched>>
boundVars   == <<edits, faults, restarts>>
vars == <<disk, drive, watcherVars, agentVars, boundVars>>

Entry == [folder : BOOLEAN, rev : Nat]
(* rev is the current revision of a file, revs all it ever had, by its     *)
(* author; was are the places it has had, the current one included.        *)
Node  == [parent : Links, rel : Rels, folder : BOOLEAN, rev : Nat,
          revs : SUBSET Nat, was : SUBSET [rel : Rels, parent : Links],
          alive : BOOLEAN]
Row   == [link : Links, parent : Links, folder : BOOLEAN, rev : Nat,
          materialized : BOOLEAN]

(* step.into is the folder found so far, step.depth how many segments of   *)
(* the parent path it covers, step.tries the failed calls, step.link the   *)
(* link a successful call returned.                                        *)
Places == {"select", "op", "walk", "walked", "send", "record", "down"}
Step   == [at : Places, into : Links, depth : Nat, tries : 0 .. Attempts - 1,
           link : Links]

At(place)  == step.at = place
Goto(place) == [at |-> place, into |-> Root, depth |-> 0, tries |-> 0, link |-> Root]

Put(f, x, v) == [y \in DOMAIN f \cup {x} |-> IF y = x THEN v ELSE f[y]]
Drop(f, x)   == [y \in DOMAIN f \ {x} |-> f[y]]

(***************************************************************************)
(* The drive                                                               *)
(***************************************************************************)
RelOf(p) == IF p = Root THEN <<>> ELSE drive[p].rel

IsFolder(p) == p = Root \/ (p \in DOMAIN drive /\ drive[p].alive /\ drive[p].folder)

Children(p, name) ==
  {l \in DOMAIN drive : /\ drive[l].alive
                        /\ drive[l].parent = p
                        /\ LeafOf(drive[l].rel) = name}

FreshLink == Len(drive) + 1

Create(p, name, folder, rev) ==
  /\ LET rel == Append(RelOf(p), name)
     IN  drive' = Append(drive, [parent |-> p, rel |-> rel, folder |-> folder,
                                 rev |-> rev, revs |-> {rev},
                                 was |-> {[rel |-> rel, parent |-> p]},
                                 alive |-> TRUE])
  /\ unseen' = unseen \cup {FreshLink}

Revise(l, rev) ==
  /\ drive' = [drive EXCEPT ![l].rev = rev, ![l].revs = @ \cup {rev}]
  /\ unseen' = unseen \cup {l}

CanCreateFolder(p, name) == IsFolder(p) /\ Children(p, name) = {}
CanUpload(p, name) ==
  IsFolder(p) /\ \A l \in Children(p, name) : ~drive[l].folder

(* A call that takes effect; link is what it returns. *)
StoreFile(p, name, rev, link) ==
  /\ CanUpload(p, name)
  /\ \/ /\ Children(p, name) = {}
        /\ link = FreshLink
        /\ Create(p, name, FALSE, rev)
     \/ /\ link \in Children(p, name)
        /\ Revise(link, rev)

StoreFolder(p, name, link) ==
  /\ CanCreateFolder(p, name)
  /\ link = FreshLink
  /\ Create(p, name, TRUE, 0)

(***************************************************************************)
(* Users                                                                   *)
(***************************************************************************)
UserMay(action) ==
  /\ action \in UserActions
  /\ edits < MaxEdits
  /\ edits' = edits + 1

NewRev == edits + 1

(* inotify reports to a running agent only *)
Notify(rel, gone) ==
  fsEvents' = IF At("down") THEN fsEvents
              ELSE Append(fsEvents, [rel |-> rel, gone |-> gone])

LocalWrite(rel) ==
  /\ UserMay("LocalWrite")
  /\ rel \notin Folders
  /\ ParentOf(rel) = <<>> \/ ParentOf(rel) \in DOMAIN disk
  /\ disk' = Put(disk, rel, [folder |-> FALSE, rev |-> NewRev])
  /\ Notify(rel, FALSE)
  /\ UNCHANGED <<drive, unseen, localRx, remoteRx, agentVars, faults, restarts>>

LocalMkdir(rel) ==
  /\ UserMay("LocalMkdir")
  /\ rel \in Folders /\ rel \notin DOMAIN disk
  /\ disk' = Put(disk, rel, [folder |-> TRUE, rev |-> 0])
  /\ Notify(rel, FALSE)
  /\ UNCHANGED <<drive, unseen, localRx, remoteRx, agentVars, faults, restarts>>

LocalRemove(rel) ==
  /\ UserMay("LocalRemove")
  /\ rel \in DOMAIN disk
  /\ \A r \in DOMAIN disk : ParentOf(r) # rel
  /\ disk' = Drop(disk, rel)
  /\ Notify(rel, TRUE)
  /\ UNCHANGED <<drive, unseen, localRx, remoteRx, agentVars, faults, restarts>>

RemoteWrite(p, rel) ==
  /\ UserMay("RemoteWrite")
  /\ rel \notin Folders /\ RelOf(p) = ParentOf(rel)
  /\ \E l \in 1 .. FreshLink : StoreFile(p, LeafOf(rel), NewRev, l)
  /\ UNCHANGED <<disk, fsEvents, localRx, remoteRx, agentVars, faults, restarts>>

RemoteMkdir(p, rel) ==
  /\ UserMay("RemoteMkdir")
  /\ rel \in Folders /\ RelOf(p) = ParentOf(rel)
  /\ StoreFolder(p, LeafOf(rel), FreshLink)
  /\ UNCHANGED <<disk, fsEvents, localRx, remoteRx, agentVars, faults, restarts>>

(* A file gets another name or another folder; its link stays.             *)
RemoteRename(l, p, rel) ==
  /\ UserMay("RemoteRename")
  /\ drive[l].alive /\ ~drive[l].folder
  /\ rel \notin Folders /\ RelOf(p) = ParentOf(rel)
  /\ IsFolder(p) /\ Children(p, LeafOf(rel)) = {}
  /\ drive' = [drive EXCEPT ![l].rel = rel, ![l].parent = p,
                            ![l].was = @ \cup {[rel |-> rel, parent |-> p]}]
  /\ unseen' = unseen \cup {l}
  /\ UNCHANGED <<disk, fsEvents, localRx, remoteRx, agentVars, faults, restarts>>

(* Trashing a folder takes everything below it along. *)
Below(l) == {m \in DOMAIN drive : /\ drive[m].alive
                                  /\ Len(drive[m].rel) >= Len(drive[l].rel)
                                  /\ SubSeq(drive[m].rel, 1, Len(drive[l].rel))
                                       = drive[l].rel}
RemoteTrash(l) ==
  /\ UserMay("RemoteTrash")
  /\ drive[l].alive
  /\ drive' = [m \in DOMAIN drive |->
                 [drive[m] EXCEPT !.alive = @ /\ m \notin Below(l)]]
  /\ unseen' = unseen \ Below(l)
  /\ UNCHANGED <<disk, fsEvents, localRx, remoteRx, agentVars, faults, restarts>>

User ==
  \/ \E rel \in LocalRels : LocalWrite(rel) \/ LocalMkdir(rel) \/ LocalRemove(rel)
  \/ \E rel \in RemoteRels, p \in {Root} \cup DOMAIN drive :
       \/ RemoteWrite(p, rel) \/ RemoteMkdir(p, rel)
       \/ \E l \in DOMAIN drive : RemoteRename(l, p, rel)
  \/ \E l \in DOMAIN drive : RemoteTrash(l)

(***************************************************************************)
(* Watchers                                                                *)
(***************************************************************************)

(* translate_event looks at the path when the callback runs. *)
TranslateEvent ==
  /\ fsEvents # <<>> /\ Len(localRx) < Capacity
  /\ LET e == Head(fsEvents)
         c == IF e.gone \/ e.rel \notin DOMAIN disk
                THEN [kind |-> "Removed", rel |-> e.rel]
                ELSE [kind |-> "Upsert", rel |-> e.rel,
                      folder |-> disk[e.rel].folder]
     IN  localRx' = Append(localRx, c)
  /\ fsEvents' = Tail(fsEvents)
  /\ UNCHANGED <<disk, drive, unseen, remoteRx, agentVars, boundVars>>

(* The watcher finds a change and hands it over, in any order.  It may     *)
(* also never find it: nothing makes it do so (remote.rs:46-58).           *)
ReportRemote(l) ==
  /\ ~At("down")
  /\ l \in unseen
  /\ Len(remoteRx) < Capacity
  /\ remoteRx' = Append(remoteRx,
                   [rel |-> drive[l].rel, link |-> l, parent |-> drive[l].parent,
                    folder |-> drive[l].folder, rev |-> drive[l].rev])
  /\ unseen' = unseen \ {l}
  /\ UNCHANGED <<disk, drive, fsEvents, localRx, agentVars, boundVars>>

(***************************************************************************)
(* The agent's select loop                                                 *)
(***************************************************************************)
RecvLocal ==
  /\ At("select") /\ localRx # <<>>
  /\ buf' = [buf EXCEPT !.local = Append(@, Head(localRx))]
  /\ localRx' = Tail(localRx)
  /\ UNCHANGED <<disk, drive, fsEvents, unseen, remoteRx,
                 ops, step, stamp, rows, status, fetched, boundVars>>

RecvRemote ==
  /\ At("select") /\ remoteRx # <<>>
  /\ buf' = [buf EXCEPT !.remote = Append(@, Head(remoteRx))]
  /\ remoteRx' = Tail(remoteRx)
  /\ UNCHANGED <<disk, drive, fsEvents, unseen, localRx,
                 ops, step, stamp, rows, status, fetched, boundVars>>

PlaceholderRow(o) ==
  [link |-> o.link, parent |-> o.parent, folder |-> o.op = "CreateLocalDir",
   rev |-> o.rev, materialized |-> FALSE]

(* The batch transaction: for each path the last placeholder wins. *)
Placeholders(batch, rel) ==
  {i \in DOMAIN batch : IsPlaceholder(batch[i]) /\ batch[i].rel = rel}

(* Mutant: the first one wins. *)
UpsertBatchFirst(batch) ==
  LET named == {batch[i].rel : i \in {j \in DOMAIN batch : IsPlaceholder(batch[j])}}
      first(rel) == CHOOSE i \in Placeholders(batch, rel) :
                      \A j \in Placeholders(batch, rel) : i <= j
  IN  [rel \in DOMAIN rows \cup named |->
         IF rel \in named THEN PlaceholderRow(batch[first(rel)]) ELSE rows[rel]]

UpsertBatch(batch) ==
  LET named == {batch[i].rel : i \in {j \in DOMAIN batch : IsPlaceholder(batch[j])}}
      last(rel) == CHOOSE i \in Placeholders(batch, rel) :
                     \A j \in Placeholders(batch, rel) : j <= i
  IN  [rel \in DOMAIN rows \cup named |->
         IF rel \in named THEN PlaceholderRow(batch[last(rel)]) ELSE rows[rel]]

(* Take the buffer, reconcile, resolve and store the placeholders: the     *)
(* source awaits nothing until here.                                       *)
BeginCycle ==
  /\ At("select")
  /\ \E batch \in Resolve(Reconcile(buf.local, buf.remote), stamp + 1) :
       /\ ops' = batch
       /\ fetched' = {[link |-> batch[i].link, rel |-> batch[i].rel] :
                        i \in {j \in DOMAIN batch : IsDownload(batch[j])}}
       /\ \/ rows' = UpsertBatch(batch) /\ UNCHANGED faults
          \/ faults < MaxFaults /\ faults' = faults + 1 /\ UNCHANGED rows
  /\ stamp' = IF Renamed(Reconcile(buf.local, buf.remote)) = {}
                THEN stamp ELSE stamp + 1
  /\ stamp' <= MaxStamp
  /\ buf' = [local |-> <<>>, remote |-> <<>>]
  /\ status' = "busy"
  /\ step' = Goto("op")
  /\ UNCHANGED <<disk, drive, watcherVars, edits, restarts>>

(* The 2-second and the 20-second tick start a cycle when there is work. *)
Tick == (buf.local # <<>> \/ buf.remote # <<>>) /\ BeginCycle

Heartbeat ==
  /\ At("select") /\ buf.local = <<>> /\ buf.remote = <<>>
  /\ status' = "idle"
  /\ UNCHANGED <<disk, drive, watcherVars, buf, ops, step, stamp, rows,
                 fetched, boundVars>>

FinishCycle ==
  /\ At("op") /\ ops = <<>>
  /\ status' = "idle"
  /\ fetched' = {}
  /\ step' = Goto("select")
  /\ UNCHANGED <<disk, drive, watcherVars, buf, ops, stamp, rows, boundVars>>

(***************************************************************************)
(* The propagator                                                          *)
(***************************************************************************)
NextOp ==
  /\ ops' = Tail(ops)
  /\ step' = Goto("op")

SkipOp ==
  /\ At("op") /\ ops # <<>>
  /\ Head(ops) = Skip \/ IsPlaceholder(Head(ops))
  /\ NextOp
  /\ UNCHANGED <<disk, drive, watcherVars, buf, stamp, rows, status, fetched,
                 boundVars>>

(* The mapping reconcile supplies has no link id, so nothing is trashed.   *)
DeleteRemote ==
  /\ At("op") /\ ops # <<>>
  /\ Head(ops).op = "DeleteRemote"
  /\ rows' = Drop(rows, Head(ops).rel)
  /\ NextOp
  /\ UNCHANGED <<disk, drive, watcherVars, buf, stamp, status, fetched, boundVars>>

(* Mutant: a parent without a row is taken to be the root. *)
FindParentNoWalk ==
  /\ At("op") /\ ops # <<>>
  /\ Head(ops).op \in {"UploadNew", "CreateRemoteDir"}
  /\ LET p == ParentOf(Head(ops).rel)
     IN  step' = [Goto("send") EXCEPT
                    !.into = IF p \in DOMAIN rows THEN rows[p].link ELSE Root]
  /\ UNCHANGED <<disk, drive, watcherVars, buf, ops, stamp, rows, status,
                 fetched, boundVars>>

(* parent_link_for: the root, the parent's row, or a walk from the root.   *)
FindParent ==
  /\ At("op") /\ ops # <<>>
  /\ Head(ops).op \in {"UploadNew", "CreateRemoteDir"}
  /\ LET p == ParentOf(Head(ops).rel)
     IN  step' = IF p = <<>> THEN Goto("send")
                 ELSE IF p \in DOMAIN rows
                   THEN [Goto("send") EXCEPT !.into = rows[p].link]
                 ELSE [Goto("walk") EXCEPT !.depth = 1]
  /\ UNCHANGED <<disk, drive, watcherVars, buf, ops, stamp, rows, status,
                 fetched, boundVars>>

Segment == SubSeq(Head(ops).rel, 1, step.depth)

(* Mutant: the walk goes on in the folder it came from. *)
DescendInPlace(link) ==
  step' = [step EXCEPT !.depth = @ + 1,
                       !.at = IF step.depth + 1 = Len(Head(ops).rel)
                                THEN "send" ELSE "walk"]

Descend(link) ==
  step' = [step EXCEPT !.into = link, !.depth = @ + 1,
                       !.at = IF step.depth + 1 = Len(Head(ops).rel)
                                THEN "send" ELSE "walk"]

WalkRow ==
  /\ At("walk")
  /\ Segment \in DOMAIN rows
  /\ Descend(rows[Segment].link)
  /\ UNCHANGED <<disk, drive, watcherVars, buf, ops, stamp, rows, status,
                 fetched, boundVars>>

WalkCreate ==
  /\ At("walk")
  /\ Segment \notin DOMAIN rows
  /\ StoreFolder(step.into, LeafOf(Segment), FreshLink)
  /\ step' = [step EXCEPT !.at = "walked", !.link = FreshLink]
  /\ UNCHANGED <<disk, fsEvents, localRx, remoteRx, buf, ops, stamp, rows,
                 status, fetched, boundVars>>

WalkRecord ==
  /\ At("walked")
  /\ rows' = Put(rows, Segment,
                 [link |-> step.link, parent |-> step.into, folder |-> TRUE,
                  rev |-> 0, materialized |-> FALSE])
  /\ Descend(step.link)
  /\ UNCHANGED <<disk, drive, watcherVars, buf, ops, stamp, status, fetched,
                 boundVars>>

(* create_folder of the walk is not retried: an error drops the operation. *)
WalkFail ==
  /\ At("walk")
  /\ Segment \notin DOMAIN rows
  /\ \/ ~CanCreateFolder(step.into, LeafOf(Segment)) /\ UNCHANGED faults
     \/ faults < MaxFaults /\ faults' = faults + 1
  /\ NextOp
  /\ UNCHANGED <<disk, drive, watcherVars, buf, stamp, rows, status, fetched,
                 edits, restarts>>

Readable(path) == path \in DOMAIN disk /\ ~disk[path].folder

(* The call of the head operation, with its effect on the drive. *)
Effect(link) ==
  LET o == Head(ops)
  IN  IF o.op = "UploadNew"
        THEN /\ Readable(o.path)
             /\ StoreFile(step.into, LeafOf(o.rel), disk[o.path].rev, link)
        ELSE StoreFolder(step.into, LeafOf(o.rel), link)

Rejected ==
  LET o == Head(ops)
  IN  IF o.op = "UploadNew"
        THEN ~(Readable(o.path) /\ CanUpload(step.into, LeafOf(o.rel)))
        ELSE ~CanCreateFolder(step.into, LeafOf(o.rel))

SendOk ==
  /\ At("send")
  /\ \E link \in 1 .. FreshLink :
       /\ Effect(link)
       /\ step' = [step EXCEPT !.at = "record", !.link = link]
  /\ UNCHANGED <<disk, fsEvents, localRx, remoteRx, buf, ops, stamp, rows,
                 status, fetched, boundVars>>

(* Mutants: one attempt too many; never giving up. *)
RetryOnceMore ==
  IF step.tries < Attempts
    THEN step' = [step EXCEPT !.tries = @ + 1] /\ UNCHANGED ops
    ELSE NextOp

RetryForEver ==
  step' = [step EXCEPT !.tries = (@ + 1) % Attempts] /\ UNCHANGED ops

RetryOrDrop ==
  IF step.tries + 1 < Attempts
    THEN step' = [step EXCEPT !.tries = @ + 1] /\ UNCHANGED ops
    ELSE NextOp

(* The call fails: refused, or lost before or after it took effect. *)
SendFail ==
  /\ At("send")
  /\ \/ Rejected /\ UNCHANGED <<drive, unseen, faults>>
     \/ /\ faults < MaxFaults /\ faults' = faults + 1
        /\ \/ UNCHANGED <<drive, unseen>>
           \/ \E link \in 1 .. FreshLink : Effect(link)
  /\ RetryOrDrop
  /\ UNCHANGED <<disk, fsEvents, localRx, remoteRx, buf, stamp, rows, status,
                 fetched, edits, restarts>>

Record ==
  /\ At("record")
  /\ LET o == Head(ops)
         upload == o.op = "UploadNew"
     IN  rows' = Put(rows, o.rel,
                   [link |-> step.link, parent |-> step.into,
                    folder |-> ~upload,
                    rev |-> IF upload /\ o.path \in DOMAIN disk
                              THEN disk[o.path].rev ELSE 0,
                    materialized |-> upload])
  /\ NextOp
  /\ UNCHANGED <<disk, drive, watcherVars, buf, stamp, status, fetched, boundVars>>

(***************************************************************************)
(* Aborting the agent's task and starting a new one over the same database *)
(***************************************************************************)
Abort ==
  /\ ~At("down") /\ restarts < MaxRestarts
  /\ restarts' = restarts + 1
  /\ fsEvents' = <<>> /\ localRx' = <<>> /\ remoteRx' = <<>>
  /\ buf' = [local |-> <<>>, remote |-> <<>>]
  /\ ops' = <<>> /\ fetched' = {}
  /\ step' = Goto("down")
  /\ UNCHANGED <<disk, drive, unseen, stamp, rows, status, edits, faults>>

Start ==
  /\ At("down")
  /\ step' = Goto("select")
  /\ UNCHANGED <<disk, drive, watcherVars, buf, ops, stamp, rows, status,
                 fetched, boundVars>>

(***************************************************************************)
(* Specification                                                           *)
(***************************************************************************)
Init ==
  /\ disk = <<>> /\ drive = <<>> /\ rows = <<>>
  /\ fsEvents = <<>> /\ unseen = {} /\ localRx = <<>> /\ remoteRx = <<>>
  /\ buf = [local |-> <<>>, remote |-> <<>>]
  /\ ops = <<>> /\ step = Goto("select") /\ stamp = 0
  /\ status = "idle" /\ fetched = {}
  /\ edits = 0 /\ faults = 0 /\ restarts = 0

Watchers == TranslateEvent \/ \E l \in unseen : ReportRemote(l)

Loop == RecvLocal \/ RecvRemote \/ Tick \/ Heartbeat \/ FinishCycle

Propagate ==
  \/ SkipOp \/ DeleteRemote \/ FindParent
  \/ WalkRow \/ WalkCreate \/ WalkRecord \/ WalkFail
  \/ SendOk \/ SendFail \/ Record

Next == User \/ Watchers \/ Loop \/ Propagate \/ Abort \/ Start

(* The agent awaits an answer of the bridge. *)
Calling == At("send") \/ (At("walk") /\ Segment \notin DOMAIN rows)

(* The local watcher and the task run as long as the process does; select! *)
(* polls its branches in random order, so none is passed over for ever.    *)
(* Nothing is assumed of what the remote watcher finds.  A call of the     *)
(* bridge has no timeout (bridge.go), and the block workers of a failed    *)
(* upload keep permits that later calls wait for (file_upload.go:279-300): *)
(* a call returns only as long as none has failed.                         *)
Fairness ==
  /\ WF_vars(TranslateEvent)
  /\ WF_vars(RecvLocal) /\ WF_vars(RecvRemote)
  /\ WF_vars(Tick) /\ WF_vars(FinishCycle)
  /\ WF_vars(Propagate /\ (Calling => faults = 0)) /\ WF_vars(Start)

Spec     == Init /\ [][Next]_vars
FairSpec == Spec /\ Fairness

=============================================================================
