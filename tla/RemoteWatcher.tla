--------------------------- MODULE RemoteWatcher ---------------------------
(***************************************************************************)
(* remote.rs and pd_events of bridge.go: how the watcher's task finds out  *)
(* what changed on the drive.  The drive has no change log here: on the    *)
(* first run a breadth-first scan reports everything; from then on each    *)
(* poll walks the whole tree and reports what has a modification time      *)
(* later than the stored cursor.                                           *)
(*                                                                         *)
(* The watcher is a task of its own.  Stopping the agent drops the         *)
(* receiving end of its channel but leaves the task running, so after a    *)
(* restart several watchers share the cursor: watcher[i] is the i-th.      *)
(***************************************************************************)
EXTENDS Naturals, Sequences, SequencesExt

CONSTANTS
  Nodes, ParentOf, Top,
  FolderNodes,  \* the nodes that are folders
  Capacity,     \* room in a watcher's channel (1024 in the source)
  RacingEdits,  \* may the drive change while a watcher walks it?
  SecondEdits,  \* may it change in the second the cursor names?
  MaxEdits,     \* bound on changes of the drive
  MaxTime,      \* bound on the clock (seconds)
  MaxScanFaults, MaxPollFaults, \* bounds on failed list calls
  MaxRestarts   \* bound on restarts of the agent

(* The nodes form a tree: no set of them is closed under ParentOf.         *)
ASSUME WatcherAssumption ==
  /\ IsFiniteSet(Nodes) /\ FolderNodes \subseteq Nodes /\ Top \notin Nodes
  /\ ParentOf \in [Nodes -> FolderNodes \cup {Top}]
  /\ \A S \in SUBSET Nodes : S # {} => \E n \in S : ParentOf[n] \notin S
  /\ Capacity \in Nat \ {0} /\ RacingEdits \in BOOLEAN /\ SecondEdits \in BOOLEAN
  /\ MaxEdits \in Nat /\ MaxTime \in Nat \ {0} /\ MaxRestarts \in Nat
  /\ MaxScanFaults \in Nat /\ MaxPollFaults \in Nat

VARIABLES
  (* the drive and the clock *)
  ver, mtime, clock,
  (* the watchers *)
  cursor,    \* kv table of the state database, shared by all of them
  watcher,   \* watcher[i]: state of the i-th task
  (* the agent *)
  owner,     \* the watcher whose channel the agent holds
  chan,      \* the contents of that channel
  applied,   \* versions the agent has put into the database
  (* observation: the version last sent to the agent *)
  reported,
  (* counters of the bounds *)
  edits, scanFaults, pollFaults

driveVars == <<ver, mtime, clock>>
agentVars == <<owner, chan, applied, reported>>
boundVars == <<edits, scanFaults, pollFaults>>
vars == <<driveVars, cursor, watcher, agentVars, boundVars>>

Ids    == 1 .. MaxRestarts + 1
Record == [node : Nodes, ver : Nat, mtime : 0 .. MaxTime]
Places == {"off", "start", "scan", "walk", "send", "sleep"}

(* queue: folders the scan has still to list; out: entries to send; stack: *)
(* entries the poll's walk has still to visit.                             *)
Watcher == [at : Places, queue : Seq(Nodes \cup {Top}), out : Seq(Record),
            stack : Seq(Record), since : 0 .. MaxTime, now : 0 .. MaxTime]

Task(place) == [at |-> place, queue |-> <<>>, out |-> <<>>, stack |-> <<>>,
                since |-> 0, now |-> 0]

At(i, place) == watcher[i].at = place

(* Mutant: a dropped channel leads to the new agent. *)
OpenToAll(i) == TRUE

Open(i) == i = owner

(* One list call: the children at that moment, in the server's order.      *)
Listings(folder) ==
  SetToSeqs({[node |-> n, ver |-> ver[n], mtime |-> mtime[n]] :
               n \in {m \in Nodes : ParentOf[m] = folder /\ ver[m] > 0}})

Present == {Top} \cup {n \in Nodes : ver[n] > 0}

Become(i, task) == watcher' = [watcher EXCEPT ![i] = task]

(***************************************************************************)
(* The drive                                                               *)
(***************************************************************************)
(* No watcher is walking or sending. *)
Quiet == \A i \in Ids : watcher[i].at \in {"off", "start", "sleep"}

(* A poll reports what is later than the cursor: a change in the cursor's  *)
(* own second comes after the walk that set it and is never reported.      *)
Edit(n) ==
  /\ edits < MaxEdits /\ edits' = edits + 1
  /\ RacingEdits \/ Quiet
  /\ SecondEdits \/ clock > cursor
  /\ ParentOf[n] \in Present
  /\ ver' = [ver EXCEPT ![n] = @ + 1]
  /\ mtime' = [mtime EXCEPT ![n] = clock]
  /\ UNCHANGED <<clock, cursor, watcher, agentVars, scanFaults, pollFaults>>

PassTime ==
  /\ clock < MaxTime /\ clock' = clock + 1
  /\ UNCHANGED <<ver, mtime, cursor, watcher, agentVars, boundVars>>

(***************************************************************************)
(* The first run: bfs_scan                                                 *)
(***************************************************************************)
StartScan(i) ==
  /\ At(i, "start") /\ cursor = 0
  /\ Become(i, [Task("scan") EXCEPT !.queue = <<Top>>])
  /\ UNCHANGED <<driveVars, cursor, agentVars, boundVars>>

ScanList(i) ==
  /\ At(i, "scan") /\ watcher[i].out = <<>> /\ watcher[i].queue # <<>>
  /\ \E children \in Listings(Head(watcher[i].queue)) :
       Become(i, [watcher[i] EXCEPT !.queue = Tail(@), !.out = children])
  /\ UNCHANGED <<driveVars, cursor, agentVars, boundVars>>

(* A folder that cannot be listed is skipped.                              *)
ScanSkip(i) ==
  /\ At(i, "scan") /\ watcher[i].out = <<>> /\ watcher[i].queue # <<>>
  /\ scanFaults < MaxScanFaults /\ scanFaults' = scanFaults + 1
  /\ Become(i, [watcher[i] EXCEPT !.queue = Tail(@)])
  /\ UNCHANGED <<driveVars, cursor, agentVars, edits, pollFaults>>

Send(e) ==
  /\ Len(chan) < Capacity
  /\ chan' = Append(chan, e)
  /\ reported' = [reported EXCEPT ![e.node] = e.ver]

(* The cursor a scan leaves is the client's clock when it returns, also    *)
(* when it returns early because the agent dropped the channel.            *)

(* Mutant: the cursor is set past the clock. *)
EndScanAhead(i) == Become(i, Task("start")) /\ cursor' = clock + 1

EndScan(i) == Become(i, Task("start")) /\ cursor' = clock

ScanSend(i) ==
  /\ At(i, "scan") /\ watcher[i].out # <<>>
  /\ LET e == Head(watcher[i].out)
         w == [watcher[i] EXCEPT !.out = Tail(@),
                 !.queue = IF e.node \in FolderNodes THEN Append(@, e.node) ELSE @]
     IN  IF Open(i)
           THEN Send(e) /\ Become(i, w) /\ UNCHANGED cursor
           ELSE EndScan(i) /\ UNCHANGED <<chan, reported>>
  /\ UNCHANGED <<driveVars, owner, applied, boundVars>>

ScanDone(i) ==
  /\ At(i, "scan") /\ watcher[i].out = <<>> /\ watcher[i].queue = <<>>
  /\ EndScan(i)
  /\ UNCHANGED <<driveVars, agentVars, boundVars>>

(***************************************************************************)
(* Polling: pd_events walks depth first, then the events are sent          *)
(***************************************************************************)
StartPoll(i) ==
  /\ At(i, "sleep") \/ (At(i, "start") /\ cursor # 0)
  /\ \E children \in Listings(Top) :
       Become(i, [Task("walk") EXCEPT !.since = cursor, !.stack = children])
  /\ UNCHANGED <<driveVars, cursor, agentVars, boundVars>>

Walk(i) ==
  /\ At(i, "walk") /\ watcher[i].stack # <<>>
  /\ LET e == Head(watcher[i].stack)
         below == IF e.node \in FolderNodes THEN Listings(e.node) ELSE {<<>>}
     IN  \E children \in below :
           Become(i, [watcher[i] EXCEPT
             !.stack = children \o Tail(@),
             !.out = IF e.mtime > watcher[i].since THEN Append(@, e) ELSE @])
  /\ UNCHANGED <<driveVars, cursor, agentVars, boundVars>>

(* Mutants: a failed poll moves the cursor as if it had succeeded; a failed *)
(* poll answers 0 and 0 is stored.                                         *)
PollFailsForward(i) ==
  /\ At(i, "walk")
  /\ pollFaults < MaxPollFaults /\ pollFaults' = pollFaults + 1
  /\ cursor' = clock
  /\ Become(i, Task("sleep"))
  /\ UNCHANGED <<driveVars, agentVars, edits, scanFaults>>

PollFailsToZero(i) ==
  /\ At(i, "walk")
  /\ pollFaults < MaxPollFaults /\ pollFaults' = pollFaults + 1
  /\ cursor' = 0
  /\ Become(i, Task("sleep"))
  /\ UNCHANGED <<driveVars, agentVars, edits, scanFaults>>

(* A list call that fails fails the poll: nothing is sent, the cursor      *)
(* stays, and the watcher sleeps.                                          *)
PollFails(i) ==
  /\ At(i, "walk")
  /\ pollFaults < MaxPollFaults /\ pollFaults' = pollFaults + 1
  /\ Become(i, Task("sleep"))
  /\ UNCHANGED <<driveVars, cursor, agentVars, edits, scanFaults>>

WalkDone(i) ==
  /\ At(i, "walk") /\ watcher[i].stack = <<>>
  /\ Become(i, [watcher[i] EXCEPT !.at = "send", !.now = clock])
  /\ UNCHANGED <<driveVars, cursor, agentVars, boundVars>>

(* The result of tx.send is ignored: a dropped channel swallows the event. *)
PollSend(i) ==
  /\ At(i, "send") /\ watcher[i].out # <<>>
  /\ IF Open(i) THEN Send(Head(watcher[i].out)) ELSE UNCHANGED <<chan, reported>>
  /\ Become(i, [watcher[i] EXCEPT !.out = Tail(@)])
  /\ UNCHANGED <<driveVars, cursor, owner, applied, boundVars>>

PollDone(i) ==
  /\ At(i, "send") /\ watcher[i].out = <<>>
  /\ cursor' = watcher[i].now
  /\ Become(i, Task("sleep"))
  /\ UNCHANGED <<driveVars, agentVars, boundVars>>

(***************************************************************************)
(* The agent                                                               *)
(***************************************************************************)
Take ==
  /\ chan # <<>>
  /\ applied' = [applied EXCEPT ![Head(chan).node] = Head(chan).ver]
  /\ chan' = Tail(chan)
  /\ UNCHANGED <<driveVars, cursor, watcher, owner, reported, boundVars>>

Restart ==
  /\ owner <= MaxRestarts
  /\ owner' = owner + 1
  /\ chan' = <<>>
  /\ Become(owner + 1, Task("start"))
  /\ UNCHANGED <<driveVars, cursor, applied, reported, boundVars>>

(***************************************************************************)
(* Specification                                                           *)
(***************************************************************************)
Init ==
  /\ ver \in [Nodes -> {0, 1}]
  /\ \A n \in Nodes : ver[n] > 0 => ParentOf[n] \in Present
  /\ mtime = [n \in Nodes |-> 0]
  /\ clock = 1 /\ cursor = 0
  /\ watcher = [i \in Ids |-> Task(IF i = 1 THEN "start" ELSE "off")]
  /\ owner = 1 /\ chan = <<>>
  /\ applied = [n \in Nodes |-> 0] /\ reported = [n \in Nodes |-> 0]
  /\ edits = 0 /\ scanFaults = 0 /\ pollFaults = 0

Run(i) ==
  \/ StartScan(i) \/ ScanList(i) \/ ScanSkip(i) \/ ScanSend(i) \/ ScanDone(i)
  \/ StartPoll(i) \/ Walk(i) \/ PollFails(i) \/ WalkDone(i)
  \/ PollSend(i) \/ PollDone(i)

Next ==
  \/ \E n \in Nodes : Edit(n)
  \/ PassTime
  \/ \E i \in Ids : Run(i)
  \/ Take \/ Restart

Spec == Init /\ [][Next]_vars

(* The runtime keeps polling every task, the agent keeps receiving.        *)
FairSpec == Spec /\ WF_vars(Take) /\ \A i \in Ids : WF_vars(Run(i))

-----------------------------------------------------------------------------
TypeOK ==
  /\ ver \in [Nodes -> Nat] /\ mtime \in [Nodes -> 0 .. MaxTime]
  /\ clock \in 1 .. MaxTime /\ cursor \in 0 .. MaxTime
  /\ watcher \in [Ids -> Watcher]
  /\ owner \in Ids /\ chan \in Seq(Record)
  /\ applied \in [Nodes -> Nat] /\ reported \in [Nodes -> Nat]
  /\ edits \in Nat /\ scanFaults \in Nat /\ pollFaults \in Nat

(* A watcher that has its agent to itself never sets the cursor back, so   *)
(* it never reports a change twice.                                        *)
CursorMonotone == [][cursor' >= cursor]_cursor

(* The cursor names no change the feed has not had: what a resting watcher *)
(* will not report any more has been reported, whatever polls failed.  It  *)
(* holds while the drive changes neither under a walk nor in the cursor's  *)
(* own second: either change is lost (remote.rs:46, 58; bridge.go:687,     *)
(* 709).                                                                   *)
CursorSound ==
  At(owner, "sleep") =>
    \A n \in Nodes : ver[n] > 0 /\ mtime[n] <= cursor => reported[n] = ver[n]

(* The abstract feed: what ChangeFeed promises the engine.                 *)
Feed == INSTANCE ChangeFeed WITH
          feed <- [k \in DOMAIN chan |-> [node |-> chan[k].node,
                                          ver  |-> chan[k].ver]]
FeedSpec     == Feed!Spec
FeedFairSpec == Feed!FairSpec

(* No version of a node ever overwrites a newer one in the database, also  *)
(* when watchers of earlier agents are still at work, the drive changes    *)
(* under a walk, and scans and polls fail.                                 *)
NeverOlder == [][\A n \in Nodes : applied'[n] >= applied[n]]_applied
=============================================================================
