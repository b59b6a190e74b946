---------------------- MODULE RemoteWatcherFeedProofs ----------------------
(***************************************************************************)
(* That RemoteWatcher implements ChangeFeed, for any tree of nodes, while  *)
(* the agent is never restarted, the drive changes neither while a watcher *)
(* walks it nor in the second the cursor names, and the list calls of the  *)
(* first scan succeed.  Without any one of the four it does not.           *)
(***************************************************************************)
EXTENDS RemoteWatcherProofs

Calm == MaxRestarts = 0 /\ ~RacingEdits /\ ~SecondEdits /\ MaxScanFaults = 0

Distinct(q) == \A j, k \in DOMAIN q : q[j] = q[k] => j = k

Known(r) == {Top} \cup {n \in Nodes : r[n] > 0}

(* Entries that still show the drive as it is.                             *)
Exact(s, v, m) ==
  \A k \in DOMAIN s : LET n == s[k].node
                      IN  s[k].ver = v[n] /\ s[k].mtime = m[n] /\ v[n] > 0

(* The folder of an entry has been sent, or goes before it.                *)
Ordered(s, r) ==
  \A k \in DOMAIN s : \/ ParentOf[s[k].node] \in Known(r)
                      \/ \E j \in DOMAIN s : j < k /\ s[j].node = ParentOf[s[k].node]

(* All that is no newer than the cursor was sent; what is newer was not.   *)
Settled(r, v, m, c) == \A n \in Nodes : v[n] > 0 /\ m[n] <= c => r[n] = v[n]
Fresh(r, v, m, c)   == \A n \in Nodes : m[n] > c => r[n] < v[n]

(* A scan has listed the folders of L: their children have been sent or    *)
(* are about to be, and the folders among those are in L or in the queue.  *)
Scanned(w, L, r, v, m) ==
  /\ Distinct(w.queue) /\ ToSet(w.queue) \cap L = {}
  /\ ToSet(w.queue) \cup L \subseteq Known(r)
  /\ \A n \in Nodes : r[n] > 0 => /\ ParentOf[n] \in L
                                  /\ n \in FolderNodes => n \in L \cup ToSet(w.queue)
  /\ Top \in L \cup ToSet(w.queue)
  /\ Exact(w.out, v, m)
  /\ \A k \in DOMAIN w.out : ParentOf[w.out[k].node] \in L /\ r[w.out[k].node] = 0
  /\ \A n \in Nodes : v[n] > 0 /\ ParentOf[n] \in L => r[n] = v[n] \/ Holds(w.out, n)

(* A walk has visited V: its changed entries wait to be sent, what is      *)
(* below it is in it or still on the stack.                                *)
Visited(w, V, r, v, m) ==
  /\ Walked(w, V) /\ Exact(w.out, v, m) /\ Exact(w.stack, v, m) /\ Ordered(w.out, r)
  /\ \A n \in V : v[n] > 0 /\ (m[n] > w.since => Holds(w.out, n))
  /\ \A n \in Nodes : v[n] > 0 /\ ParentOf[n] \in V \cup {Top} => n \in V \/ Holds(w.stack, n)
  /\ \A k \in DOMAIN w.out : w.out[k].mtime > w.since

(* What is left to send is all that the cursor to come promises.           *)
Sending(w, r, v, m, c) ==
  /\ Exact(w.out, v, m) /\ Ordered(w.out, r)
  /\ \A k \in DOMAIN w.out : r[w.out[k].node] < v[w.out[k].node]
  /\ \A n \in Nodes : v[n] > 0 /\ m[n] > c => r[n] = v[n] \/ Holds(w.out, n)
  /\ \A n \in Nodes : m[n] <= w.now

Phase(w, r, v, m, c) ==
  /\ w.at # "off" /\ (c = 0 => w.at \in {"start", "scan"})
  /\ c # 0 => Settled(r, v, m, c) /\ (w.at # "send" => Fresh(r, v, m, c))
  /\ w.at = "start" /\ c = 0 => \A n \in Nodes : r[n] = 0
  /\ w.at = "scan" => c = 0 /\ \E L \in SUBSET (Nodes \cup {Top}) : Scanned(w, L, r, v, m)
  /\ w.at = "walk" => w.since = c /\ \E V \in SUBSET Nodes : Visited(w, V, r, v, m)
  /\ w.at = "send" => Sending(w, r, v, m, c)

(* The cursor is behind the clock, and behind the next one.                *)
CursorBehind ==
  /\ cursor <= clock /\ watcher[1].now <= clock
  /\ At(1, "send") => cursor <= watcher[1].now

DriveTree ==
  \A n \in Nodes : mtime[n] <= clock /\ (ver[n] > 0 => ParentOf[n] \in Present)

FeedInv ==
  /\ WatchInv /\ CursorBehind /\ DriveTree
  /\ Phase(watcher[1], reported, ver, mtime, cursor)

-----------------------------------------------------------------------------
(* Sequences.                                                              *)
LEMMA QueueTail ==
  ASSUME NEW S, NEW q \in Seq(S), q # <<>>, Distinct(q)
  PROVE  /\ Head(q) \in ToSet(q) /\ Distinct(Tail(q)) /\ Tail(q) \in Seq(S)
         /\ ToSet(Tail(q)) = ToSet(q) \ {Head(q)}
<1> DEFINE t == Tail(q)
<1>1. /\ Len(q) \in Nat \ {0} /\ DOMAIN q = 1 .. Len(q) /\ Head(q) = q[1]
      /\ t \in Seq(S) /\ Len(t) = Len(q) - 1
  BY EmptySeq, LenProperties, HeadTailProperties
<1>2. DOMAIN t = 1 .. Len(q) - 1 /\ \A k \in 1 .. Len(q) - 1 : t[k] = q[k + 1]
  BY <1>1, LenProperties, HeadTailProperties
<1> HIDE DEF t
<1>3. Head(q) \in ToSet(q)
  BY <1>1 DEF ToSet
<1>4. Distinct(t)
  <2> SUFFICES ASSUME NEW j \in DOMAIN t, NEW k \in DOMAIN t, t[j] = t[k] PROVE j = k
    BY DEF Distinct
  <2>1. j + 1 \in DOMAIN q /\ k + 1 \in DOMAIN q /\ q[j + 1] = q[k + 1]
    BY <1>1, <1>2
  <2>2. j + 1 = k + 1
    BY <2>1 DEF Distinct
  <2> QED BY <1>1, <1>2, <2>2
<1>5. ASSUME NEW e \in ToSet(t) PROVE e \in ToSet(q) \ {Head(q)}
  <2>1. PICK k \in DOMAIN t : e = t[k]
    BY DEF ToSet
  <2>2. k + 1 \in DOMAIN q /\ e = q[k + 1] /\ k + 1 # 1 /\ 1 \in DOMAIN q
    BY <1>1, <1>2, <2>1
  <2>3. e # Head(q)
    BY <1>1, <2>2 DEF Distinct
  <2> QED BY <2>2, <2>3 DEF ToSet
<1>6. ASSUME NEW e \in ToSet(q) \ {Head(q)} PROVE e \in ToSet(t)
  <2>1. PICK k \in DOMAIN q : e = q[k]
    BY DEF ToSet
  <2>2. k # 1
    BY <1>1, <2>1
  <2>3. k - 1 \in DOMAIN t /\ (k - 1) + 1 = k
    BY <1>1, <1>2, <2>2
  <2>4. t[k - 1] = e
    BY <1>2, <2>1, <2>3
  <2> QED BY <2>3, <2>4 DEF ToSet
<1> QED BY <1>1, <1>3, <1>4, <1>5, <1>6 DEF t

LEMMA QueueAppend ==
  ASSUME NEW S, NEW q \in Seq(S), NEW e \in S, Distinct(q), e \notin ToSet(q)
  PROVE  Distinct(Append(q, e)) /\ ToSet(Append(q, e)) = ToSet(q) \cup {e}
<1> DEFINE t == Append(q, e)
<1>1. /\ DOMAIN q = 1 .. Len(q) /\ Len(q) \in Nat /\ DOMAIN t = 1 .. Len(q) + 1
      /\ t[Len(q) + 1] = e /\ \A k \in DOMAIN q : t[k] = q[k]
  BY AppendFacts
<1> HIDE DEF t
<1>2. \A k \in DOMAIN t : k \in DOMAIN q \/ k = Len(q) + 1
  BY <1>1
<1>3. ToSet(t) = ToSet(q) \cup {e}
  <2>1. DOMAIN q \subseteq DOMAIN t /\ Len(q) + 1 \in DOMAIN t
    BY <1>1
  <2> QED BY <1>1, <1>2, <2>1 DEF ToSet
<1>4. \A k \in DOMAIN q : q[k] # e
  BY DEF ToSet
<1>5. Distinct(t)
  BY <1>1, <1>2, <1>4 DEF Distinct
<1> QED BY <1>3, <1>5 DEF t

(* Entries: which nodes are in a sequence.                                 *)
LEMMA HoldsTail ==
  ASSUME NEW s \in Seq(Record), s # <<>>, NEW n, Holds(s, n), n # Head(s).node
  PROVE  Holds(Tail(s), n)
<1>1. PICK k \in DOMAIN s : s[k].node = n
  BY DEF Holds
<1>2. /\ Len(s) \in Nat /\ DOMAIN s = 1 .. Len(s) /\ Head(s) = s[1]
      /\ DOMAIN Tail(s) = 1 .. Len(s) - 1 /\ \A j \in DOMAIN Tail(s) : Tail(s)[j] = s[j + 1]
  BY TailFacts, EntryFacts
<1>3. k # 1
  BY <1>1, <1>2
<1>4. k - 1 \in DOMAIN Tail(s) /\ (k - 1) + 1 = k
  BY <1>2, <1>3
<1>5. Tail(s)[k - 1].node = n
  BY <1>1, <1>2, <1>4
<1> QED BY <1>4, <1>5 DEF Holds

LEMMA HoldsConcat ==
  ASSUME NEW s \in Seq(Record), NEW t \in Seq(Record), NEW n, Holds(s, n) \/ Holds(t, n)
  PROVE  Holds(s \o t, n)
<1> DEFINE u == s \o t
<1>1. /\ Len(s) \in Nat /\ Len(t) \in Nat /\ DOMAIN s = 1 .. Len(s) /\ DOMAIN t = 1 .. Len(t)
      /\ DOMAIN u = 1 .. Len(s) + Len(t)
      /\ \A k \in DOMAIN s : u[k] = s[k]
      /\ \A k \in DOMAIN t : u[Len(s) + k] = t[k]
  BY ConcatFacts
<1> HIDE DEF u
<1>2. CASE Holds(s, n)
  <2>1. DOMAIN s \subseteq DOMAIN u
    BY <1>1
  <2> QED BY <1>1, <1>2, <2>1 DEF Holds, u
<1>3. CASE Holds(t, n)
  <2>1. PICK k \in DOMAIN t : t[k].node = n
    BY <1>3 DEF Holds
  <2>2. Len(s) + k \in DOMAIN u /\ u[Len(s) + k].node = n
    BY <1>1, <2>1
  <2> QED BY <2>2 DEF Holds, u
<1> QED BY <1>2, <1>3

LEMMA HoldsAppend ==
  ASSUME NEW s \in Seq(Record), NEW e \in Record, NEW n, Holds(s, n) \/ n = e.node
  PROVE  Holds(Append(s, e), n)
<1>1. /\ DOMAIN s = 1 .. Len(s) /\ Len(s) \in Nat /\ DOMAIN Append(s, e) = 1 .. Len(s) + 1
      /\ Append(s, e)[Len(s) + 1] = e /\ \A k \in DOMAIN s : Append(s, e)[k] = s[k]
  BY AppendFacts
<1>2. Len(s) + 1 \in DOMAIN Append(s, e) /\ DOMAIN s \subseteq DOMAIN Append(s, e)
  BY <1>1
<1> QED BY <1>1, <1>2 DEF Holds

(* Entries that show the drive as it is, and their order.                  *)
LEMMA ExactTail ==
  ASSUME NEW s \in Seq(Record), s # <<>>, NEW v, NEW m, Exact(s, v, m)
  PROVE  /\ Exact(Tail(s), v, m)
         /\ Head(s).ver = v[Head(s).node] /\ Head(s).mtime = m[Head(s).node] /\ v[Head(s).node] > 0
BY TailFacts DEF Exact

LEMMA ExactConcat ==
  ASSUME NEW s \in Seq(Record), NEW t \in Seq(Record), NEW v, NEW m, Exact(s, v, m), Exact(t, v, m)
  PROVE  Exact(s \o t, v, m)
<1>1. \A k \in DOMAIN (s \o t) : \/ k \in DOMAIN s /\ (s \o t)[k] = s[k]
                                 \/ k - Len(s) \in DOMAIN t /\ (s \o t)[k] = t[k - Len(s)]
  BY ConcatFacts
<1> QED BY <1>1 DEF Exact

LEMMA ExactAppend ==
  ASSUME NEW s \in Seq(Record), NEW e \in Record, NEW v, NEW m, Exact(s, v, m),
         e.ver = v[e.node], e.mtime = m[e.node], v[e.node] > 0
  PROVE  Exact(Append(s, e), v, m)
<1>1. \A k \in DOMAIN Append(s, e) : \/ k \in DOMAIN s /\ Append(s, e)[k] = s[k]
                                     \/ Append(s, e)[k] = e
  BY AppendFacts
<1> QED BY <1>1 DEF Exact

LEMMA OrderedTail ==
  ASSUME NEW s \in Seq(Record), s # <<>>, NEW r, NEW u, Ordered(s, r),
         Known(r) \cup {Head(s).node} \subseteq Known(u)
  PROVE  Ordered(Tail(s), u)
<1> DEFINE t == Tail(s)
<1>1. /\ Len(s) \in Nat /\ DOMAIN s = 1 .. Len(s) /\ Head(s) = s[1]
      /\ DOMAIN t = 1 .. Len(s) - 1 /\ \A j \in DOMAIN t : j + 1 \in DOMAIN s /\ t[j] = s[j + 1]
  BY TailFacts, EntryFacts
<1> HIDE DEF t
<1> SUFFICES ASSUME NEW k \in DOMAIN t, ParentOf[t[k].node] \notin Known(u)
             PROVE  \E j \in DOMAIN t : j < k /\ t[j].node = ParentOf[t[k].node]
  BY DEF Ordered, t
<1>2. k + 1 \in DOMAIN s /\ t[k] = s[k + 1]
  BY <1>1
<1>3. PICK j \in DOMAIN s : j < k + 1 /\ s[j].node = ParentOf[t[k].node]
  BY <1>2 DEF Ordered
<1>4. j # 1
  BY <1>1, <1>3
<1>5. j - 1 \in DOMAIN t /\ (j - 1) + 1 = j /\ j - 1 < k
  BY <1>1, <1>3, <1>4
<1>6. t[j - 1].node = ParentOf[t[k].node]
  BY <1>1, <1>3, <1>5
<1> QED BY <1>5, <1>6

LEMMA OrderedAppend ==
  ASSUME NEW s \in Seq(Record), NEW e \in Record, NEW r, Ordered(s, r),
         ParentOf[e.node] \in Known(r) \/ Holds(s, ParentOf[e.node])
  PROVE  Ordered(Append(s, e), r)
<1> DEFINE t == Append(s, e)
<1>1. /\ DOMAIN s = 1 .. Len(s) /\ Len(s) \in Nat /\ DOMAIN t = 1 .. Len(s) + 1
      /\ t[Len(s) + 1] = e /\ \A k \in DOMAIN s : t[k] = s[k]
  BY AppendFacts
<1> HIDE DEF t
<1>2. DOMAIN s \subseteq DOMAIN t /\ \A k \in DOMAIN t : k \in DOMAIN s \/ k = Len(s) + 1
  BY <1>1
<1> SUFFICES ASSUME NEW k \in DOMAIN t, ParentOf[t[k].node] \notin Known(r)
             PROVE  \E j \in DOMAIN t : j < k /\ t[j].node = ParentOf[t[k].node]
  BY DEF Ordered, t
<1>3. CASE k \in DOMAIN s
  <2>1. PICK j \in DOMAIN s : j < k /\ s[j].node = ParentOf[s[k].node]
    BY <1>1, <1>3 DEF Ordered
  <2> QED BY <1>1, <1>2, <1>3, <2>1
<1>4. CASE k = Len(s) + 1
  <2>1. Holds(s, ParentOf[e.node])
    BY <1>1, <1>4
  <2>2. PICK j \in DOMAIN s : s[j].node = ParentOf[e.node]
    BY <2>1 DEF Holds
  <2>3. j < k
    BY <1>1, <1>4
  <2> QED BY <1>1, <1>2, <1>4, <2>2, <2>3
<1> QED BY <1>2, <1>3, <1>4

-----------------------------------------------------------------------------
(* The tree: a set of present nodes that is closed downwards and holds     *)
(* what is at the top holds all of them.                                   *)
LEMMA WholeTree ==
  ASSUME NEW V, NEW v, \A n \in Nodes : v[n] > 0 => ParentOf[n] = Top \/ v[ParentOf[n]] > 0,
         \A n \in Nodes : v[n] > 0 /\ ParentOf[n] \in V \cup {Top} => n \in V
  PROVE  \A n \in Nodes : v[n] > 0 => n \in V
<1> DEFINE S == {n \in Nodes : v[n] > 0 /\ n \notin V}
<1> SUFFICES ASSUME S # {} PROVE FALSE
  OBVIOUS
<1>1. PICK n \in S : ParentOf[n] \notin S
  <2>1. S \in SUBSET Nodes
    OBVIOUS
  <2> HIDE DEF S
  <2> QED BY <2>1, WatcherAssumption DEF WatcherAssumption
<1>2. ParentOf[n] \in Nodes \cup {Top}
  BY WatcherAssumption DEF WatcherAssumption
<1>3. CASE ParentOf[n] = Top
  BY <1>3
<1>4. CASE ParentOf[n] # Top
  <2>1. ParentOf[n] \in Nodes /\ v[ParentOf[n]] > 0
    BY <1>2, <1>4
  <2>2. ParentOf[n] \in V
    BY <1>1, <2>1
  <2> QED BY <2>2
<1> QED BY <1>3, <1>4

LEMMA Parents ==
  ASSUME DriveTree
  PROVE  /\ \A n \in Nodes : ParentOf[n] \in Nodes \cup {Top} /\ (ParentOf[n] # Top => ParentOf[n] \in FolderNodes)
         /\ \A n \in Nodes : ver[n] > 0 => ParentOf[n] = Top \/ ver[ParentOf[n]] > 0
         /\ Top \notin Nodes
<1>1. \A n \in Nodes : ParentOf[n] \in FolderNodes \cup {Top} /\ FolderNodes \subseteq Nodes /\ Top \notin Nodes
  BY WatcherAssumption DEF WatcherAssumption
<1>2. \A n \in Nodes : ver[n] > 0 => ParentOf[n] = Top \/ ver[ParentOf[n]] > 0
  BY DEF DriveTree, Present
<1> QED BY <1>1, <1>2

(* A scan whose queue is empty has sent everything there is.               *)
LEMMA ScanComplete ==
  ASSUME DriveTree, ver \in [Nodes -> Nat], reported \in [Nodes -> Nat],
         NEW w, NEW L, Scanned(w, L, reported, ver, mtime),
         w.queue = <<>>, w.out = <<>>
  PROVE  \A n \in Nodes : ver[n] > 0 => reported[n] = ver[n]
<1> DEFINE V == {n \in Nodes : reported[n] = ver[n]}
<1>1. ToSet(w.queue) = {} /\ \A n : ~Holds(w.out, n)
  BY DEF ToSet, Holds
<1>2. Top \in L
  BY <1>1 DEF Scanned
<1>3. ASSUME NEW n \in Nodes, ver[n] > 0, ParentOf[n] \in V \cup {Top} PROVE n \in V
  <2>1. ParentOf[n] \in L
    <3>1. CASE ParentOf[n] = Top
      BY <1>2, <3>1
    <3>2. CASE ParentOf[n] # Top
      <4>1. /\ ParentOf[n] \in FolderNodes /\ ParentOf[n] \in Nodes
            /\ reported[ParentOf[n]] = ver[ParentOf[n]] /\ ver[ParentOf[n]] > 0
        BY <1>3, <3>2, Parents
      <4> QED BY <1>1, <4>1 DEF Scanned
    <3> QED BY <3>1, <3>2
  <2> QED BY <1>1, <1>3, <2>1 DEF Scanned
<1>4. \A n \in Nodes : ver[n] > 0 => n \in V
  <2> HIDE DEF V
  <2> QED BY <1>3, Parents, WholeTree
<1> QED BY <1>4

(* A walk whose stack is empty has visited everything there is.            *)
LEMMA WalkComplete ==
  ASSUME DriveTree, NEW w, NEW V \in SUBSET Nodes, NEW r, Visited(w, V, r, ver, mtime), w.stack = <<>>
  PROVE  \A n \in Nodes : ver[n] > 0 => n \in V
<1>1. \A n : ~Holds(w.stack, n)
  BY DEF Holds
<1>2. \A n \in Nodes : ver[n] > 0 /\ ParentOf[n] \in V \cup {Top} => n \in V
  BY <1>1 DEF Visited
<1> QED BY <1>2, Parents, WholeTree

-----------------------------------------------------------------------------
(* The cursor.                                                             *)
LEMMA CursorInit == Init => CursorBehind
<1> SUFFICES ASSUME Init PROVE CursorBehind
  OBVIOUS
<1>1. 1 \in Ids
  BY WatcherAssumption DEF WatcherAssumption, Ids
<1>2. watcher[1] = Task("start")
  BY <1>1 DEF Init
<1>3. watcher[1].now = 0 /\ watcher[1].at = "start"
  BY <1>2, TaskType DEF Places
<1> QED BY <1>3 DEF Init, CursorBehind, At

LEMMA Alone ==
  ASSUME MaxRestarts = 0, WatchInv
  PROVE  Ids = {1} /\ owner = 1 /\ watcher[1] \in Watcher /\ 1 \in Ids
         /\ clock \in Nat /\ cursor \in Nat /\ watcher[1].now \in Nat
<1>1. Ids = {1}
  BY DEF Ids
<1>2. watcher[1] \in Watcher /\ owner = 1 /\ clock \in 0 .. MaxTime /\ cursor \in 0 .. MaxTime
  BY <1>1, WatcherFacts DEF WatchInv, TypeOK
<1>3. watcher[1].now \in 0 .. MaxTime
  BY <1>2 DEF Watcher
<1> QED BY <1>1, <1>2, <1>3, WatcherAssumption DEF WatcherAssumption

LEMMA Becomes ==
  ASSUME MaxRestarts = 0, WatchInv, NEW u, Become(1, u)
  PROVE  watcher'[1] = u
BY Alone DEF Become, WatchInv, TypeOK

(* What the actions of the only watcher do to the cursor: most leave it or *)
(* set it to the clock, with nothing left to send.                         *)
LEMMA CursorScans ==
  ASSUME MaxRestarts = 0, WatchInv,
         StartScan(1) \/ ScanList(1) \/ ScanSkip(1) \/ ScanSend(1) \/ ScanDone(1)
  PROVE  /\ clock' = clock /\ cursor' \in {cursor, clock}
         /\ watcher'[1].at # "send" /\ watcher'[1].now \in {0, watcher[1].now}
<1>0. watcher[1] \in Watcher
  BY Alone
<1>1. CASE StartScan(1)
  <2>1. clock' = clock /\ cursor' = cursor /\ watcher'[1] = [Task("scan") EXCEPT !.queue = <<Top>>]
    BY <1>1, Becomes DEF StartScan, driveVars
  <2> QED BY <2>1, TaskType DEF Watcher, Places
<1>2. CASE ScanList(1)
  <2>1. PICK s : watcher'[1] = [watcher[1] EXCEPT !.queue = Tail(@), !.out = s]
    BY <1>2, Becomes DEF ScanList
  <2>2. clock' = clock /\ cursor' = cursor /\ watcher[1].at = "scan"
    BY <1>2 DEF ScanList, driveVars, At
  <2> QED BY <1>0, <2>1, <2>2 DEF Watcher
<1>3. CASE ScanSkip(1)
  <2>1. watcher'[1] = [watcher[1] EXCEPT !.queue = Tail(@)]
    BY <1>3, Becomes DEF ScanSkip
  <2>2. clock' = clock /\ cursor' = cursor /\ watcher[1].at = "scan"
    BY <1>3 DEF ScanSkip, driveVars, At
  <2> QED BY <1>0, <2>1, <2>2 DEF Watcher
<1>4. ASSUME EndScan(1), clock' = clock
      PROVE  /\ clock' = clock /\ cursor' \in {cursor, clock}
             /\ watcher'[1].at # "send" /\ watcher'[1].now \in {0, watcher[1].now}
  <2>1. cursor' = clock /\ watcher'[1] = Task("start")
    BY <1>4, Becomes DEF EndScan
  <2> QED BY <1>4, <2>1, TaskType DEF Places
<1>5. CASE ScanSend(1)
  <2>1. clock' = clock /\ watcher[1].at = "scan"
    BY <1>5 DEF ScanSend, driveVars, At
  <2>2. CASE ~Open(1)
    BY <1>4, <1>5, <2>1, <2>2 DEF ScanSend
  <2>3. CASE Open(1)
    <3>1. cursor' = cursor /\ \E q : watcher'[1] = [watcher[1] EXCEPT !.out = Tail(@), !.queue = q]
      BY <1>5, <2>3, Becomes DEF ScanSend
    <3> QED BY <1>0, <2>1, <3>1 DEF Watcher
  <2> QED BY <2>2, <2>3
<1>6. CASE ScanDone(1)
  BY <1>4, <1>6 DEF ScanDone, driveVars
<1> QED BY <1>1, <1>2, <1>3, <1>5, <1>6

LEMMA CursorPolls ==
  ASSUME MaxRestarts = 0, WatchInv, StartPoll(1) \/ Walk(1) \/ PollFails(1)
  PROVE  /\ clock' = clock /\ cursor' = cursor
         /\ watcher'[1].at # "send" /\ watcher'[1].now \in {0, watcher[1].now}
<1>0. watcher[1] \in Watcher
  BY Alone
<1>1. CASE StartPoll(1)
  <2>1. PICK s : watcher'[1] = [Task("walk") EXCEPT !.since = cursor, !.stack = s]
    BY <1>1, Becomes DEF StartPoll
  <2> QED BY <1>1, <2>1, TaskType DEF StartPoll, driveVars, Watcher, Places
<1>2. CASE Walk(1)
  <2>1. PICK s, o : watcher'[1] = [watcher[1] EXCEPT !.stack = s, !.out = o]
    BY <1>2, Becomes DEF Walk
  <2> QED BY <1>0, <1>2, <2>1 DEF Walk, driveVars, At, Watcher
<1>3. CASE PollFails(1)
  <2>1. watcher'[1] = Task("sleep")
    BY <1>3, Becomes DEF PollFails
  <2> QED BY <1>3, <2>1, TaskType DEF PollFails, driveVars, Places
<1> QED BY <1>1, <1>2, <1>3

LEMMA CursorStep ==
  ASSUME MaxRestarts = 0, WatchInv, CursorBehind, [Next]_vars
  PROVE  CursorBehind' /\ cursor' >= cursor
<1> DEFINE w == watcher[1]
<1>1. /\ Ids = {1} /\ owner = 1 /\ w \in Watcher /\ clock \in Nat /\ cursor \in Nat /\ w.now \in Nat
      /\ cursor <= clock /\ w.now <= clock /\ (w.at = "send" => cursor <= w.now)
  BY Alone DEF CursorBehind, At
<1>2. ASSUME clock' = clock, cursor' \in {cursor, clock}, watcher'[1].at # "send",
             watcher'[1].now \in {0, w.now}
      PROVE  CursorBehind' /\ cursor' >= cursor
  BY <1>1, <1>2 DEF CursorBehind, At
<1>3. ASSUME watcher' = watcher, clock' \in Nat, clock' >= clock, cursor' = cursor
      PROVE  CursorBehind' /\ cursor' >= cursor
  BY <1>1, <1>3 DEF CursorBehind, At
<1>4. CASE StartScan(1) \/ ScanList(1) \/ ScanSkip(1) \/ ScanSend(1) \/ ScanDone(1)
  BY <1>2, <1>4, CursorScans
<1>5. CASE StartPoll(1) \/ Walk(1) \/ PollFails(1)
  BY <1>2, <1>5, CursorPolls
<1>6. CASE WalkDone(1)
  <2>1. watcher'[1] = [w EXCEPT !.at = "send", !.now = clock]
    BY <1>6, Becomes DEF WalkDone
  <2>2. clock' = clock /\ cursor' = cursor
    BY <1>6 DEF WalkDone, driveVars
  <2>3. watcher'[1].at = "send" /\ watcher'[1].now = clock
    BY <1>1, <2>1 DEF Watcher
  <2> QED BY <1>1, <2>2, <2>3 DEF CursorBehind, At
<1>7. CASE PollSend(1)
  <2>1. watcher'[1] = [w EXCEPT !.out = Tail(@)]
    BY <1>7, Becomes DEF PollSend
  <2>2. clock' = clock /\ cursor' = cursor /\ w.at = "send"
    BY <1>7 DEF PollSend, driveVars, At
  <2>3. watcher'[1].at = "send" /\ watcher'[1].now = w.now
    BY <1>1, <2>1, <2>2 DEF Watcher
  <2> QED BY <1>1, <2>2, <2>3 DEF CursorBehind, At
<1>8. CASE PollDone(1)
  <2>1. watcher'[1] = Task("sleep")
    BY <1>8, Becomes DEF PollDone
  <2>2. clock' = clock /\ cursor' = w.now /\ w.at = "send"
    BY <1>8 DEF PollDone, driveVars, At
  <2>3. watcher'[1].at = "sleep" /\ watcher'[1].now = 0
    BY <2>1, TaskType DEF Places
  <2> QED BY <1>1, <2>2, <2>3 DEF CursorBehind, At
<1>9. CASE PassTime
  BY <1>1, <1>3, <1>9 DEF PassTime
<1>10. ASSUME NEW n \in Nodes, Edit(n) PROVE CursorBehind' /\ cursor' >= cursor
  BY <1>1, <1>3, <1>10 DEF Edit
<1>11. CASE Take
  BY <1>1, <1>3, <1>11 DEF Take, driveVars
<1>12. CASE Restart
  BY <1>1, <1>12 DEF Restart
<1>13. CASE UNCHANGED vars
  BY <1>1, <1>3, <1>13 DEF vars, driveVars
<1>14. CASE \E i \in Ids : Run(i)
  <2>1. Run(1)
    BY <1>1, <1>14
  <2> QED BY <1>4, <1>5, <1>6, <1>7, <1>8, <2>1 DEF Run
<1> QED BY <1>9, <1>10, <1>11, <1>12, <1>13, <1>14 DEF Next

(* A watcher that is never restarted never sets the cursor back, whatever  *)
(* the drive does and whatever calls fail (remote.rs:46, remote.rs:58).    *)
THEOREM CursorNeverBack == MaxRestarts = 0 /\ Spec => CursorMonotone
<1> SUFFICES ASSUME MaxRestarts = 0 PROVE Spec => CursorMonotone
  OBVIOUS
<1> DEFINE Inv == WatchInv /\ CursorBehind
<1>1. Init => Inv
  BY InitWatch, CursorInit
<1>2. Inv /\ [Next]_vars => Inv' /\ [cursor' >= cursor]_cursor
  BY NextWatch, CursorStep
<1> HIDE DEF Inv
<1> QED BY <1>1, <1>2, PTL DEF Spec, CursorMonotone

-----------------------------------------------------------------------------
(* What an action of the only watcher may count on.                        *)
LEMMA Facts ==
  ASSUME Calm, FeedInv
  PROVE  /\ watcher[1] \in Watcher /\ WatcherTrue(watcher[1], ver) /\ MaxRestarts = 0
         /\ watcher[1].out \in Seq(Record) /\ watcher[1].stack \in Seq(Record)
         /\ watcher[1].queue \in Seq(Nodes \cup {Top}) /\ Once(watcher[1].out)
         /\ watcher[1].since \in Nat /\ watcher[1].now \in Nat
         /\ ver \in [Nodes -> Nat] /\ mtime \in [Nodes -> 0 .. MaxTime]
         /\ reported \in [Nodes -> Nat] /\ clock \in Nat \ {0} /\ cursor \in Nat
         /\ \A n \in Nodes : ver[n] \in Nat /\ mtime[n] \in Nat /\ reported[n] \in Nat /\ reported[n] <= ver[n]
         /\ Phase(watcher[1], reported, ver, mtime, cursor) /\ DriveTree
<1>1. /\ watcher[1] \in Watcher /\ WatcherTrue(watcher[1], ver) /\ MaxRestarts = 0
      /\ watcher[1].out \in Seq(Record) /\ watcher[1].stack \in Seq(Record)
      /\ watcher[1].queue \in Seq(Nodes \cup {Top})
      /\ \A n \in Nodes : reported[n] <= ver[n]
  BY Alone, WatcherFacts DEF FeedInv, Calm
<1>2. /\ ver \in [Nodes -> Nat] /\ mtime \in [Nodes -> 0 .. MaxTime] /\ reported \in [Nodes -> Nat]
      /\ clock \in 1 .. MaxTime /\ cursor \in 0 .. MaxTime
  BY DEF FeedInv, WatchInv, TypeOK
<1>3. Once(watcher[1].out) /\ watcher[1].since \in 0 .. MaxTime /\ watcher[1].now \in 0 .. MaxTime
  BY <1>1 DEF WatcherTrue, Watcher
<1>4. \A n \in Nodes : ver[n] \in Nat /\ mtime[n] \in Nat /\ reported[n] \in Nat
  BY <1>2
<1>5. clock \in Nat \ {0} /\ cursor \in Nat
  BY <1>2
<1>6. watcher[1].since \in Nat /\ watcher[1].now \in Nat
  BY <1>3
<1> QED BY <1>1, <1>2, <1>3, <1>4, <1>5, <1>6 DEF FeedInv

(* A listing shows the drive as it is, each entry not sent or sent.        *)
LEMMA ListingExact ==
  ASSUME Calm, FeedInv, NEW folder, NEW s \in Listings(folder)
  PROVE  /\ s \in Seq(Record) /\ Once(s) /\ Exact(s, ver, mtime)
         /\ \A k \in DOMAIN s : s[k].node \in Nodes /\ ParentOf[s[k].node] = folder
         /\ \A n \in Nodes : ver[n] > 0 /\ ParentOf[n] = folder => Holds(s, n)
BY Facts, ListingFacts DEF Exact

(* StartScan: nothing has been sent, nothing listed.                       *)
LEMMA StartScanPhase ==
  ASSUME Calm, FeedInv, StartScan(1)
  PROVE  Phase(watcher'[1], reported, ver, mtime, cursor)
<1> DEFINE w == [Task("scan") EXCEPT !.queue = <<Top>>]
<1>1. watcher'[1] = w /\ cursor = 0 /\ watcher[1].at = "start"
  BY Facts, Becomes DEF StartScan, At, FeedInv
<1>2. w.at = "scan" /\ w.out = <<>> /\ w.queue = <<Top>>
  BY TaskType DEF Watcher, Places
<1> HIDE DEF w
<1>3. \A n \in Nodes : reported[n] = 0
  BY <1>1, Facts DEF Phase
<1>4. Distinct(w.queue) /\ ToSet(w.queue) = {Top}
  BY <1>2 DEF Distinct, ToSet
<1>5. Scanned(w, {}, reported, ver, mtime)
  BY <1>2, <1>3, <1>4 DEF Scanned, Known, Exact
<1>6. {} \in SUBSET (Nodes \cup {Top})
  OBVIOUS
<1> QED BY <1>1, <1>2, <1>5, <1>6 DEF Phase

(* ScanList: the next folder moves from the queue to L.                    *)
LEMMA ScanListPhase ==
  ASSUME Calm, FeedInv, ScanList(1)
  PROVE  Phase(watcher'[1], reported, ver, mtime, cursor)
<1> DEFINE old == watcher[1]
           f   == Head(old.queue)
<1>1. PICK children \in Listings(f) :
        Become(1, [old EXCEPT !.queue = Tail(@), !.out = children])
  BY DEF ScanList
<1> DEFINE w == [old EXCEPT !.queue = Tail(@), !.out = children]
<1>2. watcher'[1] = w /\ old.at = "scan" /\ old.out = <<>> /\ old.queue # <<>>
  BY <1>1, Facts, Becomes DEF ScanList, At, FeedInv
<1>3. cursor = 0 /\ \E L \in SUBSET (Nodes \cup {Top}) : Scanned(old, L, reported, ver, mtime)
  BY <1>2, Facts DEF Phase
<1>4. PICK L \in SUBSET (Nodes \cup {Top}) : Scanned(old, L, reported, ver, mtime)
  BY <1>3
<1>5. /\ old \in Watcher /\ old.queue \in Seq(Nodes \cup {Top}) /\ children \in Seq(Record)
      /\ Exact(children, ver, mtime)
      /\ \A k \in DOMAIN children : children[k].node \in Nodes /\ ParentOf[children[k].node] = f
      /\ \A n \in Nodes : ver[n] > 0 /\ ParentOf[n] = f => Holds(children, n)
  BY Facts, ListingExact
<1>6. Distinct(old.queue)
  BY <1>4 DEF Scanned
<1>7. /\ f \in ToSet(old.queue) /\ Distinct(Tail(old.queue)) /\ Tail(old.queue) \in Seq(Nodes \cup {Top})
      /\ ToSet(Tail(old.queue)) = ToSet(old.queue) \ {f}
  BY <1>2, <1>5, <1>6, QueueTail
<1>8. w.at = "scan" /\ w.out = children /\ w.queue = Tail(old.queue)
  BY <1>2, <1>5, <1>7 DEF Watcher
<1> HIDE DEF w, f
<1>9. f \notin L /\ f \in Known(reported) /\ f \in Nodes \cup {Top}
  BY <1>4, <1>7 DEF Scanned, Known
<1>10. \A n \in Nodes : ParentOf[n] = f => reported[n] = 0
  BY <1>4, <1>9, Facts DEF Scanned
<1>11. \A n \in Nodes : ver[n] > 0 /\ ParentOf[n] \in L => reported[n] = ver[n]
  BY <1>2, <1>4 DEF Scanned, Holds
<1> DEFINE M == L \cup {f}
<1>12. Distinct(w.queue) /\ ToSet(w.queue) \cap M = {} /\ M \cup ToSet(w.queue) = L \cup ToSet(old.queue)
  BY <1>4, <1>7, <1>8 DEF Scanned
<1>13. /\ ToSet(w.queue) \cup M \subseteq Known(reported) /\ Top \in M \cup ToSet(w.queue)
       /\ \A n \in Nodes : reported[n] > 0 => /\ ParentOf[n] \in M
                                              /\ n \in FolderNodes => n \in M \cup ToSet(w.queue)
  BY <1>4, <1>12 DEF Scanned
<1>14. Scanned(w, M, reported, ver, mtime)
  BY <1>5, <1>8, <1>10, <1>11, <1>12, <1>13 DEF Scanned
<1>15. M \in SUBSET (Nodes \cup {Top})
  BY <1>9
<1> HIDE DEF M
<1> QED BY <1>2, <1>3, <1>8, <1>14, <1>15 DEF Phase

(* The version sent is the newest, and newer than the last one.            *)
LEMMA SendFacts ==
  ASSUME Calm, FeedInv, NEW e \in Record, Send(e), e.ver = ver[e.node], ver[e.node] > 0
  PROVE  /\ e.node \in Nodes /\ reported' \in [Nodes -> Nat] /\ reported'[e.node] = ver[e.node]
         /\ \A n \in Nodes : n # e.node => reported'[n] = reported[n]
         /\ Known(reported') = Known(reported) \cup {e.node}
<1>1. e.node \in Nodes /\ reported' = [reported EXCEPT ![e.node] = e.ver]
  BY DEF Send, Record
<1>2. /\ reported' \in [Nodes -> Nat] /\ reported'[e.node] = ver[e.node]
      /\ \A n \in Nodes : n # e.node => reported'[n] = reported[n]
  BY <1>1, Facts
<1> QED BY <1>1, <1>2 DEF Known

(* ScanSend: the first entry is sent, and queued if it is a folder.        *)
LEMMA ScanSendPhase ==
  ASSUME Calm, FeedInv, ScanSend(1)
  PROVE  /\ Send(Head(watcher[1].out)) /\ cursor' = cursor
         /\ Phase(watcher'[1], reported', ver, mtime, cursor)
<1> DEFINE old == watcher[1]
           e   == Head(old.out)
           q   == IF e.node \in FolderNodes THEN Append(old.queue, e.node) ELSE old.queue
           w   == [old EXCEPT !.out = Tail(@), !.queue = q]
<1>1. Open(1)
  BY Alone DEF Open, FeedInv, Calm
<1>2. Send(e) /\ Become(1, w) /\ cursor' = cursor /\ old.at = "scan" /\ old.out # <<>>
  BY <1>1 DEF ScanSend, At
<1>3. watcher'[1] = w
  BY <1>2, Facts, Becomes DEF FeedInv
<1>4. cursor = 0 /\ \E L \in SUBSET (Nodes \cup {Top}) : Scanned(old, L, reported, ver, mtime)
  BY <1>2, Facts DEF Phase
<1>5. PICK L \in SUBSET (Nodes \cup {Top}) : Scanned(old, L, reported, ver, mtime)
  BY <1>4
<1>6. /\ old \in Watcher /\ old.queue \in Seq(Nodes \cup {Top}) /\ old.out \in Seq(Record) /\ Once(old.out)
      /\ Top \notin Nodes
  BY Facts, Parents
<1>7. e \in Record /\ 1 \in DOMAIN old.out /\ e = old.out[1] /\ Tail(old.out) \in Seq(Record)
  BY <1>2, <1>6, TailFacts
<1> HIDE DEF e
<1>8. Exact(old.out, ver, mtime) /\ ParentOf[e.node] \in L /\ reported[e.node] = 0
  BY <1>5, <1>7 DEF Scanned
<1>9. Exact(Tail(old.out), ver, mtime) /\ e.ver = ver[e.node] /\ ver[e.node] > 0
  BY <1>2, <1>6, <1>8, ExactTail DEF e
<1>10. /\ e.node \in Nodes /\ reported'[e.node] = ver[e.node]
       /\ \A n \in Nodes : n # e.node => reported'[n] = reported[n]
       /\ Known(reported') = Known(reported) \cup {e.node}
  BY <1>2, <1>7, <1>9, SendFacts
<1>11. /\ Distinct(old.queue) /\ ToSet(old.queue) \cap L = {} /\ ToSet(old.queue) \cup L \subseteq Known(reported)
       /\ Top \in L \cup ToSet(old.queue)
  BY <1>5 DEF Scanned
<1>12. e.node \notin L \cup ToSet(old.queue)
  BY <1>6, <1>8, <1>10, <1>11 DEF Known
<1>13. /\ q \in Seq(Nodes \cup {Top}) /\ Distinct(q)
       /\ ToSet(q) = ToSet(old.queue) \cup (IF e.node \in FolderNodes THEN {e.node} ELSE {})
  <2>1. CASE e.node \in FolderNodes
    BY <1>6, <1>10, <1>11, <1>12, <2>1, QueueAppend, AppendProperties
  <2>2. CASE e.node \notin FolderNodes
    BY <1>6, <1>11, <2>2
  <2> QED BY <2>1, <2>2
<1> HIDE DEF q
<1>14. w.at = "scan" /\ w.out = Tail(old.out) /\ w.queue = q
  BY <1>2, <1>6, <1>7, <1>13 DEF Watcher
<1> HIDE DEF w
<1>15. ToSet(q) \cap L = {} /\ ToSet(q) \cup L \subseteq Known(reported') /\ Top \in L \cup ToSet(q)
  BY <1>10, <1>11, <1>12, <1>13
<1>16. ASSUME NEW n \in Nodes, reported'[n] > 0
       PROVE  ParentOf[n] \in L /\ (n \in FolderNodes => n \in L \cup ToSet(q))
  <2>1. CASE n = e.node
    BY <1>8, <1>13, <2>1
  <2>2. CASE n # e.node
    <3>1. reported[n] > 0
      BY <1>10, <1>16, <2>2
    <3> QED BY <1>5, <1>13, <3>1 DEF Scanned
  <2> QED BY <2>1, <2>2
<1>17. ASSUME NEW k \in DOMAIN w.out
       PROVE  ParentOf[w.out[k].node] \in L /\ reported'[w.out[k].node] = 0
  <2>1. /\ k + 1 \in DOMAIN old.out /\ w.out[k] = old.out[k + 1] /\ w.out[k].node # e.node
    BY <1>2, <1>6, <1>14, TailFacts, TailKeeps DEF e
  <2>2. w.out[k].node \in Nodes
    BY <1>6, <2>1, EntryFacts
  <2>3. ParentOf[old.out[k + 1].node] \in L /\ reported[old.out[k + 1].node] = 0
    BY <1>5, <2>1 DEF Scanned
  <2> QED BY <1>10, <2>1, <2>2, <2>3
<1>18. ASSUME NEW n \in Nodes, ver[n] > 0, ParentOf[n] \in L
       PROVE  reported'[n] = ver[n] \/ Holds(w.out, n)
  <2>1. CASE n = e.node
    BY <1>10, <2>1
  <2>2. CASE n # e.node
    <3>1. reported[n] = ver[n] \/ Holds(old.out, n)
      BY <1>5, <1>18 DEF Scanned
    <3>2. Holds(old.out, n) => Holds(w.out, n)
      BY <1>2, <1>6, <1>14, <2>2, HoldsTail DEF e
    <3> QED BY <1>10, <2>2, <3>1, <3>2
  <2> QED BY <2>1, <2>2
<1>19. Scanned(w, L, reported', ver, mtime)
  BY <1>9, <1>13, <1>14, <1>15, <1>16, <1>17, <1>18 DEF Scanned
<1>20. Phase(w, reported', ver, mtime, cursor)
  BY <1>4, <1>14, <1>19 DEF Phase
<1> QED BY <1>2, <1>3, <1>20 DEF e

(* ScanDone: everything has been sent, and the cursor is the clock.        *)
LEMMA ScanDonePhase ==
  ASSUME Calm, FeedInv, ScanDone(1)
  PROVE  Phase(watcher'[1], reported, ver, mtime, cursor')
<1>1. /\ Become(1, Task("start")) /\ cursor' = clock /\ watcher[1].at = "scan"
      /\ watcher[1].queue = <<>> /\ watcher[1].out = <<>>
  BY DEF ScanDone, EndScan, At
<1>2. watcher'[1] = Task("start") /\ Task("start").at = "start"
  BY <1>1, Facts, Becomes, TaskType DEF FeedInv, Places
<1>3. \E L \in SUBSET (Nodes \cup {Top}) : Scanned(watcher[1], L, reported, ver, mtime)
  BY <1>1, Facts DEF Phase
<1>4. \A n \in Nodes : ver[n] > 0 => reported[n] = ver[n]
  BY <1>1, <1>3, Facts, ScanComplete
<1>5. Settled(reported, ver, mtime, clock) /\ clock # 0
  BY <1>4, Facts DEF Settled
<1>6. Fresh(reported, ver, mtime, clock)
  <2>1. \A n \in Nodes : ~(mtime[n] > clock)
    BY Facts DEF DriveTree
  <2> QED BY <2>1 DEF Fresh
<1> QED BY <1>1, <1>2, <1>5, <1>6 DEF Phase

-----------------------------------------------------------------------------
(* StartPoll: nothing is visited, what is at the top is on the stack.      *)
LEMMA StartPollPhase ==
  ASSUME Calm, FeedInv, StartPoll(1)
  PROVE  Phase(watcher'[1], reported, ver, mtime, cursor)
<1>1. PICK children \in Listings(Top) :
        Become(1, [Task("walk") EXCEPT !.since = cursor, !.stack = children])
  BY DEF StartPoll
<1> DEFINE w == [Task("walk") EXCEPT !.since = cursor, !.stack = children]
<1>2. watcher'[1] = w
  BY <1>1, Facts, Becomes DEF FeedInv
<1>3. w.at = "walk" /\ w.since = cursor /\ w.stack = children /\ w.out = <<>>
  BY TaskType DEF Watcher, Places
<1> HIDE DEF w
<1>4. cursor # 0 /\ watcher[1].at # "send"
  BY Facts DEF StartPoll, At, Phase
<1>5. Settled(reported, ver, mtime, cursor) /\ Fresh(reported, ver, mtime, cursor)
  BY <1>4, Facts DEF Phase
<1>6. /\ Once(children) /\ Exact(children, ver, mtime)
      /\ \A k \in DOMAIN children : children[k].node \in Nodes /\ ParentOf[children[k].node] = Top
      /\ \A n \in Nodes : ver[n] > 0 /\ ParentOf[n] = Top => Holds(children, n)
  BY ListingExact
<1>7. Visited(w, {}, reported, ver, mtime)
  BY <1>3, <1>6 DEF Visited, Walked, Exact, Ordered
<1>8. {} \in SUBSET Nodes
  OBVIOUS
<1> QED BY <1>2, <1>3, <1>4, <1>5, <1>7, <1>8 DEF Phase

(* Walk: the next entry is visited; what is below it goes on the stack,    *)
(* and the entry to the changes if it is newer than the cursor.            *)
LEMMA WalkPhase ==
  ASSUME Calm, FeedInv, Walk(1)
  PROVE  Phase(watcher'[1], reported, ver, mtime, cursor)
<1> DEFINE old == watcher[1]
           e   == Head(old.stack)
           out == IF e.mtime > old.since THEN Append(old.out, e) ELSE old.out
<1>1. PICK children \in IF e.node \in FolderNodes THEN Listings(e.node) ELSE {<<>>} :
        Become(1, [old EXCEPT !.stack = children \o Tail(@), !.out = out])
  BY DEF Walk
<1> DEFINE w == [old EXCEPT !.stack = children \o Tail(@), !.out = out]
<1>2. watcher'[1] = w /\ old.at = "walk" /\ old.stack # <<>>
  BY <1>1, Facts, Becomes DEF FeedInv, Walk, At
<1>3. /\ old \in Watcher /\ old.out \in Seq(Record) /\ old.stack \in Seq(Record)
      /\ Once(old.out) /\ old.since \in Nat
  BY Facts
<1>4. old.since = cursor /\ \E V \in SUBSET Nodes : Visited(old, V, reported, ver, mtime)
  BY <1>2, Facts DEF Phase
<1>5. PICK V \in SUBSET Nodes : Visited(old, V, reported, ver, mtime)
  BY <1>4
<1>6. /\ cursor # 0 /\ Settled(reported, ver, mtime, cursor) /\ Fresh(reported, ver, mtime, cursor)
  BY <1>2, Facts DEF Phase
<1>7. /\ e \in Record /\ 1 \in DOMAIN old.stack /\ e = old.stack[1] /\ Tail(old.stack) \in Seq(Record)
  BY <1>2, <1>3, TailFacts
<1>8. /\ Walked(old, V) /\ Exact(old.out, ver, mtime) /\ Exact(old.stack, ver, mtime) /\ Ordered(old.out, reported)
  BY <1>5 DEF Visited
<1>9. Exact(Tail(old.stack), ver, mtime) /\ e.ver = ver[e.node] /\ e.mtime = mtime[e.node] /\ ver[e.node] > 0
  BY <1>2, <1>3, <1>8, ExactTail
<1>10. /\ Once(children) /\ children \in Seq(Record) /\ Exact(children, ver, mtime)
       /\ \A k \in DOMAIN children : ParentOf[children[k].node] = e.node
       /\ \A n \in Nodes : ver[n] > 0 /\ ParentOf[n] = e.node => Holds(children, n)
  <2>1. e.node \in Nodes
    BY <1>7 DEF Record
  <2> HIDE DEF e
  <2>2. CASE e.node \in FolderNodes
    BY <1>1, <2>2, ListingExact
  <2>3. CASE e.node \notin FolderNodes
    <3>1. \A n \in Nodes : ParentOf[n] # e.node
      BY <2>1, <2>3, Facts, Parents
    <3>2. children = <<>>
      BY <1>1, <2>3
    <3> QED BY <3>1, <3>2 DEF Once, Exact
  <2> QED BY <2>2, <2>3
<1>11. out \in Seq(Record) /\ out \in {old.out, Append(old.out, e)}
  <2> HIDE DEF e
  <2> QED BY <1>3, <1>7, AppendFacts
<1>12. children \o Tail(old.stack) \in Seq(Record)
  BY <1>7, <1>10, ConcatFacts
<1> DEFINE U == V \cup {e.node}
<1>13. /\ w \in Watcher /\ w.at = "walk" /\ w.since = old.since
       /\ w.out = out /\ w.stack = children \o Tail(old.stack)
  <2> HIDE DEF out, e
  <2> QED BY <1>2, <1>3, <1>11, <1>12 DEF Watcher
<1>14. e.node \in Nodes \ V /\ Walked(w, U)
  <2>1. w.stack = children \o Tail(old.stack) /\ w.out \in {old.out, Append(old.out, Head(old.stack))}
    BY <1>11, <1>13
  <2>2. \A k \in DOMAIN children : ParentOf[children[k].node] = Head(old.stack).node
    BY <1>10
  <2>3. old \in Watcher /\ w \in Watcher /\ Once(old.out) /\ old.stack # <<>> /\ Walked(old, V)
    BY <1>2, <1>3, <1>8, <1>13
  <2>4. Once(children) /\ children \in Seq(Record)
    BY <1>10
  <2> HIDE DEF out, w
  <2> QED BY <2>1, <2>2, <2>3, <2>4, WalkOn
<1>15. (e.mtime > old.since /\ out = Append(old.out, e)) \/ (~(e.mtime > old.since) /\ out = old.out)
  OBVIOUS
<1>16. ParentOf[e.node] \in V \cup {Top}
  BY <1>7, <1>8 DEF Walked
<1> HIDE DEF out, w, e
<1>17. Exact(w.stack, ver, mtime)
  BY <1>7, <1>9, <1>10, <1>13, ExactConcat
<1>18. Exact(w.out, ver, mtime)
  BY <1>3, <1>7, <1>8, <1>9, <1>13, <1>15, ExactAppend
<1>19. Ordered(w.out, reported)
  <2>1. ParentOf[e.node] \in Known(reported) \/ Holds(old.out, ParentOf[e.node])
    <3>1. CASE ParentOf[e.node] = Top
      BY <3>1 DEF Known
    <3>2. CASE ParentOf[e.node] \in V
      <4> DEFINE p == ParentOf[e.node]
      <4>1. p \in Nodes /\ ver[p] > 0 /\ (mtime[p] > cursor => Holds(old.out, p))
        BY <1>4, <1>5, <3>2 DEF Visited
      <4>2. mtime[p] <= cursor => reported[p] = ver[p]
        BY <1>6, <4>1 DEF Settled
      <4>3. mtime[p] \in Nat /\ cursor \in Nat
        BY <4>1, Facts
      <4>4. CASE mtime[p] <= cursor
        BY <4>1, <4>2, <4>4 DEF Known
      <4>5. CASE mtime[p] > cursor
        BY <4>1, <4>5
      <4> QED BY <4>3, <4>4, <4>5
    <3> QED BY <1>16, <3>1, <3>2
  <2> QED BY <1>3, <1>7, <1>8, <1>13, <1>15, <2>1, OrderedAppend
<1>20. \A n : Holds(old.out, n) => Holds(w.out, n)
  BY <1>3, <1>7, <1>13, <1>15, HoldsAppend
<1>21. ASSUME NEW n \in U PROVE ver[n] > 0 /\ (mtime[n] > w.since => Holds(w.out, n))
  <2>1. CASE n \in V
    BY <1>5, <1>13, <1>20, <2>1 DEF Visited
  <2>2. CASE n = e.node
    <3>1. mtime[n] > w.since => Holds(Append(old.out, e), n)
      BY <1>3, <1>7, <2>2, HoldsAppend
    <3> QED BY <1>9, <1>13, <1>15, <2>2, <3>1
  <2> QED BY <2>1, <2>2
<1>22. ASSUME NEW n \in Nodes, ver[n] > 0, ParentOf[n] \in U \cup {Top}
       PROVE  n \in U \/ Holds(w.stack, n)
  <2>1. CASE ParentOf[n] = e.node
    <3>1. Holds(children, n)
      BY <1>10, <1>22, <2>1
    <3> QED BY <1>7, <1>10, <1>13, <3>1, HoldsConcat
  <2>2. CASE ParentOf[n] \in V \cup {Top}
    <3>1. n \in V \/ Holds(old.stack, n)
      BY <1>5, <1>22, <2>2 DEF Visited
    <3>2. CASE n # e.node /\ Holds(old.stack, n)
      <4>1. Holds(Tail(old.stack), n)
        BY <1>2, <1>3, <3>2, HoldsTail DEF e
      <4> QED BY <1>7, <1>10, <1>13, <4>1, HoldsConcat
    <3> QED BY <3>1, <3>2
  <2> QED BY <1>22, <2>1, <2>2
<1>23. \A k \in DOMAIN w.out : w.out[k].mtime > w.since
  <2>1. \A k \in DOMAIN old.out : old.out[k].mtime > old.since
    BY <1>5 DEF Visited
  <2>2. \A k \in DOMAIN Append(old.out, e) :
          (k \in DOMAIN old.out /\ Append(old.out, e)[k] = old.out[k]) \/ Append(old.out, e)[k] = e
    BY <1>3, <1>7, AppendFacts
  <2> QED BY <1>13, <1>15, <2>1, <2>2
<1>24. Visited(w, U, reported, ver, mtime)
  BY <1>14, <1>17, <1>18, <1>19, <1>21, <1>22, <1>23 DEF Visited
<1>25. U \in SUBSET Nodes
  BY <1>14
<1> HIDE DEF U
<1> QED BY <1>2, <1>4, <1>6, <1>13, <1>24, <1>25 DEF Phase

(* A poll that fails leaves everything as it was.                          *)
LEMMA PollFailsPhase ==
  ASSUME Calm, FeedInv, PollFails(1)
  PROVE  Phase(watcher'[1], reported, ver, mtime, cursor)
<1>1. watcher'[1] = Task("sleep") /\ watcher[1].at = "walk"
  BY Facts, Becomes DEF FeedInv, PollFails, At
<1>2. Task("sleep").at = "sleep"
  BY TaskType DEF Places
<1>3. cursor # 0 /\ Settled(reported, ver, mtime, cursor) /\ Fresh(reported, ver, mtime, cursor)
  BY <1>1, Facts DEF Phase
<1> QED BY <1>1, <1>2, <1>3 DEF Phase

(* WalkDone: all that is present has been visited, so all that is newer    *)
(* than the cursor waits to be sent, and none of it has been.              *)
LEMMA WalkDonePhase ==
  ASSUME Calm, FeedInv, WalkDone(1)
  PROVE  Phase(watcher'[1], reported, ver, mtime, cursor)
<1> DEFINE old == watcher[1]
           w   == [old EXCEPT !.at = "send", !.now = clock]
<1>1. watcher'[1] = w /\ old.at = "walk" /\ old.stack = <<>>
  BY Facts, Becomes DEF FeedInv, WalkDone, At
<1>2. old \in Watcher /\ old.out \in Seq(Record)
  BY Facts
<1>3. w.at = "send" /\ w.now = clock /\ w.out = old.out
  BY <1>2 DEF Watcher
<1> HIDE DEF w
<1>4. old.since = cursor /\ \E V \in SUBSET Nodes : Visited(old, V, reported, ver, mtime)
  BY <1>1, Facts DEF Phase
<1>5. PICK V \in SUBSET Nodes : Visited(old, V, reported, ver, mtime)
  BY <1>4
<1>6. cursor # 0 /\ Settled(reported, ver, mtime, cursor) /\ Fresh(reported, ver, mtime, cursor)
  BY <1>1, Facts DEF Phase
<1>7. \A n \in Nodes : ver[n] > 0 => n \in V
  BY <1>1, <1>5, Facts, WalkComplete
<1>8. \A n \in Nodes : ver[n] > 0 /\ mtime[n] > cursor => Holds(old.out, n)
  BY <1>4, <1>5, <1>7 DEF Visited
<1>9. ASSUME NEW k \in DOMAIN old.out
      PROVE  reported[old.out[k].node] < ver[old.out[k].node]
  <2>1. old.out[k].node \in Nodes /\ old.out[k].mtime = mtime[old.out[k].node]
    BY <1>2, <1>5, EntryFacts DEF Visited, Exact
  <2>2. mtime[old.out[k].node] > cursor
    BY <1>4, <1>5, <2>1 DEF Visited
  <2> QED BY <1>6, <2>1, <2>2 DEF Fresh
<1>10. \A n \in Nodes : mtime[n] <= w.now
  BY <1>3, Facts DEF DriveTree
<1>11. Sending(w, reported, ver, mtime, cursor)
  BY <1>3, <1>5, <1>8, <1>9, <1>10 DEF Sending, Visited
<1> QED BY <1>1, <1>3, <1>6, <1>11 DEF Phase

(* PollSend: the first change is sent.                                     *)
LEMMA PollSendPhase ==
  ASSUME Calm, FeedInv, PollSend(1)
  PROVE  /\ Send(Head(watcher[1].out))
         /\ Phase(watcher'[1], reported', ver, mtime, cursor)
<1> DEFINE old == watcher[1]
           e   == Head(old.out)
           w   == [old EXCEPT !.out = Tail(@)]
<1>1. Open(1)
  BY Alone DEF Open, FeedInv, Calm
<1>2. Send(e) /\ Become(1, w) /\ old.at = "send" /\ old.out # <<>>
  BY <1>1 DEF PollSend, At
<1>3. watcher'[1] = w
  BY <1>2, Facts, Becomes DEF FeedInv
<1>4. old \in Watcher /\ old.out \in Seq(Record) /\ Once(old.out)
  BY Facts
<1>5. Sending(old, reported, ver, mtime, cursor) /\ cursor # 0 /\ Settled(reported, ver, mtime, cursor)
  BY <1>2, Facts DEF Phase
<1>6. e \in Record /\ 1 \in DOMAIN old.out /\ e = old.out[1] /\ Tail(old.out) \in Seq(Record)
  BY <1>2, <1>4, TailFacts
<1>7. w.at = "send" /\ w.out = Tail(old.out) /\ w.now = old.now
  BY <1>2, <1>4, <1>6 DEF Watcher
<1> HIDE DEF w
<1>8. Exact(Tail(old.out), ver, mtime) /\ e.ver = ver[e.node] /\ ver[e.node] > 0
  BY <1>2, <1>4, <1>5, ExactTail DEF Sending
<1> HIDE DEF e
<1>9. /\ e.node \in Nodes /\ reported'[e.node] = ver[e.node]
      /\ \A n \in Nodes : n # e.node => reported'[n] = reported[n]
      /\ Known(reported') = Known(reported) \cup {e.node}
  BY <1>2, <1>6, <1>8, SendFacts
<1>10. Ordered(w.out, reported')
  <2>1. Ordered(old.out, reported) /\ Known(reported) \cup {Head(old.out).node} \subseteq Known(reported')
    BY <1>5, <1>9 DEF Sending, e
  <2> QED BY <1>2, <1>4, <1>7, <2>1, OrderedTail
<1>11. ASSUME NEW k \in DOMAIN w.out
       PROVE  reported'[w.out[k].node] < ver[w.out[k].node]
  <2>1. k + 1 \in DOMAIN old.out /\ w.out[k] = old.out[k + 1] /\ w.out[k].node # e.node
    BY <1>2, <1>4, <1>7, TailFacts, TailKeeps DEF e
  <2>2. w.out[k].node \in Nodes
    BY <1>4, <2>1, EntryFacts
  <2>3. reported[old.out[k + 1].node] < ver[old.out[k + 1].node]
    BY <1>5, <2>1 DEF Sending
  <2> QED BY <1>9, <2>1, <2>2, <2>3
<1>12. ASSUME NEW n \in Nodes, ver[n] > 0, mtime[n] > cursor
       PROVE  reported'[n] = ver[n] \/ Holds(w.out, n)
  <2>1. CASE n = e.node
    BY <1>9, <2>1
  <2>2. CASE n # e.node
    <3>1. reported[n] = ver[n] \/ Holds(old.out, n)
      BY <1>5, <1>12 DEF Sending
    <3>2. Holds(old.out, n) => Holds(w.out, n)
      BY <1>2, <1>4, <1>7, <2>2, HoldsTail DEF e
    <3> QED BY <1>9, <2>2, <3>1, <3>2
  <2> QED BY <2>1, <2>2
<1>13. Sending(w, reported', ver, mtime, cursor)
  BY <1>5, <1>7, <1>8, <1>10, <1>11, <1>12 DEF Sending
<1>14. Settled(reported', ver, mtime, cursor)
  BY <1>5, <1>9 DEF Settled
<1>15. Phase(w, reported', ver, mtime, cursor)
  BY <1>5, <1>7, <1>13, <1>14 DEF Phase
<1> QED BY <1>2, <1>3, <1>15 DEF e

(* PollDone: the changes have been sent, the cursor is the clock of the    *)
(* walk's end.                                                             *)
LEMMA PollDonePhase ==
  ASSUME Calm, FeedInv, PollDone(1)
  PROVE  Phase(watcher'[1], reported, ver, mtime, cursor')
<1>1. /\ Become(1, Task("sleep")) /\ cursor' = watcher[1].now /\ watcher[1].at = "send"
      /\ watcher[1].out = <<>>
  BY DEF PollDone, At
<1>2. watcher'[1] = Task("sleep") /\ Task("sleep").at = "sleep"
  BY <1>1, Facts, Becomes, TaskType DEF FeedInv, Places
<1>3. /\ Sending(watcher[1], reported, ver, mtime, cursor) /\ cursor # 0
      /\ Settled(reported, ver, mtime, cursor)
  BY <1>1, Facts DEF Phase
<1>4. cursor <= cursor' /\ cursor' # 0 /\ cursor' \in Nat
  <2>1. cursor <= watcher[1].now
    BY <1>1 DEF FeedInv, CursorBehind, At
  <2>2. cursor \in Nat /\ watcher[1].now \in Nat
    BY Facts
  <2> QED BY <1>1, <1>3, <2>1, <2>2
<1>5. ASSUME NEW n \in Nodes, ver[n] > 0 PROVE reported[n] = ver[n]
  <2>1. CASE mtime[n] > cursor
    BY <1>1, <1>3, <1>5, <2>1 DEF Sending, Holds
  <2>2. CASE mtime[n] <= cursor
    BY <1>3, <1>5, <2>2 DEF Settled
  <2>3. mtime[n] \in Nat /\ cursor \in Nat
    BY Facts
  <2> QED BY <2>1, <2>2, <2>3
<1>6. Settled(reported, ver, mtime, cursor')
  BY <1>5 DEF Settled
<1>7. Fresh(reported, ver, mtime, cursor')
  <2>1. \A n \in Nodes : mtime[n] <= cursor' /\ mtime[n] \in Nat
    BY <1>1, <1>3, Facts DEF Sending
  <2>2. \A n \in Nodes : ~(mtime[n] > cursor')
    BY <1>4, <2>1
  <2> QED BY <2>2 DEF Fresh
<1> QED BY <1>2, <1>4, <1>6, <1>7 DEF Phase

-----------------------------------------------------------------------------
(* The drive changes while the watcher rests, after the cursor's second.   *)
LEMMA EditPhase ==
  ASSUME Calm, FeedInv, NEW n \in Nodes, Edit(n)
  PROVE  Phase(watcher[1], reported, ver', mtime', cursor) /\ DriveTree'
<1>1. /\ Quiet /\ clock > cursor /\ ParentOf[n] \in Present /\ clock' = clock
      /\ ver' = [ver EXCEPT ![n] = @ + 1] /\ mtime' = [mtime EXCEPT ![n] = clock]
  BY DEF Edit, Calm
<1>2. /\ ver'[n] = ver[n] + 1 /\ mtime'[n] = clock
      /\ \A o \in Nodes : o # n => ver'[o] = ver[o] /\ mtime'[o] = mtime[o]
  BY <1>1, Facts
<1>3. watcher[1].at \in {"off", "start", "sleep"} /\ clock > cursor
  BY <1>1, Alone DEF Quiet, FeedInv, Calm
<1>4. clock \in Nat /\ cursor \in Nat /\ \A o \in Nodes : ver[o] \in Nat /\ mtime[o] \in Nat /\ reported[o] \in Nat /\ reported[o] <= ver[o]
  BY Facts
<1>5. Settled(reported, ver, mtime, cursor) => Settled(reported, ver', mtime', cursor)
  <2> SUFFICES ASSUME Settled(reported, ver, mtime, cursor), NEW o \in Nodes, ver'[o] > 0, mtime'[o] <= cursor
               PROVE  reported[o] = ver'[o]
    BY DEF Settled
  <2>1. o # n
    BY <1>2, <1>3, <1>4
  <2> QED BY <1>2, <2>1 DEF Settled
<1>6. Fresh(reported, ver, mtime, cursor) => Fresh(reported, ver', mtime', cursor)
  <2> SUFFICES ASSUME Fresh(reported, ver, mtime, cursor), NEW o \in Nodes, mtime'[o] > cursor
               PROVE  reported[o] < ver'[o]
    BY DEF Fresh
  <2>1. CASE o = n
    BY <1>2, <1>4, <2>1
  <2>2. CASE o # n
    BY <1>2, <2>2 DEF Fresh
  <2> QED BY <2>1, <2>2
<1>7. Phase(watcher[1], reported, ver, mtime, cursor)
  BY Facts
<1>8. Phase(watcher[1], reported, ver', mtime', cursor)
  BY <1>3, <1>5, <1>6, <1>7 DEF Phase
<1>9. ASSUME NEW o \in Nodes
      PROVE  mtime'[o] <= clock' /\ (ver'[o] > 0 => ParentOf[o] \in Present')
  <2>1. Present \subseteq Present'
    BY <1>2, <1>4 DEF Present
  <2>2. mtime[o] <= clock /\ (ver[o] > 0 => ParentOf[o] \in Present)
    BY Facts DEF DriveTree
  <2>3. CASE o = n
    BY <1>1, <1>2, <1>4, <2>1, <2>3
  <2>4. CASE o # n
    BY <1>1, <1>2, <2>1, <2>2, <2>4
  <2> QED BY <2>3, <2>4
<1>10. DriveTree'
  BY <1>9 DEF DriveTree
<1> QED BY <1>8, <1>10

-----------------------------------------------------------------------------
(* The channel as the abstract feed sees it.                               *)
Bar(c) == [k \in DOMAIN c |-> [node |-> c[k].node, ver |-> c[k].ver]]

LEMMA BarIsSeq ==
  ASSUME NEW c \in Seq(Record)
  PROVE  Bar(c) \in Seq([node : Nodes, ver : Nat]) /\ Len(Bar(c)) = Len(c)
<1> DEFINE S == [node : Nodes, ver : Nat]
<1>1. Len(c) \in Nat /\ DOMAIN c = 1 .. Len(c) /\ \A k \in DOMAIN c : c[k].node \in Nodes /\ c[k].ver \in Nat
  BY EntryFacts
<1>2. Bar(c) \in [1 .. Len(c) -> S]
  BY <1>1 DEF Bar
<1> HIDE DEF S
<1>3. Bar(c) \in Seq(S)
  BY <1>1, <1>2, IsASeq
<1>4. Len(Bar(c)) = Len(c)
  BY <1>1, <1>2, <1>3, LenProperties
<1> QED BY <1>3, <1>4 DEF S

LEMMA BarAppend ==
  ASSUME NEW c \in Seq(Record), NEW e \in Record
  PROVE  Bar(Append(c, e)) = Append(Bar(c), [node |-> e.node, ver |-> e.ver])
<1> DEFINE S == [node : Nodes, ver : Nat]
           b == [node |-> e.node, ver |-> e.ver]
<1>1. b \in S
  BY DEF Record
<1>2. /\ Append(c, e) \in Seq(Record) /\ Len(c) \in Nat /\ DOMAIN c = 1 .. Len(c)
      /\ DOMAIN Append(c, e) = 1 .. Len(c) + 1 /\ Len(Append(c, e)) = Len(c) + 1
      /\ Append(c, e)[Len(c) + 1] = e /\ \A k \in DOMAIN c : Append(c, e)[k] = c[k]
  BY AppendFacts, AppendProperties
<1> HIDE DEF S, b
<1>3. Bar(c) \in Seq(S) /\ Len(Bar(c)) = Len(c) /\ Bar(Append(c, e)) \in Seq(S) /\ Len(Bar(Append(c, e))) = Len(c) + 1
  BY <1>2, BarIsSeq DEF S
<1>4. /\ Append(Bar(c), b) \in Seq(S) /\ Len(Append(Bar(c), b)) = Len(c) + 1
      /\ Append(Bar(c), b)[Len(c) + 1] = b
      /\ \A k \in 1 .. Len(c) : Append(Bar(c), b)[k] = Bar(c)[k]
  BY <1>1, <1>3, AppendProperties
<1>5. ASSUME NEW k \in 1 .. Len(c) + 1 PROVE Bar(Append(c, e))[k] = Append(Bar(c), b)[k]
  <2>1. Bar(Append(c, e))[k] = [node |-> Append(c, e)[k].node, ver |-> Append(c, e)[k].ver]
    BY <1>2 DEF Bar
  <2>2. CASE k = Len(c) + 1
    BY <1>2, <1>4, <2>1, <2>2 DEF b
  <2>3. CASE k \in 1 .. Len(c)
    BY <1>2, <1>4, <2>1, <2>3 DEF Bar
  <2>4. k = Len(c) + 1 \/ k \in 1 .. Len(c)
    <3>1. Len(c) \in Nat
      BY <1>2
    <3> QED BY <3>1
  <2> QED BY <2>2, <2>3, <2>4
<1>6. Bar(Append(c, e)) = Append(Bar(c), b)
  BY <1>3, <1>4, <1>5, SeqEqual
<1> QED BY <1>6 DEF b

LEMMA BarTail ==
  ASSUME NEW c \in Seq(Record), c # <<>>
  PROVE  /\ Bar(c) # <<>> /\ Bar(Tail(c)) = Tail(Bar(c))
         /\ Head(Bar(c)) = [node |-> Head(c).node, ver |-> Head(c).ver]
<1> DEFINE S == [node : Nodes, ver : Nat]
<1>1. /\ Tail(c) \in Seq(Record) /\ Len(c) \in Nat \ {0} /\ DOMAIN c = 1 .. Len(c) /\ Len(Tail(c)) = Len(c) - 1
      /\ DOMAIN Tail(c) = 1 .. Len(c) - 1 /\ Head(c) = c[1]
      /\ \A k \in DOMAIN Tail(c) : Tail(c)[k] = c[k + 1]
  BY TailFacts, HeadTailProperties, EmptySeq, LenProperties
<1> HIDE DEF S
<1>2. /\ Bar(c) \in Seq(S) /\ Len(Bar(c)) = Len(c)
      /\ Bar(Tail(c)) \in Seq(S) /\ Len(Bar(Tail(c))) = Len(c) - 1
  BY <1>1, BarIsSeq DEF S
<1>3. Bar(c) # <<>>
  BY <1>1, <1>2
<1>4. /\ Head(Bar(c)) = Bar(c)[1] /\ Tail(Bar(c)) \in Seq(S) /\ Len(Tail(Bar(c))) = Len(c) - 1
      /\ \A k \in 1 .. Len(c) - 1 : Tail(Bar(c))[k] = Bar(c)[k + 1]
  BY <1>2, <1>3, HeadTailProperties
<1>5. ASSUME NEW k \in 1 .. Len(c) - 1 PROVE Bar(Tail(c))[k] = Tail(Bar(c))[k]
  <2>1. Bar(Tail(c))[k] = [node |-> Tail(c)[k].node, ver |-> Tail(c)[k].ver]
    BY <1>1 DEF Bar
  <2>2. k + 1 \in DOMAIN c
    BY <1>1
  <2> QED BY <1>1, <1>4, <2>1, <2>2 DEF Bar
<1>6. Bar(Tail(c)) = Tail(Bar(c))
  BY <1>1, <1>2, <1>4, <1>5, SeqEqual
<1>7. Bar(c)[1] = [node |-> c[1].node, ver |-> c[1].ver]
  BY <1>1 DEF Bar
<1> QED BY <1>1, <1>3, <1>4, <1>6, <1>7

-----------------------------------------------------------------------------
(* Every step keeps the invariant, and is a step of the feed or hidden     *)
(* from it.                                                                *)
Keeps == FeedInv' /\ [Feed!Next]_(Feed!vars)

LEMMA Hidden ==
  ASSUME UNCHANGED <<ver, reported, chan, applied>>
  PROVE  UNCHANGED Feed!vars
BY DEF Feed!vars

(* A step of the watcher that sends nothing.                               *)
LEMMA SilentStep ==
  ASSUME Calm, FeedInv, WatchInv', CursorBehind', UNCHANGED <<driveVars, agentVars>>,
         Phase(watcher'[1], reported, ver, mtime, cursor')
  PROVE  Keeps
<1>1. UNCHANGED <<ver, mtime, clock, owner, chan, applied, reported>>
  BY DEF driveVars, agentVars
<1>2. FeedInv'
  BY <1>1 DEF FeedInv, DriveTree, Present
<1> QED BY <1>1, <1>2, Hidden DEF Keeps

(* A step that sends the first of the watcher's entries.                   *)
LEMMA ReportStep ==
  ASSUME Calm, FeedInv, WatchInv', CursorBehind', UNCHANGED <<driveVars, cursor, applied>>,
         NEW e \in Record, Send(e), e.ver = ver[e.node], reported[e.node] < e.ver,
         ParentOf[e.node] \in Known(reported),
         Phase(watcher'[1], reported', ver, mtime, cursor)
  PROVE  Keeps
<1>1. UNCHANGED <<ver, mtime, clock, cursor, applied>>
  BY DEF driveVars
<1>2. FeedInv'
  BY <1>1 DEF FeedInv, DriveTree, Present
<1>3. e.node \in Nodes /\ e.ver \in Nat /\ chan \in Seq(Record) /\ reported[e.node] \in Nat
  BY Facts DEF Record, FeedInv, WatchInv, TypeOK
<1>4. Bar(chan') = Append(Bar(chan), [node |-> e.node, ver |-> e.ver])
  BY <1>3, BarAppend DEF Send
<1>5. e.ver \in reported[e.node] + 1 .. ver[e.node]
  BY <1>3
<1>6. ParentOf[e.node] \in Feed!Present(reported)
  BY DEF Known, Feed!Present
<1>7. Feed!Report(e.node)
  BY <1>1, <1>4, <1>5, <1>6 DEF Feed!Report, Send, Bar
<1>8. Feed!Next
  BY <1>3, <1>7 DEF Feed!Next
<1> QED BY <1>2, <1>8 DEF Keeps

LEMMA SilentSteps ==
  ASSUME Calm, FeedInv, WatchInv', CursorBehind',
         \/ StartScan(1) \/ ScanList(1) \/ ScanDone(1)
         \/ StartPoll(1) \/ Walk(1) \/ PollFails(1) \/ WalkDone(1) \/ PollDone(1)
  PROVE  Keeps
<1>1. CASE StartScan(1)
  <2>1. UNCHANGED <<driveVars, agentVars, cursor>>
    BY <1>1 DEF StartScan
  <2> QED BY <1>1, <2>1, StartScanPhase, SilentStep
<1>2. CASE ScanList(1)
  <2>1. UNCHANGED <<driveVars, agentVars, cursor>>
    BY <1>2 DEF ScanList
  <2> QED BY <1>2, <2>1, ScanListPhase, SilentStep
<1>3. CASE ScanDone(1)
  <2>1. UNCHANGED <<driveVars, agentVars>>
    BY <1>3 DEF ScanDone
  <2> QED BY <1>3, <2>1, ScanDonePhase, SilentStep
<1>4. CASE StartPoll(1)
  <2>1. UNCHANGED <<driveVars, agentVars, cursor>>
    BY <1>4 DEF StartPoll
  <2> QED BY <1>4, <2>1, StartPollPhase, SilentStep
<1>5. CASE Walk(1)
  <2>1. UNCHANGED <<driveVars, agentVars, cursor>>
    BY <1>5 DEF Walk
  <2> QED BY <1>5, <2>1, WalkPhase, SilentStep
<1>6. CASE PollFails(1)
  <2>1. UNCHANGED <<driveVars, agentVars, cursor>>
    BY <1>6 DEF PollFails
  <2> QED BY <1>6, <2>1, PollFailsPhase, SilentStep
<1>7. CASE WalkDone(1)
  <2>1. UNCHANGED <<driveVars, agentVars, cursor>>
    BY <1>7 DEF WalkDone
  <2> QED BY <1>7, <2>1, WalkDonePhase, SilentStep
<1>8. CASE PollDone(1)
  <2>1. UNCHANGED <<driveVars, agentVars>>
    BY <1>8 DEF PollDone
  <2> QED BY <1>8, <2>1, PollDonePhase, SilentStep
<1> QED BY <1>1, <1>2, <1>3, <1>4, <1>5, <1>6, <1>7, <1>8

LEMMA SendSteps ==
  ASSUME Calm, FeedInv, WatchInv', CursorBehind', ScanSend(1) \/ PollSend(1)
  PROVE  Keeps
<1> DEFINE old == watcher[1]
           e   == Head(old.out)
<1>1. old.out # <<>> /\ old.out \in Seq(Record)
  BY Facts DEF ScanSend, PollSend
<1>2. e \in Record /\ 1 \in DOMAIN old.out /\ e = old.out[1] /\ e.node \in Nodes
  BY <1>1, TailFacts, EntryFacts
<1> HIDE DEF e
<1>3. CASE ScanSend(1)
  <2>1. UNCHANGED <<driveVars, cursor, applied>> /\ Send(e) /\ Phase(watcher'[1], reported', ver, mtime, cursor)
    BY <1>3, ScanSendPhase DEF ScanSend, e
  <2>2. \E L \in SUBSET (Nodes \cup {Top}) : Scanned(old, L, reported, ver, mtime)
    BY <1>3, Facts DEF Phase, ScanSend, At
  <2>3. PICK L \in SUBSET (Nodes \cup {Top}) : Scanned(old, L, reported, ver, mtime)
    BY <2>2
  <2>4. e.ver = ver[e.node] /\ ver[e.node] > 0 /\ ParentOf[e.node] \in L /\ reported[e.node] = 0
    BY <1>2, <2>3 DEF Scanned, Exact
  <2>5. ParentOf[e.node] \in Known(reported)
    BY <2>3, <2>4 DEF Scanned
  <2>6. reported[e.node] < e.ver
    BY <2>4
  <2> QED BY <1>2, <2>1, <2>4, <2>5, <2>6, ReportStep
<1>4. CASE PollSend(1)
  <2>1. UNCHANGED <<driveVars, cursor, applied>> /\ Send(e) /\ Phase(watcher'[1], reported', ver, mtime, cursor)
    BY <1>4, PollSendPhase DEF PollSend, e
  <2>2. Sending(old, reported, ver, mtime, cursor)
    BY <1>4, Facts DEF Phase, PollSend, At
  <2>3. e.ver = ver[e.node] /\ reported[e.node] < ver[e.node]
    BY <1>2, <2>2 DEF Sending, Exact
  <2>4. \A j \in DOMAIN old.out : ~(j < 1)
    BY <1>1, EntryFacts
  <2>5. ParentOf[e.node] \in Known(reported)
    BY <1>2, <2>2, <2>4 DEF Sending, Ordered
  <2>6. reported[e.node] < e.ver
    BY <2>3
  <2> QED BY <1>2, <2>1, <2>3, <2>5, <2>6, ReportStep
<1> QED BY <1>3, <1>4

(* The drive, the clock and the agent.                                     *)
LEMMA EditStep ==
  ASSUME Calm, FeedInv, WatchInv', CursorBehind', NEW n \in Nodes, Edit(n)
  PROVE  Keeps
<1>1. /\ ParentOf[n] \in Present /\ ver' = [ver EXCEPT ![n] = @ + 1]
      /\ UNCHANGED <<cursor, watcher, chan, applied, reported>>
  BY DEF Edit, agentVars
<1>2. FeedInv'
  BY <1>1, EditPhase DEF FeedInv
<1>3. Feed!Edit(n)
  BY <1>1 DEF Feed!Edit, Feed!Present, Present
<1>4. Feed!Next
  BY <1>3 DEF Feed!Next
<1> QED BY <1>2, <1>4 DEF Keeps

LEMMA TakeStep ==
  ASSUME Calm, FeedInv, WatchInv', CursorBehind', Take
  PROVE  Keeps
<1>1. /\ chan # <<>> /\ chan' = Tail(chan)
      /\ applied' = [applied EXCEPT ![Head(chan).node] = Head(chan).ver]
      /\ UNCHANGED <<ver, mtime, clock, cursor, watcher, reported>>
  BY DEF Take, driveVars
<1>2. FeedInv'
  BY <1>1 DEF FeedInv, DriveTree, Present
<1>3. chan \in Seq(Record)
  BY DEF FeedInv, WatchInv, TypeOK
<1>4. /\ Bar(chan) # <<>> /\ Bar(chan') = Tail(Bar(chan))
      /\ Head(Bar(chan)).node = Head(chan).node /\ Head(Bar(chan)).ver = Head(chan).ver
  BY <1>1, <1>3, BarTail
<1>5. Feed!Take
  BY <1>1, <1>4 DEF Feed!Take, Bar
<1>6. Feed!Next
  BY <1>5 DEF Feed!Next
<1> QED BY <1>2, <1>6 DEF Keeps

LEMMA FeedStep ==
  ASSUME Calm, FeedInv, [Next]_vars
  PROVE  Keeps
<1>1. MaxRestarts = 0 /\ WatchInv /\ CursorBehind
  BY DEF Calm, FeedInv
<1>2. WatchInv' /\ CursorBehind' /\ Ids = {1} /\ owner = 1
  BY <1>1, NextWatch, CursorStep, Alone
<1>3. ASSUME NEW n \in Nodes, Edit(n) PROVE Keeps
  BY <1>2, <1>3, EditStep
<1>4. CASE PassTime
  <2>1. /\ clock' = clock + 1
        /\ UNCHANGED <<ver, mtime, cursor, watcher, chan, applied, reported>>
    BY <1>4 DEF PassTime, agentVars
  <2>2. DriveTree'
    BY <2>1, Facts DEF DriveTree, Present
  <2>3. FeedInv'
    BY <1>2, <2>1, <2>2 DEF FeedInv
  <2> QED BY <2>1, <2>3, Hidden DEF Keeps
<1>5. CASE \E i \in Ids : Run(i)
  <2>1. Run(1)
    BY <1>2, <1>5
  <2>2. ~ScanSkip(1)
    BY <1>1 DEF ScanSkip, Calm, WatchInv, TypeOK
  <2>3. CASE \/ StartScan(1) \/ ScanList(1) \/ ScanDone(1)
             \/ StartPoll(1) \/ Walk(1) \/ PollFails(1) \/ WalkDone(1) \/ PollDone(1)
    BY <1>2, <2>3, SilentSteps
  <2>4. CASE ScanSend(1) \/ PollSend(1)
    BY <1>2, <2>4, SendSteps
  <2> QED BY <2>1, <2>2, <2>3, <2>4 DEF Run
<1>6. CASE Take
  BY <1>2, <1>6, TakeStep
<1>7. CASE Restart
  BY <1>1, <1>2, <1>7 DEF Restart
<1>8. CASE UNCHANGED vars
  <2>1. UNCHANGED <<ver, mtime, clock, cursor, watcher, chan, applied, reported>>
    BY <1>8 DEF vars, driveVars, agentVars
  <2>2. FeedInv'
    BY <1>2, <2>1 DEF FeedInv, DriveTree, Present
  <2> QED BY <2>1, <2>2, Hidden DEF Keeps
<1> QED BY <1>3, <1>4, <1>5, <1>6, <1>7, <1>8 DEF Next

LEMMA FeedBegins == Calm /\ Init => FeedInv /\ Feed!Init
<1> SUFFICES ASSUME Calm, Init PROVE FeedInv /\ Feed!Init
  OBVIOUS
<1>1. WatchInv /\ CursorBehind
  BY InitWatch, CursorInit
<1>2. 1 \in Ids
  BY <1>1, Alone DEF Calm
<1>3. watcher[1] = Task("start") /\ Task("start").at = "start"
  BY <1>2, TaskType DEF Init, Places
<1>4. Phase(watcher[1], reported, ver, mtime, cursor)
  BY <1>3 DEF Phase, Init
<1>5. DriveTree
  BY DEF DriveTree, Init
<1>6. Bar(<<>>) = <<>>
  BY DEF Bar
<1>7. Feed!Init
  BY <1>6 DEF Feed!Init, Feed!Present, Init, Present, Bar
<1> QED BY <1>1, <1>4, <1>5, <1>7 DEF FeedInv

(* The detailed watcher is a change feed: every change of the drive is put *)
(* into the feed in an order that names a folder before what is in it, and *)
(* never an older version after a newer one (remote.rs:53, bridge.go:687). *)
THEOREM WatcherIsAFeed == Calm /\ Spec => FeedSpec
<1> SUFFICES ASSUME Calm PROVE Spec => FeedSpec
  OBVIOUS
<1>1. Init => FeedInv /\ Feed!Init
  BY FeedBegins
<1>2. FeedInv /\ [Next]_vars => FeedInv' /\ [Feed!Next]_(Feed!vars)
  BY FeedStep DEF Keeps
<1> QED BY <1>1, <1>2, PTL DEF Spec, FeedSpec, Feed!Spec

(* While the watcher rests, every change up to the cursor has been sent,   *)
(* whatever polls failed before (remote.rs:58).                            *)
THEOREM CursorNamesTheSent == Calm /\ Spec => []CursorSound
<1> SUFFICES ASSUME Calm PROVE Spec => []CursorSound
  OBVIOUS
<1>1. Init => FeedInv
  BY FeedBegins
<1>2. FeedInv /\ [Next]_vars => FeedInv'
  BY FeedStep DEF Keeps
<1>3. FeedInv => CursorSound
  <2> SUFFICES ASSUME FeedInv, At(owner, "sleep") PROVE \A n \in Nodes : ver[n] > 0 /\ mtime[n] <= cursor => reported[n] = ver[n]
    BY DEF CursorSound
  <2>1. watcher[1].at = "sleep"
    BY Alone DEF At, FeedInv, Calm
  <2>2. Settled(reported, ver, mtime, cursor)
    BY <2>1, Facts DEF Phase
  <2> QED BY <2>2 DEF Settled
<1> QED BY <1>1, <1>2, <1>3, PTL DEF Spec

=============================================================================
