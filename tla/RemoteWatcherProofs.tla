------------------------ MODULE RemoteWatcherProofs ------------------------
(***************************************************************************)
(* The types of RemoteWatcher and NeverOlder, for any tree of nodes and    *)
(* any numbers of restarts, edits and failing calls, the drive changing    *)
(* under every walk.                                                       *)
(***************************************************************************)
EXTENDS RemoteWatcher, FiniteSetTheorems, FunctionTheorems, SequenceTheorems, TLAPS

Holds(s, n) == \E k \in DOMAIN s : s[k].node = n

(* No node is twice in a sequence of entries.                              *)
Once(s) == \A j, k \in DOMAIN s : s[j].node = s[k].node => j = k

(* Entries are no newer than the drive (v), and no older than what the     *)
(* agent was last sent (r).                                                *)
Seen(s, v)  == \A k \in DOMAIN s : s[k].ver <= v[s[k].node]
Ahead(s, r) == \A k \in DOMAIN s : r[s[k].node] <= s[k].ver

(* A walk has visited V; the entries it has still to visit are below V, so *)
(* what it will find below them is new to it.                              *)
Walked(w, V) ==
  /\ \A k \in DOMAIN w.out : w.out[k].node \in V
  /\ \A k \in DOMAIN w.stack : /\ w.stack[k].node \notin V
                               /\ ParentOf[w.stack[k].node] \in V \cup {Top}
  /\ \A n \in V : ParentOf[n] \in V \cup {Top}
  /\ Once(w.stack)

WatcherTrue(w, v) ==
  /\ Seen(w.out, v) /\ Seen(w.stack, v) /\ Once(w.out)
  /\ w.at # "walk" => w.stack = <<>>
  /\ w.at = "walk" => \E V \in SUBSET Nodes : Walked(w, V)

VersionsTrue == \A n \in Nodes : applied[n] <= reported[n] /\ reported[n] <= ver[n]

(* The channel holds the versions of a node in their order.                *)
ChanTrue ==
  \A k \in DOMAIN chan :
    /\ applied[chan[k].node] <= chan[k].ver /\ chan[k].ver <= reported[chan[k].node]
    /\ \A j \in DOMAIN chan : j < k /\ chan[j].node = chan[k].node => chan[j].ver <= chan[k].ver

OwnerAhead == Ahead(watcher[owner].out, reported) /\ Ahead(watcher[owner].stack, reported)

WatchInv ==
  /\ TypeOK /\ VersionsTrue /\ ChanTrue
  /\ \A i \in Ids : WatcherTrue(watcher[i], ver)
  /\ OwnerAhead

-----------------------------------------------------------------------------
(* A task that holds nothing.                                              *)
LEMMA TaskType ==
  ASSUME NEW place \in Places
  PROVE  /\ Task(place) \in Watcher /\ Task(place).at = place
         /\ Task(place).out = <<>> /\ Task(place).stack = <<>> /\ Task(place).queue = <<>>
         /\ Task(place).since = 0 /\ Task(place).now = 0
<1>1. 0 \in 0 .. MaxTime
  BY WatcherAssumption DEF WatcherAssumption
<1> QED BY <1>1 DEF Task, Watcher

(* ... is true of any drive unless it walks.                               *)
LEMMA TaskTrue ==
  ASSUME NEW place \in Places \ {"walk"}, NEW v
  PROVE  WatcherTrue(Task(place), v)
BY TaskType DEF WatcherTrue, Seen, Once

(* A list call returns the entries of a folder, each once, none left out.  *)
LEMMA ListingFacts ==
  ASSUME ver \in [Nodes -> Nat], mtime \in [Nodes -> 0 .. MaxTime],
         NEW folder, NEW s \in Listings(folder)
  PROVE  /\ s \in Seq(Record) /\ Once(s)
         /\ \A k \in DOMAIN s :
              /\ s[k].node \in Nodes /\ ParentOf[s[k].node] = folder
              /\ s[k].ver = ver[s[k].node] /\ s[k].mtime = mtime[s[k].node]
              /\ ver[s[k].node] > 0
         /\ \A n \in Nodes : ParentOf[n] = folder /\ ver[n] > 0 => Holds(s, n)
<1> DEFINE M == {m \in Nodes : ParentOf[m] = folder /\ ver[m] > 0}
           r == [n \in M |-> [node |-> n, ver |-> ver[n], mtime |-> mtime[n]]]
           S == {[node |-> n, ver |-> ver[n], mtime |-> mtime[n]] : n \in M}
<1>1. IsFiniteSet(M)
  BY FS_Subset, WatcherAssumption DEF WatcherAssumption
<1>2. r \in Surjection(M, S)
  BY Fun_IsSurj
<1>3. IsFiniteSet(S) /\ Cardinality(S) \in Nat
  BY <1>1, <1>2, FS_Surjection, FS_CardinalityType
<1> DEFINE D == 1 .. Cardinality(S)
<1>4. s \in [D -> S] /\ \A i, j \in D : i # j => s[i] # s[j]
  BY DEF Listings, SetToSeqs
<1>5. \A e \in S : /\ e \in Record /\ e.node \in M
                   /\ e.ver = ver[e.node] /\ e.mtime = mtime[e.node]
  BY DEF Record
<1>6. \A e, f \in S : e.node = f.node => e = f
  OBVIOUS
<1>7. s \in Seq(Record) /\ DOMAIN s = D
  <2>1. S \subseteq Record
    BY <1>5
  <2> HIDE DEF S
  <2>2. s \in [D -> Record]
    BY <1>4, <2>1
  <2> QED BY <1>3, <2>2
<1>8. Once(s)
  BY <1>4, <1>6, <1>7 DEF Once
<1>9. s \in Injection(D, S)
  BY <1>4, Fun_IsInj
<1>10. s \in Surjection(D, S)
  <2>1. IsFiniteSet(D) /\ Cardinality(D) = Cardinality(S)
    BY <1>3, FS_Interval
  <2> QED BY <1>3, <1>9, <2>1, FS_Injection
<1> HIDE DEF S, D
<1>11. \A e \in S : \E k \in D : s[k] = e
  BY <1>10, Fun_SurjectionProperties
<1>12. \A n \in M : Holds(s, n)
  <2> TAKE n \in M
  <2>1. [node |-> n, ver |-> ver[n], mtime |-> mtime[n]] \in S
    BY DEF S
  <2>2. PICK k \in D : s[k] = [node |-> n, ver |-> ver[n], mtime |-> mtime[n]]
    BY <1>11, <2>1
  <2>3. s[k].node = n
    BY <2>2
  <2> QED BY <2>3, <1>7 DEF Holds
<1> QED BY <1>4, <1>5, <1>7, <1>8, <1>12

(* The entries of a sequence, and its parts.                               *)
LEMMA EntryFacts ==
  ASSUME NEW s \in Seq(Record)
  PROVE  /\ Len(s) \in Nat /\ DOMAIN s = 1 .. Len(s)
         /\ \A k \in DOMAIN s : /\ s[k] \in Record /\ s[k].node \in Nodes
                              /\ s[k].ver \in Nat /\ s[k].mtime \in 0 .. MaxTime
<1>1. Len(s) \in Nat /\ DOMAIN s = 1 .. Len(s)
  BY LenProperties
<1>2. \A k \in DOMAIN s : s[k] \in Record
  BY <1>1, ElementOfSeq
<1> QED BY <1>1, <1>2 DEF Record

LEMMA TailFacts ==
  ASSUME NEW s \in Seq(Record), s # <<>>
  PROVE  /\ Head(s) \in Record /\ 1 \in DOMAIN s /\ Head(s) = s[1]
         /\ Tail(s) \in Seq(Record) /\ DOMAIN Tail(s) = 1 .. Len(s) - 1
         /\ \A k \in DOMAIN Tail(s) : k + 1 \in DOMAIN s /\ Tail(s)[k] = s[k + 1]
<1>1. Len(s) \in Nat \ {0} /\ DOMAIN s = 1 .. Len(s)
  BY EmptySeq, LenProperties
<1>2. Head(s) \in Record /\ Head(s) = s[1] /\ Tail(s) \in Seq(Record) /\ Len(Tail(s)) = Len(s) - 1
  BY HeadTailProperties
<1>3. \A k \in 1 .. Len(s) - 1 : Tail(s)[k] = s[k + 1]
  BY HeadTailProperties
<1>4. DOMAIN Tail(s) = 1 .. Len(s) - 1
  BY <1>2, LenProperties
<1> QED BY <1>1, <1>2, <1>3, <1>4

LEMMA AppendFacts ==
  ASSUME NEW S, NEW s \in Seq(S), NEW e \in S
  PROVE  /\ Append(s, e) \in Seq(S) /\ DOMAIN s = 1 .. Len(s) /\ Len(s) \in Nat
         /\ DOMAIN Append(s, e) = 1 .. Len(s) + 1
         /\ Append(s, e)[Len(s) + 1] = e
         /\ \A k \in DOMAIN s : Append(s, e)[k] = s[k]
BY AppendProperties, LenProperties

LEMMA ConcatFacts ==
  ASSUME NEW S, NEW s \in Seq(S), NEW t \in Seq(S)
  PROVE  /\ s \o t \in Seq(S) /\ Len(s) \in Nat /\ Len(t) \in Nat
         /\ DOMAIN s = 1 .. Len(s) /\ DOMAIN t = 1 .. Len(t)
         /\ DOMAIN (s \o t) = 1 .. Len(s) + Len(t)
         /\ \A k \in DOMAIN s : (s \o t)[k] = s[k]
         /\ \A k \in DOMAIN t : (s \o t)[Len(s) + k] = t[k]
         /\ \A k \in DOMAIN (s \o t) : k \in DOMAIN s \/ (k - Len(s) \in DOMAIN t /\ (s \o t)[k] = t[k - Len(s)])
<1>1. Len(s) \in Nat /\ Len(t) \in Nat /\ DOMAIN s = 1 .. Len(s) /\ DOMAIN t = 1 .. Len(t)
  BY LenProperties
<1>2. s \o t \in Seq(S) /\ Len(s \o t) = Len(s) + Len(t)
        /\ \A k \in 1 .. Len(s) + Len(t) : (s \o t)[k] = IF k <= Len(s) THEN s[k] ELSE t[k - Len(s)]
  BY ConcatProperties
<1>3. DOMAIN (s \o t) = 1 .. Len(s) + Len(t)
  BY <1>2, LenProperties
<1> QED BY <1>1, <1>2, <1>3

(* What is left of a sequence of entries after its head.                   *)
LEMMA TailKeeps ==
  ASSUME NEW s \in Seq(Record), s # <<>>
  PROVE  /\ \A v : Seen(s, v) => Seen(Tail(s), v)
         /\ \A r : Ahead(s, r) => Ahead(Tail(s), r)
         /\ Once(s) => Once(Tail(s)) /\ \A k \in DOMAIN Tail(s) : Tail(s)[k].node # Head(s).node
<1>1. \A v : Seen(s, v) => Seen(Tail(s), v)
  BY TailFacts DEF Seen
<1>2. \A r : Ahead(s, r) => Ahead(Tail(s), r)
  BY TailFacts DEF Ahead
<1>3. ASSUME Once(s) PROVE Once(Tail(s))
  <2> SUFFICES ASSUME NEW j \in DOMAIN Tail(s), NEW k \in DOMAIN Tail(s), Tail(s)[j].node = Tail(s)[k].node
               PROVE j = k
    BY DEF Once
  <2>1. j + 1 = k + 1
    BY <1>3, TailFacts DEF Once
  <2>2. j \in Int /\ k \in Int
    BY TailFacts
  <2> QED BY <2>1, <2>2
<1>4. ASSUME Once(s), NEW k \in DOMAIN Tail(s) PROVE Tail(s)[k].node # Head(s).node
  <2>1. k \in Nat \ {0} /\ k + 1 # 1
    BY TailFacts
  <2> QED BY <1>4, <2>1, TailFacts DEF Once
<1> QED BY <1>1, <1>2, <1>3, <1>4

(* Entries put in front of others, or one more at the end.                 *)
LEMMA ConcatKeeps ==
  ASSUME NEW s \in Seq(Record), NEW t \in Seq(Record)
  PROVE  /\ \A v : Seen(s, v) /\ Seen(t, v) => Seen(s \o t, v)
         /\ \A r : Ahead(s, r) /\ Ahead(t, r) => Ahead(s \o t, r)
<1>1. \A k \in DOMAIN (s \o t) : \/ k \in DOMAIN s /\ (s \o t)[k] = s[k]
                                 \/ k - Len(s) \in DOMAIN t /\ (s \o t)[k] = t[k - Len(s)]
  BY ConcatFacts
<1>2. \A v : Seen(s, v) /\ Seen(t, v) => Seen(s \o t, v)
  BY <1>1 DEF Seen
<1>3. \A r : Ahead(s, r) /\ Ahead(t, r) => Ahead(s \o t, r)
  BY <1>1 DEF Ahead
<1> QED BY <1>2, <1>3

LEMMA AppendKeeps ==
  ASSUME NEW s \in Seq(Record), NEW e \in Record
  PROVE  /\ \A v : Seen(s, v) /\ e.ver <= v[e.node] => Seen(Append(s, e), v)
         /\ \A r : Ahead(s, r) /\ r[e.node] <= e.ver => Ahead(Append(s, e), r)
         /\ Once(s) /\ (\A k \in DOMAIN s : s[k].node # e.node) => Once(Append(s, e))
<1> DEFINE t == Append(s, e)
<1>1. \A k \in DOMAIN t : (k \in DOMAIN s /\ t[k] = s[k]) \/ (k = Len(s) + 1 /\ t[k] = e)
  BY AppendFacts
<1> HIDE DEF t
<1>2. \A v : Seen(s, v) /\ e.ver <= v[e.node] => Seen(t, v)
  BY <1>1 DEF Seen
<1>3. \A r : Ahead(s, r) /\ r[e.node] <= e.ver => Ahead(t, r)
  BY <1>1 DEF Ahead
<1>4. ASSUME Once(s), \A k \in DOMAIN s : s[k].node # e.node PROVE Once(t)
  <2> SUFFICES ASSUME NEW j \in DOMAIN t, NEW k \in DOMAIN t, t[j].node = t[k].node PROVE j = k
    BY DEF Once
  <2>1. CASE k = Len(s) + 1 /\ t[k] = e
    BY <1>1, <1>4, <2>1
  <2>2. CASE k \in DOMAIN s /\ t[k] = s[k]
    BY <1>1, <1>4, <2>2 DEF Once
  <2> QED BY <1>1, <2>1, <2>2
<1> QED BY <1>2, <1>3, <1>4 DEF t

-----------------------------------------------------------------------------
(* A step of one watcher leaves what is true of the others.                *)
LEMMA BecomeTrue ==
  ASSUME WatchInv, NEW i \in Ids, NEW w \in Watcher, Become(i, w), WatcherTrue(w, ver)
  PROVE  /\ watcher' \in [Ids -> Watcher] /\ watcher'[i] = w
         /\ \A j \in Ids : j # i => watcher'[j] = watcher[j]
         /\ \A j \in Ids : WatcherTrue(watcher'[j], ver)
BY DEF WatchInv, TypeOK, Become

(* A step of a watcher that sends nothing.                                 *)
LEMMA TaskStep ==
  ASSUME WatchInv, NEW i \in Ids, NEW w \in Watcher, Become(i, w), WatcherTrue(w, ver),
         i = owner => Ahead(w.out, reported) /\ Ahead(w.stack, reported),
         UNCHANGED <<driveVars, agentVars>>, cursor' \in 0 .. MaxTime,
         edits' \in Nat, scanFaults' \in Nat, pollFaults' \in Nat
  PROVE  WatchInv'
<1>1. UNCHANGED <<ver, mtime, clock, owner, chan, applied, reported>>
  BY DEF driveVars, agentVars
<1>2. TypeOK'
  BY <1>1, BecomeTrue DEF WatchInv, TypeOK
<1>3. VersionsTrue' /\ ChanTrue'
  BY <1>1 DEF WatchInv, VersionsTrue, ChanTrue
<1>4. \A j \in Ids : WatcherTrue(watcher'[j], ver')
  BY <1>1, BecomeTrue
<1>5. OwnerAhead'
  BY <1>1, BecomeTrue DEF WatchInv, OwnerAhead, TypeOK
<1> QED BY <1>2, <1>3, <1>4, <1>5 DEF WatchInv

(* The owner sends the first of its entries.                               *)
LEMMA SendStep ==
  ASSUME WatchInv, NEW w \in Watcher, watcher[owner].out # <<>>, watcher[owner].at # "walk",
         Send(Head(watcher[owner].out)), Become(owner, w), w.at = watcher[owner].at,
         w.out = Tail(watcher[owner].out), w.stack = watcher[owner].stack,
         UNCHANGED <<driveVars, cursor, owner, applied, boundVars>>
  PROVE  WatchInv'
<1> DEFINE old == watcher[owner]
           e   == Head(old.out)
<1>1. UNCHANGED <<ver, mtime, clock, cursor, owner, applied, edits, scanFaults, pollFaults>>
  BY DEF driveVars, boundVars
<1>2. /\ old \in Watcher /\ old.out \in Seq(Record) /\ WatcherTrue(old, ver) /\ owner \in Ids
      /\ Ahead(old.out, reported) /\ old.stack = <<>>
  BY DEF WatchInv, OwnerAhead, TypeOK, Watcher, WatcherTrue
<1>3. e \in Record /\ 1 \in DOMAIN old.out /\ e = old.out[1]
  BY <1>2, TailFacts
<1>4. e.node \in Nodes /\ e.ver \in Nat /\ reported[e.node] <= e.ver /\ e.ver <= ver[e.node]
  BY <1>2, <1>3 DEF Record, Ahead, WatcherTrue, Seen
<1>5. chan' = Append(chan, e) /\ reported' = [reported EXCEPT ![e.node] = e.ver]
  BY DEF Send
<1> HIDE DEF e
<1>6. WatcherTrue(w, ver)
  BY <1>2, TailKeeps DEF WatcherTrue
<1>7. TypeOK'
  <2>1. chan' \in Seq(Record)
    BY <1>3, <1>5, AppendFacts DEF WatchInv, TypeOK
  <2>2. reported' \in [Nodes -> Nat]
    BY <1>4, <1>5 DEF WatchInv, TypeOK
  <2> QED BY <1>1, <1>2, <1>6, <2>1, <2>2, BecomeTrue DEF WatchInv, TypeOK
<1>8. \A n \in Nodes : reported[n] <= reported'[n] /\ reported'[n] <= ver[n]
  BY <1>4, <1>5 DEF WatchInv, TypeOK, VersionsTrue
<1>9. VersionsTrue'
  BY <1>1, <1>7, <1>8 DEF WatchInv, TypeOK, VersionsTrue
<1>10. ChanTrue'
  <2>1. /\ chan \in Seq(Record) /\ DOMAIN chan = 1 .. Len(chan) /\ Len(chan) \in Nat
        /\ DOMAIN chan' = 1 .. Len(chan) + 1 /\ chan'[Len(chan) + 1] = e
        /\ \A k \in DOMAIN chan : chan'[k] = chan[k]
    BY <1>3, <1>5, AppendFacts DEF WatchInv, TypeOK
  <2>2. \A k \in DOMAIN chan : chan[k] \in Record /\ chan[k].node \in Nodes /\ chan[k].ver \in Nat
    BY EntryFacts DEF WatchInv, TypeOK
  <2>3. ASSUME NEW k \in DOMAIN chan
        PROVE  /\ applied[chan'[k].node] <= chan'[k].ver /\ chan'[k].ver <= reported'[chan'[k].node]
               /\ \A j \in DOMAIN chan' : j < k /\ chan'[j].node = chan'[k].node => chan'[j].ver <= chan'[k].ver
    <3>1. applied[chan[k].node] <= chan[k].ver /\ chan[k].ver <= reported[chan[k].node]
      BY DEF WatchInv, ChanTrue
    <3>2. chan[k].ver <= reported'[chan[k].node]
      <4>1. reported[chan[k].node] \in Nat /\ reported'[chan[k].node] \in Nat
        BY <1>7, <2>2 DEF WatchInv, TypeOK
      <4>2. reported[chan[k].node] <= reported'[chan[k].node]
        BY <1>8, <2>2
      <4> QED BY <2>2, <3>1, <4>1, <4>2
    <3>3. \A j \in DOMAIN chan' : j < k => j \in DOMAIN chan
      BY <2>1
    <3>4. \A j \in DOMAIN chan : j < k /\ chan[j].node = chan[k].node => chan[j].ver <= chan[k].ver
      BY DEF WatchInv, ChanTrue
    <3> QED BY <2>1, <3>1, <3>2, <3>3, <3>4
  <2>4. /\ applied[e.node] <= e.ver /\ e.ver <= reported'[e.node]
        /\ \A j \in DOMAIN chan : chan[j].node = e.node => chan[j].ver <= e.ver
    <3>1. reported'[e.node] = e.ver
      BY <1>4, <1>5 DEF WatchInv, TypeOK
    <3>2. applied[e.node] <= reported[e.node] /\ applied[e.node] \in Nat /\ reported[e.node] \in Nat
      BY <1>4 DEF WatchInv, TypeOK, VersionsTrue
    <3>3. \A j \in DOMAIN chan : chan[j].ver <= reported[chan[j].node]
      BY DEF WatchInv, ChanTrue
    <3> QED BY <1>4, <2>2, <3>1, <3>2, <3>3
  <2>5. \A j \in DOMAIN chan' : j < Len(chan) + 1 => j \in DOMAIN chan
    BY <2>1
  <2>6. \A k \in DOMAIN chan' : k \in DOMAIN chan \/ k = Len(chan) + 1
    BY <2>1
  <2>7. ASSUME NEW k \in DOMAIN chan', k = Len(chan) + 1
        PROVE  /\ applied[chan'[k].node] <= chan'[k].ver /\ chan'[k].ver <= reported'[chan'[k].node]
               /\ \A j \in DOMAIN chan' : j < k /\ chan'[j].node = chan'[k].node => chan'[j].ver <= chan'[k].ver
    BY <2>1, <2>4, <2>5, <2>7
  <2> QED BY <1>1, <2>3, <2>6, <2>7 DEF ChanTrue
<1>11. OwnerAhead'
  <2>1. watcher'[owner] = w
    BY <1>2, <1>6, BecomeTrue
  <2>2. \A k \in DOMAIN Tail(old.out) : Tail(old.out)[k].node # e.node
    BY <1>2, TailKeeps DEF WatcherTrue, e
  <2>3. \A k \in DOMAIN Tail(old.out) : Tail(old.out)[k] \in Record /\ Tail(old.out)[k].node \in Nodes
    BY <1>2, TailFacts, EntryFacts
  <2>4. \A k \in DOMAIN Tail(old.out) : reported'[Tail(old.out)[k].node] = reported[Tail(old.out)[k].node]
    BY <1>5, <2>2, <2>3 DEF WatchInv, TypeOK
  <2>5. Ahead(Tail(old.out), reported)
    BY <1>2, TailKeeps
  <2>6. Ahead(w.out, reported')
    BY <2>4, <2>5 DEF Ahead
  <2>7. Ahead(w.stack, reported')
    BY <1>2 DEF Ahead
  <2> QED BY <1>1, <2>1, <2>6, <2>7 DEF OwnerAhead
<1>12. \A j \in Ids : WatcherTrue(watcher'[j], ver')
  BY <1>1, <1>2, <1>6, BecomeTrue
<1> QED BY <1>7, <1>9, <1>10, <1>11, <1>12 DEF WatchInv

-----------------------------------------------------------------------------
(* What an action may count on.                                            *)
LEMMA WatcherFacts ==
  ASSUME WatchInv, NEW i \in Ids
  PROVE  /\ watcher[i] \in Watcher /\ WatcherTrue(watcher[i], ver)
         /\ watcher[i].out \in Seq(Record) /\ watcher[i].stack \in Seq(Record)
         /\ watcher[i].queue \in Seq(Nodes \cup {Top}) /\ watcher[i].at \in Places
         /\ ver \in [Nodes -> Nat] /\ mtime \in [Nodes -> 0 .. MaxTime]
         /\ clock \in 0 .. MaxTime /\ cursor \in 0 .. MaxTime
         /\ \A n \in Nodes : reported[n] <= ver[n]
<1>1. /\ watcher[i] \in Watcher /\ WatcherTrue(watcher[i], ver)
      /\ ver \in [Nodes -> Nat] /\ mtime \in [Nodes -> 0 .. MaxTime]
  BY DEF WatchInv, TypeOK
<1>2. clock \in 0 .. MaxTime /\ cursor \in 0 .. MaxTime
  BY DEF WatchInv, TypeOK
<1>3. \A n \in Nodes : reported[n] <= ver[n]
  BY DEF WatchInv, VersionsTrue
<1> QED BY <1>1, <1>2, <1>3 DEF Watcher

(* Entries listed now are what the drive has now.                          *)
LEMMA ListingTrue ==
  ASSUME WatchInv, NEW folder, NEW s \in Listings(folder)
  PROVE  Seen(s, ver) /\ Ahead(s, reported) /\ Once(s) /\ s \in Seq(Record)
<1>1. ver \in [Nodes -> Nat] /\ mtime \in [Nodes -> 0 .. MaxTime] /\ reported \in [Nodes -> Nat]
  BY DEF WatchInv, TypeOK
<1>2. s \in Seq(Record) /\ Once(s) /\ \A k \in DOMAIN s : s[k].node \in Nodes /\ s[k].ver = ver[s[k].node]
  BY <1>1, ListingFacts
<1>3. \A k \in DOMAIN s : s[k].ver \in Nat /\ reported[s[k].node] <= s[k].ver
  BY <1>1, <1>2 DEF WatchInv, VersionsTrue
<1> QED BY <1>2, <1>3 DEF Seen, Ahead

-----------------------------------------------------------------------------
(* The first run.                                                          *)
LEMMA StartScanKeeps ==
  ASSUME WatchInv, NEW i \in Ids, StartScan(i) PROVE WatchInv'
<1> DEFINE w == [Task("scan") EXCEPT !.queue = <<Top>>]
<1>1. <<Top>> \in Seq(Nodes \cup {Top})
  OBVIOUS
<1>2. w \in Watcher /\ w.at = "scan" /\ w.out = <<>> /\ w.stack = <<>>
  BY <1>1, TaskType DEF Watcher, Places
<1>3. Become(i, w) /\ UNCHANGED <<driveVars, agentVars, cursor, edits, scanFaults, pollFaults>>
  BY DEF StartScan, boundVars
<1> HIDE DEF w
<1>4. WatcherTrue(w, ver) /\ Ahead(w.out, reported) /\ Ahead(w.stack, reported)
  BY <1>2 DEF WatcherTrue, Seen, Ahead, Once
<1>5. cursor' \in 0 .. MaxTime /\ edits' \in Nat /\ scanFaults' \in Nat /\ pollFaults' \in Nat
  BY <1>3 DEF WatchInv, TypeOK
<1> QED BY <1>2, <1>3, <1>4, <1>5, TaskStep

LEMMA ScanListKeeps ==
  ASSUME WatchInv, NEW i \in Ids, ScanList(i) PROVE WatchInv'
<1>1. PICK children \in Listings(Head(watcher[i].queue)) :
        Become(i, [watcher[i] EXCEPT !.queue = Tail(@), !.out = children])
  BY DEF ScanList
<1> DEFINE w == [watcher[i] EXCEPT !.queue = Tail(@), !.out = children]
<1>2. /\ Seen(children, ver) /\ Ahead(children, reported) /\ Once(children)
      /\ children \in Seq(Record)
  BY ListingTrue
<1>3. /\ watcher[i].at = "scan" /\ watcher[i].queue # <<>>
      /\ UNCHANGED <<driveVars, agentVars, cursor, edits, scanFaults, pollFaults>>
  BY DEF ScanList, boundVars, At
<1>4. Tail(watcher[i].queue) \in Seq(Nodes \cup {Top}) /\ watcher[i].stack = <<>>
  BY <1>3, WatcherFacts, HeadTailProperties DEF WatcherTrue
<1>5. w \in Watcher /\ w.at = "scan" /\ w.out = children /\ w.stack = <<>>
  BY <1>2, <1>3, <1>4, WatcherFacts DEF Watcher
<1>6. Become(i, w)
  BY <1>1
<1> HIDE DEF w
<1>7. WatcherTrue(w, ver) /\ Ahead(w.out, reported) /\ Ahead(w.stack, reported)
  BY <1>2, <1>5 DEF WatcherTrue, Seen, Ahead
<1>8. cursor' \in 0 .. MaxTime /\ edits' \in Nat /\ scanFaults' \in Nat /\ pollFaults' \in Nat
  BY <1>3 DEF WatchInv, TypeOK
<1> QED BY <1>3, <1>5, <1>6, <1>7, <1>8, TaskStep

LEMMA ScanSkipKeeps ==
  ASSUME WatchInv, NEW i \in Ids, ScanSkip(i) PROVE WatchInv'
<1> DEFINE w == [watcher[i] EXCEPT !.queue = Tail(@)]
<1>1. /\ watcher[i].at = "scan" /\ watcher[i].queue # <<>> /\ watcher[i].out = <<>> /\ Become(i, w)
      /\ UNCHANGED <<driveVars, agentVars, cursor, edits, pollFaults>> /\ scanFaults' = scanFaults + 1
  BY DEF ScanSkip, At
<1>2. Tail(watcher[i].queue) \in Seq(Nodes \cup {Top}) /\ watcher[i].stack = <<>>
  BY <1>1, WatcherFacts, HeadTailProperties DEF WatcherTrue
<1>3. w \in Watcher /\ w.at = "scan" /\ w.out = <<>> /\ w.stack = <<>>
  BY <1>1, <1>2, WatcherFacts DEF Watcher
<1> HIDE DEF w
<1>4. WatcherTrue(w, ver) /\ Ahead(w.out, reported) /\ Ahead(w.stack, reported)
  BY <1>3 DEF WatcherTrue, Seen, Ahead, Once
<1>5. cursor' \in 0 .. MaxTime /\ edits' \in Nat /\ scanFaults' \in Nat /\ pollFaults' \in Nat
  BY <1>1 DEF WatchInv, TypeOK
<1> QED BY <1>1, <1>3, <1>4, <1>5, TaskStep

(* A scan that ends, whether it is done or its agent is gone.              *)
LEMMA EndScanKeeps ==
  ASSUME WatchInv, NEW i \in Ids, EndScan(i),
         UNCHANGED <<driveVars, agentVars, edits, scanFaults, pollFaults>>
  PROVE  WatchInv'
<1> DEFINE w == Task("start")
<1>1. w \in Watcher /\ WatcherTrue(w, ver) /\ w.out = <<>> /\ w.stack = <<>>
  BY TaskType, TaskTrue DEF Places
<1>2. Ahead(w.out, reported) /\ Ahead(w.stack, reported)
  BY <1>1 DEF Ahead
<1>3. Become(i, w) /\ cursor' = clock
  BY DEF EndScan
<1> HIDE DEF w
<1>4. cursor' \in 0 .. MaxTime /\ edits' \in Nat /\ scanFaults' \in Nat /\ pollFaults' \in Nat
  BY <1>3, WatcherFacts DEF WatchInv, TypeOK
<1> QED BY <1>1, <1>2, <1>3, <1>4, TaskStep

LEMMA ScanSendKeeps ==
  ASSUME WatchInv, NEW i \in Ids, ScanSend(i) PROVE WatchInv'
<1> DEFINE e == Head(watcher[i].out)
           w == [watcher[i] EXCEPT !.out = Tail(@),
                   !.queue = IF e.node \in FolderNodes THEN Append(@, e.node) ELSE @]
<1>1. /\ watcher[i].at = "scan" /\ watcher[i].out # <<>>
      /\ UNCHANGED <<driveVars, owner, applied, boundVars>>
  BY DEF ScanSend, At
<1>2. e \in Record /\ Tail(watcher[i].out) \in Seq(Record)
  BY <1>1, WatcherFacts, TailFacts
<1>3. (IF e.node \in FolderNodes THEN Append(watcher[i].queue, e.node) ELSE watcher[i].queue)
        \in Seq(Nodes \cup {Top})
  <2>1. e.node \in Nodes \cup {Top}
    BY <1>2 DEF Record
  <2> HIDE DEF e
  <2> QED BY <2>1, WatcherFacts, AppendProperties
<1>4. CASE ~Open(i)
  <2>1. EndScan(i) /\ UNCHANGED <<chan, reported>>
    BY <1>4 DEF ScanSend
  <2>2. UNCHANGED <<driveVars, agentVars, edits, scanFaults, pollFaults>>
    BY <1>1, <2>1 DEF agentVars, boundVars
  <2> QED BY <2>1, <2>2, EndScanKeeps
<1>5. CASE Open(i)
  <2>1. Send(e) /\ Become(i, w) /\ UNCHANGED cursor /\ i = owner
    BY <1>5 DEF ScanSend, Open
  <2>2. /\ w \in Watcher /\ w.at = watcher[i].at /\ w.out = Tail(watcher[i].out)
        /\ w.stack = watcher[i].stack
    <3> HIDE DEF e
    <3> QED BY <1>2, <1>3, WatcherFacts DEF Watcher
  <2> HIDE DEF w
  <2>3. UNCHANGED <<driveVars, cursor, owner, applied, boundVars>>
    BY <1>1, <2>1
  <2> QED BY <1>1, <2>1, <2>2, <2>3, SendStep
<1> QED BY <1>4, <1>5

LEMMA ScanDoneKeeps ==
  ASSUME WatchInv, NEW i \in Ids, ScanDone(i) PROVE WatchInv'
<1>1. EndScan(i) /\ UNCHANGED <<driveVars, agentVars, edits, scanFaults, pollFaults>>
  BY DEF ScanDone, boundVars
<1> QED BY <1>1, EndScanKeeps

-----------------------------------------------------------------------------
(* Polling.  A walk that visits the next entry never meets a node twice:   *)
(* what is below the entry is below nothing visited or waiting.            *)
LEMMA WalkOn ==
  ASSUME NEW w \in Watcher, NEW V \in SUBSET Nodes, Walked(w, V), Once(w.out), w.stack # <<>>,
         NEW children \in Seq(Record), Once(children),
         \A k \in DOMAIN children : ParentOf[children[k].node] = Head(w.stack).node,
         NEW u \in Watcher, u.stack = children \o Tail(w.stack),
         u.out \in {w.out, Append(w.out, Head(w.stack))}
  PROVE  /\ Head(w.stack).node \in Nodes \ V
         /\ Walked(u, V \cup {Head(w.stack).node}) /\ Once(u.out)
<1> DEFINE e == Head(w.stack)
           rest == Tail(w.stack)
<1>1. w.stack \in Seq(Record) /\ w.out \in Seq(Record)
  BY DEF Watcher
<1>2. /\ e \in Record /\ 1 \in DOMAIN w.stack /\ e = w.stack[1] /\ rest \in Seq(Record)
      /\ \A k \in DOMAIN rest : k + 1 \in DOMAIN w.stack /\ rest[k] = w.stack[k + 1]
  BY <1>1, TailFacts
<1>3. e.node \in Nodes \ V /\ ParentOf[e.node] \in V \cup {Top} /\ e.node # Top
  BY <1>1, <1>2, EntryFacts, WatcherAssumption DEF Walked, WatcherAssumption
<1>4. /\ Once(rest) /\ \A k \in DOMAIN rest : rest[k].node # e.node
      /\ \A k \in DOMAIN rest : rest[k].node \notin V /\ ParentOf[rest[k].node] \in V \cup {Top}
  BY <1>1, <1>2, TailKeeps DEF Walked
<1>5. \A k \in DOMAIN children :
        /\ children[k].node \in Nodes /\ ParentOf[children[k].node] = e.node
        /\ children[k].node \notin V /\ children[k].node # e.node
  BY <1>3, EntryFacts DEF Walked
<1> HIDE DEF e, rest
<1>6. /\ DOMAIN u.stack = 1 .. Len(children) + Len(rest) /\ Len(children) \in Nat /\ Len(rest) \in Nat
      /\ DOMAIN children = 1 .. Len(children) /\ DOMAIN rest = 1 .. Len(rest)
      /\ \A k \in DOMAIN u.stack : \/ k \in DOMAIN children /\ u.stack[k] = children[k]
                                   \/ k - Len(children) \in DOMAIN rest /\ u.stack[k] = rest[k - Len(children)]
  BY <1>2, ConcatFacts DEF rest
<1>7. \A k \in DOMAIN u.stack : /\ u.stack[k].node \notin V \cup {e.node}
                                /\ ParentOf[u.stack[k].node] \in V \cup {e.node} \cup {Top}
  BY <1>4, <1>5, <1>6
<1>8. Once(u.stack)
  <2> SUFFICES ASSUME NEW j \in DOMAIN u.stack, NEW k \in DOMAIN u.stack,
                      u.stack[j].node = u.stack[k].node
               PROVE  j = k
    BY DEF Once
  <2>1. CASE j \in DOMAIN children /\ u.stack[j] = children[j]
    <3>1. ~(k - Len(children) \in DOMAIN rest /\ u.stack[k] = rest[k - Len(children)])
      <4> SUFFICES ASSUME k - Len(children) \in DOMAIN rest, u.stack[k] = rest[k - Len(children)]
                   PROVE  FALSE
        OBVIOUS
      <4>1. ParentOf[u.stack[k].node] \in V \cup {Top}
        BY <1>4
      <4>2. ParentOf[u.stack[j].node] = e.node
        BY <1>5, <2>1
      <4> QED BY <1>3, <4>1, <4>2
    <3>2. k \in DOMAIN children /\ u.stack[k] = children[k]
      BY <1>6, <3>1
    <3> QED BY <2>1, <3>2 DEF Once
  <2>2. CASE j - Len(children) \in DOMAIN rest /\ u.stack[j] = rest[j - Len(children)]
    <3>1. ~(k \in DOMAIN children /\ u.stack[k] = children[k])
      <4> SUFFICES ASSUME k \in DOMAIN children, u.stack[k] = children[k]
                   PROVE  FALSE
        OBVIOUS
      <4>1. ParentOf[u.stack[j].node] \in V \cup {Top}
        BY <1>4, <2>2
      <4>2. ParentOf[u.stack[k].node] = e.node
        BY <1>5
      <4> QED BY <1>3, <4>1, <4>2
    <3>2. k - Len(children) \in DOMAIN rest /\ u.stack[k] = rest[k - Len(children)]
      BY <1>6, <3>1
    <3>3. j - Len(children) = k - Len(children)
      BY <1>4, <2>2, <3>2 DEF Once
    <3>4. j \in Int /\ k \in Int
      BY <1>6
    <3> QED BY <1>6, <3>3, <3>4
  <2> QED BY <1>6, <2>1, <2>2
<1>9. (\A k \in DOMAIN u.out : u.out[k].node \in V \cup {e.node}) /\ Once(u.out)
  <2>1. CASE u.out = w.out
    BY <2>1 DEF Walked
  <2>2. CASE u.out = Append(w.out, e)
    <3>1. \A k \in DOMAIN w.out : w.out[k].node \in V
      BY DEF Walked
    <3>2. \A k \in DOMAIN u.out : (k \in DOMAIN w.out /\ u.out[k] = w.out[k]) \/ u.out[k] = e
      BY <1>1, <1>2, <2>2, AppendFacts
    <3>3. \A k \in DOMAIN w.out : w.out[k].node # e.node
      BY <1>3, <3>1
    <3>4. Once(u.out)
      BY <1>1, <1>2, <2>2, <3>3, AppendKeeps
    <3> QED BY <3>1, <3>2, <3>4
  <2> QED BY <2>1, <2>2 DEF e
<1>10. \A n \in V \cup {e.node} : ParentOf[n] \in V \cup {e.node} \cup {Top}
  BY <1>3 DEF Walked
<1> QED BY <1>3, <1>7, <1>8, <1>9, <1>10 DEF Walked, e

LEMMA StartPollKeeps ==
  ASSUME WatchInv, NEW i \in Ids, StartPoll(i) PROVE WatchInv'
<1>1. PICK children \in Listings(Top) :
        Become(i, [Task("walk") EXCEPT !.since = cursor, !.stack = children])
  BY DEF StartPoll
<1> DEFINE w == [Task("walk") EXCEPT !.since = cursor, !.stack = children]
<1>2. /\ Seen(children, ver) /\ Ahead(children, reported) /\ Once(children)
      /\ children \in Seq(Record)
  BY ListingTrue
<1>3. \A k \in DOMAIN children : ParentOf[children[k].node] = Top
  BY ListingFacts, WatcherFacts
<1>4. w \in Watcher /\ w.at = "walk" /\ w.out = <<>> /\ w.stack = children
  BY <1>2, WatcherFacts, TaskType DEF Watcher, Places
<1>5. Become(i, w) /\ UNCHANGED <<driveVars, agentVars, cursor, edits, scanFaults, pollFaults>>
  BY <1>1 DEF StartPoll, boundVars
<1> HIDE DEF w
<1>6. Walked(w, {})
  BY <1>2, <1>3, <1>4 DEF Walked
<1>7. WatcherTrue(w, ver) /\ Ahead(w.out, reported) /\ Ahead(w.stack, reported)
  BY <1>2, <1>4, <1>6 DEF WatcherTrue, Seen, Ahead, Once
<1>8. cursor' \in 0 .. MaxTime /\ edits' \in Nat /\ scanFaults' \in Nat /\ pollFaults' \in Nat
  BY <1>5 DEF WatchInv, TypeOK
<1> QED BY <1>4, <1>5, <1>7, <1>8, TaskStep

(* What is listed below an entry.                                          *)
LEMMA Below ==
  ASSUME WatchInv, NEW e, NEW children \in IF e.node \in FolderNodes THEN Listings(e.node) ELSE {<<>>}
  PROVE  /\ Seen(children, ver) /\ Ahead(children, reported) /\ Once(children)
         /\ children \in Seq(Record)
         /\ \A k \in DOMAIN children : ParentOf[children[k].node] = e.node
<1>1. CASE e.node \in FolderNodes
  BY <1>1, ListingTrue, ListingFacts DEF WatchInv, TypeOK
<1>2. CASE e.node \notin FolderNodes
  BY <1>2 DEF Seen, Ahead, Once
<1> QED BY <1>1, <1>2

LEMMA WalkKeeps ==
  ASSUME WatchInv, NEW i \in Ids, Walk(i) PROVE WatchInv'
<1> DEFINE old == watcher[i]
           e   == Head(old.stack)
           out == IF e.mtime > old.since THEN Append(old.out, e) ELSE old.out
<1>1. PICK children \in IF e.node \in FolderNodes THEN Listings(e.node) ELSE {<<>>} :
        Become(i, [old EXCEPT !.stack = children \o Tail(@), !.out = out])
  BY DEF Walk
<1> DEFINE w == [old EXCEPT !.stack = children \o Tail(@), !.out = out]
<1>2. /\ Seen(children, ver) /\ Ahead(children, reported) /\ Once(children)
      /\ children \in Seq(Record)
      /\ \A k \in DOMAIN children : ParentOf[children[k].node] = e.node
  BY Below
<1>3. /\ old \in Watcher /\ WatcherTrue(old, ver) /\ old.out \in Seq(Record) /\ old.stack \in Seq(Record)
      /\ old.stack # <<>> /\ old.at = "walk"
  BY WatcherFacts DEF Walk, At
<1>4. e \in Record /\ Tail(old.stack) \in Seq(Record) /\ e = old.stack[1] /\ 1 \in DOMAIN old.stack
  BY <1>3, TailFacts
<1> HIDE DEF e
<1>5. out \in Seq(Record) /\ out \in {old.out, Append(old.out, e)}
  BY <1>3, <1>4, AppendFacts
<1>6. children \o Tail(old.stack) \in Seq(Record)
  BY <1>2, <1>4, ConcatFacts
<1> HIDE DEF out
<1>7. w \in Watcher /\ w.at = "walk" /\ w.out = out /\ w.stack = children \o Tail(old.stack)
  BY <1>3, <1>5, <1>6 DEF Watcher
<1>8. Become(i, w) /\ UNCHANGED <<driveVars, agentVars, cursor, edits, scanFaults, pollFaults>>
  BY <1>1 DEF Walk, boundVars
<1> HIDE DEF w
<1>9. (\E V \in SUBSET Nodes : Walked(w, V)) /\ Once(w.out)
  <2>1. PICK V \in SUBSET Nodes : Walked(old, V)
    BY <1>3 DEF WatcherTrue
  <2>2. Once(old.out)
    BY <1>3 DEF WatcherTrue
  <2>3. e.node \in Nodes \ V /\ Walked(w, V \cup {e.node}) /\ Once(w.out)
    BY <1>2, <1>3, <1>5, <1>7, <2>1, <2>2, WalkOn DEF e
  <2> QED BY <2>3
<1>10. Seen(w.out, ver) /\ Seen(w.stack, ver)
  <2>1. Seen(old.out, ver) /\ Seen(old.stack, ver)
    BY <1>3 DEF WatcherTrue
  <2>2. Seen(Tail(old.stack), ver)
    BY <1>3, <2>1, TailKeeps
  <2>3. Seen(w.stack, ver)
    BY <1>2, <1>4, <1>7, <2>2, ConcatKeeps
  <2>4. CASE out = old.out
    BY <1>7, <2>1, <2>3, <2>4
  <2>5. CASE out = Append(old.out, e)
    <3>1. e.ver <= ver[e.node]
      BY <1>4, <2>1 DEF Seen
    <3> QED BY <1>3, <1>4, <1>7, <2>1, <2>3, <2>5, <3>1, AppendKeeps
  <2> QED BY <1>5, <2>4, <2>5
<1>11. i = owner => Ahead(w.out, reported) /\ Ahead(w.stack, reported)
  <2> SUFFICES ASSUME i = owner PROVE Ahead(w.out, reported) /\ Ahead(w.stack, reported)
    OBVIOUS
  <2>1. Ahead(old.out, reported) /\ Ahead(old.stack, reported)
    BY DEF WatchInv, OwnerAhead
  <2>2. Ahead(Tail(old.stack), reported)
    BY <1>3, <2>1, TailKeeps
  <2>3. Ahead(w.stack, reported)
    BY <1>2, <1>4, <1>7, <2>2, ConcatKeeps
  <2>4. CASE out = old.out
    BY <1>7, <2>1, <2>3, <2>4
  <2>5. CASE out = Append(old.out, e)
    <3>1. reported[e.node] <= e.ver
      BY <1>4, <2>1 DEF Ahead
    <3> QED BY <1>3, <1>4, <1>7, <2>1, <2>3, <2>5, <3>1, AppendKeeps
  <2> QED BY <1>5, <2>4, <2>5
<1>12. WatcherTrue(w, ver)
  BY <1>7, <1>9, <1>10 DEF WatcherTrue
<1>13. cursor' \in 0 .. MaxTime /\ edits' \in Nat /\ scanFaults' \in Nat /\ pollFaults' \in Nat
  BY <1>8 DEF WatchInv, TypeOK
<1> QED BY <1>7, <1>8, <1>11, <1>12, <1>13, TaskStep

LEMMA PollFailsKeeps ==
  ASSUME WatchInv, NEW i \in Ids, PollFails(i) PROVE WatchInv'
<1> DEFINE w == Task("sleep")
<1>1. w \in Watcher /\ WatcherTrue(w, ver) /\ w.out = <<>> /\ w.stack = <<>>
  BY TaskType, TaskTrue DEF Places
<1>2. /\ Become(i, w) /\ UNCHANGED <<driveVars, agentVars, cursor, edits, scanFaults>>
      /\ pollFaults' = pollFaults + 1
  BY DEF PollFails
<1> HIDE DEF w
<1>3. Ahead(w.out, reported) /\ Ahead(w.stack, reported)
  BY <1>1 DEF Ahead
<1>4. cursor' \in 0 .. MaxTime /\ edits' \in Nat /\ scanFaults' \in Nat /\ pollFaults' \in Nat
  BY <1>2 DEF WatchInv, TypeOK
<1> QED BY <1>1, <1>2, <1>3, <1>4, TaskStep

LEMMA WalkDoneKeeps ==
  ASSUME WatchInv, NEW i \in Ids, WalkDone(i) PROVE WatchInv'
<1> DEFINE w == [watcher[i] EXCEPT !.at = "send", !.now = clock]
<1>1. /\ watcher[i].stack = <<>> /\ Become(i, w)
      /\ UNCHANGED <<driveVars, agentVars, cursor, edits, scanFaults, pollFaults>>
  BY DEF WalkDone, boundVars
<1>2. /\ w \in Watcher /\ w.at = "send" /\ w.out = watcher[i].out /\ w.stack = <<>>
  BY <1>1, WatcherFacts DEF Watcher, Places
<1> HIDE DEF w
<1>3. WatcherTrue(w, ver)
  BY <1>2, WatcherFacts DEF WatcherTrue, Seen
<1>4. i = owner => Ahead(w.out, reported) /\ Ahead(w.stack, reported)
  BY <1>2 DEF WatchInv, OwnerAhead, Ahead
<1>5. cursor' \in 0 .. MaxTime /\ edits' \in Nat /\ scanFaults' \in Nat /\ pollFaults' \in Nat
  BY <1>1 DEF WatchInv, TypeOK
<1> QED BY <1>1, <1>2, <1>3, <1>4, <1>5, TaskStep

LEMMA PollSendKeeps ==
  ASSUME WatchInv, NEW i \in Ids, PollSend(i) PROVE WatchInv'
<1> DEFINE w == [watcher[i] EXCEPT !.out = Tail(@)]
<1>1. /\ watcher[i].at = "send" /\ watcher[i].out # <<>> /\ Become(i, w)
      /\ UNCHANGED <<driveVars, cursor, owner, applied, boundVars>>
  BY DEF PollSend, At
<1>2. watcher[i] \in Watcher /\ WatcherTrue(watcher[i], ver) /\ watcher[i].out \in Seq(Record)
  BY WatcherFacts
<1>3. /\ w \in Watcher /\ w.at = watcher[i].at /\ w.out = Tail(watcher[i].out)
      /\ w.stack = watcher[i].stack
  BY <1>1, <1>2, TailFacts DEF Watcher
<1> HIDE DEF w
<1>4. CASE Open(i)
  <2>1. Send(Head(watcher[i].out)) /\ i = owner
    BY <1>4 DEF PollSend, Open
  <2> QED BY <1>1, <1>3, <2>1, SendStep
<1>5. CASE ~Open(i)
  <2>1. i # owner /\ UNCHANGED <<driveVars, agentVars, cursor, edits, scanFaults, pollFaults>>
    BY <1>1, <1>5 DEF PollSend, Open, agentVars, boundVars
  <2>2. WatcherTrue(w, ver)
    BY <1>1, <1>2, <1>3, TailKeeps DEF WatcherTrue
  <2>3. cursor' \in 0 .. MaxTime /\ edits' \in Nat /\ scanFaults' \in Nat /\ pollFaults' \in Nat
    BY <2>1 DEF WatchInv, TypeOK
  <2> QED BY <1>1, <1>3, <2>1, <2>2, <2>3, TaskStep
<1> QED BY <1>4, <1>5

LEMMA PollDoneKeeps ==
  ASSUME WatchInv, NEW i \in Ids, PollDone(i) PROVE WatchInv'
<1> DEFINE w == Task("sleep")
<1>1. w \in Watcher /\ WatcherTrue(w, ver) /\ w.out = <<>> /\ w.stack = <<>>
  BY TaskType, TaskTrue DEF Places
<1>2. /\ Become(i, w) /\ UNCHANGED <<driveVars, agentVars, edits, scanFaults, pollFaults>>
      /\ cursor' = watcher[i].now
  BY DEF PollDone, boundVars
<1> HIDE DEF w
<1>3. Ahead(w.out, reported) /\ Ahead(w.stack, reported)
  BY <1>1 DEF Ahead
<1>4. cursor' \in 0 .. MaxTime /\ edits' \in Nat /\ scanFaults' \in Nat /\ pollFaults' \in Nat
  BY <1>2, WatcherFacts DEF WatchInv, TypeOK, Watcher
<1> QED BY <1>1, <1>2, <1>3, <1>4, TaskStep

-----------------------------------------------------------------------------
(* The drive: a newer version leaves what the watchers saw an older one.   *)
LEMMA EditKeeps ==
  ASSUME WatchInv, NEW n \in Nodes, Edit(n) PROVE WatchInv'
<1>1. /\ ver' = [ver EXCEPT ![n] = @ + 1] /\ mtime' = [mtime EXCEPT ![n] = clock]
      /\ UNCHANGED <<clock, cursor, watcher, owner, chan, applied, reported, scanFaults, pollFaults>>
      /\ edits' = edits + 1
  BY DEF Edit, agentVars
<1>2. ver' \in [Nodes -> Nat] /\ \A m \in Nodes : ver[m] <= ver'[m]
  BY <1>1 DEF WatchInv, TypeOK
<1>3. TypeOK'
  <2>1. mtime' \in [Nodes -> 0 .. MaxTime]
    BY <1>1 DEF WatchInv, TypeOK
  <2> QED BY <1>1, <1>2, <2>1 DEF WatchInv, TypeOK
<1>4. VersionsTrue'
  BY <1>1, <1>2, <1>3 DEF WatchInv, TypeOK, VersionsTrue
<1>5. ASSUME NEW s \in Seq(Record), Seen(s, ver) PROVE Seen(s, ver')
  <2>1. ver \in [Nodes -> Nat]
    BY DEF WatchInv, TypeOK
  <2>2. ASSUME NEW k \in DOMAIN s PROVE s[k].ver <= ver'[s[k].node]
    <3>1. s[k].node \in Nodes /\ s[k].ver \in Nat /\ s[k].ver <= ver[s[k].node]
      BY <1>5, EntryFacts DEF Seen
    <3>2. ver[s[k].node] <= ver'[s[k].node] /\ ver[s[k].node] \in Nat /\ ver'[s[k].node] \in Nat
      BY <1>2, <2>1, <3>1
    <3> QED BY <3>1, <3>2
  <2> QED BY <2>2 DEF Seen
<1>6. \A i \in Ids : WatcherTrue(watcher[i], ver')
  <2> TAKE i \in Ids
  <2> QED BY <1>5, WatcherFacts DEF WatcherTrue
<1> QED BY <1>1, <1>3, <1>4, <1>6 DEF WatchInv, ChanTrue, OwnerAhead

LEMMA PassTimeKeeps ==
  ASSUME WatchInv, PassTime PROVE WatchInv'
<1>1. /\ clock < MaxTime /\ clock' = clock + 1
      /\ UNCHANGED <<ver, mtime, cursor, watcher, owner, chan, applied, reported, edits, scanFaults, pollFaults>>
  BY DEF PassTime, agentVars, boundVars
<1>2. TypeOK'
  BY <1>1, WatcherAssumption DEF WatchInv, TypeOK, WatcherAssumption
<1> QED BY <1>1, <1>2 DEF WatchInv, VersionsTrue, ChanTrue, OwnerAhead

-----------------------------------------------------------------------------
(* The agent stores the next of the channel, which is no older than what   *)
(* it has (propagation.rs:101).                                            *)
LEMMA TakeFacts ==
  ASSUME WatchInv, Take
  PROVE  /\ Head(chan) \in Record /\ 1 \in DOMAIN chan /\ Head(chan) = chan[1]
         /\ Head(chan).node \in Nodes /\ Head(chan).ver \in Nat
         /\ applied[Head(chan).node] <= Head(chan).ver
         /\ Head(chan).ver <= reported[Head(chan).node]
         /\ applied' = [applied EXCEPT ![Head(chan).node] = Head(chan).ver]
         /\ \A n \in Nodes : applied[n] <= applied'[n]
<1>1. /\ chan # <<>> /\ chan \in Seq(Record)
      /\ applied' = [applied EXCEPT ![Head(chan).node] = Head(chan).ver]
  BY DEF Take, WatchInv, TypeOK
<1>2. Head(chan) \in Record /\ 1 \in DOMAIN chan /\ Head(chan) = chan[1]
  BY <1>1, TailFacts
<1>3. /\ Head(chan).node \in Nodes /\ Head(chan).ver \in Nat
      /\ applied[Head(chan).node] <= Head(chan).ver
      /\ Head(chan).ver <= reported[Head(chan).node]
  BY <1>1, <1>2, EntryFacts DEF WatchInv, ChanTrue
<1>4. applied \in [Nodes -> Nat]
  BY DEF WatchInv, TypeOK
<1> QED BY <1>1, <1>2, <1>3, <1>4

LEMMA TakeKeeps ==
  ASSUME WatchInv, Take PROVE WatchInv'
<1> DEFINE e == Head(chan)
<1>1. /\ chan # <<>> /\ chan' = Tail(chan)
      /\ UNCHANGED <<ver, mtime, clock, cursor, watcher, owner, reported, edits, scanFaults, pollFaults>>
  BY DEF Take, driveVars, boundVars
<1>2. /\ e.node \in Nodes /\ e.ver \in Nat /\ e = chan[1] /\ 1 \in DOMAIN chan
      /\ e.ver <= reported[e.node] /\ applied' = [applied EXCEPT ![e.node] = e.ver]
  BY TakeFacts
<1>3. chan \in Seq(Record) /\ applied \in [Nodes -> Nat] /\ reported \in [Nodes -> Nat]
  BY DEF WatchInv, TypeOK
<1>4. /\ chan' \in Seq(Record) /\ DOMAIN chan' = 1 .. Len(chan) - 1
      /\ \A k \in DOMAIN chan' : k + 1 \in DOMAIN chan /\ chan'[k] = chan[k + 1]
  BY <1>1, <1>3, TailFacts
<1> HIDE DEF e
<1>5. applied' \in [Nodes -> Nat]
  BY <1>2, <1>3
<1>6. TypeOK'
  BY <1>1, <1>4, <1>5 DEF WatchInv, TypeOK
<1>7. VersionsTrue'
  BY <1>1, <1>2, <1>3 DEF WatchInv, VersionsTrue
<1>8. ChanTrue'
  <2>1. ASSUME NEW k \in DOMAIN chan'
        PROVE  applied'[chan'[k].node] <= chan'[k].ver /\ chan'[k].ver <= reported'[chan'[k].node]
    <3>1. /\ k + 1 \in DOMAIN chan /\ chan'[k] = chan[k + 1] /\ 1 < k + 1
          /\ chan[k + 1].node \in Nodes
      BY <1>3, <1>4, EntryFacts
    <3>2. /\ applied[chan[k + 1].node] <= chan[k + 1].ver
          /\ chan[k + 1].ver <= reported[chan[k + 1].node]
          /\ chan[1].node = chan[k + 1].node => chan[1].ver <= chan[k + 1].ver
      BY <1>2, <3>1 DEF WatchInv, ChanTrue
    <3> QED BY <1>1, <1>2, <1>3, <3>1, <3>2
  <2>2. ASSUME NEW k \in DOMAIN chan', NEW j \in DOMAIN chan', j < k, chan'[j].node = chan'[k].node
        PROVE  chan'[j].ver <= chan'[k].ver
    <3>1. j + 1 \in DOMAIN chan /\ k + 1 \in DOMAIN chan /\ j + 1 < k + 1
      BY <1>4, <2>2
    <3>2. chan[j + 1].node = chan[k + 1].node => chan[j + 1].ver <= chan[k + 1].ver
      BY <3>1 DEF WatchInv, ChanTrue
    <3> QED BY <1>4, <2>2, <3>2
  <2> QED BY <2>1, <2>2 DEF ChanTrue
<1> QED BY <1>1, <1>6, <1>7, <1>8 DEF WatchInv, OwnerAhead

(* A new agent has a new channel and a watcher that has seen nothing yet.  *)
LEMMA RestartKeeps ==
  ASSUME WatchInv, Restart PROVE WatchInv'
<1> DEFINE w == Task("start")
           i == owner + 1
<1>1. /\ owner <= MaxRestarts /\ owner' = i /\ chan' = <<>> /\ Become(i, w)
      /\ UNCHANGED <<ver, mtime, clock, cursor, applied, reported, edits, scanFaults, pollFaults>>
  BY DEF Restart, driveVars, boundVars
<1>2. i \in Ids
  BY <1>1, WatcherAssumption DEF Ids, WatchInv, TypeOK, WatcherAssumption
<1>3. w \in Watcher /\ WatcherTrue(w, ver) /\ w.out = <<>> /\ w.stack = <<>>
  BY TaskType, TaskTrue DEF Places
<1> HIDE DEF i, w
<1>4. /\ watcher' \in [Ids -> Watcher] /\ watcher'[i] = w
      /\ \A j \in Ids : WatcherTrue(watcher'[j], ver)
  BY <1>1, <1>2, <1>3, BecomeTrue
<1>5. TypeOK'
  BY <1>1, <1>2, <1>4 DEF WatchInv, TypeOK
<1>6. ChanTrue'
  BY <1>1 DEF ChanTrue
<1>7. OwnerAhead'
  BY <1>1, <1>3, <1>4 DEF OwnerAhead, Ahead
<1>8. VersionsTrue'
  BY <1>1 DEF WatchInv, VersionsTrue
<1> QED BY <1>1, <1>4, <1>5, <1>6, <1>7, <1>8 DEF WatchInv

-----------------------------------------------------------------------------
(* The first watcher starts, the others do not exist yet.                  *)
THEOREM InitWatch == Init => WatchInv
<1> SUFFICES ASSUME Init PROVE WatchInv
  OBVIOUS
<1>0. ASSUME NEW i \in Ids PROVE watcher[i] = Task("start") \/ watcher[i] = Task("off")
  BY DEF Init
<1>1. \A i \in Ids : /\ watcher[i] \in Watcher /\ WatcherTrue(watcher[i], ver)
                     /\ watcher[i].out = <<>> /\ watcher[i].stack = <<>>
  BY <1>0, TaskType, TaskTrue DEF Places
<1>2. watcher \in [Ids -> Watcher] /\ owner \in Ids
  <2>1. watcher = [i \in Ids |-> Task(IF i = 1 THEN "start" ELSE "off")] /\ owner = 1
    BY DEF Init
  <2>2. MaxRestarts \in Nat
    BY WatcherAssumption DEF WatcherAssumption
  <2>3. owner \in Ids
    BY <2>1, <2>2 DEF Ids
  <2>4. watcher = [i \in Ids |-> watcher[i]]
    BY <2>1
  <2>5. watcher \in [Ids -> Watcher]
    BY <1>1, <2>4
  <2> QED BY <2>3, <2>5
<1>3. ver \in [Nodes -> Nat] /\ mtime \in [Nodes -> 0 .. MaxTime] /\ clock \in 1 .. MaxTime /\ cursor \in 0 .. MaxTime
  BY WatcherAssumption DEF Init, WatcherAssumption
<1>4. TypeOK
  BY <1>2, <1>3 DEF Init, TypeOK
<1>5. VersionsTrue /\ ChanTrue
  BY <1>3 DEF Init, VersionsTrue, ChanTrue
<1>6. OwnerAhead
  BY <1>1, <1>2 DEF OwnerAhead, Ahead
<1> QED BY <1>1, <1>4, <1>5, <1>6 DEF WatchInv

LEMMA NextWatch == WatchInv /\ [Next]_vars => WatchInv'
<1> SUFFICES ASSUME WatchInv, [Next]_vars PROVE WatchInv'
  OBVIOUS
<1>1. ASSUME NEW n \in Nodes, Edit(n) PROVE WatchInv'
  BY <1>1, EditKeeps
<1>2. CASE PassTime
  BY <1>2, PassTimeKeeps
<1>3. ASSUME NEW i \in Ids, Run(i) PROVE WatchInv'
  <2>1. CASE StartScan(i) \/ ScanList(i) \/ ScanSkip(i)
    BY <2>1, StartScanKeeps, ScanListKeeps, ScanSkipKeeps
  <2>2. CASE ScanSend(i) \/ ScanDone(i)
    BY <2>2, ScanSendKeeps, ScanDoneKeeps
  <2>3. CASE StartPoll(i) \/ Walk(i) \/ PollFails(i)
    BY <2>3, StartPollKeeps, WalkKeeps, PollFailsKeeps
  <2>4. CASE WalkDone(i) \/ PollSend(i) \/ PollDone(i)
    BY <2>4, WalkDoneKeeps, PollSendKeeps, PollDoneKeeps
  <2> QED BY <1>3, <2>1, <2>2, <2>3, <2>4 DEF Run
<1>4. CASE Take
  BY <1>4, TakeKeeps
<1>5. CASE Restart
  BY <1>5, RestartKeeps
<1>6. CASE UNCHANGED vars
  <2>1. UNCHANGED <<ver, mtime, clock, cursor, watcher, owner, chan, applied, reported, edits, scanFaults, pollFaults>>
    BY <1>6 DEF vars, driveVars, agentVars, boundVars
  <2> QED BY <2>1 DEF WatchInv, TypeOK, VersionsTrue, ChanTrue, OwnerAhead
<1> QED BY <1>1, <1>2, <1>3, <1>4, <1>5, <1>6 DEF Next

(* The inductive invariant, in every reachable state.                      *)
THEOREM WatchInvariant == Spec => []WatchInv
BY InitWatch, NextWatch, PTL DEF Spec

(* Every variable keeps its type; the cursor never passes the clock's      *)
(* bound, whatever watcher stores it (remote.rs:46).                       *)
THEOREM WatcherTypes == Spec => []TypeOK
<1>1. WatchInv => TypeOK
  BY DEF WatchInv
<1> QED BY <1>1, WatchInvariant, PTL

(* No version of a node ever overwrites a newer one in the database, with  *)
(* old watchers at work and the drive changing under a walk (remote.rs:55, *)
(* propagation.rs:101).                                                    *)
THEOREM NeverOlderThanKnown == Spec => NeverOlder
<1>1. WatchInv /\ [Next]_vars => [\A n \in Nodes : applied'[n] >= applied[n]]_applied
  <2> SUFFICES ASSUME WatchInv, [Next]_vars, applied' # applied
               PROVE  \A n \in Nodes : applied'[n] >= applied[n]
    OBVIOUS
  <2>1. Take
    BY DEF Next, Run, Edit, PassTime, StartScan, ScanList, ScanSkip, ScanSend, ScanDone, StartPoll, Walk,
       PollFails, WalkDone, PollSend, PollDone, Restart, vars, agentVars
  <2>2. applied' \in [Nodes -> Nat] /\ applied \in [Nodes -> Nat]
    BY NextWatch DEF WatchInv, TypeOK
  <2> QED BY <2>1, <2>2, TakeFacts
<1> QED BY <1>1, WatchInvariant, PTL DEF Spec, NeverOlder
=============================================================================
