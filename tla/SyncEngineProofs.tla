-------------------------- MODULE SyncEngineProofs --------------------------
(***************************************************************************)
(* Proofs that the engine keeps TypeOK and RowsFaithful whatever the       *)
(* constants are, that excluded folders stay out of the mirror, that an    *)
(* upload never writes over a change of the same batch, and that nothing   *)
(* is forgotten on its way from the drive to the rows, nor from the local  *)
(* folder to the drive.                                                    *)
(***************************************************************************)
EXTENDS SyncEngineInvariant, SequenceTheorems, WellFoundedInduction, FiniteSetTheorems,
        FunctionTheorems, TLAPS

-----------------------------------------------------------------------------
(* Paths                                                                   *)

(* The first n elements of a sequence of names.                            *)
LEMMA TakeNames ==
  ASSUME NEW s \in Seq(Names), NEW n \in 0 .. Len(s)
  PROVE  /\ SubSeq(s, 1, n) \in Seq(Names)
         /\ Len(SubSeq(s, 1, n)) = n
         /\ \A i \in 1 .. n : SubSeq(s, 1, n)[i] = s[i]
<1>1. \A i \in 1 .. n : s[i] \in Names
  BY ElementOfSeq
<1>2. /\ SubSeq(s, 1, n) \in Seq(Names)
      /\ Len(SubSeq(s, 1, n)) = IF 1 <= n THEN n - 1 + 1 ELSE 0
      /\ \A i \in 1 .. n - 1 + 1 : SubSeq(s, 1, n)[i] = s[1 + i - 1]
  BY <1>1, SubSeqProperties, 1 \in Int, n \in Int
<1>3. n \in Nat /\ n - 1 + 1 = n /\ \A i \in 1 .. n : 1 + i - 1 = i
  OBVIOUS
<1> QED
  BY <1>2, <1>3

(* A path's parent is a path, and the path is its parent's with the name   *)
(* appended: parent() and leaf() of propagation.rs split without loss.     *)
LEMMA PathSplit ==
  ASSUME NEW rel \in Rels
  PROVE  /\ rel \in Seq(Names) /\ rel # <<>>
         /\ Len(rel) \in Nat \ {0}
         /\ ParentOf(rel) \in Seq(Names)
         /\ Len(ParentOf(rel)) = Len(rel) - 1
         /\ LeafOf(rel) \in Names
         /\ Append(ParentOf(rel), LeafOf(rel)) = rel
<1>1. rel \in Seq(Names) /\ rel # <<>>
  BY DEF Rels
<1>2. Len(rel) \in Nat \ {0}
  BY <1>1, EmptySeq
<1>3. /\ ParentOf(rel) \in Seq(Names)
      /\ Len(ParentOf(rel)) = Len(rel) - 1
      /\ \A i \in 1 .. Len(rel) - 1 : ParentOf(rel)[i] = rel[i]
  BY <1>1, <1>2, TakeNames, Len(rel) - 1 \in 0 .. Len(rel) DEF ParentOf
<1>4. LeafOf(rel) \in Names
  BY <1>1, <1>2, ElementOfSeq DEF LeafOf
<1>5. Append(ParentOf(rel), LeafOf(rel)) = rel
  <2> DEFINE t == Append(ParentOf(rel), LeafOf(rel))
  <2>1. t \in Seq(Names) /\ Len(t) = Len(rel)
    BY <1>2, <1>3, <1>4
  <2>2. \A i \in 1 .. Len(t) : t[i] = rel[i]
    BY <1>2, <1>3, <1>4, <2>1 DEF LeafOf
  <2> HIDE DEF t
  <2>3. t = rel
    BY <1>1, <2>1, <2>2, SeqEqual
  <2> QED
    BY <2>3 DEF t
<1> QED
  BY <1>1, <1>2, <1>3, <1>4, <1>5

(* Appending a name to a path and splitting it again.                      *)
LEMMA PathJoin ==
  ASSUME NEW p \in Seq(Names), NEW name \in Names
  PROVE  /\ Append(p, name) \in Rels
         /\ ParentOf(Append(p, name)) = p
         /\ LeafOf(Append(p, name)) = name
<1> DEFINE rel == Append(p, name)
<1>1. /\ rel \in Seq(Names) /\ Len(rel) = Len(p) + 1 /\ Len(p) \in Nat
      /\ rel[Len(rel)] = name
      /\ \A i \in 1 .. Len(p) : rel[i] = p[i]
  OBVIOUS
<1> HIDE DEF rel
<1>2. rel \in Rels
  BY <1>1, EmptySeq DEF Rels
<1>3. /\ ParentOf(rel) \in Seq(Names)
      /\ Len(ParentOf(rel)) = Len(p)
      /\ \A i \in 1 .. Len(p) : ParentOf(rel)[i] = rel[i]
  <2>1. Len(rel) - 1 = Len(p) /\ Len(p) \in 0 .. Len(rel)
    BY <1>1
  <2> QED
    BY <1>1, <2>1, TakeNames DEF ParentOf
<1>4. ParentOf(rel) = p
  BY <1>1, <1>3, SeqEqual
<1> QED
  BY <1>1, <1>2, <1>4 DEF LeafOf, rel

(* The segments of the walk of parent_link_for: the path of depth n is the *)
(* one of depth n - 1 with a name appended.                                *)
LEMMA Prefix ==
  ASSUME NEW rel \in Rels, NEW n \in 1 .. Len(rel)
  PROVE  /\ SubSeq(rel, 1, n) \in Rels
         /\ ParentOf(SubSeq(rel, 1, n)) = SubSeq(rel, 1, n - 1)
<1> DEFINE s == SubSeq(rel, 1, n)
           t == SubSeq(rel, 1, n - 1)
<1>1. rel \in Seq(Names) /\ Len(rel) \in Nat \ {0}
  BY PathSplit
<1>2. s \in Seq(Names) /\ Len(s) = n /\ \A i \in 1 .. n : s[i] = rel[i]
  BY <1>1, TakeNames
<1>3. t \in Seq(Names) /\ Len(t) = n - 1 /\ \A i \in 1 .. n - 1 : t[i] = rel[i]
  BY <1>1, TakeNames, n - 1 \in 0 .. Len(rel)
<1> HIDE DEF s, t
<1>4. s \in Rels
  BY <1>1, <1>2, EmptySeq DEF Rels
<1>5. /\ ParentOf(s) \in Seq(Names) /\ Len(ParentOf(s)) = n - 1
      /\ \A i \in 1 .. n - 1 : ParentOf(s)[i] = s[i]
  BY <1>1, <1>2, TakeNames, n - 1 \in 0 .. n DEF ParentOf
<1>6. \A i \in 1 .. n - 1 : ParentOf(s)[i] = t[i]
  BY <1>2, <1>3, <1>5, \A i \in 1 .. n - 1 : i \in 1 .. n
<1>7. ParentOf(s) = t
  BY <1>1, <1>3, <1>5, <1>6, SeqEqual
<1> QED
  BY <1>4, <1>7 DEF s, t

-----------------------------------------------------------------------------
(* Operations                                                              *)

(* Local observations become uploads of watched paths and never rows.      *)
LEMMA LocalOpType ==
  ASSUME NEW c \in LocalChange
  PROVE  /\ LocalOp(c) \in Operation
         /\ ~IsPlaceholder(LocalOp(c))
         /\ IsUpload(LocalOp(c)) => LocalOp(c).rel \in LocalRels
<1>1. LocalRels \subseteq Rels
  BY NamesAssumption
<1>2. CASE c.kind = "Removed"
  <2>1. c.rel \in Rels /\ LocalOp(c) = [op |-> "DeleteRemote", rel |-> c.rel]
    BY <1>1, <1>2 DEF LocalChange, LocalOp
  <2> QED BY <2>1 DEF Operation, IsPlaceholder, IsUpload
<1>3. CASE c.kind # "Removed"
  <2>1. c.rel \in LocalRels /\ c.rel \in Rels /\ c.folder \in BOOLEAN
    BY <1>1, <1>3 DEF LocalChange
  <2>2. CASE c.folder
    <3>1. LocalOp(c) = [op |-> "CreateRemoteDir", rel |-> c.rel]
      BY <1>3, <2>2 DEF LocalOp
    <3> QED BY <2>1, <3>1 DEF Operation, IsPlaceholder, IsUpload
  <2>3. CASE ~c.folder
    <3>1. LocalOp(c) = [op |-> "UploadNew", rel |-> c.rel, path |-> c.rel]
      BY <1>3, <2>3 DEF LocalOp
    <3> QED BY <2>1, <3>1 DEF Operation, IsPlaceholder, IsUpload
  <2> QED BY <2>2, <2>3
<1> QED BY <1>2, <1>3

(* Remote observations become rows that say what was observed.             *)
LEMMA RemoteOpType ==
  ASSUME NEW e \in RemoteChange
  PROVE  /\ RemoteOp(e) \in Operation
         /\ ~IsUpload(RemoteOp(e))
         /\ IsPlaceholder(RemoteOp(e)) =>
              /\ RemoteOp(e).rel = e.rel /\ RemoteOp(e).link = e.link
              /\ RemoteOp(e).parent = e.parent /\ RemoteOp(e).rev = e.rev
              /\ (RemoteOp(e).op = "CreateLocalDir") = e.folder
<1>1. /\ e.rel \in Rels /\ e.link \in Links /\ e.parent \in Links
      /\ e.folder \in BOOLEAN /\ e.rev \in Nat
  BY DEF RemoteChange
<1>2. CASE IsExcluded(e.rel)
  BY <1>2 DEF RemoteOp, Operation, Skip, IsUpload, IsPlaceholder
<1>3. CASE ~IsExcluded(e.rel)
  <2> DEFINE name == IF e.folder THEN "CreateLocalDir" ELSE "DownloadNew"
  <2>1. RemoteOp(e) = [op |-> name, rel |-> e.rel, link |-> e.link,
                       parent |-> e.parent, rev |-> e.rev]
    BY <1>3 DEF RemoteOp
  <2>2. /\ name \in {"DownloadNew", "CreateLocalDir"}
        /\ (name = "CreateLocalDir") = e.folder
    BY <1>1
  <2> HIDE DEF name
  <2> QED BY <1>1, <2>1, <2>2 DEF Operation, IsUpload
<1> QED BY <1>2, <1>3

(* reconcile() makes one operation of each observation, in order.          *)
LEMMA ReconcileType ==
  ASSUME NEW local \in Seq(LocalChange), NEW remote \in Seq(RemoteChange)
  PROVE  LET R == Reconcile(local, remote)
         IN  /\ R \in Seq(Operation)
             /\ \A i \in DOMAIN R :
                  /\ IsUpload(R[i]) => R[i].rel \in LocalRels
                  /\ IsPlaceholder(R[i]) =>
                       \E j \in DOMAIN remote : R[i] = RemoteOp(remote[j])
<1> DEFINE L == [i \in 1 .. Len(local) |-> LocalOp(local[i])]
           M == [i \in 1 .. Len(remote) |-> RemoteOp(remote[i])]
           R == L \o M
<1>1. /\ Len(local) \in Nat /\ Len(remote) \in Nat
      /\ DOMAIN remote = 1 .. Len(remote)
  BY LenProperties
<1>2. L \in Seq(Operation) /\ Len(L) = Len(local)
  <2>1. \A i \in 1 .. Len(local) : LocalOp(local[i]) \in Operation
    BY ElementOfSeq, LocalOpType
  <2> QED BY <1>1, <2>1
<1>3. M \in Seq(Operation) /\ Len(M) = Len(remote)
  <2>1. \A i \in 1 .. Len(remote) : RemoteOp(remote[i]) \in Operation
    BY ElementOfSeq, RemoteOpType
  <2> QED BY <1>1, <2>1
<1>4. R \in Seq(Operation) /\ DOMAIN R = 1 .. Len(local) + Len(remote)
  <2> HIDE DEF L, M
  <2>1. /\ L \o M \in Seq(Operation)
        /\ Len(L \o M) = Len(L) + Len(M)
    BY <1>2, <1>3, ConcatProperties
  <2>2. R \in Seq(Operation) /\ Len(R) = Len(local) + Len(remote)
    BY <1>2, <1>3, <2>1
  <2> HIDE DEF R
  <2> QED BY <2>2, LenProperties
<1>5. ASSUME NEW i \in DOMAIN R
      PROVE  /\ IsUpload(R[i]) => R[i].rel \in LocalRels
             /\ IsPlaceholder(R[i]) =>
                  \E j \in DOMAIN remote : R[i] = RemoteOp(remote[j])
  <2>1. CASE i <= Len(local)
    <3>1. i \in 1 .. Len(local)
      BY <1>1, <1>4, <1>5, <2>1
    <3>2. R[i] = L[i]
      <4> HIDE DEF L, M
      <4> QED BY <1>1, <1>2, <1>3, <3>1
    <3>3. R[i] = LocalOp(local[i])
      BY <3>1, <3>2
    <3>4. local[i] \in LocalChange
      BY <3>1, ElementOfSeq
    <3> HIDE DEF R
    <3> QED BY <3>3, <3>4, LocalOpType
  <2>2. CASE i > Len(local)
    <3>1. i - Len(local) \in 1 .. Len(remote)
      BY <1>1, <1>4, <1>5, <2>2
    <3>2. R[i] = M[i - Len(local)]
      <4> HIDE DEF L, M
      <4> QED BY <1>1, <1>2, <1>3, <1>4, <2>2
    <3>3. R[i] = RemoteOp(remote[i - Len(local)])
      BY <3>1, <3>2
    <3>4. remote[i - Len(local)] \in RemoteChange
      BY <3>1, ElementOfSeq
    <3> HIDE DEF R
    <3> QED BY <1>1, <3>1, <3>3, <3>4, RemoteOpType
  <2> QED BY <1>1, <1>4, <2>1, <2>2
<1>6. R = Reconcile(local, remote)
  BY DEF Reconcile
<1> HIDE DEF R
<1> QED BY <1>4, <1>5, <1>6

(* resolve() adds no row and changes none.                                 *)
LEMMA ResolveType ==
  ASSUME NEW R \in Seq(Operation), NEW s \in Nat,
         \A i \in DOMAIN R : IsUpload(R[i]) => R[i].rel \in LocalRels,
         Renamed(R) # {} => s \in Stamps,
         NEW batch \in Resolve(R, s)
  PROVE  /\ batch \in Seq(Operation)
         /\ \A i \in DOMAIN batch :
              IsPlaceholder(batch[i]) => \E j \in DOMAIN R : batch[i] = R[j]
<1> DEFINE Resolved(i) == IF i \in Renamed(R) THEN KeepBoth(R[i], s) ELSE R[i]
<1>1. PICK perm \in Injection(DOMAIN R, DOMAIN R) :
        batch = [i \in DOMAIN R |-> Resolved(perm[i])]
  BY DEF Resolve
<1>2. perm \in [DOMAIN R -> DOMAIN R]
  BY DEF Injection
<1>3. ASSUME NEW i \in DOMAIN R
      PROVE  /\ Resolved(i) \in Operation
             /\ IsPlaceholder(Resolved(i)) => Resolved(i) = R[i]
  <2>1. R[i] \in Operation
    BY LenProperties, ElementOfSeq
  <2>2. CASE i \in Renamed(R)
    <3>1. IsUpload(R[i]) /\ R[i].rel \in LocalRels /\ s \in Stamps
      BY <2>2 DEF Renamed
    <3>2. R[i] \in [op : {"UploadNew"}, rel : Rels, path : LocalRels]
      BY <2>1, <3>1 DEF Operation, IsUpload, Skip
    <3>3. CopyRel(R[i].rel, s) \in Rels
      BY <3>1, NamesAssumption, PathSplit, PathJoin DEF CopyRel
    <3>4. /\ KeepBoth(R[i], s) \in [op : {"UploadNew"}, rel : Rels, path : LocalRels]
          /\ KeepBoth(R[i], s).op = "UploadNew"
      BY <3>2, <3>3 DEF KeepBoth
    <3> QED BY <2>2, <3>4 DEF Operation, IsPlaceholder
  <2>3. CASE i \notin Renamed(R)
    BY <2>1, <2>3
  <2> QED BY <2>2, <2>3
<1> HIDE DEF Resolved
<1>4. DOMAIN R = 1 .. Len(R) /\ Len(R) \in Nat
  BY LenProperties
<1>5. batch \in Seq(Operation) /\ DOMAIN batch = DOMAIN R
  BY <1>1, <1>2, <1>3, <1>4, SMTT(30)
<1> QED BY <1>1, <1>2, <1>3, <1>5

-----------------------------------------------------------------------------
(* The drive                                                               *)

(* No step forgets a node or a place it has had, or moves a folder.        *)
Stable ==
  \A l \in DOMAIN drive :
    /\ l \in DOMAIN drive'
    /\ drive[l].was \subseteq drive'[l].was
    /\ drive'[l].folder = drive[l].folder
    /\ drive[l].folder => drive'[l].rel = drive[l].rel

(* The node of link l after a step.                                        *)
WillBeNode(l, rel, parent, folder) ==
  /\ l \in DOMAIN drive'
  /\ [rel |-> rel, parent |-> parent] \in drive'[l].was
  /\ drive'[l].folder = folder

(* What stands at path rel after a step.                                   *)
WillStandAt(p, rel) ==
  /\ p = Root \/ p \in DOMAIN drive'
  /\ p = Root \/ (p \in DOMAIN drive' /\ drive'[p].folder)
       => rel = IF p = Root THEN <<>> ELSE drive'[p].rel

(* What a step that touches the drive leaves in order.                     *)
DriveKept ==
  /\ drive' \in Seq(Node)
  /\ unseen' \subseteq DOMAIN drive'
  /\ Stable
  /\ TreeFaithful'

(* A node of the drive is a record of the type Node.                       *)
LEMMA DriveType ==
  ASSUME TypeOK
  PROVE  /\ Len(drive) \in Nat /\ DOMAIN drive = 1 .. Len(drive)
         /\ \A l \in DOMAIN drive : drive[l] \in Node /\ l \in Nat /\ l # Root
         /\ \A p : IsParent(p) => p \in Links /\ RelOf(p) \in Seq(Names)
<1>1. drive \in Seq(Node)
  BY DEF TypeOK
<1>2. /\ Len(drive) \in Nat /\ DOMAIN drive = 1 .. Len(drive)
      /\ \A l \in DOMAIN drive : drive[l] \in Node /\ l \in Nat /\ l # Root
  BY <1>1, LenProperties, ElementOfSeq DEF Root
<1>3. ASSUME NEW p, IsParent(p)
      PROVE  p \in Links /\ RelOf(p) \in Seq(Names)
  <2>1. CASE p = Root
    BY <2>1 DEF Root, Links, RelOf
  <2>2. CASE p \in DOMAIN drive /\ p # Root
    BY <1>2, <2>2 DEF Links, RelOf, Node, Rels
  <2> QED BY <1>3, <2>1, <2>2 DEF IsParent
<1> QED BY <1>2, <1>3

(* What TreeFaithful says of one node.                                     *)
WellPlaced(l) ==
  /\ IsDir(drive[l].parent)
  /\ RelOf(drive[l].parent) = ParentOf(drive[l].rel)
  /\ [rel |-> drive[l].rel, parent |-> drive[l].parent] \in drive[l].was
  /\ drive[l].folder => \A w \in drive[l].was : w.rel = drive[l].rel

(* A folder stays a folder, at the same path.                              *)
LEMMA DirsLast ==
  ASSUME Stable, NEW p, IsDir(p)
  PROVE  /\ p = Root \/ (p \in DOMAIN drive' /\ drive'[p].folder)
         /\ RelOf(p) = IF p = Root THEN <<>> ELSE drive'[p].rel
BY DEF Stable, IsDir, RelOf

(* Creating a node puts it where its path says.                            *)
LEMMA CreateEffect ==
  ASSUME TypeOK, TreeFaithful,
         NEW p, IsDir(p), NEW name \in Names, NEW folder \in BOOLEAN,
         NEW rev \in Nat,
         Create(p, name, folder, rev)
  PROVE  /\ DriveKept
         /\ WillBeNode(FreshLink, Append(RelOf(p), name), p, folder)
<1> DEFINE rel  == Append(RelOf(p), name)
           node == [parent |-> p, rel |-> rel, folder |-> folder,
                    rev |-> rev, revs |-> {rev},
                    was |-> {[rel |-> rel, parent |-> p]},
                    alive |-> TRUE]
<1>1. /\ Len(drive) \in Nat /\ DOMAIN drive = 1 .. Len(drive)
      /\ p \in Links /\ RelOf(p) \in Seq(Names)
      /\ \A l \in DOMAIN drive : drive[l] \in Node /\ l # Root
  BY DriveType DEF IsDir, IsParent
<1>2. rel \in Rels /\ ParentOf(rel) = RelOf(p)
  BY <1>1, PathJoin
<1>3. node \in Node
  <2> HIDE DEF rel
  <2> QED BY <1>1, <1>2 DEF Node
<1>4. /\ node.rel = rel /\ node.parent = p /\ node.folder = folder
      /\ node.was = {[rel |-> rel, parent |-> p]}
  OBVIOUS
<1>5. drive' = Append(drive, node)
  BY DEF Create
<1> HIDE DEF node, rel
<1>6. /\ drive' \in Seq(Node)
      /\ DOMAIN drive' = 1 .. Len(drive) + 1
      /\ \A l \in DOMAIN drive : drive'[l] = drive[l]
      /\ drive'[Len(drive) + 1] = node
  BY <1>1, <1>3, <1>5 DEF TypeOK
<1>7. Stable
  BY <1>1, <1>6 DEF Stable
<1>8. unseen' \subseteq DOMAIN drive'
  BY <1>1, <1>6 DEF Create, TypeOK, FreshLink
<1>9. \A l \in DOMAIN drive' : drive'[l] = IF l \in DOMAIN drive THEN drive[l] ELSE node
  BY <1>1, <1>6
<1>10. TreeFaithful'
  <2> SUFFICES ASSUME NEW l \in DOMAIN drive' PROVE WellPlaced(l)'
    BY DEF TreeFaithful, WellPlaced
  <2>1. CASE l \in DOMAIN drive
    <3>1. drive'[l] = drive[l] /\ WellPlaced(l)
      BY <1>6, <2>1 DEF TreeFaithful, WellPlaced
    <3> QED BY <1>7, <3>1, DirsLast DEF WellPlaced, IsDir, RelOf
  <2>2. CASE l \notin DOMAIN drive
    <3>1. drive'[l] = node
      BY <1>9, <2>2
    <3>2. /\ p = Root \/ (p \in DOMAIN drive' /\ drive'[p].folder)
          /\ RelOf(p) = IF p = Root THEN <<>> ELSE drive'[p].rel
      BY <1>7, DirsLast
    <3> QED BY <1>2, <1>4, <3>1, <3>2 DEF WellPlaced, IsDir, RelOf
  <2> QED BY <2>1, <2>2
<1>11. WillBeNode(FreshLink, rel, p, folder)
  BY <1>1, <1>4, <1>6 DEF WillBeNode, FreshLink
<1> QED BY <1>6, <1>7, <1>8, <1>10, <1>11 DEF DriveKept, rel

(* A new revision leaves a node what and where it is.                      *)
LEMMA ReviseEffect ==
  ASSUME TypeOK, TreeFaithful,
         NEW l \in DOMAIN drive, NEW rev \in Nat,
         Revise(l, rev)
  PROVE  DriveKept
<1>1. drive \in Seq(Node) /\ DOMAIN drive = 1 .. Len(drive)
  BY DriveType DEF TypeOK
<1> DEFINE node == [drive[l] EXCEPT !.rev = rev, !.revs = @ \cup {rev}]
<1>2. /\ node \in Node
      /\ node.rel = drive[l].rel /\ node.parent = drive[l].parent
      /\ node.folder = drive[l].folder /\ node.was = drive[l].was
  BY DriveType DEF Node
<1>3. drive' = [drive EXCEPT ![l] = node]
  BY DEF Revise
<1> HIDE DEF node
<1>4. /\ drive' \in Seq(Node) /\ DOMAIN drive' = DOMAIN drive
      /\ \A m \in DOMAIN drive : drive'[m] = IF m = l THEN node ELSE drive[m]
  BY <1>1, <1>2, <1>3, ExceptSeq, LenProperties
<1>5. Stable
  BY <1>2, <1>4 DEF Stable
<1>6. TreeFaithful'
  <2> SUFFICES ASSUME NEW m \in DOMAIN drive' PROVE WellPlaced(m)'
    BY DEF TreeFaithful, WellPlaced
  <2>1. /\ WellPlaced(m)
        /\ drive'[m].rel = drive[m].rel /\ drive'[m].parent = drive[m].parent
        /\ drive'[m].was = drive[m].was /\ drive'[m].folder = drive[m].folder
    BY <1>2, <1>4 DEF TreeFaithful, WellPlaced
  <2> QED BY <1>5, <2>1, DirsLast DEF WellPlaced, IsDir, RelOf
<1>7. unseen' \subseteq DOMAIN drive'
  BY <1>4 DEF Revise, TypeOK
<1> QED BY <1>4, <1>5, <1>6, <1>7 DEF DriveKept

(* Whatever an upload does on the server, the link it returns is the file  *)
(* of that name in that folder.                                            *)
LEMMA StoreFileEffect ==
  ASSUME TypeOK, TreeFaithful,
         NEW p, IsParent(p), NEW name \in Names,
         NEW rev \in Nat, NEW link,
         StoreFile(p, name, rev, link)
  PROVE  /\ DriveKept
         /\ WillBeNode(link, Append(RelOf(p), name), p, FALSE)
<1> IsDir(p)
  BY DEF StoreFile, CanUpload, IsFolder, IsDir
<1>1. CASE link = FreshLink /\ Create(p, name, FALSE, rev)
  BY <1>1, CreateEffect
<1>2. CASE link \in Children(p, name) /\ Revise(link, rev)
  <2>1. /\ link \in DOMAIN drive /\ drive[link].parent = p
        /\ LeafOf(drive[link].rel) = name /\ ~drive[link].folder
    BY <1>2 DEF Children, StoreFile, CanUpload
  <2>2. DriveKept
    BY <1>2, <2>1, ReviseEffect
  <2>3. drive[link].rel \in Rels /\ drive[link].folder \in BOOLEAN
    BY <2>1, DriveType DEF Node
  <2>4. drive[link].rel = Append(RelOf(p), name)
    BY <2>1, <2>3, PathSplit DEF TreeFaithful
  <2>5. /\ drive[link].folder = FALSE
        /\ [rel |-> drive[link].rel, parent |-> p] \in drive[link].was
    BY <2>1, <2>3 DEF TreeFaithful
  <2> QED BY <2>1, <2>2, <2>4, <2>5 DEF DriveKept, Stable, WillBeNode
<1> QED BY <1>1, <1>2 DEF StoreFile

(* The same for the creation of a folder.                                  *)
LEMMA StoreFolderEffect ==
  ASSUME TypeOK, TreeFaithful,
         NEW p, IsParent(p), NEW name \in Names,
         NEW link,
         StoreFolder(p, name, link)
  PROVE  /\ DriveKept
         /\ WillBeNode(link, Append(RelOf(p), name), p, TRUE)
BY CreateEffect DEF StoreFolder, CanCreateFolder, IsFolder, IsDir

(* Steps that do not touch the drive.                                      *)
LEMMA NoEffect ==
  ASSUME TypeOK, TreeFaithful, drive' = drive, unseen' \subseteq unseen
  PROVE  DriveKept
<1>1. TreeFaithful'
  BY DEF TreeFaithful, IsDir, RelOf
<1> QED BY <1>1 DEF DriveKept, Stable, TypeOK

(* A renamed file is added to the places it has had.                       *)
LEMMA RenameEffect ==
  ASSUME TypeOK, TreeFaithful, NEW l \in DOMAIN drive,
         NEW p \in {Root} \cup DOMAIN drive, NEW rel \in Rels,
         RemoteRename(l, p, rel)
  PROVE  DriveKept
<1> DEFINE place == [rel |-> rel, parent |-> p]
           node  == [drive[l] EXCEPT !.rel = rel, !.parent = p,
                                     !.was = @ \cup {place}]
<1>1. drive \in Seq(Node) /\ DOMAIN drive = 1 .. Len(drive)
  BY DriveType DEF TypeOK
<1>2. /\ drive[l] \in Node /\ p \in Links /\ IsDir(p)
      /\ RelOf(p) = ParentOf(rel) /\ ~drive[l].folder
  BY DriveType DEF RemoteRename, Links, Root, IsFolder, IsDir
<1>3. place \in [rel : Rels, parent : Links]
  BY <1>2
<1>4. /\ node \in Node /\ node.rel = rel /\ node.parent = p
      /\ node.folder = drive[l].folder
      /\ node.was = drive[l].was \cup {place}
  <2> HIDE DEF place
  <2> QED BY <1>2, <1>3 DEF Node
<1>5. drive' = [drive EXCEPT ![l] = node]
  BY DEF RemoteRename
<1> HIDE DEF node
<1>6. /\ drive' \in Seq(Node) /\ DOMAIN drive' = DOMAIN drive
      /\ \A m \in DOMAIN drive : drive'[m] = IF m = l THEN node ELSE drive[m]
  BY <1>1, <1>4, <1>5, ExceptSeq, LenProperties
<1>7. Stable
  BY <1>2, <1>4, <1>6 DEF Stable
<1>8. TreeFaithful'
  <2> SUFFICES ASSUME NEW m \in DOMAIN drive' PROVE WellPlaced(m)'
    BY DEF TreeFaithful, WellPlaced
  <2>1. CASE m = l
    <3>1. /\ p = Root \/ (p \in DOMAIN drive' /\ drive'[p].folder)
          /\ RelOf(p) = IF p = Root THEN <<>> ELSE drive'[p].rel
      BY <1>2, <1>7, DirsLast
    <3> QED BY <1>2, <1>4, <1>6, <2>1, <3>1 DEF WellPlaced, IsDir, RelOf
  <2>2. CASE m # l
    <3>1. drive'[m] = drive[m] /\ WellPlaced(m)
      BY <1>6, <2>2 DEF TreeFaithful, WellPlaced
    <3> QED BY <1>7, <3>1, DirsLast DEF WellPlaced, IsDir, RelOf
  <2> QED BY <2>1, <2>2
<1>9. unseen' \subseteq DOMAIN drive'
  BY <1>6 DEF RemoteRename, TypeOK
<1> QED BY <1>6, <1>7, <1>8, <1>9 DEF DriveKept

(* A trash marks nodes dead.                                               *)
LEMMA TrashEffect ==
  ASSUME TypeOK, TreeFaithful, NEW l \in DOMAIN drive, RemoteTrash(l)
  PROVE  DriveKept
<1> DEFINE Node2(m) == [drive[m] EXCEPT !.alive = @ /\ m \notin Below(l)]
<1>1. DOMAIN drive = 1 .. Len(drive) /\ Len(drive) \in Nat
  BY DriveType
<1>2. \A m \in DOMAIN drive :
        /\ Node2(m) \in Node
        /\ Node2(m).rel = drive[m].rel /\ Node2(m).parent = drive[m].parent
        /\ Node2(m).folder = drive[m].folder /\ Node2(m).was = drive[m].was
  BY DriveType DEF Node
<1>3. drive' = [m \in DOMAIN drive |-> Node2(m)]
  BY DEF RemoteTrash
<1> HIDE DEF Node2
<1>4. drive' \in Seq(Node) /\ DOMAIN drive' = DOMAIN drive
  BY <1>1, <1>2, <1>3
<1>5. Stable
  BY <1>2, <1>3, <1>4 DEF Stable
<1>6. TreeFaithful'
  <2> SUFFICES ASSUME NEW m \in DOMAIN drive' PROVE WellPlaced(m)'
    BY DEF TreeFaithful, WellPlaced
  <2>1. /\ WellPlaced(m)
        /\ drive'[m].rel = drive[m].rel /\ drive'[m].parent = drive[m].parent
        /\ drive'[m].was = drive[m].was /\ drive'[m].folder = drive[m].folder
    BY <1>2, <1>3, <1>4 DEF TreeFaithful, WellPlaced
  <2> QED BY <1>5, <2>1, DirsLast DEF WellPlaced, IsDir, RelOf
<1>7. unseen' \subseteq DOMAIN drive'
  BY <1>4 DEF RemoteTrash, TypeOK
<1> QED BY <1>4, <1>5, <1>6, <1>7 DEF DriveKept

(* Facts about nodes outlive a step.                                       *)
LEMMA NodesLast ==
  ASSUME DriveKept, NEW l, NEW rel, NEW parent, NEW folder,
         IsNode(l, rel, parent, folder)
  PROVE  WillBeNode(l, rel, parent, folder)
BY DEF DriveKept, Stable, IsNode, WillBeNode

(* What stands at a path stays there.                                      *)
LEMMA StandsLast ==
  ASSUME DriveKept, NEW p, NEW rel, StandsAt(p, rel)
  PROVE  WillStandAt(p, rel)
BY DEF DriveKept, Stable, StandsAt, WillStandAt, IsParent, IsDir, RelOf

(* A folder's row says where the folder is.                                *)
LEMMA NodeStands ==
  ASSUME TypeOK, TreeFaithful, NEW l, NEW rel, NEW parent, NEW folder,
         IsNode(l, rel, parent, folder)
  PROVE  StandsAt(l, rel)
<1>1. l \in DOMAIN drive /\ l # Root
  BY DriveType DEF IsNode
<1>2. drive[l].folder => drive[l].rel = rel
  BY <1>1 DEF IsNode, TreeFaithful
<1> QED BY <1>1, <1>2 DEF StandsAt, IsParent, IsDir, RelOf

-----------------------------------------------------------------------------
(* What an action leaves alone stays faithful                              *)

(* True rows stay true.                                                    *)
LEMMA RowsKept ==
  ASSUME Inv, DriveKept, rows' = rows
  PROVE  RowsFaithful'
<1>1. ASSUME NEW rel \in DOMAIN rows
      PROVE  WillBeNode(rows[rel].link, rel, rows[rel].parent, rows[rel].folder)
  BY NodesLast DEF Inv, RowsFaithful
<1> QED BY <1>1 DEF RowsFaithful, IsNode, WillBeNode

(* True reports stay true.                                                 *)
LEMMA ReportsKept ==
  ASSUME Inv, DriveKept, remoteRx' = remoteRx, buf' = buf
  PROVE  ReportsFaithful'
<1>1. ASSUME NEW e, IsReport(e)
      PROVE  WillBeNode(e.link, e.rel, e.parent, e.folder)
  BY <1>1, NodesLast DEF IsReport
<1> QED BY <1>1 DEF Inv, ReportsFaithful, IsReport, IsNode, WillBeNode

(* An agent that is not amid an operation remembers nothing.               *)
LEMMA StepForgotten ==
  ASSUME step'.at \in {"select", "op", "down"}
  PROVE  StepFaithful'
BY DEF StepFaithful, At

(* What the operation in progress remembers stays true.                    *)
LEMMA StepKept ==
  ASSUME Inv, DriveKept, step' = step, ops' = ops
  PROVE  StepFaithful'
<1>1. CASE step.at \notin {"walk", "walked", "send", "record"}
  BY <1>1 DEF StepFaithful, At
<1>2. CASE step.at \in {"walk", "walked", "send", "record"}
  <2>1. \A rel : StandsAt(step.into, rel) => StandsAt(step.into, rel)'
    BY StandsLast DEF WillStandAt, StandsAt, IsParent, IsDir, RelOf
  <2>2. At("walked") => IsNode(step.link, Segment, step.into, TRUE)'
    <3> SUFFICES ASSUME At("walked")
                 PROVE  WillBeNode(step.link, Segment, step.into, TRUE)
      BY DEF IsNode, WillBeNode, Segment
    <3> QED BY NodesLast DEF Inv, StepFaithful
  <2> DEFINE folder == Head(ops).op = "CreateRemoteDir"
  <2>3. At("record") => IsNode(step.link, Head(ops).rel, step.into, folder)'
    <3> SUFFICES ASSUME At("record")
                 PROVE  WillBeNode(step.link, Head(ops).rel, step.into, folder)
      BY DEF IsNode, WillBeNode
    <3> QED BY NodesLast DEF Inv, StepFaithful
  <2> QED BY <1>2, <2>1, <2>2, <2>3 DEF Inv, StepFaithful, At
<1> QED BY <1>1, <1>2

(* The links a cycle downloads stay links of the drive.                    *)
LEMMA FetchedKept ==
  ASSUME Inv, DriveKept, fetched' = fetched
  PROVE  fetched' \in SUBSET [link : DOMAIN drive', rel : Rels]
BY DEF Inv, TypeOK, DriveKept, Stable

(* A step that leaves the agent alone, and forgets nothing of the drive,   *)
(* keeps Inv once the types are known.                                     *)
LEMMA Kept ==
  ASSUME Inv, DriveKept, rows' = rows, remoteRx' = remoteRx, buf' = buf,
         step' = step, ops' = ops, TypeOK'
  PROVE  Inv'
BY RowsKept, ReportsKept, StepKept DEF Inv, DriveKept

-----------------------------------------------------------------------------
(* Users                                                                   *)

(* Local programs: only disk and the inotify queue change.                 *)
LEMMA LocalUserStep ==
  ASSUME Inv, NEW rel \in LocalRels,
         LocalWrite(rel) \/ LocalMkdir(rel) \/ LocalRemove(rel)
  PROVE  Inv'
<1>1. /\ UNCHANGED <<drive, unseen, localRx, remoteRx, agentVars, faults, restarts>>
      /\ edits' = edits + 1
  BY DEF LocalWrite, LocalMkdir, LocalRemove, UserMay
<1>2. UNCHANGED <<buf, ops, step, stamp, rows, status, fetched>>
  BY <1>1 DEF agentVars
<1>3. DriveKept
  BY <1>1, NoEffect DEF Inv
<1>4. edits \in Nat /\ edits' \in Nat
  BY <1>1 DEF Inv, TypeOK
<1>5. /\ DOMAIN disk' \subseteq LocalRels
      /\ \A r \in DOMAIN disk' : disk'[r] \in Entry
  <2>1. /\ DOMAIN disk \subseteq LocalRels
        /\ \A r \in DOMAIN disk : disk[r] \in Entry
    BY DEF Inv, TypeOK
  <2>2. CASE LocalWrite(rel)
    BY <1>4, <2>1, <2>2 DEF LocalWrite, Put, Entry, NewRev
  <2>3. CASE LocalMkdir(rel)
    BY <2>1, <2>3 DEF LocalMkdir, Put, Entry
  <2>4. CASE LocalRemove(rel)
    BY <2>1, <2>4 DEF LocalRemove, Drop
  <2> QED BY <2>2, <2>3, <2>4
<1>6. fsEvents' \in Seq([rel : LocalRels, gone : BOOLEAN])
  <2>1. ASSUME NEW gone \in BOOLEAN, Notify(rel, gone)
        PROVE  fsEvents' \in Seq([rel : LocalRels, gone : BOOLEAN])
    <3> DEFINE Event == [rel : LocalRels, gone : BOOLEAN]
               e     == [rel |-> rel, gone |-> gone]
    <3>1. e \in Event /\ fsEvents \in Seq(Event)
      BY <2>1 DEF Inv, TypeOK
    <3>2. fsEvents' = fsEvents \/ fsEvents' = Append(fsEvents, e)
      BY <2>1 DEF Notify
    <3> HIDE DEF Event, e
    <3>3. fsEvents' \in Seq(Event)
      BY <3>1, <3>2
    <3> QED BY <3>3 DEF Event
  <2> QED BY <2>1 DEF LocalWrite, LocalMkdir, LocalRemove
<1>7. TypeOK'
  BY <1>1, <1>2, <1>4, <1>5, <1>6 DEF Inv, TypeOK
<1> QED BY <1>1, <1>2, <1>3, <1>7, Kept

(* Other clients: nodes are added, revised, renamed or die.                *)
LEMMA RemoteUserStep ==
  ASSUME Inv,
         \/ \E rel \in RemoteRels, p \in {Root} \cup DOMAIN drive :
              \/ RemoteWrite(p, rel) \/ RemoteMkdir(p, rel)
              \/ \E l \in DOMAIN drive : RemoteRename(l, p, rel)
         \/ \E l \in DOMAIN drive : RemoteTrash(l)
  PROVE  Inv'
<1>1. /\ UNCHANGED <<disk, fsEvents, localRx, remoteRx, agentVars, faults, restarts>>
      /\ edits' = edits + 1
  BY ZenonT(60) DEF RemoteWrite, RemoteMkdir, RemoteRename, RemoteTrash, UserMay
<1>2. UNCHANGED <<buf, ops, step, stamp, rows, status, fetched>>
  BY <1>1 DEF agentVars
<1>3. edits \in Nat /\ edits' \in Nat /\ NewRev \in Nat
  BY <1>1 DEF Inv, TypeOK, NewRev
<1>4. DriveKept
  <2>1. ASSUME NEW rel \in RemoteRels, NEW p \in {Root} \cup DOMAIN drive,
               RemoteWrite(p, rel) \/ RemoteMkdir(p, rel)
        PROVE  DriveKept
    <3>1. IsParent(p) /\ LeafOf(rel) \in Names
      BY EngineAssumption, PathSplit DEF IsParent
    <3>2. CASE RemoteWrite(p, rel)
      BY <1>3, <3>1, <3>2, StoreFileEffect DEF RemoteWrite, Inv
    <3>3. CASE RemoteMkdir(p, rel)
      BY <3>1, <3>3, StoreFolderEffect DEF RemoteMkdir, Inv
    <3> QED BY <2>1, <3>2, <3>3
  <2>2. ASSUME NEW l \in DOMAIN drive, RemoteTrash(l)
        PROVE  DriveKept
    BY <2>2, TrashEffect DEF Inv
  <2>3. ASSUME NEW rel \in RemoteRels, NEW p \in {Root} \cup DOMAIN drive,
               NEW l \in DOMAIN drive, RemoteRename(l, p, rel)
        PROVE  DriveKept
    BY <2>3, EngineAssumption, RenameEffect DEF Inv
  <2> QED BY <2>1, <2>2, <2>3
<1>5. fetched' \in SUBSET [link : DOMAIN drive', rel : Rels]
  BY <1>2, <1>4, FetchedKept
<1>6. TypeOK'
  BY <1>1, <1>2, <1>3, <1>4, <1>5 DEF Inv, TypeOK, DriveKept
<1> QED BY <1>1, <1>2, <1>4, <1>6, Kept

(* Users of either side keep the invariant.                                *)
LEMMA UserStep == ASSUME Inv, User PROVE Inv'
BY LocalUserStep, RemoteUserStep DEF User

-----------------------------------------------------------------------------
(* Watchers                                                                *)

(* The local watcher's callback, local.rs translate_event.                 *)
LEMMA TranslateStep == ASSUME Inv, TranslateEvent PROVE Inv'
<1>1. /\ UNCHANGED <<disk, drive, unseen, remoteRx>>
      /\ UNCHANGED <<buf, ops, step, stamp, rows, status, fetched>>
      /\ UNCHANGED <<edits, faults, restarts>>
  BY DEF TranslateEvent, agentVars, boundVars
<1>2. DriveKept
  BY <1>1, NoEffect DEF Inv
<1> DEFINE e == Head(fsEvents)
           c == IF e.gone \/ e.rel \notin DOMAIN disk
                  THEN [kind |-> "Removed", rel |-> e.rel]
                  ELSE [kind |-> "Upsert", rel |-> e.rel,
                        folder |-> disk[e.rel].folder]
<1>3. /\ e \in [rel : LocalRels, gone : BOOLEAN]
      /\ fsEvents' \in Seq([rel : LocalRels, gone : BOOLEAN])
  BY HeadTailProperties DEF TranslateEvent, Inv, TypeOK
<1> HIDE DEF e
<1>4. c \in LocalChange
  <2>1. e.rel \in LocalRels
    BY <1>3
  <2>2. e.rel \in DOMAIN disk => disk[e.rel].folder \in BOOLEAN
    BY DEF Inv, TypeOK, Entry
  <2> QED BY <2>1, <2>2 DEF LocalChange
<1>5. localRx' = Append(localRx, c)
  BY DEF TranslateEvent, e
<1> HIDE DEF c
<1>6. localRx' \in Seq(LocalChange)
  BY <1>4, <1>5 DEF Inv, TypeOK
<1>7. TypeOK'
  BY <1>1, <1>3, <1>6 DEF Inv, TypeOK
<1> QED BY <1>1, <1>2, <1>7, Kept

(* The remote watcher sends a report; it is true when it is sent.          *)
LEMMA ReportStep ==
  ASSUME Inv, NEW l \in unseen, ReportRemote(l)
  PROVE  Inv'
<1>1. /\ UNCHANGED <<disk, drive, fsEvents, localRx>>
      /\ UNCHANGED <<buf, ops, step, stamp, rows, status, fetched>>
      /\ UNCHANGED <<edits, faults, restarts>>
      /\ unseen' \subseteq unseen
  BY DEF ReportRemote, agentVars, boundVars
<1>2. DriveKept
  BY <1>1, NoEffect DEF Inv
<1> DEFINE e == [rel |-> drive[l].rel, link |-> l, parent |-> drive[l].parent,
                 folder |-> drive[l].folder, rev |-> drive[l].rev]
<1>3. l \in DOMAIN drive /\ drive[l] \in Node /\ l \in Links
  BY DriveType DEF Inv, TypeOK, Links
<1>4. e \in RemoteChange /\ IsReport(e)
  <2>1. [rel |-> drive[l].rel, parent |-> drive[l].parent] \in drive[l].was
    BY <1>3 DEF Inv, TreeFaithful
  <2>2. e \in RemoteChange
    BY <1>3 DEF RemoteChange, Node
  <2> QED BY <1>3, <2>1, <2>2 DEF IsReport, IsNode
<1>5. remoteRx' = Append(remoteRx, e)
  BY DEF ReportRemote
<1> HIDE DEF e
<1>6. remoteRx \in Seq(RemoteChange)
  BY DEF Inv, TypeOK
<1>7. remoteRx' \in Seq(RemoteChange)
  BY <1>4, <1>5, <1>6
<1>8. \A i \in DOMAIN remoteRx' : IsReport(remoteRx'[i])
  <2> SUFFICES ASSUME NEW i \in DOMAIN remoteRx' PROVE IsReport(remoteRx'[i])
    OBVIOUS
  <2>1. i \in DOMAIN remoteRx \/ remoteRx'[i] = e
    BY <1>4, <1>5, <1>6
  <2>2. i \in DOMAIN remoteRx => remoteRx'[i] = remoteRx[i]
    BY <1>4, <1>5, <1>6
  <2> QED BY <1>4, <2>1, <2>2 DEF Inv, ReportsFaithful
<1>9. ReportsFaithful'
  BY <1>1, <1>8 DEF Inv, ReportsFaithful, IsReport, IsNode
<1>10. TypeOK'
  BY <1>1, <1>2, <1>7 DEF Inv, TypeOK, DriveKept
<1> QED BY <1>1, <1>2, <1>9, <1>10, RowsKept, StepKept DEF Inv, DriveKept

-----------------------------------------------------------------------------
(* The agent's loop                                                        *)

(* The agent's select loop takes a local change.                           *)
LEMMA RecvLocalStep == ASSUME Inv, RecvLocal PROVE Inv'
<1>1. /\ UNCHANGED <<disk, drive, fsEvents, unseen, remoteRx>>
      /\ UNCHANGED <<ops, step, stamp, rows, status, fetched>>
      /\ UNCHANGED <<edits, faults, restarts>>
  BY DEF RecvLocal, boundVars
<1>2. DriveKept
  BY <1>1, NoEffect DEF Inv
<1>3. /\ Head(localRx) \in LocalChange
      /\ localRx' \in Seq(LocalChange)
  BY HeadTailProperties DEF RecvLocal, Inv, TypeOK
<1>4. /\ buf' = [buf EXCEPT !.local = Append(@, Head(localRx))]
      /\ buf \in [local : Seq(LocalChange), remote : Seq(RemoteChange)]
  BY DEF RecvLocal, Inv, TypeOK
<1>5. /\ buf' \in [local : Seq(LocalChange), remote : Seq(RemoteChange)]
      /\ buf'.remote = buf.remote
  <2> DEFINE longer == Append(buf.local, Head(localRx))
  <2>1. buf.local \in Seq(LocalChange) /\ buf.remote \in Seq(RemoteChange)
    BY <1>4
  <2>2. longer \in Seq(LocalChange) /\ buf' = [buf EXCEPT !.local = longer]
    BY <1>3, <1>4, <2>1
  <2> HIDE DEF longer
  <2> QED BY <1>4, <2>1, <2>2
<1>6. TypeOK'
  BY <1>1, <1>3, <1>5 DEF Inv, TypeOK
<1>7. ReportsFaithful'
  BY <1>1, <1>5 DEF Inv, ReportsFaithful, IsReport, IsNode
<1> QED BY <1>1, <1>2, <1>6, <1>7, RowsKept, StepKept DEF Inv, DriveKept

(* The agent's select loop takes a report, which stays true.               *)
LEMMA RecvRemoteStep == ASSUME Inv, RecvRemote PROVE Inv'
<1>1. /\ UNCHANGED <<disk, drive, fsEvents, unseen, localRx>>
      /\ UNCHANGED <<ops, step, stamp, rows, status, fetched>>
      /\ UNCHANGED <<edits, faults, restarts>>
  BY DEF RecvRemote, boundVars
<1>2. DriveKept
  BY <1>1, NoEffect DEF Inv
<1>3. /\ remoteRx \in Seq(RemoteChange) /\ remoteRx # <<>>
      /\ remoteRx' = Tail(remoteRx)
      /\ buf \in [local : Seq(LocalChange), remote : Seq(RemoteChange)]
      /\ buf' = [buf EXCEPT !.remote = Append(@, Head(remoteRx))]
  BY DEF RecvRemote, Inv, TypeOK
<1>4. /\ Head(remoteRx) \in RemoteChange
      /\ remoteRx' \in Seq(RemoteChange)
      /\ Head(remoteRx) = remoteRx[1] /\ 1 \in DOMAIN remoteRx
      /\ \A i \in DOMAIN remoteRx' :
           i + 1 \in DOMAIN remoteRx /\ remoteRx'[i] = remoteRx[i + 1]
  BY <1>3, HeadTailProperties, LenProperties
<1>5. /\ buf' \in [local : Seq(LocalChange), remote : Seq(RemoteChange)]
      /\ buf'.remote = Append(buf.remote, Head(remoteRx))
  <2> DEFINE longer == Append(buf.remote, Head(remoteRx))
  <2>1. buf.local \in Seq(LocalChange) /\ buf.remote \in Seq(RemoteChange)
    BY <1>3
  <2>2. longer \in Seq(RemoteChange) /\ buf' = [buf EXCEPT !.remote = longer]
    BY <1>3, <1>4, <2>1
  <2>3. /\ buf' \in [local : Seq(LocalChange), remote : Seq(RemoteChange)]
        /\ buf'.remote = longer
    <3> HIDE DEF longer
    <3> QED BY <1>3, <2>1, <2>2
  <2> QED BY <2>3
<1>6. TypeOK'
  BY <1>1, <1>4, <1>5 DEF Inv, TypeOK
<1>7. \A i \in DOMAIN buf'.remote :
        \/ i \in DOMAIN buf.remote /\ buf'.remote[i] = buf.remote[i]
        \/ buf'.remote[i] = Head(remoteRx)
  BY <1>3, <1>4, <1>5
<1>8. IsReport(Head(remoteRx))
  BY <1>4 DEF Inv, ReportsFaithful
<1>9. ReportsFaithful'
  <2>1. \A i \in DOMAIN remoteRx' : IsReport(remoteRx'[i])
    BY <1>4 DEF Inv, ReportsFaithful
  <2>2. \A i \in DOMAIN buf'.remote : IsReport(buf'.remote[i])
    BY <1>7, <1>8 DEF Inv, ReportsFaithful
  <2> QED BY <1>1, <2>1, <2>2 DEF ReportsFaithful, IsReport, IsNode
<1> QED BY <1>1, <1>2, <1>6, <1>9, RowsKept, StepKept DEF Inv, DriveKept

(* A set of numbers below a bound that is not empty has a largest one.     *)
LEMMA BoundedSetHasMaximum ==
  ASSUME NEW n \in Nat, NEW P \in SUBSET (1 .. n), P # {}
  PROVE  \E m \in P : \A j \in P : j <= m
<1> DEFINE T == {n - i : i \in P}
           R == OpToRel(<, Nat)
<1>1. T \subseteq Nat /\ T # {}
  <2>1. PICK i \in P : TRUE
    OBVIOUS
  <2>2. n - i \in T
    BY <2>1
  <2>3. \A j \in P : n - j \in Nat
    OBVIOUS
  <2> QED BY <2>2, <2>3
<1>2. PICK x \in T : \A y \in T : ~ (<<y, x>> \in R)
  BY <1>1, NatLessThanWellFounded, WFMin
<1>3. \A y \in T : ~ (y < x)
  BY <1>1, <1>2 DEF OpToRel
<1>4. PICK m \in P : x = n - m
  OBVIOUS
<1>5. ASSUME NEW j \in P PROVE j <= m
  <2>1. n - j \in T
    OBVIOUS
  <2>2. ~ (n - j < n - m)
    BY <1>3, <1>4, <2>1
  <2> QED BY <2>2
<1> QED BY <1>5

(* The start of a place.                                                   *)
LEMMA GotoType ==
  ASSUME NEW place \in Places
  PROVE  /\ Goto(place) \in Step
         /\ Goto(place).at = place /\ Goto(place).into = Root
         /\ Goto(place).depth = 0 /\ Goto(place).tries = 0
BY EngineAssumption DEF Goto, Step, Root, Links

(* The placeholders of a batch, and the rows they become, name nodes.      *)
LEMMA PlaceholdersFaithful ==
  ASSUME Inv, stamp' \in 0 .. MaxStamp,
         stamp' = IF Renamed(Reconcile(buf.local, buf.remote)) = {}
                    THEN stamp ELSE stamp + 1,
         NEW batch \in Resolve(Reconcile(buf.local, buf.remote), stamp + 1)
  PROVE  /\ batch \in Seq(Operation)
         /\ \A i \in DOMAIN batch : IsPlaceholder(batch[i]) =>
              /\ batch[i].rel \in Rels
              /\ PlaceholderRow(batch[i]) \in Row
              /\ IsNode(batch[i].link, batch[i].rel, batch[i].parent,
                        batch[i].op = "CreateLocalDir")
<1> DEFINE R == Reconcile(buf.local, buf.remote)
<1>1. buf.local \in Seq(LocalChange) /\ buf.remote \in Seq(RemoteChange)
  BY DEF Inv, TypeOK
<1>2. /\ R \in Seq(Operation)
      /\ \A i \in DOMAIN R :
           /\ IsUpload(R[i]) => R[i].rel \in LocalRels
           /\ IsPlaceholder(R[i]) =>
                \E j \in DOMAIN buf.remote : R[i] = RemoteOp(buf.remote[j])
  BY <1>1, ReconcileType
<1>3. stamp + 1 \in Nat /\ (Renamed(R) # {} => stamp + 1 \in Stamps)
  BY NamesAssumption DEF Inv, TypeOK, Stamps
<1> HIDE DEF R
<1>4. /\ batch \in Seq(Operation)
      /\ \A i \in DOMAIN batch :
           IsPlaceholder(batch[i]) => \E j \in DOMAIN R : batch[i] = R[j]
  BY <1>2, <1>3, ResolveType DEF R
<1>5. ASSUME NEW i \in DOMAIN batch, IsPlaceholder(batch[i])
      PROVE  /\ batch[i].rel \in Rels
             /\ PlaceholderRow(batch[i]) \in Row
             /\ IsNode(batch[i].link, batch[i].rel, batch[i].parent,
                       batch[i].op = "CreateLocalDir")
  <2>1. PICK j \in DOMAIN buf.remote : batch[i] = RemoteOp(buf.remote[j])
    BY <1>2, <1>4, <1>5
  <2> DEFINE e == buf.remote[j]
  <2>2. e \in RemoteChange /\ IsReport(e)
    BY <1>1, LenProperties, ElementOfSeq DEF Inv, ReportsFaithful
  <2>3. /\ batch[i].rel = e.rel /\ batch[i].link = e.link
        /\ batch[i].parent = e.parent /\ batch[i].rev = e.rev
        /\ (batch[i].op = "CreateLocalDir") = e.folder
    BY <1>5, <2>1, <2>2, RemoteOpType
  <2> HIDE DEF e
  <2> QED
    BY <2>2, <2>3 DEF RemoteChange, IsReport, IsNode, PlaceholderRow, Row
<1> QED BY <1>4, <1>5

(* Taking a batch: the placeholders stored are true reports.               *)
LEMMA BeginCycleStep == ASSUME Inv, BeginCycle PROVE Inv'
<1>1. /\ UNCHANGED <<disk, drive, fsEvents, unseen, localRx, remoteRx>>
      /\ UNCHANGED <<edits, restarts>>
      /\ step' = Goto("op") /\ status' = "busy"
      /\ buf' = [local |-> <<>>, remote |-> <<>>]
      /\ stamp' <= MaxStamp
      /\ stamp' = IF Renamed(Reconcile(buf.local, buf.remote)) = {}
                    THEN stamp ELSE stamp + 1
  BY DEF BeginCycle, watcherVars
<1>2. PICK batch \in Resolve(Reconcile(buf.local, buf.remote), stamp + 1) :
        /\ ops' = batch
        /\ fetched' = {[link |-> batch[i].link, rel |-> batch[i].rel] :
                         i \in {j \in DOMAIN batch : IsDownload(batch[j])}}
        /\ \/ rows' = UpsertBatch(batch) /\ UNCHANGED faults
           \/ faults < MaxFaults /\ faults' = faults + 1 /\ UNCHANGED rows
  BY DEF BeginCycle
<1>3. stamp' \in 0 .. MaxStamp
  BY <1>1, NamesAssumption DEF Inv, TypeOK
<1>4. /\ batch \in Seq(Operation)
      /\ \A i \in DOMAIN batch : IsPlaceholder(batch[i]) =>
           /\ batch[i].rel \in Rels
           /\ PlaceholderRow(batch[i]) \in Row
           /\ IsNode(batch[i].link, batch[i].rel, batch[i].parent,
                     batch[i].op = "CreateLocalDir")
  BY <1>1, <1>3, PlaceholdersFaithful
<1>5. DriveKept
  BY <1>1, NoEffect DEF Inv
<1>6. fetched' \in SUBSET [link : DOMAIN drive, rel : Rels]
  <2>1. \A i \in DOMAIN batch : IsDownload(batch[i]) =>
          batch[i].link \in DOMAIN drive /\ batch[i].rel \in Rels
    BY <1>4 DEF IsDownload, IsPlaceholder, IsNode
  <2> QED BY <1>2, <2>1
<1>7. /\ DOMAIN rows' \subseteq Rels
      /\ \A rel \in DOMAIN rows' : rows'[rel] \in Row
      /\ RowsFaithful'
  <2>1. CASE rows' = rows
    BY <1>5, <2>1, RowsKept DEF Inv, TypeOK
  <2>2. CASE rows' = UpsertBatch(batch)
    <3> DEFINE named == {batch[i].rel : i \in {j \in DOMAIN batch : IsPlaceholder(batch[j])}}
               last(rel) == CHOOSE i \in Placeholders(batch, rel) :
                              \A j \in Placeholders(batch, rel) : j <= i
    <3>1. ASSUME NEW rel \in named
          PROVE  last(rel) \in Placeholders(batch, rel)
      <4>1. PICK i \in DOMAIN batch : IsPlaceholder(batch[i]) /\ batch[i].rel = rel
        OBVIOUS
      <4>2. i \in Placeholders(batch, rel)
        BY <4>1 DEF Placeholders
      <4> DEFINE P == Placeholders(batch, rel)
      <4>3. P \subseteq 1 .. Len(batch) /\ Len(batch) \in Nat
        BY <1>4, LenProperties DEF Placeholders
      <4>4. \E m \in P : \A j \in P : j <= m
        BY <4>2, <4>3, BoundedSetHasMaximum
      <4> QED BY <4>4
    <3>2. rows' = [rel \in DOMAIN rows \cup named |->
                     IF rel \in named THEN PlaceholderRow(batch[last(rel)])
                                      ELSE rows[rel]]
      BY <2>2 DEF UpsertBatch
    <3> HIDE DEF named, last
    <3>3. ASSUME NEW rel \in named
          PROVE  /\ rel \in Rels /\ rows'[rel] \in Row
                 /\ IsNode(rows'[rel].link, rel, rows'[rel].parent, rows'[rel].folder)
      <4>1. /\ last(rel) \in DOMAIN batch /\ IsPlaceholder(batch[last(rel)])
            /\ batch[last(rel)].rel = rel
        BY <3>1 DEF Placeholders
      <4>2. rows'[rel] = PlaceholderRow(batch[last(rel)])
        BY <3>2
      <4> QED BY <1>4, <4>1, <4>2 DEF PlaceholderRow
    <3>4. ASSUME NEW rel \in DOMAIN rows, rel \notin named
          PROVE  /\ rel \in Rels /\ rows'[rel] \in Row
                 /\ IsNode(rows'[rel].link, rel, rows'[rel].parent, rows'[rel].folder)
      BY <3>2, <3>4 DEF Inv, TypeOK, RowsFaithful
    <3>5. DOMAIN rows' = DOMAIN rows \cup named
      BY <3>2
    <3> QED BY <1>1, <3>3, <3>4, <3>5 DEF RowsFaithful, IsNode
  <2> QED BY <1>2, <2>1, <2>2
<1>8. faults' \in Nat
  BY <1>2 DEF Inv, TypeOK
<1>9. step' \in Step /\ StepFaithful'
  BY <1>1, GotoType, StepForgotten DEF Places
<1>10. buf' \in [local : Seq(LocalChange), remote : Seq(RemoteChange)]
  BY <1>1
<1>11. TypeOK'
  BY <1>1, <1>2, <1>3, <1>4, <1>6, <1>7, <1>8, <1>9, <1>10 DEF Inv, TypeOK
<1>12. ReportsFaithful'
  BY <1>1 DEF Inv, ReportsFaithful, IsReport, IsNode
<1> QED BY <1>5, <1>7, <1>9, <1>11, <1>12 DEF Inv, DriveKept

(* The heartbeat with an empty buffer only sends Idle.                     *)
LEMMA HeartbeatStep == ASSUME Inv, Heartbeat PROVE Inv'
<1>1. /\ UNCHANGED <<disk, drive, fsEvents, unseen, localRx, remoteRx>>
      /\ UNCHANGED <<buf, ops, step, stamp, rows, fetched>>
      /\ UNCHANGED <<edits, faults, restarts>> /\ status' = "idle"
  BY DEF Heartbeat, watcherVars, boundVars
<1>2. TypeOK' /\ DriveKept
  BY <1>1, NoEffect DEF Inv, TypeOK
<1> QED BY <1>1, <1>2, Kept

(* The end of a cycle.                                                     *)
LEMMA FinishStep == ASSUME Inv, FinishCycle PROVE Inv'
<1>1. /\ UNCHANGED <<disk, drive, fsEvents, unseen, localRx, remoteRx>>
      /\ UNCHANGED <<buf, ops, stamp, rows, edits, faults, restarts>>
      /\ status' = "idle" /\ fetched' = {} /\ step' = Goto("select")
  BY DEF FinishCycle, watcherVars, boundVars
<1>2. step' \in Step /\ StepFaithful'
  BY <1>1, GotoType, StepForgotten DEF Places
<1>3. TypeOK' /\ DriveKept
  BY <1>1, <1>2, NoEffect DEF Inv, TypeOK
<1> QED BY <1>1, <1>2, <1>3, RowsKept, ReportsKept DEF Inv, DriveKept

-----------------------------------------------------------------------------
(* The propagator                                                          *)

(* The operation in progress is an operation.                              *)
LEMMA HeadType ==
  ASSUME Inv, ops # <<>>
  PROVE  /\ Head(ops) \in Operation
         /\ Head(ops).op \in {"UploadNew", "CreateRemoteDir", "DeleteRemote"}
              => Head(ops).rel \in Rels
         /\ Head(ops).op = "UploadNew" => Head(ops).path \in LocalRels
<1>1. Head(ops) \in Operation
  BY HeadTailProperties DEF Inv, TypeOK
<1> QED BY <1>1 DEF Operation, Skip

(* Going on to the next operation keeps the types.                         *)
LEMMA NextOpType ==
  ASSUME Inv, ops # <<>>, NextOp
  PROVE  ops' \in Seq(Operation) /\ step' \in Step /\ StepFaithful'
<1>1. ops' \in Seq(Operation)
  BY HeadTailProperties DEF Inv, TypeOK, NextOp
<1>2. step' \in Step /\ StepFaithful'
  BY GotoType, StepForgotten DEF Places, NextOp
<1> QED BY <1>1, <1>2

(* Operations apply() has already handled are passed over.                 *)
LEMMA SkipStep == ASSUME Inv, SkipOp PROVE Inv'
<1>1. /\ UNCHANGED <<disk, drive, fsEvents, unseen, localRx, remoteRx>>
      /\ UNCHANGED <<buf, stamp, rows, status, fetched, edits, faults, restarts>>
      /\ ops # <<>> /\ NextOp
  BY DEF SkipOp, watcherVars, boundVars
<1>2. ops' \in Seq(Operation) /\ step' \in Step /\ StepFaithful'
  BY <1>1, NextOpType
<1>3. TypeOK' /\ DriveKept
  BY <1>1, <1>2, NoEffect DEF Inv, TypeOK
<1> QED BY <1>1, <1>2, <1>3, RowsKept, ReportsKept DEF Inv, DriveKept

(* DeleteRemote removes a row; the others stay true.                       *)
LEMMA DeleteRemoteStep == ASSUME Inv, DeleteRemote PROVE Inv'
<1>1. /\ UNCHANGED <<disk, drive, fsEvents, unseen, localRx, remoteRx>>
      /\ UNCHANGED <<buf, stamp, status, fetched, edits, faults, restarts>>
      /\ ops # <<>> /\ NextOp
      /\ rows' = Drop(rows, Head(ops).rel)
  BY DEF DeleteRemote, watcherVars, boundVars
<1>2. ops' \in Seq(Operation) /\ step' \in Step /\ StepFaithful'
  BY <1>1, NextOpType
<1>3. /\ DOMAIN rows' \subseteq DOMAIN rows
      /\ \A rel \in DOMAIN rows' : rows'[rel] = rows[rel]
  BY <1>1 DEF Drop
<1>4. RowsFaithful'
  BY <1>1, <1>3 DEF Inv, RowsFaithful, IsNode
<1>5. TypeOK' /\ DriveKept
  BY <1>1, <1>2, <1>3, NoEffect DEF Inv, TypeOK
<1> QED BY <1>1, <1>2, <1>4, <1>5, ReportsKept DEF Inv, DriveKept

(* parent_link_for answers with a folder that is the operation's parent.   *)
LEMMA FindParentStep == ASSUME Inv, FindParent PROVE Inv'
<1> DEFINE rel == Head(ops).rel
           p   == ParentOf(rel)
<1>1. /\ UNCHANGED <<disk, drive, fsEvents, unseen, localRx, remoteRx>>
      /\ UNCHANGED <<buf, ops, stamp, rows, status, fetched>>
      /\ UNCHANGED <<edits, faults, restarts>>
      /\ ops # <<>> /\ Head(ops).op \in {"UploadNew", "CreateRemoteDir"}
      /\ step' = IF p = <<>> THEN Goto("send")
                 ELSE IF p \in DOMAIN rows
                   THEN [Goto("send") EXCEPT !.into = rows[p].link]
                 ELSE [Goto("walk") EXCEPT !.depth = 1]
  BY DEF FindParent, watcherVars, boundVars
<1>2. rel \in Rels
  BY <1>1, HeadType
<1>3. /\ Len(rel) \in Nat \ {0} /\ p \in Seq(Names)
      /\ Len(p) = Len(rel) - 1
  BY <1>2, PathSplit
<1>4. step' \in Step /\ StepFaithful'
  <2>1. CASE p = <<>>
    <3>1. step' = Goto("send")
      BY <1>1, <2>1
    <3>2. /\ step' \in Step /\ step'.at = "send" /\ step'.into = Root
      BY <3>1, GotoType DEF Places
    <3>3. StandsAt(step.into, <<>>)'
      BY <3>2 DEF StandsAt, RelOf, IsParent, IsDir
    <3> QED BY <1>1, <2>1, <3>2, <3>3 DEF StepFaithful, At
  <2>2. CASE p # <<>> /\ p \in DOMAIN rows
    <3>1. step' = [Goto("send") EXCEPT !.into = rows[p].link]
      BY <1>1, <2>2
    <3>2. rows[p].link \in DOMAIN drive /\ StandsAt(rows[p].link, p)
      BY <2>2, NodeStands DEF Inv, RowsFaithful, IsNode
    <3>3. rows[p].link \in Links /\ rows[p].link # Root
      BY <3>2, DriveType DEF Inv, Links
    <3>4. /\ step' \in Step /\ step'.at = "send" /\ step'.into = rows[p].link
      BY <3>1, <3>3, GotoType DEF Places, Step
    <3>5. StandsAt(step.into, p)'
      BY <1>1, <3>2, <3>3, <3>4 DEF StandsAt, RelOf, IsParent, IsDir
    <3> QED BY <1>1, <3>4, <3>5 DEF StepFaithful, At
  <2>3. CASE p # <<>> /\ p \notin DOMAIN rows
    <3>1. step' = [Goto("walk") EXCEPT !.depth = 1]
      BY <1>1, <2>3
    <3>2. /\ step' \in Step /\ step'.at = "walk" /\ step'.into = Root
          /\ step'.depth = 1
      BY <3>1, GotoType DEF Places, Step
    <3>3. StandsAt(step.into, <<>>)'
      BY <3>2 DEF StandsAt, RelOf, IsParent, IsDir
    <3>4. Len(p) # 0
      BY <1>3, <2>3, EmptySeq
    <3>5. 1 \in 1 .. Len(rel) - 1
      BY <1>3, <3>4
    <3>6. SubSeq(rel, 1, 1 - 1) = <<>>
      BY SubSeqEmpty, 1 - 1 < 1, 1 - 1 \in Int
    <3> QED BY <1>1, <3>2, <3>3, <3>5, <3>6 DEF StepFaithful, At
  <2> QED BY <2>1, <2>2, <2>3
<1>5. TypeOK' /\ DriveKept
  BY <1>1, <1>4, NoEffect DEF Inv, TypeOK
<1> QED BY <1>1, <1>4, <1>5, RowsKept, ReportsKept DEF Inv, DriveKept

(* The path of the walk's current segment.                                 *)
LEMMA SegmentType ==
  ASSUME Inv, step.at \in {"walk", "walked"}
  PROVE  /\ ops # <<>> /\ Head(ops).rel \in Rels
         /\ Head(ops).op \in {"UploadNew", "CreateRemoteDir"}
         /\ Len(Head(ops).rel) \in Nat /\ step.depth \in 1 .. Len(Head(ops).rel) - 1
         /\ Segment \in Rels /\ LeafOf(Segment) \in Names
         /\ StandsAt(step.into, SubSeq(Head(ops).rel, 1, step.depth - 1))
         /\ IsDir(step.into) => Append(RelOf(step.into), LeafOf(Segment)) = Segment
<1>1. /\ ops # <<>> /\ Head(ops).op \in {"UploadNew", "CreateRemoteDir"}
      /\ step.depth \in 1 .. Len(Head(ops).rel) - 1
      /\ StandsAt(step.into, SubSeq(Head(ops).rel, 1, step.depth - 1))
  BY DEF Inv, StepFaithful
<1>2. Head(ops).rel \in Rels
  BY <1>1, HeadType
<1>3. Len(Head(ops).rel) \in Nat /\ step.depth \in 1 .. Len(Head(ops).rel)
  BY <1>1, <1>2, PathSplit
<1>4. Segment \in Rels /\ (IsDir(step.into) => ParentOf(Segment) = RelOf(step.into))
  BY <1>1, <1>2, <1>3, Prefix DEF Segment, StandsAt
<1>5. LeafOf(Segment) \in Names /\ Append(ParentOf(Segment), LeafOf(Segment)) = Segment
  BY <1>4, PathSplit
<1> QED BY <1>1, <1>2, <1>3, <1>4, <1>5

(* Going down into the node of the current segment.                        *)
LEMMA DescendType ==
  ASSUME Inv, step.at \in {"walk", "walked"},
         NEW l \in DOMAIN drive, StandsAt(l, Segment),
         drive' = drive, ops' = ops, Descend(l)
  PROVE  step' \in Step /\ StepFaithful'
<1> DEFINE rel == Head(ops).rel
<1>1. /\ ops # <<>> /\ rel \in Rels
      /\ Head(ops).op \in {"UploadNew", "CreateRemoteDir"}
      /\ Len(rel) \in Nat /\ step.depth \in 1 .. Len(rel) - 1
  BY SegmentType
<1>2. l \in Links /\ l # Root
  BY DriveType DEF Inv, Links
<1>3. step \in Step
  BY DEF Inv, TypeOK
<1>4. /\ step' \in Step
      /\ step'.into = l /\ step'.depth = step.depth + 1
      /\ step'.at = IF step.depth + 1 = Len(rel) THEN "send" ELSE "walk"
  <2> DEFINE place == IF step.depth + 1 = Len(rel) THEN "send" ELSE "walk"
  <2>1. place \in Places /\ step.depth + 1 \in Nat
    BY <1>1, <1>3 DEF Places, Step
  <2>2. step' = [step EXCEPT !.into = l, !.depth = step.depth + 1, !.at = place]
    BY <1>3 DEF Descend, Step
  <2> HIDE DEF place
  <2>3. /\ step' \in Step /\ step'.into = l /\ step'.depth = step.depth + 1
        /\ step'.at = place
    BY <1>2, <1>3, <2>1, <2>2 DEF Step
  <2> QED BY <2>3 DEF place
<1>5. /\ IsParent(step.into)'
      /\ IsDir(step.into)' => RelOf(step.into)' = SubSeq(rel, 1, step.depth)
  BY <1>2, <1>4 DEF StandsAt, RelOf, IsParent, IsDir, Segment
<1>6. CASE step.depth + 1 = Len(rel)
  <2>1. step'.at = "send" /\ SubSeq(rel, 1, step.depth) = ParentOf(rel)
    BY <1>1, <1>4, <1>6, step.depth = Len(rel) - 1 DEF ParentOf
  <2> QED BY <1>1, <1>4, <1>5, <2>1 DEF StandsAt, StepFaithful, At
<1>7. CASE step.depth + 1 # Len(rel)
  <2>1. /\ step'.at = "walk" /\ step'.depth \in 1 .. Len(rel) - 1
        /\ step'.depth - 1 = step.depth
    BY <1>1, <1>4, <1>7
  <2> QED BY <1>1, <1>4, <1>5, <2>1 DEF StandsAt, StepFaithful, At
<1> QED BY <1>4, <1>6, <1>7

(* The walk finds a row and stands in the folder it names.                 *)
LEMMA WalkRowStep == ASSUME Inv, WalkRow PROVE Inv'
<1>1. /\ UNCHANGED <<disk, drive, fsEvents, unseen, localRx, remoteRx>>
      /\ UNCHANGED <<buf, ops, stamp, rows, status, fetched>>
      /\ UNCHANGED <<edits, faults, restarts>>
      /\ step.at = "walk" /\ Segment \in DOMAIN rows
      /\ Descend(rows[Segment].link)
  BY DEF WalkRow, watcherVars, boundVars, At
<1>2. /\ rows[Segment].link \in DOMAIN drive
      /\ StandsAt(rows[Segment].link, Segment)
  BY <1>1, NodeStands DEF Inv, RowsFaithful, IsNode
<1>3. step' \in Step /\ StepFaithful'
  BY <1>1, <1>2, DescendType
<1>4. TypeOK' /\ DriveKept
  BY <1>1, <1>3, NoEffect DEF Inv, TypeOK
<1> QED BY <1>1, <1>3, <1>4, RowsKept, ReportsKept DEF Inv, DriveKept

(* The walk creates a folder and remembers its link.                       *)
LEMMA WalkCreateStep == ASSUME Inv, WalkCreate PROVE Inv'
<1>1. /\ UNCHANGED <<disk, fsEvents, localRx, remoteRx>>
      /\ UNCHANGED <<buf, ops, stamp, rows, status, fetched>>
      /\ UNCHANGED <<edits, faults, restarts>>
      /\ step.at = "walk"
      /\ StoreFolder(step.into, LeafOf(Segment), FreshLink)
      /\ step' = [step EXCEPT !.at = "walked", !.link = FreshLink]
  BY DEF WalkCreate, boundVars, At
<1>2. /\ ops # <<>> /\ Head(ops).op \in {"UploadNew", "CreateRemoteDir"}
      /\ step.depth \in 1 .. Len(Head(ops).rel) - 1
      /\ IsDir(step.into) /\ LeafOf(Segment) \in Names
      /\ Append(RelOf(step.into), LeafOf(Segment)) = Segment
      /\ StandsAt(step.into, SubSeq(Head(ops).rel, 1, step.depth - 1))
  BY <1>1, SegmentType DEF StoreFolder, CanCreateFolder, IsFolder, IsDir
<1>3. /\ DriveKept
      /\ WillBeNode(FreshLink, Segment, step.into, TRUE)
  <2>1. WillBeNode(FreshLink, Append(RelOf(step.into), LeafOf(Segment)), step.into, TRUE)
        /\ DriveKept
    BY <1>1, <1>2, StoreFolderEffect DEF Inv, StandsAt
  <2> QED BY <1>2, <2>1
<1>4. FreshLink \in Links
  BY DriveType DEF Inv, FreshLink, Links
<1>5. /\ step' \in Step /\ step'.at = "walked" /\ step'.link = FreshLink
      /\ step'.into = step.into /\ step'.depth = step.depth
  <2>1. step \in Step
    BY DEF Inv, TypeOK
  <2> QED BY <1>1, <1>4, <2>1 DEF Step, Places
<1>6. StandsAt(step.into, SubSeq(Head(ops).rel, 1, step.depth - 1))'
  BY <1>1, <1>2, <1>3, <1>5, StandsLast
     DEF WillStandAt, StandsAt, IsParent, IsDir, RelOf
<1>7. StepFaithful'
  BY <1>1, <1>2, <1>3, <1>5, <1>6 DEF StepFaithful, At, IsNode, WillBeNode, Segment
<1>8. fetched' \in SUBSET [link : DOMAIN drive', rel : Rels]
  BY <1>1, <1>3, FetchedKept
<1>9. TypeOK'
  BY <1>1, <1>3, <1>5, <1>8 DEF Inv, TypeOK, DriveKept
<1> QED BY <1>1, <1>3, <1>7, <1>9, RowsKept, ReportsKept DEF Inv, DriveKept

(* Writing the row of a node that is there.                                *)
LEMMA PutRow ==
  ASSUME Inv, drive' = drive, NEW rel \in Rels, NEW row \in Row,
         IsNode(row.link, rel, row.parent, row.folder),
         rows' = Put(rows, rel, row)
  PROVE  /\ DOMAIN rows' \subseteq Rels
         /\ \A r \in DOMAIN rows' : rows'[r] \in Row
         /\ RowsFaithful'
<1>1. /\ DOMAIN rows' = DOMAIN rows \cup {rel}
      /\ \A r \in DOMAIN rows' : rows'[r] = IF r = rel THEN row ELSE rows[r]
  BY DEF Put
<1> QED BY <1>1 DEF Inv, TypeOK, RowsFaithful, IsNode

(* The row the walk writes names the folder it made.                       *)
LEMMA WalkRecordStep == ASSUME Inv, WalkRecord PROVE Inv'
<1> DEFINE row == [link |-> step.link, parent |-> step.into, folder |-> TRUE,
                   rev |-> 0, materialized |-> FALSE]
<1>1. /\ UNCHANGED <<disk, drive, fsEvents, unseen, localRx, remoteRx>>
      /\ UNCHANGED <<buf, ops, stamp, status, fetched>>
      /\ UNCHANGED <<edits, faults, restarts>>
      /\ step.at = "walked" /\ rows' = Put(rows, Segment, row)
      /\ Descend(step.link)
  BY DEF WalkRecord, watcherVars, boundVars, At
<1>2. IsNode(step.link, Segment, step.into, TRUE)
  BY <1>1 DEF Inv, StepFaithful, At
<1>3. step' \in Step /\ StepFaithful'
  BY <1>1, <1>2, DescendType, NodeStands DEF IsNode, Inv
<1>4. /\ row \in Row /\ row.link = step.link /\ row.parent = step.into
      /\ row.folder = TRUE
  BY DEF Inv, TypeOK, Step, Row
<1> HIDE DEF row
<1>5. /\ DOMAIN rows' \subseteq Rels
      /\ \A r \in DOMAIN rows' : rows'[r] \in Row
      /\ RowsFaithful'
  BY <1>1, <1>2, <1>4, SegmentType, PutRow
<1>6. TypeOK' /\ DriveKept
  BY <1>1, <1>3, <1>5, NoEffect DEF Inv, TypeOK
<1> QED BY <1>1, <1>3, <1>5, <1>6, ReportsKept DEF Inv, DriveKept

(* A failed create_folder of the walk drops the operation.                 *)
LEMMA WalkFailStep == ASSUME Inv, WalkFail PROVE Inv'
<1>1. /\ UNCHANGED <<disk, drive, fsEvents, unseen, localRx, remoteRx>>
      /\ UNCHANGED <<buf, stamp, rows, status, fetched, edits, restarts>>
      /\ step.at = "walk" /\ NextOp
      /\ faults' = faults \/ faults' = faults + 1
  BY DEF WalkFail, watcherVars, At
<1>2. ops' \in Seq(Operation) /\ step' \in Step /\ StepFaithful'
  BY <1>1, SegmentType, NextOpType
<1>3. TypeOK' /\ DriveKept
  BY <1>1, <1>2, NoEffect, SMTT(30) DEF Inv, TypeOK
<1> QED BY <1>1, <1>2, <1>3, RowsKept, ReportsKept DEF Inv, DriveKept

(* An operation that is being sent.                                        *)
LEMMA SendingType ==
  ASSUME Inv, step.at \in {"send", "record"}
  PROVE  /\ ops # <<>> /\ Head(ops).rel \in Rels
         /\ Head(ops).op \in {"UploadNew", "CreateRemoteDir"}
         /\ Head(ops).op = "UploadNew" => Head(ops).path \in LocalRels
         /\ IsParent(step.into) /\ LeafOf(Head(ops).rel) \in Names
         /\ StandsAt(step.into, ParentOf(Head(ops).rel))
         /\ IsDir(step.into) =>
              Append(RelOf(step.into), LeafOf(Head(ops).rel)) = Head(ops).rel
<1>1. /\ ops # <<>> /\ Head(ops).op \in {"UploadNew", "CreateRemoteDir"}
      /\ StandsAt(step.into, ParentOf(Head(ops).rel))
  BY DEF Inv, StepFaithful
<1>2. /\ Head(ops).rel \in Rels
      /\ Head(ops).op = "UploadNew" => Head(ops).path \in LocalRels
  BY <1>1, HeadType
<1> QED BY <1>1, <1>2, PathSplit DEF StandsAt

(* The link a call returns is the node the operation is about.             *)
LEMMA CallEffect ==
  ASSUME Inv, step.at = "send", NEW link, Effect(link)
  PROVE  /\ DriveKept
         /\ WillBeNode(link, Head(ops).rel, step.into,
                       Head(ops).op = "CreateRemoteDir")
<1>0. IsDir(step.into)
  BY DEF Effect, StoreFile, CanUpload, StoreFolder, CanCreateFolder, IsFolder, IsDir
<1>1. /\ ops # <<>> /\ IsParent(step.into)
      /\ Head(ops).op \in {"UploadNew", "CreateRemoteDir"}
      /\ LeafOf(Head(ops).rel) \in Names
      /\ Append(RelOf(step.into), LeafOf(Head(ops).rel)) = Head(ops).rel
  BY <1>0, SendingType
<1>2. CASE Head(ops).op = "UploadNew"
  <2> DEFINE rev == disk[Head(ops).path].rev
  <2>1. /\ Head(ops).path \in DOMAIN disk
        /\ StoreFile(step.into, LeafOf(Head(ops).rel), rev, link)
    BY <1>2 DEF Effect, Readable
  <2>2. rev \in Nat
    BY <2>1 DEF Inv, TypeOK, Entry
  <2>3. /\ DriveKept
        /\ WillBeNode(link, Append(RelOf(step.into), LeafOf(Head(ops).rel)),
                      step.into, FALSE)
    <3> HIDE DEF rev
    <3> QED BY <1>1, <2>1, <2>2, StoreFileEffect DEF Inv
  <2>4. (Head(ops).op = "CreateRemoteDir") = FALSE
    BY <1>2
  <2> QED BY <1>1, <2>3, <2>4
<1>3. CASE Head(ops).op = "CreateRemoteDir"
  <2>1. StoreFolder(step.into, LeafOf(Head(ops).rel), link)
    BY <1>3 DEF Effect
  <2>2. /\ DriveKept
        /\ WillBeNode(link, Append(RelOf(step.into), LeafOf(Head(ops).rel)),
                      step.into, TRUE)
    BY <1>1, <2>1, StoreFolderEffect DEF Inv
  <2>3. (Head(ops).op = "CreateRemoteDir") = TRUE
    BY <1>3
  <2> QED BY <1>1, <2>2, <2>3
<1> QED BY <1>1, <1>2, <1>3

(* A successful call returns the link of the operation's path.             *)
LEMMA SendOkStep == ASSUME Inv, SendOk PROVE Inv'
<1>1. /\ UNCHANGED <<disk, fsEvents, localRx, remoteRx>>
      /\ UNCHANGED <<buf, ops, stamp, rows, status, fetched>>
      /\ UNCHANGED <<edits, faults, restarts>> /\ step.at = "send"
  BY DEF SendOk, boundVars, At
<1>2. PICK link \in 1 .. FreshLink :
        Effect(link) /\ step' = [step EXCEPT !.at = "record", !.link = link]
  BY DEF SendOk
<1>3. /\ DriveKept
      /\ WillBeNode(link, Head(ops).rel, step.into,
                    Head(ops).op = "CreateRemoteDir")
  BY <1>1, <1>2, CallEffect
<1>4. link \in Links
  BY <1>2, DriveType DEF Inv, FreshLink, Links
<1>5. /\ step' \in Step /\ step'.at = "record" /\ step'.link = link
      /\ step'.into = step.into
  <2>1. step \in Step
    BY DEF Inv, TypeOK
  <2> QED BY <1>2, <1>4, <2>1 DEF Step, Places
<1>6. /\ ops # <<>> /\ Head(ops).op \in {"UploadNew", "CreateRemoteDir"}
      /\ StandsAt(step.into, ParentOf(Head(ops).rel))
  BY <1>1, SendingType
<1>7. StandsAt(step.into, ParentOf(Head(ops).rel))'
  BY <1>1, <1>3, <1>5, <1>6, StandsLast
     DEF WillStandAt, StandsAt, IsParent, IsDir, RelOf
<1>8. StepFaithful'
  BY <1>1, <1>3, <1>5, <1>6, <1>7 DEF StepFaithful, At, IsNode, WillBeNode
<1>9. fetched' \in SUBSET [link : DOMAIN drive', rel : Rels]
  BY <1>1, <1>3, FetchedKept
<1>10. TypeOK'
  BY <1>1, <1>3, <1>5, <1>9 DEF Inv, TypeOK, DriveKept
<1> QED BY <1>1, <1>3, <1>8, <1>10, RowsKept, ReportsKept DEF Inv, DriveKept

(* A failed call, with or without effect, is retried or dropped.           *)
LEMMA SendFailStep == ASSUME Inv, SendFail PROVE Inv'
<1>1. /\ UNCHANGED <<disk, fsEvents, localRx, remoteRx>>
      /\ UNCHANGED <<buf, stamp, rows, status, fetched, edits, restarts>>
      /\ step.at = "send" /\ RetryOrDrop
      /\ \/ UNCHANGED <<drive, unseen>>
         \/ \E link \in 1 .. FreshLink : Effect(link)
      /\ faults' = faults \/ faults' = faults + 1
  BY DEF SendFail, At
<1>2. DriveKept
  BY <1>1, CallEffect, NoEffect DEF Inv
<1>3. ops # <<>> /\ StandsAt(step.into, ParentOf(Head(ops).rel))
  BY <1>1, SendingType
<1>4. ops' \in Seq(Operation) /\ step' \in Step /\ StepFaithful'
  <2>1. CASE NextOp
    BY <1>3, <2>1, NextOpType
  <2>2. CASE /\ step.tries + 1 < Attempts
             /\ step' = [step EXCEPT !.tries = @ + 1] /\ UNCHANGED ops
    <3>1. step \in Step
      BY DEF Inv, TypeOK
    <3>2. /\ step' \in Step /\ step'.at = "send" /\ step'.into = step.into
      BY <1>1, <2>2, <3>1, EngineAssumption DEF Step
    <3>3. StandsAt(step.into, ParentOf(Head(ops).rel))'
      BY <1>2, <1>3, <2>2, <3>2, StandsLast
         DEF WillStandAt, StandsAt, IsParent, IsDir, RelOf
    <3>4. StepFaithful'
      BY <1>1, <2>2, <3>2, <3>3, SendingType DEF StepFaithful, At
    <3> QED BY <2>2, <3>2, <3>4 DEF Inv, TypeOK
  <2> QED BY <1>1, <2>1, <2>2 DEF RetryOrDrop
<1>5. fetched' \in SUBSET [link : DOMAIN drive', rel : Rels]
  BY <1>1, <1>2, FetchedKept
<1>6. TypeOK'
  BY <1>1, <1>2, <1>4, <1>5, SMTT(30) DEF Inv, TypeOK, DriveKept
<1> QED BY <1>1, <1>2, <1>4, <1>6, RowsKept, ReportsKept DEF Inv, DriveKept

(* The row record_mapping writes names the node of the call.               *)
LEMMA RecordStep == ASSUME Inv, Record PROVE Inv'
<1> DEFINE o   == Head(ops)
           upload == o.op = "UploadNew"
           row == [link |-> step.link, parent |-> step.into, folder |-> ~upload,
                   rev |-> IF upload /\ o.path \in DOMAIN disk
                             THEN disk[o.path].rev ELSE 0,
                   materialized |-> upload]
<1>1. /\ UNCHANGED <<disk, drive, fsEvents, unseen, localRx, remoteRx>>
      /\ UNCHANGED <<buf, stamp, status, fetched, edits, faults, restarts>>
      /\ step.at = "record" /\ NextOp /\ rows' = Put(rows, o.rel, row)
  BY DEF Record, watcherVars, boundVars, At
<1>2. /\ ops # <<>> /\ o.rel \in Rels /\ o.op \in {"UploadNew", "CreateRemoteDir"}
  BY <1>1, SendingType
<1>3. IsNode(step.link, o.rel, step.into, o.op = "CreateRemoteDir")
  BY <1>1 DEF Inv, StepFaithful, At
<1>4. upload \in BOOLEAN /\ (~upload) = (o.op = "CreateRemoteDir")
  BY <1>2
<1>5. o.path \in DOMAIN disk => disk[o.path].rev \in Nat
  BY DEF Inv, TypeOK, Entry
<1>6. step.link \in Links /\ step.into \in Links
  BY DEF Inv, TypeOK, Step
<1>7. /\ row \in Row /\ row.link = step.link /\ row.parent = step.into
      /\ row.folder = (o.op = "CreateRemoteDir")
  <2> HIDE DEF upload, o
  <2> QED BY <1>4, <1>5, <1>6 DEF Row
<1> HIDE DEF row, o
<1>8. /\ DOMAIN rows' \subseteq Rels
      /\ \A r \in DOMAIN rows' : rows'[r] \in Row
      /\ RowsFaithful'
  BY <1>1, <1>2, <1>3, <1>7, PutRow
<1>9. ops' \in Seq(Operation) /\ step' \in Step /\ StepFaithful'
  BY <1>1, <1>2, NextOpType
<1>10. TypeOK' /\ DriveKept
  BY <1>1, <1>8, <1>9, NoEffect DEF Inv, TypeOK
<1> QED BY <1>1, <1>8, <1>9, <1>10, ReportsKept DEF Inv, DriveKept

-----------------------------------------------------------------------------
(* Restarts                                                                *)

(* Aborting the agent's task forgets everything in progress.               *)
LEMMA AbortStep == ASSUME Inv, Abort PROVE Inv'
<1>1. /\ UNCHANGED <<disk, drive, unseen, stamp, rows, status, edits, faults>>
      /\ restarts' = restarts + 1
      /\ fsEvents' = <<>> /\ localRx' = <<>> /\ remoteRx' = <<>>
      /\ buf' = [local |-> <<>>, remote |-> <<>>]
      /\ ops' = <<>> /\ fetched' = {} /\ step' = Goto("down")
  BY DEF Abort
<1>2. step' \in Step /\ StepFaithful'
  BY <1>1, GotoType, StepForgotten DEF Places
<1>3. ReportsFaithful'
  BY <1>1 DEF ReportsFaithful
<1>4. TypeOK' /\ DriveKept
  BY <1>1, <1>2, NoEffect DEF Inv, TypeOK
<1> QED BY <1>1, <1>2, <1>3, <1>4, RowsKept DEF Inv, DriveKept

(* A new agent starts with an empty memory.                                *)
LEMMA StartStep == ASSUME Inv, Start PROVE Inv'
<1>1. /\ UNCHANGED <<disk, drive, fsEvents, unseen, localRx, remoteRx>>
      /\ UNCHANGED <<buf, ops, stamp, rows, status, fetched>>
      /\ UNCHANGED <<edits, faults, restarts>> /\ step' = Goto("select")
  BY DEF Start, watcherVars, boundVars
<1>2. step' \in Step /\ StepFaithful'
  BY <1>1, GotoType, StepForgotten DEF Places
<1>3. TypeOK' /\ DriveKept
  BY <1>1, <1>2, NoEffect DEF Inv, TypeOK
<1> QED BY <1>1, <1>2, <1>3, RowsKept, ReportsKept DEF Inv, DriveKept

-----------------------------------------------------------------------------
(* The invariant                                                           *)

(* The invariant holds initially.                                          *)
LEMMA InvInit == ASSUME Init PROVE Inv
<1>1. TypeOK
  <2>1. step \in Step
    BY GotoType DEF Init, Places
  <2>2. 0 \in 0 .. MaxStamp
    BY NamesAssumption
  <2> QED BY <2>1, <2>2 DEF Init, TypeOK
<1>2. StepFaithful
  BY GotoType DEF Init, StepFaithful, At, Places
<1>3. RowsFaithful /\ TreeFaithful /\ ReportsFaithful
  BY DEF Init, RowsFaithful, TreeFaithful, ReportsFaithful
<1> QED BY <1>1, <1>2, <1>3 DEF Inv

(* Every step keeps the invariant: one case per action of Next.            *)
LEMMA InvNext == ASSUME Inv, [Next]_vars PROVE Inv'
<1>1. CASE User
  BY <1>1, UserStep
<1>2. CASE Watchers
  BY <1>2, TranslateStep, ReportStep DEF Watchers
<1>3. CASE Loop
  BY <1>3, RecvLocalStep, RecvRemoteStep, BeginCycleStep, HeartbeatStep,
     FinishStep DEF Loop, Tick
<1>4. CASE Propagate
  BY <1>4, SkipStep, DeleteRemoteStep, FindParentStep, WalkRowStep,
     WalkCreateStep, WalkRecordStep, WalkFailStep, SendOkStep, SendFailStep,
     RecordStep DEF Propagate
<1>5. CASE Abort \/ Start
  BY <1>5, AbortStep, StartStep
<1>6. CASE UNCHANGED vars
  <2>1. /\ UNCHANGED <<disk, drive, fsEvents, unseen, localRx, remoteRx>>
        /\ UNCHANGED <<buf, ops, step, stamp, rows, status, fetched>>
        /\ UNCHANGED <<edits, faults, restarts>>
    BY <1>6 DEF vars, watcherVars, agentVars, boundVars
  <2>2. TypeOK' /\ DriveKept
    BY <2>1, NoEffect DEF Inv, TypeOK
  <2> QED BY <2>1, <2>2, Kept
<1> QED BY <1>1, <1>2, <1>3, <1>4, <1>5, <1>6 DEF Next

(* Every reachable state satisfies the inductive invariant.                *)
THEOREM EngineInvariant == Spec => []Inv
<1>1. Init => Inv
  BY InvInit
<1>2. Inv /\ [Next]_vars => Inv'
  BY InvNext
<1> QED BY <1>1, <1>2, PTL DEF Spec

(* The engine's variables keep their types, for every choice of constants. *)
THEOREM EngineTypes == Spec => []TypeOK
<1>1. Inv => TypeOK
  BY DEF Inv
<1> QED BY <1>1, EngineInvariant, PTL

(* The mappings table names only nodes that are where it says they are,    *)
(* for all trees, interleavings, faults and restarts.                      *)
THEOREM RowsAreFaithful == Spec => []RowsFaithful
<1>1. Inv => RowsFaithful
  BY DEF Inv
<1> QED BY <1>1, EngineInvariant, PTL

-----------------------------------------------------------------------------
(* Selective sync                                                          *)

(* No conflict copy of a file in the root is named like an excluded folder *)
(* (the suffix of conflict.rs is put before the extension).                *)
CopiesNotExcluded ==
  \A rel \in LocalRels, s \in Stamps :
    Len(rel) = 1 => CopyName(LeafOf(rel), s) \notin Excluded

(* A top-level name is not excluded, or local programs work there.         *)
Mirrorable(name) == name \in Excluded => \E r \in LocalRels : r[1] = name

Selected(o) == o.op # "Skip" => Mirrorable(o.rel[1])

(* Rows and the operations that will write some are of selected folders.   *)
SelectionInv ==
  /\ \A rel \in DOMAIN rows : Mirrorable(rel[1])
  /\ \A i \in DOMAIN ops : Selected(ops[i])

(* A conflict copy lies next to the file: in its top-level folder.         *)
LEMMA CopyMirrorable ==
  ASSUME CopiesNotExcluded, NEW rel \in LocalRels, NEW s \in Stamps
  PROVE  Mirrorable(CopyRel(rel, s)[1])
<1> DEFINE p    == ParentOf(rel)
           name == CopyName(LeafOf(rel), s)
<1>1. rel \in Rels /\ name \in Names
  BY NamesAssumption
<1>2. /\ Len(rel) \in Nat \ {0} /\ p \in Seq(Names) /\ Len(p) = Len(rel) - 1
  BY <1>1, PathSplit
<1>3. CopyRel(rel, s) = Append(p, name)
  BY DEF CopyRel
<1>4. CASE Len(rel) = 1
  <2>1. name \notin Excluded
    BY <1>4 DEF CopiesNotExcluded
  <2> HIDE DEF p, name
  <2>2. CopyRel(rel, s)[1] = name
    BY <1>1, <1>2, <1>3, <1>4, AppendProperties
  <2> QED BY <2>1, <2>2 DEF Mirrorable
<1>5. CASE Len(rel) # 1
  <2>1. 1 \in 1 .. Len(p) /\ Len(rel) - 1 \in 0 .. Len(rel)
    BY <1>2, <1>5
  <2>2. p[1] = rel[1]
    BY <1>1, <1>2, <2>1, PathSplit, TakeNames DEF ParentOf
  <2> HIDE DEF p, name
  <2>3. CopyRel(rel, s)[1] = p[1]
    BY <1>1, <1>2, <1>3, <2>1, AppendProperties
  <2> QED BY <2>2, <2>3 DEF Mirrorable
<1> QED BY <1>4, <1>5

(* What reconcile() returns comes from an observation of either side.      *)
LEMMA ReconcileOps ==
  ASSUME NEW local \in Seq(LocalChange), NEW remote \in Seq(RemoteChange)
  PROVE  \A i \in DOMAIN Reconcile(local, remote) :
           \/ \E c \in LocalChange  : Reconcile(local, remote)[i] = LocalOp(c)
           \/ \E e \in RemoteChange : Reconcile(local, remote)[i] = RemoteOp(e)
<1> DEFINE L == [i \in 1 .. Len(local) |-> LocalOp(local[i])]
           M == [i \in 1 .. Len(remote) |-> RemoteOp(remote[i])]
<1>1. Len(local) \in Nat /\ Len(remote) \in Nat
  BY LenProperties
<1>2. /\ \A i \in 1 .. Len(local) : \E c \in LocalChange : L[i] = LocalOp(c)
      /\ \A i \in 1 .. Len(remote) : \E e \in RemoteChange : M[i] = RemoteOp(e)
  BY ElementOfSeq
<1>3. /\ L \in Seq(Operation) /\ Len(L) = Len(local)
      /\ M \in Seq(Operation) /\ Len(M) = Len(remote)
  <2>1. \A i \in 1 .. Len(local) : LocalOp(local[i]) \in Operation
    BY ElementOfSeq, LocalOpType
  <2>2. \A i \in 1 .. Len(remote) : RemoteOp(remote[i]) \in Operation
    BY ElementOfSeq, RemoteOpType
  <2> QED BY <1>1, <2>1, <2>2
<1>4. Reconcile(local, remote) = L \o M
  BY DEF Reconcile
<1> HIDE DEF L, M
<1>5. /\ DOMAIN (L \o M) = 1 .. Len(L) + Len(M)
      /\ \A i \in 1 .. Len(L) + Len(M) :
           (L \o M)[i] = IF i <= Len(L) THEN L[i] ELSE M[i - Len(L)]
  <2>1. L \o M \in Seq(Operation) /\ Len(L \o M) = Len(L) + Len(M)
    BY <1>3, ConcatProperties
  <2>2. DOMAIN (L \o M) = 1 .. Len(L \o M)
    BY <2>1, LenProperties
  <2>3. \A i \in 1 .. Len(L) + Len(M) :
          (L \o M)[i] = IF i <= Len(L) THEN L[i] ELSE M[i - Len(L)]
    BY <1>3, ConcatProperties
  <2> QED BY <2>1, <2>2, <2>3
<1>6. ASSUME NEW i \in 1 .. Len(L) + Len(M)
      PROVE  \/ \E c \in LocalChange  : (L \o M)[i] = LocalOp(c)
             \/ \E e \in RemoteChange : (L \o M)[i] = RemoteOp(e)
  <2>1. CASE i <= Len(L)
    <3>1. i \in 1 .. Len(local)
      BY <1>1, <1>3, <2>1
    <3>2. (L \o M)[i] = L[i]
      BY <1>5, <2>1
    <3> QED BY <1>2, <3>1, <3>2
  <2>2. CASE ~ (i <= Len(L))
    <3>1. i - Len(L) \in 1 .. Len(remote)
      BY <1>1, <1>3, <2>2
    <3>2. (L \o M)[i] = M[i - Len(L)]
      BY <1>5, <2>2
    <3> QED BY <1>2, <3>1, <3>2
  <2> QED BY <2>1, <2>2
<1> QED BY <1>4, <1>5, <1>6

(* It drops what was observed in excluded folders of the drive.            *)
LEMMA ReconcileSelects ==
  ASSUME NEW local \in Seq(LocalChange), NEW remote \in Seq(RemoteChange)
  PROVE  \A i \in DOMAIN Reconcile(local, remote) : Selected(Reconcile(local, remote)[i])
<1>1. ASSUME NEW c \in LocalChange PROVE Selected(LocalOp(c))
  <2>1. c.rel \in LocalRels
    BY DEF LocalChange
  <2>2. LocalOp(c).rel = c.rel
    BY DEF LocalOp
  <2> QED BY <2>1, <2>2 DEF Selected, Mirrorable
<1>2. ASSUME NEW e \in RemoteChange PROVE Selected(RemoteOp(e))
  <2>1. CASE IsExcluded(e.rel)
    BY <2>1 DEF RemoteOp, Selected, Skip
  <2>2. CASE ~IsExcluded(e.rel)
    <3>1. RemoteOp(e).rel = e.rel
      BY <2>2 DEF RemoteOp
    <3> QED BY <2>2, <3>1 DEF Selected, Mirrorable, IsExcluded
  <2> QED BY <2>1, <2>2
<1> QED BY <1>1, <1>2, ReconcileOps

(* resolve() moves uploads to copies next to them and changes nothing else.*)
LEMMA ResolveSelects ==
  ASSUME CopiesNotExcluded, NEW R \in Seq(Operation), NEW s,
         \A i \in DOMAIN R : IsUpload(R[i]) => R[i].rel \in LocalRels,
         \A i \in DOMAIN R : Selected(R[i]),
         Renamed(R) # {} => s \in Stamps,
         NEW batch \in Resolve(R, s)
  PROVE  \A i \in DOMAIN batch : Selected(batch[i])
<1> DEFINE Resolved(i) == IF i \in Renamed(R) THEN KeepBoth(R[i], s) ELSE R[i]
<1>1. PICK perm \in Injection(DOMAIN R, DOMAIN R) :
        batch = [i \in DOMAIN R |-> Resolved(perm[i])]
  BY DEF Resolve
<1>2. perm \in [DOMAIN R -> DOMAIN R]
  BY DEF Injection
<1>3. ASSUME NEW i \in DOMAIN R PROVE Selected(Resolved(i))
  <2>1. CASE i \in Renamed(R)
    <3>1. IsUpload(R[i]) /\ R[i].rel \in LocalRels /\ s \in Stamps
      BY <2>1 DEF Renamed
    <3>2. R[i] \in [op : {"UploadNew"}, rel : Rels, path : LocalRels]
      BY <3>1, LenProperties, ElementOfSeq DEF Operation, IsUpload, Skip
    <3>3. KeepBoth(R[i], s).rel = CopyRel(R[i].rel, s)
      BY <3>2 DEF KeepBoth
    <3> QED BY <2>1, <3>1, <3>3, CopyMirrorable DEF Selected
  <2>2. CASE i \notin Renamed(R)
    BY <2>2
  <2> QED BY <2>1, <2>2
<1> HIDE DEF Resolved
<1> QED BY <1>1, <1>2, <1>3

(* Taking a batch stores rows of selected folders only.                    *)
LEMMA BeginCycleSelects ==
  ASSUME CopiesNotExcluded, Inv, SelectionInv, BeginCycle
  PROVE  SelectionInv'
<1> DEFINE R == Reconcile(buf.local, buf.remote)
<1>1. /\ stamp' <= MaxStamp
      /\ stamp' = IF Renamed(R) = {} THEN stamp ELSE stamp + 1
  BY DEF BeginCycle
<1>2. buf.local \in Seq(LocalChange) /\ buf.remote \in Seq(RemoteChange)
  BY DEF Inv, TypeOK
<1>3. /\ R \in Seq(Operation)
      /\ \A i \in DOMAIN R : IsUpload(R[i]) => R[i].rel \in LocalRels
      /\ \A i \in DOMAIN R : Selected(R[i])
  BY <1>2, ReconcileType, ReconcileSelects
<1>4. Renamed(R) # {} => stamp + 1 \in Stamps
  BY <1>1, NamesAssumption DEF Inv, TypeOK, Stamps
<1>5. PICK batch \in Resolve(R, stamp + 1) :
        ops' = batch /\ (rows' = UpsertBatch(batch) \/ UNCHANGED rows)
  BY DEF BeginCycle
<1> HIDE DEF R
<1>6. \A i \in DOMAIN batch : Selected(batch[i])
  BY <1>3, <1>4, ResolveSelects
<1>7. ASSUME NEW rel \in DOMAIN rows' PROVE Mirrorable(rel[1])
  <2>1. CASE rel \in DOMAIN rows
    BY <2>1 DEF SelectionInv
  <2>2. CASE rel \notin DOMAIN rows
    <3>1. \E i \in DOMAIN batch : IsPlaceholder(batch[i]) /\ batch[i].rel = rel
      BY <1>5, <1>7, <2>2 DEF UpsertBatch
    <3> QED BY <1>6, <3>1 DEF Selected, IsPlaceholder
  <2> QED BY <2>1, <2>2
<1> QED BY <1>5, <1>6, <1>7 DEF SelectionInv

(* Going on to the next operation keeps the others.                        *)
LEMMA NextOpSelects ==
  ASSUME Inv, SelectionInv, ops # <<>>, ops' = Tail(ops)
  PROVE  \A i \in DOMAIN ops' : Selected(ops'[i])
<1>1. ops \in Seq(Operation) /\ DOMAIN ops = 1 .. Len(ops) /\ Len(ops) \in Nat \ {0}
  BY LenProperties, EmptySeq DEF Inv, TypeOK
<1>2. /\ Len(Tail(ops)) = Len(ops) - 1 /\ DOMAIN Tail(ops) = 1 .. Len(ops) - 1
      /\ \A i \in 1 .. Len(ops) - 1 : Tail(ops)[i] = ops[i + 1]
  BY <1>1, HeadTailProperties
<1>3. ASSUME NEW i \in 1 .. Len(ops) - 1 PROVE Selected(Tail(ops)[i])
  <2>1. i + 1 \in DOMAIN ops
    BY <1>1
  <2> QED BY <1>2, <2>1 DEF SelectionInv
<1> QED BY <1>2, <1>3

(* A row written for the operation at the head, or for a folder above it,  *)
(* is of the operation's top-level folder.                                 *)
LEMMA HeadSelected ==
  ASSUME Inv, SelectionInv, ops # <<>>,
         Head(ops).op \in {"UploadNew", "CreateRemoteDir"}
  PROVE  Mirrorable(Head(ops).rel[1])
<1>1. Head(ops) = ops[1] /\ 1 \in DOMAIN ops
  BY HeadTailProperties, LenProperties, EmptySeq DEF Inv, TypeOK
<1> QED BY <1>1 DEF SelectionInv, Selected

(* So is the row of a folder on the way to it.                              *)
LEMMA SegmentTop ==
  ASSUME Inv, step.at \in {"walk", "walked"}
  PROVE  Segment[1] = Head(ops).rel[1]
<1>1. Head(ops).rel \in Seq(Names) /\ step.depth \in 1 .. Len(Head(ops).rel)
  BY SegmentType DEF Rels
<1>2. step.depth \in 0 .. Len(Head(ops).rel) /\ 1 \in 1 .. step.depth
  BY <1>1, LenProperties
<1> QED BY <1>1, <1>2, TakeNames DEF Segment

(* A step that adds no row and no operation.                               *)
LEMMA SelectionKept ==
  ASSUME SelectionInv, rows' = rows, ops' = ops
  PROVE  SelectionInv'
BY DEF SelectionInv

(* The operations and rows of the propagator.                              *)
LEMMA PropagateSelects ==
  ASSUME Inv, SelectionInv, Propagate
  PROVE  SelectionInv'
<1>1. CASE SkipOp \/ WalkFail
  <2>1. rows' = rows /\ ops' = Tail(ops) /\ (At("walk") \/ ops # <<>>)
    BY <1>1 DEF SkipOp, WalkFail, NextOp
  <2>2. ops # <<>>
    BY <2>1, SegmentType DEF At
  <2> QED BY <2>1, <2>2, NextOpSelects DEF SelectionInv
<1>2. CASE DeleteRemote
  <2>1. /\ ops' = Tail(ops) /\ ops # <<>>
        /\ DOMAIN rows' \subseteq DOMAIN rows
    BY <1>2 DEF DeleteRemote, NextOp, Drop
  <2> QED BY <2>1, NextOpSelects DEF SelectionInv
<1>3. CASE FindParent \/ WalkRow \/ WalkCreate \/ SendOk
  BY <1>3, SelectionKept DEF FindParent, WalkRow, WalkCreate, SendOk
<1>4. CASE WalkRecord
  <2>1. /\ ops' = ops /\ step.at = "walked"
        /\ DOMAIN rows' = DOMAIN rows \cup {Segment}
    BY <1>4 DEF WalkRecord, At, Put
  <2>2. Mirrorable(Segment[1])
    BY <2>1, SegmentType, SegmentTop, HeadSelected
  <2> QED BY <2>1, <2>2 DEF SelectionInv
<1>5. CASE SendFail
  <2>1. rows' = rows /\ step.at = "send" /\ (ops' = ops \/ ops' = Tail(ops))
    BY <1>5 DEF SendFail, RetryOrDrop, NextOp, At
  <2>2. ops # <<>>
    BY <2>1, SendingType
  <2> QED BY <2>1, <2>2, SelectionKept, NextOpSelects DEF SelectionInv
<1>6. CASE Record
  <2>1. /\ ops' = Tail(ops) /\ step.at = "record"
        /\ DOMAIN rows' = DOMAIN rows \cup {Head(ops).rel}
    BY <1>6 DEF Record, NextOp, At, Put
  <2>2. ops # <<>> /\ Mirrorable(Head(ops).rel[1])
    BY <2>1, SendingType, HeadSelected
  <2> QED BY <2>1, <2>2, NextOpSelects DEF SelectionInv
<1> QED BY <1>1, <1>2, <1>3, <1>4, <1>5, <1>6 DEF Propagate

(* Every step of the system keeps the rows and the operations selected.    *)
LEMMA SelectionNext ==
  ASSUME CopiesNotExcluded, Inv, SelectionInv, [Next]_vars
  PROVE  SelectionInv'
<1>1. CASE User
  <2>1. UNCHANGED agentVars
    BY <1>1, ZenonT(60) DEF User, LocalWrite, LocalMkdir, LocalRemove, RemoteWrite,
       RemoteMkdir, RemoteRename, RemoteTrash
  <2> QED BY <2>1, SelectionKept DEF agentVars
<1>2. CASE Watchers \/ RecvLocal \/ RecvRemote \/ Heartbeat \/ UNCHANGED vars
  BY <1>2, SelectionKept DEF Watchers, TranslateEvent, ReportRemote, RecvLocal,
     RecvRemote, Heartbeat, vars, agentVars
<1>3. CASE Tick
  BY <1>3, BeginCycleSelects DEF Tick
<1>4. CASE FinishCycle \/ Start
  BY <1>4, SelectionKept DEF FinishCycle, Start
<1>5. CASE Propagate
  BY <1>5, PropagateSelects
<1>6. CASE Abort
  BY <1>6 DEF Abort, SelectionInv
<1> QED BY <1>1, <1>2, <1>3, <1>4, <1>5, <1>6 DEF Next, Loop

(* Selective sync: nothing of an excluded top-level folder of the drive is *)
(* ever stored, whatever is renamed into it or trashed, unless local       *)
(* programs work there or conflict copies take its name                    *)
(* (reconciliation.rs:108).                                                *)
THEOREM ExcludedStaysOut == CopiesNotExcluded /\ Spec => []ExcludedNotMirrored
<1> SUFFICES ASSUME CopiesNotExcluded PROVE Spec => []ExcludedNotMirrored
  OBVIOUS
<1>1. Init => SelectionInv
  BY DEF Init, SelectionInv
<1>2. Inv /\ SelectionInv /\ [Next]_vars => SelectionInv'
  BY SelectionNext
<1>3. SelectionInv => ExcludedNotMirrored
  BY DEF SelectionInv, Mirrorable, ExcludedNotMirrored
<1> QED BY <1>1, <1>2, <1>3, EngineInvariant, PTL DEF Spec

-----------------------------------------------------------------------------
(* Keeping both                                                            *)

(* The paths of the local folder and of the folders on the way to them,    *)
(* the conflict copies of the first s stamps, and all paths of the drive.  *)
LocalPaths == UNION {{SubSeq(r, 1, n) : n \in 1 .. Len(r)} : r \in LocalRels}
Copies(s)  == {CopyRel(r, k) : r \in LocalRels, k \in 1 .. s}
Named(s)   == RemoteRels \cup LocalPaths \cup Copies(s)

(* A conflict copy gets a name that nothing had: neither side uses names   *)
(* with the suffix, and no two timestamps are the same.                    *)
CopiesFresh == \A r \in LocalRels, k \in Stamps : CopyRel(r, k) \notin Named(k - 1)

PlacesNamed == \A l \in DOMAIN drive : \A w \in drive[l].was : w.rel \in Named(stamp)

WorksIn(o, s) ==
  o.op \in {"UploadNew", "CreateRemoteDir"} => o.rel \in LocalRels \cup Copies(s)

OpsNamed == \A i \in DOMAIN ops : WorksIn(ops[i], stamp)

(* No upload left in the cycle goes where a download of the cycle is.      *)
Apart ==
  \A i \in DOMAIN ops, w \in fetched : ops[i].op = "UploadNew" => ops[i].rel # w.rel

KeepInv == PlacesNamed /\ OpsNamed /\ Apart

(* A name once given stays one that the drive may have.                    *)
LEMMA NamedGrows ==
  ASSUME NEW s \in Nat, NEW t \in Nat, s <= t
  PROVE  Named(s) \subseteq Named(t) /\ Copies(s) \subseteq Copies(t)
<1>1. 1 .. s \subseteq 1 .. t
  OBVIOUS
<1> QED BY <1>1 DEF Named, Copies

(* A copy lies where its file lies.                                        *)
LEMMA CopyPrefix ==
  ASSUME NEW r \in LocalRels, NEW k \in Stamps
  PROVE  /\ CopyRel(r, k) \in Seq(Names) /\ Len(CopyRel(r, k)) = Len(r)
         /\ Len(r) \in Nat \ {0}
         /\ \A n \in 1 .. Len(r) - 1 : SubSeq(CopyRel(r, k), 1, n) = SubSeq(r, 1, n)
<1> DEFINE q    == ParentOf(r)
           name == CopyName(LeafOf(r), k)
           rel  == CopyRel(r, k)
<1>1. /\ r \in Seq(Names) /\ Len(r) \in Nat \ {0} /\ name \in Names
      /\ q \in Seq(Names) /\ Len(q) = Len(r) - 1
  BY PathSplit, NamesAssumption
<1>2. \A i \in 1 .. Len(r) - 1 : q[i] = r[i]
  BY <1>1, TakeNames, Len(r) - 1 \in 0 .. Len(r) DEF ParentOf
<1>3. rel = Append(q, name)
  BY DEF CopyRel
<1> HIDE DEF q, name, rel
<1>4. /\ rel \in Seq(Names) /\ Len(rel) = Len(r)
      /\ \A i \in 1 .. Len(r) - 1 : rel[i] = r[i]
  BY <1>1, <1>2, <1>3, AppendProperties
<1>5. ASSUME NEW n \in 1 .. Len(r) - 1
      PROVE  SubSeq(rel, 1, n) = SubSeq(r, 1, n)
  <2>1. n \in 0 .. Len(rel) /\ n \in 0 .. Len(r)
    BY <1>1, <1>4
  <2>2. /\ SubSeq(rel, 1, n) \in Seq(Names) /\ Len(SubSeq(rel, 1, n)) = n
        /\ \A i \in 1 .. n : SubSeq(rel, 1, n)[i] = rel[i]
    BY <1>4, <2>1, TakeNames
  <2>3. /\ SubSeq(r, 1, n) \in Seq(Names) /\ Len(SubSeq(r, 1, n)) = n
        /\ \A i \in 1 .. n : SubSeq(r, 1, n)[i] = r[i]
    BY <1>1, <2>1, TakeNames
  <2>4. \A i \in 1 .. n : i \in 1 .. Len(r) - 1
    BY <1>1
  <2> QED BY <1>4, <2>2, <2>3, <2>4, SeqEqual
<1> QED BY <1>1, <1>4, <1>5 DEF rel

(* The folders on the way to a path are local paths; so is the path itself *)
(* unless it is a copy, which lies in the folder of its file.              *)
LEMMA OnTheWay ==
  ASSUME NEW s \in 0 .. MaxStamp, NEW rel \in LocalRels \cup Copies(s)
  PROVE  /\ rel \in Named(s)
         /\ \A n \in 1 .. Len(rel) - 1 : SubSeq(rel, 1, n) \in LocalPaths
<1>1. CASE rel \in LocalRels
  <2>1. rel \in Seq(Names) /\ Len(rel) \in Nat \ {0}
    BY <1>1, NamesAssumption, PathSplit
  <2>2. \A n \in 1 .. Len(rel) : SubSeq(rel, 1, n) \in LocalPaths
    BY <1>1 DEF LocalPaths
  <2>3. SubSeq(rel, 1, Len(rel)) = rel
    BY <2>1, TakeNames, SeqEqual, Len(rel) \in 0 .. Len(rel)
  <2>4. rel \in LocalPaths
    BY <2>1, <2>2, <2>3, Len(rel) \in 1 .. Len(rel)
  <2>5. \A n \in 1 .. Len(rel) - 1 : n \in 1 .. Len(rel)
    BY <2>1
  <2> QED BY <2>2, <2>4, <2>5 DEF Named
<1>2. CASE rel \in Copies(s)
  <2>1. PICK r \in LocalRels, k \in 1 .. s : rel = CopyRel(r, k)
    BY <1>2 DEF Copies
  <2>2. k \in Stamps
    BY NamesAssumption DEF Stamps
  <2>3. /\ Len(rel) = Len(r) /\ Len(r) \in Nat
        /\ \A n \in 1 .. Len(r) - 1 : SubSeq(rel, 1, n) = SubSeq(r, 1, n)
    BY <2>1, <2>2, CopyPrefix
  <2>4. ASSUME NEW n \in 1 .. Len(rel) - 1
        PROVE  SubSeq(rel, 1, n) \in LocalPaths
    <3>1. n \in 1 .. Len(r) - 1 /\ n \in 1 .. Len(r)
      BY <2>3
    <3> QED BY <2>1, <2>3, <3>1 DEF LocalPaths
  <2> QED BY <1>2, <2>4 DEF Named
<1> QED BY <1>1, <1>2

(* All places of the drive's nodes are old ones, but for those at rel.     *)
PlacesGrow(rel) ==
  \A l \in DOMAIN drive' : \A w \in drive'[l].was :
    w.rel = rel \/ (l \in DOMAIN drive /\ w \in drive[l].was)

(* A created node adds one place; no other node changes.                   *)
LEMMA CreateTouches ==
  ASSUME TypeOK, NEW p, IsDir(p), NEW name \in Names, NEW folder \in BOOLEAN,
         NEW rev \in Nat, Create(p, name, folder, rev)
  PROVE  /\ PlacesGrow(Append(RelOf(p), name))
         /\ \A l \in DOMAIN drive : drive'[l] = drive[l]
<1> DEFINE rel  == Append(RelOf(p), name)
           node == [parent |-> p, rel |-> rel, folder |-> folder,
                    rev |-> rev, revs |-> {rev},
                    was |-> {[rel |-> rel, parent |-> p]},
                    alive |-> TRUE]
<1>1. /\ Len(drive) \in Nat /\ DOMAIN drive = 1 .. Len(drive)
      /\ p \in Links /\ RelOf(p) \in Seq(Names)
  BY DriveType DEF IsDir, IsParent
<1>2. rel \in Rels
  BY <1>1, PathJoin
<1>3. node \in Node
  <2> HIDE DEF rel
  <2> QED BY <1>1, <1>2 DEF Node
<1>4. node.was = {[rel |-> rel, parent |-> p]}
  OBVIOUS
<1>5. drive' = Append(drive, node)
  BY DEF Create
<1> HIDE DEF node, rel
<1>6. /\ DOMAIN drive' = 1 .. Len(drive) + 1
      /\ \A l \in DOMAIN drive : drive'[l] = drive[l]
      /\ drive'[Len(drive) + 1] = node
  BY <1>1, <1>3, <1>5 DEF TypeOK
<1>7. \A l \in DOMAIN drive' : l \in DOMAIN drive \/ drive'[l] = node
  BY <1>1, <1>6
<1>8. \A w \in node.was : w.rel = rel
  BY <1>4
<1> QED BY <1>6, <1>7, <1>8 DEF PlacesGrow, rel

(* A revised file stays where it is.                                       *)
LEMMA ReviseTouches ==
  ASSUME TypeOK, NEW l \in DOMAIN drive, NEW rev \in Nat, Revise(l, rev)
  PROVE  /\ \A rel : PlacesGrow(rel)
         /\ \A m \in DOMAIN drive : m # l => drive'[m] = drive[m]
<1> DEFINE node == [drive[l] EXCEPT !.rev = rev, !.revs = @ \cup {rev}]
<1>1. drive \in Seq(Node) /\ DOMAIN drive = 1 .. Len(drive)
  BY DriveType DEF TypeOK
<1>2. node \in Node /\ node.was = drive[l].was
  BY DriveType DEF Node
<1>3. drive' = [drive EXCEPT ![l] = node]
  BY DEF Revise
<1> HIDE DEF node
<1>4. /\ DOMAIN drive' = DOMAIN drive
      /\ \A m \in DOMAIN drive : drive'[m] = IF m = l THEN node ELSE drive[m]
  BY <1>1, <1>2, <1>3, ExceptSeq, LenProperties
<1> QED BY <1>2, <1>4 DEF PlacesGrow

(* An upload adds its own path, and revises no file but the one there.     *)
LEMMA StoreFileTouches ==
  ASSUME TypeOK, NEW p, IsParent(p), NEW name \in Names, NEW rev \in Nat,
         NEW link, StoreFile(p, name, rev, link)
  PROVE  /\ PlacesGrow(Append(RelOf(p), name))
         /\ \A m \in DOMAIN drive :
              drive'[m] # drive[m] => m \in Children(p, name)
<1> IsDir(p)
  BY DEF StoreFile, CanUpload, IsFolder, IsDir
<1>1. CASE Create(p, name, FALSE, rev)
  BY <1>1, CreateTouches
<1>2. CASE link \in Children(p, name) /\ Revise(link, rev)
  <2>1. link \in DOMAIN drive
    BY <1>2 DEF Children
  <2> QED BY <1>2, <2>1, ReviseTouches
<1> QED BY <1>1, <1>2 DEF StoreFile

(* A folder's call adds its own path, and changes no file.                 *)
LEMMA StoreFolderTouches ==
  ASSUME TypeOK, NEW p, NEW name \in Names, NEW link, StoreFolder(p, name, link)
  PROVE  /\ PlacesGrow(Append(RelOf(p), name))
         /\ \A m \in DOMAIN drive : drive'[m] = drive[m]
BY CreateTouches DEF StoreFolder, CanCreateFolder, IsFolder, IsDir

(* The call of an operation changes a file of the drive only if it is an   *)
(* upload to the path of that file.                                        *)
LEMMA CallTouches ==
  ASSUME Inv, step.at = "send", NEW link, Effect(link)
  PROVE  /\ PlacesGrow(Head(ops).rel)
         /\ \A m \in DOMAIN drive : drive'[m] # drive[m] =>
              Head(ops).op = "UploadNew" /\ drive[m].rel = Head(ops).rel
<1> DEFINE name == LeafOf(Head(ops).rel)
<1>0. IsDir(step.into)
  BY DEF Effect, StoreFile, CanUpload, StoreFolder, CanCreateFolder, IsFolder, IsDir
<1>1. /\ ops # <<>> /\ IsParent(step.into) /\ name \in Names
      /\ Head(ops).op \in {"UploadNew", "CreateRemoteDir"}
      /\ Append(RelOf(step.into), name) = Head(ops).rel
  BY <1>0, SendingType
<1> HIDE DEF name
<1>2. CASE Head(ops).op = "UploadNew"
  <2> DEFINE rev == disk[Head(ops).path].rev
  <2>1. /\ Head(ops).path \in DOMAIN disk
        /\ StoreFile(step.into, name, rev, link)
    BY <1>2 DEF Effect, Readable, name
  <2>2. rev \in Nat
    BY <2>1 DEF Inv, TypeOK, Entry
  <2> HIDE DEF rev
  <2>3. /\ PlacesGrow(Head(ops).rel)
        /\ \A m \in DOMAIN drive : drive'[m] # drive[m] => m \in Children(step.into, name)
    BY <1>1, <2>1, <2>2, StoreFileTouches DEF Inv
  <2>4. ASSUME NEW m \in Children(step.into, name) PROVE drive[m].rel = Head(ops).rel
    <3>1. /\ m \in DOMAIN drive /\ drive[m].parent = step.into
          /\ LeafOf(drive[m].rel) = name
      BY DEF Children
    <3>2. drive[m].rel \in Rels /\ ParentOf(drive[m].rel) = RelOf(step.into)
      BY <3>1, DriveType DEF Node, Inv, TreeFaithful
    <3> QED BY <1>1, <3>1, <3>2, PathSplit
  <2> QED BY <1>2, <2>3, <2>4
<1>3. CASE Head(ops).op = "CreateRemoteDir"
  BY <1>1, <1>3, StoreFolderTouches DEF Effect, Inv, name
<1> QED BY <1>1, <1>2, <1>3

(* A step that adds no more than a named path to the drive, and no         *)
(* operation to the cycle.                                                 *)
LEMMA PlacesKept ==
  ASSUME PlacesNamed, NEW rel \in Named(stamp), PlacesGrow(rel), stamp' = stamp
  PROVE  PlacesNamed'
<1>1. ASSUME NEW l \in DOMAIN drive', NEW w \in drive'[l].was
      PROVE  w.rel \in Named(stamp)
  BY DEF PlacesGrow, PlacesNamed
<1>2. Named(stamp)' = Named(stamp)
  BY DEF Named, Copies
<1> QED BY <1>1, <1>2 DEF PlacesNamed

(* The drive and the stamps as they were.                                  *)
LEMMA PlacesSame ==
  ASSUME PlacesNamed, drive' = drive, stamp' = stamp
  PROVE  PlacesNamed'
BY DEF PlacesNamed, Named, Copies

(* The cycle as it was, or without the operation at its head.              *)
LEMMA CycleKept ==
  ASSUME Inv, OpsNamed, Apart, stamp' = stamp, fetched' = fetched,
         ops' = ops \/ (ops # <<>> /\ ops' = Tail(ops))
  PROVE  OpsNamed' /\ Apart'
<1>2. ASSUME NEW i \in DOMAIN ops' PROVE \E j \in DOMAIN ops : ops'[i] = ops[j]
  <2>1. CASE ops' = ops
    BY <2>1
  <2>2. CASE ops # <<>> /\ ops' = Tail(ops)
    <3>1. ops \in Seq(Operation) /\ DOMAIN ops = 1 .. Len(ops) /\ Len(ops) \in Nat \ {0}
      BY <2>2, LenProperties, EmptySeq DEF Inv, TypeOK
    <3>2. /\ DOMAIN Tail(ops) = 1 .. Len(ops) - 1
          /\ \A k \in 1 .. Len(ops) - 1 : Tail(ops)[k] = ops[k + 1]
      BY <3>1, HeadTailProperties
    <3>3. i \in 1 .. Len(ops) - 1
      BY <2>2, <3>2, Zenon
    <3>4. i + 1 \in DOMAIN ops
      BY <3>1, <3>3
    <3> QED BY <2>2, <3>2, <3>3, <3>4
  <2> QED BY <2>1, <2>2
<1>3. OpsNamed'
  <2>1. ASSUME NEW i \in DOMAIN ops' PROVE WorksIn(ops'[i], stamp)
    BY <1>2 DEF OpsNamed
  <2> QED BY <2>1 DEF OpsNamed, WorksIn, Copies
<1>4. Apart'
  BY <1>2 DEF Apart
<1> QED BY <1>3, <1>4

(* A step that leaves the drive alone and adds no operation.               *)
LEMMA KeepSame ==
  ASSUME Inv, KeepInv, drive' = drive, stamp' = stamp, fetched' = fetched,
         ops' = ops \/ (ops # <<>> /\ ops' = Tail(ops))
  PROVE  KeepInv'
BY PlacesSame, CycleKept DEF KeepInv

(* The operation at the head is one that works in a named path.            *)
LEMMA HeadNamed ==
  ASSUME Inv, KeepInv, ops # <<>>, Head(ops).op \in {"UploadNew", "CreateRemoteDir"}
  PROVE  /\ Head(ops).rel \in LocalRels \cup Copies(stamp)
         /\ Head(ops).op = "UploadNew" => \A w \in fetched : Head(ops).rel # w.rel
<1>1. Head(ops) = ops[1] /\ 1 \in DOMAIN ops
  BY HeadTailProperties, LenProperties, EmptySeq DEF Inv, TypeOK
<1> QED BY <1>1 DEF KeepInv, OpsNamed, WorksIn, Apart

(* What reconcile() makes of the buffers works in local paths.             *)
LEMMA ReconcileWorks ==
  ASSUME NEW local \in Seq(LocalChange), NEW remote \in Seq(RemoteChange)
  PROVE  \A i \in DOMAIN Reconcile(local, remote) : WorksIn(Reconcile(local, remote)[i], 0)
<1>1. ASSUME NEW c \in LocalChange PROVE WorksIn(LocalOp(c), 0)
  BY DEF LocalChange, LocalOp, WorksIn
<1>2. ASSUME NEW e \in RemoteChange PROVE WorksIn(RemoteOp(e), 0)
  BY DEF RemoteOp, WorksIn, Skip
<1> QED BY <1>1, <1>2, ReconcileOps

(* resolve() renames every upload that meets a download.                   *)
LEMMA ResolveParts ==
  ASSUME NEW s \in Nat, NEW t \in Nat, NEW R \in Seq(Operation),
         \A i \in DOMAIN R : IsUpload(R[i]) => R[i].rel \in LocalRels,
         \A i \in DOMAIN R : WorksIn(R[i], 0),
         NEW T, \A i \in DOMAIN R : IsDownload(R[i]) => R[i].rel \in T,
         Renamed(R) # {} =>
           s \in 1 .. t /\ \A r \in LocalRels : CopyRel(r, s) \notin T,
         NEW batch \in Resolve(R, s)
  PROVE  /\ \A i \in DOMAIN batch : WorksIn(batch[i], t)
         /\ \A i, j \in DOMAIN batch :
              batch[i].op = "UploadNew" /\ IsDownload(batch[j])
                => batch[i].rel # batch[j].rel
<1> DEFINE Resolved(i) == IF i \in Renamed(R) THEN KeepBoth(R[i], s) ELSE R[i]
<1>1. PICK perm \in Injection(DOMAIN R, DOMAIN R) :
        batch = [i \in DOMAIN R |-> Resolved(perm[i])]
  BY DEF Resolve
<1>2. perm \in [DOMAIN R -> DOMAIN R]
  BY DEF Injection
<1>3. ASSUME NEW i \in Renamed(R)
      PROVE  /\ i \in DOMAIN R /\ R[i].rel \in LocalRels
             /\ Resolved(i).op = "UploadNew" /\ Resolved(i).rel = CopyRel(R[i].rel, s)
  <2>1. i \in DOMAIN R /\ IsUpload(R[i]) /\ R[i].rel \in LocalRels
    BY DEF Renamed
  <2>2. R[i] \in [op : {"UploadNew"}, rel : Rels, path : LocalRels]
    BY <2>1, LenProperties, ElementOfSeq DEF Operation, IsUpload, Skip
  <2> QED BY <2>1, <2>2 DEF KeepBoth
<1>4. ASSUME NEW i \in DOMAIN R, i \notin Renamed(R) PROVE Resolved(i) = R[i]
  BY <1>4
<1> HIDE DEF Resolved
<1>5. ASSUME NEW i \in DOMAIN R PROVE WorksIn(Resolved(i), t)
  <2>1. CASE i \in Renamed(R)
    BY <1>3, <2>1 DEF WorksIn, Copies
  <2>2. CASE i \notin Renamed(R)
    <3>1. WorksIn(R[i], 0) /\ Copies(0) \subseteq Copies(t)
      BY NamedGrows
    <3> QED BY <1>4, <2>2, <3>1 DEF WorksIn
  <2> QED BY <2>1, <2>2
<1>6. ASSUME NEW i \in DOMAIN R, NEW j \in DOMAIN R,
             Resolved(i).op = "UploadNew", IsDownload(Resolved(j))
      PROVE  Resolved(i).rel # Resolved(j).rel
  <2>1. j \notin Renamed(R)
    BY <1>3, <1>6 DEF IsDownload
  <2>2. Resolved(j) = R[j] /\ R[j].rel \in T
    BY <1>4, <1>6, <2>1
  <2>3. CASE i \in Renamed(R)
    BY <1>3, <2>2, <2>3
  <2>4. CASE i \notin Renamed(R)
    <3>1. Resolved(i) = R[i] /\ IsUpload(R[i])
      BY <1>4, <1>6, <2>4 DEF IsUpload
    <3>2. ~InConflict(R, R[i].rel)
      BY <2>4, <3>1 DEF Renamed
    <3> QED BY <1>6, <2>2, <3>1, <3>2 DEF InConflict
  <2> QED BY <2>3, <2>4
<1> QED BY <1>1, <1>2, <1>5, <1>6

(* Taking a batch: its uploads go around its downloads.                    *)
LEMMA BeginCycleKeeps ==
  ASSUME CopiesFresh, Inv, KeepInv, BeginCycle
  PROVE  KeepInv'
<1> DEFINE R == Reconcile(buf.local, buf.remote)
<1>1. /\ stamp' <= MaxStamp /\ drive' = drive
      /\ stamp' = IF Renamed(R) = {} THEN stamp ELSE stamp + 1
  BY DEF BeginCycle
<1>2. buf.local \in Seq(LocalChange) /\ buf.remote \in Seq(RemoteChange)
  BY DEF Inv, TypeOK
<1>3. /\ R \in Seq(Operation)
      /\ \A i \in DOMAIN R :
           /\ IsUpload(R[i]) => R[i].rel \in LocalRels
           /\ IsPlaceholder(R[i]) =>
                \E j \in DOMAIN buf.remote : R[i] = RemoteOp(buf.remote[j])
      /\ \A i \in DOMAIN R : WorksIn(R[i], 0)
  BY <1>2, ReconcileType, ReconcileWorks
<1>4. PICK batch \in Resolve(R, stamp + 1) :
        /\ ops' = batch
        /\ fetched' = {[link |-> batch[i].link, rel |-> batch[i].rel] :
                         i \in {j \in DOMAIN batch : IsDownload(batch[j])}}
  BY DEF BeginCycle
<1> HIDE DEF R
<1>5. /\ stamp \in Nat /\ stamp + 1 \in Nat /\ stamp' \in Nat /\ stamp <= stamp'
      /\ Renamed(R) # {} => stamp + 1 \in 1 .. stamp' /\ stamp + 1 \in Stamps
      /\ (stamp + 1) - 1 = stamp
  <2>1. stamp \in Nat /\ MaxStamp \in Nat
    BY NamesAssumption DEF Inv, TypeOK
  <2>2. CASE Renamed(R) = {}
    BY <1>1, <2>1, <2>2
  <2>3. CASE Renamed(R) # {}
    <3>1. stamp' = stamp + 1
      BY <1>1, <2>3
    <3> QED BY <1>1, <2>1, <3>1 DEF Stamps
  <2> QED BY <2>2, <2>3
<1>6. ASSUME NEW i \in DOMAIN R, IsDownload(R[i]) PROVE R[i].rel \in Named(stamp)
  <2>1. PICK j \in DOMAIN buf.remote : R[i] = RemoteOp(buf.remote[j])
    BY <1>3, <1>6 DEF IsDownload, IsPlaceholder
  <2> DEFINE e == buf.remote[j]
  <2>2. e \in RemoteChange /\ IsReport(e)
    BY <1>2, LenProperties, ElementOfSeq DEF Inv, ReportsFaithful
  <2>3. R[i].rel = e.rel
    BY <1>6, <2>1, <2>2, RemoteOpType DEF IsDownload, IsPlaceholder
  <2>4. /\ e.link \in DOMAIN drive
        /\ [rel |-> e.rel, parent |-> e.parent] \in drive[e.link].was
    BY <2>2 DEF IsReport, IsNode
  <2> HIDE DEF e
  <2> QED BY <2>3, <2>4 DEF KeepInv, PlacesNamed
<1>7. Renamed(R) # {} => \A r \in LocalRels : CopyRel(r, stamp + 1) \notin Named(stamp)
  BY <1>5 DEF CopiesFresh
<1>8. /\ \A i \in DOMAIN batch : WorksIn(batch[i], stamp')
      /\ \A i, j \in DOMAIN batch :
           batch[i].op = "UploadNew" /\ IsDownload(batch[j]) => batch[i].rel # batch[j].rel
  <2> DEFINE t == stamp'
             T == Named(stamp)
  <2>1. /\ t \in Nat /\ \A i \in DOMAIN R : IsDownload(R[i]) => R[i].rel \in T
        /\ Renamed(R) # {} => /\ stamp + 1 \in 1 .. t
                              /\ \A r \in LocalRels : CopyRel(r, stamp + 1) \notin T
    BY <1>5, <1>6, <1>7
  <2>2. /\ \A i \in DOMAIN R : IsUpload(R[i]) => R[i].rel \in LocalRels
        /\ \A i \in DOMAIN R : WorksIn(R[i], 0)
    BY <1>3
  <2> HIDE DEF t, T
  <2>3. /\ \A i \in DOMAIN batch : WorksIn(batch[i], t)
        /\ \A i, j \in DOMAIN batch :
             batch[i].op = "UploadNew" /\ IsDownload(batch[j])
               => batch[i].rel # batch[j].rel
    BY <1>3, <1>5, <2>1, <2>2, ResolveParts
  <2> QED BY <2>3 DEF t
<1>9. PlacesNamed'
  <2>1. Named(stamp) \subseteq Named(stamp')
    BY <1>5, NamedGrows
  <2>2. Named(stamp') = Named(stamp)'
    BY DEF Named, Copies
  <2> QED BY <1>1, <2>1, <2>2 DEF KeepInv, PlacesNamed
<1>10. OpsNamed'
  BY <1>4, <1>8 DEF OpsNamed, WorksIn, Copies
<1>11. Apart'
  BY <1>4, <1>8 DEF Apart
<1> QED BY <1>9, <1>10, <1>11 DEF KeepInv

(* The propagator calls the drive for the operations of the cycle only.    *)
LEMMA PropagateKeeps ==
  ASSUME Inv, KeepInv, Propagate
  PROVE  KeepInv'
<1>1. UNCHANGED <<stamp, fetched>>
  BY DEF Propagate, SkipOp, DeleteRemote, FindParent, WalkRow, WalkCreate, WalkRecord,
         WalkFail, SendOk, SendFail, Record
<1>2. CASE SkipOp \/ DeleteRemote \/ FindParent \/ WalkRow
  <2>1. drive' = drive /\ (ops' = ops \/ (ops # <<>> /\ ops' = Tail(ops)))
    BY <1>2 DEF SkipOp, DeleteRemote, FindParent, WalkRow, NextOp
  <2> QED BY <1>1, <2>1, KeepSame
<1>3. CASE WalkRecord \/ WalkFail
  <2>1. /\ drive' = drive /\ (ops' = ops \/ ops' = Tail(ops))
        /\ step.at \in {"walk", "walked"}
    BY <1>3 DEF WalkRecord, WalkFail, NextOp, At
  <2> QED BY <1>1, <2>1, SegmentType, KeepSame
<1>4. CASE Record
  <2>1. drive' = drive /\ ops' = Tail(ops) /\ step.at = "record"
    BY <1>4 DEF Record, NextOp, At
  <2> QED BY <1>1, <2>1, SendingType, KeepSame
<1>5. CASE WalkCreate
  <2>1. /\ ops' = ops /\ step.at = "walk"
        /\ StoreFolder(step.into, LeafOf(Segment), FreshLink)
    BY <1>5 DEF WalkCreate, At
  <2>2. IsDir(step.into)
    BY <2>1 DEF StoreFolder, CanCreateFolder, IsFolder, IsDir
  <2>3. /\ ops # <<>> /\ Head(ops).op \in {"UploadNew", "CreateRemoteDir"}
        /\ step.depth \in 1 .. Len(Head(ops).rel) - 1
        /\ LeafOf(Segment) \in Names
        /\ Append(RelOf(step.into), LeafOf(Segment)) = Segment
    BY <2>1, <2>2, SegmentType
  <2>4. PlacesGrow(Segment)
    BY <2>1, <2>3, StoreFolderTouches DEF Inv
  <2>5. Head(ops).rel \in LocalRels \cup Copies(stamp) /\ stamp \in 0 .. MaxStamp
    BY <2>3, HeadNamed DEF Inv, TypeOK
  <2>6. Segment \in Named(stamp)
    BY <2>3, <2>5, OnTheWay DEF Segment, Named
  <2> QED BY <1>1, <2>1, <2>4, <2>6, PlacesKept, CycleKept DEF KeepInv
<1>6. CASE SendOk \/ SendFail
  <2>1. /\ step.at = "send" /\ (ops' = ops \/ ops' = Tail(ops))
        /\ drive' = drive \/ \E link : Effect(link)
    BY <1>6 DEF SendOk, SendFail, RetryOrDrop, NextOp, At
  <2>2. ops # <<>> /\ Head(ops).op \in {"UploadNew", "CreateRemoteDir"}
    BY <2>1, SendingType
  <2>3. PlacesNamed'
    <3>1. CASE drive' = drive
      BY <1>1, <3>1, PlacesSame DEF KeepInv
    <3>2. CASE \E link : Effect(link)
      <4>1. PlacesGrow(Head(ops).rel)
        BY <2>1, <3>2, CallTouches
      <4>2. Head(ops).rel \in Named(stamp)
        BY <2>2, HeadNamed, OnTheWay DEF Inv, TypeOK
      <4> QED BY <1>1, <4>1, <4>2, PlacesKept DEF KeepInv
    <3> QED BY <2>1, <3>1, <3>2
  <2> QED BY <1>1, <2>1, <2>2, <2>3, CycleKept DEF KeepInv
<1> QED BY <1>2, <1>3, <1>4, <1>5, <1>6 DEF Propagate

(* Other clients name files as they like, but not like conflict copies.    *)
LEMMA UserKeeps ==
  ASSUME Inv, KeepInv, User
  PROVE  KeepInv'
<1>1. UNCHANGED agentVars
  BY ZenonT(60) DEF User, LocalWrite, LocalMkdir, LocalRemove, RemoteWrite,
     RemoteMkdir, RemoteRename, RemoteTrash
<1>2. UNCHANGED <<ops, stamp, fetched>>
  BY <1>1 DEF agentVars
<1>3. ASSUME NEW rel \in RemoteRels, PlacesGrow(rel) PROVE KeepInv'
  <2>1. rel \in Named(stamp)
    BY DEF Named
  <2> QED BY <1>2, <1>3, <2>1, PlacesKept, CycleKept DEF KeepInv
<1>4. ASSUME NEW rel \in LocalRels, LocalWrite(rel) \/ LocalMkdir(rel) \/ LocalRemove(rel)
      PROVE  KeepInv'
  <2>1. drive' = drive
    BY <1>4 DEF LocalWrite, LocalMkdir, LocalRemove
  <2> QED BY <1>2, <2>1, KeepSame
<1>5. ASSUME NEW rel \in RemoteRels, NEW p \in {Root} \cup DOMAIN drive,
             RemoteWrite(p, rel) \/ RemoteMkdir(p, rel)
      PROVE  KeepInv'
  <2>1. IsParent(p) /\ RelOf(p) = ParentOf(rel) /\ NewRev \in Nat
    <3>1. RelOf(p) = ParentOf(rel)
      BY <1>5 DEF RemoteWrite, RemoteMkdir
    <3>2. NewRev \in Nat
      BY DEF Inv, TypeOK, NewRev
    <3> QED BY <3>1, <3>2 DEF IsParent
  <2>2. LeafOf(rel) \in Names /\ Append(ParentOf(rel), LeafOf(rel)) = rel
    BY EngineAssumption, PathSplit
  <2>3. PlacesGrow(rel)
    BY <1>5, <2>1, <2>2, StoreFileTouches, StoreFolderTouches
       DEF RemoteWrite, RemoteMkdir, Inv
  <2> QED BY <1>3, <2>3
<1>6. ASSUME NEW rel \in RemoteRels, NEW p \in {Root} \cup DOMAIN drive,
             NEW l \in DOMAIN drive, RemoteRename(l, p, rel)
      PROVE  KeepInv'
  <2> DEFINE place == [rel |-> rel, parent |-> p]
             node  == [drive[l] EXCEPT !.rel = rel, !.parent = p,
                                       !.was = @ \cup {place}]
  <2>1. drive \in Seq(Node) /\ drive[l] \in Node
    BY DriveType DEF Inv, TypeOK
  <2>2. node.was = drive[l].was \cup {place} /\ place.rel = rel
    <3> HIDE DEF place
    <3>1. node.was = drive[l].was \cup {place}
      BY <2>1 DEF Node
    <3> QED BY <3>1 DEF place
  <2>3. drive' = [drive EXCEPT ![l] = node]
    BY <1>6 DEF RemoteRename
  <2> HIDE DEF node, place
  <2>4. /\ DOMAIN drive' = DOMAIN drive
        /\ \A m \in DOMAIN drive : drive'[m] = IF m = l THEN node ELSE drive[m]
    BY <2>1, <2>3
  <2>5. PlacesGrow(rel)
    BY <2>2, <2>4 DEF PlacesGrow
  <2> QED BY <1>3, <2>5
<1>7. ASSUME NEW l \in DOMAIN drive, RemoteTrash(l) PROVE KeepInv'
  <2> DEFINE Node2(m) == [drive[m] EXCEPT !.alive = @ /\ m \notin Below(l)]
  <2>1. \A m \in DOMAIN drive : Node2(m).was = drive[m].was
    BY DriveType DEF Node, Inv
  <2>2. drive' = [m \in DOMAIN drive |-> Node2(m)]
    BY <1>7 DEF RemoteTrash
  <2> HIDE DEF Node2
  <2>3. \A m \in DOMAIN drive' : m \in DOMAIN drive /\ drive'[m].was = drive[m].was
    BY <2>1, <2>2
  <2>4. PlacesNamed'
    BY <1>2, <2>3 DEF KeepInv, PlacesNamed, Named, Copies
  <2> QED BY <1>2, <2>4, CycleKept DEF KeepInv
<1> QED BY <1>4, <1>5, <1>6, <1>7 DEF User

(* Every step of the system keeps the two apart.                           *)
LEMMA KeepNext ==
  ASSUME CopiesFresh, Inv, KeepInv, [Next]_vars
  PROVE  KeepInv'
<1>1. CASE Watchers \/ RecvLocal \/ RecvRemote \/ Heartbeat \/ Start \/ UNCHANGED vars
  <2>1. UNCHANGED <<drive, stamp, fetched, ops>>
    BY <1>1 DEF Watchers, TranslateEvent, ReportRemote, RecvLocal, RecvRemote,
       Heartbeat, Start, vars, agentVars
  <2> QED BY <2>1, KeepSame
<1>2. CASE FinishCycle \/ Abort
  <2>1. drive' = drive /\ stamp' = stamp /\ ops' = <<>> /\ fetched' = {}
    BY <1>2 DEF FinishCycle, Abort
  <2> QED BY <2>1, PlacesSame DEF KeepInv, OpsNamed, Apart
<1>3. CASE User
  BY <1>3, UserKeeps
<1>4. CASE Tick
  BY <1>4, BeginCycleKeeps DEF Tick
<1>5. CASE Propagate
  BY <1>5, PropagateKeeps
<1> QED BY <1>1, <1>2, <1>3, <1>4, <1>5 DEF Next, Loop

(* Only a call of the operation at the head takes the agent on from "send" *)
(* and revises a file.                                                     *)
LEMMA NoRevision ==
  ASSUME Inv, KeepInv, [Next]_vars, NEW w \in fetched, drive[w.link].rel = w.rel
  PROVE  ~AgentRevises(w.link)
<1> SUFFICES ASSUME AgentRevises(w.link) PROVE FALSE
  OBVIOUS
<1>1. /\ step.at = "send" /\ step' # step /\ w.link \in DOMAIN drive
      /\ drive'[w.link] # drive[w.link]
  BY DEF AgentRevises, At
<1>2. ops # <<>> /\ Head(ops).op \in {"UploadNew", "CreateRemoteDir"}
  BY <1>1, SendingType
<1>3. CASE SendOk \/ SendFail
  <2>1. PICK link : Effect(link)
    BY <1>1, <1>3 DEF SendOk, SendFail
  <2>2. Head(ops).op = "UploadNew" /\ drive[w.link].rel = Head(ops).rel
    BY <1>1, <2>1, CallTouches
  <2> QED BY <1>2, <2>2, HeadNamed
<1>4. CASE Loop \/ Start
  BY <1>1, <1>4 DEF Loop, RecvLocal, RecvRemote, Tick, BeginCycle, Heartbeat,
     FinishCycle, Start, At
<1>5. CASE Abort \/ Watchers \/ UNCHANGED vars
  BY <1>1, <1>5 DEF Abort, Watchers, TranslateEvent, ReportRemote, vars
<1>6. CASE User
  <2>1. UNCHANGED agentVars
    BY <1>6, ZenonT(60) DEF User, LocalWrite, LocalMkdir, LocalRemove, RemoteWrite,
       RemoteMkdir, RemoteRename, RemoteTrash
  <2> QED BY <1>1, <2>1 DEF agentVars
<1>7. CASE SkipOp \/ DeleteRemote \/ FindParent \/ WalkRow \/ WalkCreate
             \/ WalkRecord \/ WalkFail \/ Record
  BY <1>1, <1>7 DEF SkipOp, DeleteRemote, FindParent, WalkRow, WalkCreate,
     WalkRecord, WalkFail, Record, At
<1> QED BY <1>3, <1>4, <1>5, <1>6, <1>7 DEF Next, Propagate

(* conflict.rs "both-modified -> keep both": an upload never revises a     *)
(* file that the same batch reports as changed, however long ago the batch *)
(* was taken, as long as the names of conflict copies are fresh.           *)
THEOREM BothAreKept == CopiesFresh /\ Spec => KeepBothInBatch
<1> SUFFICES ASSUME CopiesFresh PROVE Spec => KeepBothInBatch
  OBVIOUS
<1>1. Init => KeepInv
  BY DEF Init, KeepInv, PlacesNamed, OpsNamed, Apart
<1>2. Inv /\ KeepInv /\ [Next]_vars => KeepInv'
  BY KeepNext
<1>3. Inv /\ KeepInv /\ [Next]_vars
        => [\A w \in fetched : drive[w.link].rel = w.rel => ~AgentRevises(w.link)]_vars
  BY NoRevision
<1> QED BY <1>1, <1>2, <1>3, EngineInvariant, PTL DEF Spec, KeepBothInBatch

-----------------------------------------------------------------------------
(* Nothing of the drive is forgotten                                       *)

(* A node that is alive and at the path of a child of p is a child of p.   *)
LEMMA OccupantIsChild ==
  ASSUME TypeOK, TreeFaithful, OneTree, NEW p, IsFolder(p), NEW name \in Names,
         NEW l \in DOMAIN drive, drive[l].alive,
         drive[l].rel = Append(RelOf(p), name)
  PROVE  l \in Children(p, name)
<1> DEFINE q == drive[l].parent
<1>1. IsParent(p) /\ RelOf(p) \in Seq(Names)
  BY DriveType DEF IsFolder, IsParent
<1>2. ParentOf(drive[l].rel) = RelOf(p) /\ LeafOf(drive[l].rel) = name
  BY <1>1, PathJoin
<1>3. IsFolder(q) /\ RelOf(q) = RelOf(p)
  BY <1>2 DEF OneTree, TreeFaithful
<1>4. \A m \in DOMAIN drive : drive[m].rel # <<>> /\ m # Root
  BY DriveType DEF Node, Rels
<1> HIDE DEF q
<1>5. q = p
  <2>1. CASE p = Root
    BY <1>3, <1>4, <2>1 DEF IsFolder, RelOf
  <2>2. CASE p # Root
    <3>1. p \in DOMAIN drive /\ drive[p].alive /\ RelOf(p) = drive[p].rel
      BY <2>2 DEF IsFolder, RelOf
    <3>2. q # Root
      BY <1>3, <1>4, <3>1 DEF RelOf
    <3>3. q \in DOMAIN drive /\ drive[q].alive /\ RelOf(q) = drive[q].rel
      BY <1>3, <3>2 DEF IsFolder, RelOf
    <3> QED BY <1>3, <3>1, <3>3 DEF OneTree
  <2> QED BY <2>1, <2>2
<1> QED BY <1>2, <1>5 DEF Children, q

(* What a call that takes effect makes of the drive: node link is alive at *)
(* that path, with that content; the others are as they were.              *)
Effected(p, rel, folder, rev, link) ==
  /\ unseen' = unseen \cup {link}
  /\ DOMAIN drive' = DOMAIN drive \cup {link}
  /\ \A l \in DOMAIN drive : l # link => drive'[l] = drive[l]
  /\ drive'[link].alive /\ drive'[link].rel = rel /\ drive'[link].parent = p
  /\ drive'[link].folder = folder
  /\ rev \in drive'[link].revs
  /\ \A w \in drive'[link].was :
       w.rel = rel \/ (link \in DOMAIN drive /\ w \in drive[link].was)
  /\ link \in DOMAIN drive => /\ drive[link].alive /\ drive[link].rel = rel
                              /\ drive[link].folder = folder
                              /\ drive[link].revs \subseteq drive'[link].revs

(* Creating a node.                                                        *)
LEMMA CreateEffected ==
  ASSUME TypeOK, NEW p, IsDir(p), NEW name \in Names, NEW folder \in BOOLEAN,
         NEW rev \in Nat, Create(p, name, folder, rev)
  PROVE  Effected(p, Append(RelOf(p), name), folder, rev, FreshLink)
<1> DEFINE rel  == Append(RelOf(p), name)
           node == [parent |-> p, rel |-> rel, folder |-> folder,
                    rev |-> rev, revs |-> {rev},
                    was |-> {[rel |-> rel, parent |-> p]},
                    alive |-> TRUE]
<1>1. /\ Len(drive) \in Nat /\ DOMAIN drive = 1 .. Len(drive)
      /\ p \in Links /\ RelOf(p) \in Seq(Names)
  BY DriveType DEF IsDir, IsParent
<1>2. rel \in Rels
  BY <1>1, PathJoin
<1>3. node \in Node
  <2> HIDE DEF rel
  <2> QED BY <1>1, <1>2 DEF Node
<1>4. /\ node.rel = rel /\ node.parent = p /\ node.folder = folder
      /\ node.alive /\ rev \in node.revs
      /\ \A w \in node.was : w.rel = rel
  OBVIOUS
<1>5. drive' = Append(drive, node) /\ unseen' = unseen \cup {FreshLink}
  BY DEF Create
<1> HIDE DEF node, rel
<1>6. /\ DOMAIN drive' = 1 .. Len(drive) + 1
      /\ \A l \in DOMAIN drive : drive'[l] = drive[l]
      /\ drive'[Len(drive) + 1] = node
  BY <1>1, <1>3, <1>5 DEF TypeOK
<1>7. /\ DOMAIN drive' = DOMAIN drive \cup {FreshLink}
      /\ FreshLink \notin DOMAIN drive /\ drive'[FreshLink] = node
  BY <1>1, <1>6 DEF FreshLink
<1> QED BY <1>4, <1>5, <1>6, <1>7 DEF Effected, rel

(* A file of that name in that folder gets a revision.                     *)
LEMMA ReviseEffected ==
  ASSUME TypeOK, TreeFaithful, NEW p, NEW name \in Names, NEW rev \in Nat,
         NEW l \in Children(p, name), ~drive[l].folder, Revise(l, rev)
  PROVE  Effected(p, Append(RelOf(p), name), FALSE, rev, l)
<1> DEFINE node == [drive[l] EXCEPT !.rev = rev, !.revs = @ \cup {rev}]
<1>1. /\ l \in DOMAIN drive /\ drive[l].alive /\ drive[l].parent = p
      /\ LeafOf(drive[l].rel) = name
  BY DEF Children
<1>2. drive[l] \in Node /\ drive[l].rel \in Rels
  BY <1>1, DriveType DEF Node
<1>3. drive[l].rel = Append(RelOf(p), name)
  BY <1>1, <1>2, PathSplit DEF TreeFaithful
<1>4. /\ node.rel = drive[l].rel /\ node.parent = drive[l].parent
      /\ node.folder = drive[l].folder /\ node.alive = drive[l].alive
      /\ rev \in node.revs /\ drive[l].revs \subseteq node.revs
      /\ node.was = drive[l].was
  BY <1>2 DEF Node
<1>5. drive' = [drive EXCEPT ![l] = node] /\ unseen' = unseen \cup {l}
  BY DEF Revise
<1> HIDE DEF node
<1>6. /\ DOMAIN drive' = DOMAIN drive \cup {l} /\ drive'[l] = node
      /\ \A m \in DOMAIN drive : m # l => drive'[m] = drive[m]
  BY <1>1, <1>5
<1>7. drive[l].folder = FALSE
  BY <1>2 DEF Node
<1> QED BY <1>1, <1>3, <1>4, <1>5, <1>6, <1>7 DEF Effected

(* An upload.                                                              *)
LEMMA StoreFileEffected ==
  ASSUME TypeOK, TreeFaithful, NEW p, IsParent(p), NEW name \in Names,
         NEW rev \in Nat, NEW link, StoreFile(p, name, rev, link)
  PROVE  Effected(p, Append(RelOf(p), name), FALSE, rev, link)
<1> IsDir(p)
  BY DEF StoreFile, CanUpload, IsFolder, IsDir
<1>1. CASE link = FreshLink /\ Create(p, name, FALSE, rev)
  BY <1>1, CreateEffected
<1>2. CASE link \in Children(p, name) /\ Revise(link, rev)
  <2>1. ~drive[link].folder
    BY <1>2 DEF StoreFile, CanUpload
  <2> QED BY <1>2, <2>1, ReviseEffected
<1> QED BY <1>1, <1>2 DEF StoreFile

(* The creation of a folder.                                               *)
LEMMA StoreFolderEffected ==
  ASSUME TypeOK, NEW p, NEW name \in Names, NEW link, StoreFolder(p, name, link)
  PROVE  Effected(p, Append(RelOf(p), name), TRUE, 0, link)
BY CreateEffected DEF StoreFolder, CanCreateFolder, IsFolder, IsDir

(* After a call nobody else is at its path.                                *)
LEMMA EffectedTree ==
  ASSUME TypeOK, TreeFaithful, OneTree, NEW p, IsFolder(p), NEW name \in Names,
         NEW folder, NEW rev, NEW link,
         Effected(p, Append(RelOf(p), name), folder, rev, link),
         link \in DOMAIN drive \/ Children(p, name) = {}
  PROVE  OneTree'
<1> DEFINE rel == Append(RelOf(p), name)
<1>1. ASSUME NEW l \in DOMAIN drive, drive[l].alive, drive[l].rel = rel
      PROVE  l = link
  <2>1. l \in Children(p, name)
    BY <1>1, OccupantIsChild
  <2>2. link \in DOMAIN drive => drive[link].alive /\ drive[link].rel = rel
    BY DEF Effected
  <2> QED BY <1>1, <2>1, <2>2 DEF OneTree
<1> HIDE DEF rel
<1>2. /\ DOMAIN drive' = DOMAIN drive \cup {link}
      /\ \A l \in DOMAIN drive : l # link => drive'[l] = drive[l]
      /\ drive'[link].alive /\ drive'[link].rel = rel /\ drive'[link].parent = p
      /\ link \in DOMAIN drive => /\ drive[link].alive /\ drive[link].rel = rel
                                  /\ drive[link].folder = drive'[link].folder
  BY DEF Effected, rel
<1>3. \A q : IsFolder(q) => q = Root \/ (q \in DOMAIN drive' /\ drive'[q].alive /\ drive'[q].folder)
  BY <1>2 DEF IsFolder
<1>4. ASSUME NEW l \in DOMAIN drive', drive'[l].alive
      PROVE  IsFolder(drive[l].parent)'
  <2>1. IsFolder(drive'[l].parent)
    BY <1>2, <1>4 DEF OneTree
  <2> QED BY <1>3, <2>1 DEF IsFolder
<1>5. ASSUME NEW l \in DOMAIN drive', NEW m \in DOMAIN drive',
             drive'[l].alive, drive'[m].alive, drive'[l].rel = drive'[m].rel
      PROVE  l = m
  <2>1. CASE l # link /\ m # link
    BY <1>2, <1>5, <2>1 DEF OneTree
  <2>2. CASE l = link /\ m # link
    BY <1>1, <1>2, <1>5, <2>2
  <2>3. CASE l # link /\ m = link
    BY <1>1, <1>2, <1>5, <2>3
  <2> QED BY <2>1, <2>2, <2>3
<1>6. \A l \in unseen' : drive'[l].alive
  <2>1. unseen' = unseen \cup {link} /\ unseen \subseteq DOMAIN drive
    BY DEF Effected, TypeOK
  <2> QED BY <1>2, <2>1 DEF OneTree
<1> QED BY <1>4, <1>5, <1>6 DEF OneTree

(* A file that is moved to a free name is the only node there.             *)
LEMMA RenameTree ==
  ASSUME TypeOK, TreeFaithful, OneTree, NEW l \in DOMAIN drive,
         NEW p \in {Root} \cup DOMAIN drive, NEW rel \in Rels,
         RemoteRename(l, p, rel)
  PROVE  /\ OneTree'
         /\ unseen' = unseen \cup {l} /\ DOMAIN drive' = DOMAIN drive
         /\ \A m \in DOMAIN drive : m # l => drive'[m] = drive[m]
         /\ drive'[l].alive /\ ~drive[l].folder
         /\ drive'[l].revs = drive[l].revs /\ drive'[l].folder = drive[l].folder
         /\ \A w \in drive'[l].was : w.rel = rel \/ w \in drive[l].was
<1> DEFINE place == [rel |-> rel, parent |-> p]
           node  == [drive[l] EXCEPT !.rel = rel, !.parent = p,
                                     !.was = @ \cup {place}]
<1>1. /\ drive[l].alive /\ ~drive[l].folder /\ RelOf(p) = ParentOf(rel)
      /\ IsFolder(p) /\ Children(p, LeafOf(rel)) = {}
  BY DEF RemoteRename
<1>2. drive[l] \in Node
  BY DriveType
<1>3. place.rel = rel
  OBVIOUS
<1>4. /\ node.rel = rel /\ node.parent = p /\ node.folder = drive[l].folder
      /\ node.alive = drive[l].alive /\ node.revs = drive[l].revs
      /\ node.was = drive[l].was \cup {place}
  <2> HIDE DEF place
  <2> QED BY <1>2 DEF Node
<1>5. drive' = [drive EXCEPT ![l] = node] /\ unseen' = unseen \cup {l}
  BY DEF RemoteRename
<1> HIDE DEF node, place
<1>6. /\ DOMAIN drive' = DOMAIN drive /\ drive'[l] = node
      /\ \A m \in DOMAIN drive : m # l => drive'[m] = drive[m]
  BY <1>5
<1>7. \A m \in DOMAIN drive : drive[m].alive => drive[m].rel # rel
  <2> SUFFICES ASSUME NEW m \in DOMAIN drive, drive[m].alive, drive[m].rel = rel
               PROVE  FALSE
    OBVIOUS
  <2>1. LeafOf(rel) \in Names /\ Append(RelOf(p), LeafOf(rel)) = rel
    BY <1>1, PathSplit
  <2> QED BY <1>1, <2>1, OccupantIsChild
<1>8. \A q : IsFolder(q) => IsFolder(q)'
  BY <1>1, <1>6 DEF IsFolder
<1>9. ASSUME NEW m \in DOMAIN drive', drive'[m].alive
      PROVE  IsFolder(drive[m].parent)'
  <2>1. IsFolder(drive'[m].parent)
    BY <1>1, <1>4, <1>6, <1>9 DEF OneTree
  <2> QED BY <1>6, <2>1, <1>1 DEF IsFolder
<1>10. ASSUME NEW k \in DOMAIN drive', NEW m \in DOMAIN drive',
              drive'[k].alive, drive'[m].alive, drive'[k].rel = drive'[m].rel
       PROVE  k = m
  <2>1. CASE k # l /\ m # l
    BY <1>6, <1>10, <2>1 DEF OneTree
  <2>2. CASE k = l /\ m # l
    BY <1>4, <1>6, <1>7, <1>10, <2>2
  <2>3. CASE k # l /\ m = l
    BY <1>4, <1>6, <1>7, <1>10, <2>3
  <2> QED BY <2>1, <2>2, <2>3
<1>11. OneTree'
  <2>1. \A m \in unseen' : drive'[m].alive
    BY <1>1, <1>4, <1>5, <1>6 DEF OneTree, TypeOK
  <2> QED BY <1>9, <1>10, <2>1 DEF OneTree
<1> QED BY <1>1, <1>3, <1>4, <1>5, <1>6, <1>11

(* What lies in a folder that is trashed is trashed.                       *)
LEMMA ChildIsBelow ==
  ASSUME TypeOK, TreeFaithful, NEW l \in DOMAIN drive,
         NEW m \in DOMAIN drive, drive[m].alive, drive[m].parent \in Below(l)
  PROVE  m \in Below(l)
<1> DEFINE q == drive[m].parent
           r == drive[m].rel
           s == drive[q].rel
           t == drive[l].rel
<1>1. /\ q \in DOMAIN drive /\ Len(s) >= Len(t) /\ SubSeq(s, 1, Len(t)) = t
  BY DEF Below
<1>2. /\ r \in Rels /\ s \in Rels /\ t \in Rels /\ q # Root
  BY <1>1, DriveType DEF Node
<1>3. s = ParentOf(r)
  BY <1>1, <1>2 DEF TreeFaithful, RelOf
<1> HIDE DEF q, r, s, t
<1>4. /\ r \in Seq(Names) /\ s \in Seq(Names) /\ t \in Seq(Names)
      /\ Len(r) \in Nat /\ Len(t) \in Nat /\ Len(s) = Len(r) - 1
  BY <1>2, <1>3, PathSplit
<1>5. Len(t) \in 0 .. Len(s) /\ Len(t) \in 0 .. Len(r) /\ Len(r) >= Len(t)
      /\ Len(r) - 1 \in 0 .. Len(r)
  BY <1>1, <1>2, <1>4, PathSplit
<1>6. SubSeq(r, 1, Len(t)) = t
  <2>1. /\ SubSeq(r, 1, Len(t)) \in Seq(Names) /\ Len(SubSeq(r, 1, Len(t))) = Len(t)
        /\ \A i \in 1 .. Len(t) : SubSeq(r, 1, Len(t))[i] = r[i]
    BY <1>4, <1>5, TakeNames
  <2>2. \A i \in 1 .. Len(t) : SubSeq(s, 1, Len(t))[i] = s[i]
    BY <1>4, <1>5, TakeNames
  <2>3. \A i \in 1 .. Len(r) - 1 : s[i] = r[i]
    BY <1>3, <1>4, <1>5, TakeNames DEF ParentOf
  <2>4. \A i \in 1 .. Len(t) : i \in 1 .. Len(r) - 1
    BY <1>4, <1>5
  <2>5. \A i \in 1 .. Len(t) : t[i] = r[i]
    BY <1>1, <2>2, <2>3, <2>4
  <2> QED BY <1>4, <2>1, <2>5, SeqEqual
<1> QED BY <1>5, <1>6 DEF Below, r, t

(* A trash leaves a tree.                                                  *)
LEMMA TrashTree ==
  ASSUME TypeOK, TreeFaithful, OneTree, NEW l \in DOMAIN drive, RemoteTrash(l)
  PROVE  /\ OneTree'
         /\ DOMAIN drive' = DOMAIN drive /\ unseen' = unseen \ Below(l)
         /\ \A m \in DOMAIN drive :
              /\ drive'[m].alive <=> drive[m].alive /\ m \notin Below(l)
              /\ drive'[m].rel = drive[m].rel /\ drive'[m].parent = drive[m].parent
              /\ drive'[m].folder = drive[m].folder
              /\ drive'[m].revs = drive[m].revs /\ drive'[m].was = drive[m].was
<1> DEFINE Node2(m) == [drive[m] EXCEPT !.alive = @ /\ m \notin Below(l)]
<1>1. ASSUME NEW m \in DOMAIN drive
      PROVE  /\ Node2(m).alive = (drive[m].alive /\ m \notin Below(l))
             /\ Node2(m).rel = drive[m].rel /\ Node2(m).parent = drive[m].parent
             /\ Node2(m).folder = drive[m].folder /\ Node2(m).was = drive[m].was
             /\ Node2(m).revs = drive[m].revs
  <2>1. drive[m] \in Node
    BY DriveType
  <2> QED BY <2>1 DEF Node
<1>2. drive' = [m \in DOMAIN drive |-> Node2(m)] /\ unseen' = unseen \ Below(l)
  BY DEF RemoteTrash
<1> HIDE DEF Node2
<1>3. /\ DOMAIN drive' = DOMAIN drive
      /\ \A m \in DOMAIN drive : drive'[m] = Node2(m)
  BY <1>2
<1>4. \A m \in DOMAIN drive :
        /\ drive'[m].alive <=> drive[m].alive /\ m \notin Below(l)
        /\ drive'[m].rel = drive[m].rel /\ drive'[m].parent = drive[m].parent
        /\ drive'[m].folder = drive[m].folder
        /\ drive'[m].revs = drive[m].revs /\ drive'[m].was = drive[m].was
  BY <1>1, <1>3
<1>5. ASSUME NEW m \in DOMAIN drive', drive'[m].alive
      PROVE  IsFolder(drive[m].parent)'
  <2>1. m \in DOMAIN drive /\ drive[m].alive /\ m \notin Below(l)
    BY <1>3, <1>4, <1>5
  <2>2. IsFolder(drive[m].parent) /\ drive[m].parent \notin Below(l)
    BY <2>1, ChildIsBelow DEF OneTree
  <2> QED BY <1>3, <1>4, <2>1, <2>2 DEF IsFolder
<1>6. OneTree'
  <2>1. \A m \in unseen' : drive'[m].alive
    BY <1>2, <1>3, <1>4 DEF OneTree, TypeOK
  <2> QED BY <1>3, <1>4, <1>5, <2>1 DEF OneTree
<1> QED BY <1>2, <1>3, <1>4, <1>6

-----------------------------------------------------------------------------
(* Batches, place by place                                                 *)

(* reconcile() translates one observation after the other.                 *)
LEMMA ReconcileIndex ==
  ASSUME NEW local \in Seq(LocalChange), NEW remote \in Seq(RemoteChange)
  PROVE  /\ Len(local) \in Nat /\ Len(remote) \in Nat
         /\ DOMAIN local = 1 .. Len(local) /\ DOMAIN remote = 1 .. Len(remote)
         /\ DOMAIN Reconcile(local, remote) = 1 .. Len(local) + Len(remote)
         /\ \A i \in DOMAIN local : Reconcile(local, remote)[i] = LocalOp(local[i])
         /\ \A j \in DOMAIN remote :
              Reconcile(local, remote)[Len(local) + j] = RemoteOp(remote[j])
         /\ \A i \in DOMAIN Reconcile(local, remote) :
              i \in DOMAIN local \/ \E j \in DOMAIN remote : i = Len(local) + j
<1> DEFINE L == [i \in 1 .. Len(local) |-> LocalOp(local[i])]
           M == [i \in 1 .. Len(remote) |-> RemoteOp(remote[i])]
<1>1. /\ Len(local) \in Nat /\ Len(remote) \in Nat
      /\ DOMAIN local = 1 .. Len(local) /\ DOMAIN remote = 1 .. Len(remote)
  BY LenProperties
<1>2. /\ L \in Seq(Operation) /\ Len(L) = Len(local)
      /\ M \in Seq(Operation) /\ Len(M) = Len(remote)
  <2>1. \A i \in 1 .. Len(local) : LocalOp(local[i]) \in Operation
    BY ElementOfSeq, LocalOpType
  <2>2. \A i \in 1 .. Len(remote) : RemoteOp(remote[i]) \in Operation
    BY ElementOfSeq, RemoteOpType
  <2> QED BY <1>1, <2>1, <2>2
<1>3. /\ \A i \in 1 .. Len(local) : L[i] = LocalOp(local[i])
      /\ \A j \in 1 .. Len(remote) : M[j] = RemoteOp(remote[j])
  OBVIOUS
<1>4. Reconcile(local, remote) = L \o M
  BY DEF Reconcile
<1> HIDE DEF L, M
<1>5. /\ Len(L \o M) = Len(L) + Len(M) /\ DOMAIN (L \o M) = 1 .. Len(L \o M)
      /\ \A i \in 1 .. Len(L) + Len(M) :
           (L \o M)[i] = IF i <= Len(L) THEN L[i] ELSE M[i - Len(L)]
  BY <1>2, ConcatProperties, LenProperties
<1>6. \A i \in 1 .. Len(local) : (L \o M)[i] = LocalOp(local[i])
  BY <1>1, <1>2, <1>3, <1>5
<1>7. ASSUME NEW j \in 1 .. Len(remote)
      PROVE  (L \o M)[Len(local) + j] = RemoteOp(remote[j])
  <2>1. /\ Len(local) + j \in 1 .. Len(local) + Len(remote)
        /\ ~(Len(local) + j <= Len(local)) /\ Len(local) + j - Len(local) = j
    BY <1>1
  <2> QED BY <1>2, <1>3, <1>5, <2>1
<1>8. ASSUME NEW i \in 1 .. Len(local) + Len(remote)
      PROVE  i \in 1 .. Len(local) \/ \E j \in 1 .. Len(remote) : i = Len(local) + j
  <2>1. CASE i > Len(local)
    <3>1. i - Len(local) \in 1 .. Len(remote) /\ i = Len(local) + (i - Len(local))
      BY <1>1, <2>1
    <3> QED BY <3>1
  <2>2. CASE ~(i > Len(local))
    BY <1>1, <2>2
  <2> QED BY <2>1, <2>2
<1> QED BY <1>1, <1>2, <1>4, <1>5, <1>6, <1>7, <1>8

(* A resolution is the batch in another order, in which what is not        *)
(* renamed keeps its order.                                                *)
Reorders(R, s, batch, perm) ==
  /\ DOMAIN batch = DOMAIN R
  /\ \A i \in DOMAIN R :
       /\ perm[i] \in DOMAIN R
       /\ perm[i] \in Renamed(R) =>
            /\ IsUpload(R[perm[i]]) /\ IsUpload(batch[i])
            /\ batch[i].rel = CopyRel(R[perm[i]].rel, s)
            /\ batch[i].path = R[perm[i]].path
       /\ perm[i] \notin Renamed(R) => batch[i] = R[perm[i]]
  /\ \A k \in DOMAIN R : \E i \in DOMAIN R : perm[i] = k
  /\ \A i, j \in DOMAIN R :
       i < j /\ perm[j] \notin Renamed(R) => perm[i] < perm[j]

(* Each result of Resolve is one.                                          *)
LEMMA ResolveIndex ==
  ASSUME NEW R \in Seq(Operation), NEW s, NEW batch \in Resolve(R, s)
  PROVE  \E perm : Reorders(R, s, batch, perm)
<1> DEFINE Resolved(i) == IF i \in Renamed(R) THEN KeepBoth(R[i], s) ELSE R[i]
<1>1. PICK perm \in Injection(DOMAIN R, DOMAIN R) :
        /\ IsResolutionOrder(R, perm)
        /\ batch = [i \in DOMAIN R |-> Resolved(perm[i])]
  BY DEF Resolve
<1>2. perm \in [DOMAIN R -> DOMAIN R]
  BY DEF Injection
<1>3. ASSUME NEW i \in Renamed(R)
      PROVE  /\ IsUpload(R[i]) /\ IsUpload(Resolved(i))
             /\ Resolved(i).rel = CopyRel(R[i].rel, s)
             /\ Resolved(i).path = R[i].path
  <2>1. i \in DOMAIN R /\ IsUpload(R[i])
    BY DEF Renamed
  <2>2. R[i] \in [op : {"UploadNew"}, rel : Rels, path : LocalRels]
    BY <2>1, LenProperties, ElementOfSeq DEF Operation, IsUpload, Skip
  <2> QED BY <2>1, <2>2 DEF KeepBoth, IsUpload
<1>4. \A i \in DOMAIN R : i \notin Renamed(R) => Resolved(i) = R[i]
  OBVIOUS
<1> HIDE DEF Resolved
<1>5. \A k \in DOMAIN R : \E i \in DOMAIN R : perm[i] = k
  <2>1. IsFiniteSet(DOMAIN R)
    BY LenProperties, FS_Interval
  <2>2. perm \in Surjection(DOMAIN R, DOMAIN R)
    BY <2>1, FS_Injection
  <2> QED BY <2>2, Fun_SurjectionProperties
<1>6. \A i, j \in DOMAIN R : i < j /\ perm[j] \notin Renamed(R) => perm[i] < perm[j]
  BY <1>1 DEF IsResolutionOrder
<1>7. \A i \in DOMAIN R : perm[i] \in DOMAIN R
  BY <1>2
<1>8. Reorders(R, s, batch, perm)
  BY <1>1, <1>3, <1>4, <1>5, <1>6, <1>7 DEF Reorders
<1> QED BY <1>8

-----------------------------------------------------------------------------
(* Rows dropped                                                            *)

(* The elements of a sequence that lost its head, or got one more.         *)
LEMMA TailHas ==
  ASSUME NEW S, NEW s \in Seq(S), s # <<>>
  PROVE  /\ Head(s) = s[1] /\ 1 \in DOMAIN s /\ Head(s) \in S
         /\ Tail(s) \in Seq(S)
         /\ \A i \in DOMAIN Tail(s) : i + 1 \in DOMAIN s /\ Tail(s)[i] = s[i + 1]
         /\ \A i \in DOMAIN s : i = 1 \/ (i - 1 \in DOMAIN Tail(s) /\ Tail(s)[i - 1] = s[i])
<1>1. DOMAIN s = 1 .. Len(s) /\ Len(s) \in Nat \ {0}
  BY LenProperties, EmptySeq
<1>2. /\ Head(s) = s[1] /\ Head(s) \in S /\ Tail(s) \in Seq(S)
      /\ Len(Tail(s)) = Len(s) - 1
      /\ \A i \in 1 .. Len(s) - 1 : Tail(s)[i] = s[i + 1]
  BY HeadTailProperties, ElementOfSeq
<1>3. DOMAIN Tail(s) = 1 .. Len(s) - 1
  BY <1>2, LenProperties
<1> QED BY <1>1, <1>2, <1>3

(* The same for Append.                                                    *)
LEMMA AppendHas ==
  ASSUME NEW S, NEW s \in Seq(S), NEW e \in S
  PROVE  /\ Append(s, e) \in Seq(S)
         /\ DOMAIN Append(s, e) = 1 .. Len(s) + 1 /\ Len(s) \in Nat
         /\ DOMAIN s = 1 .. Len(s)
         /\ \A i \in DOMAIN s : Append(s, e)[i] = s[i]
         /\ Append(s, e)[Len(s) + 1] = e
BY AppendProperties, LenProperties

(* Going on to the next operation, or not.                                 *)
LEMMA FewerOps ==
  ASSUME Inv, ops' = ops \/ (ops # <<>> /\ ops' = Tail(ops)) \/ ops' = <<>>
  PROVE  \A i \in DOMAIN ops' : \E j \in DOMAIN ops : ops'[i] = ops[j]
<1>1. CASE ops' = ops
  BY <1>1
<1>2. CASE ops # <<>> /\ ops' = Tail(ops)
  <2>1. ops \in Seq(Operation) /\ DOMAIN ops = 1 .. Len(ops) /\ Len(ops) \in Nat \ {0}
    BY <1>2, LenProperties, EmptySeq DEF Inv, TypeOK
  <2>2. /\ DOMAIN Tail(ops) = 1 .. Len(ops) - 1
        /\ \A k \in 1 .. Len(ops) - 1 : Tail(ops)[k] = ops[k + 1]
    BY <2>1, HeadTailProperties
  <2>3. \A k \in 1 .. Len(ops) - 1 : k + 1 \in DOMAIN ops
    BY <2>1
  <2> QED BY <1>2, <2>2, <2>3, Zenon
<1>3. CASE ops' = <<>>
  BY <1>3
<1> QED BY <1>1, <1>2, <1>3

(* The propagator works its batch off and the watchers see to the rest.    *)
LEMMA PropagateOps ==
  ASSUME Inv, Propagate
  PROVE  /\ ops' = ops \/ (ops # <<>> /\ ops' = Tail(ops))
         /\ UNCHANGED <<disk, fsEvents, localRx, remoteRx, buf, restarts>>
         /\ step'.at \in {"op", "walk", "walked", "send", "record"}
<1>1. step \in Step
  BY DEF Inv, TypeOK
<1>2. CASE SkipOp \/ DeleteRemote \/ FindParent
  BY <1>2, GotoType DEF SkipOp, DeleteRemote, FindParent, NextOp, watcherVars, boundVars,
     Places, Step
<1>3. CASE WalkRow \/ WalkCreate \/ WalkRecord
  BY <1>1, <1>3 DEF WalkRow, WalkCreate, WalkRecord, Descend, Step, watcherVars, boundVars
<1>4. CASE WalkFail
  BY <1>4, SegmentType, GotoType DEF WalkFail, NextOp, watcherVars, Places, At
<1>5. CASE SendOk
  BY <1>1, <1>5 DEF SendOk, Step, boundVars
<1>6. CASE SendFail
  <2>1. step.at = "send" /\ ops # <<>>
    BY <1>6, SendingType DEF SendFail, At
  <2>2. UNCHANGED <<disk, fsEvents, localRx, remoteRx, buf, restarts>> /\ RetryOrDrop
    BY <1>6 DEF SendFail
  <2> QED BY <1>1, <2>1, <2>2, GotoType DEF RetryOrDrop, NextOp, Places, Step
<1>7. CASE Record
  BY <1>7, SendingType, GotoType DEF Record, NextOp, watcherVars, boundVars, Places, At
<1> QED BY <1>2, <1>3, <1>4, <1>5, <1>6, <1>7 DEF Propagate

(* Events and changes of a step of a user.                                 *)
LEMMA UserRemovals ==
  ASSUME Inv, RemovalsAsked, User
  PROVE  RemovalsAsked'
<1>1. CASE /\ UNCHANGED <<fsEvents, localRx, agentVars>>
           /\ DOMAIN disk \subseteq DOMAIN disk'
  BY <1>1 DEF agentVars, RemovalsAsked, EventsStand, NoneRemoved
<1>2. ASSUME NEW rel \in LocalRels, LocalWrite(rel) \/ LocalMkdir(rel)
      PROVE  RemovalsAsked'
  <2>1. /\ UNCHANGED <<localRx, agentVars>>
        /\ DOMAIN disk' = DOMAIN disk \cup {rel} /\ Notify(rel, FALSE)
    BY <1>2 DEF LocalWrite, LocalMkdir, Put
  <2>2. EventsStand => EventsStand'
    <3> SUFFICES ASSUME EventsStand PROVE EventsStand'
      OBVIOUS
    <3> DEFINE Event == [rel : LocalRels, gone : BOOLEAN]
               e     == [rel |-> rel, gone |-> FALSE]
    <3>1. e \in Event /\ fsEvents \in Seq(Event) /\ ~e.gone /\ e.rel = rel
      BY DEF Inv, TypeOK
    <3>2. fsEvents' = fsEvents \/ fsEvents' = Append(fsEvents, e)
      BY <2>1 DEF Notify
    <3> HIDE DEF Event, e
    <3>3. \A i \in DOMAIN fsEvents' :
            (i \in DOMAIN fsEvents /\ fsEvents'[i] = fsEvents[i]) \/ fsEvents'[i] = e
      BY <3>1, <3>2, AppendHas
    <3> QED BY <2>1, <3>1, <3>3 DEF EventsStand
  <2> QED BY <2>1, <2>2 DEF agentVars, RemovalsAsked, NoneRemoved
<1>3. ASSUME NEW rel \in LocalRels, LocalRemove(rel)
      PROVE  RemovalsAsked'
  BY <1>3 DEF LocalRemove, UserMay, agentVars, RemovalsAsked
<1>4. ASSUME NEW rel \in RemoteRels, NEW p \in {Root} \cup DOMAIN drive, NEW l \in DOMAIN drive,
             RemoteRename(l, p, rel)
      PROVE  UNCHANGED <<disk, fsEvents, localRx, agentVars>>
  BY <1>4 DEF RemoteRename
<1>5. ASSUME NEW rel \in RemoteRels, NEW p \in {Root} \cup DOMAIN drive,
             RemoteWrite(p, rel) \/ RemoteMkdir(p, rel)
      PROVE  UNCHANGED <<disk, fsEvents, localRx, agentVars>>
  BY <1>5 DEF RemoteWrite, RemoteMkdir
<1>6. ASSUME NEW l \in DOMAIN drive, RemoteTrash(l)
      PROVE  UNCHANGED <<disk, fsEvents, localRx, agentVars>>
  BY <1>6 DEF RemoteTrash
<1> QED BY <1>1, <1>2, <1>3, <1>4, <1>5, <1>6 DEF User

(* A batch drops the rows of the paths whose removal was observed.         *)
LEMMA BatchRemovals ==
  ASSUME Inv, RemovalsAsked, BeginCycle
  PROVE  \A i \in DOMAIN ops' :
           ops'[i].op = "DeleteRemote"
             => ops'[i].rel \in LocalRels /\ "LocalRemove" \in UserActions
<1> DEFINE R == Reconcile(buf.local, buf.remote)
<1>1. buf.local \in Seq(LocalChange) /\ buf.remote \in Seq(RemoteChange)
  BY DEF Inv, TypeOK
<1>2. R \in Seq(Operation)
  BY <1>1, ReconcileType
<1>3. ASSUME NEW k \in DOMAIN R, R[k].op = "DeleteRemote"
      PROVE  R[k].rel \in LocalRels /\ "LocalRemove" \in UserActions
  <2>1. CASE k \in DOMAIN buf.local
    <3>1. R[k] = LocalOp(buf.local[k]) /\ buf.local[k] \in LocalChange
      BY <1>1, <2>1, ReconcileIndex, ElementOfSeq
    <3>2. buf.local[k].kind = "Removed" /\ R[k].rel = buf.local[k].rel
      BY <1>3, <3>1 DEF LocalOp
    <3>3. buf.local[k].rel \in LocalRels
      BY <3>1 DEF LocalChange
    <3> QED BY <2>1, <3>2, <3>3 DEF RemovalsAsked, NoneRemoved
  <2>2. CASE \E j \in DOMAIN buf.remote : k = Len(buf.local) + j
    <3>1. PICK j \in DOMAIN buf.remote : R[k] = RemoteOp(buf.remote[j])
      BY <1>1, <2>2, ReconcileIndex
    <3> QED BY <1>3, <3>1 DEF RemoteOp, Skip
  <2> QED BY <1>1, <2>1, <2>2, ReconcileIndex
<1> DEFINE t == stamp + 1
<1>4. PICK batch \in Resolve(R, t) : ops' = batch
  BY DEF BeginCycle
<1> HIDE DEF R, t
<1>5. ASSUME NEW i \in DOMAIN batch, batch[i].op = "DeleteRemote"
      PROVE  \E k \in DOMAIN R : batch[i] = R[k]
  <2>1. PICK perm : Reorders(R, t, batch, perm)
    BY <1>2, ResolveIndex
  <2>2. i \in DOMAIN R /\ perm[i] \in DOMAIN R
    BY <2>1 DEF Reorders
  <2>3. perm[i] \notin Renamed(R)
    <3> SUFFICES ASSUME perm[i] \in Renamed(R) PROVE FALSE
      OBVIOUS
    <3>1. batch[i].op = "UploadNew"
      BY <2>1, <2>2 DEF Reorders, IsUpload
    <3> QED BY <1>5, <3>1
  <2> QED BY <2>1, <2>2, <2>3 DEF Reorders
<1> QED BY <1>3, <1>4, <1>5

(* Every step keeps what is said of removals.                              *)
LEMMA RemovalsNext ==
  ASSUME Inv, RemovalsAsked, [Next]_vars
  PROVE  RemovalsAsked'
<1>1. CASE User
  BY <1>1, UserRemovals
<1>2. CASE TranslateEvent
  <2> DEFINE e == Head(fsEvents)
             c == IF e.gone \/ e.rel \notin DOMAIN disk
                    THEN [kind |-> "Removed", rel |-> e.rel]
                    ELSE [kind |-> "Upsert", rel |-> e.rel,
                          folder |-> disk[e.rel].folder]
             Event == [rel : LocalRels, gone : BOOLEAN]
  <2>1. /\ UNCHANGED <<disk, buf, ops>> /\ fsEvents # <<>>
        /\ fsEvents' = Tail(fsEvents) /\ localRx' = Append(localRx, c)
    BY <1>2 DEF TranslateEvent, agentVars
  <2>2. localRx \in Seq(LocalChange) /\ localRx' \in Seq(LocalChange) /\ fsEvents \in Seq(Event)
    BY <1>2, TranslateStep DEF Inv, TypeOK
  <2>3. e = fsEvents[1] /\ 1 \in DOMAIN fsEvents /\ \A i \in DOMAIN Tail(fsEvents) :
               i + 1 \in DOMAIN fsEvents /\ Tail(fsEvents)[i] = fsEvents[i + 1]
    BY <2>1, <2>2, TailHas
  <2>4. EventsStand => c.kind # "Removed"
    BY <2>3 DEF EventsStand
  <2>5. \A i \in DOMAIN localRx' :
          (i \in DOMAIN localRx /\ localRx'[i] = localRx[i]) \/ localRx'[i] = c
    <3> HIDE DEF c
    <3>1. DOMAIN localRx = 1 .. Len(localRx) /\ Len(localRx) \in Nat
      BY <2>2, LenProperties
    <3> QED BY <2>1, <2>2, <3>1
  <2> HIDE DEF c, e
  <2>6. EventsStand => EventsStand'
    BY <2>1, <2>3 DEF EventsStand
  <2>7. EventsStand /\ NoneRemoved(localRx) => NoneRemoved(localRx')
    BY <2>4, <2>5 DEF NoneRemoved
  <2> QED BY <2>1, <2>6, <2>7 DEF RemovalsAsked, NoneRemoved
<1>3. CASE RecvLocal
  <2>1. /\ UNCHANGED <<disk, fsEvents, ops>> /\ localRx # <<>>
        /\ localRx' = Tail(localRx)
        /\ buf' = [buf EXCEPT !.local = Append(@, Head(localRx))]
    BY <1>3 DEF RecvLocal
  <2>2. localRx \in Seq(LocalChange) /\ buf.local \in Seq(LocalChange)
        /\ buf'.local = Append(buf.local, Head(localRx))
    BY <2>1 DEF Inv, TypeOK
  <2>3. /\ Head(localRx) = localRx[1] /\ 1 \in DOMAIN localRx /\ Head(localRx) \in LocalChange
        /\ \A i \in DOMAIN Tail(localRx) :
               i + 1 \in DOMAIN localRx /\ Tail(localRx)[i] = localRx[i + 1]
    BY <2>1, <2>2, TailHas
  <2>4. \A i \in DOMAIN buf'.local :
          (i \in DOMAIN buf.local /\ buf'.local[i] = buf.local[i]) \/ buf'.local[i] = localRx[1]
    BY <2>2, <2>3, AppendHas
  <2> QED BY <2>1, <2>3, <2>4 DEF RemovalsAsked, NoneRemoved, EventsStand
<1>4. CASE Tick
  <2>1. UNCHANGED <<disk, fsEvents, localRx>> /\ buf'.local = <<>>
    BY <1>4 DEF Tick, BeginCycle, watcherVars
  <2> QED BY <1>4, <2>1, BatchRemovals DEF Tick, RemovalsAsked, NoneRemoved, EventsStand
<1>5. CASE Propagate
  <2>1. \A i \in DOMAIN ops' : \E j \in DOMAIN ops : ops'[i] = ops[j]
    BY <1>5, PropagateOps, FewerOps
  <2> QED BY <1>5, <2>1, PropagateOps DEF RemovalsAsked, NoneRemoved, EventsStand
<1>6. CASE Abort
  BY <1>6 DEF Abort, RemovalsAsked, NoneRemoved, EventsStand
<1>7. CASE RecvRemote
  <2>1. UNCHANGED <<disk, fsEvents, localRx, ops>> /\ buf'.local = buf.local
    BY <1>7 DEF RecvRemote, Inv, TypeOK
  <2> QED BY <2>1 DEF RemovalsAsked, NoneRemoved, EventsStand
<1>8. CASE (\E l \in unseen : ReportRemote(l)) \/ Heartbeat \/ FinishCycle \/ Start
           \/ UNCHANGED vars
  <2>1. UNCHANGED <<disk, fsEvents, localRx, buf, ops>>
    BY <1>8 DEF ReportRemote, Heartbeat, FinishCycle, Start, vars, watcherVars, agentVars
  <2> QED BY <2>1 DEF RemovalsAsked, NoneRemoved, EventsStand
<1> QED BY <1>1, <1>2, <1>3, <1>4, <1>5, <1>6, <1>7, <1>8 DEF Next, Watchers, Loop

-----------------------------------------------------------------------------
(* The tree of the drive                                                   *)

(* The call of the propagator.                                             *)
LEMMA CallEffected ==
  ASSUME Inv, OneTree, step.at = "send", NEW link, Effect(link)
  PROVE  /\ OneTree'
         /\ Head(ops).op = "UploadNew" =>
              /\ Readable(Head(ops).path)
              /\ Effected(step.into, Head(ops).rel, FALSE, disk[Head(ops).path].rev, link)
         /\ Head(ops).op # "UploadNew" =>
              Effected(step.into, Head(ops).rel, TRUE, 0, link)
<1> DEFINE p    == step.into
           name == LeafOf(Head(ops).rel)
           rev  == disk[Head(ops).path].rev
<1>1. /\ IsParent(p) /\ name \in Names /\ Head(ops).rel \in Rels
      /\ IsDir(p) => Append(RelOf(p), name) = Head(ops).rel
      /\ Head(ops).op = "UploadNew" => Head(ops).path \in LocalRels
  BY SendingType
<1>2. TypeOK /\ TreeFaithful
  BY DEF Inv
<1>3. CASE Head(ops).op = "UploadNew"
  <2>1. Readable(Head(ops).path) /\ StoreFile(p, name, rev, link)
    BY <1>3 DEF Effect
  <2>2. rev \in Nat
    BY <1>1, <1>2, <2>1 DEF Readable, TypeOK, Entry
  <2> HIDE DEF p, name, rev
  <2>3. IsFolder(p) /\ (link \in DOMAIN drive \/ Children(p, name) = {})
    BY <2>1 DEF StoreFile, CanUpload, Children
  <2>4. IsDir(p)
    BY <2>3 DEF IsFolder, IsDir
  <2>5. Effected(p, Append(RelOf(p), name), FALSE, rev, link)
    BY <1>1, <1>2, <2>1, <2>2, StoreFileEffected
  <2>6. OneTree'
    BY <1>1, <1>2, <2>3, <2>5, EffectedTree
  <2> QED BY <1>1, <1>3, <2>1, <2>4, <2>5, <2>6 DEF p, name, rev
<1>4. CASE Head(ops).op # "UploadNew"
  <2>1. StoreFolder(p, name, link)
    BY <1>4 DEF Effect
  <2> HIDE DEF p, name, rev
  <2>2. IsFolder(p) /\ Children(p, name) = {}
    BY <2>1 DEF StoreFolder, CanCreateFolder
  <2>3. IsDir(p)
    BY <2>2 DEF IsFolder, IsDir
  <2>4. Effected(p, Append(RelOf(p), name), TRUE, 0, link)
    BY <1>1, <1>2, <2>1, StoreFolderEffected
  <2>5. OneTree'
    BY <1>1, <1>2, <2>2, <2>4, EffectedTree
  <2> QED BY <1>1, <1>4, <2>3, <2>4, <2>5 DEF p, name
<1> QED BY <1>3, <1>4

(* The creation of a parent on the way.                                    *)
LEMMA WalkEffected ==
  ASSUME Inv, OneTree, WalkCreate
  PROVE  OneTree' /\ Effected(step.into, Segment, TRUE, 0, FreshLink)
<1> DEFINE p    == step.into
           name == LeafOf(Segment)
           link == FreshLink
<1>1. /\ name \in Names /\ StoreFolder(p, name, link)
      /\ IsDir(p) => Append(RelOf(p), name) = Segment
  BY SegmentType DEF WalkCreate, At
<1>2. TypeOK /\ TreeFaithful
  BY DEF Inv
<1> HIDE DEF p, name, link
<1>3. IsFolder(p) /\ Children(p, name) = {}
  BY <1>1 DEF StoreFolder, CanCreateFolder
<1>4. IsDir(p)
  BY <1>3 DEF IsFolder, IsDir
<1>5. Effected(p, Append(RelOf(p), name), TRUE, 0, link)
  BY <1>1, <1>2, StoreFolderEffected
<1>6. OneTree'
  BY <1>1, <1>2, <1>3, <1>5, EffectedTree
<1> QED BY <1>1, <1>4, <1>5, <1>6 DEF p, name, link

(* A write or a new folder of another client.                              *)
LEMMA UserEffected ==
  ASSUME Inv, OneTree, NEW rel \in RemoteRels, NEW p \in {Root} \cup DOMAIN drive,
         RemoteWrite(p, rel) \/ RemoteMkdir(p, rel)
  PROVE  /\ OneTree'
         /\ \E rev, link :
              \/ rel \notin Folders /\ Effected(p, rel, FALSE, rev, link)
              \/ rel \in Folders /\ Effected(p, rel, TRUE, rev, link)
<1> DEFINE name == LeafOf(rel)
           rev  == NewRev
<1>1. TypeOK /\ TreeFaithful /\ IsParent(p) /\ rel \in Rels /\ rev \in Nat
  BY EngineAssumption DEF Inv, TypeOK, IsParent, NewRev
<1>2. name \in Names /\ Append(ParentOf(rel), name) = rel
  BY <1>1, PathSplit
<1> HIDE DEF name, rev
<1>3. CASE RemoteWrite(p, rel)
  <2>1. PICK link : StoreFile(p, name, rev, link) /\ rel \notin Folders /\ RelOf(p) = ParentOf(rel)
    BY <1>3 DEF RemoteWrite, name, rev
  <2>2. IsFolder(p) /\ (link \in DOMAIN drive \/ Children(p, name) = {})
    BY <2>1 DEF StoreFile, CanUpload, Children
  <2>3. Effected(p, Append(RelOf(p), name), FALSE, rev, link)
    BY <1>1, <1>2, <2>1, StoreFileEffected
  <2>4. OneTree'
    BY <1>1, <1>2, <2>2, <2>3, EffectedTree
  <2> QED BY <1>2, <2>1, <2>3, <2>4
<1>4. CASE RemoteMkdir(p, rel)
  <2> DEFINE link == FreshLink
  <2>1. StoreFolder(p, name, link) /\ rel \in Folders /\ RelOf(p) = ParentOf(rel)
    BY <1>4 DEF RemoteMkdir, name
  <2> HIDE DEF link
  <2>2. IsFolder(p) /\ Children(p, name) = {}
    BY <2>1 DEF StoreFolder, CanCreateFolder
  <2>3. Effected(p, Append(RelOf(p), name), TRUE, 0, link)
    BY <1>1, <1>2, <2>1, StoreFolderEffected
  <2>4. OneTree'
    BY <1>1, <1>2, <2>2, <2>3, EffectedTree
  <2> QED BY <1>2, <2>1, <2>3, <2>4
<1> QED BY <1>3, <1>4

(* Steps that leave the drive alone.                                       *)
LEMMA TreeKept ==
  ASSUME OneTree, drive' = drive, unseen' \subseteq unseen
  PROVE  OneTree'
BY DEF OneTree, IsFolder

(* Every step leaves one tree.                                             *)
LEMMA OneTreeNext ==
  ASSUME Inv, OneTree, [Next]_vars
  PROVE  OneTree'
<1>1. CASE User
  <2>1. ASSUME NEW rel \in LocalRels, LocalWrite(rel) \/ LocalMkdir(rel) \/ LocalRemove(rel)
        PROVE  OneTree'
    BY <2>1, TreeKept DEF LocalWrite, LocalMkdir, LocalRemove
  <2>2. ASSUME NEW rel \in RemoteRels, NEW p \in {Root} \cup DOMAIN drive,
               RemoteWrite(p, rel) \/ RemoteMkdir(p, rel)
        PROVE  OneTree'
    BY <2>2, UserEffected
  <2>3. ASSUME NEW rel \in RemoteRels, NEW p \in {Root} \cup DOMAIN drive, NEW l \in DOMAIN drive,
               RemoteRename(l, p, rel)
        PROVE  OneTree'
    BY <2>3, RenameTree, EngineAssumption DEF Inv
  <2>4. ASSUME NEW l \in DOMAIN drive, RemoteTrash(l)
        PROVE  OneTree'
    BY <2>4, TrashTree DEF Inv
  <2> QED BY <1>1, <2>1, <2>2, <2>3, <2>4 DEF User
<1>2. CASE Watchers
  BY <1>2, TreeKept DEF Watchers, TranslateEvent, ReportRemote
<1>3. CASE Loop
  BY <1>3, TreeKept DEF Loop, RecvLocal, RecvRemote, Tick, BeginCycle, Heartbeat, FinishCycle,
     watcherVars
<1>4. CASE SkipOp \/ DeleteRemote \/ FindParent \/ WalkRow \/ WalkRecord \/ WalkFail \/ Record
  BY <1>4, TreeKept DEF SkipOp, DeleteRemote, FindParent, WalkRow, WalkRecord, WalkFail, Record,
     watcherVars
<1>5. CASE WalkCreate
  BY <1>5, WalkEffected
<1>6. CASE SendOk
  <2>1. PICK link : Effect(link) /\ step.at = "send"
    BY <1>6 DEF SendOk, At
  <2> QED BY <2>1, CallEffected
<1>7. CASE SendFail
  <2>1. step.at = "send" /\ (UNCHANGED <<drive, unseen>> \/ \E link : Effect(link))
    BY <1>7 DEF SendFail, At
  <2>2. CASE \E link : Effect(link)
    BY <2>1, <2>2, CallEffected
  <2> QED BY <2>1, <2>2, TreeKept
<1>8. CASE Abort \/ Start \/ UNCHANGED vars
  BY <1>8, TreeKept DEF Abort, Start, vars, watcherVars
<1> QED BY <1>1, <1>2, <1>3, <1>4, <1>5, <1>6, <1>7, <1>8 DEF Next, Propagate

-----------------------------------------------------------------------------
(* No node is forgotten                                                    *)

(* Failed calls and aborts are counted and never forgiven.                 *)
LEMMA UndisturbedBefore ==
  ASSUME Inv, [Next]_vars, Undisturbed'
  PROVE  Undisturbed /\ UNCHANGED <<faults, restarts>>
<1>1. faults \in Nat /\ restarts \in Nat
  BY DEF Inv, TypeOK
<1>2. (faults' = faults \/ faults' = faults + 1)
      /\ (restarts' = restarts \/ restarts' = restarts + 1)
  <2>1. CASE User
    BY <2>1, ZenonT(60) DEF User, LocalWrite, LocalMkdir, LocalRemove, RemoteWrite, RemoteMkdir,
       RemoteRename, RemoteTrash
  <2>2. CASE Watchers
    BY <2>2 DEF Watchers, TranslateEvent, ReportRemote, boundVars
  <2>3. CASE Loop
    BY <2>3 DEF Loop, RecvLocal, RecvRemote, Tick, BeginCycle, Heartbeat, FinishCycle,
       boundVars
  <2>4. CASE Propagate
    BY <2>4 DEF Propagate, SkipOp, DeleteRemote, FindParent, WalkRow, WalkCreate, WalkRecord,
       WalkFail, SendOk, SendFail, Record, boundVars
  <2>5. CASE Abort \/ Start \/ UNCHANGED vars
    BY <2>5 DEF Abort, Start, vars, boundVars
  <2> QED BY <2>1, <2>2, <2>3, <2>4, <2>5 DEF Next
<1> QED BY <1>1, <1>2 DEF Undisturbed

(* A step that writes no other row and reports nothing leaves the memory   *)
(* of a node.                                                              *)
LEMMA MemoryKept ==
  ASSUME NEW l, drive'[l].rel = drive[l].rel, l \in unseen => l \in unseen',
         Reports' = Reports, RowStands(l) => HasRow(l)',
         NEW r, r = drive[l].rel,
         AboutToWrite(r)' => AboutToWrite(r) /\ step'.link = step.link,
         Remembered(l)
  PROVE  Remembered(l)'
<1>1. LastReport(l) => LastReport(l)'
  BY DEF LastReport
<1>2. RowStands(l) => RowStands(l)'
  <2>1. AboutToWrite(drive[l].rel)' <=> AboutToWrite(r)'
    BY DEF AboutToWrite
  <2>2. NoReport(drive[l].rel) => NoReport(drive[l].rel)'
    BY DEF NoReport
  <2> QED BY <2>1, <2>2 DEF RowStands
<1> QED BY <1>1, <1>2 DEF Remembered

(* Nothing that bears on the memory of a node has changed.                 *)
LEMMA MemorySame ==
  ASSUME NEW l \in DOMAIN drive, drive'[l] = drive[l], l \in unseen => l \in unseen',
         remoteRx' = remoteRx, buf'.remote = buf.remote, rows' = rows,
         step' = step, ops' = ops, Remembered(l)
  PROVE  Remembered(l)'
<1>4. PICK r : r = drive[l].rel
  OBVIOUS
<1>1. AboutToWrite(r)' => AboutToWrite(r) /\ step'.link = step.link
  BY <1>4 DEF AboutToWrite, At, Segment
<1>2. Reports' = Reports /\ (RowStands(l) => HasRow(l)')
  BY DEF Reports, RowStands, HasRow
<1>3. drive'[l].rel = drive[l].rel
  OBVIOUS
<1> QED BY <1>1, <1>2, <1>3, <1>4, MemoryKept

(* The agent's step moved on to a place where it writes no row.            *)
LEMMA MemoryMoved ==
  ASSUME NEW l \in DOMAIN drive, drive'[l] = drive[l], l \in unseen => l \in unseen',
         remoteRx' = remoteRx, buf'.remote = buf.remote, RowStands(l) => HasRow(l)',
         step'.at \notin {"walked", "record"}, Remembered(l)
  PROVE  Remembered(l)'
<1>4. PICK r : r = drive[l].rel
  OBVIOUS
<1>1. ~AboutToWrite(r)'
  BY <1>4 DEF AboutToWrite, At
<1>2. Reports' = Reports
  BY DEF Reports
<1>3. drive'[l].rel = drive[l].rel
  OBVIOUS
<1> QED BY <1>1, <1>2, <1>3, <1>4, MemoryKept

(* Others change the drive.                                                *)
LEMMA UserRemembers ==
  ASSUME Inv, OneTree, User, NEW l \in DOMAIN drive', drive'[l].alive,
         l \in DOMAIN drive /\ drive[l].alive /\ drive'[l] = drive[l] => Remembered(l)
  PROVE  Remembered(l)'
<1>1. UNCHANGED <<remoteRx, buf, rows, step, ops>>
  BY ZenonT(60) DEF User, LocalWrite, LocalMkdir, LocalRemove, RemoteWrite, RemoteMkdir,
     RemoteRename, RemoteTrash, agentVars
<1>2. CASE l \in DOMAIN drive /\ drive'[l] = drive[l] /\ (l \in unseen => l \in unseen')
  BY <1>1, <1>2, MemorySame
<1>3. ASSUME NEW rel \in LocalRels, LocalWrite(rel) \/ LocalMkdir(rel) \/ LocalRemove(rel)
      PROVE  drive' = drive /\ unseen' = unseen
  BY <1>3 DEF LocalWrite, LocalMkdir, LocalRemove
<1>4. ASSUME NEW rel \in RemoteRels, NEW p \in {Root} \cup DOMAIN drive,
             RemoteWrite(p, rel) \/ RemoteMkdir(p, rel)
      PROVE  Remembered(l)'
  <2>1. PICK folder, rev, link : Effected(p, rel, folder, rev, link)
    BY <1>4, UserEffected
  <2>2. CASE l = link
    BY <2>1, <2>2 DEF Effected, Remembered
  <2>3. CASE l # link
    BY <1>2, <2>1, <2>3 DEF Effected
  <2> QED BY <2>2, <2>3
<1>5. ASSUME NEW rel \in RemoteRels, NEW p \in {Root} \cup DOMAIN drive, NEW m \in DOMAIN drive,
             RemoteRename(m, p, rel)
      PROVE  Remembered(l)'
  <2>1. /\ unseen' = unseen \cup {m} /\ DOMAIN drive' = DOMAIN drive
        /\ \A k \in DOMAIN drive : k # m => drive'[k] = drive[k]
    BY <1>5, RenameTree, EngineAssumption DEF Inv
  <2>2. CASE l = m
    BY <2>1, <2>2 DEF Remembered
  <2> QED BY <1>2, <2>1, <2>2
<1>6. ASSUME NEW m \in DOMAIN drive, RemoteTrash(m)
      PROVE  l \in DOMAIN drive /\ drive'[l] = drive[l] /\ (l \in unseen => l \in unseen')
  <2>1. /\ DOMAIN drive' = DOMAIN drive /\ unseen' = unseen \ Below(m)
        /\ drive'[l].alive <=> drive[l].alive /\ l \notin Below(m)
    BY <1>6, TrashTree DEF Inv
  <2>2. l \in DOMAIN drive /\ drive[l].alive /\ l \notin Below(m)
    BY <2>1
  <2>3. drive'[l] = [drive[l] EXCEPT !.alive = @ /\ l \notin Below(m)]
    BY <1>6, <2>2 DEF RemoteTrash
  <2>4. drive[l] \in Node
    BY <2>2, DriveType DEF Inv
  <2>5. drive[l].alive = TRUE /\ (drive[l].alive /\ l \notin Below(m)) = TRUE
    BY <2>2, <2>4 DEF Node
  <2>6. [drive[l] EXCEPT !.alive = @ /\ l \notin Below(m)] = drive[l]
    BY <2>4, <2>5 DEF Node
  <2> QED BY <2>1, <2>2, <2>3, <2>6
<1> QED BY <1>2, <1>3, <1>4, <1>5, <1>6 DEF User

-----------------------------------------------------------------------------
(* Reports on their way                                                    *)

(* The elements of two sequences joined.                                   *)
LEMMA Joined ==
  ASSUME NEW S, NEW s \in Seq(S), NEW t \in Seq(S)
  PROVE  /\ s \o t \in Seq(S)
         /\ Len(s) \in Nat /\ Len(t) \in Nat
         /\ DOMAIN s = 1 .. Len(s) /\ DOMAIN t = 1 .. Len(t)
         /\ DOMAIN (s \o t) = 1 .. Len(s) + Len(t)
         /\ \A i \in DOMAIN s : (s \o t)[i] = s[i]
         /\ \A j \in DOMAIN t : (s \o t)[Len(s) + j] = t[j]
         /\ \A i \in DOMAIN (s \o t) :
              i \in DOMAIN s \/ \E j \in DOMAIN t : i = Len(s) + j
<1>1. /\ Len(s) \in Nat /\ Len(t) \in Nat
      /\ DOMAIN s = 1 .. Len(s) /\ DOMAIN t = 1 .. Len(t)
  BY LenProperties
<1>2. /\ s \o t \in Seq(S) /\ DOMAIN (s \o t) = 1 .. Len(s) + Len(t)
      /\ \A i \in 1 .. Len(s) + Len(t) :
           (s \o t)[i] = IF i <= Len(s) THEN s[i] ELSE t[i - Len(s)]
  BY ConcatProperties, LenProperties
<1>3. ASSUME NEW j \in DOMAIN t PROVE (s \o t)[Len(s) + j] = t[j]
  <2>1. /\ Len(s) + j \in 1 .. Len(s) + Len(t)
        /\ ~(Len(s) + j <= Len(s)) /\ Len(s) + j - Len(s) = j
    BY <1>1
  <2> QED BY <1>2, <2>1
<1>4. ASSUME NEW i \in 1 .. Len(s) + Len(t)
      PROVE  i \in DOMAIN s \/ \E j \in DOMAIN t : i = Len(s) + j
  <2>1. CASE i > Len(s)
    <3>1. i - Len(s) \in 1 .. Len(t) /\ i = Len(s) + (i - Len(s))
      BY <1>1, <2>1
    <3> QED BY <1>1, <3>1
  <2>2. CASE ~(i > Len(s))
    BY <1>1, <2>2
  <2> QED BY <2>1, <2>2
<1> QED BY SMTT(30), <1>1, <1>2, <1>3, <1>4

(* The first element of one sequence goes to the end of the other.         *)
HandsOver(s, t, a, u) ==
  /\ Len(a) = Len(s) + 1 /\ Len(t) = Len(u) + 1
  /\ \A i \in 1 .. Len(s) : a[i] = s[i]
  /\ a[Len(s) + 1] = t[1]
  /\ \A i \in 1 .. Len(u) : u[i] = t[i + 1]

(* It does not show when they are joined.                                  *)
LEMMA HandedOver ==
  ASSUME NEW S, NEW s \in Seq(S), NEW t \in Seq(S), NEW a \in Seq(S), NEW u \in Seq(S),
         HandsOver(s, t, a, u)
  PROVE  a \o u = s \o t
<1> USE DEF HandsOver
<1>1. /\ Len(s) \in Nat /\ Len(t) \in Nat /\ Len(a) \in Nat /\ Len(u) \in Nat
      /\ DOMAIN u = 1 .. Len(u) /\ DOMAIN a = 1 .. Len(a)
      /\ DOMAIN s = 1 .. Len(s) /\ DOMAIN t = 1 .. Len(t)
  BY LenProperties
<1>2. /\ a \o u \in Seq(S) /\ s \o t \in Seq(S)
      /\ Len(a \o u) = Len(a) + Len(u) /\ Len(s \o t) = Len(s) + Len(t)
  BY ConcatProperties
<1>3. /\ \A i \in DOMAIN a : (a \o u)[i] = a[i]
      /\ \A i \in DOMAIN u : (a \o u)[Len(a) + i] = u[i]
  BY Joined
<1>4. /\ \A i \in DOMAIN s : (s \o t)[i] = s[i]
      /\ \A i \in DOMAIN t : (s \o t)[Len(s) + i] = t[i]
  BY Joined
<1>5. ASSUME NEW i \in 1 .. Len(a) + Len(u)
      PROVE  (a \o u)[i] = (s \o t)[i]
  <2>1. CASE i <= Len(s)
    <3>1. i \in DOMAIN a /\ i \in DOMAIN s
      BY <1>1, <2>1
    <3> QED BY <1>1, <1>3, <1>4, <3>1
  <2>2. CASE i = Len(s) + 1
    <3>1. i \in DOMAIN a /\ 1 \in DOMAIN t
      BY <1>1, <2>2
    <3> QED BY <1>3, <1>4, <2>2, <3>1
  <2>3. CASE ~(i <= Len(s)) /\ i # Len(s) + 1
    <3>1. PICK k \in DOMAIN u : i = Len(a) + k
      <4>1. i - Len(a) \in DOMAIN u /\ i = Len(a) + (i - Len(a))
        BY <1>1, <2>3
      <4> QED BY <4>1
    <3>2. k + 1 \in DOMAIN t /\ i = Len(s) + (k + 1)
      BY <1>1, <3>1
    <3>3. (a \o u)[i] = u[k] /\ u[k] = t[k + 1]
      BY <1>1, <1>3, <3>1
    <3>4. (s \o t)[i] = t[k + 1]
      BY <1>4, <3>2
    <3> QED BY <3>3, <3>4
  <2> QED BY <2>1, <2>2, <2>3
<1>6. Len(a \o u) = Len(s \o t)
  BY <1>1, <1>2
<1> QED BY <1>2, <1>5, <1>6, SeqEqual

(* An element more, and one handed over.                                   *)
LEMMA JoinedAppend ==
  ASSUME NEW S, NEW s \in Seq(S), NEW t \in Seq(S)
  PROVE  /\ \A e \in S : s \o Append(t, e) = Append(s \o t, e)
         /\ t # <<>> => Append(s, Head(t)) \o Tail(t) = s \o t
<1>1. ASSUME NEW e \in S PROVE s \o Append(t, e) = Append(s \o t, e)
  <2>1. <<e>> \in Seq(S) /\ s \o t \in Seq(S)
    BY ConcatProperties
  <2>2. Append(t, e) = t \o <<e>> /\ Append(s \o t, e) = (s \o t) \o <<e>>
    BY <2>1, AppendIsConcat
  <2> QED BY <2>1, <2>2, ConcatAssociative
<1>2. ASSUME t # <<>> PROVE Append(s, Head(t)) \o Tail(t) = s \o t
  <2>1. PICK a, u : a = Append(s, Head(t)) /\ u = Tail(t)
    OBVIOUS
  <2>2. /\ Head(t) \in S /\ Head(t) = t[1] /\ u \in Seq(S) /\ Len(t) \in Nat \ {0}
        /\ Len(u) = Len(t) - 1
        /\ \A i \in 1 .. Len(t) - 1 : u[i] = t[i + 1]
    BY <1>2, <2>1, HeadTailProperties, EmptySeq, LenProperties, ElementOfSeq
  <2>3. a \in Seq(S) /\ Len(a) = Len(s) + 1 /\ a[Len(s) + 1] = t[1]
        /\ \A i \in 1 .. Len(s) : a[i] = s[i]
    BY <2>1, <2>2, AppendProperties
  <2>4. Len(t) = Len(u) + 1 /\ \A i \in 1 .. Len(u) : u[i] = t[i + 1]
    BY <2>2
  <2> HandsOver(s, t, a, u)
    BY <2>3, <2>4 DEF HandsOver
  <2>5. a \o u = s \o t
    BY SMTT(30), <2>2, <2>3, HandedOver
  <2> QED BY <2>1, <2>5
<1> QED BY <1>1, <1>2

(* What the watcher has reported, in order.                                *)
LEMMA ReportsType ==
  ASSUME TypeOK
  PROVE  /\ buf.remote \in Seq(RemoteChange) /\ remoteRx \in Seq(RemoteChange)
         /\ Reports \in Seq(RemoteChange)
BY Joined DEF TypeOK, Reports

(* The report of a node comes last; another node's is of another path.     *)
LEMMA ReportRemembers ==
  ASSUME Inv, OneTree, NEW m \in unseen, ReportRemote(m),
         NEW l \in DOMAIN drive, drive[l].alive, Remembered(l)
  PROVE  Remembered(l)'
<1> DEFINE e == [rel |-> drive[m].rel, link |-> m, parent |-> drive[m].parent,
                 folder |-> drive[m].folder, rev |-> drive[m].rev]
<1>1. /\ drive' = drive /\ unseen' = unseen \ {m} /\ UNCHANGED <<rows, buf, step, ops>>
      /\ remoteRx' = Append(remoteRx, e)
  BY DEF ReportRemote, agentVars
<1>2. m \in DOMAIN drive /\ drive[m].alive /\ drive[m] \in Node /\ m \in Links
  BY DriveType DEF Inv, TypeOK, OneTree, Links
<1>3. e \in RemoteChange
  BY <1>2 DEF Node, RemoteChange
<1>4. e.rel = drive[m].rel /\ e.link = m
  OBVIOUS
<1> HIDE DEF e
<1>5. Reports' = Append(Reports, e) /\ Reports \in Seq(RemoteChange)
  BY <1>1, <1>3, ReportsType, JoinedAppend DEF Reports, Inv
<1>6. /\ DOMAIN Reports' = 1 .. Len(Reports) + 1 /\ Len(Reports) \in Nat
      /\ DOMAIN Reports = 1 .. Len(Reports)
      /\ \A i \in DOMAIN Reports : Reports'[i] = Reports[i]
      /\ Reports'[Len(Reports) + 1] = e
  BY <1>3, <1>5, AppendHas
<1>7. CASE l = m
  <2>1. \A j \in 1 .. Len(Reports) + 1 : j <= Len(Reports) + 1
    BY <1>6
  <2>2. Len(Reports) + 1 \in 1 .. Len(Reports) + 1
    BY <1>6
  <2>3. LastReport(l)'
    BY <1>1, <1>4, <1>6, <1>7, <2>1, <2>2 DEF LastReport
  <2> QED BY <2>3 DEF Remembered
<1>8. CASE l # m
  <2>1. drive[m].rel # drive[l].rel
    BY <1>2, <1>8 DEF OneTree
  <2>2. \A j \in DOMAIN Reports' : Reports'[j].rel = drive[l].rel => j \in DOMAIN Reports
    BY <1>4, <1>6, <2>1
  <2>3. LastReport(l) => LastReport(l)'
    BY <1>1, <1>6, <2>2 DEF LastReport
  <2>4. RowStands(l) => RowStands(l)'
    <3>1. NoReport(drive[l].rel) => NoReport(drive[l].rel)'
      BY <1>1, <1>6, <2>2 DEF NoReport
    <3> QED BY <1>1, <3>1 DEF RowStands, HasRow, AboutToWrite, At, Segment
  <2> QED BY <1>1, <1>8, <2>3, <2>4 DEF Remembered
<1> QED BY <1>7, <1>8

(* Taking a report out of the channel changes nothing.                     *)
LEMMA RecvRemembers ==
  ASSUME Inv, RecvRemote, NEW l \in DOMAIN drive, Remembered(l)
  PROVE  Remembered(l)'
<1>1. /\ UNCHANGED <<drive, unseen, rows, step, ops>> /\ remoteRx # <<>>
      /\ remoteRx' = Tail(remoteRx)
      /\ buf'.remote = Append(buf.remote, Head(remoteRx))
  BY DEF RecvRemote, Inv, TypeOK
<1>2. Reports' = Reports
  BY <1>1, ReportsType, JoinedAppend DEF Reports, Inv
<1> QED BY <1>1, <1>2 DEF Remembered, LastReport, RowStands, NoReport, HasRow,
           AboutToWrite, At, Segment

-----------------------------------------------------------------------------
(* Reports in a batch                                                      *)

(* The placeholders of a batch are its reports, in the order they came in. *)
ListsReports(batch, reports, n, perm) ==
  /\ \A p \in DOMAIN batch : p \in Nat /\ perm[p] \in Nat
  /\ \A p \in DOMAIN batch : IsPlaceholder(batch[p]) =>
       \E j \in DOMAIN reports : perm[p] = n + j /\ batch[p] = RemoteOp(reports[j])
  /\ \A j \in DOMAIN reports : \E p \in DOMAIN batch :
       perm[p] = n + j /\ batch[p] = RemoteOp(reports[j])
  /\ \A p, q \in DOMAIN batch :
       p < q /\ IsPlaceholder(batch[q]) => perm[p] < perm[q]

(* Reconciling and resolving keep it so.                                   *)
LEMMA BatchReports ==
  ASSUME NEW local \in Seq(LocalChange), NEW remote \in Seq(RemoteChange), NEW s,
         NEW batch \in Resolve(Reconcile(local, remote), s)
  PROVE  \E perm : ListsReports(batch, remote, Len(local), perm)
<1> DEFINE R == Reconcile(local, remote)
           n == Len(local)
<1>1. /\ R \in Seq(Operation) /\ n \in Nat
      /\ DOMAIN local = 1 .. n /\ DOMAIN remote = 1 .. Len(remote) /\ Len(remote) \in Nat
      /\ DOMAIN R = 1 .. n + Len(remote)
      /\ \A i \in DOMAIN local : R[i] = LocalOp(local[i])
      /\ \A j \in DOMAIN remote : R[n + j] = RemoteOp(remote[j])
      /\ \A i \in DOMAIN R : i \in DOMAIN local \/ \E j \in DOMAIN remote : i = n + j
  BY ReconcileType, ReconcileIndex
<1>2. batch \in Resolve(R, s)
  OBVIOUS
<1> HIDE DEF R, n
<1>3. PICK perm : Reorders(R, s, batch, perm)
  BY <1>1, <1>2, ResolveIndex
<1>4. \A p \in DOMAIN batch :
        p \in DOMAIN R /\ perm[p] \in DOMAIN R /\ p \in Nat /\ perm[p] \in Nat
  BY <1>1, <1>3 DEF Reorders
<1>5. /\ \A j \in DOMAIN remote : ~IsUpload(RemoteOp(remote[j]))
      /\ \A i \in DOMAIN local : ~IsPlaceholder(LocalOp(local[i]))
  BY ElementOfSeq, LenProperties, RemoteOpType, LocalOpType
<1>6. ASSUME NEW p \in DOMAIN batch, IsPlaceholder(batch[p])
      PROVE  perm[p] \notin Renamed(R) /\ batch[p] = R[perm[p]]
  <2>1. ~IsUpload(batch[p])
    BY <1>6 DEF IsUpload, IsPlaceholder
  <2> QED BY <1>3, <1>4, <2>1 DEF Reorders
<1>7. ASSUME NEW p \in DOMAIN batch, IsPlaceholder(batch[p])
      PROVE  \E j \in DOMAIN remote : perm[p] = n + j /\ batch[p] = RemoteOp(remote[j])
  <2>1. perm[p] \notin DOMAIN local
    BY <1>1, <1>5, <1>6, <1>7
  <2> QED BY <1>1, <1>4, <1>6, <1>7, <2>1
<1>8. ASSUME NEW j \in DOMAIN remote
      PROVE  \E p \in DOMAIN batch : perm[p] = n + j /\ batch[p] = RemoteOp(remote[j])
  <2>1. n + j \in DOMAIN R
    BY <1>1
  <2>2. PICK p \in DOMAIN R : perm[p] = n + j
    BY <1>3, <2>1 DEF Reorders
  <2>3. n + j \notin Renamed(R)
    BY <1>1, <1>5 DEF Renamed
  <2> QED BY <1>1, <1>3, <2>2, <2>3 DEF Reorders
<1>9. ASSUME NEW p \in DOMAIN batch, NEW q \in DOMAIN batch, p < q, IsPlaceholder(batch[q])
      PROVE  perm[p] < perm[q]
  BY <1>3, <1>4, <1>6, <1>9 DEF Reorders
<1>10. ListsReports(batch, remote, n, perm)
  BY <1>4, <1>7, <1>8, <1>9 DEF ListsReports
<1> QED BY <1>10 DEF n

(* What a batch writes at a path: nothing if there is no report of it, and *)
(* otherwise the last one.                                                 *)
LEMMA BatchRow ==
  ASSUME TypeOK, NEW batch, NEW n \in Nat, NEW perm,
         ListsReports(batch, buf.remote, n, perm), NEW r
  PROVE  /\ (\A j \in DOMAIN buf.remote : buf.remote[j].rel # r) /\ r \in DOMAIN rows
              => r \in DOMAIN UpsertBatch(batch) /\ UpsertBatch(batch)[r] = rows[r]
         /\ \A i \in DOMAIN buf.remote :
              /\ buf.remote[i].rel = r /\ ~IsExcluded(r)
              /\ \A j \in DOMAIN buf.remote : buf.remote[j].rel = r => j <= i
              => r \in DOMAIN UpsertBatch(batch)
                   /\ UpsertBatch(batch)[r].link = buf.remote[i].link
<1> DEFINE reports == buf.remote
           named == {batch[i].rel : i \in {j \in DOMAIN batch : IsPlaceholder(batch[j])}}
           Last(rel, i) == /\ i \in Placeholders(batch, rel)
                           /\ \A j \in Placeholders(batch, rel) : j <= i
           last(rel) == CHOOSE i \in Placeholders(batch, rel) :
                          \A j \in Placeholders(batch, rel) : j <= i
<1>1. UpsertBatch(batch) =
        [rel \in DOMAIN rows \cup named |->
           IF rel \in named THEN PlaceholderRow(batch[last(rel)]) ELSE rows[rel]]
  BY DEF UpsertBatch
<1>2. \A i : Last(r, i) => Last(r, last(r))
  OBVIOUS
<1>3. \A p \in Placeholders(batch, r) : r \in named /\ p \in DOMAIN batch /\ p \in Nat
  BY DEF Placeholders, ListsReports
<1>4. r \in named => Placeholders(batch, r) # {}
  BY DEF Placeholders
<1>5. reports \in Seq(RemoteChange) /\ DOMAIN reports \subseteq Nat
  BY ReportsType, LenProperties
<1>6. \A j \in DOMAIN reports :
        /\ reports[j] \in RemoteChange
        /\ IsPlaceholder(RemoteOp(reports[j])) <=> ~IsExcluded(reports[j].rel)
        /\ IsPlaceholder(RemoteOp(reports[j])) =>
             /\ RemoteOp(reports[j]).rel = reports[j].rel
             /\ RemoteOp(reports[j]).link = reports[j].link
  <2> SUFFICES ASSUME NEW j \in DOMAIN reports
               PROVE  /\ reports[j] \in RemoteChange
                      /\ IsPlaceholder(RemoteOp(reports[j])) <=> ~IsExcluded(reports[j].rel)
                      /\ IsPlaceholder(RemoteOp(reports[j])) =>
                           /\ RemoteOp(reports[j]).rel = reports[j].rel
                           /\ RemoteOp(reports[j]).link = reports[j].link
    OBVIOUS
  <2>1. reports[j] \in RemoteChange
    BY <1>5, LenProperties, ElementOfSeq
  <2>2. IsPlaceholder(RemoteOp(reports[j])) <=> ~IsExcluded(reports[j].rel)
    BY DEF RemoteOp, IsPlaceholder, Skip
  <2> QED BY <2>1, <2>2, RemoteOpType
<1>7. \A p \in Placeholders(batch, r) : \E j \in DOMAIN reports :
        /\ perm[p] = n + j /\ batch[p] = RemoteOp(reports[j])
        /\ reports[j].rel = r
  <2> SUFFICES ASSUME NEW p \in Placeholders(batch, r)
               PROVE  \E j \in DOMAIN reports :
                        /\ perm[p] = n + j /\ batch[p] = RemoteOp(reports[j])
                        /\ reports[j].rel = r
    OBVIOUS
  <2>1. p \in DOMAIN batch /\ IsPlaceholder(batch[p]) /\ batch[p].rel = r
    BY DEF Placeholders
  <2>2. PICK j \in DOMAIN reports : perm[p] = n + j /\ batch[p] = RemoteOp(reports[j])
    BY <2>1 DEF ListsReports
  <2> QED BY <1>6, <2>1, <2>2
<1>8. ASSUME NEW i \in DOMAIN reports, reports[i].rel = r, ~IsExcluded(r),
             \A j \in DOMAIN reports : reports[j].rel = r => j <= i
      PROVE  r \in named /\ PlaceholderRow(batch[last(r)]).link = reports[i].link
  <2>1. PICK p \in DOMAIN batch : perm[p] = n + i /\ batch[p] = RemoteOp(reports[i])
    BY DEF ListsReports
  <2>2. IsPlaceholder(batch[p]) /\ batch[p].rel = r /\ batch[p].link = reports[i].link
    BY <1>6, <1>8, <2>1
  <2>3. p \in Placeholders(batch, r)
    BY <2>1, <2>2 DEF Placeholders
  <2>4. ASSUME NEW q \in Placeholders(batch, r) PROVE q <= p
    <3>1. PICK j \in DOMAIN reports : perm[q] = n + j /\ reports[j].rel = r
      BY <1>7
    <3>2. j <= i /\ i \in Nat /\ j \in Nat /\ p \in Nat /\ q \in Nat /\ q \in DOMAIN batch
      BY <1>3, <1>5, <1>8, <2>3, <3>1
    <3>3. ~(perm[p] < perm[q])
      BY <2>1, <3>1, <3>2
    <3>4. IsPlaceholder(batch[q])
      BY DEF Placeholders
    <3>5. ~(p < q)
      BY <3>2, <3>3, <3>4 DEF ListsReports
    <3> QED BY <3>2, <3>5
  <2>5. Last(r, last(r))
    BY <1>2, <2>3, <2>4
  <2>6. last(r) = p
    <3>1. last(r) \in Placeholders(batch, r) /\ p <= last(r)
      BY <2>3, <2>5
    <3> HIDE DEF last
    <3> QED BY <1>3, <2>3, <2>4, <3>1
  <2> QED BY <1>3, <2>2, <2>3, <2>6 DEF PlaceholderRow
<1>9. ASSUME \A j \in DOMAIN reports : reports[j].rel # r
      PROVE  r \notin named
  BY <1>4, <1>7, <1>9
<1> HIDE DEF named, last
<1> QED BY <1>1, <1>8, <1>9

(* A batch writes the rows of the nodes it was told of.                    *)
LEMMA BatchRemembers ==
  ASSUME Inv, BeginCycle, rows' = UpsertBatch(ops'),
         NEW l \in DOMAIN drive, ~IsExcluded(drive[l].rel), Remembered(l)
  PROVE  Remembered(l)'
<1> DEFINE t == stamp + 1
           r == drive[l].rel
           n == Len(buf.local)
           k == Len(buf.remote)
<1>1. PICK batch \in Resolve(Reconcile(buf.local, buf.remote), t) : ops' = batch
  BY DEF BeginCycle
<1>2. /\ UNCHANGED <<drive, unseen, remoteRx>>
      /\ buf'.remote = <<>> /\ step' = Goto("op")
  BY DEF BeginCycle, watcherVars
<1>3. buf.local \in Seq(LocalChange) /\ buf.remote \in Seq(RemoteChange)
      /\ remoteRx \in Seq(RemoteChange)
  BY DEF Inv, TypeOK
<1> HIDE DEF t
<1>4. PICK perm : ListsReports(batch, buf.remote, n, perm)
  BY <1>1, <1>3, BatchReports
<1>5. n \in Nat /\ k \in Nat /\ DOMAIN buf.remote = 1 .. k
  BY <1>3, LenProperties
<1> HIDE DEF n, k
<1>6. /\ (\A j \in DOMAIN buf.remote : buf.remote[j].rel # r) /\ r \in DOMAIN rows
           => r \in DOMAIN rows' /\ rows'[r] = rows[r]
      /\ \A i \in DOMAIN buf.remote :
           /\ buf.remote[i].rel = r
           /\ \A j \in DOMAIN buf.remote : buf.remote[j].rel = r => j <= i
           => r \in DOMAIN rows' /\ rows'[r].link = buf.remote[i].link
  BY <1>1, <1>4, <1>5, BatchRow DEF Inv
<1>7. Reports' = remoteRx
  BY <1>2, <1>3, ConcatEmptySeq DEF Reports
<1>8. ~AboutToWrite(drive[l].rel)'
  BY <1>2, GotoType DEF AboutToWrite, At, Places
<1>9. /\ DOMAIN Reports = 1 .. k + Len(remoteRx) /\ DOMAIN remoteRx = 1 .. Len(remoteRx)
      /\ Len(remoteRx) \in Nat
      /\ \A i \in DOMAIN buf.remote : Reports[i] = buf.remote[i]
      /\ \A j \in DOMAIN remoteRx : Reports[k + j] = remoteRx[j]
      /\ \A i \in DOMAIN Reports :
           i \in DOMAIN buf.remote \/ \E j \in DOMAIN remoteRx : i = k + j
  BY <1>3, Joined DEF Reports, k
<1>10. CASE l \in unseen
  BY <1>2, <1>10 DEF Remembered
<1>11. CASE LastReport(l)
  <2>1. PICK i \in DOMAIN Reports :
          /\ Reports[i].rel = r /\ Reports[i].link = l
          /\ \A j \in DOMAIN Reports : Reports[j].rel = r => j <= i
    BY <1>11 DEF LastReport
  <2>2. CASE i \in DOMAIN buf.remote
    <3>1. \A j \in DOMAIN buf.remote : j \in DOMAIN Reports
      BY <1>5, <1>9
    <3>2. HasRow(l)'
      BY <1>2, <1>6, <1>9, <2>1, <2>2, <3>1 DEF HasRow
    <3>3. \A j \in DOMAIN remoteRx : remoteRx[j].rel # r
      <4> SUFFICES ASSUME NEW j \in DOMAIN remoteRx, remoteRx[j].rel = r PROVE FALSE
        OBVIOUS
      <4>1. k + j \in DOMAIN Reports /\ Reports[k + j].rel = r /\ ~(k + j <= i)
        BY <1>5, <1>9, <2>2
      <4> QED BY <2>1, <4>1
    <3>4. NoReport(drive[l].rel)'
      BY <1>2, <1>7, <3>3 DEF NoReport
    <3>5. RowStands(l)'
      BY <1>2, <1>8, <3>2, <3>4 DEF RowStands, AboutToWrite
    <3> QED BY <3>5 DEF Remembered
  <2>3. CASE \E j \in DOMAIN remoteRx : i = k + j
    <3>1. PICK j \in DOMAIN remoteRx : i = k + j
      BY <2>3
    <3>2. remoteRx[j].rel = r /\ remoteRx[j].link = l
      BY <1>9, <2>1, <3>1
    <3>3. ASSUME NEW m \in DOMAIN remoteRx, remoteRx[m].rel = r PROVE m <= j
      <4>1. k + m \in DOMAIN Reports /\ Reports[k + m].rel = r
        BY <1>5, <1>9, <3>3
      <4>2. k + m <= k + j
        BY <2>1, <3>1, <4>1
      <4> QED BY <1>5, <1>9, <4>2
    <3>4. LastReport(l)'
      BY <1>2, <1>7, <3>2, <3>3 DEF LastReport
    <3> QED BY <3>4 DEF Remembered
  <2> QED BY <1>9, <2>2, <2>3
<1>12. CASE RowStands(l)
  <2>1. HasRow(l) /\ \A j \in DOMAIN Reports : Reports[j].rel # r
    BY <1>12 DEF RowStands, NoReport
  <2>2. \A j \in DOMAIN buf.remote : j \in DOMAIN Reports
    BY <1>5, <1>9
  <2>3. \A j \in DOMAIN remoteRx : k + j \in DOMAIN Reports
    BY <1>5, <1>9
  <2>4. HasRow(l)'
    BY <1>2, <1>6, <1>9, <2>1, <2>2 DEF HasRow
  <2>5. NoReport(drive[l].rel)'
    BY <1>2, <1>7, <1>9, <2>1, <2>3 DEF NoReport
  <2>6. RowStands(l)'
    BY <1>2, <1>8, <2>4, <2>5 DEF RowStands, AboutToWrite
  <2> QED BY <2>6 DEF Remembered
<1> QED BY <1>10, <1>11, <1>12 DEF Remembered

-----------------------------------------------------------------------------
(* The propagator                                                          *)

(* A call that returned is remembered as the change it made; nobody else   *)
(* is where its row will be written.                                       *)
LEMMA CallRemembers ==
  ASSUME Inv, OneTree, OneTree', NEW p, NEW rel, NEW folder, NEW rev, NEW link,
         Effected(p, rel, folder, rev, link),
         UNCHANGED <<remoteRx, buf, rows>>,
         \A r : AboutToWrite(r)' => r = rel,
         NEW l \in DOMAIN drive', drive'[l].alive, IsKept(drive'[l].rel),
         l \in DOMAIN drive /\ drive[l].alive /\ IsKept(drive[l].rel) => Remembered(l)
  PROVE  Remembered(l)'
<1>1. CASE l = link
  BY <1>1 DEF Effected, Remembered
<1>2. CASE l # link
  <2>1. l \in DOMAIN drive /\ drive'[l] = drive[l] /\ unseen \subseteq unseen'
    BY <1>2 DEF Effected
  <2>2. PICK r : r = drive[l].rel
    OBVIOUS
  <2>3. r # rel
    BY <1>2, <2>1, <2>2 DEF Effected, OneTree
  <2>4. ~AboutToWrite(r)'
    BY <2>3
  <2>5. Reports' = Reports /\ (RowStands(l) => HasRow(l)') /\ drive'[l].rel = drive[l].rel
    BY <2>1 DEF Reports, RowStands, HasRow
  <2> QED BY <2>1, <2>2, <2>4, <2>5, MemoryKept
<1> QED BY <1>1, <1>2

(* The row that is written at the end is the one that was expected.        *)
LEMMA WriteRemembers ==
  ASSUME NEW rel, NEW row, rows' = Put(rows, rel, row), row.link = step.link,
         AboutToWrite(rel), NEW l, drive' = drive, RowStands(l)
  PROVE  HasRow(l)'
<1>1. CASE drive[l].rel = rel
  <2>1. row.link = l
    BY <1>1 DEF RowStands
  <2> QED BY <1>1, <2>1 DEF HasRow, Put
<1>2. CASE drive[l].rel # rel
  BY <1>2 DEF RowStands, HasRow, Put
<1> QED BY <1>1, <1>2

(* The steps of the propagator.                                            *)
LEMMA PropagateRemembers ==
  ASSUME Inv, OneTree, OneTree', RemovalsAsked, Propagate, faults' = faults,
         NEW l \in DOMAIN drive', drive'[l].alive, IsKept(drive'[l].rel),
         l \in DOMAIN drive /\ drive[l].alive /\ IsKept(drive[l].rel) => Remembered(l)
  PROVE  Remembered(l)'
<1>1. ASSUME drive' = drive, unseen' = unseen, remoteRx' = remoteRx, buf' = buf,
             RowStands(l) => HasRow(l)', step'.at \notin {"walked", "record"}
      PROVE  Remembered(l)'
  <2>1. l \in DOMAIN drive /\ drive'[l] = drive[l] /\ Remembered(l)
    BY <1>1
  <2> QED BY <1>1, <2>1, MemoryMoved
<1>2. rows' = rows /\ drive' = drive => (RowStands(l) => HasRow(l)')
  BY DEF RowStands, HasRow
<1>3. CASE SkipOp \/ FindParent
  BY <1>1, <1>2, <1>3, GotoType DEF SkipOp, FindParent, NextOp, Places, watcherVars, Goto
<1>4. CASE DeleteRemote
  <2>1. Head(ops).rel \in LocalRels /\ "LocalRemove" \in UserActions
    <3>1. ops \in Seq(Operation) /\ ops # <<>> /\ Head(ops).op = "DeleteRemote"
      BY <1>4 DEF DeleteRemote, Inv, TypeOK
    <3>2. Head(ops) = ops[1] /\ 1 \in DOMAIN ops
      BY <3>1, TailHas
    <3> QED BY <3>1, <3>2 DEF RemovalsAsked
  <2>2. drive'[l].rel # Head(ops).rel
    BY <2>1 DEF IsKept
  <2>3. drive' = drive /\ rows' = Drop(rows, Head(ops).rel)
    BY <1>4 DEF DeleteRemote
  <2>4. RowStands(l) => HasRow(l)'
    BY <2>2, <2>3 DEF RowStands, HasRow, Drop
  <2>5. UNCHANGED <<unseen, remoteRx, buf>> /\ step'.at = "op"
    BY <1>4 DEF DeleteRemote, NextOp, watcherVars, Goto
  <2> QED BY <1>1, <2>3, <2>4, <2>5
<1>5. CASE WalkRow
  BY <1>1, <1>2, <1>5 DEF WalkRow, Descend, watcherVars, Inv, TypeOK, Step
<1>6. CASE WalkCreate
  <2>1. Effected(step.into, Segment, TRUE, 0, FreshLink)
    BY <1>6, WalkEffected
  <2>2. UNCHANGED <<remoteRx, buf, rows, ops>>
    BY <1>6 DEF WalkCreate
  <2>3. step'.at = "walked" /\ step'.depth = step.depth
    BY <1>6 DEF WalkCreate, Inv, TypeOK, Step
  <2>4. \A r : AboutToWrite(r)' => r = Segment
    BY <2>2, <2>3 DEF AboutToWrite, At, Segment
  <2>5. PICK p, rel, link : /\ p = step.into /\ rel = Segment /\ link = FreshLink
    OBVIOUS
  <2>6. Effected(p, rel, TRUE, 0, link) /\ \A r : AboutToWrite(r)' => r = rel
    BY <2>1, <2>4, <2>5
  <2> QED BY <2>2, <2>6, CallRemembers
<1>7. CASE WalkRecord
  <2>1. AboutToWrite(Segment) /\ drive' = drive /\ UNCHANGED <<unseen, remoteRx, buf>>
    BY <1>7 DEF WalkRecord, AboutToWrite, watcherVars
  <2>2. step'.at \in {"send", "walk"}
    BY <1>7 DEF WalkRecord, Descend, Inv, TypeOK, Step
  <2> DEFINE row == [link |-> step.link, parent |-> step.into, folder |-> TRUE,
                     rev |-> 0, materialized |-> FALSE]
  <2>3. rows' = Put(rows, Segment, row) /\ row.link = step.link
    BY <1>7 DEF WalkRecord
  <2> HIDE DEF row
  <2>4. RowStands(l) => HasRow(l)'
    BY <2>1, <2>3, WriteRemembers
  <2> QED BY <1>1, <2>1, <2>2, <2>4
<1>8. CASE WalkFail
  BY <1>1, <1>2, <1>8 DEF WalkFail, NextOp, watcherVars, Goto
<1>9. CASE SendOk
  <2>1. PICK link : Effect(link) /\ step.at = "send"
    BY <1>9 DEF SendOk, At
  <2>2. PICK p, rel : p = step.into /\ rel = Head(ops).rel
    OBVIOUS
  <2>3. \E folder, rev : Effected(p, rel, folder, rev, link)
    BY <2>1, <2>2, CallEffected
  <2>4. UNCHANGED <<remoteRx, buf, rows, ops>> /\ step'.at = "record"
    BY <1>9 DEF SendOk, Inv, TypeOK, Step
  <2>5. \A r : AboutToWrite(r)' => r = rel
    BY <2>2, <2>4 DEF AboutToWrite, At
  <2> QED BY <2>3, <2>4, <2>5, CallRemembers
<1>10. CASE SendFail
  <2>1. UNCHANGED <<drive, unseen, remoteRx, buf, rows>>
    BY <1>10 DEF SendFail, Inv, TypeOK
  <2>2. step'.at \in {"send", "op"}
    BY <1>10 DEF SendFail, At, RetryOrDrop, NextOp, Goto, Inv, TypeOK, Step
  <2> QED BY <1>1, <1>2, <2>1, <2>2
<1>11. CASE Record
  <2>1. AboutToWrite(Head(ops).rel) /\ drive' = drive /\ UNCHANGED <<unseen, remoteRx, buf>>
    BY <1>11 DEF Record, AboutToWrite, watcherVars
  <2>2. step'.at = "op"
    BY <1>11 DEF Record, NextOp, Goto
  <2> DEFINE o == Head(ops)
             upload == o.op = "UploadNew"
             row == [link |-> step.link, parent |-> step.into,
                    folder |-> ~upload,
                    rev |-> IF upload /\ o.path \in DOMAIN disk
                              THEN disk[o.path].rev ELSE 0,
                    materialized |-> upload]
  <2>3. rows' = Put(rows, o.rel, row) /\ row.link = step.link
    BY <1>11 DEF Record
  <2> HIDE DEF row
  <2>4. PICK rel : rel = Head(ops).rel
    OBVIOUS
  <2>5. RowStands(l) => HasRow(l)'
    BY <2>1, <2>3, <2>4, WriteRemembers
  <2> QED BY <1>1, <2>1, <2>2, <2>5
<1> QED BY <1>3, <1>4, <1>5, <1>6, <1>7, <1>8, <1>9, <1>10, <1>11 DEF Propagate

-----------------------------------------------------------------------------
(* The steps put together                                                  *)

(* Whatever happens, a node is remembered until its row is there.          *)
LEMMA DriveNext ==
  ASSUME Inv, RemoteInv, [Next]_vars
  PROVE  DriveRemembered'
<1> SUFFICES ASSUME Undisturbed', NEW l \in DOMAIN drive', drive'[l].alive,
                    IsKept(drive'[l].rel)
             PROVE  Remembered(l)'
  BY DEF DriveRemembered
<1>1. Undisturbed /\ UNCHANGED <<faults, restarts>>
  BY UndisturbedBefore
<1>2. OneTree /\ RemovalsAsked /\ OneTree'
  BY OneTreeNext DEF RemoteInv
<1>3. l \in DOMAIN drive /\ drive[l].alive /\ IsKept(drive[l].rel) => Remembered(l)
  BY <1>1 DEF RemoteInv, DriveRemembered
<1>4. restarts \in Nat /\ faults \in Nat
  BY DEF Inv, TypeOK
<1>5. CASE User
  BY <1>2, <1>3, <1>5, UserRemembers
<1>6. CASE \E m \in unseen : ReportRemote(m)
  <2>1. PICK m \in unseen : ReportRemote(m)
    BY <1>6
  <2>2. drive' = drive
    BY <2>1 DEF ReportRemote
  <2> QED BY <1>2, <1>3, <2>1, <2>2, ReportRemembers
<1>7. CASE RecvRemote
  <2>1. drive' = drive
    BY <1>7 DEF RecvRemote
  <2> QED BY <1>3, <1>7, <2>1, RecvRemembers
<1>8. CASE Tick
  <2>1. drive' = drive /\ BeginCycle
    BY <1>8 DEF Tick, BeginCycle
  <2>2. rows' = UpsertBatch(ops')
    BY <1>1, <1>4, <2>1 DEF BeginCycle
  <2> QED BY <1>3, <2>1, <2>2, BatchRemembers DEF IsKept
<1>9. CASE Propagate
  BY <1>1, <1>2, <1>3, <1>9, PropagateRemembers
<1>10. CASE Abort
  BY <1>1, <1>4, <1>10 DEF Abort
<1>11. CASE TranslateEvent \/ RecvLocal \/ Heartbeat \/ UNCHANGED vars
  <2>1. UNCHANGED <<drive, unseen, remoteRx, rows, step, ops>> /\ buf'.remote = buf.remote
    BY <1>11 DEF TranslateEvent, RecvLocal, Heartbeat, agentVars, watcherVars, vars, Inv, TypeOK
  <2> QED BY <1>3, <2>1, MemorySame
<1>12. CASE FinishCycle \/ Start
  <2>1. UNCHANGED <<drive, unseen, remoteRx, rows, buf>> /\ step'.at = "select"
    BY <1>12 DEF FinishCycle, Start, watcherVars, Goto
  <2>2. RowStands(l) => HasRow(l)'
    BY <2>1 DEF RowStands, HasRow
  <2> QED BY <1>3, <2>1, <2>2, MemoryMoved
<1> QED BY <1>5, <1>6, <1>7, <1>8, <1>9, <1>10, <1>11, <1>12 DEF Next, Watchers, Loop

(* At the start there is no node.                                          *)
LEMMA RemoteInvInit == ASSUME Init PROVE RemoteInv
BY DEF Init, RemoteInv, OneTree, RemovalsAsked, EventsStand, NoneRemoved, DriveRemembered

(* What is remembered is on its way or has its row.                        *)
LEMMA RememberedShows ==
  ASSUME TypeOK, DriveRemembered
  PROVE  RemoteRemembered
<1> SUFFICES ASSUME NEW l \in DOMAIN drive, Remembered(l)
             PROVE  l \in unseen \/ IsReported(l) \/ HasRow(l)
  BY DEF DriveRemembered, RemoteRemembered
<1>1. CASE l \in unseen \/ RowStands(l)
  BY <1>1 DEF RowStands
<1>2. CASE LastReport(l)
  <2>1. PICK i \in DOMAIN Reports : Reports[i].rel = drive[l].rel /\ Reports[i].link = l
    BY <1>2 DEF LastReport
  <2>2. \A j \in DOMAIN remoteRx : remoteRx[j] \in Range(remoteRx)
    BY DEF Range
  <2>3. \A j \in DOMAIN buf.remote : buf.remote[j] \in Range(buf.remote)
    BY DEF Range
  <2>4. Reports[i] \in Range(remoteRx) \cup Range(buf.remote)
    BY <2>2, <2>3, ReportsType, Joined DEF Reports
  <2> QED BY <2>1, <2>4 DEF IsReported
<1> QED BY <1>1, <1>2 DEF Remembered

(* No node of the drive is forgotten on its way to its row.                *)
THEOREM DriveIsRemembered == Spec => []RemoteRemembered
<1>1. Init => Inv /\ RemoteInv
  BY InvInit, RemoteInvInit
<1>2. Inv /\ RemoteInv /\ [Next]_vars => (Inv /\ RemoteInv)'
  BY InvNext, OneTreeNext, RemovalsNext, DriveNext DEF RemoteInv
<1>3. Inv /\ RemoteInv => RemoteRemembered
  BY RememberedShows DEF RemoteInv, Inv
<1> QED BY <1>1, <1>2, <1>3, PTL DEF Spec

-----------------------------------------------------------------------------
(* Nothing of the local folder is forgotten                                *)

(* Nodes keep their kind and their content; folders stay where they are,   *)
(* and nothing dies unless it is trashed.                                  *)
DriveGrows ==
  /\ \A l \in DOMAIN drive :
       /\ l \in DOMAIN drive' /\ drive'[l].folder = drive[l].folder
       /\ drive[l].revs \subseteq drive'[l].revs
       /\ drive[l].folder => drive'[l].rel = drive[l].rel
       /\ "RemoteTrash" \notin UserActions => (drive[l].alive => drive'[l].alive)
  /\ \A l \in DOMAIN drive' : l \in DOMAIN drive \/ drive'[l].alive

(* After a call.                                                           *)
LEMMA EffectedGrows ==
  ASSUME NEW p, NEW rel, NEW folder, NEW rev, NEW link, Effected(p, rel, folder, rev, link)
  PROVE  DriveGrows
<1>1. /\ DOMAIN drive' = DOMAIN drive \cup {link}
      /\ \A l \in DOMAIN drive : l # link => drive'[l] = drive[l]
      /\ drive'[link].alive /\ drive'[link].rel = rel /\ drive'[link].folder = folder
      /\ link \in DOMAIN drive => /\ drive[link].alive /\ drive[link].rel = rel
                                  /\ drive[link].folder = folder
                                  /\ drive[link].revs \subseteq drive'[link].revs
  BY DEF Effected
<1> QED BY <1>1 DEF DriveGrows

(* After any step.                                                         *)
LEMMA GrowsNext ==
  ASSUME Inv, OneTree, [Next]_vars
  PROVE  DriveGrows
<1> SUFFICES ASSUME drive' # drive PROVE DriveGrows
  BY DEF DriveGrows
<1>1. ASSUME NEW rel \in RemoteRels, NEW p \in {Root} \cup DOMAIN drive,
             RemoteWrite(p, rel) \/ RemoteMkdir(p, rel)
      PROVE  DriveGrows
  BY <1>1, UserEffected, EffectedGrows
<1>2. ASSUME NEW rel \in RemoteRels, NEW p \in {Root} \cup DOMAIN drive, NEW l \in DOMAIN drive,
             RemoteRename(l, p, rel)
      PROVE  DriveGrows
  <2>1. /\ DOMAIN drive' = DOMAIN drive /\ ~drive[l].folder /\ drive'[l].alive
        /\ \A m \in DOMAIN drive : m # l => drive'[m] = drive[m]
        /\ drive'[l].revs = drive[l].revs /\ drive'[l].folder = drive[l].folder
    BY <1>2, RenameTree, EngineAssumption DEF Inv
  <2> QED BY <2>1 DEF DriveGrows
<1>3. ASSUME NEW l \in DOMAIN drive, RemoteTrash(l)
      PROVE  DriveGrows
  <2>1. /\ DOMAIN drive' = DOMAIN drive
        /\ \A m \in DOMAIN drive :
             /\ drive'[m].rel = drive[m].rel /\ drive'[m].folder = drive[m].folder
             /\ drive'[m].revs = drive[m].revs
    BY <1>3, TrashTree DEF Inv
  <2>2. "RemoteTrash" \in UserActions
    BY <1>3 DEF RemoteTrash, UserMay
  <2> QED BY <2>1, <2>2 DEF DriveGrows
<1>4. CASE WalkCreate
  BY <1>4, WalkEffected, EffectedGrows
<1>5. CASE step.at = "send" /\ \E link : Effect(link)
  BY <1>5, CallEffected, EffectedGrows
<1>6. CASE User
  <2>1. \A rel \in LocalRels : ~(LocalWrite(rel) \/ LocalMkdir(rel) \/ LocalRemove(rel))
    BY DEF LocalWrite, LocalMkdir, LocalRemove
  <2> QED BY <1>1, <1>2, <1>3, <1>6, <2>1 DEF User
<1>7. CASE Watchers
  BY <1>7 DEF Watchers, TranslateEvent, ReportRemote
<1>8. CASE Loop
  BY <1>8 DEF Loop, RecvLocal, RecvRemote, Tick, BeginCycle, Heartbeat, FinishCycle
<1>9. CASE Propagate
  BY <1>4, <1>5, <1>9 DEF Propagate, SkipOp, DeleteRemote, FindParent, WalkRow, WalkRecord,
     WalkFail, SendOk, SendFail, Record, At
<1>10. CASE Abort \/ Start \/ UNCHANGED vars
  BY <1>10 DEF Abort, Start, vars
<1> QED BY <1>6, <1>7, <1>8, <1>9, <1>10 DEF Next

(* Who has changed the drive: a user at a path of that kind, or the        *)
(* operation at the head at its path or on the way there.                  *)
LEMMA KindsEffected ==
  ASSUME DriveKinds, NEW p, NEW rel, NEW folder, NEW rev, NEW link,
         Effected(p, rel, folder, rev, link), OfKind(rel, folder)
  PROVE  DriveKinds'
<1>1. /\ DOMAIN drive' = DOMAIN drive \cup {link}
      /\ \A l \in DOMAIN drive : l # link => drive'[l] = drive[l]
      /\ drive'[link].folder = folder
      /\ \A w \in drive'[link].was :
           w.rel = rel \/ (link \in DOMAIN drive /\ w \in drive[link].was)
      /\ link \in DOMAIN drive => drive[link].folder = folder
  BY DEF Effected
<1> QED BY <1>1 DEF DriveKinds, OfKind

(* The operation at the head is sound.                                     *)
LEMMA HeadSound ==
  ASSUME Inv, KindsKept, ops # <<>>
  PROVE  SoundOp(Head(ops))
BY TailHas DEF KindsKept, Inv, TypeOK

(* Every step keeps the kinds of the nodes.                                *)
LEMMA DriveKindsNext ==
  ASSUME Inv, OneTree, KindsKept, [Next]_vars
  PROVE  DriveKinds'
<1> DriveKinds
  BY DEF KindsKept
<1>0. CASE drive' = drive
  BY <1>0 DEF DriveKinds
<1>1. ASSUME NEW rel \in RemoteRels, NEW p \in {Root} \cup DOMAIN drive,
             RemoteWrite(p, rel) \/ RemoteMkdir(p, rel)
      PROVE  DriveKinds'
  BY <1>1, UserEffected, KindsEffected DEF OfKind
<1>2. ASSUME NEW rel \in RemoteRels, NEW p \in {Root} \cup DOMAIN drive, NEW l \in DOMAIN drive,
             RemoteRename(l, p, rel)
      PROVE  DriveKinds'
  <2>1. /\ DOMAIN drive' = DOMAIN drive /\ ~drive[l].folder
        /\ \A m \in DOMAIN drive : m # l => drive'[m] = drive[m]
        /\ drive'[l].folder = drive[l].folder
        /\ \A w \in drive'[l].was : w.rel = rel \/ w \in drive[l].was
    BY <1>2, RenameTree, EngineAssumption DEF Inv
  <2>2. rel \notin Folders
    BY <1>2 DEF RemoteRename
  <2> QED BY <2>1, <2>2 DEF DriveKinds, OfKind
<1>3. ASSUME NEW l \in DOMAIN drive, RemoteTrash(l)
      PROVE  DriveKinds'
  <2>1. /\ DOMAIN drive' = DOMAIN drive
        /\ \A m \in DOMAIN drive :
             drive'[m].was = drive[m].was /\ drive'[m].folder = drive[m].folder
    BY <1>3, TrashTree DEF Inv
  <2> QED BY <2>1 DEF DriveKinds
<1>4. CASE WalkCreate
  <2>1. /\ ops # <<>> /\ step.depth \in 1 .. Len(Head(ops).rel) - 1
        /\ Head(ops).op \in {"UploadNew", "CreateRemoteDir"}
    BY <1>4, SegmentType DEF WalkCreate, At
  <2>2. Segment \in Folders
    BY <2>1, HeadSound DEF SoundOp, Segment
  <2>3. OfKind(Segment, TRUE)
    BY <2>2 DEF OfKind
  <2>4. PICK p, rel, link : p = step.into /\ rel = Segment /\ link = FreshLink
    OBVIOUS
  <2>5. Effected(p, rel, TRUE, 0, link) /\ OfKind(rel, TRUE)
    BY <1>4, <2>3, <2>4, WalkEffected
  <2> QED BY <2>5, KindsEffected
<1>5. CASE step.at = "send" /\ \E link : Effect(link)
  <2>1. PICK link : Effect(link)
    BY <1>5
  <2>2. PICK p, rel, rev : p = step.into /\ rel = Head(ops).rel /\ rev = disk[Head(ops).path].rev
    OBVIOUS
  <2>3. ops # <<>> /\ Head(ops).op \in {"UploadNew", "CreateRemoteDir"}
    BY <1>5, SendingType
  <2>4. OfKind(rel, Head(ops).op = "CreateRemoteDir")
    BY <2>2, <2>3, HeadSound DEF SoundOp
  <2>5. CASE Head(ops).op = "UploadNew"
    <3>1. Effected(p, rel, FALSE, rev, link) /\ OfKind(rel, FALSE)
      BY <1>5, <2>1, <2>2, <2>4, <2>5, CallEffected DEF OfKind
    <3> QED BY <3>1, KindsEffected
  <2>6. CASE Head(ops).op = "CreateRemoteDir"
    <3>1. Effected(p, rel, TRUE, 0, link) /\ OfKind(rel, TRUE)
      BY <1>5, <2>1, <2>2, <2>4, <2>6, CallEffected DEF OfKind
    <3> QED BY <3>1, KindsEffected
  <2> QED BY <2>3, <2>5, <2>6
<1>6. CASE User
  <2>1. \A rel \in LocalRels : LocalWrite(rel) \/ LocalMkdir(rel) \/ LocalRemove(rel)
                                 => drive' = drive
    BY DEF LocalWrite, LocalMkdir, LocalRemove
  <2> QED BY <1>0, <1>1, <1>2, <1>3, <1>6, <2>1 DEF User
<1>7. CASE Watchers
  BY <1>0, <1>7 DEF Watchers, TranslateEvent, ReportRemote
<1>8. CASE Loop
  BY <1>0, <1>8 DEF Loop, RecvLocal, RecvRemote, Tick, BeginCycle, Heartbeat, FinishCycle
<1>9. CASE Propagate
  BY <1>0, <1>4, <1>5, <1>9 DEF Propagate, SkipOp, DeleteRemote, FindParent, WalkRow, WalkRecord,
     WalkFail, SendOk, SendFail, Record, At
<1>10. CASE Abort \/ Start \/ UNCHANGED vars
  BY <1>0, <1>10 DEF Abort, Start, vars
<1> QED BY <1>6, <1>7, <1>8, <1>9, <1>10 DEF Next

(* A change of a local path is translated into a sound operation.          *)
LEMMA LocalOpSound ==
  ASSUME PathsKeepKind, NEW c \in LocalChange,
         c.kind = "Upsert" => OfKind(c.rel, c.folder)
  PROVE  /\ SoundOp(LocalOp(c))
         /\ IsUpload(LocalOp(c)) => LocalOp(c).rel = c.rel /\ LocalOp(c).path = c.rel
<1>1. c.rel \in LocalRels
  BY DEF LocalChange
<1>2. CASE c.kind = "Removed"
  BY <1>2 DEF LocalOp, SoundOp, IsUpload
<1>3. CASE c.kind # "Removed" /\ c.folder
  <2>1. LocalOp(c) = [op |-> "CreateRemoteDir", rel |-> c.rel]
    BY <1>3 DEF LocalOp
  <2>2. OfKind(c.rel, TRUE)
    BY <1>3 DEF LocalChange, OfKind
  <2> QED BY <1>1, <2>1, <2>2 DEF SoundOp, PathsKeepKind, OfKind, IsUpload
<1>4. CASE c.kind # "Removed" /\ ~c.folder
  <2>1. LocalOp(c) = [op |-> "UploadNew", rel |-> c.rel, path |-> c.rel]
    BY <1>4 DEF LocalOp
  <2>2. c.rel \notin Folders
    BY <1>4 DEF LocalChange, OfKind
  <2> QED BY <1>1, <2>1, <2>2 DEF SoundOp, PathsKeepKind, OfKind, IsUpload
<1> QED BY <1>2, <1>3, <1>4

(* So is a conflict copy.                                                  *)
LEMMA CopySound ==
  ASSUME PathsKeepKind, NEW r \in LocalRels \ Folders, NEW k \in Stamps, NEW o,
         IsUpload(o), o.rel = CopyRel(r, k), o.path = r
  PROVE  SoundOp(o)
<1>1. /\ \A n \in 1 .. Len(o.rel) - 1 : SubSeq(o.rel, 1, n) \in LocalRels \cap Folders
      /\ Len(o.path) = Len(o.rel)
  <2>1. PICK c : c = CopyRel(r, k)
    OBVIOUS
  <2>2. /\ Len(c) = Len(r)
        /\ \A n \in 1 .. Len(r) - 1 : SubSeq(c, 1, n) = SubSeq(r, 1, n)
    BY <2>1, CopyPrefix
  <2>3. \A n \in 1 .. Len(r) - 1 : SubSeq(r, 1, n) \in LocalRels \cap Folders
    BY DEF PathsKeepKind
  <2> QED BY <2>1, <2>2, <2>3
<1>2. o.rel \notin Folders
  BY DEF PathsKeepKind
<1> QED BY <1>1, <1>2 DEF SoundOp, OfKind, IsUpload

(* A batch is sound.                                                       *)
LEMMA BatchSound ==
  ASSUME PathsKeepKind, Inv, KindsKept, BeginCycle, stamp' \in 0 .. MaxStamp
  PROVE  \A i \in DOMAIN ops' : SoundOp(ops'[i])
<1> DEFINE R == Reconcile(buf.local, buf.remote)
           t == stamp + 1
<1>1. buf.local \in Seq(LocalChange) /\ buf.remote \in Seq(RemoteChange)
  BY DEF Inv, TypeOK
<1>2. R \in Seq(Operation)
  BY <1>1, ReconcileType
<1>3. ASSUME NEW k \in DOMAIN R
      PROVE  SoundOp(R[k]) /\ (IsUpload(R[k]) => R[k].rel = R[k].path /\ R[k].path \in LocalRels)
  <2>1. CASE k \in DOMAIN buf.local
    <3>1. R[k] = LocalOp(buf.local[k]) /\ buf.local[k] \in LocalChange
      BY <1>1, <2>1, ReconcileIndex, ElementOfSeq
    <3>2. buf.local[k].kind = "Upsert" => OfKind(buf.local[k].rel, buf.local[k].folder)
      BY <2>1 DEF KindsKept, KindsOf
    <3>3. buf.local[k].rel \in LocalRels
      BY <3>1 DEF LocalChange
    <3> QED BY <3>1, <3>2, <3>3, LocalOpSound
  <2>2. CASE \E j \in DOMAIN buf.remote : k = Len(buf.local) + j
    <3>1. PICK j \in DOMAIN buf.remote : R[k] = RemoteOp(buf.remote[j])
      BY <1>1, <2>2, ReconcileIndex
    <3> QED BY <3>1 DEF RemoteOp, Skip, SoundOp, IsUpload
  <2> QED BY <1>1, <2>1, <2>2, ReconcileIndex
<1>4. PICK batch \in Resolve(R, t) : ops' = batch
  BY DEF BeginCycle
<1>5. Renamed(R) # {} => t \in Stamps
  BY DEF BeginCycle, Stamps, Inv, TypeOK
<1> HIDE DEF R, t
<1>6. PICK perm : Reorders(R, t, batch, perm)
  BY <1>2, <1>4, ResolveIndex
<1>7. ASSUME NEW i \in DOMAIN batch PROVE SoundOp(batch[i])
  <2>1. i \in DOMAIN R /\ perm[i] \in DOMAIN R
    BY <1>6 DEF Reorders
  <2>2. CASE perm[i] \in Renamed(R)
    <3>1. PICK r : r = R[perm[i]].rel
      OBVIOUS
    <3>2. IsUpload(R[perm[i]]) /\ IsUpload(batch[i]) /\ batch[i].rel = CopyRel(r, t)
          /\ batch[i].path = R[perm[i]].path
      BY <1>6, <2>1, <2>2, <3>1 DEF Reorders
    <3>3. r \in LocalRels \ Folders /\ batch[i].path = r
      BY <1>3, <2>1, <3>1, <3>2 DEF SoundOp, IsUpload
    <3>4. t \in Stamps
      BY <1>5, <2>2
    <3> QED BY <3>2, <3>3, <3>4, CopySound
  <2>3. CASE perm[i] \notin Renamed(R)
    <3>1. batch[i] = R[perm[i]]
      BY <1>6, <2>1, <2>3 DEF Reorders
    <3> QED BY <1>3, <2>1, <3>1
  <2> QED BY <2>2, <2>3
<1> QED BY <1>4, <1>7

(* Users keep the kinds of the local folder.                               *)
LEMMA DiskKinds ==
  ASSUME KindsKept, [Next]_vars
  PROVE  \A rel \in DOMAIN disk' : OfKind(rel, disk'[rel].folder)
<1>1. \A rel \in DOMAIN disk : OfKind(rel, disk[rel].folder)
  BY DEF KindsKept
<1>2. CASE disk' = disk
  BY <1>1, <1>2
<1>3. ASSUME NEW rel \in LocalRels, LocalWrite(rel)
      PROVE  \A r \in DOMAIN disk' : OfKind(r, disk'[r].folder)
  <2> DEFINE entry == [folder |-> FALSE, rev |-> NewRev]
  <2>1. rel \notin Folders /\ disk' = Put(disk, rel, entry) /\ ~entry.folder
    BY <1>3 DEF LocalWrite
  <2> HIDE DEF entry
  <2> QED BY <1>1, <2>1 DEF Put, OfKind
<1>4. ASSUME NEW rel \in LocalRels, LocalMkdir(rel)
      PROVE  \A r \in DOMAIN disk' : OfKind(r, disk'[r].folder)
  <2> DEFINE entry == [folder |-> TRUE, rev |-> 0]
  <2>1. rel \in Folders /\ disk' = Put(disk, rel, entry) /\ entry.folder
    BY <1>4 DEF LocalMkdir
  <2> HIDE DEF entry
  <2> QED BY <1>1, <2>1 DEF Put, OfKind
<1>5. ASSUME NEW rel \in LocalRels, LocalRemove(rel)
      PROVE  \A r \in DOMAIN disk' : OfKind(r, disk'[r].folder)
  BY <1>1, <1>5 DEF LocalRemove, Drop
<1>6. CASE User
  <2>1. ASSUME NEW rel \in RemoteRels, NEW p \in {Root} \cup DOMAIN drive,
               RemoteWrite(p, rel) \/ RemoteMkdir(p, rel)
               \/ \E l \in DOMAIN drive : RemoteRename(l, p, rel)
        PROVE  disk' = disk
    BY <2>1 DEF RemoteWrite, RemoteMkdir, RemoteRename
  <2>2. ASSUME NEW l \in DOMAIN drive, RemoteTrash(l)
        PROVE  disk' = disk
    BY <2>2 DEF RemoteTrash
  <2> QED BY <1>2, <1>3, <1>4, <1>5, <1>6, <2>1, <2>2 DEF User
<1>7. CASE Watchers
  BY <1>2, <1>7 DEF Watchers, TranslateEvent, ReportRemote
<1>8. CASE Loop
  BY <1>2, <1>8 DEF Loop, RecvLocal, RecvRemote, Tick, BeginCycle, Heartbeat, FinishCycle
<1>9. CASE Propagate
  BY <1>2, <1>9 DEF Propagate, SkipOp, DeleteRemote, FindParent, WalkRow, WalkCreate, WalkRecord,
     WalkFail, SendOk, SendFail, Record
<1>10. CASE Abort \/ Start \/ UNCHANGED vars
  BY <1>2, <1>10 DEF Abort, Start, vars
<1> QED BY <1>6, <1>7, <1>8, <1>9, <1>10 DEF Next

(* A user's step leaves the agent and its channels alone.                  *)
LEMMA UserLeaves ==
  ASSUME User
  PROVE  UNCHANGED <<localRx, remoteRx, agentVars, faults, restarts>>
<1>1. ASSUME NEW rel \in LocalRels, LocalWrite(rel) \/ LocalMkdir(rel) \/ LocalRemove(rel)
      PROVE  UNCHANGED <<localRx, remoteRx, agentVars, faults, restarts>>
  BY <1>1 DEF LocalWrite, LocalMkdir, LocalRemove
<1>2. ASSUME NEW rel \in RemoteRels, NEW p \in {Root} \cup DOMAIN drive,
             RemoteWrite(p, rel) \/ RemoteMkdir(p, rel)
             \/ \E l \in DOMAIN drive : RemoteRename(l, p, rel)
      PROVE  UNCHANGED <<localRx, remoteRx, agentVars, faults, restarts>>
  BY <1>2 DEF RemoteWrite, RemoteMkdir, RemoteRename
<1>3. ASSUME NEW l \in DOMAIN drive, RemoteTrash(l)
      PROVE  UNCHANGED <<localRx, remoteRx, agentVars, faults, restarts>>
  BY <1>3 DEF RemoteTrash
<1> QED BY <1>1, <1>2, <1>3 DEF User

(* Changes and operations keep to the kinds of their paths.                *)
LEMMA KindsNext ==
  ASSUME PathsKeepKind, Inv, OneTree, KindsKept, [Next]_vars
  PROVE  KindsKept'
<1>1. /\ KindsOf(localRx) /\ KindsOf(buf.local)
      /\ \A i \in DOMAIN ops : SoundOp(ops[i])
  BY DEF KindsKept
<1>2. /\ (\A rel \in DOMAIN disk : OfKind(rel, disk[rel].folder))'
      /\ DriveKinds'
  BY DiskKinds, DriveKindsNext
<1>3. SUFFICES /\ KindsOf(localRx') /\ KindsOf(buf'.local)
               /\ \A i \in DOMAIN ops' : SoundOp(ops'[i])
  BY <1>2 DEF KindsKept, KindsOf, SoundOp
<1>4. CASE UNCHANGED <<localRx, ops>> /\ buf'.local = buf.local
  BY <1>1, <1>4 DEF KindsOf
<1>5. CASE User
  BY <1>4, <1>5, UserLeaves DEF agentVars
<1>6. CASE TranslateEvent
  <2> DEFINE e == Head(fsEvents)
             c == IF e.gone \/ e.rel \notin DOMAIN disk
                    THEN [kind |-> "Removed", rel |-> e.rel]
                    ELSE [kind |-> "Upsert", rel |-> e.rel,
                          folder |-> disk[e.rel].folder]
  <2>1. UNCHANGED <<buf, ops>> /\ localRx' = Append(localRx, c)
    BY <1>6 DEF TranslateEvent, agentVars
  <2>2. localRx \in Seq(LocalChange) /\ localRx' \in Seq(LocalChange)
    BY <1>6, TranslateStep DEF Inv, TypeOK
  <2>3. c.kind = "Upsert" => OfKind(c.rel, c.folder)
    BY DEF KindsKept
  <2> HIDE DEF c
  <2>4. \A i \in DOMAIN localRx' :
          (i \in DOMAIN localRx /\ localRx'[i] = localRx[i]) \/ localRx'[i] = c
    <3>1. DOMAIN localRx = 1 .. Len(localRx) /\ Len(localRx) \in Nat
      BY <2>2, LenProperties
    <3> QED BY <2>1, <2>2, <3>1
  <2>5. KindsOf(localRx')
    BY <1>1, <2>3, <2>4 DEF KindsOf
  <2> QED BY <1>1, <2>1, <2>5
<1>7. CASE RecvLocal
  <2>1. /\ ops' = ops /\ localRx # <<>>
        /\ localRx' = Tail(localRx)
        /\ buf' = [buf EXCEPT !.local = Append(@, Head(localRx))]
    BY <1>7 DEF RecvLocal
  <2>2. localRx \in Seq(LocalChange) /\ buf.local \in Seq(LocalChange)
        /\ buf'.local = Append(buf.local, Head(localRx))
    BY <2>1 DEF Inv, TypeOK
  <2>3. /\ Head(localRx) = localRx[1] /\ 1 \in DOMAIN localRx /\ Head(localRx) \in LocalChange
        /\ \A i \in DOMAIN Tail(localRx) :
               i + 1 \in DOMAIN localRx /\ Tail(localRx)[i] = localRx[i + 1]
    BY <2>1, <2>2, TailHas
  <2>4. \A i \in DOMAIN buf'.local :
          (i \in DOMAIN buf.local /\ buf'.local[i] = buf.local[i]) \/ buf'.local[i] = localRx[1]
    BY <2>2, <2>3, AppendHas
  <2>5. KindsOf(localRx')
    BY <1>1, <2>1, <2>3 DEF KindsOf
  <2>6. KindsOf(buf'.local)
    BY <1>1, <2>3, <2>4 DEF KindsOf
  <2> QED BY <1>1, <2>1, <2>5, <2>6
<1>8. CASE Tick
  <2>1. localRx' = localRx /\ buf'.local = <<>> /\ BeginCycle
    BY <1>8 DEF Tick, BeginCycle, watcherVars
  <2>2. stamp' \in 0 .. MaxStamp
    BY <2>1, BeginCycleStep DEF Inv, TypeOK
  <2> QED BY <1>1, <2>1, <2>2, BatchSound DEF KindsOf
<1>9. CASE Propagate
  <2>1. \A i \in DOMAIN ops' : \E j \in DOMAIN ops : ops'[i] = ops[j]
    BY <1>9, PropagateOps, FewerOps
  <2>2. UNCHANGED <<localRx, buf>>
    BY <1>9, PropagateOps
  <2> QED BY <1>1, <2>1, <2>2
<1>10. CASE Abort
  BY <1>10 DEF Abort, KindsOf
<1>11. CASE RecvRemote
  <2>1. UNCHANGED <<localRx, ops>> /\ buf'.local = buf.local
    BY <1>11 DEF RecvRemote, Inv, TypeOK
  <2> QED BY <1>4, <2>1
<1>12. CASE (\E l \in unseen : ReportRemote(l)) \/ Heartbeat \/ FinishCycle \/ Start
            \/ UNCHANGED vars
  BY <1>4, <1>12 DEF ReportRemote, Heartbeat, FinishCycle, Start, vars, watcherVars, agentVars
<1> QED BY <1>5, <1>6, <1>7, <1>8, <1>9, <1>10, <1>11, <1>12 DEF Next, Watchers, Loop

-----------------------------------------------------------------------------
(* Folders of local paths                                                  *)

(* No folder is trashed where nobody trashes.                              *)
LEMMA AliveNext ==
  ASSUME Inv, OneTree, AllAlive, [Next]_vars
  PROVE  AllAlive'
BY GrowsNext DEF AllAlive, DriveGrows, TreeStays

(* An agent that is down was aborted; outside a cycle no operation is left.*)
LEMMA AgentRunsNext ==
  ASSUME Inv, AgentRuns, [Next]_vars
  PROVE  AgentRuns'
<1>1. CASE UNCHANGED <<step, ops, restarts>>
  BY <1>1 DEF AgentRuns, At
<1>2. CASE User
  BY <1>1, <1>2, UserLeaves DEF agentVars
<1>3. CASE Watchers
  BY <1>1, <1>3 DEF Watchers, TranslateEvent, ReportRemote, agentVars, boundVars
<1>4. CASE RecvLocal \/ RecvRemote \/ Heartbeat
  BY <1>1, <1>4 DEF RecvLocal, RecvRemote, Heartbeat, boundVars
<1>5. CASE Tick
  BY <1>5 DEF Tick, BeginCycle, Goto, AgentRuns, At
<1>6. CASE FinishCycle
  BY <1>6 DEF FinishCycle, Goto, AgentRuns, At
<1>7. CASE Propagate
  BY <1>7, PropagateOps DEF AgentRuns, At
<1>8. CASE Abort
  BY <1>8 DEF Abort, Goto, AgentRuns, At, Inv, TypeOK
<1>9. CASE Start
  BY <1>9 DEF Start, Goto, AgentRuns, At
<1>10. CASE UNCHANGED vars
  BY <1>1, <1>10 DEF vars, agentVars, boundVars
<1> QED BY <1>2, <1>3, <1>4, <1>5, <1>6, <1>7, <1>8, <1>9, <1>10 DEF Next, Loop

(* A node that a row or a call names at the path of a local folder.        *)
LEMMA FolderAt ==
  ASSUME KindsKept, AllAlive, TreeStays, NEW rel \in Folders,
         NEW l, NEW parent, NEW folder, IsNode(l, rel, parent, folder)
  PROVE  IsFolder(l)
<1>1. /\ l \in DOMAIN drive /\ drive[l].alive
      /\ [rel |-> rel, parent |-> parent] \in drive[l].was
  BY DEF IsNode, AllAlive
<1>2. OfKind(rel, drive[l].folder)
  BY <1>1 DEF KindsKept, DriveKinds
<1> QED BY <1>1, <1>2 DEF IsFolder, OfKind

(* The folder of the operation at the head stays.                          *)
LEMMA FolderLasts ==
  ASSUME Inv, OneTree, FolderFound, [Next]_vars,
         step.at \in {"walk", "walked", "send"}, Len(Head(ops).rel) = 1 \/ TreeStays,
         NEW p, p = step.into
  PROVE  IsFolder(p)'
<1>1. IsFolder(p)
  BY DEF FolderFound
<1>2. CASE p = Root
  BY <1>2 DEF IsFolder
<1>3. CASE p # Root
  <2>1. TreeStays
    <3> SUFFICES ASSUME Len(Head(ops).rel) = 1 PROVE FALSE
      OBVIOUS
    <3>0. step.at \notin {"walk", "walked"}
      <4> SUFFICES ASSUME step.at \in {"walk", "walked"} PROVE FALSE
        OBVIOUS
      <4>1. PICK n, d : n = Len(Head(ops).rel) /\ d = step.depth
        OBVIOUS
      <4>2. d \in 1 .. n - 1
        BY <4>1, SegmentType
      <4>3. n = 1
        BY <4>1
      <4>4. d \in 1 .. 0
        BY <4>2, <4>3
      <4> QED BY ONLY <4>4
    <3>1. step.at = "send"
      BY <3>0
    <3>2. StandsAt(p, ParentOf(Head(ops).rel)) /\ Head(ops).rel \in Rels
      BY <3>1, SendingType
    <3>3. RelOf(p) = ParentOf(Head(ops).rel)
      BY <1>1, <3>2 DEF StandsAt, IsDir, IsFolder
    <3>4. p \in DOMAIN drive /\ RelOf(p) = drive[p].rel
      BY <1>1, <1>3 DEF IsFolder, RelOf
    <3>5. drive[p].rel \in Rels
      BY <3>4, DriveType DEF Inv, Node
    <3>6. Len(drive[p].rel) \in Nat \ {0}
      BY <3>5, PathSplit
    <3>7. Len(ParentOf(Head(ops).rel)) = 0
      BY <3>2, PathSplit
    <3> QED BY <3>3, <3>4, <3>6, <3>7
  <2>2. p \in DOMAIN drive /\ drive[p].alive /\ drive[p].folder
    BY <1>1, <1>3 DEF IsFolder
  <2>3. p \in DOMAIN drive' /\ drive'[p].alive /\ drive'[p].folder
    BY <2>1, <2>2, GrowsNext DEF DriveGrows, TreeStays
  <2> QED BY <2>3 DEF IsFolder
<1> QED BY <1>2, <1>3

(* parent_link_for finds a folder that is there.                           *)
LEMMA FoundNext ==
  ASSUME PathsKeepKind, Inv, OneTree, KindsKept, AllAlive, FolderFound, [Next]_vars
  PROVE  FolderFound'
<1> SUFFICES ASSUME step'.at \in {"walk", "walked", "send"},
                    Len(Head(ops').rel) = 1 \/ TreeStays,
                    NEW p, p = step'.into
             PROVE  IsFolder(p)'
  BY DEF FolderFound
<1>1. CASE ops' = ops /\ step'.into = step.into /\ step.at \in {"walk", "walked", "send"}
  BY <1>1, FolderLasts
<1>2. CASE UNCHANGED <<step, ops>>
  BY <1>1, <1>2
<1>3. CASE User
  BY <1>2, <1>3, UserLeaves DEF agentVars
<1>4. CASE Watchers
  BY <1>2, <1>4 DEF Watchers, TranslateEvent, ReportRemote, agentVars
<1>5. CASE Loop
  BY <1>2, <1>5 DEF Loop, RecvLocal, RecvRemote, Heartbeat, Tick, BeginCycle, FinishCycle, Goto
<1>6. CASE Abort \/ Start \/ UNCHANGED vars
  BY <1>2, <1>6 DEF Abort, Start, Goto, vars, agentVars
<1>7. CASE SkipOp \/ DeleteRemote \/ WalkFail \/ Record
  <2>1. step' = Goto("op")
    BY <1>7 DEF SkipOp, DeleteRemote, WalkFail, Record, NextOp
  <2> QED BY <2>1 DEF Goto
<1>12. CASE SendOk
  <2>1. step \in Step
    BY DEF Inv, TypeOK
  <2>2. step'.at = "record"
    BY <1>12, <2>1 DEF SendOk, Step
  <2> QED BY <2>2
<1>8. CASE FindParent
  <2> DEFINE q == ParentOf(Head(ops).rel)
  <2>1. /\ ops # <<>> /\ ops' = ops /\ drive' = drive
        /\ Head(ops).op \in {"UploadNew", "CreateRemoteDir"}
        /\ step' = IF q = <<>> THEN Goto("send")
                   ELSE IF q \in DOMAIN rows
                     THEN [Goto("send") EXCEPT !.into = rows[q].link]
                   ELSE [Goto("walk") EXCEPT !.depth = 1]
    BY <1>8 DEF FindParent
  <2>2. Head(ops).rel \in Rels /\ SoundOp(Head(ops))
    BY <2>1, HeadType, HeadSound
  <2>3. CASE q # <<>> /\ q \in DOMAIN rows
    <3>1. p = rows[q].link
      BY <2>1, <2>3 DEF Goto
    <3>2. IsNode(p, q, rows[q].parent, rows[q].folder)
      BY <2>3, <3>1 DEF Inv, RowsFaithful
    <3>3. Len(Head(ops).rel) \in Nat \ {0} /\ Len(q) = Len(Head(ops).rel) - 1 /\ q \in Seq(Names)
      BY <2>2, PathSplit
    <3>4. Len(q) # 0
      BY <2>3, <3>3, EmptySeq
    <3>5. TreeStays /\ Len(Head(ops).rel) - 1 \in 1 .. Len(Head(ops).rel) - 1
      BY SMTT(30), <2>1, <3>3, <3>4
    <3>6. q \in Folders
      BY <2>1, <2>2, <3>5 DEF SoundOp, ParentOf
    <3> HIDE DEF q
    <3>7. IsFolder(p)
      BY <3>2, <3>5, <3>6, FolderAt
    <3> QED BY <2>1, <3>7 DEF IsFolder
  <2>4. CASE q = <<>> \/ q \notin DOMAIN rows
    <3>1. p = Root
      BY <2>1, <2>4 DEF Goto
    <3> QED BY <3>1 DEF IsFolder
  <2> QED BY <2>3, <2>4
<1>9. CASE WalkRow \/ WalkRecord
  <2>1. /\ step.at \in {"walk", "walked"} /\ ops' = ops /\ drive' = drive
    BY <1>9 DEF WalkRow, WalkRecord, At
  <2>2. /\ ops # <<>> /\ step.depth \in 1 .. Len(Head(ops).rel) - 1
        /\ Head(ops).op \in {"UploadNew", "CreateRemoteDir"}
        /\ Len(Head(ops).rel) \in Nat
    BY <2>1, SegmentType
  <2>3. Segment \in Folders /\ TreeStays
    <3>1. SoundOp(Head(ops))
      BY <2>2, HeadSound
    <3>2. PICK n, d : n = Len(Head(ops).rel) /\ d = step.depth
      OBVIOUS
    <3>0. d \in 1 .. n - 1
      BY <2>2, <3>2
    <3>3. d \in 1 .. n - 1 /\ n # 1
      BY ONLY <3>0
    <3>4. SubSeq(Head(ops).rel, 1, d) \in Folders
      BY <2>2, <3>1, <3>2, <3>3 DEF SoundOp
    <3>5. Len(Head(ops').rel) = n
      BY <2>1, <3>2
    <3>6. TreeStays
      BY <3>3, <3>5
    <3> QED BY <3>2, <3>4, <3>6 DEF Segment
  <2>4. CASE WalkRow
    <3>1. p = rows[Segment].link /\ Segment \in DOMAIN rows
      BY <2>4 DEF WalkRow, Descend, Inv, TypeOK, Step
    <3>2. PICK q, parent, folder : q = Segment /\ parent = rows[Segment].parent
                                   /\ folder = rows[Segment].folder
      OBVIOUS
    <3>3. IsNode(p, q, parent, folder)
      BY <3>1, <3>2 DEF Inv, RowsFaithful
    <3>4. IsFolder(p)
      BY <2>3, <3>2, <3>3, FolderAt
    <3> QED BY <2>1, <3>4 DEF IsFolder
  <2>5. CASE WalkRecord
    <3>1. p = step.link /\ At("walked")
      BY <2>5 DEF WalkRecord, Descend, Inv, TypeOK, Step
    <3>2. PICK q, parent : q = Segment /\ parent = step.into
      OBVIOUS
    <3>3. IsNode(p, q, parent, TRUE)
      BY <3>1, <3>2 DEF Inv, StepFaithful
    <3>4. IsFolder(p)
      BY <2>3, <3>2, <3>3, FolderAt
    <3> QED BY <2>1, <3>4 DEF IsFolder
  <2> QED BY <1>9, <2>4, <2>5
<1>10. CASE WalkCreate
  BY <1>1, <1>10 DEF WalkCreate, At, Inv, TypeOK, Step
<1>11. CASE SendFail
  <2>1. step.at = "send" /\ RetryOrDrop
    BY <1>11 DEF SendFail, At
  <2>2. CASE step' = [step EXCEPT !.tries = @ + 1] /\ ops' = ops
    BY <1>1, <2>1, <2>2 DEF Inv, TypeOK, Step
  <2>3. CASE NextOp
    BY <2>3 DEF NextOp, Goto
  <2> QED BY <2>1, <2>2, <2>3 DEF RetryOrDrop
<1> QED BY <1>3, <1>4, <1>5, <1>6, <1>7, <1>8, <1>9, <1>10, <1>11, <1>12 DEF Next, Propagate

(* A row that is there or about to be written is there after a step of an  *)
(* undisturbed instance in which nobody removes folders.                   *)
LEMMA RowLasts ==
  ASSUME Inv, RemovalsAsked, [Next]_vars, Undisturbed', TreeStays,
         NEW r, r \in DOMAIN rows \/ AboutToWrite(r)
  PROVE  r \in DOMAIN rows' \/ AboutToWrite(r)'
<1>1. CASE UNCHANGED <<rows, step, ops>>
  BY <1>1 DEF AboutToWrite, At, Segment
<1>2. CASE DOMAIN rows \subseteq DOMAIN rows' /\ step.at \notin {"walked", "record"}
  BY <1>2 DEF AboutToWrite, At
<1>3. CASE User
  BY <1>1, <1>3, UserLeaves DEF agentVars
<1>4. CASE Watchers \/ RecvLocal \/ RecvRemote \/ Heartbeat \/ UNCHANGED vars
  BY <1>1, <1>4 DEF Watchers, TranslateEvent, ReportRemote, RecvLocal, RecvRemote, Heartbeat,
     vars, agentVars
<1>5. CASE Tick
  <2>1. PICK batch : rows' = UpsertBatch(batch) \/ rows' = rows
    BY <1>5 DEF Tick, BeginCycle
  <2>2. DOMAIN rows \subseteq DOMAIN rows'
    BY <2>1 DEF UpsertBatch
  <2>3. step.at = "select"
    BY <1>5 DEF Tick, BeginCycle, At
  <2> QED BY <1>2, <2>2, <2>3
<1>6. CASE FinishCycle \/ SkipOp \/ FindParent \/ Start
  BY <1>2, <1>6 DEF FinishCycle, SkipOp, FindParent, Start, At
<1>7. CASE DeleteRemote
  <2>1. ops \in Seq(Operation) /\ ops # <<>> /\ Head(ops).op = "DeleteRemote"
    BY <1>7 DEF DeleteRemote, Inv, TypeOK
  <2>2. Head(ops) = ops[1] /\ 1 \in DOMAIN ops
    BY <2>1, TailHas
  <2> QED BY <2>1, <2>2 DEF RemovalsAsked, TreeStays
<1>8. CASE WalkRow \/ WalkCreate \/ WalkFail \/ SendOk \/ SendFail
  BY <1>2, <1>8 DEF WalkRow, WalkCreate, WalkFail, SendOk, SendFail, At
<1>9. CASE WalkRecord
  <2>1. step.at = "walked" /\ \E row : rows' = Put(rows, Segment, row)
    BY <1>9 DEF WalkRecord, At
  <2> QED BY <2>1 DEF Put, AboutToWrite, At
<1>10. CASE Record
  <2>1. step.at = "record" /\ \E row : rows' = Put(rows, Head(ops).rel, row)
    BY <1>10 DEF Record, At
  <2> QED BY <2>1 DEF Put, AboutToWrite, At
<1>11. CASE Abort
  <2>1. restarts \in Nat /\ restarts' = restarts + 1 /\ restarts' = 0
    BY <1>11 DEF Abort, Undisturbed, Inv, TypeOK
  <2> QED BY <2>1
<1> QED BY <1>3, <1>4, <1>5, <1>6, <1>7, <1>8, <1>9, <1>10, <1>11 DEF Next, Loop, Propagate

(* A folder of a local path that is new was made by the agent itself,      *)
(* which is about to write its row.                                        *)
LEMMA NewFolder ==
  ASSUME Inv, OneTree, [Next]_vars, Undisturbed', TreeStays,
         NEW l \in DOMAIN drive' \ DOMAIN drive, drive'[l].folder,
         NEW r \in LocalRels \cap Folders, r = drive'[l].rel
  PROVE  AboutToWrite(r)'
<1>1. faults' = faults /\ faults \in Nat
  BY UndisturbedBefore DEF Inv, TypeOK
<1>2. ASSUME NEW rel \in RemoteRels, NEW p \in {Root} \cup DOMAIN drive,
             RemoteWrite(p, rel) \/ RemoteMkdir(p, rel)
      PROVE  FALSE
  <2>1. PICK folder, rev, link : /\ Effected(p, rel, folder, rev, link)
                                 /\ rel \in Folders \/ ~folder
    BY <1>2, UserEffected
  <2>2. l = link
    BY <2>1 DEF Effected
  <2>3. r = rel /\ folder
    BY <2>1, <2>2 DEF Effected
  <2> QED BY <2>1, <2>3 DEF TreeStays
<1>3. ASSUME NEW rel \in RemoteRels, NEW p \in {Root} \cup DOMAIN drive, NEW m \in DOMAIN drive,
             RemoteRename(m, p, rel)
      PROVE  FALSE
  BY <1>3, RenameTree, EngineAssumption DEF Inv
<1>4. ASSUME NEW m \in DOMAIN drive, RemoteTrash(m)
      PROVE  FALSE
  BY <1>4, TrashTree DEF Inv
<1>5. CASE User
  <2>1. \A rel \in LocalRels : LocalWrite(rel) \/ LocalMkdir(rel) \/ LocalRemove(rel)
                                 => drive' = drive
    BY DEF LocalWrite, LocalMkdir, LocalRemove
  <2> QED BY <1>2, <1>3, <1>4, <1>5, <2>1 DEF User
<1>6. CASE WalkCreate
  <2>1. Effected(step.into, Segment, TRUE, 0, FreshLink)
    BY <1>6, WalkEffected
  <2>2. l = FreshLink /\ r = Segment
    BY <2>1 DEF Effected
  <2>3. ops' = ops
    BY <1>6 DEF WalkCreate
  <2>4. step'.at = "walked" /\ step'.depth = step.depth
    BY <1>6 DEF WalkCreate, Inv, TypeOK, Step
  <2> QED BY <2>2, <2>3, <2>4 DEF AboutToWrite, At, Segment
<1>7. CASE SendOk
  <2>1. PICK link : Effect(link) /\ step.at = "send"
    BY <1>7 DEF SendOk, At
  <2>2. PICK p, rel : p = step.into /\ rel = Head(ops).rel
    OBVIOUS
  <2>3. \E folder, rev : Effected(p, rel, folder, rev, link)
    BY <2>1, <2>2, CallEffected
  <2>4. l = link /\ r = rel
    BY <2>3 DEF Effected
  <2>5. ops' = ops /\ step'.at = "record"
    BY <1>7 DEF SendOk, Inv, TypeOK, Step
  <2> QED BY <2>2, <2>4, <2>5 DEF AboutToWrite, At
<1>8. CASE SendFail
  <2>1. drive' = drive
    BY <1>1, <1>8 DEF SendFail
  <2> QED BY <2>1
<1>9. CASE Watchers
  BY <1>9 DEF Watchers, TranslateEvent, ReportRemote
<1>10. CASE Loop
  BY <1>10 DEF Loop, RecvLocal, RecvRemote, Tick, BeginCycle, Heartbeat, FinishCycle
<1>11. CASE SkipOp \/ DeleteRemote \/ FindParent \/ WalkRow \/ WalkRecord \/ WalkFail \/ Record
  BY <1>11 DEF SkipOp, DeleteRemote, FindParent, WalkRow, WalkRecord, WalkFail, Record
<1>12. CASE Abort \/ Start \/ UNCHANGED vars
  BY <1>12 DEF Abort, Start, vars
<1> QED BY <1>5, <1>6, <1>7, <1>8, <1>9, <1>10, <1>11, <1>12 DEF Next, Propagate

(* The folders of local paths keep their rows.                             *)
LEMMA FoldersRecordedNext ==
  ASSUME PathsKeepKind, Inv, OneTree, RemovalsAsked, KindsKept, FoldersRecorded, [Next]_vars
  PROVE  FoldersRecorded'
<1> SUFFICES ASSUME Undisturbed', TreeStays, NEW l \in DOMAIN drive', drive'[l].folder,
                    NEW r \in LocalRels, r = drive'[l].rel
             PROVE  r \in DOMAIN rows' \/ AboutToWrite(r)'
  <2>1. \A l \in DOMAIN drive' : \A r : r = drive'[l].rel =>
          (AboutToWrite(r)' <=> AboutToWrite(drive[l].rel)')
    BY DEF AboutToWrite
  <2> QED BY <2>1 DEF FoldersRecorded
<1>1. Undisturbed
  BY UndisturbedBefore
<1>2. CASE l \in DOMAIN drive
  <2>1. drive[l].folder /\ drive[l].rel = r
    BY <1>2, GrowsNext DEF DriveGrows
  <2>2. r \in DOMAIN rows \/ AboutToWrite(r)
    BY <1>1, <1>2, <2>1 DEF FoldersRecorded
  <2> QED BY <2>2, RowLasts
<1>3. CASE l \notin DOMAIN drive
  <2>1. r \in Folders
    <3>1. KindsKept' /\ Inv'
      BY KindsNext, InvNext
    <3>2. [rel |-> drive'[l].rel, parent |-> drive'[l].parent] \in drive'[l].was
      BY <3>1 DEF Inv, TreeFaithful
    <3>3. OfKind(r, drive'[l].folder)
      BY <3>1, <3>2 DEF KindsKept, DriveKinds, OfKind
    <3> QED BY <3>3 DEF OfKind
  <2> QED BY <1>3, <2>1, NewFolder
<1> QED BY <1>2, <1>3

-----------------------------------------------------------------------------
(* What is on its way to the drive                                         *)

(* One of the elements of a sequence.                                      *)
Holds(s, x) == \E i \in DOMAIN s : s[i] = x

(* It is the first one or a later one.                                     *)
LEMMA HoldsTail ==
  ASSUME NEW S, NEW s \in Seq(S), s # <<>>, NEW x, Holds(s, x)
  PROVE  x = Head(s) \/ Holds(Tail(s), x)
<1>1. PICK i \in DOMAIN s : s[i] = x
  BY DEF Holds
<1>2. i = 1 \/ (i - 1 \in DOMAIN Tail(s) /\ Tail(s)[i - 1] = s[i])
  BY TailHas
<1>3. Head(s) = s[1]
  BY TailHas
<1> QED BY <1>1, <1>2, <1>3 DEF Holds

(* One that is appended, or was there before.                              *)
LEMMA HoldsAppend ==
  ASSUME NEW S, NEW s \in Seq(S), NEW e \in S, NEW x, x = e \/ Holds(s, x)
  PROVE  Holds(Append(s, e), x)
<1>1. /\ DOMAIN Append(s, e) = 1 .. Len(s) + 1 /\ Len(s) \in Nat
      /\ DOMAIN s = 1 .. Len(s)
      /\ \A i \in DOMAIN s : Append(s, e)[i] = s[i]
      /\ Append(s, e)[Len(s) + 1] = e
  BY AppendHas
<1>2. CASE x = e
  <2>1. Len(s) + 1 \in DOMAIN Append(s, e)
    BY <1>1
  <2> QED BY <1>1, <1>2, <2>1 DEF Holds
<1>3. CASE Holds(s, x)
  <2>1. PICK i \in DOMAIN s : s[i] = x
    BY <1>3 DEF Holds
  <2>2. i \in DOMAIN Append(s, e)
    BY <1>1
  <2> QED BY <1>1, <2>1, <2>2 DEF Holds
<1> QED BY <1>2, <1>3

(* What carries the content of a file: its event, its change, its upload.  *)
Event(rel)  == [rel |-> rel, gone |-> FALSE]
Upsert(rel) == [kind |-> "Upsert", rel |-> rel, folder |-> FALSE]

UploadWaits(rel) ==
  \E i \in DOMAIN ops : /\ IsUpload(ops[i]) /\ ops[i].path = rel
                        /\ i = 1 => ~At("record")

(* There is nothing else.                                                  *)
LEMMA UnderwayParts ==
  ASSUME NEW rel
  PROVE  Underway(rel) <=>
           \/ Holds(fsEvents, Event(rel))
           \/ Holds(localRx, Upsert(rel)) \/ Holds(buf.local, Upsert(rel))
           \/ UploadWaits(rel)
BY DEF Underway, Holds, Event, Upsert, UploadWaits, Range

(* The same after a step.                                                  *)
LEMMA UnderwayPartsNext ==
  ASSUME NEW rel
  PROVE  Underway(rel)' <=>
           \/ Holds(fsEvents', Event(rel))
           \/ Holds(localRx', Upsert(rel)) \/ Holds(buf'.local, Upsert(rel))
           \/ UploadWaits(rel)'
BY DEF Underway, Holds, Event, Upsert, UploadWaits, Range

(* What is stored stays.                                                   *)
LEMMA StoredLasts ==
  ASSUME Inv, OneTree, [Next]_vars, NEW rel, disk'[rel] = disk[rel], Stored(rel)
  PROVE  Stored(rel)'
<1>1. DriveGrows
  BY GrowsNext
<1> QED BY <1>1 DEF Stored, DriveGrows

-----------------------------------------------------------------------------
(* The upload at the head                                                  *)

(* A node in the folder of that path.                                      *)
LEMMA ChildAt ==
  ASSUME Inv, NEW p, NEW rel \in Rels, NEW l \in Children(p, LeafOf(rel)),
         IsDir(p) => Append(RelOf(p), LeafOf(rel)) = rel
  PROVE  l \in DOMAIN drive /\ drive[l].rel = rel
<1>1. l \in DOMAIN drive /\ drive[l].parent = p /\ LeafOf(drive[l].rel) = LeafOf(rel)
  BY DEF Children
<1>2. IsDir(p) /\ RelOf(p) = ParentOf(drive[l].rel)
  BY <1>1 DEF Inv, TreeFaithful
<1>3. drive[l].rel \in Rels
  BY <1>1, DriveType DEF Inv, Node
<1>4. Append(ParentOf(drive[l].rel), LeafOf(drive[l].rel)) = drive[l].rel
  BY <1>3, PathSplit
<1> QED BY <1>1, <1>2, <1>4

(* A node has the kind of its path.                                        *)
LEMMA KindAt ==
  ASSUME Inv, KindsKept, NEW l \in DOMAIN drive
  PROVE  OfKind(drive[l].rel, drive[l].folder)
<1>1. [rel |-> drive[l].rel, parent |-> drive[l].parent] \in drive[l].was
  BY DEF Inv, TreeFaithful
<1> QED BY <1>1 DEF KindsKept, DriveKinds, OfKind

(* On the way to the folder of a local path nothing is refused.            *)
LEMMA WalkGoesOn ==
  ASSUME PathsKeepKind, Inv, OneTree, KindsKept, FoldersRecorded, FolderFound,
         Undisturbed, TreeStays, step.at = "walk", Segment \notin DOMAIN rows
  PROVE  CanCreateFolder(step.into, LeafOf(Segment))
<1>1. /\ ops # <<>> /\ step.depth \in 1 .. Len(Head(ops).rel) - 1
      /\ Head(ops).op \in {"UploadNew", "CreateRemoteDir"} /\ Segment \in Rels
      /\ IsDir(step.into) => Append(RelOf(step.into), LeafOf(Segment)) = Segment
  BY SegmentType
<1>2. Segment \in LocalRels \cap Folders
  BY <1>1, HeadSound DEF SoundOp, Segment
<1>3. IsFolder(step.into)
  BY DEF FolderFound
<1>4. ASSUME NEW l \in Children(step.into, LeafOf(Segment))
      PROVE  FALSE
  <2>1. PICK p, rel : p = step.into /\ rel = Segment
    OBVIOUS
  <2>2. l \in DOMAIN drive /\ drive[l].rel = rel
    BY <1>1, <1>4, <2>1, ChildAt
  <2>3. OfKind(rel, drive[l].folder)
    BY <2>2, KindAt
  <2>4. drive[l].folder
    BY <1>2, <2>1, <2>3 DEF OfKind
  <2>5. drive[l].rel \in DOMAIN rows \/ AboutToWrite(drive[l].rel)
    BY <1>2, <2>1, <2>2, <2>4 DEF FoldersRecorded
  <2> QED BY <2>1, <2>2, <2>5 DEF AboutToWrite, At
<1> QED BY <1>3, <1>4 DEF CanCreateFolder

(* No upload of a file that is there is refused.                           *)
LEMMA UploadAccepted ==
  ASSUME Inv, KindsKept, FolderFound, step.at = "send", Head(ops).op = "UploadNew",
         Len(Head(ops).rel) = 1 \/ TreeStays, Readable(Head(ops).path)
  PROVE  ~Rejected
<1>1. /\ ops # <<>> /\ Head(ops).rel \in Rels
      /\ IsDir(step.into) => Append(RelOf(step.into), LeafOf(Head(ops).rel)) = Head(ops).rel
  BY SendingType
<1>2. IsFolder(step.into)
  BY DEF FolderFound
<1>3. Head(ops).rel \notin Folders
  BY <1>1, HeadSound DEF SoundOp, OfKind
<1>4. ASSUME NEW l \in Children(step.into, LeafOf(Head(ops).rel))
      PROVE  ~drive[l].folder
  <2>1. PICK p, rel : p = step.into /\ rel = Head(ops).rel
    OBVIOUS
  <2>2. l \in DOMAIN drive /\ drive[l].rel = rel
    BY <1>1, <1>4, <2>1, ChildAt
  <2>3. OfKind(rel, drive[l].folder)
    BY <2>2, KindAt
  <2> QED BY <1>3, <2>1, <2>3 DEF OfKind
<1> QED BY <1>2, <1>4 DEF Rejected, CanUpload

(* Uploads that stay in the batch.                                         *)
LEMMA WaitsBehind ==
  ASSUME Inv, ops # <<>>, NEW i \in DOMAIN ops, IsUpload(ops[i]), NEW rel, ops[i].path = rel,
         \/ ops' = ops /\ (i = 1 => ~At("record")')
         \/ ops' = Tail(ops) /\ i # 1 /\ ~At("record")'
  PROVE  UploadWaits(rel)'
<1>1. CASE ops' = ops /\ (i = 1 => ~At("record")')
  BY <1>1 DEF UploadWaits
<1>2. CASE ops' = Tail(ops) /\ i # 1 /\ ~At("record")'
  <2>1. i - 1 \in DOMAIN Tail(ops) /\ Tail(ops)[i - 1] = ops[i]
    BY <1>2, TailHas DEF Inv, TypeOK
  <2> QED BY <1>2, <2>1 DEF UploadWaits
<1> QED BY <1>1, <1>2

(* The upload at the head is carried out, not passed over.                 *)
LEMMA HeadUploadLasts ==
  ASSUME PathsKeepKind, Inv, OneTree, KindsKept, FoldersRecorded, FolderFound, Undisturbed,
         Propagate, faults' = faults,
         ops # <<>>, IsUpload(Head(ops)), NEW rel, Head(ops).path = rel,
         Readable(rel), Len(rel) = 1 \/ TreeStays, step.at # "record",
         ~(ops' = ops /\ step'.at # "record")
  PROVE  Stored(rel)'
<1>1. /\ Head(ops).op = "UploadNew" /\ Len(rel) = Len(Head(ops).rel)
      /\ SoundOp(Head(ops))
  BY HeadSound DEF SoundOp, IsUpload
<1>2. step \in Step /\ faults \in Nat
  BY DEF Inv, TypeOK
<1>3. CASE SkipOp \/ DeleteRemote \/ Record
  BY <1>1, <1>3 DEF SkipOp, DeleteRemote, Record, IsPlaceholder, Skip, At
<1>4. CASE FindParent
  BY <1>4 DEF FindParent, Goto
<1>5. CASE WalkRow \/ WalkRecord
  BY <1>2, <1>5 DEF WalkRow, WalkRecord, Descend, Step
<1>6. CASE WalkCreate
  BY <1>2, <1>6 DEF WalkCreate, Step
<1>7. CASE WalkFail
  <2>1. step.at = "walk" /\ Segment \notin DOMAIN rows
        /\ ~CanCreateFolder(step.into, LeafOf(Segment))
    BY <1>2, <1>7 DEF WalkFail, At
  <2>2. PICK n, d : n = Len(Head(ops).rel) /\ d = step.depth
    OBVIOUS
  <2>3. d \in 1 .. n - 1
    BY <2>1, <2>2, SegmentType
  <2>4. n # 1
    BY ONLY <2>3
  <2>5. TreeStays
    BY <1>1, <2>2, <2>4
  <2> QED BY <2>1, <2>5, WalkGoesOn
<1>8. CASE SendOk
  <2>1. PICK link : Effect(link) /\ step.at = "send" /\ disk' = disk
    BY <1>8 DEF SendOk, At
  <2>2. PICK p, r, rev : p = step.into /\ r = Head(ops).rel /\ rev = disk[rel].rev
    OBVIOUS
  <2>3. Effected(p, r, FALSE, rev, link)
    BY <1>1, <2>1, <2>2, CallEffected
  <2>4. /\ link \in DOMAIN drive' /\ drive'[link].folder = FALSE /\ rev \in drive'[link].revs
    BY <2>3 DEF Effected
  <2> QED BY <2>1, <2>2, <2>4 DEF Stored
<1>9. CASE SendFail
  <2>1. step.at = "send" /\ Rejected
    BY <1>2, <1>9 DEF SendFail, At
  <2> QED BY <1>1, <2>1, UploadAccepted
<1> QED BY <1>3, <1>4, <1>5, <1>6, <1>7, <1>8, <1>9 DEF Propagate

(* Going on to the next operation, no row is about to be written.          *)
LEMMA OpsMove ==
  ASSUME Inv, Propagate
  PROVE  \/ ops' = ops /\ (step'.at = "record" => step.at = "send")
         \/ ops # <<>> /\ ops' = Tail(ops) /\ step'.at = "op"
<1>1. step \in Step
  BY DEF Inv, TypeOK
<1>2. CASE SkipOp \/ DeleteRemote \/ Record \/ WalkFail
  <2>1. ops' = Tail(ops) /\ step' = Goto("op")
    BY <1>2 DEF SkipOp, DeleteRemote, Record, WalkFail, NextOp
  <2>2. ops # <<>>
    BY <1>2, SendingType, SegmentType DEF SkipOp, DeleteRemote, Record, WalkFail, At
  <2> QED BY <2>1, <2>2 DEF Goto
<1>3. CASE FindParent
  BY <1>3 DEF FindParent, Goto
<1>4. CASE WalkRow \/ WalkCreate \/ WalkRecord
  BY <1>1, <1>4 DEF WalkRow, WalkCreate, WalkRecord, Descend, Step
<1>5. CASE SendOk
  BY <1>5 DEF SendOk, At
<1>6. CASE SendFail
  <2>1. step.at = "send" /\ RetryOrDrop /\ ops # <<>>
    BY <1>6, SendingType DEF SendFail, At
  <2> QED BY <2>1 DEF RetryOrDrop, NextOp, Goto
<1> QED BY <1>2, <1>3, <1>4, <1>5, <1>6 DEF Propagate

(* The propagator forgets no upload.                                       *)
LEMMA UploadLasts ==
  ASSUME PathsKeepKind, Inv, OneTree, KindsKept, FoldersRecorded, FolderFound, Undisturbed,
         Propagate, faults' = faults, NEW rel, Readable(rel), Len(rel) = 1 \/ TreeStays,
         UploadWaits(rel)
  PROVE  Stored(rel)' \/ UploadWaits(rel)'
<1>1. PICK i \in DOMAIN ops : /\ IsUpload(ops[i]) /\ ops[i].path = rel
                              /\ i = 1 => ~At("record")
  BY DEF UploadWaits
<1>2. ops \in Seq(Operation) /\ ops # <<>>
  BY <1>1 DEF Inv, TypeOK
<1>3. CASE i # 1
  <2>1. ops' = ops \/ (ops' = Tail(ops) /\ ~At("record")')
    BY OpsMove DEF At
  <2> QED BY <1>1, <1>2, <1>3, <2>1, WaitsBehind
<1>4. CASE i = 1
  <2>1. Head(ops) = ops[i]
    BY <1>2, <1>4, TailHas
  <2>2. CASE ops' = ops /\ step'.at # "record"
    <3>1. ~At("record")'
      BY <2>2 DEF At
    <3> QED BY <1>1, <1>2, <2>2, <3>1, WaitsBehind
  <2>3. CASE ~(ops' = ops /\ step'.at # "record")
    <3>1. step.at # "record"
      BY <1>1, <1>4 DEF At
    <3> QED BY <1>1, <1>2, <2>1, <2>3, <3>1, HeadUploadLasts
  <2> QED BY <2>2, <2>3
<1> QED BY <1>3, <1>4

(* A batch uploads every file it was told of, renamed or not.              *)
LEMMA BatchUploads ==
  ASSUME Inv, BeginCycle, NEW rel, Holds(buf.local, Upsert(rel))
  PROVE  UploadWaits(rel)'
<1> DEFINE R == Reconcile(buf.local, buf.remote)
           t == stamp + 1
<1>1. buf.local \in Seq(LocalChange) /\ buf.remote \in Seq(RemoteChange)
  BY DEF Inv, TypeOK
<1>2. R \in Seq(Operation)
  BY <1>1, ReconcileType
<1>3. PICK k \in DOMAIN buf.local : buf.local[k] = Upsert(rel)
  BY DEF Holds
<1>4. k \in DOMAIN R /\ R[k] = LocalOp(Upsert(rel))
  BY <1>1, <1>3, ReconcileIndex
<1>5. IsUpload(R[k]) /\ R[k].path = rel
  BY <1>4 DEF LocalOp, Upsert, IsUpload
<1>6. PICK batch \in Resolve(R, t) : ops' = batch
  BY DEF BeginCycle
<1> HIDE DEF R, t
<1>7. PICK perm : Reorders(R, t, batch, perm)
  BY <1>2, <1>6, ResolveIndex
<1>8. PICK i \in DOMAIN R : perm[i] = k
  BY <1>4, <1>7 DEF Reorders
<1>9. i \in DOMAIN batch /\ IsUpload(batch[i]) /\ batch[i].path = rel
  BY <1>5, <1>7, <1>8 DEF Reorders
<1>10. ~At("record")'
  BY DEF BeginCycle, Goto, At
<1> QED BY <1>6, <1>9, <1>10 DEF UploadWaits

(* Users of the local folder: what they write is reported by an event.     *)
LEMMA WriteUnderway ==
  ASSUME Inv, OneTree, AgentRuns, Undisturbed, [Next]_vars,
         NEW r \in LocalRels, LocalWrite(r) \/ LocalMkdir(r) \/ LocalRemove(r),
         NEW rel \in DOMAIN disk', ~disk'[rel].folder,
         rel \in DOMAIN disk /\ disk'[rel] = disk[rel] => Stored(rel) \/ Underway(rel)
  PROVE  Stored(rel)' \/ Underway(rel)'
<1> DEFINE E == [rel : LocalRels, gone : BOOLEAN]
<1>1. ~At("down")
  BY DEF AgentRuns, Undisturbed
<1>2. UNCHANGED <<localRx, buf, ops, step>>
  BY DEF LocalWrite, LocalMkdir, LocalRemove, agentVars
<1>3. \E gone \in BOOLEAN : fsEvents' = Append(fsEvents, [rel |-> r, gone |-> gone])
  BY <1>1 DEF LocalWrite, LocalMkdir, LocalRemove, Notify
<1>4. fsEvents \in Seq(E)
  BY DEF Inv, TypeOK
<1>5. ASSUME NEW x, Holds(fsEvents, x) PROVE Holds(fsEvents', x)
  <2>1. PICK gone \in BOOLEAN : fsEvents' = Append(fsEvents, [rel |-> r, gone |-> gone])
    BY <1>3
  <2>2. PICK e \in E : e = [rel |-> r, gone |-> gone]
    OBVIOUS
  <2> HIDE DEF E
  <2> QED BY <1>4, <1>5, <2>1, <2>2, HoldsAppend
<1>6. CASE rel \in DOMAIN disk /\ disk'[rel] = disk[rel]
  <2>1. CASE Stored(rel)
    BY <1>6, <2>1, StoredLasts
  <2>2. CASE Underway(rel)
    <3>1. UploadWaits(rel) => UploadWaits(rel)'
      BY <1>2 DEF UploadWaits, At
    <3> QED BY <1>2, <1>5, <2>2, <3>1, UnderwayParts, UnderwayPartsNext
  <2> QED BY <1>6, <2>1, <2>2
<1>7. CASE ~(rel \in DOMAIN disk /\ disk'[rel] = disk[rel])
  <2>1. LocalWrite(r) /\ rel = r
    <3>1. CASE LocalWrite(r)
      <4>1. rel # r => rel \in DOMAIN disk /\ disk'[rel] = disk[rel]
        BY <3>1 DEF LocalWrite, Put
      <4> QED BY <1>7, <3>1, <4>1
    <3>2. CASE LocalMkdir(r)
      <4> DEFINE entry == [folder |-> TRUE, rev |-> 0]
      <4>1. disk' = Put(disk, r, entry) /\ entry.folder
        BY <3>2 DEF LocalMkdir
      <4> HIDE DEF entry
      <4> QED BY <1>7, <4>1 DEF Put
    <3>3. CASE LocalRemove(r)
      BY <1>7, <3>3 DEF LocalRemove, Drop
    <3> QED BY <3>1, <3>2, <3>3
  <2>2. fsEvents' = Append(fsEvents, Event(rel))
    BY <1>1, <2>1 DEF LocalWrite, Notify, Event
  <2>3. Event(rel) \in E
    BY <2>1 DEF Event
  <2> HIDE DEF E
  <2>4. PICK e \in E : e = Event(rel)
    BY <2>3
  <2>5. Holds(fsEvents', e)
    BY <1>4, <2>2, <2>4, HoldsAppend
  <2> QED BY <2>4, <2>5, UnderwayPartsNext
<1> QED BY <1>6, <1>7

(* The watcher's callback reads the disk late and finds the file.          *)
LEMMA TranslateUnderway ==
  ASSUME Inv, TranslateEvent, NEW rel \in DOMAIN disk, ~disk[rel].folder, Underway(rel)
  PROVE  Underway(rel)'
<1> DEFINE E == [rel : LocalRels, gone : BOOLEAN]
           e == Head(fsEvents)
           c == IF e.gone \/ e.rel \notin DOMAIN disk
                  THEN [kind |-> "Removed", rel |-> e.rel]
                  ELSE [kind |-> "Upsert", rel |-> e.rel,
                        folder |-> disk[e.rel].folder]
<1>1. /\ UNCHANGED <<buf, ops, step>> /\ fsEvents # <<>>
      /\ fsEvents' = Tail(fsEvents) /\ localRx' = Append(localRx, c)
  BY DEF TranslateEvent, agentVars
<1>2. fsEvents \in Seq(E) /\ localRx \in Seq(LocalChange) /\ DOMAIN disk \subseteq LocalRels
      /\ disk[rel].folder \in BOOLEAN
  BY DEF Inv, TypeOK, Entry
<1>3. e = Event(rel) => c = Upsert(rel)
  <2> SUFFICES ASSUME e = Event(rel) PROVE c = Upsert(rel)
    OBVIOUS
  <2>1. e.gone = FALSE /\ e.rel = rel
    BY DEF Event
  <2>2. c = [kind |-> "Upsert", rel |-> rel, folder |-> disk[rel].folder]
    BY <2>1
  <2>3. disk[rel].folder = FALSE
    BY <1>2
  <2> QED BY <2>2, <2>3 DEF Upsert
<1>4. c \in LocalChange
  <2>1. e \in E
    BY <1>1, <1>2, TailHas
  <2> QED BY <1>2, <2>1 DEF LocalChange, Inv, TypeOK, Entry
<1> HIDE DEF E, c
<1>5. ASSUME Holds(fsEvents, Event(rel))
      PROVE  Holds(fsEvents', Event(rel)) \/ c = Upsert(rel)
  <2>1. PICK x : x = Event(rel)
    OBVIOUS
  <2>2. x = Head(fsEvents) \/ Holds(Tail(fsEvents), x)
    BY <1>1, <1>2, <1>5, <2>1, HoldsTail
  <2> QED BY <1>1, <1>3, <2>1, <2>2
<1>6. ASSUME Holds(localRx, Upsert(rel)) \/ c = Upsert(rel)
      PROVE  Holds(localRx', Upsert(rel))
  <2>1. PICK x : x = Upsert(rel)
    OBVIOUS
  <2> QED BY <1>1, <1>2, <1>4, <1>6, <2>1, HoldsAppend
<1>7. UploadWaits(rel) => UploadWaits(rel)'
  BY <1>1 DEF UploadWaits, At
<1> QED BY <1>1, <1>5, <1>6, <1>7, UnderwayParts, UnderwayPartsNext

(* The agent takes the change up.                                          *)
LEMMA RecvUnderway ==
  ASSUME Inv, RecvLocal, NEW rel, Underway(rel)
  PROVE  Underway(rel)'
<1>1. /\ UNCHANGED <<fsEvents, ops, step>> /\ localRx # <<>>
      /\ localRx' = Tail(localRx)
      /\ buf' = [buf EXCEPT !.local = Append(@, Head(localRx))]
  BY DEF RecvLocal
<1>2. localRx \in Seq(LocalChange) /\ buf.local \in Seq(LocalChange)
      /\ buf'.local = Append(buf.local, Head(localRx))
  BY <1>1 DEF Inv, TypeOK
<1>3. PICK c \in LocalChange : c = Head(localRx)
  BY <1>1, <1>2, TailHas
<1>4. PICK x : x = Upsert(rel)
  OBVIOUS
<1>5. Holds(localRx, x) => Holds(localRx', x) \/ x = c
  BY <1>1, <1>2, <1>3, HoldsTail
<1>6. Holds(buf.local, x) \/ x = c => Holds(buf'.local, x)
  BY <1>2, <1>3, HoldsAppend
<1>7. UploadWaits(rel) => UploadWaits(rel)'
  BY <1>1 DEF UploadWaits, At
<1> QED BY <1>1, <1>4, <1>5, <1>6, <1>7, UnderwayParts, UnderwayPartsNext

(* The steps put together.                                                 *)
LEMMA LocalNext ==
  ASSUME PathsKeepKind, Inv, OneTree, LocalInv, [Next]_vars
  PROVE  LocalRemembered'
<1> SUFFICES ASSUME Undisturbed', NEW rel \in DOMAIN disk', ~disk'[rel].folder,
                    Len(rel) = 1 \/ TreeStays
             PROVE  Stored(rel)' \/ Underway(rel)'
  BY DEF LocalRemembered, Files
<1>1. Undisturbed /\ UNCHANGED <<faults, restarts>>
  BY UndisturbedBefore
<1>2. rel \in DOMAIN disk /\ disk'[rel] = disk[rel] => Stored(rel) \/ Underway(rel)
  BY <1>1 DEF LocalInv, LocalRemembered, Files
<1>3. ASSUME disk' = disk, Underway(rel) => Stored(rel)' \/ Underway(rel)'
      PROVE  Stored(rel)' \/ Underway(rel)'
  BY <1>2, <1>3, StoredLasts
<1>4. ASSUME disk' = disk, UNCHANGED <<fsEvents, localRx, ops>>, buf'.local = buf.local,
             step' = step \/ ~At("record")'
      PROVE  Stored(rel)' \/ Underway(rel)'
  <2>1. UploadWaits(rel) => UploadWaits(rel)'
    BY <1>4 DEF UploadWaits, At
  <2> QED BY <1>3, <1>4, <2>1, UnderwayParts, UnderwayPartsNext
<1>5. ASSUME NEW r \in LocalRels, LocalWrite(r) \/ LocalMkdir(r) \/ LocalRemove(r)
      PROVE  Stored(rel)' \/ Underway(rel)'
  BY <1>1, <1>2, <1>5, WriteUnderway DEF LocalInv
<1>6. ASSUME NEW r \in RemoteRels, NEW p \in {Root} \cup DOMAIN drive,
             RemoteWrite(p, r) \/ RemoteMkdir(p, r) \/ \E l \in DOMAIN drive : RemoteRename(l, p, r)
      PROVE  Stored(rel)' \/ Underway(rel)'
  BY <1>4, <1>6 DEF RemoteWrite, RemoteMkdir, RemoteRename, agentVars
<1>7. ASSUME NEW l \in DOMAIN drive, RemoteTrash(l)
      PROVE  Stored(rel)' \/ Underway(rel)'
  BY <1>4, <1>7 DEF RemoteTrash, agentVars
<1>8. CASE TranslateEvent
  <2>1. disk' = disk
    BY <1>8 DEF TranslateEvent
  <2> QED BY <1>3, <1>8, <2>1, TranslateUnderway
<1>9. CASE RecvLocal
  <2>1. disk' = disk
    BY <1>9 DEF RecvLocal
  <2> QED BY <1>3, <1>9, <2>1, RecvUnderway
<1>10. CASE Tick
  <2>1. disk' = disk /\ UNCHANGED <<fsEvents, localRx>> /\ step.at = "select" /\ BeginCycle
    BY <1>10 DEF Tick, BeginCycle, watcherVars, At
  <2>2. ops = <<>>
    BY <2>1 DEF LocalInv, AgentRuns
  <2>3. ~UploadWaits(rel)
    BY <2>2 DEF UploadWaits
  <2> QED BY <1>3, <2>1, <2>3, BatchUploads, UnderwayParts, UnderwayPartsNext
<1>11. CASE Propagate
  <2>1. UNCHANGED <<disk, fsEvents, localRx, buf>>
    BY <1>11, PropagateOps
  <2>2. Readable(rel)
    BY <2>1 DEF Readable
  <2>3. UploadWaits(rel) => Stored(rel)' \/ UploadWaits(rel)'
    BY <1>1, <1>11, <2>2, UploadLasts DEF LocalInv
  <2> QED BY <1>3, <2>1, <2>3, UnderwayParts, UnderwayPartsNext
<1>12. CASE Abort
  BY <1>1, <1>12 DEF Abort, Inv, TypeOK
<1>13. CASE RecvRemote
  <2>1. UNCHANGED <<disk, fsEvents, localRx, ops, step>> /\ buf'.local = buf.local
    BY <1>13 DEF RecvRemote, Inv, TypeOK
  <2> QED BY <1>4, <2>1
<1>14. CASE FinishCycle \/ Start
  <2>1. UNCHANGED <<disk, fsEvents, localRx, buf, ops>> /\ ~At("record")'
    BY <1>14 DEF FinishCycle, Start, Goto, At, watcherVars
  <2> QED BY <1>4, <2>1
<1>15. CASE (\E l \in unseen : ReportRemote(l)) \/ Heartbeat \/ UNCHANGED vars
  <2>1. UNCHANGED <<disk, fsEvents, localRx, buf, ops, step>>
    BY <1>15 DEF ReportRemote, Heartbeat, vars, watcherVars, agentVars
  <2> QED BY <1>4, <2>1
<1> QED BY <1>5, <1>6, <1>7, <1>8, <1>9, <1>10, <1>11, <1>12, <1>13, <1>14, <1>15
        DEF Next, User, Watchers, Loop

(* At the start there is no local file.                                    *)
LEMMA LocalInvInit ==
  ASSUME Init
  PROVE  LocalInv
<1>1. KindsKept
  BY DEF Init, KindsKept, DriveKinds, KindsOf
<1>2. AllAlive /\ FoldersRecorded
  BY DEF Init, AllAlive, FoldersRecorded
<1>3. FolderFound /\ AgentRuns
  BY DEF Init, FolderFound, AgentRuns, Goto, At
<1>4. LocalRemembered
  BY DEF Init, LocalRemembered, Files
<1> QED BY <1>1, <1>2, <1>3, <1>4 DEF LocalInv

(* No content of a local file is forgotten on its way to the drive.        *)
THEOREM LocalIsRemembered == PathsKeepKind /\ Spec => []LocalRemembered
<1> SUFFICES ASSUME PathsKeepKind PROVE Spec => []LocalRemembered
  OBVIOUS
<1> DEFINE I == Inv /\ OneTree /\ RemovalsAsked /\ LocalInv
<1>1. Init => I
  BY InvInit, RemoteInvInit, LocalInvInit DEF RemoteInv
<1>2. ASSUME I, [Next]_vars
      PROVE  I'
  <2>1. Inv' /\ OneTree' /\ RemovalsAsked'
    BY <1>2, InvNext, OneTreeNext, RemovalsNext
  <2>2. KindsKept' /\ AllAlive'
    BY <1>2, KindsNext, AliveNext DEF LocalInv
  <2>3. FoldersRecorded'
    BY <1>2, FoldersRecordedNext DEF LocalInv
  <2>4. FolderFound' /\ AgentRuns'
    BY <1>2, FoundNext, AgentRunsNext DEF LocalInv
  <2>5. LocalRemembered'
    BY <1>2, LocalNext
  <2> QED BY <2>1, <2>2, <2>3, <2>4, <2>5 DEF LocalInv
<1>3. I => LocalRemembered
  BY DEF LocalInv
<1> HIDE DEF I
<1>4. I /\ [Next]_vars => I'
  BY <1>2
<1> QED BY <1>1, <1>3, <1>4, PTL DEF Spec

=============================================================================
