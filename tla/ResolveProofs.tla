--------------------------- MODULE ResolveProofs ---------------------------
(***************************************************************************)
(* Proofs that resolve() has an answer for every batch, that its answers   *)
(* are free of conflicts, that no upload and no download is lost or        *)
(* doubled by them, and that they are those of a filter followed by an     *)
(* append, for any observations and any length of a batch.                 *)
(***************************************************************************)
EXTENDS ResolveCheck, SequenceTheorems, FiniteSetTheorems, FunctionTheorems, TLAPS

(* The buffers hold what the watchers observe.                             *)
Observed == local \in Seq(LocalChanges) /\ remote \in Seq(RemoteChanges)

(* No other client has given a file the name that a conflict copy made at  *)
(* this second gets (conflict.rs:66).                                      *)
CopiesFresh ==
  \A c \in LocalChanges, e \in RemoteChanges : CopyRel(c.rel, Stamp) # e.rel

-----------------------------------------------------------------------------
(* Batches                                                                 *)

(* What Observe and Take leave in the buffers.                             *)
LEMMA ObservedAlways == Spec => []Observed
<1>1. Init => Observed
  BY EmptySeq DEF Init, Observed
<1>2. Observed /\ [Next]_<<local, remote>> => Observed'
  <2> SUFFICES ASSUME Observed, [Next]_<<local, remote>> PROVE Observed'
    OBVIOUS
  <2>1. /\ \A c \in LocalChanges : Append(local, c) \in Seq(LocalChanges)
        /\ \A e \in RemoteChanges : Append(remote, e) \in Seq(RemoteChanges)
    BY AppendProperties DEF Observed
  <2>2. /\ \/ local' = local \/ local' = <<>>
           \/ \E c \in LocalChanges : local' = Append(local, c)
        /\ \/ remote' = remote \/ remote' = <<>>
           \/ \E e \in RemoteChanges : remote' = Append(remote, e)
    BY DEF Next, Observe, Take
  <2> QED
    BY <2>1, <2>2, EmptySeq DEF Observed
<1> QED
  BY <1>1, <1>2, PTL DEF Spec

(* reconcile() translates the observations one by one, the local ones      *)
(* first.                                                                  *)
LEMMA BatchOps ==
  ASSUME Observed
  PROVE  /\ Len(local) \in Nat /\ Len(remote) \in Nat
         /\ DOMAIN local = 1 .. Len(local) /\ DOMAIN remote = 1 .. Len(remote)
         /\ \A i \in 1 .. Len(local) : local[i] \in LocalChanges
         /\ \A i \in 1 .. Len(remote) : remote[i] \in RemoteChanges
         /\ DOMAIN Batch = 1 .. Len(local) + Len(remote)
         /\ Len(Batch) = Len(local) + Len(remote)
         /\ \A i \in 1 .. Len(local) + Len(remote) :
              Batch[i] = IF i <= Len(local) THEN LocalOp(local[i])
                                            ELSE RemoteOp(remote[i - Len(local)])
<1> DEFINE L == [i \in 1 .. Len(local) |-> LocalOp(local[i])]
           M == [i \in 1 .. Len(remote) |-> RemoteOp(remote[i])]
           T == {LocalOp(c) : c \in LocalChanges} \cup {RemoteOp(e) : e \in RemoteChanges}
<1>1. /\ Len(local) \in Nat /\ Len(remote) \in Nat
      /\ DOMAIN local = 1 .. Len(local) /\ DOMAIN remote = 1 .. Len(remote)
  BY LenProperties DEF Observed
<1>2. /\ \A i \in 1 .. Len(local) : local[i] \in LocalChanges
      /\ \A i \in 1 .. Len(remote) : remote[i] \in RemoteChanges
  BY ElementOfSeq DEF Observed
<1>3. /\ \A i \in 1 .. Len(local) : LocalOp(local[i]) \in T
      /\ \A i \in 1 .. Len(remote) : RemoteOp(remote[i]) \in T
  BY <1>2
<1> HIDE DEF T
<1>4. L \in Seq(T) /\ Len(L) = Len(local) /\ M \in Seq(T) /\ Len(M) = Len(remote)
  BY <1>1, <1>3
<1>5. /\ \A i \in 1 .. Len(local) : L[i] = LocalOp(local[i])
      /\ \A i \in 1 .. Len(remote) : M[i] = RemoteOp(remote[i])
  OBVIOUS
<1>6. Batch = L \o M
  BY DEF Batch, Reconcile
<1> HIDE DEF L, M
<1>7. /\ L \o M \in Seq(T) /\ Len(L \o M) = Len(local) + Len(remote)
      /\ \A i \in 1 .. Len(local) + Len(remote) :
           (L \o M)[i] = IF i <= Len(local) THEN L[i] ELSE M[i - Len(local)]
  <2>1. /\ L \o M \in Seq(T) /\ Len(L \o M) = Len(L) + Len(M)
        /\ \A i \in 1 .. Len(L) + Len(M) :
             (L \o M)[i] = IF i <= Len(L) THEN L[i] ELSE M[i - Len(L)]
    BY <1>4, ConcatProperties
  <2> QED
    BY <1>4, <2>1
<1>8. DOMAIN (L \o M) = 1 .. Len(local) + Len(remote)
  BY <1>7, LenProperties
<1>9. ASSUME NEW i \in 1 .. Len(local) + Len(remote)
      PROVE  Batch[i] = IF i <= Len(local) THEN LocalOp(local[i])
                                           ELSE RemoteOp(remote[i - Len(local)])
  <2>1. CASE i <= Len(local)
    <3>1. i \in 1 .. Len(local)
      BY <1>1, <2>1
    <3> QED
      BY <1>5, <1>6, <1>7, <2>1, <3>1
  <2>2. CASE ~(i <= Len(local))
    <3>1. i - Len(local) \in 1 .. Len(remote)
      BY <1>1, <2>2
    <3> QED
      BY <1>5, <1>6, <1>7, <2>2, <3>1
  <2> QED
    BY <2>1, <2>2
<1> QED
  BY <1>1, <1>2, <1>6, <1>7, <1>8, <1>9

(* Uploads come from the local side, downloads from the remote side.       *)
LEMMA BatchSides ==
  ASSUME ResolveAssumption, Observed, NEW i \in DOMAIN Batch
  PROVE  /\ i \in Nat
         /\ IsUpload(Batch[i]) =>
              /\ i \in DOMAIN local
              /\ local[i] \in LocalChanges /\ local[i].kind = "Upsert" /\ ~local[i].folder
              /\ Batch[i] = [op |-> "UploadNew", rel |-> local[i].rel, path |-> local[i].rel]
         /\ IsPlaceholder(Batch[i]) =>
              \E e \in RemoteChanges : Batch[i].rel = e.rel
<1>1. /\ i \in 1 .. Len(local) + Len(remote) /\ Len(local) \in Nat /\ Len(remote) \in Nat
      /\ DOMAIN local = 1 .. Len(local)
      /\ Batch[i] = IF i <= Len(local) THEN LocalOp(local[i])
                                       ELSE RemoteOp(remote[i - Len(local)])
  BY BatchOps
<1>2. CASE i <= Len(local)
  <2>1. i \in 1 .. Len(local) /\ i \in Nat
    BY <1>1, <1>2
  <2>2. local[i] \in LocalChanges /\ local[i] \in LocalChange /\ Batch[i] = LocalOp(local[i])
    BY <1>1, <1>2, <2>1, BatchOps DEF ResolveAssumption
  <2> QED
    BY <1>1, <2>1, <2>2 DEF LocalChange, LocalOp, IsUpload, IsPlaceholder
<1>3. CASE ~(i <= Len(local))
  <2>1. i - Len(local) \in 1 .. Len(remote) /\ i \in Nat
    BY <1>1, <1>3
  <2>2. PICK e \in RemoteChanges : Batch[i] = RemoteOp(e)
    BY <1>1, <1>3, <2>1, BatchOps
  <2> QED
    BY <2>1, <2>2 DEF RemoteOp, Skip, IsUpload, IsPlaceholder
<1> QED
  BY <1>2, <1>3

-----------------------------------------------------------------------------
(* Resolutions                                                             *)

(* A one-to-one map of the numbers up to n to themselves reaches them all. *)
LEMMA InjectionIsOnto ==
  ASSUME NEW n \in Nat, NEW p \in Injection(1 .. n, 1 .. n)
  PROVE  p \in Bijection(1 .. n, 1 .. n)
<1>1. IsFiniteSet(1 .. n)
  BY FS_Interval
<1>2. p \in Surjection(1 .. n, 1 .. n)
  BY <1>1, FS_Injection
<1> QED
  BY <1>2 DEF Bijection

(* A resolution is the batch in another order, with some uploads renamed.  *)
LEMMA ResolutionIs ==
  ASSUME ResolveAssumption, Observed, NEW out \in Resolve(Batch, Stamp)
  PROVE  \E perm \in Bijection(DOMAIN Batch, DOMAIN Batch) :
           /\ DOMAIN out = DOMAIN Batch
           /\ \A i \in DOMAIN Batch :
                /\ perm[i] \in DOMAIN Batch
                /\ perm[i] \in Renamed(Batch) =>
                     /\ IsUpload(Batch[perm[i]])
                     /\ out[i] = [op   |-> "UploadNew",
                                  rel  |-> CopyRel(Batch[perm[i]].rel, Stamp),
                                  path |-> Batch[perm[i]].path]
                /\ perm[i] \notin Renamed(Batch) => out[i] = Batch[perm[i]]
<1> DEFINE Entry(i) == IF i \in Renamed(Batch) THEN KeepBoth(Batch[i], Stamp) ELSE Batch[i]
<1>1. PICK perm \in Injection(DOMAIN Batch, DOMAIN Batch) :
        out = [i \in DOMAIN Batch |-> Entry(perm[i])]
  BY DEF Resolve
<1>2. perm \in Bijection(DOMAIN Batch, DOMAIN Batch)
  <2>1. Len(local) + Len(remote) \in Nat /\ DOMAIN Batch = 1 .. Len(local) + Len(remote)
    BY BatchOps
  <2> QED
    BY <2>1, InjectionIsOnto
<1>3. perm \in [DOMAIN Batch -> DOMAIN Batch]
  BY DEF Injection
<1>4. ASSUME NEW k \in Renamed(Batch)
      PROVE  /\ k \in DOMAIN Batch /\ IsUpload(Batch[k])
             /\ Entry(k) = [op   |-> "UploadNew", rel  |-> CopyRel(Batch[k].rel, Stamp),
                            path |-> Batch[k].path]
  <2>1. k \in DOMAIN Batch /\ IsUpload(Batch[k])
    BY DEF Renamed
  <2>2. Batch[k] = [op |-> "UploadNew", rel |-> local[k].rel, path |-> local[k].rel]
    BY <2>1, BatchSides
  <2> QED
    BY <2>1, <2>2 DEF KeepBoth
<1>5. ASSUME NEW k \in DOMAIN Batch, k \notin Renamed(Batch) PROVE Entry(k) = Batch[k]
  BY <1>5
<1> HIDE DEF Entry
<1> QED
  BY <1>1, <1>2, <1>3, <1>4, <1>5

(* No upload of a resolution goes where one of its downloads goes.         *)
LEMMA UploadsGoAround ==
  ASSUME ResolveAssumption, CopiesFresh, Observed, NEW out \in Resolve(Batch, Stamp),
         NEW i \in DOMAIN out, NEW j \in DOMAIN out,
         IsUpload(out[i]), IsDownload(out[j])
  PROVE  out[i].rel # out[j].rel
<1>1. PICK perm \in Bijection(DOMAIN Batch, DOMAIN Batch) :
        /\ DOMAIN out = DOMAIN Batch
        /\ \A k \in DOMAIN Batch :
             /\ perm[k] \in DOMAIN Batch
             /\ perm[k] \in Renamed(Batch) =>
                  /\ IsUpload(Batch[perm[k]])
                  /\ out[k] = [op   |-> "UploadNew",
                               rel  |-> CopyRel(Batch[perm[k]].rel, Stamp),
                               path |-> Batch[perm[k]].path]
             /\ perm[k] \notin Renamed(Batch) => out[k] = Batch[perm[k]]
  BY ResolutionIs
<1>2. out[j] = Batch[perm[j]] /\ perm[j] \in DOMAIN Batch
  BY <1>1 DEF IsDownload
<1>3. PICK e \in RemoteChanges : out[j].rel = e.rel
  BY <1>2, BatchSides DEF IsDownload, IsPlaceholder
<1>4. CASE perm[i] \in Renamed(Batch)
  <2>1. out[i].rel = CopyRel(Batch[perm[i]].rel, Stamp) /\ IsUpload(Batch[perm[i]])
    BY <1>1, <1>4
  <2>2. \E c \in LocalChanges : Batch[perm[i]].rel = c.rel
    BY <1>1, <2>1, BatchSides
  <2> QED
    BY <1>3, <2>1, <2>2 DEF CopiesFresh
<1>5. CASE perm[i] \notin Renamed(Batch)
  <2>1. out[i] = Batch[perm[i]] /\ perm[i] \in DOMAIN Batch
    BY <1>1, <1>5
  <2>2. ~InConflict(Batch, out[i].rel)
    BY <1>5, <2>1 DEF Renamed
  <2> QED
    BY <1>2, <2>1, <2>2 DEF InConflict
<1> QED
  BY <1>4, <1>5

(* After resolve() no path is both uploaded and downloaded                 *)
(* (conflict.rs:31), unless a reported file has the copy's very name.      *)
THEOREM ResolvedIsConflictFree == CopiesFresh /\ Spec => []ConflictFree
<1> SUFFICES ASSUME CopiesFresh PROVE Spec => []ConflictFree
  OBVIOUS
<1>1. Observed => ConflictFree
  <2> SUFFICES ASSUME Observed, NEW out \in Resolve(Batch, Stamp), NEW r,
                      r \in RelsOf(out, IsUpload), r \in RelsOf(out, IsDownload)
               PROVE  FALSE
    BY DEF ConflictFree
  <2>1. /\ \E i \in DOMAIN out : IsUpload(out[i]) /\ r = out[i].rel
        /\ \E j \in DOMAIN out : IsDownload(out[j]) /\ r = out[j].rel
    BY DEF RelsOf
  <2> QED
    BY <2>1, ResolveAssumption, UploadsGoAround
<1> QED
  BY <1>1, ObservedAlways, PTL

(* The uploads of one local file are as many as its observations.          *)
LEMMA UploadsAreCounted ==
  ASSUME ResolveAssumption, Observed, NEW out \in Resolve(Batch, Stamp), NEW path
  PROVE  Cardinality({i \in DOMAIN out : IsUpload(out[i]) /\ out[i].path = path})
           = Cardinality({i \in DOMAIN local :
                            /\ local[i].kind = "Upsert" /\ ~local[i].folder
                            /\ local[i].rel = path})
<1> DEFINE A == {i \in DOMAIN out : IsUpload(out[i]) /\ out[i].path = path}
           B == {i \in DOMAIN Batch : IsUpload(Batch[i]) /\ Batch[i].path = path}
           C == {i \in DOMAIN local : /\ local[i].kind = "Upsert" /\ ~local[i].folder
                                      /\ local[i].rel = path}
<1>1. PICK perm \in Bijection(DOMAIN Batch, DOMAIN Batch) :
        /\ DOMAIN out = DOMAIN Batch
        /\ \A k \in DOMAIN Batch :
             /\ perm[k] \in DOMAIN Batch
             /\ perm[k] \in Renamed(Batch) =>
                  /\ IsUpload(Batch[perm[k]])
                  /\ out[k] = [op   |-> "UploadNew",
                               rel  |-> CopyRel(Batch[perm[k]].rel, Stamp),
                               path |-> Batch[perm[k]].path]
             /\ perm[k] \notin Renamed(Batch) => out[k] = Batch[perm[k]]
  BY ResolutionIs
<1>2. ASSUME NEW k \in DOMAIN Batch PROVE k \in A <=> perm[k] \in B
  <2>1. CASE perm[k] \in Renamed(Batch)
    <3>1. /\ IsUpload(Batch[perm[k]]) /\ perm[k] \in DOMAIN Batch
          /\ IsUpload(out[k]) /\ out[k].path = Batch[perm[k]].path
      BY <1>1, <2>1 DEF IsUpload
    <3> QED
      BY <1>1, <3>1
  <2>2. CASE perm[k] \notin Renamed(Batch)
    BY <1>1, <2>2
  <2> QED
    BY <2>1, <2>2
<1>3. B = C
  <2>1. ASSUME NEW i \in B PROVE i \in C
    <3>1. i \in DOMAIN Batch /\ IsUpload(Batch[i]) /\ Batch[i].path = path
      OBVIOUS
    <3> QED
      BY <3>1, BatchSides
  <2>2. ASSUME NEW i \in C PROVE i \in B
    <3>1. /\ i \in 1 .. Len(local) /\ Len(local) \in Nat /\ Len(remote) \in Nat
          /\ local[i] \in LocalChanges
      BY BatchOps
    <3>2. i \in 1 .. Len(local) + Len(remote) /\ i <= Len(local)
      BY <3>1
    <3>3. i \in DOMAIN Batch /\ Batch[i] = LocalOp(local[i])
      BY <3>2, BatchOps
    <3>4. LocalOp(local[i]) = [op |-> "UploadNew", rel |-> path, path |-> path]
      BY DEF LocalOp
    <3> QED
      BY <3>3, <3>4 DEF IsUpload
  <2> QED
    BY <2>1, <2>2
<1>4. IsFiniteSet(A)
  <2>1. DOMAIN out = 1 .. Len(local) + Len(remote) /\ Len(local) + Len(remote) \in Int
    BY <1>1, BatchOps
  <2>2. IsFiniteSet(DOMAIN out)
    BY <2>1, FS_Interval
  <2> QED
    BY <2>2, FS_Subset
<1>5. [k \in A |-> perm[k]] \in Bijection(A, B)
  <2> DEFINE g == [k \in A |-> perm[k]]
  <2>1. /\ perm \in [DOMAIN Batch -> DOMAIN Batch]
        /\ \A a, b \in DOMAIN Batch : perm[a] = perm[b] => a = b
        /\ \A t \in DOMAIN Batch : \E s \in DOMAIN Batch : perm[s] = t
    BY Fun_BijectionProperties, Fun_SurjectionProperties
  <2>2. A \subseteq DOMAIN Batch /\ B \subseteq DOMAIN Batch
    BY <1>1
  <2> HIDE DEF A, B
  <2>3. g \in [A -> B] /\ \A k \in A : g[k] = perm[k]
    BY <1>2, <2>2
  <2>4. \A a, b \in A : g[a] = g[b] => a = b
    BY <2>1, <2>2
  <2>5. \A t \in B : \E s \in A : g[s] = t
    BY <1>2, <2>1, <2>2
  <2> HIDE DEF g
  <2> QED
    BY <2>3, <2>4, <2>5, Fun_IsInj, Fun_IsSurj DEF Bijection, g
<1> HIDE DEF A, B, C
<1>6. Cardinality(B) = Cardinality(A)
  BY <1>4, <1>5, FS_Bijection DEF ExistsBijection
<1> QED
  BY <1>3, <1>6 DEF A, C

(* A file or folder that is reported keeps its place in the mirror.        *)
LEMMA ReportsAreKept ==
  ASSUME ResolveAssumption, Observed, NEW out \in Resolve(Batch, Stamp),
         NEW i \in DOMAIN remote, remote[i].rel[1] \notin Excluded
  PROVE  \E j \in DOMAIN out : /\ IsPlaceholder(out[j])
                               /\ out[j].rel = remote[i].rel
                               /\ out[j].link = remote[i].link
<1> DEFINE n == Len(local) + i
<1>1. PICK perm \in Bijection(DOMAIN Batch, DOMAIN Batch) :
        /\ DOMAIN out = DOMAIN Batch
        /\ \A k \in DOMAIN Batch :
             /\ perm[k] \in DOMAIN Batch
             /\ perm[k] \in Renamed(Batch) =>
                  /\ IsUpload(Batch[perm[k]])
                  /\ out[k] = [op   |-> "UploadNew",
                               rel  |-> CopyRel(Batch[perm[k]].rel, Stamp),
                               path |-> Batch[perm[k]].path]
             /\ perm[k] \notin Renamed(Batch) => out[k] = Batch[perm[k]]
  BY ResolutionIs
<1>2. n \in DOMAIN Batch /\ Batch[n] = RemoteOp(remote[i])
  <2>1. Len(local) \in Nat /\ Len(remote) \in Nat /\ i \in 1 .. Len(remote)
    BY BatchOps
  <2>2. n \in 1 .. Len(local) + Len(remote) /\ ~(n <= Len(local)) /\ n - Len(local) = i
    BY <2>1
  <2> HIDE DEF n
  <2> QED
    BY <2>2, BatchOps
<1> HIDE DEF n
<1>3. /\ IsPlaceholder(Batch[n]) /\ ~IsUpload(Batch[n])
      /\ Batch[n].rel = remote[i].rel /\ Batch[n].link = remote[i].link
  BY <1>2 DEF RemoteOp, IsExcluded, IsPlaceholder, IsUpload
<1>4. PICK j \in DOMAIN Batch : perm[j] = n
  BY <1>2, Fun_BijectionProperties, Fun_SurjectionProperties
<1>5. out[j] = Batch[n] /\ j \in DOMAIN out
  BY <1>1, <1>3, <1>4
<1> QED
  BY <1>3, <1>5

(* resolve() drops no upload and no download and doubles none: the copies  *)
(* are of the files the uploads were of (conflict.rs:31).                  *)
THEOREM ResolvingLosesNothing == Spec => []NothingLost
<1>1. Observed => NothingLost
  BY ResolveAssumption, UploadsAreCounted, ReportsAreKept DEF NothingLost
<1> QED
  BY <1>1, ObservedAlways, PTL

-----------------------------------------------------------------------------
(* There is a resolution                                                   *)

(* The numbers up to n can be listed in any total order of them: each goes *)
(* to the place that the number of those before it gives it.               *)
LEMMA ListedInOrder ==
  ASSUME NEW n \in Nat, NEW R,
         \A a \in 1 .. n : <<a, a>> \notin R,
         \A a, b, c \in 1 .. n : <<a, b>> \in R /\ <<b, c>> \in R => <<a, c>> \in R,
         \A a, b \in 1 .. n : a = b \/ <<a, b>> \in R \/ <<b, a>> \in R
  PROVE  \E perm \in Injection(1 .. n, 1 .. n) :
           \A i, j \in 1 .. n : i < j => <<perm[i], perm[j]>> \in R
<1> DEFINE D == 1 .. n
           Before(a) == {b \in D : <<b, a>> \in R}
           place == [a \in D |-> Cardinality(Before(a)) + 1]
           perm == [k \in D |-> CHOOSE a \in D : place[a] = k]
<1>1. IsFiniteSet(D) /\ Cardinality(D) = n
  BY FS_Interval
<1>2. ASSUME NEW a \in D
      PROVE  /\ IsFiniteSet(Before(a)) /\ Cardinality(Before(a)) \in Nat
             /\ Cardinality(Before(a)) + 1 \in D
  <2>1. Before(a) \in SUBSET D /\ Before(a) \in SUBSET (D \ {a})
    OBVIOUS
  <2> HIDE DEF D, Before
  <2>2. IsFiniteSet(Before(a)) /\ Cardinality(Before(a)) \in Nat
    BY <1>1, <2>1, FS_Subset, FS_CardinalityType
  <2>3. IsFiniteSet(D \ {a}) /\ Cardinality(D \ {a}) = n - 1
    BY <1>1, FS_RemoveElement
  <2>4. Cardinality(Before(a)) <= Cardinality(D \ {a})
    BY <2>1, <2>3, FS_Subset
  <2> QED
    BY <2>2, <2>3, <2>4 DEF D
<1>3. ASSUME NEW a \in D, NEW b \in D, <<a, b>> \in R
      PROVE  Cardinality(Before(a)) < Cardinality(Before(b))
  <2>1. Before(a) \in SUBSET (Before(b) \ {a}) /\ a \in Before(b)
    BY <1>3
  <2>2. /\ IsFiniteSet(Before(b)) /\ Cardinality(Before(b)) \in Nat
        /\ Cardinality(Before(a)) \in Nat
    BY <1>2
  <2> HIDE DEF Before
  <2>3. /\ IsFiniteSet(Before(b) \ {a})
        /\ Cardinality(Before(b) \ {a}) = Cardinality(Before(b)) - 1
    BY <2>1, <2>2, FS_RemoveElement
  <2>4. Cardinality(Before(a)) <= Cardinality(Before(b) \ {a})
    BY <2>1, <2>3, FS_Subset
  <2> QED
    BY <2>2, <2>3, <2>4
<1>4. place \in [D -> D] /\ \A a \in D : place[a] = Cardinality(Before(a)) + 1
  BY <1>2
<1>5. \A a, b \in D : <<a, b>> \in R => place[a] < place[b]
  <2> HIDE DEF Before, place
  <2> QED
    BY <1>2, <1>3, <1>4
<1> HIDE DEF place
<1>6. place \in Bijection(D, D)
  <2>1. \A a, b \in D : place[a] = place[b] => a = b
    <3>1. ASSUME NEW a \in D, NEW b \in D, place[a] = place[b], a # b PROVE FALSE
      <4>1. place[a] \in Nat /\ place[b] \in Nat
        BY <1>4
      <4>2. place[a] < place[b] \/ place[b] < place[a]
        BY <1>5, <3>1
      <4> QED
        BY <3>1, <4>1, <4>2
    <3> QED
      BY <3>1
  <2>2. place \in Injection(D, D)
    BY <1>4, <2>1, Fun_IsInj
  <2> QED
    BY <2>2, InjectionIsOnto
<1>7. \A k \in D : perm[k] \in D /\ place[perm[k]] = k
  <2>1. \A k \in D : \E a \in D : place[a] = k
    <3> HIDE DEF D
    <3> QED
      BY <1>6, Fun_BijectionProperties
  <2> QED
    BY <2>1
<1>8. perm \in [D -> D]
  BY <1>7
<1> HIDE DEF perm
<1>9. perm \in Injection(D, D)
  BY <1>7, <1>8, Fun_IsInj
<1>10. ASSUME NEW i \in D, NEW j \in D, i < j PROVE <<perm[i], perm[j]>> \in R
  <2>1. perm[i] # perm[j]
    BY <1>7, <1>10
  <2>2. <<perm[j], perm[i]>> \notin R
    BY <1>5, <1>7, <1>10
  <2> QED
    BY <1>7, <2>1, <2>2
<1> QED
  BY <1>9, <1>10

(* The untouched operations in their order, then the renamed uploads, those*)
(* of one path together and in their order; path numbers the paths.        *)
Goes(a, b, ops, path) ==
  IF b \in Renamed(ops)
    THEN a \in Renamed(ops) => path[a] < path[b] \/ (path[a] = path[b] /\ a < b)
    ELSE a \notin Renamed(ops) /\ a < b

GoesBefore(n, ops, path) ==
  {p \in (1 .. n) \X (1 .. n) : Goes(p[1], p[2], ops, path)}

(* Renamed uploads have the same number just when they have the same path. *)
Numbers(path, ops) ==
  /\ \A a \in Renamed(ops) : path[a] \in Nat
  /\ \A a, b \in Renamed(ops) : path[a] = path[b] <=> ops[a].rel = ops[b].rel

(* The first len values of s come in the order R.                          *)
Ascends(s, len, R) == \A i, j \in 1 .. len : i < j => <<s[i], s[j]>> \in R

(* Of two places one goes before the other.                                *)
LEMMA BeforeIsTotal ==
  ASSUME NEW n \in Nat, NEW ops, DOMAIN ops = 1 .. n, NEW path, Numbers(path, ops)
  PROVE  LET R == GoesBefore(n, ops, path)
         IN  /\ \A a \in 1 .. n : <<a, a>> \notin R
             /\ \A a, b, c \in 1 .. n : <<a, b>> \in R /\ <<b, c>> \in R => <<a, c>> \in R
             /\ \A a, b \in 1 .. n : a = b \/ <<a, b>> \in R \/ <<b, a>> \in R
<1> DEFINE D == 1 .. n
           moved == Renamed(ops)
           R == GoesBefore(n, ops, path)
<1>1. moved \subseteq D /\ D \subseteq Nat
  BY DEF Renamed
<1>2. \A a \in moved : path[a] \in Nat
  BY DEF Numbers
<1>3. ASSUME NEW a \in D, NEW b \in D PROVE <<a, b>> \in R <=> Goes(a, b, ops, path)
  BY DEF GoesBefore
<1> HIDE DEF R, moved
<1>4. \A a \in D : ~Goes(a, a, ops, path)
  BY <1>1, <1>2 DEF Goes, moved
<1>5. ASSUME NEW a \in D, NEW b \in D, NEW c \in D,
             Goes(a, b, ops, path), Goes(b, c, ops, path)
      PROVE  Goes(a, c, ops, path)
  <2>1. CASE c \notin moved
    <3>1. b \notin moved /\ a \notin moved /\ a < b /\ b < c
      BY <1>5, <2>1 DEF Goes, moved
    <3>2. a < c
      BY <3>1
    <3> QED
      BY <2>1, <3>1, <3>2 DEF Goes, moved
  <2>2. CASE c \in moved /\ a \in moved
    <3>1. b \in moved
      BY <1>5, <2>2 DEF Goes, moved
    <3> DEFINE x == path[a]
               y == path[b]
               z == path[c]
    <3>2. x \in Nat /\ y \in Nat /\ z \in Nat
      BY <1>2, <2>2, <3>1
    <3>3. (x < y \/ (x = y /\ a < b)) /\ (y < z \/ (y = z /\ b < c))
      BY <1>5, <2>2, <3>1 DEF Goes, moved
    <3> HIDE DEF x, y, z
    <3>4. x < z \/ (x = z /\ a < c)
      BY <3>2, <3>3
    <3> QED
      BY <2>2, <3>4 DEF Goes, moved, x, z
  <2> QED
    BY <2>1, <2>2 DEF Goes, moved
<1>6. \A a, b \in D : a = b \/ Goes(a, b, ops, path) \/ Goes(b, a, ops, path)
  BY <1>1, <1>2 DEF Goes, moved
<1>7. /\ \A a \in D : <<a, a>> \notin R
      /\ \A a, b, c \in D : <<a, b>> \in R /\ <<b, c>> \in R => <<a, c>> \in R
      /\ \A a, b \in D : a = b \/ <<a, b>> \in R \/ <<b, a>> \in R
  BY <1>3, <1>4, <1>5, <1>6
<1> QED
  BY <1>7 DEF R

(* A listing of the places in such an order is a resolution.               *)
LEMMA ListingResolves ==
  ASSUME NEW n \in Nat, NEW ops, DOMAIN ops = 1 .. n, NEW path, Numbers(path, ops),
         NEW perm \in [1 .. n -> 1 .. n], Ascends(perm, n, GoesBefore(n, ops, path))
  PROVE  IsResolutionOrder(ops, perm)
<1> DEFINE D == 1 .. n
           moved == Renamed(ops)
<1>1. moved \subseteq D /\ D \subseteq Nat
  BY DEF Renamed
<1>4. \A a \in moved : path[a] \in Nat
  BY DEF Numbers
<1>5. \A a, b \in moved : path[a] = path[b] <=> ops[a].rel = ops[b].rel
  BY DEF Numbers
<1>9. \A i, j \in D : i < j => Goes(perm[i], perm[j], ops, path)
  BY DEF Ascends, GoesBefore
<1> HIDE DEF moved
<1>10. ASSUME NEW i \in D, NEW j \in D, i < j, perm[i] \in moved PROVE perm[j] \in moved
  BY <1>9, <1>10 DEF Goes, moved
<1>11. ASSUME NEW i \in D, NEW j \in D, i < j,
              \/ perm[j] \notin moved
              \/ perm[i] \in moved /\ ops[perm[i]].rel = ops[perm[j]].rel
       PROVE  perm[i] < perm[j]
  <2>1. IF perm[j] \in moved
          THEN perm[i] \in moved => \/ path[perm[i]] < path[perm[j]]
                                    \/ path[perm[i]] = path[perm[j]] /\ perm[i] < perm[j]
          ELSE perm[i] \notin moved /\ perm[i] < perm[j]
    BY <1>9, <1>11 DEF Goes, moved
  <2>2. CASE perm[j] \notin moved
    BY <2>1, <2>2
  <2>3. CASE perm[j] \in moved
    <3>1. perm[i] \in moved /\ path[perm[i]] = path[perm[j]] /\ path[perm[i]] \in Nat
      BY <1>4, <1>5, <1>11, <2>3
    <3> QED
      BY <2>1, <2>3, <3>1
  <2> QED
    BY <2>2, <2>3
<1>12. ASSUME NEW i \in D, NEW j \in D, NEW k \in D, i < j, j < k, perm[i] \in moved,
              ops[perm[i]].rel = ops[perm[k]].rel
       PROVE  ops[perm[i]].rel = ops[perm[j]].rel
  <2>1. perm[j] \in moved /\ perm[k] \in moved
    BY <1>10, <1>12
  <2>2. /\ path[perm[i]] < path[perm[j]] \/ path[perm[i]] = path[perm[j]]
        /\ path[perm[j]] < path[perm[k]] \/ path[perm[j]] = path[perm[k]]
    BY <1>9, <1>12, <2>1 DEF Goes, moved
  <2>3. path[perm[i]] = path[perm[k]]
    BY <1>5, <1>12, <2>1
  <2>4. path[perm[i]] \in Nat /\ path[perm[j]] \in Nat
    BY <1>4, <1>12, <2>1
  <2>5. path[perm[i]] = path[perm[j]]
    <3> DEFINE x == path[perm[i]]
               y == path[perm[j]]
    <3>1. x \in Nat /\ y \in Nat /\ (x < y \/ x = y) /\ (y < x \/ y = x)
      BY <2>2, <2>3, <2>4
    <3> HIDE DEF x, y
    <3>2. x = y
      BY <3>1
    <3> QED
      BY <3>2 DEF x, y
  <2> QED
    BY <1>5, <1>12, <2>1, <2>5
<1> QED
  BY <1>10, <1>11, <1>12 DEF IsResolutionOrder, moved

(* The first renamed place of a path stands for it.                        *)
LEMMA ResolutionExists ==
  ASSUME NEW n \in Nat, NEW ops, DOMAIN ops = 1 .. n, NEW stamp
  PROVE  Resolve(ops, stamp) # {}
<1> DEFINE moved == Renamed(ops)
           Of(r) == CHOOSE k \in moved : ops[k].rel = r
           path == [a \in moved |-> Of(ops[a].rel)]
           R == GoesBefore(n, ops, path)
<1>1. moved \subseteq Nat
  BY DEF Renamed
<1>2. \A a \in moved : path[a] \in moved /\ ops[path[a]].rel = ops[a].rel
  OBVIOUS
<1>3. \A a, b \in moved : ops[a].rel = ops[b].rel => path[a] = path[b]
  OBVIOUS
<1> HIDE DEF path
<1>4. Numbers(path, ops)
  BY <1>1, <1>2, <1>3 DEF Numbers
<1>5. /\ \A a \in 1 .. n : <<a, a>> \notin R
      /\ \A a, b, c \in 1 .. n : <<a, b>> \in R /\ <<b, c>> \in R => <<a, c>> \in R
      /\ \A a, b \in 1 .. n : a = b \/ <<a, b>> \in R \/ <<b, a>> \in R
  BY <1>4, BeforeIsTotal
<1> HIDE DEF R
<1>6. PICK perm \in Injection(1 .. n, 1 .. n) :
        \A i, j \in 1 .. n : i < j => <<perm[i], perm[j]>> \in R
  BY <1>5, ListedInOrder
<1>7. perm \in [1 .. n -> 1 .. n]
  BY DEF Injection
<1>8. IsResolutionOrder(ops, perm)
  BY <1>4, <1>6, <1>7, ListingResolves DEF R, Ascends
<1> QED
  BY <1>6, <1>8 DEF Resolve

(* resolve() always has an answer, so that what is true of all answers is  *)
(* not true for the want of one (conflict.rs:31).                          *)
THEOREM EveryBatchResolves == Spec => [](Resolve(Batch, Stamp) # {})
<1>1. Observed => Resolve(Batch, Stamp) # {}
  BY BatchOps, ResolutionExists
<1> QED
  BY <1>1, ObservedAlways, PTL
-----------------------------------------------------------------------------
(* What resolve() does, in other words                                     *)

(* s lists the members of T in the order R.                                *)
Lists(s, T, R) ==
  /\ s \in Seq(T)
  /\ \A a \in T : \E i \in 1 .. Len(s) : s[i] = a
  /\ Ascends(s, Len(s), R)

(* A list goes on with one that comes after it.                            *)
LEMMA ListsJoin ==
  ASSUME NEW T, NEW U, NEW R, NEW s, NEW t, Lists(s, T, R), Lists(t, U, R),
         \A a \in T, b \in U : <<a, b>> \in R
  PROVE  Lists(s \o t, T \cup U, R)
<1> DEFINE st == s \o t
<1>1. /\ s \in Seq(T \cup U) /\ t \in Seq(T \cup U)
      /\ Len(s) \in Nat /\ Len(t) \in Nat
      /\ \A i \in 1 .. Len(s) : s[i] \in T
      /\ \A i \in 1 .. Len(t) : t[i] \in U
  <2>1. s \in Seq(T) /\ t \in Seq(U)
    BY DEF Lists
  <2> QED
    BY <2>1, LenProperties, ElementOfSeq
<1>2. /\ st \in Seq(T \cup U) /\ Len(st) = Len(s) + Len(t)
      /\ \A i \in 1 .. Len(s) + Len(t) :
           st[i] = IF i <= Len(s) THEN s[i] ELSE t[i - Len(s)]
  BY <1>1, ConcatProperties
<1> HIDE DEF st
<1>3. /\ \A i \in 1 .. Len(s) : i \in 1 .. Len(st) /\ st[i] = s[i]
      /\ \A i \in 1 .. Len(t) : Len(s) + i \in 1 .. Len(st) /\ st[Len(s) + i] = t[i]
  <2>1. ASSUME NEW i \in 1 .. Len(s) PROVE i \in 1 .. Len(st) /\ st[i] = s[i]
    BY <1>1, <1>2
  <2>2. ASSUME NEW i \in 1 .. Len(t)
        PROVE  Len(s) + i \in 1 .. Len(st) /\ st[Len(s) + i] = t[i]
    <3>1. /\ Len(s) + i \in 1 .. Len(s) + Len(t) /\ ~(Len(s) + i <= Len(s))
          /\ (Len(s) + i) - Len(s) = i
      BY <1>1
    <3> QED
      BY <1>2, <3>1
  <2> QED
    BY <2>1, <2>2
<1>4. ASSUME NEW a \in T \cup U PROVE \E i \in 1 .. Len(st) : st[i] = a
  <2>1. CASE a \in T
    BY <1>3, <2>1 DEF Lists
  <2>2. CASE a \in U
    BY <1>3, <2>2 DEF Lists
  <2> QED
    BY <2>1, <2>2
<1>5. ASSUME NEW i \in 1 .. Len(st), NEW j \in 1 .. Len(st), i < j
      PROVE  <<st[i], st[j]>> \in R
  <2>1. CASE j <= Len(s)
    <3>1. i \in 1 .. Len(s) /\ j \in 1 .. Len(s)
      BY <1>1, <1>2, <1>5, <2>1
    <3> QED
      BY <1>3, <1>5, <3>1 DEF Lists, Ascends
  <2>2. CASE i <= Len(s) /\ ~(j <= Len(s))
    <3>1. i \in 1 .. Len(s) /\ j - Len(s) \in 1 .. Len(t)
      BY <1>1, <1>2, <1>5, <2>2
    <3>2. st[i] = s[i] /\ st[j] = t[j - Len(s)]
      BY <1>2, <2>2
    <3> QED
      BY <1>1, <3>1, <3>2
  <2>3. CASE ~(i <= Len(s))
    <3>1. /\ i - Len(s) \in 1 .. Len(t) /\ j - Len(s) \in 1 .. Len(t)
          /\ i - Len(s) < j - Len(s) /\ ~(j <= Len(s))
      BY <1>1, <1>2, <1>5, <2>3
    <3>2. st[i] = t[i - Len(s)] /\ st[j] = t[j - Len(s)]
      BY <1>2, <2>3, <3>1
    <3> QED
      BY <3>1, <3>2 DEF Lists, Ascends
  <2> QED
    BY <1>5, <2>1, <2>2, <2>3
<1> QED
  BY <1>2, <1>4, <1>5 DEF Lists, Ascends, st

(* A list goes on with a value that comes after it.                        *)
LEMMA ListsAppend ==
  ASSUME NEW T, NEW R, NEW s, NEW a, Lists(s, T, R), \A b \in T : <<b, a>> \in R
  PROVE  Lists(Append(s, a), T \cup {a}, R)
<1>1. <<a>> \in Seq({a}) /\ Len(<<a>>) = 1 /\ <<a>>[1] = a
  OBVIOUS
<1>2. Lists(<<a>>, {a}, R)
  <2> DEFINE u == <<a>>
  <2>1. u \in Seq({a}) /\ Len(u) = 1 /\ u[1] = a
    BY <1>1
  <2> HIDE DEF u
  <2>2. Lists(u, {a}, R)
    BY <2>1 DEF Lists, Ascends
  <2> QED
    BY <2>2 DEF u
<1>3. s \in Seq(T \cup {a})
  BY DEF Lists
<1>4. Append(s, a) = s \o <<a>>
  BY <1>3, AppendIsConcat
<1>5. Lists(s \o <<a>>, T \cup {a}, R)
  BY <1>2, ListsJoin
<1> QED
  BY <1>4, <1>5

(* R is a strict order of T.                                               *)
IsStrict(R, T) ==
  /\ \A a \in T : <<a, a>> \notin R
  /\ \A a, b, c \in T : <<a, b>> \in R /\ <<b, c>> \in R => <<a, c>> \in R

(* In a list a value stands behind as many as are before it.               *)
LEMMA ListedBehind ==
  ASSUME NEW T, NEW R, NEW s, Lists(s, T, R), IsStrict(R, T), NEW k \in 1 .. Len(s)
  PROVE  s[k] \in T /\ Cardinality({b \in T : <<b, s[k]>> \in R}) = k - 1
<1> DEFINE B == {b \in T : <<b, s[k]>> \in R}
           f == [j \in 1 .. k - 1 |-> s[j]]
<1>1. s \in Seq(T) /\ Len(s) \in Nat /\ \A i \in 1 .. Len(s) : s[i] \in T
  <2>1. s \in Seq(T)
    BY DEF Lists
  <2> QED
    BY <2>1, LenProperties, ElementOfSeq
<1>2. \A i, j \in 1 .. Len(s) : i < j => <<s[i], s[j]>> \in R
  BY DEF Lists, Ascends
<1>3. /\ k \in Nat /\ k - 1 \in Nat
      /\ \A j \in 1 .. k - 1 : j \in 1 .. Len(s) /\ j < k /\ j \in Nat
  BY <1>1
<1>4. \A j \in 1 .. k - 1 : s[j] \in B
  BY <1>1, <1>2, <1>3
<1>5. ASSUME NEW b \in B PROVE \E j \in 1 .. k - 1 : s[j] = b
  <2>1. PICK j \in 1 .. Len(s) : s[j] = b
    BY DEF Lists
  <2>2. b \in T /\ <<b, s[k]>> \in R
    OBVIOUS
  <2>3. j # k
    BY <1>1, <2>1, <2>2 DEF IsStrict
  <2>4. ~(k < j)
    <3>1. SUFFICES ASSUME k < j PROVE FALSE
      OBVIOUS
    <3>2. <<s[k], b>> \in R
      BY <1>2, <2>1, <3>1
    <3> QED
      BY <1>1, <2>2, <3>2 DEF IsStrict
  <2>5. j \in 1 .. k - 1
    BY <1>1, <1>3, <2>3, <2>4
  <2> QED
    BY <2>1, <2>5
<1>6. \A i, j \in 1 .. k - 1 : s[i] = s[j] => i = j
  <2> SUFFICES ASSUME NEW i \in 1 .. k - 1, NEW j \in 1 .. k - 1, s[i] = s[j], i # j
               PROVE  FALSE
    OBVIOUS
  <2>1. i < j \/ j < i
    BY <1>3
  <2>2. <<s[i], s[j]>> \in R \/ <<s[j], s[i]>> \in R
    BY <1>2, <1>3, <2>1
  <2> QED
    BY <1>1, <1>3, <2>2 DEF IsStrict
<1> HIDE DEF B
<1>7. f \in [1 .. k - 1 -> B] /\ \A j \in 1 .. k - 1 : f[j] = s[j]
  BY <1>4
<1> HIDE DEF f
<1>8. f \in Bijection(1 .. k - 1, B)
  BY <1>5, <1>6, <1>7, Fun_IsInj, Fun_IsSurj DEF Bijection
<1>9. Cardinality(B) = k - 1
  BY <1>3, <1>8, FS_CountingElements DEF ExistsBijection
<1> QED
  BY <1>1, <1>9 DEF B

(* A set is listed in an order in one way.                                 *)
LEMMA ListedOnce ==
  ASSUME NEW T, NEW R, NEW s, NEW t, Lists(s, T, R), Lists(t, T, R), IsStrict(R, T)
  PROVE  s = t
<1> DEFINE Behind(a) == Cardinality({b \in T : <<b, a>> \in R})
<1>1. /\ \A k \in 1 .. Len(s) : s[k] \in T /\ Behind(s[k]) = k - 1
      /\ \A k \in 1 .. Len(t) : t[k] \in T /\ Behind(t[k]) = k - 1
  <2>1. ASSUME NEW k \in 1 .. Len(s) PROVE s[k] \in T /\ Behind(s[k]) = k - 1
    BY ListedBehind
  <2>2. ASSUME NEW k \in 1 .. Len(t) PROVE t[k] \in T /\ Behind(t[k]) = k - 1
    BY ListedBehind
  <2> HIDE DEF Behind
  <2> QED
    BY <2>1, <2>2
<1> HIDE DEF Behind
<1>2. /\ s \in Seq(T) /\ Len(s) \in Nat /\ s \in [1 .. Len(s) -> T]
      /\ t \in Seq(T) /\ Len(t) \in Nat /\ t \in [1 .. Len(t) -> T]
  <2>1. s \in Seq(T) /\ t \in Seq(T)
    BY DEF Lists
  <2> QED
    BY <2>1, LenProperties
<1>3. ASSUME NEW k \in 1 .. Len(s) PROVE k \in 1 .. Len(t) /\ t[k] = s[k]
  <2>1. PICK l \in 1 .. Len(t) : t[l] = s[k]
    BY <1>1 DEF Lists
  <2>2. l - 1 = k - 1
    BY <1>1, <2>1
  <2>3. l = k
    BY <1>2, <2>2
  <2> QED
    BY <2>1, <2>3
<1>4. ASSUME NEW k \in 1 .. Len(t) PROVE k \in 1 .. Len(s)
  <2>1. PICK l \in 1 .. Len(s) : s[l] = t[k]
    BY <1>1 DEF Lists
  <2>2. l - 1 = k - 1
    BY <1>1, <2>1
  <2>3. l = k
    BY <1>2, <2>2
  <2> QED
    BY <2>3
<1>5. 1 .. Len(s) = 1 .. Len(t)
  BY <1>3, <1>4
<1> DEFINE D == 1 .. Len(s)
<1>6. s \in [D -> T] /\ t \in [D -> T] /\ \A k \in D : t[k] = s[k]
  BY <1>2, <1>3, <1>5
<1> HIDE DEF D
<1> QED
  BY <1>6

-----------------------------------------------------------------------------
(* Recursion over the places of a batch                                    *)

(* Some numbers have a least one.                                          *)
LEMMA Least ==
  ASSUME NEW T, T # {}, T \subseteq Nat
  PROVE  \E k \in T : \A j \in T : k <= j
<1> DEFINE R == OpToRel(<, Nat)
<1>1. PICK k \in T : \A j \in T : ~ (<<j, k>> \in R)
  BY NatLessThanWellFounded, WFMin
<1>2. \A j \in T : ~ (j < k)
  BY <1>1 DEF OpToRel
<1> HIDE DEF R
<1>3. \A j \in T : k <= j
  BY <1>2
<1> QED
  BY <1>3

(* Induction up to a number, for a set in the place of a property.         *)
LEMMA UpTo ==
  ASSUME NEW n \in Nat, NEW S, 0 \in S,
         \A k \in 1 .. n : k - 1 \in S => k \in S
  PROVE  0 .. n \subseteq S
<1> DEFINE T == {k \in 0 .. n : k \notin S}
<1>1. SUFFICES ASSUME T # {} PROVE FALSE
  BY <1>1
<1>2. T \subseteq Nat
  OBVIOUS
<1> HIDE DEF T
<1>3. PICK k \in T : \A j \in T : k <= j
  BY <1>1, <1>2, Least
<1>4. k \in 1 .. n /\ k \notin S
  BY <1>3 DEF T
<1>5. k - 1 \in 0 .. n /\ k - 1 < k
  BY <1>4
<1>6. k - 1 \in S
  <2>1. k - 1 \notin T
    BY <1>2, <1>3, <1>5
  <2> QED
    BY <1>5, <2>1 DEF T
<1> QED
  BY <1>4, <1>6

(* f[i] is what the first i steps make of a value.                         *)
Carries(f, n, first, step) ==
  f[0] = first /\ \A i \in 1 .. n : f[i] = step[i][f[i - 1]]

(* A value that is carried from row to row is that of a function.          *)
LEMMA StepsCompose ==
  ASSUME NEW n \in Nat, NEW X, NEW first \in X, NEW step \in [1 .. n -> [X -> X]]
  PROVE  \E f \in [0 .. n -> X] : Carries(f, n, first, step)
<1> DEFINE S == {k \in 0 .. n : \E f \in [0 .. k -> X] :
                   f[0] = first /\ \A i \in 1 .. k : f[i] = step[i][f[i - 1]]}
<1>1. 0 \in S
  <2> DEFINE f == [i \in 0 .. 0 |-> first]
  <2>1. f \in [0 .. 0 -> X] /\ f[0] = first
    OBVIOUS
  <2>2. \A i \in 1 .. 0 : f[i] = step[i][f[i - 1]]
    OBVIOUS
  <2> HIDE DEF f
  <2> QED
    BY <2>1, <2>2
<1>2. ASSUME NEW k \in 1 .. n, k - 1 \in S PROVE k \in S
  <2>1. PICK f \in [0 .. k - 1 -> X] :
          f[0] = first /\ \A i \in 1 .. k - 1 : f[i] = step[i][f[i - 1]]
    BY <1>2
  <2> DEFINE g == [i \in 0 .. k |-> IF i < k THEN f[i] ELSE step[k][f[k - 1]]]
  <2>2. f[k - 1] \in X /\ step[k] \in [X -> X]
    OBVIOUS
  <2>3. g \in [0 .. k -> X] /\ g[0] = first
    BY <2>1, <2>2
  <2>4. ASSUME NEW i \in 1 .. k PROVE g[i] = step[i][g[i - 1]]
    <3>1. i - 1 \in 0 .. k - 1 /\ g[i - 1] = f[i - 1]
      OBVIOUS
    <3>2. CASE i = k
      BY <3>1, <3>2
    <3>3. CASE i < k
      BY <2>1, <3>1, <3>3
    <3> QED
      BY <3>2, <3>3
  <2> HIDE DEF g
  <2> QED
    BY <2>3, <2>4
<1> HIDE DEF S
<1>3. 0 .. n \subseteq S
  BY <1>1, <1>2, UpTo
<1>4. n \in S
  BY <1>3
<1> QED
  BY <1>4 DEF S, Carries

-----------------------------------------------------------------------------
(* Reference lists the places in the order of a resolution                 *)

(* u[k] is what the first k places have in keep.                           *)
KeptUpTo(u, n, keep) ==
  /\ u[0] = <<>>
  /\ \A i \in 1 .. n : u[i] = IF i \in keep THEN Append(u[i - 1], i) ELSE u[i - 1]

(* Places are taken one by one.                                            *)
LEMMA FilteredExists ==
  ASSUME NEW n \in Nat, NEW keep \in SUBSET (1 .. n)
  PROVE  \E u : KeptUpTo(u, n, keep) /\ Filtered(n, keep) = u[n]
<1> DEFINE X == Seq(1 .. n)
           Take1(t, i) == IF i \in keep THEN Append(t, i) ELSE t
           step == [i \in 1 .. n |-> [t \in X |-> Take1(t, i)]]
<1>1. n \in Nat /\ <<>> \in X
  BY EmptySeq
<1>2. \A i \in 1 .. n : \A t \in X : Take1(t, i) \in X
  BY AppendProperties
<1>3. step \in [1 .. n -> [X -> X]]
  BY <1>2
<1>4. \A i \in 1 .. n : \A t \in X : step[i][t] = Take1(t, i)
  OBVIOUS
<1> HIDE DEF X, step
<1>5. PICK f \in [0 .. n -> X] : Carries(f, n, <<>>, step)
  BY <1>1, <1>3, StepsCompose
<1> DEFINE upto[i \in 0 .. n] ==
      IF i = 0 THEN <<>>
      ELSE IF i \in keep THEN Append(upto[i - 1], i) ELSE upto[i - 1]
<1>6. f = [i \in 0 .. n |-> IF i = 0 THEN <<>>
           ELSE IF i \in keep THEN Append(f[i - 1], i) ELSE f[i - 1]]
  <2>1. ASSUME NEW k \in 1 .. n PROVE f[k] = Take1(f[k - 1], k)
    <3>1. f[k - 1] \in X /\ f[k] = step[k][f[k - 1]]
      BY <1>1, <1>5 DEF Carries
    <3> QED
      BY <1>4, <3>1
  <2> DEFINE body(k) == IF k = 0 THEN <<>> ELSE Take1(f[k - 1], k)
  <2>2. ASSUME NEW k \in 0 .. n PROVE f[k] = body(k)
    <3>1. CASE k = 0
      BY <1>5, <3>1 DEF Carries
    <3>2. CASE k # 0
      <4>1. k \in 1 .. n
        BY <1>1, <3>2
      <4> QED
        BY <2>1, <3>2, <4>1
    <3> QED
      BY <3>1, <3>2
  <2> HIDE DEF body
  <2>3. f = [k \in 0 .. n |-> body(k)]
    BY <2>2
  <2> QED
    BY <2>3 DEF body
<1>7. upto = [i \in 0 .. n |-> IF i = 0 THEN <<>>
              ELSE IF i \in keep THEN Append(upto[i - 1], i) ELSE upto[i - 1]]
  BY <1>6
<1>8. Filtered(n, keep) = upto[n]
  BY DEF Filtered
<1> HIDE DEF upto
<1>9. KeptUpTo(upto, n, keep)
  <2>1. upto[0] = <<>>
    BY <1>1, <1>7
  <2>2. ASSUME NEW k \in 1 .. n PROVE upto[k] = Take1(upto[k - 1], k)
    <3>1. k \in 0 .. n /\ k # 0
      BY <1>1
    <3> QED
      BY <1>7, <3>1
  <2> QED
    BY <2>1, <2>2 DEF KeptUpTo
<1> QED
  BY <1>8, <1>9

(* Filtered lists the places of keep in every order that has them ascend.  *)
LEMMA FilteredLists ==
  ASSUME NEW n \in Nat, NEW keep \in SUBSET (1 .. n), NEW R,
         \A a, b \in keep : a < b => <<a, b>> \in R
  PROVE  Lists(Filtered(n, keep), keep, R)
<1>1. PICK u : KeptUpTo(u, n, keep) /\ Filtered(n, keep) = u[n]
  BY FilteredExists
<1> DEFINE Done(k) == {i \in keep : i <= k}
           S == {k \in 0 .. n : Lists(u[k], Done(k), R)}
<1>2. \A i \in keep : i \in Nat /\ 1 <= i /\ i <= n
  OBVIOUS
<1>3. 0 \in S
  <2>1. Done(0) = {}
    <3>1. \A i \in keep : ~(i <= 0)
      BY <1>2
    <3> QED
      BY <3>1, Zenon
  <2>3. u[0] = <<>> /\ 0 \in 0 .. n
    BY <1>1 DEF KeptUpTo
  <2>2. Lists(<<>>, {}, R)
    BY EmptySeq DEF Lists, Ascends
  <2> HIDE DEF Done
  <2> QED
    BY <2>1, <2>2, <2>3
<1>4. ASSUME NEW k \in 1 .. n, k - 1 \in S PROVE k \in S
  <2>1. Lists(u[k - 1], Done(k - 1), R) /\ k \in 0 .. n
    BY <1>4
  <2>2. CASE k \in keep
    <3>1. u[k] = Append(u[k - 1], k)
      BY <1>1, <2>2 DEF KeptUpTo
    <3>2. Done(k) = Done(k - 1) \cup {k}
      <4>1. \A i \in keep : i <= k <=> (i <= k - 1 \/ i = k)
        BY <1>2
      <4> QED
        BY <2>2, <4>1, Zenon
    <3>3. \A b \in Done(k - 1) : <<b, k>> \in R
      <4>1. \A b \in Done(k - 1) : b \in keep /\ b < k
        BY <1>2
      <4> QED
        BY <2>2, <4>1
    <3> HIDE DEF Done
    <3>4. Lists(Append(u[k - 1], k), Done(k - 1) \cup {k}, R)
      BY <2>1, <3>3, ListsAppend
    <3> QED
      BY <2>1, <3>1, <3>2, <3>4
  <2>3. CASE k \notin keep
    <3>1. u[k] = u[k - 1]
      BY <1>1, <2>3 DEF KeptUpTo
    <3>2. Done(k) = Done(k - 1)
      <4>1. \A i \in keep : i # k => (i <= k <=> i <= k - 1)
        BY <1>2
      <4> QED
        BY <2>3, <4>1, Zenon
    <3> HIDE DEF Done
    <3> QED
      BY <2>1, <3>1, <3>2
  <2> QED
    BY <2>2, <2>3
<1>5. Done(n) = keep
  BY <1>2
<1> HIDE DEF Done
<1>6. Lists(u[n], Done(n), R)
  <2> HIDE DEF S
  <2>1. 0 .. n \subseteq S
    BY <1>3, <1>4, UpTo
  <2>2. n \in S
    BY <2>1
  <2> QED
    BY <2>2 DEF S
<1> QED
  BY <1>1, <1>5, <1>6

(* The uploads that move are those Resolve renames, and the conflicts are  *)
(* their paths.                                                            *)
LEMMA MovedAreRenamed ==
  /\ Moved = Renamed(Batch) /\ Moved \subseteq DOMAIN Batch
  /\ \A i \in Moved : Batch[i].rel \in Conflicts
  /\ \A r \in Conflicts : \E i \in Moved : Batch[i].rel = r
<1>1. \A r : r \in Conflicts <=> InConflict(Batch, r)
  BY DEF Conflicts, RelsOf, InConflict
<1>2. Moved = Renamed(Batch)
  BY <1>1 DEF Moved, Renamed
<1>3. \A r \in Conflicts : \E i \in DOMAIN Batch : IsUpload(Batch[i]) /\ Batch[i].rel = r
  BY DEF Conflicts, RelsOf
<1> QED
  BY <1>2, <1>3 DEF Moved

(* The conflicts of a batch can be put in order.                           *)
LEMMA ConflictsAreFinite == ASSUME Observed PROVE IsFiniteSet(Conflicts)
<1> DEFINE f == [i \in Moved |-> Batch[i].rel]
<1>1. IsFiniteSet(Moved)
  <2>1. DOMAIN Batch = 1 .. Len(local) + Len(remote) /\ Len(local) + Len(remote) \in Int
    BY BatchOps
  <2>2. IsFiniteSet(DOMAIN Batch)
    BY <2>1, FS_Interval
  <2> QED
    BY <2>2, MovedAreRenamed, FS_Subset
<1>2. f \in [Moved -> Conflicts] /\ \A r \in Conflicts : \E i \in Moved : f[i] = r
  BY MovedAreRenamed
<1> HIDE DEF f
<1>3. f \in Surjection(Moved, Conflicts)
  BY <1>2, Fun_IsSurj
<1> QED
  BY <1>1, <1>3, FS_Surjection

(* The number of the path of a renamed upload in an order of the conflicts.*)
Rank(order) == [a \in Moved |-> CHOOSE k \in DOMAIN order : order[k] = Batch[a].rel]

(* An order of the conflicts numbers their uploads.                        *)
LEMMA RankNumbers ==
  ASSUME Observed, NEW order \in SetToSeqs(Conflicts)
  PROVE  /\ Len(order) \in Nat /\ DOMAIN order = 1 .. Len(order)
         /\ \A k, l \in 1 .. Len(order) : order[k] = order[l] => k = l
         /\ \A k \in 1 .. Len(order) : order[k] \in Conflicts
         /\ \A a \in Moved : /\ Rank(order)[a] \in 1 .. Len(order)
                             /\ order[Rank(order)[a]] = Batch[a].rel
         /\ Numbers(Rank(order), Batch)
<1> DEFINE m == Cardinality(Conflicts)
<1>1. m \in Nat
  BY ConflictsAreFinite, FS_CardinalityType
<1>2. /\ order \in [1 .. m -> Conflicts]
      /\ \A k, l \in 1 .. m : k # l => order[k] # order[l]
  BY DEF SetToSeqs
<1> HIDE DEF m
<1>3. order \in Seq(Conflicts) /\ Len(order) = m /\ DOMAIN order = 1 .. m
  BY <1>1, <1>2
<1>4. order \in Injection(1 .. m, Conflicts)
  BY <1>2, Fun_IsInj
<1>5. \A r \in Conflicts : \E k \in 1 .. m : order[k] = r
  <2>1. IsFiniteSet(1 .. m) /\ Cardinality(1 .. m) = m
    BY <1>1, FS_Interval
  <2>2. order \in Surjection(1 .. m, Conflicts)
    BY <1>4, <2>1, ConflictsAreFinite, FS_Injection DEF m
  <2> QED
    BY <2>2 DEF Surjection
<1>6. ASSUME NEW a \in Moved
      PROVE  Rank(order)[a] \in 1 .. m /\ order[Rank(order)[a]] = Batch[a].rel
  <2>1. \E k \in DOMAIN order : order[k] = Batch[a].rel
    BY <1>3, <1>5, MovedAreRenamed
  <2>2. Rank(order)[a] = CHOOSE k \in DOMAIN order : order[k] = Batch[a].rel
    BY DEF Rank
  <2> QED
    BY <1>3, <2>1, <2>2
<1>7. Numbers(Rank(order), Batch)
  <2>1. \A a \in Moved : Rank(order)[a] \in Nat
    BY <1>1, <1>6
  <2>2. \A a, b \in Moved : Rank(order)[a] = Rank(order)[b] <=> Batch[a].rel = Batch[b].rel
    BY <1>2, <1>6
  <2> QED
    BY <2>1, <2>2, MovedAreRenamed DEF Numbers
<1> QED
  BY <1>1, <1>2, <1>3, <1>6, <1>7

(* u[k] is what stays and what moves on the first k paths.                 *)
GatheredUpTo(u, order) ==
  /\ u[0] = Filtered(Len(Batch), DOMAIN Batch \ Moved)
  /\ \A k \in 1 .. Len(order) :
       u[k] = u[k - 1] \o Filtered(Len(Batch), {i \in Moved : Batch[i].rel = order[k]})

(* Lists of the members of a set are lists of those of a larger one.       *)
LEMMA WiderSeq == ASSUME NEW S, NEW T, S \subseteq T, NEW w \in Seq(S) PROVE w \in Seq(T)
<1>1. Len(w) \in Nat /\ w \in [1 .. Len(w) -> S]
  BY LenProperties
<1>2. w \in [1 .. Len(w) -> T]
  BY <1>1
<1> QED
  BY <1>1, <1>2

(* Paths are appended one by one.                                          *)
LEMMA GatheredExists ==
  ASSUME Observed, NEW order \in SetToSeqs(Conflicts)
  PROVE  \E u : GatheredUpTo(u, order) /\ Gathered(order) = u[Len(order)]
<1> DEFINE n == Len(Batch)
           m == Len(order)
           X == Seq(1 .. n)
           stay == Filtered(n, DOMAIN Batch \ Moved)
           go == [k \in 1 .. m |-> Filtered(n, {i \in Moved : Batch[i].rel = order[k]})]
           step == [k \in 1 .. m |-> [t \in X |-> t \o go[k]]]
<1>1. n \in Nat /\ m \in Nat /\ DOMAIN Batch = 1 .. n
  BY BatchOps, RankNumbers
<1>2. ASSUME NEW keep \in SUBSET (1 .. n) PROVE Filtered(n, keep) \in X
  <2> DEFINE R == (1 .. n) \X (1 .. n)
  <2>1. \A a, b \in keep : a < b => <<a, b>> \in R
    OBVIOUS
  <2> HIDE DEF R, n
  <2>2. Lists(Filtered(n, keep), keep, R)
    BY <1>1, <2>1, FilteredLists
  <2> DEFINE w == Filtered(n, keep)
             S == 1 .. n
  <2>3. w \in Seq(keep) /\ keep \subseteq S
    BY <2>2 DEF Lists
  <2> HIDE DEF w, S
  <2>4. w \in Seq(S)
    BY <2>3, WiderSeq
  <2> QED
    BY <2>4 DEF w, S
<1>3. stay \in X /\ \A k \in 1 .. m : go[k] \in X
  <2>1. DOMAIN Batch \ Moved \in SUBSET (1 .. n)
    BY <1>1
  <2>2. \A k \in 1 .. m : {i \in Moved : Batch[i].rel = order[k]} \in SUBSET (1 .. n)
    BY <1>1, MovedAreRenamed
  <2> HIDE DEF X, n, m
  <2> QED
    BY <1>2, <2>1, <2>2
<1>4. \A k \in 1 .. m : go[k] = Filtered(n, {i \in Moved : Batch[i].rel = order[k]})
  OBVIOUS
<1> HIDE DEF stay, go, m, n
<1>5. \A k \in 1 .. m : \A t \in X : t \o go[k] \in X
  BY <1>3, ConcatProperties
<1>6. step \in [1 .. m -> [X -> X]]
  BY <1>5
<1>7. \A k \in 1 .. m : \A t \in X : step[k][t] = t \o go[k]
  OBVIOUS
<1> HIDE DEF X, step
<1>8. PICK f \in [0 .. m -> X] : Carries(f, m, stay, step)
  BY <1>1, <1>3, <1>6, StepsCompose
<1>9. f = [k \in 0 .. m |-> IF k = 0 THEN stay ELSE f[k - 1] \o go[k]]
  <2> DEFINE body(k) == IF k = 0 THEN stay ELSE f[k - 1] \o go[k]
  <2>1. ASSUME NEW k \in 0 .. m PROVE f[k] = body(k)
    <3>1. CASE k = 0
      BY <1>8, <3>1 DEF Carries
    <3>2. CASE k # 0
      <4>1. k \in 1 .. m /\ k - 1 \in 0 .. m
        BY <1>1, <3>2
      <4>2. f[k - 1] \in X /\ f[k] = step[k][f[k - 1]]
        BY <1>8, <4>1 DEF Carries
      <4> QED
        BY <1>7, <3>2, <4>1, <4>2
    <3> QED
      BY <3>1, <3>2
  <2> HIDE DEF body
  <2>2. f = [k \in 0 .. m |-> body(k)]
    BY <1>8, <2>1
  <2> QED
    BY <2>2 DEF body
<1> DEFINE all[k \in 0 .. Len(order)] ==
      IF k = 0 THEN Filtered(Len(Batch), DOMAIN Batch \ Moved)
      ELSE all[k - 1] \o Filtered(Len(Batch), {i \in Moved : Batch[i].rel = order[k]})
<1>10. f = [k \in 0 .. Len(order) |->
              IF k = 0 THEN Filtered(Len(Batch), DOMAIN Batch \ Moved)
              ELSE f[k - 1] \o Filtered(Len(Batch), {i \in Moved : Batch[i].rel = order[k]})]
  <2>1. \A k \in 0 .. m : k = 0 \/ k \in 1 .. m
    BY <1>1
  <2> HIDE DEF all
  <2>2. \A k \in 0 .. m :
          (IF k = 0 THEN stay ELSE f[k - 1] \o go[k])
            = IF k = 0 THEN stay
              ELSE f[k - 1] \o Filtered(n, {i \in Moved : Batch[i].rel = order[k]})
    BY <1>4, <2>1
  <2>3. f = [k \in 0 .. m |->
               IF k = 0 THEN stay
               ELSE f[k - 1] \o Filtered(n, {i \in Moved : Batch[i].rel = order[k]})]
    BY <1>9, <2>2, Zenon
  <2> QED
    BY <2>3 DEF stay, n, m
<1>11. all = [k \in 0 .. Len(order) |->
                IF k = 0 THEN Filtered(Len(Batch), DOMAIN Batch \ Moved)
                ELSE all[k - 1] \o Filtered(Len(Batch), {i \in Moved : Batch[i].rel = order[k]})]
  BY <1>10
<1>12. Gathered(order) = all[Len(order)]
  BY DEF Gathered
<1> HIDE DEF all
<1>13. GatheredUpTo(all, order)
  <2>1. all[0] = Filtered(Len(Batch), DOMAIN Batch \ Moved)
    BY <1>1, <1>11 DEF m
  <2>2. ASSUME NEW k \in 1 .. Len(order)
        PROVE  all[k] = all[k - 1]
                 \o Filtered(Len(Batch), {i \in Moved : Batch[i].rel = order[k]})
    <3>1. k \in 0 .. Len(order) /\ k # 0
      BY <1>1 DEF m
    <3> QED
      BY <1>11, <3>1
  <2> QED
    BY <2>1, <2>2 DEF GatheredUpTo
<1> QED
  BY <1>12, <1>13

(* Each order of the conflicts gives the list of the places in its order.  *)
LEMMA GatheredLists ==
  ASSUME Observed, NEW order \in SetToSeqs(Conflicts)
  PROVE  Lists(Gathered(order), DOMAIN Batch, GoesBefore(Len(Batch), Batch, Rank(order)))
<1> DEFINE n == Len(Batch)
           m == Len(order)
           path == Rank(order)
           R == GoesBefore(n, Batch, path)
           Mine(k) == {i \in Moved : Batch[i].rel = order[k]}
           Done(k) == (DOMAIN Batch \ Moved) \cup {i \in Moved : path[i] <= k}
           S(u) == {k \in 0 .. m : Lists(u[k], Done(k), R)}
<1>1. PICK u : GatheredUpTo(u, order) /\ Gathered(order) = u[m]
  BY GatheredExists
<1>2. /\ n \in Nat /\ DOMAIN Batch = 1 .. n /\ Moved \subseteq 1 .. n /\ m \in Nat
      /\ Moved = Renamed(Batch)
  BY BatchOps, MovedAreRenamed, RankNumbers
<1>3. /\ \A a \in Moved : path[a] \in 1 .. m /\ order[path[a]] = Batch[a].rel
      /\ \A k, l \in 1 .. m : order[k] = order[l] => k = l
  BY RankNumbers
<1>4. \A a \in Moved : \A k \in 1 .. m : Batch[a].rel = order[k] <=> path[a] = k
  BY <1>3
<1>5. \A a, b \in 1 .. n : <<a, b>> \in R <=> Goes(a, b, Batch, path)
  BY DEF GoesBefore
<1> HIDE DEF n, m, path, R
<1>6. \A a \in Moved : path[a] \in Nat /\ 1 <= path[a] /\ path[a] <= m
  BY <1>2, <1>3
<1>7. 0 \in S(u)
  <2>1. Done(0) = DOMAIN Batch \ Moved
    <3>1. \A a \in Moved : ~(path[a] <= 0)
      BY <1>6
    <3> QED
      BY <3>1, Zenon
  <2>2. \A a, b \in DOMAIN Batch \ Moved : a < b => <<a, b>> \in R
    BY <1>2, <1>5 DEF Goes
  <2>3. DOMAIN Batch \ Moved \in SUBSET (1 .. n)
    BY <1>2
  <2>4. Lists(Filtered(n, DOMAIN Batch \ Moved), DOMAIN Batch \ Moved, R)
    BY <1>2, <2>2, <2>3, FilteredLists
  <2>5. u[0] = Filtered(n, DOMAIN Batch \ Moved)
    BY <1>1 DEF GatheredUpTo, n
  <2>6. 0 \in 0 .. m
    BY <1>2
  <2> HIDE DEF Done
  <2> QED
    BY <2>1, <2>4, <2>5, <2>6
<1>8. ASSUME NEW k \in 1 .. m, k - 1 \in S(u) PROVE k \in S(u)
  <2> HIDE DEF Done
  <2>1. Lists(u[k - 1], Done(k - 1), R) /\ k \in 0 .. m
    BY <1>2, <1>8
  <2>2. \A a \in Mine(k) : a \in Moved /\ path[a] = k
    BY <1>4
  <2>3. Lists(Filtered(n, Mine(k)), Mine(k), R)
    <3>1. Mine(k) \in SUBSET (1 .. n)
      BY <1>2
    <3>2. \A a, b \in Mine(k) : a < b => <<a, b>> \in R
      BY <1>2, <1>5, <2>2 DEF Goes
    <3> HIDE DEF Mine
    <3> QED
      BY <1>2, <3>1, <3>2, FilteredLists
  <2>4. u[k] = u[k - 1] \o Filtered(n, Mine(k))
    BY <1>1 DEF GatheredUpTo, n, m
  <2>5. Done(k) = Done(k - 1) \cup Mine(k)
    <3>1. \A a \in Moved : path[a] <= k <=> (path[a] <= k - 1 \/ path[a] = k)
      BY <1>2, <1>6
    <3>2. \A a \in Moved : a \in Mine(k) <=> path[a] = k
      BY <1>4
    <3>3. Mine(k) \subseteq Moved
      OBVIOUS
    <3> HIDE DEF Mine
    <3> QED
      BY <3>1, <3>2, <3>3, Zenon DEF Done
  <2>6. ASSUME NEW a \in Done(k - 1), NEW b \in Mine(k) PROVE <<a, b>> \in R
    <3>1. b \in Moved /\ path[b] = k /\ a \in 1 .. n /\ b \in 1 .. n
      BY <1>2, <2>2 DEF Done
    <3>2. a \in Moved => path[a] < path[b]
      <4>1. a \in Moved => path[a] <= k - 1 /\ path[a] \in Nat
        BY <1>6 DEF Done
      <4> QED
        BY <1>2, <3>1, <4>1
    <3> QED
      BY <1>2, <1>5, <3>1, <3>2 DEF Goes
  <2> HIDE DEF Mine
  <2>7. Lists(u[k - 1] \o Filtered(n, Mine(k)), Done(k - 1) \cup Mine(k), R)
    BY <2>1, <2>3, <2>6, ListsJoin
  <2> QED
    BY <2>1, <2>4, <2>5, <2>7
<1>9. Done(m) = DOMAIN Batch
  <2>1. \A a \in Moved : path[a] <= m
    BY <1>6
  <2> QED
    BY <1>2, <2>1
<1> HIDE DEF Done
<1>10. Lists(u[m], Done(m), R)
  <2> DEFINE T == S(u)
  <2>1. 0 \in T /\ \A k \in 1 .. m : k - 1 \in T => k \in T
    BY <1>7, <1>8
  <2> HIDE DEF T
  <2>2. 0 .. m \subseteq T
    BY <1>2, <2>1, UpTo
  <2>3. m \in 0 .. m
    BY <1>2
  <2>4. m \in T
    BY <2>2, <2>3
  <2> QED
    BY <2>4 DEF T
<1> QED
  BY <1>1, <1>9, <1>10 DEF R, n, path

(* What Gathered lists is a resolution.                                    *)
LEMMA GatheredResolves ==
  ASSUME Observed, NEW order \in SetToSeqs(Conflicts)
  PROVE  /\ Gathered(order) \in Injection(DOMAIN Batch, DOMAIN Batch)
         /\ IsResolutionOrder(Batch, Gathered(order))
<1> DEFINE n == Len(Batch)
           D == 1 .. n
           s == Gathered(order)
           path == Rank(order)
           R == GoesBefore(n, Batch, path)
<1>1. n \in Nat /\ DOMAIN Batch = D
  BY BatchOps
<1>2. Lists(s, D, R)
  BY <1>1, GatheredLists
<1>3. \A a \in D : <<a, a>> \notin R
  BY <1>1, RankNumbers, BeforeIsTotal
<1> HIDE DEF s, R
<1>4. Len(s) \in Nat /\ s \in [1 .. Len(s) -> D]
  <2>1. s \in Seq(D)
    BY <1>2 DEF Lists
  <2> HIDE DEF D
  <2> QED
    BY <2>1, LenProperties
<1>5. \A i, j \in 1 .. Len(s) : s[i] = s[j] => i = j
  <2> SUFFICES ASSUME NEW i \in 1 .. Len(s), NEW j \in 1 .. Len(s), s[i] = s[j], i # j
               PROVE  FALSE
    OBVIOUS
  <2>1. i < j \/ j < i
    BY <1>4
  <2>2. <<s[i], s[j]>> \in R \/ <<s[j], s[i]>> \in R
    BY <1>2, <2>1 DEF Lists, Ascends
  <2>3. s[i] \in D
    BY <1>4
  <2> QED
    BY <1>3, <2>2, <2>3
<1>6. \A a \in D : \E i \in 1 .. Len(s) : s[i] = a
  BY <1>2 DEF Lists
<1>7. Len(s) = n
  <2> HIDE DEF D
  <2>1. s \in Bijection(1 .. Len(s), D)
    BY <1>4, <1>5, <1>6, Fun_IsInj, Fun_IsSurj DEF Bijection
  <2>2. Cardinality(D) = Len(s)
    BY <1>4, <2>1, FS_CountingElements DEF ExistsBijection
  <2> HIDE DEF n
  <2>3. Cardinality(1 .. n) = n
    BY <1>1, FS_Interval
  <2> QED
    BY <2>2, <2>3 DEF D
<1>8. s \in [D -> D] /\ Ascends(s, n, R)
  BY <1>2, <1>4, <1>7 DEF Lists
<1>9. s \in Injection(D, D)
  <2>1. \A i, j \in D : s[i] = s[j] => i = j
    BY <1>5, <1>7
  <2> HIDE DEF D
  <2> QED
    BY <1>8, <2>1, Fun_IsInj
<1>10. Numbers(path, Batch)
  BY RankNumbers
<1> HIDE DEF n, path
<1>11. IsResolutionOrder(Batch, s)
  BY <1>1, <1>8, <1>10, ListingResolves DEF R
<1> QED
  BY <1>1, <1>9, <1>11 DEF s

(* A resolution takes the paths in the order in which it comes to them.    *)
LEMMA PathsInOrder ==
  ASSUME Observed, NEW perm \in [DOMAIN Batch -> DOMAIN Batch],
         \A a \in DOMAIN Batch : \E i \in DOMAIN Batch : perm[i] = a,
         IsResolutionOrder(Batch, perm)
  PROVE  \E order \in SetToSeqs(Conflicts) :
           \A i, j \in DOMAIN Batch :
             i < j /\ perm[i] \in Moved /\ perm[j] \in Moved
               => Rank(order)[perm[i]] <= Rank(order)[perm[j]]
<1> DEFINE D == DOMAIN Batch
           m == Cardinality(Conflicts)
           Of(r) == {i \in D : perm[i] \in Moved /\ Batch[perm[i]].rel = r}
           first == [r \in Conflicts |-> CHOOSE i \in Of(r) : \A j \in Of(r) : i <= j]
<1>0. \A f, i, j \in D :
        f < i /\ i < j /\ perm[f] \in Moved /\ Batch[perm[f]].rel = Batch[perm[j]].rel
          => Batch[perm[f]].rel = Batch[perm[i]].rel
  BY MovedAreRenamed DEF IsResolutionOrder
<1>1. D \subseteq Nat
  BY BatchOps
<1>2. ASSUME NEW r \in Conflicts
      PROVE  first[r] \in Of(r) /\ \A j \in Of(r) : first[r] <= j
  <2>1. Of(r) # {} /\ Of(r) \subseteq Nat
    <3>1. PICK a \in Moved : Batch[a].rel = r
      BY MovedAreRenamed
    <3>2. PICK i \in D : perm[i] = a
      BY <3>1, MovedAreRenamed
    <3> QED
      BY <1>1, <3>1, <3>2
  <2> HIDE DEF Of
  <2>2. \E i \in Of(r) : \A j \in Of(r) : i <= j
    BY <2>1, Least
  <2> QED
    BY <2>2
<1> HIDE DEF first
<1>3. \A r \in Conflicts : /\ first[r] \in D /\ first[r] \in Nat
                           /\ perm[first[r]] \in Moved /\ Batch[perm[first[r]]].rel = r
  BY <1>1, <1>2
<1>4. m \in Nat /\ ExistsBijection(1 .. m, Conflicts)
  BY ConflictsAreFinite, FS_CardinalityType
<1> HIDE DEF m
<1>5. PICK e \in Bijection(1 .. m, Conflicts) : TRUE
  BY <1>4 DEF ExistsBijection
<1>6. /\ \A k \in 1 .. m : e[k] \in Conflicts
      /\ \A k, l \in 1 .. m : e[k] = e[l] => k = l
  <2> DEFINE M == 1 .. m
  <2> HIDE DEF M
  <2>1. e \in Bijection(M, Conflicts)
    BY DEF M
  <2>2. e \in [M -> Conflicts] /\ \A k, l \in M : e[k] = e[l] => k = l
    BY <2>1, Fun_BijectionProperties
  <2> QED
    BY <2>2 DEF M
<1> DEFINE R == {p \in (1 .. m) \X (1 .. m) : first[e[p[1]]] < first[e[p[2]]]}
<1>7. \A k, l \in 1 .. m : <<k, l>> \in R <=> first[e[k]] < first[e[l]]
  OBVIOUS
<1> HIDE DEF R
<1>8. PICK q \in Injection(1 .. m, 1 .. m) :
        \A k, l \in 1 .. m : k < l => <<q[k], q[l]>> \in R
  <2>1. \A k \in 1 .. m : first[e[k]] \in Nat
    BY <1>3, <1>6
  <2>2. \A k, l \in 1 .. m : first[e[k]] = first[e[l]] => k = l
    BY <1>3, <1>6
  <2>3. \A k \in 1 .. m : <<k, k>> \notin R
    BY <1>7, <2>1
  <2>4. \A a, b, c \in 1 .. m : <<a, b>> \in R /\ <<b, c>> \in R => <<a, c>> \in R
    BY <1>7, <2>1
  <2>5. ASSUME NEW a \in 1 .. m, NEW b \in 1 .. m, a # b
        PROVE  <<a, b>> \in R \/ <<b, a>> \in R
    <3> DEFINE x == first[e[a]]
               y == first[e[b]]
    <3>1. x \in Nat /\ y \in Nat /\ x # y
      BY <2>1, <2>2, <2>5
    <3> HIDE DEF x, y
    <3>2. x < y \/ y < x
      BY <3>1
    <3> QED
      BY <1>7, <3>2 DEF x, y
  <2> QED
    BY <1>4, <2>3, <2>4, <2>5, ListedInOrder
<1>9. q \in [1 .. m -> 1 .. m] /\ \A k, l \in 1 .. m : q[k] = q[l] => k = l
  BY DEF Injection, IsInjective
<1> DEFINE order == [k \in 1 .. m |-> e[q[k]]]
<1>10. order \in SetToSeqs(Conflicts)
  <2>1. order \in [1 .. m -> Conflicts]
    BY <1>6, <1>9
  <2>2. \A k, l \in 1 .. m : k # l => order[k] # order[l]
    BY <1>6, <1>9
  <2> HIDE DEF order
  <2> QED
    BY <2>1, <2>2 DEF SetToSeqs, m
<1>11. DOMAIN order = 1 .. m
  OBVIOUS
<1>12. \A k, l \in 1 .. m : k < l => first[order[k]] < first[order[l]]
  BY <1>7, <1>8, <1>9
<1> HIDE DEF order
<1>13. /\ Len(order) \in Nat /\ 1 .. Len(order) = 1 .. m
       /\ \A a \in Moved : /\ Rank(order)[a] \in 1 .. m
                           /\ order[Rank(order)[a]] = Batch[a].rel
  BY <1>10, <1>11, RankNumbers
<1>14. ASSUME NEW i \in D, NEW j \in D, i < j, perm[i] \in Moved, perm[j] \in Moved
       PROVE  Rank(order)[perm[i]] <= Rank(order)[perm[j]]
  <2> DEFINE k == Rank(order)[perm[i]]
             l == Rank(order)[perm[j]]
             r == Batch[perm[j]].rel
  <2>1. k \in 1 .. m /\ l \in 1 .. m /\ order[k] = Batch[perm[i]].rel /\ order[l] = r
    BY <1>13, <1>14
  <2>2. r \in Conflicts /\ Batch[perm[i]].rel \in Conflicts
    BY <1>14, MovedAreRenamed
  <2>3. SUFFICES ASSUME l < k PROVE FALSE
    <3> HIDE DEF k, l
    <3>1. k \in Int /\ l \in Int
      BY <2>1
    <3>2. k <= l
      BY <2>3, <3>1
    <3> QED
      BY <3>2 DEF k, l
  <2>4. first[r] < first[Batch[perm[i]].rel]
    BY <1>12, <2>1, <2>3
  <2>5. first[Batch[perm[i]].rel] <= i
    BY <1>2, <1>14, <2>2
  <2> DEFINE x == first[r]
             y == first[Batch[perm[i]].rel]
  <2>6. x \in Nat /\ y \in Nat /\ i \in Nat /\ x < y /\ y <= i
    BY <1>1, <1>3, <2>2, <2>4, <2>5
  <2>7. x \in D /\ perm[x] \in Moved /\ Batch[perm[x]].rel = r
    BY <1>3, <2>2
  <2> HIDE DEF k, l, x, y
  <2>8. x < i
    BY <2>6
  <2>9. Batch[perm[x]].rel = Batch[perm[i]].rel
    BY <1>0, <1>14, <2>7, <2>8
  <2>10. y = x
    BY <2>7, <2>9 DEF x, y
  <2> QED
    BY <2>6, <2>10
<1> QED
  BY <1>10, <1>14

(* A resolution is a list of the places in the order of its paths.         *)
LEMMA ResolutionIsGathered ==
  ASSUME Observed, NEW perm \in Injection(DOMAIN Batch, DOMAIN Batch),
         IsResolutionOrder(Batch, perm)
  PROVE  \E order \in SetToSeqs(Conflicts) : perm = Gathered(order)
<1> DEFINE n == Len(Batch)
           D == 1 .. n
<1>1. n \in Nat /\ DOMAIN Batch = D
  BY BatchOps
<1>2. /\ perm \in [D -> D]
      /\ \A a \in D : \E i \in D : perm[i] = a
      /\ \A i, j \in D : perm[i] = perm[j] => i = j
  <2> HIDE DEF n
  <2>1. perm \in Bijection(1 .. n, 1 .. n)
    BY <1>1, InjectionIsOnto
  <2> HIDE DEF D
  <2>2. perm \in Bijection(D, D)
    BY <2>1 DEF D
  <2> QED
    BY <2>2, Fun_BijectionProperties
<1>3. PICK order \in SetToSeqs(Conflicts) :
        \A i, j \in D :
          i < j /\ perm[i] \in Moved /\ perm[j] \in Moved
            => Rank(order)[perm[i]] <= Rank(order)[perm[j]]
  <2> HIDE DEF D
  <2> QED
    BY <1>1, <1>2, PathsInOrder
<1> DEFINE path == Rank(order)
           R == GoesBefore(n, Batch, path)
<1>4. /\ \A a \in Moved : path[a] \in Nat
      /\ \A a, b \in Moved : path[a] = path[b] => Batch[a].rel = Batch[b].rel
      /\ Numbers(path, Batch)
  BY RankNumbers, MovedAreRenamed DEF Numbers
<1>5. /\ \A a, b \in D : <<a, b>> \in R <=> Goes(a, b, Batch, path)
      /\ IsStrict(R, D)
  <2>1. \A a, b \in D : <<a, b>> \in R <=> Goes(a, b, Batch, path)
    BY DEF GoesBefore
  <2> HIDE DEF path, n
  <2>2. /\ \A a \in D : <<a, a>> \notin R
        /\ \A a, b, c \in D : <<a, b>> \in R /\ <<b, c>> \in R => <<a, c>> \in R
    BY <1>1, <1>4, BeforeIsTotal
  <2> QED
    BY <2>1, <2>2 DEF IsStrict
<1>6. /\ \A i, j \in D : i < j /\ perm[i] \in Moved => perm[j] \in Moved
      /\ \A i, j \in D :
           /\ i < j
           /\ \/ perm[j] \notin Moved
              \/ perm[i] \in Moved /\ Batch[perm[i]].rel = Batch[perm[j]].rel
           => perm[i] < perm[j]
  BY <1>1, MovedAreRenamed DEF IsResolutionOrder
<1> HIDE DEF R, path, n, D
<1>7. ASSUME NEW i \in D, NEW j \in D, i < j PROVE <<perm[i], perm[j]>> \in R
  <2> DEFINE a == perm[i]
             b == perm[j]
  <2>1. a \in D /\ b \in D
    BY <1>2
  <2>2. CASE b \notin Moved
    <3>1. a \notin Moved /\ a < b
      BY <1>6, <1>7, <2>2
    <3>2. Goes(a, b, Batch, path)
      BY <2>2, <3>1, MovedAreRenamed DEF Goes
    <3> QED
      BY <1>5, <2>1, <3>2
  <2>3. CASE b \in Moved /\ a \notin Moved
    <3>1. Goes(a, b, Batch, path)
      BY <2>3, MovedAreRenamed DEF Goes
    <3> QED
      BY <1>5, <2>1, <3>1
  <2>4. CASE b \in Moved /\ a \in Moved
    <3>1. path[a] <= path[b] /\ path[a] \in Nat /\ path[b] \in Nat
      BY <1>3, <1>4, <1>7, <2>4 DEF path
    <3>2. path[a] = path[b] => a < b
      BY <1>4, <1>6, <1>7, <2>4
    <3>0. b \in Renamed(Batch)
      BY <2>4, MovedAreRenamed
    <3> DEFINE x == path[a]
               y == path[b]
    <3> HIDE DEF a, b, x, y
    <3>3. x < y \/ x = y
      BY <3>1 DEF x, y
    <3>4. Goes(a, b, Batch, path)
      BY <3>0, <3>2, <3>3, Zenon DEF Goes, x, y
    <3> QED
      BY <1>5, <2>1, <3>4 DEF a, b
  <2> QED
    BY <2>2, <2>3, <2>4
<1>8. Lists(perm, D, R)
  <2>1. perm \in Seq(D) /\ Len(perm) = n
    BY <1>1, <1>2 DEF D
  <2> QED
    BY <1>2, <1>7, <2>1 DEF Lists, Ascends, D
<1>9. Lists(Gathered(order), D, R)
  BY <1>1, GatheredLists DEF R, n, path
<1>10. perm = Gathered(order)
  BY <1>5, <1>8, <1>9, ListedOnce
<1> QED
  BY <1>10

(* The two accounts of resolve() agree on every batch: the permutation     *)
(* Operations.tla gives and the filter and extend of conflict.rs:77.       *)
THEOREM ResolvingIsReference == Spec => []ResolveIsReference
<1> DEFINE Entry(i) == IF i \in Moved THEN KeepBoth(Batch[i], Stamp) ELSE Batch[i]
<1>1. ASSUME Observed PROVE ResolveIsReference
  <2> DEFINE D == DOMAIN Batch
             perms == {p \in Injection(D, D) : IsResolutionOrder(Batch, p)}
             lists == {Gathered(order) : order \in SetToSeqs(Conflicts)}
  <2>1. perms = lists
    <3>1. ASSUME NEW p \in perms PROVE p \in lists
      BY <1>1, ResolutionIsGathered
    <3>2. ASSUME NEW order \in SetToSeqs(Conflicts) PROVE Gathered(order) \in perms
      BY <1>1, GatheredResolves
    <3> HIDE DEF perms
    <3> QED
      BY <3>1, <3>2
  <2>2. \A p \in perms : DOMAIN p = D
    BY DEF Injection
  <2>3. Resolve(Batch, Stamp) = {[i \in D |-> Entry(p[i])] : p \in perms}
    BY MovedAreRenamed DEF Resolve
  <2>4. Reference = {[j \in DOMAIN p |-> Entry(p[j])] : p \in lists}
    BY DEF Reference
  <2> HIDE DEF perms, lists, D, Entry
  <2>5. {[i \in D |-> Entry(p[i])] : p \in perms} = {[j \in DOMAIN p |-> Entry(p[j])] : p \in perms}
    BY <2>2
  <2> QED
    BY <2>1, <2>3, <2>4, <2>5 DEF ResolveIsReference
<1>2. Observed => ResolveIsReference
  BY <1>1
<1> QED
  BY <1>2, ObservedAlways, PTL

=============================================================================
