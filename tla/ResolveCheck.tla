---------------------------- MODULE ResolveCheck ----------------------------
(***************************************************************************)
(* Batches grow one observation at a time; in every state the operations   *)
(* of Operations.tla are compared with what conflict.rs says in other      *)
(* words: filter the batch, then append the renamed uploads path by path.  *)
(***************************************************************************)
EXTENDS Operations, SequencesExt

CONSTANTS
  LocalChanges, RemoteChanges,  \* the observations a batch may hold
  MaxBatch                      \* bound on their number

ASSUME ResolveAssumption ==
  LocalChanges \subseteq LocalChange /\ RemoteChanges \subseteq RemoteChange

VARIABLES local, remote

Init == local = <<>> /\ remote = <<>>

Observe ==
  /\ Len(local) + Len(remote) < MaxBatch
  /\ \/ \E c \in LocalChanges : local' = Append(local, c) /\ UNCHANGED remote
     \/ \E e \in RemoteChanges : remote' = Append(remote, e) /\ UNCHANGED local

(* The agent takes the buffer. *)
Take ==
  /\ local # <<>> \/ remote # <<>>
  /\ local' = <<>> /\ remote' = <<>>

Next == Observe \/ Take
Spec == Init /\ [][Next]_<<local, remote>>

Batch == Reconcile(local, remote)
Stamp == 1

-----------------------------------------------------------------------------
RelsOf(ops, Test(_)) == {ops[i].rel : i \in {j \in DOMAIN ops : Test(ops[j])}}

Conflicts == RelsOf(Batch, IsUpload) \cap RelsOf(Batch, IsDownload)

Moved == {i \in DOMAIN Batch : IsUpload(Batch[i]) /\ Batch[i].rel \in Conflicts}

(* The places up to n that are in keep, one after the other.               *)
Filtered(n, keep) ==
  LET upto[i \in 0 .. n] ==
        IF i = 0 THEN <<>>
        ELSE IF i \in keep THEN Append(upto[i - 1], i) ELSE upto[i - 1]
  IN  upto[n]

(* The places that stay, then path by path those that move.                *)
Gathered(order) ==
  LET upto[k \in 0 .. Len(order)] ==
        IF k = 0 THEN Filtered(Len(Batch), DOMAIN Batch \ Moved)
        ELSE upto[k - 1]
               \o Filtered(Len(Batch), {i \in Moved : Batch[i].rel = order[k]})
  IN  upto[Len(order)]

Reference ==
  {[j \in DOMAIN places |->
      IF places[j] \in Moved THEN KeepBoth(Batch[places[j]], Stamp)
                             ELSE Batch[places[j]]] :
     places \in {Gathered(order) : order \in SetToSeqs(Conflicts)}}

(* resolve() drops the colliding uploads from the list and extends it with *)
(* their renamed forms, one path after the other in any order.             *)
ResolveIsReference == Resolve(Batch, Stamp) = Reference

(* After resolve() no path is both uploaded and downloaded.                *)
ConflictFree ==
  \A out \in Resolve(Batch, Stamp) :
    RelsOf(out, IsUpload) \cap RelsOf(out, IsDownload) = {}

(* Every upload the watcher asked for is still there, of the same local    *)
(* file, and every file the drive reported outside the excluded top-level  *)
(* folders, also below one of another parent with such a name, is still    *)
(* downloaded under its own path.                                          *)
NothingLost ==
  \A out \in Resolve(Batch, Stamp) :
    /\ \A path \in LocalRels :
         Cardinality({i \in DOMAIN out : IsUpload(out[i]) /\ out[i].path = path})
           = Cardinality({i \in DOMAIN local :
                            /\ local[i].kind = "Upsert" /\ ~local[i].folder
                            /\ local[i].rel = path})
    /\ \A i \in DOMAIN remote :
         remote[i].rel[1] \notin Excluded
           => \E j \in DOMAIN out : /\ IsPlaceholder(out[j])
                                    /\ out[j].rel = remote[i].rel
                                    /\ out[j].link = remote[i].link

=============================================================================
