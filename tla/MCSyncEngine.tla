---------------------------- MODULE MCSyncEngine ----------------------------
(***************************************************************************)
(* Instances of SyncEngine for TLC.  Names are model values; a conflict    *)
(* copy is named by the pair of the name and the stamp.                    *)
(***************************************************************************)
EXTENDS SyncEngineInvariant

CONSTANTS d, f, g

MCCopyName(n, s) == <<n, s>>
MCNames == {d, f, g} \cup ({d, f, g} \X (1 .. 3))

(* A folder with a file in it; the same and a path to move the file to; a  *)
(* file; a folder next to a file; a file in a folder in a folder; the      *)
(* excluded folder with a file in it.                                      *)
TreeRels  == {<<d>>, <<d, f>>}
MoveRels  == {<<d>>, <<d, f>>, <<f>>}
FlatRels  == {<<f>>}
MixedRels == {<<d>>, <<f>>}
DeepRels  == {<<d>>, <<d, g>>, <<d, g, f>>}
GreyRels  == {<<g>>, <<g, f>>}
NoRels    == {}

FolderD     == {<<d>>}
DeepFolders == {<<d>>, <<d, g>>, <<g>>}

(* What the proof of LocalRemembered takes for granted of the paths.       *)
ASSUME MCPathsAssumption == PathsKeepKind

=============================================================================
