-------------------------- MODULE MCRemoteWatcher --------------------------
(***************************************************************************)
(* A folder with one file, and one file at the top.                        *)
(***************************************************************************)
EXTENDS RemoteWatcher

CONSTANTS d, f, g

MCNodes    == {d, f, g}
MCFolders  == {d}
MCParentOf == (d :> Top) @@ (f :> d) @@ (g :> Top)

(* Only the folder and the file in it. *)
FewNodes    == {d, f}
FewParentOf == (d :> Top) @@ (f :> d)
=============================================================================
