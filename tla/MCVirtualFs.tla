---------------------------- MODULE MCVirtualFs ----------------------------
(***************************************************************************)
(* Two files that are reported at one path, one after the other; the first *)
(* is renamed to another path and back.                                    *)
(***************************************************************************)
EXTENDS VirtualFsInvariant

CONSTANTS Top, F, G, f, g

Place(link, rel) == [link |-> link, rel |-> rel, parent |-> Top, folder |-> FALSE]

MCPlaces == {Place(F, <<f>>), Place(G, <<f>>), Place(F, <<g>>)}

(* One file. *)
OneFile == {Place(F, <<f>>)}
=============================================================================
