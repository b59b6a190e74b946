---------------------------- MODULE MCSyncPanel ----------------------------
(***************************************************************************)
(* One file to queue, and channels that overflow at once.                  *)
(***************************************************************************)
EXTENDS SyncPanel

CONSTANT f

OneFile == {f}
=============================================================================
