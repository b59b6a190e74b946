---------------------------- MODULE MCDaemonRpc ----------------------------
(***************************************************************************)
(* Clients are interchangeable; two folders tell a chosen one from the     *)
(* default.                                                                *)
(***************************************************************************)
EXTENDS DaemonRpc

CONSTANTS c1, c2, home, other

MCClients == {c1, c2}
MCRoots   == {home, other}
=============================================================================
