----------------------------- MODULE MCSession -----------------------------
(***************************************************************************)
(* Two accounts, of which the second may be typed after the first failed;  *)
(* three slots: a pair of tokens that must fit together, the session uid   *)
(* with them, and the key passphrase.                                      *)
(***************************************************************************)
EXTENDS Session, TLC

CONSTANTS a1, a2

MCAccounts == {a1, a2}
Interchangeable == Permutations(MCAccounts)
=============================================================================
