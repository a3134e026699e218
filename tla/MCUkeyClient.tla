---------------------------- MODULE MCUkeyClient ----------------------------
(* Small instances of UkeyClient for TLC. *)
EXTENDS UkeyClient, TLC

Symmetry == Permutations(Token)
=============================================================================
