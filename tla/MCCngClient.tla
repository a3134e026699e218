---------------------------- MODULE MCCngClient ----------------------------
(* Small instances of CngClient for TLC. *)
EXTENDS CngClient
=============================================================================
