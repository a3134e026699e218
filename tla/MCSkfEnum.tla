----------------------------- MODULE MCSkfEnum -----------------------------
(* Instances of SkfEnum for TLC. *)
EXTENDS SkfEnum
MCDevice == 1..2
=============================================================================
