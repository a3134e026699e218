---------------------------- MODULE MCTasslPeer -----------------------------
(* An instance of TasslPeer for TLC. *)
EXTENDS TasslPeer
CONSTANTS s1, s2
MCBufferLength == 1..3
MCSubject == {s1, s2}
=============================================================================
