----------------------------- MODULE MCCngStore -----------------------------
(* Small instances of CngStore for TLC. *)
EXTENDS CngStore, TLC

Symmetry == Permutations(Loader) \cup Permutations(KeyObj) \cup Permutations(Handle)

(* Nothing is promised after a stray free, so states past one are not expanded. *)
BeforeStray == ~stray
=============================================================================
