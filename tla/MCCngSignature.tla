--------------------------- MODULE MCCngSignature ---------------------------
(* Small instances of CngSignature for TLC. *)
EXTENDS CngSignature, TLC

Symmetry == Permutations(Ctx) \cup Permutations(Hash) \cup Permutations(KeyObj)
            \cup Permutations(PrivKey) \cup Permutations(Block) \cup Permutations(Alg)
=============================================================================
