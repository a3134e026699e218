---------------------------- MODULE MCCngKeymgmt ----------------------------
(* Small instances of CngKeymgmt for TLC. *)
EXTENDS CngKeymgmt

(* Both sides of every threshold, and the usual sizes. *)
MCBits == UNION {{n - 1, n, n + 1} : n \in {1024, 2048, 3072, 7680, 15360}} \cup {512, 4096}
=============================================================================
