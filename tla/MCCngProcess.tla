---------------------------- MODULE MCCngProcess ----------------------------
(* A small instance of CngProcess for TLC. *)
EXTENDS CngProcess

MCPrivateKey == <<"private key 1", "private key 2">>
MCKeyObj == 1..6
MCHandle == 1..8

(* Objects and handles are interchangeable: the lowest free ones are taken. *)
FirstFit ==
  /\ \A k \in live' \ live, j \in KeyObj \ (live \cup live') : k < j
  /\ \A h, g \in Handle : names[h] = 0 /\ names'[h] # 0 /\ names[g] = 0 /\ names'[g] = 0 => h < g

(* Nothing is promised after a stray free. *)
BeforeStray == ~stray
=============================================================================
