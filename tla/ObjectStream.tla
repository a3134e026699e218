---------------------------- MODULE ObjectStream ----------------------------
(***************************************************************************)
(* What one loader context of the CNG store promises to the OpenSSL core:  *)
(* every certificate of the system store once, in store order, then the    *)
(* private key of every certificate that has one once, in store order, and *)
(* the end-of-file answer exactly when nothing is left.                    *)
(*                                                                         *)
(* Objects are named by rank: certificate i has rank i, and the private    *)
(* key of certificate i has rank size + i.                                 *)
(***************************************************************************)
EXTENDS Integers

VARIABLES
  size,     \* number of certificates in the system store
  usable,   \* the certificates whose private key is a CNG key
  active,   \* is the stream open?
  given,    \* rank of the last object handed over, 0 before the first
  gone,     \* certificates whose key could not be acquired this time
  ended,    \* what the end-of-file query answers
  broken    \* a stray free has hit an open handle: nothing is promised

vars == <<size, usable, active, given, gone, ended, broken>>

(* Rank r still stands for something that can be handed over. *)
Deliverable(r, lost) == r \in 1..size \/ (r - size) \in usable \ lost

NothingAfter(r, lost) == \A q \in r + 1 .. 2 * size : ~Deliverable(q, lost)

Init == /\ active = FALSE
        /\ given = 0
        /\ gone = {}
        /\ ended = FALSE
        /\ broken = FALSE

Start == /\ ~active
         /\ active' = TRUE
         /\ given' = 0
         /\ gone' \in SUBSET (1..size)
         /\ ended' = NothingAfter(0, gone')

(* Exactly the next object is handed over; keys further on may turn out to *)
(* be unobtainable meanwhile, never one that was passed already.           *)
Give == /\ active /\ ~ended
        /\ given' \in given + 1 .. 2 * size
        /\ Deliverable(given', gone)
        /\ \A q \in given + 1 .. given' - 1 : ~Deliverable(q, gone)
        /\ gone' \in SUBSET (1..size) /\ gone \subseteq gone'
        /\ \A i \in gone' \ gone : size + i > given'
        /\ ended' = NothingAfter(given', gone')
        /\ UNCHANGED active

Stop == /\ active
        /\ active' = FALSE
        /\ given' = 0
        /\ gone' = {}
        /\ ended' = FALSE

Next == \/ /\ Start \/ Give \/ Stop
           /\ UNCHANGED <<size, usable, broken>>
        \/ broken'

Spec == Init /\ [][Next]_vars
=============================================================================
