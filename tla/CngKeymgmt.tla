----------------------------- MODULE CngKeymgmt -----------------------------
(***************************************************************************)
(* What the KEYMGMT half of the CNG provider tells about a key             *)
(* (keymgmt/cng_keymgmt_functions.c): its parameters, and its public part  *)
(* exported through a callback, with the buffers that takes.  Making,      *)
(* duplicating and freeing key objects is in CngStore.                     *)
(*                                                                         *)
(* A public blob holds the exponent and the modulus most significant byte  *)
(* first; OpenSSL wants them least significant byte first.                 *)
(***************************************************************************)
EXTENDS Integers, Sequences, SequencesExt

CONSTANTS
  Base,       \* the number of values of a byte
  MaxBytes,   \* bound on the length of each number in the blob
  Bits,       \* lengths a modulus can have, in bits
  MaxCalls    \* bound on the number of calls

ASSUME KeymgmtAssumption ==
  /\ MaxBytes \in Nat \ {0} /\ MaxCalls \in Nat
  /\ Bits \subseteq Nat
  /\ Base \in Nat /\ Base > 1

VARIABLES
  public_exp, modulus,   \* the two numbers of the key's public blob
  key_length,            \* length of the modulus, in bits
  heap,                  \* buffers allocated: how many of each kind
  returned,              \* what the last call returned
  params,                \* what the last call passed to the callback or the caller
  calls                  \* history: number of calls so far

keyvars == <<public_exp, modulus, key_length, heap, returned, params, calls>>

Byte == 0..Base - 1
Number == UNION {[1..n -> Byte] : n \in 1..MaxBytes}
Selection == SUBSET {"private", "public", "domain", "other"}
Buffer == {"public_blob", "public_exp", "modulus"}
Nothing == <<>>

KeymgmtInit ==
  /\ public_exp \in Number /\ modulus \in Number
  /\ key_length \in Bits
  /\ heap = [b \in Buffer |-> 0]
  /\ returned = 0 /\ params = Nothing /\ calls = 0

(* Faulty: the copy starts one byte after the last. *)
ReverseOffByOne(buffer) ==
  [i \in 1..Len(buffer) |-> IF i = 1 THEN 0 ELSE buffer[Len(buffer) - i + 2]]

(* duplicate_buffer_in_reverse *)
ReverseBuffer(buffer) == [i \in 1..Len(buffer) |-> buffer[Len(buffer) - i + 1]]

(* Faulty: the thresholds are those of the symmetric strengths they stand for. *)
StrengthRoundedUp(rsa_modulus_bits) ==
  CASE rsa_modulus_bits > 7680 -> 256
    [] rsa_modulus_bits > 3072 -> 192
    [] rsa_modulus_bits > 2048 -> 128
    [] rsa_modulus_bits > 1024 -> 112
    [] OTHER -> 0

rsaModulusSizeToStrengthBits(rsa_modulus_bits) ==
  CASE rsa_modulus_bits > 15360 -> 256
    [] rsa_modulus_bits > 7680 -> 192
    [] rsa_modulus_bits > 3072 -> 128
    [] rsa_modulus_bits > 2048 -> 112
    [] rsa_modulus_bits > 1024 -> 80
    [] OTHER -> 0

(* cng_keymgmt_get_params: constants but for the strength, which needs the *)
(* length of the key.                                                      *)
GetParams ==
  /\ calls < MaxCalls /\ calls' = calls + 1
  /\ \/ /\ returned' = 0 /\ params' = Nothing
     \/ /\ returned' = 1
        /\ params' = <<[bits |-> 512, max_size |-> 4096,
                        security_bits |-> rsaModulusSizeToStrengthBits(key_length)]>>
  /\ UNCHANGED <<public_exp, modulus, key_length, heap>>

Refuse ==
  /\ returned' = 0 /\ params' = Nothing
  /\ UNCHANGED heap

(* Faulty: the first copy is not freed when the second fails. *)
WayOutLeaking ==
  {[had |-> {}, freed |-> {}],
   [had |-> {"public_blob"}, freed |-> {"public_blob"}],
   [had |-> {"public_blob", "public_exp"}, freed |-> {"public_blob"}]}

(* Where the public part may turn out not to be had, with what was         *)
(* allocated by then and what is freed: no blob or no memory for it; no    *)
(* content, or no memory for the first copy; none for the second.          *)
WayOut ==
  {[had |-> {}, freed |-> {}],
   [had |-> {"public_blob"}, freed |-> {"public_blob"}],
   [had |-> {"public_blob", "public_exp"}, freed |-> {"public_blob", "public_exp"}]}

ExportFails(selection) ==
  /\ "public" \in selection
  /\ returned' = 0 /\ params' = Nothing
  /\ \E out \in WayOut :
       heap' = [b \in Buffer |-> heap[b] + (IF b \in out.had \ out.freed THEN 1 ELSE 0)]

(* The callback gets both numbers, and what it answers is returned.  None  *)
(* of the three buffers is freed.                                          *)
ExportPublic(selection) ==
  /\ "public" \in selection
  /\ heap' = [b \in Buffer |-> heap[b] + 1]
  /\ params' = <<[e |-> ReverseBuffer(public_exp), n |-> ReverseBuffer(modulus)]>>
  /\ returned' \in {0, 1}

(* Without a public part there is nothing to give, and any other part      *)
(* asked for makes it an error.                                            *)
ExportNothing(selection) ==
  /\ "public" \notin selection
  /\ IF selection = {}
     THEN returned' \in {0, 1} /\ params' = Nothing /\ UNCHANGED heap
     ELSE Refuse

(* cng_keymgmt_export *)
Export(selection) ==
  /\ calls < MaxCalls /\ calls' = calls + 1
  /\ IF "private" \in selection
     THEN Refuse
     ELSE ExportFails(selection) \/ ExportPublic(selection) \/ ExportNothing(selection)
  /\ UNCHANGED <<public_exp, modulus, key_length>>

KeymgmtNext == GetParams \/ \E selection \in Selection : Export(selection)

KeymgmtSpec == KeymgmtInit /\ [][KeymgmtNext]_keyvars
-----------------------------------------------------------------------------
(* The number a sequence of bytes stands for, either way round. *)
BigEndian(bytes) == FoldLeft(LAMBDA value, b : value * Base + b, 0, bytes)
LittleEndian(bytes) == FoldRight(LAMBDA b, value : value * Base + b, bytes, 0)

(* SP 800-57 part 1, table 2: the least modulus for each strength. *)
Comparable == {<<1024, 80>>, <<2048, 112>>, <<3072, 128>>, <<7680, 192>>, <<15360, 256>>}
SP80057(bits) == Max({0} \cup {row[2] : row \in {r \in Comparable : r[1] <= bits}})

(* What OpenSSL imports from an exported key are the numbers Windows keeps, *)
(* leading and trailing zero bytes included.                               *)
ExportedNumbersAgree ==
  [][params' # Nothing /\ "e" \in DOMAIN params'[1] =>
       /\ LittleEndian(params'[1].e) = BigEndian(public_exp)
       /\ LittleEndian(params'[1].n) = BigEndian(modulus)]_keyvars

(* The security bits of a key are never more than SP 800-57 grants it, so  *)
(* OpenSSL's security level never lets a weaker key pass.                  *)
StrengthNeverOverstated ==
  [][params' # Nothing /\ "security_bits" \in DOMAIN params'[1] =>
       params'[1].security_bits <= SP80057(key_length)]_keyvars

(* A call that gives nothing keeps nothing: every early return frees what  *)
(* was allocated before it.                                                *)
FailuresLeakNothing == [][params' = Nothing => heap' = heap]_keyvars

(* "Return bits of security as defined in SP800-57 ... or 0 when unknown", *)
(* the comment of rsaModulusSizeToStrengthBits: a strength other than 0 is *)
(* that of the table.                                                      *)
StrengthIsSP80057 ==
  [][params' # Nothing /\ "security_bits" \in DOMAIN params'[1] =>
       params'[1].security_bits \in {0, SP80057(key_length)}]_keyvars
=============================================================================
