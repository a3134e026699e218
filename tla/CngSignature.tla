---------------------------- MODULE CngSignature ----------------------------
(***************************************************************************)
(* The SIGNATURE half of the CNG provider                                  *)
(* (signature/cng_signature_functions.c): contexts that hash a transcript  *)
(* with BCrypt and sign the digest with an NCrypt key, forked by dupctx.   *)
(*                                                                         *)
(* The core initialises a context once, with a key it keeps alive by       *)
(* reference counting, and then sets parameters, feeds data, asks for the  *)
(* size, signs, duplicates and frees in any order; EVP_DigestSignFinal     *)
(* signs on a duplicate, and on the original when duplicating fails.       *)
(* BCrypt and NCrypt are external: every call may fail, and a hash that    *)
(* was finished takes no more data and cannot be finished again.           *)
(***************************************************************************)
EXTENDS Naturals, Sequences, FiniteSets

CONSTANTS
  Ctx,      \* T_CNG_SIGNATURE_CTX blocks the heap can hold
  NoCtx,
  Hash,     \* BCRYPT_HASH_HANDLE values
  NoHash,   \* NULL
  KeyObj,   \* T_CNG_KEYMGMT_KEYDATA blocks the heap can hold
  NoKey,    \* NULL
  PrivKey,  \* private keys in the Windows key store
  Block,    \* pieces of data to be signed
  Alg,      \* digests cng_signature_digest_sign_init knows
  NoAlg,    \* a digest it does not know; NULL
  Pad,      \* padding parameters the core sends, of those listed in PadParam
  Salt,     \* salt parameters the core sends, of those listed in SaltParam
  MaxFed    \* bound on the number of blocks fed to one hash

(* A padding may come as an integer or as a string; a salt as a length, as  *)
(* the string "digest", whose length may not be known, or as a string the   *)
(* code refuses.                                                            *)
PadParam == {"absent", "int pss", "int pkcs1", "str pss", "str pkcs1", "unknown"}
SaltParam == {"absent", "int", "str digest", "no digest length", "unknown"}

ASSUME SignatureAssumption ==
  /\ NoCtx \notin Ctx /\ NoHash \notin Hash /\ NoKey \notin KeyObj /\ NoAlg \notin Alg
  /\ {"free", "void"} \cap PrivKey = {}
  /\ Pad \subseteq PadParam /\ Salt \subseteq SaltParam
  /\ MaxFed \in Nat
  /\ IsFiniteSet(Ctx) /\ IsFiniteSet(Hash)

VARIABLES
  stage,            \* "free", "new", "ready", "failed", or "lost": allocated and unreachable
  hash_handle,
  alg_identifier,
  key,              \* sig_ctx->key
  sign_hash_flags,
  pss_salt_len,     \* 0 (NoSalt), "explicit", or the digest whose length it is
  hash,             \* of each handle: closed, open or finished, with its digest and data
  keydata,          \* of each block: "free", "void" (leaked without a handle) or its key
  held,             \* key objects the core owns
  pkey,             \* the core's key each context was initialised for
  fed,              \* history: what was fed to the context and its ancestors
  asked,            \* history: digest, key, and last padding of an accepted call
  consumed,         \* history: contexts whose transcript a final call has used up
  signature         \* what the last call wrote to sig, and from which context

ctx_fields == <<hash_handle, alg_identifier, key, sign_hash_flags, pss_salt_len>>
core == <<held, pkey, fed, asked, consumed>>
vars == <<stage, ctx_fields, hash, keydata, core, signature>>

Live == {c \in Ctx : stage[c] \in {"new", "ready", "failed"}}
Closed == [state |-> "closed", alg |-> NoAlg, data |-> <<>>]
ClosedHash == {h \in Hash : hash[h] = Closed}
Free == {c \in Ctx : stage[c] = "free"}
FreeKeyObj == {k \in KeyObj : keydata[k] = "free"}
NoSignature == [ctx |-> NoCtx]
NoSalt == "0"
NotAsked == [alg |-> NoAlg, key |-> "free", pad |-> "none"]

Init ==
  /\ stage = [c \in Ctx |-> "free"]
  /\ hash_handle = [c \in Ctx |-> NoHash]
  /\ alg_identifier = [c \in Ctx |-> NoAlg]
  /\ key = [c \in Ctx |-> NoKey]
  /\ sign_hash_flags = [c \in Ctx |-> "none"]
  /\ pss_salt_len = [c \in Ctx |-> NoSalt]
  /\ hash = [h \in Hash |-> Closed]
  /\ keydata = [k \in KeyObj |-> "free"]
  /\ held = {}
  /\ pkey = [c \in Ctx |-> NoKey]
  /\ fed = [c \in Ctx |-> <<>>]
  /\ asked = [c \in Ctx |-> NotAsked]
  /\ consumed = {}
  /\ signature = NoSignature
-----------------------------------------------------------------------------
(* The core takes a key from a store loader (LoadKey of CngStore). *)
KeyArrives(k, p) ==
  /\ k \in FreeKeyObj
  /\ keydata' = [keydata EXCEPT ![k] = p]
  /\ held' = held \cup {k}
  /\ signature' = NoSignature
  /\ UNCHANGED <<stage, ctx_fields, hash, pkey, fed, asked, consumed>>

(* The core frees a key that none of its contexts refers to any more. *)
KeyFree(k) ==
  /\ k \in held /\ \A c \in Live : pkey[c] # k
  /\ keydata' = [keydata EXCEPT ![k] = "free"]
  /\ held' = held \ {k}
  /\ signature' = NoSignature
  /\ UNCHANGED <<stage, ctx_fields, hash, pkey, fed, asked, consumed>>

(* cng_signature_newctx *)
NewCtx(c) ==
  /\ c \in Free
  /\ stage' = [stage EXCEPT ![c] = "new"]
  /\ hash_handle' = [hash_handle EXCEPT ![c] = NoHash]
  /\ alg_identifier' = [alg_identifier EXCEPT ![c] = NoAlg]
  /\ key' = [key EXCEPT ![c] = NoKey]
  /\ sign_hash_flags' = [sign_hash_flags EXCEPT ![c] = "none"]
  /\ pss_salt_len' = [pss_salt_len EXCEPT ![c] = NoSalt]
  /\ signature' = NoSignature
  /\ UNCHANGED <<hash, keydata, core>>

(* ossl_digest_name_to_bcrypt_digest_name: SHA-256, SHA-384, SHA-512. *)
KnownDigest(md) == md \in Alg

(* Faulty: the name is looked up and not kept. *)
RecordDigestForgets(c, md) == UNCHANGED alg_identifier

RecordDigest(c, md) == alg_identifier' = [alg_identifier EXCEPT ![c] = md]

(* cng_signature_digest_sign_init: an unknown digest, or a BCrypt failure, *)
(* leaves the context without a hash; the core then only frees it.         *)
SignInit(c, md, k) ==
  /\ stage[c] = "new" /\ k \in held
  /\ key' = [key EXCEPT ![c] = k]
  /\ RecordDigest(c, md)
  /\ pkey' = [pkey EXCEPT ![c] = k]
  /\ asked' = [asked EXCEPT ![c] = [alg |-> md, key |-> keydata[k], pad |-> "none"]]
  /\ fed' = [fed EXCEPT ![c] = <<>>]
  /\ \/ /\ KnownDigest(md)
        /\ \E h \in ClosedHash :
             /\ hash_handle' = [hash_handle EXCEPT ![c] = h]
             /\ hash' = [hash EXCEPT ![h] = [state |-> "open", alg |-> md, data |-> <<>>]]
        /\ stage' = [stage EXCEPT ![c] = "ready"]
     \/ /\ stage' = [stage EXCEPT ![c] = "failed"]
        /\ UNCHANGED <<hash_handle, hash>>
  /\ signature' = NoSignature
  /\ UNCHANGED <<sign_hash_flags, pss_salt_len, keydata, held, consumed>>

(* cng_signature_digest_sign_update; a hash that was finished refuses. *)
Update(c, b) ==
  LET h == hash_handle[c] IN
  /\ stage[c] = "ready" /\ hash[h].state = "open" /\ Len(hash[h].data) < MaxFed
  /\ hash' = [hash EXCEPT ![h].data = Append(@, b)]
  /\ fed' = [fed EXCEPT ![c] = Append(@, b)]
  /\ signature' = NoSignature
  /\ UNCHANGED <<stage, ctx_fields, keydata, held, pkey, asked, consumed>>
-----------------------------------------------------------------------------
(* cng_signature_set_ctx_params.  What is set is set, whatever is refused  *)
(* after it in the same call.  The padding may come as an integer or as a  *)
(* string; the string "pss" is accepted and sets nothing.                  *)
PadNamed == [p \in PadParam |->
  IF p \in {"int pss", "str pss"} THEN "pss"
  ELSE IF p \in {"int pkcs1", "str pkcs1"} THEN "pkcs1" ELSE "none"]

FlagsAfter(c, pad) ==
  IF pad \in {"int pss", "int pkcs1", "str pkcs1"} THEN PadNamed[pad] ELSE sign_hash_flags[c]

SaltAfter(c, salt) ==
  CASE salt = "int" -> "explicit"
    [] salt = "str digest" -> hash[hash_handle[c]].alg
    [] salt = "no digest length" -> NoSalt
    [] OTHER -> pss_salt_len[c]

SetParams(c, pad, salt) ==
  /\ stage[c] = "ready"
  /\ sign_hash_flags' = [sign_hash_flags EXCEPT ![c] = FlagsAfter(c, pad)]
  /\ pss_salt_len' = [pss_salt_len EXCEPT ![c] =
                        IF pad = "unknown" THEN @ ELSE SaltAfter(c, salt)]
  /\ asked' = [asked EXCEPT ![c].pad =
                 IF pad \in {"absent", "unknown"} \/ salt \in {"no digest length", "unknown"}
                 THEN @ ELSE PadNamed[pad]]
  /\ signature' = NoSignature
  /\ UNCHANGED <<stage, hash_handle, alg_identifier, key, hash, keydata, held, pkey, fed, consumed>>
-----------------------------------------------------------------------------
(* Faulty: the hash is finished before sig is looked at. *)
FinalSizeFinishes(c) ==
  /\ stage[c] = "ready"
  /\ hash' = [hash EXCEPT ![hash_handle[c]].state = "finished"]
  /\ signature' = NoSignature
  /\ UNCHANGED <<stage, ctx_fields, keydata, core>>

(* cng_signature_digest_sign_final with sig = NULL: only the size. *)
FinalSize(c) ==
  /\ stage[c] = "ready"
  /\ signature' = NoSignature
  /\ UNCHANGED <<stage, ctx_fields, hash, keydata, core>>

(* What NCryptSignHash writes for context c. *)
SignatureOf(c) ==
  [ctx |-> c, alg |-> hash[hash_handle[c]].alg, data |-> hash[hash_handle[c]].data,
   pad_alg |-> alg_identifier[c], pad |-> sign_hash_flags[c],
   salt |-> pss_salt_len[c], key |-> keydata[key[c]]]

(* Faulty: an unset padding is passed on to NCryptSignHash. *)
FinalUnpadded(c) ==
  /\ stage[c] = "ready" /\ hash[hash_handle[c]].state = "open"
  /\ hash' = [hash EXCEPT ![hash_handle[c]].state = "finished"]
  /\ signature' = SignatureOf(c)
  /\ consumed' = consumed \cup {c}
  /\ UNCHANGED <<stage, ctx_fields, keydata, held, pkey, fed, asked>>

(* cng_signature_digest_sign_final.  The hash is finished first: a padding *)
(* that was never set, or a failure to sign, is reported after that.       *)
Final(c) ==
  /\ stage[c] = "ready" /\ hash[hash_handle[c]].state = "open"
  /\ hash' = [hash EXCEPT ![hash_handle[c]].state = "finished"]
  /\ \/ signature' = NoSignature
     \/ /\ sign_hash_flags[c] # "none"
        /\ signature' = SignatureOf(c)
  /\ consumed' = consumed \cup {c}
  /\ UNCHANGED <<stage, ctx_fields, keydata, held, pkey, fed, asked>>
-----------------------------------------------------------------------------
(* What a duplicate takes over besides its hash and its key. *)
CopyFields(c, d) ==
  /\ alg_identifier' = [alg_identifier EXCEPT ![d] = alg_identifier[c]]
  /\ sign_hash_flags' = [sign_hash_flags EXCEPT ![d] = sign_hash_flags[c]]
  /\ pss_salt_len' = [pss_salt_len EXCEPT ![d] = pss_salt_len[c]]
  /\ pkey' = [pkey EXCEPT ![d] = pkey[c]]
  /\ fed' = [fed EXCEPT ![d] = fed[c]]
  /\ asked' = [asked EXCEPT ![d] = asked[c]]
  /\ consumed' = IF c \in consumed THEN consumed \cup {d} ELSE consumed
  /\ signature' = NoSignature

(* Faulty: the hash handle is copied like the other fields. *)
DupCtxSharesHash(c, d) ==
  /\ stage[c] = "ready" /\ d \in Free
  /\ stage' = [stage EXCEPT ![d] = "ready"]
  /\ hash_handle' = [hash_handle EXCEPT ![d] = hash_handle[c]]
  /\ \E k \in FreeKeyObj :
       /\ keydata' = [keydata EXCEPT ![k] = keydata[key[c]]]
       /\ key' = [key EXCEPT ![d] = k]
  /\ CopyFields(c, d)
  /\ UNCHANGED <<hash, held>>

(* cng_signature_dupctx: a hash of its own, a key object of its own. *)
DupCtx(c, d) ==
  /\ stage[c] = "ready" /\ d \in Free
  /\ stage' = [stage EXCEPT ![d] = "ready"]
  /\ \E h \in ClosedHash :
       /\ hash' = [hash EXCEPT ![h] = hash[hash_handle[c]]]
       /\ hash_handle' = [hash_handle EXCEPT ![d] = h]
  /\ \E k \in FreeKeyObj :
       /\ keydata' = [keydata EXCEPT ![k] = keydata[key[c]]]
       /\ key' = [key EXCEPT ![d] = k]
  /\ CopyFields(c, d)
  /\ UNCHANGED held

(* It returns NULL and forgets the new context when the hash cannot be     *)
(* duplicated, and with its hash when the key cannot.                      *)
DupCtxFails(c, d) ==
  /\ stage[c] = "ready" /\ d \in Free
  /\ stage' = [stage EXCEPT ![d] = "lost"]
  /\ \/ UNCHANGED <<hash, keydata>>
     \/ \E h \in ClosedHash, k \in FreeKeyObj :
          /\ hash' = [hash EXCEPT ![h] = hash[hash_handle[c]]]
          /\ keydata' = [keydata EXCEPT ![k] = "void"]
  /\ signature' = NoSignature
  /\ UNCHANGED <<ctx_fields, core>>

(* What is left of a block that was freed is nobody's. *)
Clear(c) ==
  /\ stage' = [stage EXCEPT ![c] = "free"]
  /\ hash_handle' = [hash_handle EXCEPT ![c] = NoHash]
  /\ alg_identifier' = [alg_identifier EXCEPT ![c] = NoAlg]
  /\ key' = [key EXCEPT ![c] = NoKey]
  /\ sign_hash_flags' = [sign_hash_flags EXCEPT ![c] = "none"]
  /\ pss_salt_len' = [pss_salt_len EXCEPT ![c] = NoSalt]
  /\ pkey' = [pkey EXCEPT ![c] = NoKey]
  /\ fed' = [fed EXCEPT ![c] = <<>>]
  /\ asked' = [asked EXCEPT ![c] = NotAsked]
  /\ consumed' = consumed \ {c}
  /\ signature' = NoSignature
  /\ UNCHANGED held

DestroyHash(c) == hash' = [h \in Hash |-> IF h = hash_handle[c] THEN Closed ELSE hash[h]]

(* Faulty: the context's key is freed with it. *)
FreeCtxFreesKey(c) ==
  /\ c \in Live
  /\ DestroyHash(c)
  /\ keydata' = [k \in KeyObj |-> IF k = key[c] THEN "free" ELSE keydata[k]]
  /\ Clear(c)

(* cng_signature_freectx: the hash and the block, not the key. *)
FreeCtx(c) ==
  /\ c \in Live
  /\ DestroyHash(c)
  /\ Clear(c)
  /\ UNCHANGED keydata

Next ==
  \/ \E k \in KeyObj : KeyFree(k) \/ \E p \in PrivKey : KeyArrives(k, p)
  \/ \E c \in Ctx :
       \/ NewCtx(c) \/ FinalSize(c) \/ Final(c) \/ FreeCtx(c)
       \/ \E md \in Alg \cup {NoAlg}, k \in KeyObj : SignInit(c, md, k)
       \/ \E b \in Block : Update(c, b)
       \/ \E pad \in Pad, salt \in Salt : SetParams(c, pad, salt)
       \/ \E d \in Ctx : DupCtx(c, d) \/ DupCtxFails(c, d)

Spec == Init /\ [][Next]_vars
-----------------------------------------------------------------------------
Ready == {c \in Ctx : stage[c] = "ready"}
OpenHash(c) == hash[hash_handle[c]].state = "open"

(* The type of every variable. *)
TypeOK ==
  /\ stage \in [Ctx -> {"free", "new", "ready", "failed", "lost"}]
  /\ hash_handle \in [Ctx -> Hash \cup {NoHash}]
  /\ alg_identifier \in [Ctx -> Alg \cup {NoAlg}]
  /\ key \in [Ctx -> KeyObj \cup {NoKey}]
  /\ sign_hash_flags \in [Ctx -> {"none", "pss", "pkcs1"}]
  /\ pss_salt_len \in [Ctx -> {NoSalt, "explicit"} \cup Alg]
  /\ hash \in [Hash -> [state : {"closed", "open", "finished"},
                        alg : Alg \cup {NoAlg}, data : Seq(Block)]]
  /\ keydata \in [KeyObj -> PrivKey \cup {"free", "void"}]
  /\ held \subseteq KeyObj
  /\ pkey \in [Ctx -> KeyObj \cup {NoKey}]
  /\ fed \in [Ctx -> Seq(Block)]
  /\ asked \in [Ctx -> [alg : Alg \cup {NoAlg}, key : PrivKey \cup {"free"},
                        pad : {"none", "pss", "pkcs1"}]]
  /\ consumed \subseteq Ctx

(* Contexts that are ready have a hash each, so what is fed to, signed by  *)
(* or freed with one of them reaches no other, duplicates included; and no *)
(* hash stays open but those of contexts in use and of duplications that   *)
(* failed.                                                                 *)
HashesExclusive ==
  /\ Cardinality(Hash \ ClosedHash) <= Cardinality({c \in Ctx : stage[c] \in {"ready", "lost"}})
  /\ \A c \in Ready :
    /\ hash_handle[c] # NoHash /\ hash[hash_handle[c]].state # "closed"
    /\ \A d \in Ready \ {c} : hash_handle[d] # hash_handle[c]

(* The hash of a context holds exactly what was fed to it and, before it   *)
(* was forked off, to its ancestors, under the digest it will name to      *)
(* NCryptSignHash, and its key object names the private key it was         *)
(* initialised for, whatever keys and contexts are freed meanwhile.        *)
TranscriptFaithful ==
  \A c \in Ready :
    /\ OpenHash(c) => hash[hash_handle[c]] =
                        [state |-> "open", alg |-> alg_identifier[c], data |-> fed[c]]
    /\ key[c] \in KeyObj /\ keydata[key[c]] = asked[c].key

(* Nothing but a signing call on the context itself uses its transcript    *)
(* up: not a size query, nor anything done to the context it was forked    *)
(* from or to its own forks.                                               *)
UnsignedStaysOpen == \A c \in Ready \ consumed : OpenHash(c)

(* Every signature is over exactly the data fed, under the digest and the  *)
(* private key the context or its ancestor was initialised for, with the   *)
(* same digest named in the padding, and with a padding that was set.      *)
SignsWhatWasFed ==
  [][signature' # NoSignature =>
       LET c == signature'.ctx IN
       /\ signature'.data = fed[c]
       /\ signature'.alg = asked[c].alg /\ signature'.pad_alg = asked[c].alg
       /\ signature'.key = asked[c].key
       /\ signature'.pad # "none"]_vars
=============================================================================
