----------------------------- MODULE CngProcess -----------------------------
(***************************************************************************)
(* The whole process of cng-provider-test: the client's main.c, linked     *)
(* with a legacy provider and with the CNG provider itself.                *)
(*                                                                         *)
(* main() makes the calls of CngClient.  Here its store is not the         *)
(* abstract stream but a loader of CngStore, with the key objects and the  *)
(* Windows handles that both passes leave behind, since the client frees   *)
(* nothing that it loads; and where CngClient only has a handshake, the    *)
(* core signs the transcript with a context of CngSignature, whose key is  *)
(* one of those objects.  The three files of the provider are those of the *)
(* DLL but for comments and layout, so that their functions are the        *)
(* actions of Store and Sig.  The user leaves the system store alone (that *)
(* it changes between the passes is a matter of CngClient).                *)
(*                                                                         *)
(* The core is external.  For a CertificateVerify it makes a signature     *)
(* context for the key in the SSL_CTX, sets padding and salt (TLS 1.3 has  *)
(* no other than PSS), asks for the size, feeds the transcript, and signs  *)
(* on a duplicate of the context, or on the context when there is none.    *)
(***************************************************************************)
EXTENDS Naturals, Sequences, FiniteSets

CONSTANTS
  MaxCerts,    \* bound on the number of certificates in the system store
  PrivateKey,  \* their private keys, in store order
  KeyObj,      \* T_CNG_KEYMGMT_KEYDATA blocks the heap can hold
  NoKey,
  Handle,      \* values an open NCRYPT_KEY_HANDLE can have
  NoHandle

(* No two certificates are for one key: the process could not tell them.   *)
ASSUME ProcessAssumption ==
  /\ NoKey \notin KeyObj /\ NoHandle \notin Handle
  /\ MaxCerts \in Nat /\ DOMAIN PrivateKey = 1..MaxCerts
  /\ \A i, j \in 1..MaxCerts : PrivateKey[i] = PrivateKey[j] => i = j
  /\ \A i \in 1..MaxCerts : PrivateKey[i] \notin {"free", "void", "closed"}

VARIABLES
  certs, is_open, prev_cert_ctx, cert_store_eof, prev_key_cert_ctx, priv_key_store_eof,
  key, live, windows_key_handle, held, names, lost, given, failed, superseded, stray,
              \* of the loader and the key objects, as in CngStore
  stage, hash_handle, alg_identifier, sig_key, sign_hash_flags, pss_salt_len, hash,
  pkey, fed, asked, consumed, signature,
              \* of the signature contexts, as in CngSignature
  matches, pc, after, pubkey, ctx_cert, open, infos, failure, refused,
              \* of main(), as in CngClient
  ctx_pkey    \* the key object in the SSL_CTX

loader == "loader"
Store == INSTANCE CngStore WITH Loader <- {loader}, blank <- {}

(* Of each key object: not allocated, without a handle, with a handle that *)
(* was closed, or the private key its handle is open on.                   *)
KeyOf(k) ==
  LET h == windows_key_handle[k]
  IN IF k \notin live THEN "free"
     ELSE IF h = NoHandle THEN "void"
     ELSE IF names[h] = 0 THEN "closed" ELSE PrivateKey[names[h]]

Alg == {"SHA256"}
Sig == INSTANCE CngSignature
  WITH Ctx <- {"ctx", "dup"}, NoCtx <- "no ctx", Hash <- {"hash 1", "hash 2"}, NoHash <- "no hash",
       NoAlg <- "unknown", PrivKey <- {PrivateKey[i] : i \in 1..MaxCerts} \cup {"closed"},
       Block <- {"transcript"}, Pad <- {"absent", "int pss"},
       Salt <- {"absent", "str digest", "no digest length"}, MaxFed <- 1,
       key <- sig_key, keydata <- [k \in KeyObj |-> KeyOf(k)], held <- {ctx_pkey} \ {NoKey}

Signing == {"sign init", "padding", "salt", "size", "update", "dup", "sign dup", "sign ctx",
            "signed dup", "unsigned dup", "signed", "unsigned", "finish"}

Client == INSTANCE CngClient
  WITH size <- Len(certs), usable <- Store!Usable,
       twins <- IF pubkey = 0 THEN {} ELSE {pubkey}, active <- is_open[loader],
       given <- given[loader], gone <- failed[loader], broken <- stray,
       ended <- cert_store_eof[loader] /\ priv_key_store_eof[loader],
       pc <- IF pc \in Signing THEN "handshake" ELSE pc, open <- open \ {"legacy"},
       ctx_key <- IF ctx_pkey = NoKey THEN 0 ELSE names[windows_key_handle[ctx_pkey]]

provider == <<certs, is_open, prev_cert_ctx, cert_store_eof, prev_key_cert_ctx, priv_key_store_eof,
              key, live, windows_key_handle, held, names, lost, given, failed, superseded, stray>>
signatures == <<stage, hash_handle, alg_identifier, sig_key, sign_hash_flags, pss_salt_len, hash,
                pkey, fed, asked, consumed, signature>>
ssl == <<pubkey, ctx_cert, ctx_pkey>>
search == <<matches, after, infos, failure, refused>>
vars == <<provider, signatures, ssl, search, pc, open>>

Init ==
  /\ pubkey = 0 /\ ctx_cert = 0 /\ ctx_pkey = NoKey
  /\ Store!Init /\ Sig!Init
  /\ matches \in SUBSET (1..Len(certs))
  /\ pc = "load legacy" /\ after = "exit" /\ open = {} /\ infos = {}
  /\ failure = FALSE /\ refused = FALSE
-----------------------------------------------------------------------------
(* main(): what it acquires.                                               *)
Straight(from, to, kept) ==
  /\ pc = from /\ pc' = to /\ open' = kept
  /\ UNCHANGED <<provider, signatures, ssl, search>>

Acquire(resource, from, to, otherwise) ==
  \/ Straight(from, to, open \cup {resource})
  \/ Straight(from, otherwise, open)

(* OSSL_mylegacy_provider_init: a provider context and a library context,  *)
(* or neither.                                                             *)
LoadLegacy == Acquire("legacy", "load legacy", "load cng", "returned")

(* OSSL_cng_provider_init.  The handle of the legacy provider is given up  *)
(* for that of the CNG provider: it stays loaded with the library context. *)
LoadCng == Acquire("cng", "load cng", "load default", "returned")

LoadDefault ==
  \/ Straight("load default", "winsock", open \cup {"default"})
  \/ Straight("load default", "returned", open \ {"cng"})

StartWinsock == Acquire("winsock", "winsock", "ssl_ctx", "returned")
CreateContext == Acquire("ssl_ctx", "ssl_ctx", "open for certificate", "returned")
CreateSocket == Acquire("socket", "socket", "connect", "connect")

(* SSL_new may give NULL, which crashes the process in SSL_set_fd. *)
Connect ==
  \/ "socket" \in open /\ Straight("connect", "handshake", open \cup {"ssl"})
  \/ "socket" \in open /\ Straight("connect", "returned", open)
  \/ Straight("connect", "exit", open)

(* OSSL_LIB_CTX_free takes the legacy provider with it (legacy_teardown). *)
Exit == Straight("exit", "returned", {})

(* cng_query_operation, and the default provider for everything else. *)
Serves(operations) == Client!Served(operations)
-----------------------------------------------------------------------------
(* The two passes over the store.                                          *)

(* cng_store_open *)
OpenStore(from, to) ==
  /\ pc = from /\ Serves({"store"})
  /\ \/ Store!Open(loader) /\ pc' = to
     \/ (Store!OpenFails(loader) \/ UNCHANGED provider) /\ pc' = "exit"
  /\ failure' = FALSE
  /\ UNCHANGED <<signatures, ssl, matches, after, infos, refused, open>>

(* cng_store_eof *)
AtEof == cert_store_eof[loader] /\ priv_key_store_eof[loader]

(* cng_store_close *)
CloseStore ==
  /\ pc = "close" /\ pc' = after
  /\ Store!Close(loader) \/ Store!CloseFails(loader)
  /\ UNCHANGED <<signatures, ssl, search, open>>

Leave(to) == pc' = "close" /\ after' = to

(* The pass is given up, with no more to load or with a load that gave     *)
(* NULL: a certificate or a key that the core's callback refused.          *)
GivesUp ==
  /\ \/ AtEof /\ UNCHANGED <<provider, failure>>
     \/ /\ ~AtEof /\ failure' = TRUE
        /\ Store!LoadCert(loader) \/ Store!LoadKeyRefused(loader)
  /\ Leave("exit")
  /\ UNCHANGED <<ssl, matches, infos, refused>>

Skip == UNCHANGED <<pc, after, ssl, matches, failure, refused>>

(* X509_has_attribute_value *)
Matches(cert) == cert \in matches

(* SSL_CTX_use_certificate, for a certificate that matches. *)
UseCertificate ==
  LET found == given'[loader]
  IN IF ~Matches(found) THEN Skip
     ELSE /\ pubkey' = found
          /\ \/ Serves({"decoder"}) /\ ctx_cert' = found /\ Leave("open for key")
             \/ UNCHANGED ctx_cert /\ Leave("exit")
          /\ UNCHANGED <<ctx_pkey, matches, failure, refused>>

(* Every object comes in an OSSL_STORE_INFO that the program never frees.  *)
InfoKept == infos' = infos \cup {<<pc, given'[loader]>>}

(* load_another_cert *)
CertificateLoaded == Store!LoadCert(loader) /\ InfoKept

(* load_another_private_key: the core takes a key object, and the program  *)
(* never frees it.                                                         *)
KeyLoaded(k) == Store!LoadKey(loader) /\ k \in held' \ held /\ InfoKept

FindCertificate ==
  /\ pc = "find certificate"
  /\ \/ GivesUp
     \/ CertificateLoaded /\ UseCertificate
     \/ Skip /\ \E k \in KeyObj : KeyLoaded(k)
  /\ UNCHANGED <<signatures, open>>

(* EVP_PKEY_eq *)
KeyMatches(k) == KeyOf(k)' = PrivateKey[pubkey]

(* SSL_CTX_use_PrivateKey, which compares the key with the certificate;    *)
(* when it fails the store is not closed.                                  *)
UsePrivateKey(k) ==
  \/ /\ Serves({"keymgmt"}) /\ KeyOf(k)' = PrivateKey[ctx_cert]
     /\ ctx_pkey' = k /\ Leave("socket")
     /\ UNCHANGED <<pubkey, ctx_cert, matches, failure, refused>>
  \/ /\ pc' = "exit" /\ refused' = TRUE
     /\ UNCHANGED <<ssl, after, matches, failure>>

FindKey ==
  /\ pc = "find key"
  /\ \/ GivesUp
     \/ CertificateLoaded /\ Skip
     \/ \E k \in KeyObj : KeyLoaded(k) /\ IF KeyMatches(k) THEN UsePrivateKey(k) ELSE Skip
  /\ UNCHANGED <<signatures, open>>
-----------------------------------------------------------------------------
(* The signature in the handshake.  A step of the core that calls one      *)
(* function of the provider; only dupctx has to do with key objects.       *)
Goes(from, to) == pc = from /\ pc' = to /\ UNCHANGED <<ssl, search, open>>
Calls(from, to) == Goes(from, to) /\ UNCHANGED provider
Refused(from) == Calls(from, "unsigned") /\ UNCHANGED signatures

NewSignature ==
  \/ Serves({"signature"}) /\ Calls("handshake", "sign init") /\ Sig!NewCtx("ctx")
  \/ Straight("handshake", "exit", open)

SignInit ==
  \E to \in {"padding", "unsigned"} :
    /\ Calls("sign init", to)
    /\ \E md \in Alg : Sig!SignInit("ctx", md, ctx_pkey)
    /\ to = "padding" <=> stage'["ctx"] = "ready"

SetPadding == Calls("padding", "salt") /\ Sig!SetParams("ctx", "int pss", "absent")

SetSalt ==
  \/ Calls("salt", "size") /\ Sig!SetParams("ctx", "absent", "str digest")
  \/ Calls("salt", "unsigned") /\ Sig!SetParams("ctx", "absent", "no digest length")

FinalSize == (Calls("size", "update") /\ Sig!FinalSize("ctx")) \/ Refused("size")

Update == (Calls("update", "dup") /\ Sig!Update("ctx", "transcript")) \/ Refused("update")

(* cng_keymgmt_dup: the copy is nobody's but the new context's. *)
DupKey(k) == Store!DupKey(k)
DupKeyFails == Store!DupFails

DupSignature ==
  \/ Goes("dup", "sign dup") /\ DupKey(sig_key["ctx"]) /\ Sig!DupCtx("ctx", "dup")
  \/ /\ Goes("dup", "sign ctx")
     /\ DupKeyFails \/ UNCHANGED provider
     /\ Sig!DupCtxFails("ctx", "dup")

(* The signing call on the duplicate or on the original. *)
Final(c, from, to, otherwise) ==
  /\ pc = from /\ UNCHANGED <<provider, ssl, search, open>>
  /\ Sig!Final(c)
  /\ pc' = IF signature' # Sig!NoSignature THEN to ELSE otherwise

FreeSignature(c, from, to) == Calls(from, to) /\ Sig!FreeCtx(c)

Sign ==
  \/ NewSignature \/ SignInit \/ SetPadding \/ SetSalt \/ FinalSize \/ Update \/ DupSignature
  \/ Final("dup", "sign dup", "signed dup", "unsigned dup")
  \/ Final("ctx", "sign ctx", "signed", "unsigned")
  \/ FreeSignature("dup", "signed dup", "signed")
  \/ FreeSignature("dup", "unsigned dup", "unsigned")
  \/ FreeSignature("ctx", "signed", "finish")
  \/ FreeSignature("ctx", "unsigned", "exit")

(* The rest of SSL_connect, whether the server asked for a certificate or  *)
(* not, the request, and the answer.                                       *)
Converse ==
  \/ \E from \in {"handshake", "finish"} :
       \/ /\ Serves({"digest", "cipher", "mac", "kdf", "rand", "keyexch"})
          /\ \E to \in {"write", "returned"} : Straight(from, to, open)
       \/ Straight(from, "exit", open)
  \/ \E to \in {"read", "exit"} : Straight("write", to, open)
  \/ Straight("read", "exit", open)

Next ==
  \/ LoadLegacy \/ LoadCng \/ LoadDefault \/ StartWinsock \/ CreateContext
  \/ OpenStore("open for certificate", "find certificate") \/ FindCertificate
  \/ OpenStore("open for key", "find key") \/ FindKey \/ CloseStore
  \/ CreateSocket \/ Connect \/ Sign \/ Converse \/ Exit

Spec == Init /\ [][Next]_vars
-----------------------------------------------------------------------------
(* From the loaded provider on, the process does what CngClient's main()   *)
(* may do on a store that stays as it is:                                  *)
(* what it does to the store, and with the keys it got there, is what the  *)
(* abstract stream allows, and the signature inside the handshake changes  *)
(* nothing that main() or the store can see.                               *)
FollowsTheClient ==
  [][stray' \/ pc \in {"load legacy", "load cng"} \/ [Client!Main]_(Client!vars)]_vars

(* Every signature that leaves the process was made with the private key   *)
(* of the certificate in the SSL_CTX, over the transcript and in the form  *)
(* TLS 1.3 asks for: across two passes with keys read ahead, left behind   *)
(* and duplicated on the way.                                              *)
SignsForItsCertificate ==
  [][signature' # Sig!NoSignature /\ ~stray =>
       /\ ctx_cert \in matches /\ signature'.key = PrivateKey[ctx_cert]
       /\ signature'.data = <<"transcript">>
       /\ signature'.pad = "pss" /\ signature'.salt = signature'.pad_alg]_vars
=============================================================================
