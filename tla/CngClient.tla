----------------------------- MODULE CngClient -----------------------------
(***************************************************************************)
(* The TLS client of cng-provider-dll-test/main.c: it loads the providers, *)
(* looks for a certificate in the CNG store and then, in a second pass     *)
(* over a store opened anew, for the private key of that certificate, and  *)
(* connects with the pair.                                                 *)
(*                                                                         *)
(* The store is the abstract ObjectStream that CngStore implements, behind *)
(* OSSL_STORE_open_ex, _eof, _load and _close: a load may also fail and    *)
(* give NULL.  Between the two passes it is closed, and the user may add   *)
(* and remove certificates.  OpenSSL, Windows and the server are external: *)
(* each of their calls may fail.                                           *)
(*                                                                         *)
(* Key pairs have names: that of the certificate chosen in the first pass  *)
(* has the certificate's position, and any other one a larger number.      *)
(***************************************************************************)
EXTENDS Integers

CONSTANT MaxCerts   \* bound on the number of certificates in the system store

ASSUME ClientAssumption == MaxCerts \in Nat

VARIABLES
  size, usable, active, given, gone, ended, broken,   \* the store being read
  matches,   \* certificates of the first pass with the name SEARCH_VALUE
  twins,     \* certificates of the store whose key pair is that of pubkey
  pc,        \* where main() is
  after,     \* where it goes once the store is closed
  pubkey,    \* certificate whose public key is remembered, 0 for NULL
  ctx_cert,  \* certificate in the SSL_CTX, 0 for none
  ctx_key,   \* key pair whose private key is in the SSL_CTX, 0 for none
  open,      \* what main() has acquired and not released
  infos,     \* the OSSL_STORE_INFOs there are: of which pass, which object
  failure,   \* history: a load gave NULL in this pass
  refused    \* history: SSL_CTX_use_PrivateKey failed

store == <<size, usable, active, given, gone, ended, broken>>
ssl == <<pubkey, ctx_cert, ctx_key>>
vars == <<store, matches, twins, pc, after, ssl, open, infos, failure, refused>>

Stream == INSTANCE ObjectStream

(* What main() acquires, in the order it does. *)
Resource == <<"cng", "module", "default", "winsock", "ssl_ctx", "socket", "ssl">>
Place == {"load cng", "register log", "load default", "winsock", "ssl_ctx",
          "open for certificate", "find certificate", "open for key", "find key",
          "close", "socket", "connect", "handshake", "write", "read", "exit", "returned"}

Init ==
  /\ Stream!Init
  /\ size \in 0..MaxCerts /\ usable \in SUBSET (1..size) /\ matches \in SUBSET (1..size)
  /\ pc = "load cng" /\ after = "exit"
  /\ pubkey = 0 /\ ctx_cert = 0 /\ ctx_key = 0 /\ twins = {}
  /\ open = {} /\ infos = {}
  /\ failure = FALSE /\ refused = FALSE
-----------------------------------------------------------------------------
(* cng_query_operation: the CNG provider has tables for three operations,  *)
(* NULL for every other.                                                   *)
Offered == {"store", "keymgmt", "signature"}

(* "?provider=cng" prefers the CNG provider and falls back on the default. *)
Provider(operation) == IF operation \in Offered THEN "cng" ELSE "default"

Served(operations) == \A op \in operations : Provider(op) \in open

(* A step of main() that does not touch the store or the SSL_CTX. *)
Straight(from, to, kept) ==
  /\ pc = from /\ pc' = to /\ open' = kept
  /\ UNCHANGED <<store, matches, twins, after, ssl, infos, failure, refused>>

(* A call that acquires something, or does not and goes another way. *)
Acquire(resource, from, to, otherwise) ==
  \/ Straight(from, to, open \cup {resource})
  \/ Straight(from, otherwise, open)

(* OSSL_PROVIDER_load finds the DLL and runs OSSL_provider_init, which     *)
(* fails when its context cannot be allocated.                             *)
LoadCng == Acquire("cng", "load cng", "register log", "returned")

(* LoadLibraryEx and GetProcAddress: without the function, with the module *)
(* or not, main() returns.                                                 *)
RegisterLog ==
  \/ Straight("register log", "load default", open \cup {"module"})
  \/ \E module \in SUBSET {"module"} : Straight("register log", "returned", open \cup module)

LoadDefault ==
  \/ Straight("load default", "winsock", open \cup {"default"})
  \/ Straight("load default", "returned", open \ {"cng"})

StartWinsock == Acquire("winsock", "winsock", "ssl_ctx", "returned")
CreateContext == Acquire("ssl_ctx", "ssl_ctx", "open for certificate", "returned")

(* SOCKET is unsigned, so that the test s < 0 of create_socket() never holds: *)
(* main() goes on without a socket, and then connect() fails.                 *)
CreateSocket == Acquire("socket", "socket", "connect", "connect")

(* connect(), then SSL_new, whose NULL crashes the process in SSL_set_fd. *)
Connect ==
  \/ "socket" \in open /\ Straight("connect", "handshake", open \cup {"ssl"})
  \/ "socket" \in open /\ Straight("connect", "returned", open)
  \/ Straight("connect", "exit", open)

(* SSL_connect, and the malloc of the request; SSL_write; SSL_read. *)
Handshake ==
  \/ Served({"signature", "digest", "cipher", "mac", "kdf", "rand", "keyexch"})
     /\ \E to \in {"write", "returned"} : Straight("handshake", to, open)
  \/ Straight("handshake", "exit", open)

Write == \E to \in {"read", "exit"} : Straight("write", to, open)
Read == Straight("read", "exit", open)

(* Faulty: the SSL object is not freed. *)
ExitKeepsSsl == Straight("exit", "returned", open \cap {"module", "ssl"})

(* The exit label frees whatever is there, but for the module. *)
Exit == Straight("exit", "returned", open \cap {"module"})
-----------------------------------------------------------------------------
(* OSSL_STORE_open_ex *)
OpenStore(from, to) ==
  /\ pc = from
  /\ \/ Served({"store"}) /\ Stream!Start /\ UNCHANGED <<size, usable, broken>> /\ pc' = to
     \/ UNCHANGED store /\ pc' = "exit"
  /\ failure' = FALSE
  /\ UNCHANGED <<matches, twins, after, ssl, open, infos, refused>>

(* The user changes the store while it is not open. *)
StoreChanges ==
  /\ pc = "open for key"
  /\ size' \in 0..MaxCerts
  /\ usable' \in SUBSET (1..size') /\ twins' \in SUBSET (1..size')
  /\ UNCHANGED <<active, given, gone, ended, broken, matches, pc, after, ssl, open, infos,
                 failure, refused>>

(* OSSL_STORE_close, at every way out of a pass but one. *)
CloseStore ==
  /\ pc = "close" /\ pc' = after
  /\ Stream!Stop
  /\ UNCHANGED <<size, usable, broken, matches, twins, after, ssl, open, infos, failure, refused>>

(* A pass ends; the store is still to be closed. *)
Leave(to) == pc' = "close" /\ after' = to

(* Faulty: the loop goes on when a load gives NULL.  The history variable *)
(* alternates, so that every retry is a step.                             *)
LoadFailsRetried ==
  /\ ~ended
  /\ failure' = ~failure
  /\ UNCHANGED <<store, matches, twins, pc, after, ssl, open, infos, refused>>

(* OSSL_STORE_load gives NULL: the pass is given up.  A certificate that   *)
(* the core refused is passed over, a key is not.                          *)
LoadFails ==
  /\ ~ended
  /\ failure' = TRUE /\ Leave("exit")
  /\ \/ UNCHANGED store
     \/ Stream!Give /\ given' <= size /\ UNCHANGED <<size, usable, broken>>
  /\ UNCHANGED <<matches, twins, ssl, open, infos, refused>>

(* OSSL_STORE_eof: there is nothing more. *)
NotFound ==
  /\ ended
  /\ Leave("exit")
  /\ UNCHANGED <<store, matches, twins, ssl, open, infos, failure, refused>>

(* OSSL_STORE_load gives an object, in an OSSL_STORE_INFO that is never    *)
(* freed; the certificate and the public key in it live as long as it.     *)
Load ==
  /\ Stream!Give /\ UNCHANGED <<size, usable, broken>>
  /\ infos' = infos \cup {<<pc, given'>>}

(* Faulty: the first object that is not looked for ends the pass. *)
SkipBreaks ==
  /\ Leave("exit")
  /\ UNCHANGED <<matches, twins, ssl, open, failure, refused>>

(* An object that is not what the pass looks for. *)
Skip ==
  /\ UNCHANGED <<matches, twins, pc, after, ssl, open, failure, refused>>

(* The public key is kept; more than one certificate may be for it. *)
KeepPublicKey ==
  /\ pubkey' = given'
  /\ twins' \in {T \in SUBSET (1..size) : given' \in T}

(* Faulty: SSL_CTX_use_certificate is taken to have succeeded. *)
UseCertificateUnchecked ==
  /\ KeepPublicKey
  /\ ctx_cert' \in {ctx_cert, given'} /\ Leave("open for key")
  /\ UNCHANGED <<matches, ctx_key, open, failure, refused>>

(* The certificate is put in the SSL_CTX if OpenSSL takes it. *)
UseCertificate ==
  /\ KeepPublicKey
  /\ \/ Served({"decoder"}) /\ ctx_cert' = given' /\ Leave("open for key")
     \/ UNCHANGED ctx_cert /\ Leave("exit")
  /\ UNCHANGED <<matches, ctx_key, open, failure, refused>>

(* One round of find_and_use_client_certificate. *)
FindCertificate ==
  /\ pc = "find certificate"
  /\ \/ LoadFails \/ NotFound
     \/ Load /\ IF given' \in matches THEN UseCertificate ELSE Skip

(* The key pair of a certificate of the store. *)
PairOf(cert) == IF cert \in twins THEN pubkey ELSE MaxCerts + cert

(* A private key, and EVP_PKEY_eq with the certificate of the first pass. *)
KeyMatches == given' > size /\ PairOf(given' - size) = pubkey

(* SSL_CTX_use_PrivateKey, which checks the key against the certificate in *)
(* the SSL_CTX; when it fails the function returns and closes nothing.     *)
UsePrivateKey ==
  \/ /\ Served({"keymgmt"}) /\ ctx_cert \in {0, PairOf(given' - size)}
     /\ ctx_key' = PairOf(given' - size) /\ Leave("socket")
     /\ UNCHANGED <<matches, twins, pubkey, ctx_cert, open, failure, refused>>
  \/ /\ pc' = "exit" /\ refused' = TRUE
     /\ UNCHANGED <<matches, twins, after, ssl, open, failure>>

(* One round of find_and_use_client_private_key. *)
FindKey ==
  /\ pc = "find key"
  /\ \/ LoadFails \/ NotFound
     \/ Load /\ IF KeyMatches THEN UsePrivateKey ELSE Skip

(* The steps of main(). *)
Main ==
  \/ LoadCng \/ RegisterLog \/ LoadDefault \/ StartWinsock \/ CreateContext
  \/ OpenStore("open for certificate", "find certificate") \/ FindCertificate
  \/ OpenStore("open for key", "find key") \/ FindKey
  \/ CloseStore
  \/ CreateSocket \/ Connect \/ Handshake \/ Write \/ Read \/ Exit

Next == Main \/ StoreChanges

(* main() keeps running, and the blocking calls on the socket return. *)
Spec == Init /\ [][Next]_vars /\ WF_vars(Main)
-----------------------------------------------------------------------------
Searching == pc \in {"find certificate", "find key", "close"}

(* The objects that a pass was given, and that are there ever since. *)
Loaded(pass) == {r \in 1..2 * MaxCerts : <<pass, r>> \in infos}

(* The type of every variable.  Until it returns, main() holds what it     *)
(* acquires first, with no gap.                                            *)
TypeOK ==
  /\ size \in 0..MaxCerts /\ usable \subseteq 1..size /\ twins \subseteq 1..size
  /\ active \in BOOLEAN /\ ended \in BOOLEAN /\ broken = FALSE
  /\ given \in 0..2 * size /\ gone \subseteq 1..size
  /\ matches \subseteq 1..MaxCerts
  /\ pc \in Place /\ after \in {"open for key", "socket", "exit"}
  /\ pubkey \in 0..MaxCerts /\ ctx_cert \in 0..MaxCerts /\ ctx_key \in 0..MaxCerts
  /\ \/ \E n \in 0..7 : open = {Resource[k] : k \in 1..n}
     \/ pc = "returned" /\ open = {"module"}
  /\ infos \subseteq {"find certificate", "find key"} \X (1..2 * MaxCerts)
  /\ failure \in BOOLEAN /\ refused \in BOOLEAN

(* The client only connects with the first certificate in store order that *)
(* matches the search, and with the private key of that very certificate,  *)
(* though the two come from two passes and the store may have changed in   *)
(* between: it then has the key still, of whatever certificate.            *)
ConnectsWithItsPair ==
  pc \in {"socket", "connect", "handshake", "write", "read"} =>
    /\ ctx_cert \in matches /\ \A i \in matches : ctx_cert <= i
    /\ ctx_key = ctx_cert /\ twins \cap usable # {}

(* When the second pass ends without the key and no call failed, none of   *)
(* the certificates for it has a key that could be had in that pass.       *)
GivesUpForAReason ==
  [][pc = "find key" /\ after' = "exit" /\ pc' = "close" /\ ~failure' =>
       twins \cap (usable \ gone) = {}]_vars

(* The exit label releases no more than was acquired, though it asks only  *)
(* about the SSL object and the socket.  It leaves the module, the store   *)
(* if SSL_CTX_use_PrivateKey failed, and an OSSL_STORE_INFO for every      *)
(* certificate up to the chosen one and, if the key was found, for every   *)
(* certificate of the second pass and the key.                             *)
LeavesWhatItForgets ==
  [][pc = "exit" /\ pc' = "returned" =>
       /\ {"cng", "default", "winsock", "ssl_ctx"} \subseteq open
       /\ open' = {"module"}
       /\ active' => refused'
       /\ pubkey # 0 => Loaded("find certificate")' = 1..pubkey
       /\ ctx_key # 0 => /\ 1..size \subseteq Loaded("find key")'
                         /\ \E i \in twins \cap usable : size + i \in Loaded("find key")']_vars

(* Both searches come to an end, whatever the store holds and wherever a   *)
(* load fails.                                                             *)
SearchEnds == Searching ~> ~Searching
=============================================================================
