-------------------------- MODULE CngProcessProofs --------------------------
(***************************************************************************)
(* Proofs about CngProcess, for any system store, any heap and any handle  *)
(* table: with the loader and the key objects of CngStore behind it the    *)
(* process does what CngClient may do, and it signs with the key of its    *)
(* certificate.  What CngStoreProofs proves of the store for any number of *)
(* loaders is used for the one loader that main() opens.                   *)
(***************************************************************************)
EXTENDS CngProcess, SequenceTheorems, TLAPS

SP == INSTANCE CngStoreProofs WITH Loader <- {loader}, blank <- {}

(* main() has not yet looked for a key.                                    *)
Searching ==
  \/ pc \in {"load legacy", "load cng", "load default", "winsock", "ssl_ctx",
             "open for certificate", "find certificate", "open for key", "find key"}
  \/ pc = "close" /\ after = "open for key"

(* The second pass looks for the key of the certificate in the SSL_CTX.    *)
Certified ==
  \/ pc \in {"open for key", "find key"}
  \/ pc = "close" /\ after = "open for key"

(* Where main() can be, and what it has in hand there.                     *)
Main ==
  /\ matches \subseteq 1..Len(certs)
  /\ after \in {"exit", "open for key", "socket"}
  /\ pc \notin {"load legacy", "load cng", "returned"} => "cng" \in open
  /\ Certified => pubkey = ctx_cert /\ ctx_cert \in matches
  /\ Searching => ctx_pkey = NoKey
  /\ ctx_pkey # NoKey => ctx_pkey \in held /\ ctx_cert \in matches
  /\ ctx_pkey # NoKey /\ ~stray => KeyOf(ctx_pkey) = PrivateKey[ctx_cert]

(* A context whose hash, digest, padding, salt and key are these.          *)
Stands(c, data, pad, salt) ==
  /\ hash_handle[c] \in {"hash 1", "hash 2"}
  /\ hash[hash_handle[c]] = [state |-> "open", alg |-> "SHA256", data |-> data]
  /\ alg_identifier[c] = "SHA256" /\ sign_hash_flags[c] = pad /\ pss_salt_len[c] = salt
  /\ sig_key[c] \in KeyObj /\ (~stray => KeyOf(sig_key[c]) = PrivateKey[ctx_cert])

(* The context of the signature, call after call of the core.              *)
Contexts ==
  /\ pc = "sign init" =>
       stage["ctx"] = "new" /\ sign_hash_flags["ctx"] = "none" /\ pss_salt_len["ctx"] = "0"
  /\ pc = "padding" => Stands("ctx", <<>>, "none", "0")
  /\ pc = "salt" => Stands("ctx", <<>>, "pss", "0")
  /\ pc \in {"size", "update"} => Stands("ctx", <<>>, "pss", "SHA256")
  /\ pc \in {"dup", "sign ctx"} => Stands("ctx", <<"transcript">>, "pss", "SHA256")
  /\ pc = "sign dup" => Stands("dup", <<"transcript">>, "pss", "SHA256")

(* Whose key it is, and when there is a signature.                         *)
Keys ==
  /\ pc \in {"padding", "salt", "size", "update", "dup", "sign dup", "sign ctx"} =>
       ctx_pkey # NoKey
  /\ pc \in {"padding", "salt", "size", "update", "dup"} => sig_key["ctx"] = ctx_pkey
  /\ signature # Sig!NoSignature => pc \in {"signed dup", "signed"}

HashState == [state : {"closed", "open", "finished"}, alg : {"SHA256", "unknown"},
              data : Seq({"transcript"})]

(* The fields of the contexts are there.                                   *)
Fields ==
  LET Ctx == {"ctx", "dup"}
  IN /\ stage \in [Ctx -> {"free", "new", "ready", "failed", "lost"}]
     /\ hash_handle \in [Ctx -> {"hash 1", "hash 2", "no hash"}]
     /\ alg_identifier \in [Ctx -> {"SHA256", "unknown"}]
     /\ sig_key \in [Ctx -> KeyObj \cup {NoKey}]
     /\ sign_hash_flags \in [Ctx -> {"none", "pss", "pkcs1"}]
     /\ pss_salt_len \in [Ctx -> {"0", "explicit", "SHA256", "unknown"}]
     /\ hash \in [{"hash 1", "hash 2"} -> HashState]

(* Nothing is held that only the client with the DLL acquires. *)
Unmoduled == "module" \notin open

ProcessInv == SP!Safe /\ SP!Positions /\ Main /\ Unmoduled /\ Fields /\ Contexts /\ Keys
-----------------------------------------------------------------------------
(* The functions of the store that main() reaches are those that           *)
(* CngStoreProofs speaks of.                                               *)
LEMMA SamePreload ==
  ASSUME NEW k, NEW from, NEW handles, NEW table
  PROVE  Store!Preload(loader, k, from, handles, table) <=>
           SP!Preload(loader, k, from, handles, table)
BY Zenon DEF Store!Preload, Store!PreloadHit, Store!PreloadMiss, Store!Size, Store!FreeObject, Store!Cardinality,
       SP!Preload, SP!PreloadHit, SP!PreloadMiss, SP!Size, SP!FreeObject, SP!Cardinality

LEMMA SameOpen == Store!Open(loader) <=> SP!Open(loader)
BY SamePreload, Zenon DEF Store!Open, SP!Open, Store!origin, SP!origin, Store!NextCert, SP!NextCert, Store!Size, SP!Size

LEMMA SameVars == Store!vars = SP!vars
BY DEF Store!vars, Store!cursors, Store!keys, Store!origin, Store!history,
       SP!vars, SP!cursors, SP!keys, SP!origin, SP!history

LEMMA SameOpenFails == Store!OpenFails(loader) <=> SP!OpenFails(loader)
BY Zenon DEF Store!OpenFails, SP!OpenFails, Store!cursors, Store!keys, Store!origin, Store!history,
       SP!cursors, SP!keys, SP!origin, SP!history

LEMMA SameLoadCert == Store!LoadCert(loader) <=> SP!LoadCert(loader)
BY Zenon DEF Store!LoadCert, SP!LoadCert, Store!keys, SP!keys, Store!origin, SP!origin,
        Store!NextCert, SP!NextCert, Store!Size, SP!Size

LEMMA SameDuplicate ==
  ASSUME NEW k, NEW k2, NEW h2
  PROVE  /\ Store!Duplicate(k, k2, h2) <=> SP!Duplicate(k, k2, h2)
         /\ Store!DupHandles(k2, h2) = SP!DupHandles(k2, h2)
         /\ Store!DupNames(k, h2) = SP!DupNames(k, h2)
BY DEF Store!Duplicate, SP!Duplicate, Store!DupHandles, SP!DupHandles, Store!DupNames, SP!DupNames,
       Store!ClosedHandle, SP!ClosedHandle

LEMMA SameDupFails == Store!DupFails <=> SP!DupFails
BY Zenon DEF Store!DupFails, SP!DupFails, Store!NewObj, SP!NewObj, Store!cursors, Store!history, SP!cursors, SP!history

LEMMA SameLoadKey == Store!LoadKey(loader) <=> SP!LoadKey(loader)
BY SamePreload, SameDuplicate, ZenonT(60) DEF Store!LoadKey, SP!LoadKey, Store!origin, SP!origin,
       Store!KeyTurn, SP!KeyTurn,
       Store!Size, SP!Size

LEMMA SameLoadKeyRefused == Store!LoadKeyRefused(loader) <=> SP!LoadKeyRefused(loader)
BY SameDupFails, Zenon DEF Store!LoadKeyRefused, SP!LoadKeyRefused, Store!KeyTurn, SP!KeyTurn,
       Store!vars, Store!cursors, Store!keys, Store!origin, Store!history,
       SP!vars, SP!cursors, SP!keys, SP!origin, SP!history

LEMMA SameClose ==
  Store!Close(loader) \/ Store!CloseFails(loader) <=> SP!Close(loader) \/ SP!CloseFails(loader)
BY Zenon DEF Store!Close, SP!Close, Store!CloseFails, SP!CloseFails, Store!CloseLoader, SP!CloseLoader,
       Store!FreeObj, SP!FreeObj, Store!FreeObject, SP!FreeObject, Store!keys, SP!keys

LEMMA SameDupKey == ASSUME NEW k PROVE Store!DupKey(k) <=> SP!DupKey(k)
BY SameDuplicate, SameDupFails, Zenon DEF Store!DupKey, SP!DupKey, Store!cursors, Store!origin,
       Store!history, SP!cursors, SP!origin, SP!history

LEMMA SameInit == Store!Init <=> SP!Init
BY Zenon DEF Store!Init, SP!Init, Store!Kind, Store!Index, SP!Kind, SP!Index
-----------------------------------------------------------------------------
LEMMA StoreAssumed == SP!StoreAssumption
BY ProcessAssumption DEF SP!StoreAssumption

(* What any step of the process does to the store, if anything: calls of   *)
(* one loader and of the core that CngStore allows.  main() frees no key.  *)
StoreCall == [SP!Next]_(SP!vars) /\ held \subseteq held' /\ certs' = certs

LEMMA StoreActions ==
  ASSUME \/ Store!Open(loader) \/ Store!OpenFails(loader) \/ Store!LoadCert(loader)
         \/ Store!LoadKey(loader) \/ Store!LoadKeyRefused(loader)
         \/ Store!Close(loader) \/ Store!CloseFails(loader) \/ UNCHANGED provider
  PROVE  StoreCall
<1>1. CASE UNCHANGED provider
  BY <1>1 DEF provider, StoreCall, SP!vars, SP!cursors, SP!keys, SP!origin, SP!history
<1>2. CASE ~UNCHANGED provider
  <2>1. [SP!Next]_(SP!vars)
    BY <1>2, SameOpen, SameOpenFails, SameLoadCert, SameLoadKey, SameLoadKeyRefused, SameClose
    DEF SP!Next
  <2>2. held \subseteq held' /\ certs' = certs
    BY <1>2 DEF Store!Open, Store!OpenFails, Store!LoadCert, Store!LoadKey, Store!LoadKeyRefused,
         Store!DupFails, Store!Close, Store!CloseFails, Store!CloseLoader, Store!keys, Store!vars
  <2> QED BY <2>1, <2>2 DEF StoreCall
<1> QED BY <1>1, <1>2

(* dupctx duplicates a key of the core. *)
LEMMA DupActions ==
  ASSUME NEW k \in held, held \subseteq KeyObj, Store!DupKey(k) \/ Store!DupFails
  PROVE  StoreCall
<1>1. SP!DupKey(k)
  BY SameDupKey, SameDupFails DEF SP!DupKey
<1>2. held \subseteq held' /\ certs' = certs
  BY <1>1 DEF SP!DupKey, SP!DupFails
<1> QED BY <1>1, <1>2 DEF SP!Next, StoreCall

LEMMA StoreStep ==
  ASSUME SP!Safe, SP!Positions, StoreCall
  PROVE  /\ SP!Safe' /\ SP!Positions' /\ SP!Stable /\ (stray => stray')
         /\ [SP!Stream(loader)!Next]_(SP!Stream(loader)!vars)
<1>1. SP!Safe' /\ SP!Stable
  BY StoreAssumed, SP!SafeStep DEF StoreCall
<1>2. SP!Positions'
  BY StoreAssumed, SP!PositionsNext DEF StoreCall
<1>3. [SP!Stream(loader)!Next]_(SP!Stream(loader)!vars)
  BY StoreAssumed, SP!StreamStep DEF StoreCall
<1>4. stray => stray'
  BY StoreAssumed, SP!OneMoves DEF StoreCall, SP!Safe, SP!Owned
<1> QED BY <1>1, <1>2, <1>3, <1>4

(* A key of the core is open on a private key of the store.                *)
LEMMA HeldKeyOf ==
  ASSUME SP!Safe, ~stray, NEW k \in held
  PROVE  /\ k \in KeyObj /\ k \in live /\ windows_key_handle[k] \in Handle
         /\ names[windows_key_handle[k]] \in 1..Len(certs)
         /\ KeyOf(k) = PrivateKey[names[windows_key_handle[k]]]
<1>1. /\ k \in live /\ k \in KeyObj /\ windows_key_handle[k] # NoHandle
      /\ names \in [Handle -> 0..Len(certs)] /\ Len(certs) \in Nat
  BY DEF SP!Safe, SP!Owned, SP!TypeOK, SP!Blanks, SP!Size
<1>2. windows_key_handle[k] \in Handle /\ names[windows_key_handle[k]] # 0
  BY <1>1 DEF SP!Safe, SP!HandlesExclusive, SP!ClosedHandle
<1> QED BY <1>1, <1>2 DEF KeyOf

LEMMA HeldKeyOfNext ==
  ASSUME SP!Safe', ~stray', NEW k \in held'
  PROVE  /\ k \in KeyObj /\ k \in live' /\ windows_key_handle'[k] \in Handle
         /\ names'[windows_key_handle'[k]] \in 1..Len(certs')
         /\ KeyOf(k)' = PrivateKey[names'[windows_key_handle'[k]]]
<1>1. /\ k \in live' /\ k \in KeyObj /\ windows_key_handle'[k] # NoHandle
      /\ names' \in [Handle -> 0..Len(certs')] /\ Len(certs') \in Nat
  BY DEF SP!Safe, SP!Owned, SP!TypeOK, SP!Blanks, SP!Size
<1>2. windows_key_handle'[k] \in Handle /\ names'[windows_key_handle'[k]] # 0
  BY <1>1 DEF SP!Safe, SP!HandlesExclusive, SP!ClosedHandle
<1> QED BY <1>1, <1>2 DEF KeyOf

(* Whatever is done to the store, it stays that key.                       *)
LEMMA KeyStays ==
  ASSUME SP!Safe, SP!Positions, StoreCall, NEW k \in held, ~stray'
  PROVE  /\ ~stray /\ k \in held' /\ KeyOf(k)' = KeyOf(k)
         /\ names'[windows_key_handle'[k]] = names[windows_key_handle[k]]
<1>1. SP!Safe' /\ SP!Stable /\ ~stray /\ k \in held'
  BY StoreStep DEF StoreCall
<1>2. names'[windows_key_handle'[k]] = names[windows_key_handle[k]]
  BY <1>1 DEF SP!Stable
<1> QED BY <1>1, <1>2, HeldKeyOf, HeldKeyOfNext
-----------------------------------------------------------------------------
LEMMA StepCalls ==
  ASSUME ProcessInv, [Next]_vars
  PROVE  StoreCall
<1>1. CASE Sign
  <2>1. CASE DupSignature
    <3>1. pc = "dup" /\ sig_key["ctx"] \in held /\ held \subseteq KeyObj
      BY <2>1 DEF DupSignature, Goes, ProcessInv, Main, Keys, SP!Safe, SP!Owned, SP!TypeOK
    <3>2. Store!DupKey(sig_key["ctx"]) \/ Store!DupFails \/ UNCHANGED provider
      BY <2>1 DEF DupSignature, DupKey, DupKeyFails
    <3> QED BY <3>1, <3>2, DupActions, StoreActions
  <2>2. CASE ~DupSignature
    BY <1>1, <2>2, StoreActions, Zenon DEF Sign, NewSignature, SignInit, SetPadding, SetSalt, FinalSize,
      Update, Refused, Calls, Final, FreeSignature, Straight
  <2> QED BY <2>1, <2>2
<1>2. CASE ~Sign
  BY <1>2, StoreActions, Zenon DEF Next, vars, LoadLegacy, LoadCng, LoadDefault, StartWinsock, CreateContext,
    CreateSocket, Connect, Exit, Converse, Acquire, Straight, OpenStore, CloseStore, FindCertificate,
    FindKey, GivesUp, CertificateLoaded, KeyLoaded
<1> QED BY <1>1, <1>2

(* What is kept of Main where the SSL_CTX is left alone. *)
LEMMA PairKept ==
  ASSUME ProcessInv, StoreCall, UNCHANGED <<ctx_cert, ctx_pkey, matches>>
  PROVE  /\ matches' \subseteq 1..Len(certs')
         /\ ctx_pkey' # NoKey => ctx_pkey' \in held' /\ ctx_cert' \in matches'
         /\ ctx_pkey' # NoKey /\ ~stray' => KeyOf(ctx_pkey)' = PrivateKey[ctx_cert']
<1>1. matches' \subseteq 1..Len(certs')
  BY DEF ProcessInv, Main, StoreCall
<1>2. ctx_pkey' # NoKey => ctx_pkey' \in held' /\ ctx_cert' \in matches'
  BY DEF ProcessInv, Main, StoreCall
<1>3. ASSUME ctx_pkey' # NoKey, ~stray' PROVE KeyOf(ctx_pkey)' = PrivateKey[ctx_cert']
  <2>1. ctx_pkey \in held /\ (~stray => KeyOf(ctx_pkey) = PrivateKey[ctx_cert])
    BY <1>3 DEF ProcessInv, Main
  <2>2. ~stray /\ KeyOf(ctx_pkey)' = KeyOf(ctx_pkey)
    BY <1>3, <2>1, KeyStays DEF ProcessInv
  <2> QED BY <2>1, <2>2
<1> QED BY <1>1, <1>2, <1>3

LEMMA MainStraight ==
  ASSUME ProcessInv, NEW from, NEW to, NEW kept, Straight(from, to, kept),
         to \in {"load cng", "load default", "winsock", "ssl_ctx", "open for certificate"} =>
           from \in {"load legacy", "load cng", "load default", "winsock", "ssl_ctx"},
         to \notin {"load legacy", "find certificate", "open for key", "find key", "close"},
         to \in {"load cng", "returned"} \/ "cng" \in kept
  PROVE  Main'
<1>1. StoreCall /\ UNCHANGED <<pubkey, ctx_cert, ctx_pkey, matches, after>>
  BY StoreActions DEF Straight, ssl, search
<1>2. pc = from /\ pc' = to /\ open' = kept
  BY DEF Straight
<1>3. ~Certified'
  BY <1>2 DEF Certified
<1>4. Searching' => Searching
  BY <1>2 DEF Searching
<1>5. pc' \notin {"load legacy", "load cng", "returned"} => "cng" \in open'
  BY <1>2
<1>6. after' \in {"exit", "open for key", "socket"} /\ (Searching' => ctx_pkey' = NoKey)
  BY <1>1, <1>4 DEF ProcessInv, Main
<1> QED BY <1>1, <1>3, <1>5, <1>6, PairKept DEF Main

(* The steps of main() that make no pass over the store.                   *)
LEMMA MainAlong ==
  ASSUME ProcessInv,
         \/ LoadLegacy \/ LoadCng \/ LoadDefault \/ StartWinsock \/ CreateContext
         \/ CreateSocket \/ Connect \/ Converse \/ Exit \/ Straight("handshake", "exit", open)
  PROVE  Main'
<1>1. pc \notin {"load legacy", "load cng", "returned"} => "cng" \in open
  BY DEF ProcessInv, Main
<1>2. CASE LoadLegacy
  BY <1>2, <1>1, MainStraight DEF LoadLegacy, Acquire
<1>3. CASE LoadCng
  BY <1>3, <1>1, MainStraight DEF LoadCng, Acquire
<1>4. CASE LoadDefault
  <2>1. "cng" \in open
    BY <1>4, <1>1 DEF LoadDefault, Straight
  <2> QED BY <1>4, <2>1, MainStraight DEF LoadDefault
<1>5. CASE StartWinsock \/ CreateContext
  <2>1. "cng" \in open
    BY <1>5, <1>1 DEF StartWinsock, CreateContext, Acquire, Straight
  <2> QED BY <1>5, <2>1, MainStraight DEF StartWinsock, CreateContext, Acquire
<1>6. CASE CreateSocket \/ Connect
  <2>1. "cng" \in open
    BY <1>6, <1>1 DEF CreateSocket, Connect, Acquire, Straight
  <2> QED BY <1>6, <2>1, MainStraight DEF CreateSocket, Connect, Acquire
<1>7. CASE Converse
  <2>1. "cng" \in open
    BY <1>7, <1>1 DEF Converse, Straight
  <2> QED BY <1>7, <2>1, MainStraight DEF Converse
<1>8. CASE Exit
  BY <1>8, MainStraight DEF Exit
<1>9. CASE Straight("handshake", "exit", open)
  <2>1. "cng" \in open
    BY <1>9, <1>1 DEF Straight
  <2> QED BY <1>9, <2>1, MainStraight
<1> QED BY <1>2, <1>3, <1>4, <1>5, <1>6, <1>7, <1>8, <1>9

LEMMA MainOpenStore ==
  ASSUME ProcessInv, StoreCall,
         \/ OpenStore("open for certificate", "find certificate")
         \/ OpenStore("open for key", "find key")
  PROVE  Main'
<1>1. /\ UNCHANGED <<pubkey, ctx_cert, ctx_pkey, matches, after, open>>
      /\ \/ pc = "open for certificate" /\ pc' \in {"find certificate", "exit"}
         \/ pc = "open for key" /\ pc' \in {"find key", "exit"}
  BY DEF OpenStore, ssl
<1>2. Certified' => Certified
  BY <1>1 DEF Certified
<1>3. Searching /\ "cng" \in open
  BY <1>1 DEF Searching, ProcessInv, Main
<1>4. Certified' => pubkey' = ctx_cert' /\ ctx_cert' \in matches'
  BY <1>1, <1>2 DEF ProcessInv, Main
<1>5. after' \in {"exit", "open for key", "socket"} /\ (Searching' => ctx_pkey' = NoKey)
  BY <1>1, <1>3 DEF ProcessInv, Main
<1> QED BY <1>1, <1>3, <1>4, <1>5, PairKept DEF Main

LEMMA MainCloseStore ==
  ASSUME ProcessInv, StoreCall, CloseStore
  PROVE  Main'
<1>1. /\ UNCHANGED <<pubkey, ctx_cert, ctx_pkey, matches, after, open>>
      /\ pc = "close" /\ pc' = after /\ after \in {"exit", "open for key", "socket"}
  BY DEF CloseStore, ssl, search, ProcessInv, Main
<1>2. (Certified' => Certified) /\ (Searching' => Searching)
  BY <1>1 DEF Certified, Searching
<1>3. Certified' => pubkey' = ctx_cert' /\ ctx_cert' \in matches'
  BY <1>1, <1>2 DEF ProcessInv, Main
<1>4. "cng" \in open' /\ (Searching' => ctx_pkey' = NoKey)
  BY <1>1, <1>2 DEF ProcessInv, Main
<1> QED BY <1>1, <1>3, <1>4, PairKept DEF Main

LEMMA MainFindCertificate ==
  ASSUME ProcessInv, StoreCall, FindCertificate
  PROVE  Main'
<1>1. pc = "find certificate" /\ open' = open /\ "cng" \in open /\ ctx_pkey = NoKey
  BY DEF FindCertificate, ProcessInv, Main, Searching
<1>2. after \in {"exit", "open for key", "socket"}
  BY DEF ProcessInv, Main
<1>3. CASE Skip
  <2>1. UNCHANGED <<pc, after, pubkey, ctx_cert, ctx_pkey, matches>>
    BY <1>3 DEF Skip, ssl
  <2>2. ~Certified'
    BY <1>1, <2>1 DEF Certified
  <2> QED BY <1>1, <1>2, <2>1, <2>2, PairKept DEF Main
<1>4. CASE GivesUp
  <2>1. UNCHANGED <<pubkey, ctx_cert, ctx_pkey, matches>> /\ pc' = "close" /\ after' = "exit"
    BY <1>4 DEF GivesUp, Leave, ssl
  <2>2. ~Certified'
    BY <2>1 DEF Certified
  <2> QED BY <1>1, <2>1, <2>2, PairKept DEF Main
<1>5. CASE ~Skip /\ UseCertificate
  <2>1. /\ given'[loader] \in matches /\ pubkey' = given'[loader] /\ pc' = "close"
        /\ \/ ctx_cert' = given'[loader] /\ after' = "open for key"
           \/ after' = "exit"
        /\ UNCHANGED <<ctx_pkey, matches>>
    BY <1>5 DEF UseCertificate, Matches, Leave
  <2>2. Certified' => pubkey' = ctx_cert' /\ ctx_cert' \in matches'
    BY <2>1 DEF Certified
  <2>3. matches' \subseteq 1..Len(certs')
    BY <2>1 DEF ProcessInv, Main, StoreCall
  <2> QED BY <1>1, <2>1, <2>2, <2>3 DEF Main
<1> QED BY <1>3, <1>4, <1>5 DEF FindCertificate

LEMMA MainFindKey ==
  ASSUME ProcessInv, StoreCall, FindKey
  PROVE  Main'
<1>1. /\ pc = "find key" /\ open' = open /\ "cng" \in open /\ ctx_pkey = NoKey
      /\ pubkey = ctx_cert /\ ctx_cert \in matches
  BY DEF FindKey, ProcessInv, Main, Searching, Certified
<1>2. after \in {"exit", "open for key", "socket"}
  BY DEF ProcessInv, Main
<1>3. CASE Skip
  BY <1>1, <1>2, <1>3, PairKept DEF Main, Skip, ssl
<1>4. CASE GivesUp
  <2>1. UNCHANGED <<pubkey, ctx_cert, ctx_pkey, matches>> /\ pc' = "close" /\ after' = "exit"
    BY <1>4 DEF GivesUp, Leave, ssl
  <2>2. ~Certified'
    BY <2>1 DEF Certified
  <2> QED BY <1>1, <2>1, <2>2, PairKept DEF Main
<1>5. ASSUME NEW k \in KeyObj, KeyLoaded(k), UsePrivateKey(k) PROVE Main'
  <2>1. k \in held'
    BY <1>5 DEF KeyLoaded
  <2>2. CASE pc' = "exit" /\ UNCHANGED <<ssl, after, matches>>
    <3>1. ~Certified' /\ UNCHANGED <<pubkey, ctx_cert, ctx_pkey, matches>>
      BY <2>2 DEF Certified, ssl
    <3> QED BY <1>1, <1>2, <2>2, <3>1, PairKept DEF Main
  <2>3. CASE /\ KeyOf(k)' = PrivateKey[ctx_cert] /\ ctx_pkey' = k
             /\ Leave("socket") /\ UNCHANGED <<pubkey, ctx_cert, matches>>
    <3>1. ~Certified' /\ ~Searching'
      BY <2>3 DEF Certified, Searching, Leave
    <3>2. matches' \subseteq 1..Len(certs')
      BY <2>3 DEF ProcessInv, Main, StoreCall
    <3>3. KeyOf(ctx_pkey)' = PrivateKey[ctx_cert']
      BY <2>3 DEF KeyOf
    <3> QED BY <1>1, <2>1, <2>3, <3>1, <3>2, <3>3 DEF Main, Leave
  <2> QED BY <1>5, <2>2, <2>3 DEF UsePrivateKey
<1> QED BY <1>3, <1>4, <1>5 DEF FindKey

(* A signature leaves main() alone. *)
LEMMA MainSign ==
  ASSUME ProcessInv, StoreCall, Sign
  PROVE  Main'
<1>1. CASE Straight("handshake", "exit", open)
  BY <1>1, MainAlong
<1>2. CASE ~Straight("handshake", "exit", open)
  <2>1. /\ UNCHANGED <<pubkey, ctx_cert, ctx_pkey, matches, after, open>>
        /\ pc \in Signing \cup {"handshake"} /\ pc' \in Signing \cup {"exit"}
    BY <1>2 DEF Sign, NewSignature, SignInit, SetPadding, SetSalt, FinalSize, Update, DupSignature,
      Refused, Calls, Goes, Final, FreeSignature, ssl, search, Signing
  <2>2. ~Certified' /\ ~Searching' /\ "cng" \in open
    BY <2>1 DEF Certified, Searching, Signing, ProcessInv, Main
  <2>3. after' \in {"exit", "open for key", "socket"}
    BY <2>1 DEF ProcessInv, Main
  <2> QED BY <2>1, <2>2, <2>3, PairKept DEF Main
<1> QED BY <1>1, <1>2

LEMMA MainStep ==
  ASSUME ProcessInv, [Next]_vars
  PROVE  Main'
<1>1. StoreCall
  BY StepCalls
<1>2. CASE UNCHANGED vars
  <2>1. UNCHANGED <<pc, after, open, pubkey, ctx_cert, ctx_pkey, matches>>
    BY <1>2 DEF vars, ssl, search
  <2>2. (Certified' <=> Certified) /\ (Searching' <=> Searching)
    BY <2>1 DEF Certified, Searching
  <2>3. /\ after \in {"exit", "open for key", "socket"} /\ (Searching => ctx_pkey = NoKey)
        /\ Certified => pubkey = ctx_cert /\ ctx_cert \in matches
    BY DEF ProcessInv, Main
  <2>4. pc \notin {"load legacy", "load cng", "returned"} => "cng" \in open
    BY DEF ProcessInv, Main
  <2> QED BY <1>1, <2>1, <2>2, <2>3, <2>4, PairKept DEF Main
<1>3. CASE Next
  BY <1>1, <1>3, MainAlong, MainOpenStore, MainCloseStore, MainFindCertificate, MainFindKey, MainSign
  DEF Next
<1> QED BY <1>2, <1>3
-----------------------------------------------------------------------------
(* Where no signature is being made there is nothing to keep.              *)
LEMMA SignedElsewhere ==
  ASSUME ProcessInv, UNCHANGED signatures, pc \notin {"signed dup", "signed"},
         pc' \notin Signing \ {"unsigned", "finish"}
  PROVE  Fields' /\ Contexts' /\ Keys'
<1>1. /\ UNCHANGED <<stage, hash_handle, alg_identifier, sig_key, sign_hash_flags, pss_salt_len, hash>>
      /\ signature' = signature
  BY DEF signatures
<1>2. Fields'
  BY <1>1 DEF ProcessInv, Fields
<1>3. Contexts'
  BY DEF Contexts, Signing
<1>4. Keys'
  BY <1>1 DEF ProcessInv, Keys, Signing, Sig!NoSignature
<1> QED BY <1>2, <1>3, <1>4

LEMMA SignNewSignature ==
  ASSUME ProcessInv, Sig!NewCtx("ctx"), pc' = "sign init"
  PROVE  Fields' /\ Contexts' /\ Keys'
<1>1. /\ stage' = [stage EXCEPT !["ctx"] = "new"]
      /\ hash_handle' = [hash_handle EXCEPT !["ctx"] = "no hash"]
      /\ alg_identifier' = [alg_identifier EXCEPT !["ctx"] = "unknown"]
      /\ sig_key' = [sig_key EXCEPT !["ctx"] = NoKey]
      /\ sign_hash_flags' = [sign_hash_flags EXCEPT !["ctx"] = "none"]
      /\ pss_salt_len' = [pss_salt_len EXCEPT !["ctx"] = "0"]
      /\ signature' = Sig!NoSignature /\ hash' = hash
  BY DEF Sig!NewCtx, Sig!NoSalt
<1>2. Fields'
  BY <1>1 DEF ProcessInv, Fields
<1>3. Contexts'
  BY <1>1 DEF Contexts, ProcessInv, Fields
<1>4. Keys'
  BY <1>1 DEF Keys, Sig!NoSignature
<1> QED BY <1>2, <1>3, <1>4

LEMMA SignSignInit ==
  ASSUME ProcessInv, Main', SignInit
  PROVE  Fields' /\ Contexts' /\ Keys'
<1>1. PICK to \in {"padding", "unsigned"} :
        /\ Calls("sign init", to) /\ Sig!SignInit("ctx", "SHA256", ctx_pkey)
        /\ to = "padding" <=> stage'["ctx"] = "ready"
  BY DEF SignInit, Alg
<1>2. /\ pc = "sign init" /\ pc' = to /\ UNCHANGED <<ctx_cert, ctx_pkey>>
      /\ ctx_pkey # NoKey
      /\ sign_hash_flags["ctx"] = "none" /\ pss_salt_len["ctx"] = "0"
  BY <1>1 DEF Calls, Goes, ssl, Sig!SignInit, ProcessInv, Contexts
<1>3. /\ alg_identifier' = [alg_identifier EXCEPT !["ctx"] = "SHA256"]
      /\ sig_key' = [sig_key EXCEPT !["ctx"] = ctx_pkey] /\ ctx_pkey \in KeyObj
      /\ UNCHANGED <<sign_hash_flags, pss_salt_len>> /\ signature' = Sig!NoSignature
  BY <1>1, <1>2 DEF Sig!SignInit, Sig!RecordDigest, ProcessInv, Main, SP!Safe, SP!Owned, SP!TypeOK
<1>4. \/ /\ stage' = [stage EXCEPT !["ctx"] = "failed"] /\ to # "padding"
         /\ UNCHANGED <<hash_handle, hash>>
      \/ /\ stage' = [stage EXCEPT !["ctx"] = "ready"]
         /\ \E h \in {"hash 1", "hash 2"} :
              /\ hash_handle' = [hash_handle EXCEPT !["ctx"] = h]
              /\ hash' = [hash EXCEPT ![h] = [state |-> "open", alg |-> "SHA256", data |-> <<>>]]
  BY <1>1 DEF Sig!SignInit, Sig!ClosedHash, ProcessInv, Fields
<1>5. CASE UNCHANGED <<hash_handle, hash>> /\ stage' = [stage EXCEPT !["ctx"] = "failed"] /\ to # "padding"
  <2>1. Fields'
    BY <1>3, <1>5 DEF ProcessInv, Fields
  <2>2. Contexts'
    BY <1>2, <1>5, <1>1 DEF Contexts
  <2>3. Keys'
    BY <1>1, <1>2, <1>3, <1>5 DEF Keys, Sig!NoSignature
  <2> QED BY <2>1, <2>2, <2>3
<1>6. ASSUME NEW h \in {"hash 1", "hash 2"}, stage' = [stage EXCEPT !["ctx"] = "ready"],
             hash_handle' = [hash_handle EXCEPT !["ctx"] = h],
             hash' = [hash EXCEPT ![h] = [state |-> "open", alg |-> "SHA256", data |-> <<>>]]
      PROVE  Fields' /\ Contexts' /\ Keys'
  <2>1. Fields'
    <3>1. <<>> \in Seq({"transcript"})
      BY EmptySeq
    <3>2. [state |-> "open", alg |-> "SHA256", data |-> <<>>] \in HashState
      BY <3>1 DEF HashState
    <3> QED BY <1>3, <1>6, <3>2 DEF ProcessInv, Fields
  <2>2. sig_key'["ctx"] = ctx_pkey
    BY <1>3 DEF ProcessInv, Fields
  <2>3. Stands("ctx", <<>>, "none", "0")'
    <3>1. ~stray' => KeyOf(sig_key["ctx"])' = PrivateKey[ctx_cert']
      BY <1>2, <2>2 DEF Main, KeyOf
    <3> QED BY <1>2, <1>3, <1>6, <3>1 DEF Stands, ProcessInv, Fields
  <2>4. Contexts'
    BY <1>1, <1>2, <2>3 DEF Contexts
  <2>5. Keys'
    BY <1>1, <1>2, <1>3, <2>2 DEF Keys, Sig!NoSignature
  <2> QED BY <2>1, <2>4, <2>5
<1> QED BY <1>4, <1>5, <1>6

LEMMA OneBlock ==
  /\ Append(<<>>, "transcript") = <<"transcript">>
  /\ <<"transcript">> \in Seq({"transcript"})
<1> DEFINE S == {"transcript"}
<1>1. <<>> \in Seq(S) /\ Len(<<>>) = 0 /\ "transcript" \in S
  BY EmptySeq
<1>2. /\ Append(<<>>, "transcript") \in Seq(S)
      /\ Len(Append(<<>>, "transcript")) = 1
      /\ Append(<<>>, "transcript")[1] = "transcript"
  BY <1>1, AppendProperties
<1>3. <<"transcript">> \in Seq(S) /\ Len(<<"transcript">>) = 1 /\ <<"transcript">>[1] = "transcript"
  OBVIOUS
<1> QED BY <1>2, <1>3, SeqEqual

LEMMA RecordData ==
  ASSUME NEW d, NEW v, v = [state |-> "open", alg |-> "SHA256", data |-> d]
  PROVE  /\ v.alg = "SHA256" /\ v.data = d
         /\ \A e : [v EXCEPT !.data = e] = [state |-> "open", alg |-> "SHA256", data |-> e]
OBVIOUS

(* The transcript, the padding and the salt, on a context that keeps its   *)
(* key: what SetParams and Update leave of it.                             *)
LEMMA KeyOfContext ==
  ASSUME ProcessInv, pc \in {"padding", "salt", "size", "update", "dup"},
         StoreCall, Main', UNCHANGED <<ctx_cert, ctx_pkey>>, sig_key'["ctx"] = sig_key["ctx"]
  PROVE  /\ sig_key["ctx"] = ctx_pkey /\ ctx_pkey # NoKey
         /\ ~stray' => KeyOf(sig_key["ctx"])' = PrivateKey[ctx_cert']
<1>1. sig_key["ctx"] = ctx_pkey /\ ctx_pkey # NoKey
  BY DEF ProcessInv, Keys
<1>2. ~stray' => KeyOf(ctx_pkey)' = PrivateKey[ctx_cert']
  BY <1>1 DEF Main
<1> QED BY <1>1, <1>2 DEF KeyOf

LEMMA SignSetParams ==
  ASSUME ProcessInv, StoreCall, Main', SetPadding \/ SetSalt
  PROVE  Fields' /\ Contexts' /\ Keys'
<1>1. PICK pad \in {"int pss", "absent"}, salt \in {"absent", "str digest", "no digest length"} :
        /\ Sig!SetParams("ctx", pad, salt)
        /\ \/ pad = "int pss" /\ salt = "absent" /\ Calls("padding", "salt")
           \/ pad = "absent" /\ salt = "str digest" /\ Calls("salt", "size")
           \/ pad = "absent" /\ salt = "no digest length" /\ Calls("salt", "unsigned")
  BY DEF SetPadding, SetSalt
<1> DEFINE flags == Sig!FlagsAfter("ctx", pad)
           length == Sig!SaltAfter("ctx", salt)
<1>2. /\ UNCHANGED <<stage, hash_handle, alg_identifier, sig_key, hash, ctx_cert, ctx_pkey>>
      /\ sign_hash_flags' = [sign_hash_flags EXCEPT !["ctx"] = flags]
      /\ pss_salt_len' = [pss_salt_len EXCEPT !["ctx"] = length]
      /\ signature' = Sig!NoSignature
  BY <1>1 DEF Sig!SetParams, Calls, Goes, ssl
<1>3. CASE pc = "padding"
  <2>1. pc' = "salt" /\ pad = "int pss" /\ salt = "absent"
    BY <1>1, <1>3 DEF Calls, Goes
  <2>2. Stands("ctx", <<>>, "none", "0")
    BY <1>3 DEF ProcessInv, Contexts
  <2>3. flags = "pss" /\ length = "0"
    BY <2>1, <2>2 DEF Sig!FlagsAfter, Sig!PadNamed, Sig!PadParam, Sig!SaltAfter, Stands
  <2>4. ~stray' => KeyOf(sig_key["ctx"])' = PrivateKey[ctx_cert']
    BY <1>2, <1>3, KeyOfContext
  <2> HIDE DEF flags, length
  <2>5. Fields'
    BY <1>2, <2>3 DEF ProcessInv, Fields
  <2>6. Stands("ctx", <<>>, "pss", "0")'
    BY <1>2, <2>2, <2>3, <2>4 DEF Stands, ProcessInv, Fields
  <2>7. Contexts'
    BY <2>1, <2>6 DEF Contexts
  <2>8. Keys'
    BY <1>2, <1>3, <2>1 DEF Keys, ProcessInv, Sig!NoSignature
  <2> QED BY <2>5, <2>7, <2>8
<1>4. CASE pc # "padding"
  <2>1. pc = "salt" /\ pad = "absent"
    BY <1>1, <1>4 DEF Calls, Goes
  <2>2. Stands("ctx", <<>>, "pss", "0")
    BY <2>1 DEF ProcessInv, Contexts
  <2>3. /\ flags = "pss" /\ length \in {"0", "SHA256"}
        /\ (pc' = "size" /\ length = "SHA256") \/ pc' = "unsigned"
    <3>1. flags = "pss"
      BY <2>1, <2>2 DEF Sig!FlagsAfter, Stands
    <3>2. CASE salt = "str digest"
      <4>1. hash[hash_handle["ctx"]].alg = "SHA256"
        <5>1. PICK d : hash[hash_handle["ctx"]] = [state |-> "open", alg |-> "SHA256", data |-> d]
          BY <2>2 DEF Stands
        <5> QED BY <5>1, RecordData, Zenon
      <4> QED BY <1>1, <2>1, <3>1, <3>2, <4>1 DEF Calls, Goes, Sig!SaltAfter
    <3>3. CASE salt = "no digest length"
      BY <1>1, <2>1, <3>1, <3>3 DEF Calls, Goes, Sig!SaltAfter, Sig!NoSalt
    <3> QED BY <1>1, <2>1, <3>2, <3>3 DEF Calls, Goes
  <2>4. ~stray' => KeyOf(sig_key["ctx"])' = PrivateKey[ctx_cert']
    BY <1>2, <2>1, KeyOfContext
  <2> HIDE DEF flags, length
  <2>5. Fields'
    BY <1>2, <2>3 DEF ProcessInv, Fields
  <2>6. pc' = "size" => Stands("ctx", <<>>, "pss", "SHA256")'
    BY <1>2, <2>2, <2>3, <2>4 DEF Stands, ProcessInv, Fields
  <2>7. Contexts'
    BY <2>3, <2>6 DEF Contexts
  <2>8. Keys'
    BY <1>2, <2>1, <2>3 DEF Keys, ProcessInv, Sig!NoSignature
  <2> QED BY <2>5, <2>7, <2>8
<1> QED BY <1>3, <1>4

(* A call of the provider that refuses, or only asks for the size. *)
LEMMA SignRefused ==
  ASSUME ProcessInv, StoreCall, Main', FinalSize \/ Refused("update")
  PROVE  Fields' /\ Contexts' /\ Keys'
<1>1. /\ UNCHANGED <<stage, hash_handle, alg_identifier, sig_key, sign_hash_flags, pss_salt_len, hash,
                     ctx_cert, ctx_pkey>>
      /\ pc \in {"size", "update"} /\ pc' \in {"update", "unsigned"}
      /\ signature' \in {signature, Sig!NoSignature}
  BY DEF FinalSize, Refused, Calls, Goes, signatures, ssl, Sig!FinalSize, Sig!ctx_fields
<1>2. Stands("ctx", <<>>, "pss", "SHA256") /\ signature = Sig!NoSignature
  BY <1>1 DEF ProcessInv, Contexts, Keys
<1>3. ~stray' => KeyOf(sig_key["ctx"])' = PrivateKey[ctx_cert']
  BY <1>1, KeyOfContext
<1>4. Stands("ctx", <<>>, "pss", "SHA256")'
  BY <1>1, <1>2, <1>3 DEF Stands
<1>5. Fields'
  BY <1>1 DEF ProcessInv, Fields
<1>6. Contexts'
  BY <1>1, <1>4 DEF Contexts
<1>7. Keys'
  BY <1>1, <1>2 DEF Keys, ProcessInv, Sig!NoSignature
<1> QED BY <1>5, <1>6, <1>7

LEMMA SignUpdate ==
  ASSUME ProcessInv, StoreCall, Main', Calls("update", "dup"), Sig!Update("ctx", "transcript")
  PROVE  Fields' /\ Contexts' /\ Keys'
<1> DEFINE h == hash_handle["ctx"]
           fresh == [state |-> "open", alg |-> "SHA256", data |-> <<"transcript">>]
<1>1. /\ UNCHANGED <<stage, hash_handle, alg_identifier, sig_key, sign_hash_flags, pss_salt_len,
                     ctx_cert, ctx_pkey>>
      /\ hash' = [hash EXCEPT ![h].data = Append(@, "transcript")]
      /\ pc = "update" /\ pc' = "dup" /\ signature' = Sig!NoSignature
  BY DEF Calls, Goes, ssl, Sig!Update, Sig!ctx_fields
<1>2. Stands("ctx", <<>>, "pss", "SHA256")
  BY <1>1 DEF ProcessInv, Contexts
<1>3. h \in {"hash 1", "hash 2"} /\ hash[h] = [state |-> "open", alg |-> "SHA256", data |-> <<>>]
  BY <1>2 DEF Stands
<1>4. hash' = [hash EXCEPT ![h] = fresh]
  <2>1. hash' = [hash EXCEPT ![h] = [hash[h] EXCEPT !.data = Append(hash[h].data, "transcript")]]
    BY <1>1, Zenon
  <2>2. [hash[h] EXCEPT !.data = Append(hash[h].data, "transcript")] = fresh
    <3>1. PICK v : v = hash[h]
      OBVIOUS
    <3>2. PICK d : d = <<>> /\ v = [state |-> "open", alg |-> "SHA256", data |-> d]
      BY <1>3, <3>1
    <3>3. PICK t : t = <<"transcript">>
      OBVIOUS
    <3>4. v.data = d
      BY <3>2
    <3>5. Append(v.data, "transcript") = t
      BY <3>2, <3>3, <3>4, OneBlock
    <3>6. [v EXCEPT !.data = t] = [state |-> "open", alg |-> "SHA256", data |-> t]
      BY <3>2
    <3>7. [v EXCEPT !.data = Append(v.data, "transcript")] = fresh
      BY <3>3, <3>5, <3>6
    <3> QED BY <3>1, <3>7
  <2> QED BY <2>1, <2>2
<1>5. fresh \in HashState
  BY OneBlock DEF HashState
<1> HIDE DEF h, fresh
<1>6. hash' \in [{"hash 1", "hash 2"} -> HashState] /\ hash'[h] = fresh
  BY <1>3, <1>4, <1>5 DEF ProcessInv, Fields
<1>7. ~stray' => KeyOf(sig_key["ctx"])' = PrivateKey[ctx_cert']
  BY <1>1, KeyOfContext
<1>8. Fields'
  BY <1>1, <1>6 DEF ProcessInv, Fields
<1>9. Stands("ctx", <<"transcript">>, "pss", "SHA256")'
  BY <1>1, <1>2, <1>6, <1>7 DEF Stands, h, fresh
<1>10. Contexts'
  BY <1>1, <1>9 DEF Contexts
<1>11. Keys'
  BY <1>1 DEF Keys, ProcessInv, Sig!NoSignature
<1> QED BY <1>8, <1>10, <1>11

(* The duplicate gets the fields, the data and the key of the original.    *)
LEMMA SignDup ==
  ASSUME ProcessInv, StoreCall, Main', Goes("dup", "sign dup"), Sig!DupCtx("ctx", "dup")
  PROVE  Fields' /\ Contexts' /\ Keys'
<1>1. /\ pc = "dup" /\ pc' = "sign dup" /\ UNCHANGED <<ctx_cert, ctx_pkey>>
      /\ stage' = [stage EXCEPT !["dup"] = "ready"]
      /\ alg_identifier' = [alg_identifier EXCEPT !["dup"] = alg_identifier["ctx"]]
      /\ sign_hash_flags' = [sign_hash_flags EXCEPT !["dup"] = sign_hash_flags["ctx"]]
      /\ pss_salt_len' = [pss_salt_len EXCEPT !["dup"] = pss_salt_len["ctx"]]
      /\ signature' = Sig!NoSignature
  BY DEF Goes, ssl, Sig!DupCtx, Sig!CopyFields
<1>2. Stands("ctx", <<"transcript">>, "pss", "SHA256")
  BY <1>1 DEF ProcessInv, Contexts
<1>3. PICK h \in {"hash 1", "hash 2"} :
        /\ hash' = [hash EXCEPT ![h] = hash[hash_handle["ctx"]]]
        /\ hash_handle' = [hash_handle EXCEPT !["dup"] = h]
  BY DEF Sig!DupCtx, Sig!ClosedHash
<1>4. PICK k \in KeyObj :
        /\ [x \in KeyObj |-> KeyOf(x)'] =
             [[x \in KeyObj |-> KeyOf(x)] EXCEPT ![k] = [x \in KeyObj |-> KeyOf(x)][sig_key["ctx"]]]
        /\ sig_key' = [sig_key EXCEPT !["dup"] = k]
  BY DEF Sig!DupCtx, Sig!FreeKeyObj
<1>5. sig_key["ctx"] = ctx_pkey /\ ctx_pkey # NoKey /\ ctx_pkey \in KeyObj
  BY <1>1 DEF ProcessInv, Keys, Main, SP!Safe, SP!Owned, SP!TypeOK
<1>6. KeyOf(k)' = KeyOf(ctx_pkey)
  <2>1. [x \in KeyObj |-> KeyOf(x)'][k] = [x \in KeyObj |-> KeyOf(x)][ctx_pkey]
    BY <1>4, <1>5
  <2> QED BY <2>1, <1>5
<1>7. ~stray' => KeyOf(k)' = PrivateKey[ctx_cert']
  BY <1>1, <1>5, <1>6, StoreStep DEF ProcessInv, Main
<1>8. Fields'
  <2>1. hash[hash_handle["ctx"]] \in HashState
    BY <1>2 DEF Stands, ProcessInv, Fields
  <2>2. hash' \in [{"hash 1", "hash 2"} -> HashState]
    BY <1>3, <2>1 DEF ProcessInv, Fields
  <2> QED BY <1>1, <1>3, <1>4, <2>2 DEF ProcessInv, Fields
<1>9. sig_key'["dup"] = k /\ hash_handle'["dup"] = h /\ hash'[h] = hash[hash_handle["ctx"]]
  BY <1>3, <1>4 DEF ProcessInv, Fields
<1>10. Stands("dup", <<"transcript">>, "pss", "SHA256")'
  <2>1. ~stray' => KeyOf(sig_key["dup"])' = PrivateKey[ctx_cert']
    BY <1>7, <1>9 DEF KeyOf
  <2>2. /\ alg_identifier'["dup"] = "SHA256" /\ sign_hash_flags'["dup"] = "pss"
        /\ pss_salt_len'["dup"] = "SHA256"
    BY <1>1, <1>2 DEF Stands, ProcessInv, Fields
  <2>3. hash'[hash_handle'["dup"]] = [state |-> "open", alg |-> "SHA256", data |-> <<"transcript">>]
    BY <1>2, <1>9 DEF Stands
  <2> QED BY <1>9, <2>1, <2>2, <2>3 DEF Stands
<1>11. Contexts'
  BY <1>1, <1>10 DEF Contexts
<1>12. Keys'
  BY <1>1, <1>5 DEF Keys, Sig!NoSignature
<1> QED BY <1>8, <1>11, <1>12

(* Without a duplicate the original is still there. *)
LEMMA SignDupFails ==
  ASSUME ProcessInv, StoreCall, Main', Goes("dup", "sign ctx"), Sig!DupCtxFails("ctx", "dup")
  PROVE  Fields' /\ Contexts' /\ Keys'
<1>1. /\ pc = "dup" /\ pc' = "sign ctx"
      /\ UNCHANGED <<ctx_cert, ctx_pkey, hash_handle, alg_identifier, sig_key, sign_hash_flags, pss_salt_len>>
      /\ stage' = [stage EXCEPT !["dup"] = "lost"]
      /\ signature' = Sig!NoSignature
  BY DEF Goes, ssl, Sig!DupCtxFails, Sig!ctx_fields
<1>2. Stands("ctx", <<"transcript">>, "pss", "SHA256")
  BY <1>1 DEF ProcessInv, Contexts
<1>3. /\ hash' \in [{"hash 1", "hash 2"} -> HashState]
      /\ hash'[hash_handle["ctx"]] = hash[hash_handle["ctx"]]
  <2>1. /\ hash \in [{"hash 1", "hash 2"} -> HashState]
        /\ hash_handle["ctx"] \in {"hash 1", "hash 2"}
    BY <1>2 DEF ProcessInv, Fields, Stands
  <2>2. CASE UNCHANGED hash
    BY <2>1, <2>2
  <2>3. ASSUME NEW h \in {"hash 1", "hash 2"}, hash' = [hash EXCEPT ![h] = hash[hash_handle["ctx"]]]
        PROVE  /\ hash' \in [{"hash 1", "hash 2"} -> HashState]
               /\ hash'[hash_handle["ctx"]] = hash[hash_handle["ctx"]]
    BY <2>1, <2>3
  <2> QED BY <2>2, <2>3 DEF Sig!DupCtxFails, Sig!ClosedHash
<1>4. ~stray' => KeyOf(sig_key["ctx"])' = PrivateKey[ctx_cert']
  BY <1>1, KeyOfContext
<1>5. Fields'
  BY <1>1, <1>3 DEF ProcessInv, Fields
<1>6. Stands("ctx", <<"transcript">>, "pss", "SHA256")'
  BY <1>1, <1>2, <1>3, <1>4 DEF Stands
<1>7. Contexts'
  BY <1>1, <1>6 DEF Contexts
<1>8. Keys'
  BY <1>1 DEF ProcessInv, Keys, Sig!NoSignature
<1> QED BY <1>5, <1>7, <1>8

(* What a signing call writes. *)
LEMMA FinalSigns ==
  ASSUME ProcessInv, StoreCall, NEW c \in {"ctx", "dup"}, Sig!Final(c), Main',
         Stands(c, <<"transcript">>, "pss", "SHA256"), pc \in {"sign dup", "sign ctx"},
         UNCHANGED <<ctx_cert, ctx_pkey, matches, stray>>, signature' # Sig!NoSignature, ~stray
  PROVE  /\ ctx_cert \in matches /\ signature'.key = PrivateKey[ctx_cert]
         /\ signature'.data = <<"transcript">>
         /\ signature'.pad = "pss" /\ signature'.salt = signature'.pad_alg
<1>1. ctx_cert \in matches
  BY DEF ProcessInv, Keys, Main
<1>2. signature' = Sig!SignatureOf(c)
  BY DEF Sig!Final
<1>3. hash[hash_handle[c]].data = <<"transcript">>
  <2>1. PICK d : d = <<"transcript">> /\ hash[hash_handle[c]] =
                   [state |-> "open", alg |-> "SHA256", data |-> d]
    BY DEF Stands
  <2> QED BY <2>1, RecordData, Zenon
<1>4. PICK a, d, g, p, s, k :
        /\ signature' = [ctx |-> c, alg |-> a, data |-> d, pad_alg |-> g, pad |-> p, salt |-> s, key |-> k]
        /\ d = hash[hash_handle[c]].data /\ g = alg_identifier[c] /\ p = sign_hash_flags[c]
        /\ s = pss_salt_len[c] /\ k = [x \in KeyObj |-> KeyOf(x)][sig_key[c]]
  BY <1>2, Zenon DEF Sig!SignatureOf
<1>5. d = <<"transcript">> /\ p = "pss" /\ g = "SHA256" /\ s = "SHA256"
  BY <1>3, <1>4 DEF Stands
<1>6. k = PrivateKey[ctx_cert]
  BY <1>4 DEF Stands
<1>7. signature'.key = k /\ signature'.data = d /\ signature'.pad = p /\ signature'.salt = s
      /\ signature'.pad_alg = g
  BY <1>4
<1> QED BY <1>1, <1>5, <1>6, <1>7

LEMMA SignFinal ==
  ASSUME ProcessInv, NEW c \in {"ctx", "dup"}, NEW from, NEW to, NEW otherwise,
         Final(c, from, to, otherwise),
         <<from, to, otherwise>> \in {<<"sign dup", "signed dup", "unsigned dup">>,
                                      <<"sign ctx", "signed", "unsigned">>}
  PROVE  Fields' /\ Contexts' /\ Keys'
<1>1. /\ UNCHANGED <<stage, hash_handle, alg_identifier, sig_key, sign_hash_flags, pss_salt_len>>
      /\ hash' = [hash EXCEPT ![hash_handle[c]].state = "finished"]
      /\ pc' = IF signature' # Sig!NoSignature THEN to ELSE otherwise
  BY DEF Final, Sig!Final, Sig!ctx_fields
<1>2. Fields'
  <2>1. hash' = [hash EXCEPT ![hash_handle[c]] = [hash[hash_handle[c]] EXCEPT !.state = "finished"]]
    BY <1>1, Zenon
  <2>2. hash' \in [{"hash 1", "hash 2"} -> HashState]
    <3>1. hash \in [{"hash 1", "hash 2"} -> HashState]
      BY DEF ProcessInv, Fields
    <3>2. \A v \in HashState : [v EXCEPT !.state = "finished"] \in HashState
      BY DEF HashState
    <3>3. ASSUME hash_handle[c] \in {"hash 1", "hash 2"}
          PROVE  [hash[hash_handle[c]] EXCEPT !.state = "finished"] \in HashState
      BY <3>1, <3>2, <3>3
    <3> QED BY <2>1, <3>1, <3>3
  <2> QED BY <1>1, <2>2 DEF ProcessInv, Fields
<1>3. pc' \in {"signed dup", "unsigned dup", "signed", "unsigned"}
  BY <1>1
<1>4. Contexts'
  BY <1>3 DEF Contexts
<1>5. signature' # Sig!NoSignature => pc' \in {"signed dup", "signed"}
  BY <1>1
<1>6. Keys'
  BY <1>3, <1>5 DEF Keys, Sig!NoSignature
<1> QED BY <1>2, <1>4, <1>6

LEMMA SignFree ==
  ASSUME ProcessInv, NEW c \in {"ctx", "dup"}, Sig!FreeCtx(c),
         pc' \in {"signed", "unsigned", "finish", "exit"}
  PROVE  Fields' /\ Contexts' /\ Keys'
<1>1. /\ stage' = [stage EXCEPT ![c] = "free"]
      /\ hash_handle' = [hash_handle EXCEPT ![c] = "no hash"]
      /\ alg_identifier' = [alg_identifier EXCEPT ![c] = "unknown"]
      /\ sig_key' = [sig_key EXCEPT ![c] = NoKey]
      /\ sign_hash_flags' = [sign_hash_flags EXCEPT ![c] = "none"]
      /\ pss_salt_len' = [pss_salt_len EXCEPT ![c] = "0"]
      /\ hash' = [h \in {"hash 1", "hash 2"} |-> IF h = hash_handle[c] THEN Sig!Closed ELSE hash[h]]
      /\ signature' = Sig!NoSignature
  BY DEF Sig!FreeCtx, Sig!Clear, Sig!DestroyHash, Sig!NoSalt
<1>2. Sig!Closed \in HashState
  <2>1. <<>> \in Seq({"transcript"})
    BY EmptySeq
  <2> QED BY <2>1 DEF Sig!Closed, HashState
<1>3. Fields'
  BY <1>1, <1>2 DEF ProcessInv, Fields
<1>4. Contexts'
  BY DEF Contexts
<1>5. Keys'
  BY <1>1 DEF Keys, Sig!NoSignature
<1> QED BY <1>3, <1>4, <1>5

LEMMA SignStep ==
  ASSUME ProcessInv, StoreCall, Main', Sign
  PROVE  Fields' /\ Contexts' /\ Keys'
<1>1. CASE NewSignature
  <2>1. CASE Sig!NewCtx("ctx") /\ pc' = "sign init"
    BY <2>1, SignNewSignature
  <2>2. CASE Straight("handshake", "exit", open)
    <3>1. UNCHANGED signatures /\ pc = "handshake" /\ pc' = "exit"
      BY <2>2 DEF Straight
    <3> QED BY <3>1, SignedElsewhere DEF Signing
  <2> QED BY <1>1, <2>1, <2>2 DEF NewSignature, Calls, Goes
<1>2. CASE SignInit \/ SetPadding \/ SetSalt \/ FinalSize
  BY <1>2, SignSignInit, SignSetParams, SignRefused
<1>3. CASE Update
  BY <1>3, SignUpdate, SignRefused DEF Update
<1>4. CASE DupSignature
  BY <1>4, SignDup, SignDupFails DEF DupSignature
<1>5. CASE Final("dup", "sign dup", "signed dup", "unsigned dup")
  BY <1>5, SignFinal, Zenon
<1>6. CASE Final("ctx", "sign ctx", "signed", "unsigned")
  BY <1>6, SignFinal, Zenon
<1>7. CASE \/ FreeSignature("dup", "signed dup", "signed")
           \/ FreeSignature("dup", "unsigned dup", "unsigned")
           \/ FreeSignature("ctx", "signed", "finish")
           \/ FreeSignature("ctx", "unsigned", "exit")
  BY <1>7, SignFree DEF FreeSignature, Calls, Goes
<1> QED BY <1>1, <1>2, <1>3, <1>4, <1>5, <1>6, <1>7 DEF Sign

(* A step that is not of a signature. *)
LEMMA OtherStep ==
  ASSUME ProcessInv, Next, ~Sign
  PROVE  Fields' /\ Contexts' /\ Keys'
<1>1. UNCHANGED signatures /\ pc \notin Signing \ {"finish"} /\ pc' \notin Signing
  <2>1. CASE FindCertificate \/ FindKey
    BY <2>1 DEF FindCertificate, FindKey, GivesUp, UseCertificate, UsePrivateKey, Skip, Leave, Signing
  <2>2. CASE CloseStore
    BY <2>2 DEF CloseStore, ProcessInv, Main, Signing
  <2>3. CASE OpenStore("open for certificate", "find certificate") \/ OpenStore("open for key", "find key")
    BY <2>3 DEF OpenStore, Signing
  <2>4. CASE LoadLegacy \/ LoadCng \/ LoadDefault \/ StartWinsock \/ CreateContext
    BY <2>4 DEF LoadLegacy, LoadCng, LoadDefault, StartWinsock, CreateContext, Acquire, Straight, Signing
  <2>5. CASE CreateSocket \/ Connect \/ Converse \/ Exit
    BY <2>5 DEF CreateSocket, Connect, Converse, Exit, Acquire, Straight, Signing
  <2> QED BY <2>1, <2>2, <2>3, <2>4, <2>5 DEF Next
<1> QED BY <1>1, SignedElsewhere DEF Signing

LEMMA UnmoduledStep == ASSUME Unmoduled, [Next]_vars PROVE Unmoduled'
<1>1. \/ open' \subseteq open
      \/ \E r \in {"legacy", "cng", "default", "winsock", "ssl_ctx", "socket", "ssl"} :
           open' = open \cup {r}
  BY DEF Next, vars, LoadLegacy, LoadCng, LoadDefault, StartWinsock, CreateContext, OpenStore,
     FindCertificate, FindKey, CloseStore, CreateSocket, Connect, Exit, Converse, Acquire, Straight,
     Sign, NewSignature, SignInit, SetPadding, SetSalt, FinalSize, Update, Refused, DupSignature,
     Calls, Goes, Final, FreeSignature
<1> QED BY <1>1 DEF Unmoduled

LEMMA InvStep == ProcessInv /\ [Next]_vars => ProcessInv'
<1> SUFFICES ASSUME ProcessInv, [Next]_vars PROVE ProcessInv'
  OBVIOUS
<1>1. StoreCall /\ Main'
  BY StepCalls, MainStep
<1>2. SP!Safe' /\ SP!Positions' /\ Unmoduled'
  BY <1>1, StoreStep, UnmoduledStep DEF ProcessInv
<1>3. CASE UNCHANGED vars
  <2>1. /\ UNCHANGED <<stage, hash_handle, alg_identifier, sig_key, sign_hash_flags, pss_salt_len, hash,
                       signature, pc, ctx_cert, ctx_pkey, stray>>
        /\ \A k : KeyOf(k)' = KeyOf(k)
    BY <1>3 DEF vars, signatures, ssl, provider, KeyOf
  <2>2. ASSUME NEW c, NEW data, NEW pad, NEW salt, Stands(c, data, pad, salt)
        PROVE  Stands(c, data, pad, salt)'
    <3>1. KeyOf(sig_key[c])' = KeyOf(sig_key[c])
      BY <2>1 DEF KeyOf
    <3> QED BY <2>1, <2>2, <3>1 DEF Stands
  <2>3. Contexts'
    BY <2>1, <2>2 DEF ProcessInv, Contexts
  <2>4. Fields' /\ Keys'
    BY <2>1 DEF ProcessInv, Fields, Keys, Sig!NoSignature
  <2> QED BY <1>1, <1>2, <2>3, <2>4 DEF ProcessInv
<1>4. CASE Next
  BY <1>1, <1>2, <1>4, SignStep, OtherStep DEF ProcessInv
<1> QED BY <1>3, <1>4

LEMMA InvInit == Init => ProcessInv
<1> SUFFICES ASSUME Init PROVE ProcessInv
  OBVIOUS
<1>1. SP!Init
  BY SameInit DEF Init
<1>2. SP!Safe /\ SP!Positions
  BY <1>1, StoreAssumed, SP!SafeInit, SP!PositionsInit
<1>3. Main /\ Unmoduled
  BY DEF Init, Main, Certified, Unmoduled
<1>4. Fields
  <2>1. <<>> \in Seq({"transcript"})
    BY EmptySeq
  <2>2. Sig!Closed \in HashState
    BY <2>1 DEF Sig!Closed, HashState
  <2> QED BY <2>2 DEF Init, Sig!Init, Sig!NoSalt, Fields
<1>5. Contexts
  BY DEF Init, Contexts
<1>6. Keys
  BY DEF Init, Sig!Init, Keys
<1> QED BY <1>2, <1>3, <1>4, <1>5, <1>6 DEF ProcessInv

LEMMA AlwaysInv == Spec => []ProcessInv
BY InvInit, InvStep, PTL DEF Spec

(* Every signature that leaves the process is made with the private key of *)
(* the certificate in the SSL_CTX, over the transcript, padded with PSS    *)
(* and a salt of the length of the digest, whatever was read ahead, left   *)
(* behind, duplicated or refused before.                                   *)
THEOREM ProcessSignsForItsCertificate == Spec => SignsForItsCertificate
<1> DEFINE Signs ==
      signature' # Sig!NoSignature /\ ~stray =>
        /\ ctx_cert \in matches /\ signature'.key = PrivateKey[ctx_cert]
        /\ signature'.data = <<"transcript">>
        /\ signature'.pad = "pss" /\ signature'.salt = signature'.pad_alg
<1>1. ASSUME ProcessInv, Next, vars' # vars, signature' # Sig!NoSignature, ~stray
      PROVE  /\ ctx_cert \in matches /\ signature'.key = PrivateKey[ctx_cert]
             /\ signature'.data = <<"transcript">>
             /\ signature'.pad = "pss" /\ signature'.salt = signature'.pad_alg
  <2>1. StoreCall /\ Main' /\ ProcessInv'
    BY <1>1, StepCalls, MainStep, InvStep
  <2>2. pc' \in {"signed dup", "signed"}
    BY <1>1, <2>1 DEF ProcessInv, Keys, Sig!NoSignature
  <2>3. Sign
    BY <1>1, <2>2 DEF Next, FindCertificate, FindKey, GivesUp, UseCertificate, UsePrivateKey, Skip, Leave,
      CloseStore, OpenStore, LoadLegacy, LoadCng, LoadDefault, StartWinsock, CreateContext, CreateSocket,
      Connect, Converse, Exit, Acquire, Straight, ProcessInv, Main
  <2>4. \E c \in {"ctx", "dup"} :
          /\ Sig!Final(c) /\ Stands(c, <<"transcript">>, "pss", "SHA256")
          /\ pc \in {"sign dup", "sign ctx"}
          /\ UNCHANGED <<ctx_cert, ctx_pkey, matches, stray>>
    <3>1. CASE Final("dup", "sign dup", "signed dup", "unsigned dup")
      BY <1>1, <3>1 DEF Final, ssl, search, provider, ProcessInv, Contexts
    <3>2. CASE Final("ctx", "sign ctx", "signed", "unsigned")
      BY <1>1, <3>2 DEF Final, ssl, search, provider, ProcessInv, Contexts
    <3>3. CASE FreeSignature("dup", "signed dup", "signed")
      BY <1>1, <3>3 DEF FreeSignature, Sig!FreeCtx, Sig!Clear
    <3>4. QED BY <1>1, <2>2, <2>3, <3>1, <3>2, <3>3 DEF Sign, NewSignature, SignInit, SetPadding, SetSalt,
      FinalSize, Update, Refused, DupSignature, Calls, Goes, Straight, FreeSignature
  <2> QED BY <1>1, <2>1, <2>4, FinalSigns
<1>2. ProcessInv /\ [Next]_vars => [Signs]_vars
  BY <1>1
<1> QED BY <1>2, AlwaysInv, PTL DEF Spec, SignsForItsCertificate
-----------------------------------------------------------------------------
(* The steps of the client that the process follows.  What the client sees *)
(* of the SSL_CTX is the certificate whose key is there.                   *)
ClientPc == IF pc \in Signing THEN "handshake" ELSE pc
ClientKey == IF ctx_pkey = NoKey THEN 0 ELSE names[windows_key_handle[ctx_pkey]]
ClientTwins == IF pubkey = 0 THEN {} ELSE {pubkey}

LEMMA ClientKeyStays ==
  ASSUME ProcessInv, StoreCall, ~stray', ctx_pkey' = ctx_pkey
  PROVE  ClientKey' = ClientKey
<1>1. CASE ctx_pkey = NoKey
  BY <1>1 DEF ClientKey
<1>2. CASE ctx_pkey # NoKey
  <2>1. ctx_pkey \in held
    BY <1>2 DEF ProcessInv, Main
  <2> QED BY <1>2, <2>1, KeyStays DEF ProcessInv, ClientKey
<1> QED BY <1>1, <1>2

(* A step that the client does not see in the store. *)
LEMMA StoreUnseen ==
  ASSUME UNCHANGED <<certs, is_open, given, failed, cert_store_eof, priv_key_store_eof, stray>>
  PROVE  UNCHANGED Client!store
BY DEF Client!store, Store!Usable, Store!Size

(* The client's stream is the one that CngStoreProofs speaks of. *)
LEMMA SameStream ==
  /\ Client!Stream!Start <=> SP!Stream(loader)!Start
  /\ Client!Stream!Give <=> SP!Stream(loader)!Give
  /\ Client!Stream!Stop <=> SP!Stream(loader)!Stop
<1>1. Client!Stream!Start <=> SP!Stream(loader)!Start
  BY Zenon DEF Client!Stream!Start, SP!Stream!Start, Client!Stream!NothingAfter, SP!Stream!NothingAfter,
    Client!Stream!Deliverable, SP!Stream!Deliverable, Store!Usable, SP!Usable, Store!Size, SP!Size
<1>2. Client!Stream!Give <=> SP!Stream(loader)!Give
  BY Zenon DEF Client!Stream!Give, SP!Stream!Give, Client!Stream!NothingAfter, SP!Stream!NothingAfter,
    Client!Stream!Deliverable, SP!Stream!Deliverable, Store!Usable, SP!Usable, Store!Size, SP!Size
<1>3. Client!Stream!Stop <=> SP!Stream(loader)!Stop
  BY Zenon DEF Client!Stream!Stop, SP!Stream!Stop
<1> QED BY <1>1, <1>2, <1>3

LEMMA StreamSteps ==
  ASSUME ProcessInv, StoreCall, ~stray',
         \/ is_open'[loader] # is_open[loader]
         \/ given'[loader] # given[loader]
  PROVE  /\ Len(certs)' = Len(certs) /\ Store!Usable' = Store!Usable /\ stray' = stray
         /\ ~is_open[loader] => Client!Stream!Start
         /\ is_open[loader] /\ is_open'[loader] => Client!Stream!Give
         /\ is_open[loader] /\ ~is_open'[loader] => Client!Stream!Stop
<1>1. Len(certs)' = Len(certs) /\ Store!Usable' = Store!Usable
  BY DEF StoreCall, Store!Usable, Store!Size
<1>2. ~stray /\ stray' = stray
  BY StoreStep DEF ProcessInv, SP!Safe, SP!Owned, SP!TypeOK
<1>3. SP!Stream(loader)!Next
  <2>1. [SP!Stream(loader)!Next]_(SP!Stream(loader)!vars)
    BY StoreStep DEF ProcessInv
  <2> QED BY <2>1 DEF SP!Stream!vars
<1>4. SP!Stream(loader)!Start \/ SP!Stream(loader)!Give \/ SP!Stream(loader)!Stop
  BY <1>3 DEF SP!Stream!Next
<1>5. is_open[loader] => ~SP!Stream(loader)!Start
  BY DEF SP!Stream!Start
<1>6. ~is_open[loader] => ~SP!Stream(loader)!Give /\ ~SP!Stream(loader)!Stop
  BY DEF SP!Stream!Give, SP!Stream!Stop
<1>7. is_open'[loader] => ~SP!Stream(loader)!Stop
  BY DEF SP!Stream!Stop
<1>8. is_open[loader] /\ ~is_open'[loader] => ~SP!Stream(loader)!Give
  BY DEF SP!Stream!Give
<1> QED BY <1>1, <1>2, <1>4, <1>5, <1>6, <1>7, <1>8, SameStream

(* Straight steps of main() are the client's own. *)
LEMMA ClientStraight ==
  ASSUME ProcessInv, ~stray', NEW from, NEW to, NEW kept, Straight(from, to, kept)
  PROVE  Client!Straight(IF from \in Signing THEN "handshake" ELSE from,
                         IF to \in Signing THEN "handshake" ELSE to, kept \ {"legacy"})
<1>1. StoreCall /\ UNCHANGED <<certs, is_open, given, failed, cert_store_eof, priv_key_store_eof, stray>>
  BY StoreActions DEF Straight, provider
<1>2. UNCHANGED Client!store
  BY <1>1, StoreUnseen
<1>3. UNCHANGED <<ctx_pkey, pubkey, ctx_cert, matches, after, infos, failure, refused>>
  BY DEF Straight, ssl, search
<1>4. ClientKey' = ClientKey
  BY <1>1, <1>3, ClientKeyStays
<1> QED BY <1>2, <1>3, <1>4 DEF Client!Straight, Client!ssl, Straight, ClientKey

(* Outside the signature their places are the client's.                    *)
LEMMA ClientPlain ==
  ASSUME ProcessInv, ~stray', NEW from, NEW to, from \notin Signing, to \notin Signing
  PROVE  /\ Straight(from, to, open) => Client!Straight(from, to, open \ {"legacy"})
         /\ \A r : r # "legacy" /\ Straight(from, to, open \cup {r}) =>
              Client!Straight(from, to, (open \ {"legacy"}) \cup {r})
         /\ Straight(from, to, open \ {"cng"}) => Client!Straight(from, to, (open \ {"legacy"}) \ {"cng"})
         /\ Straight(from, to, {}) => Client!Straight(from, to, (open \ {"legacy"}) \cap {"module"})
<1>1. ASSUME NEW kept, NEW mine, kept \ {"legacy"} = mine, Straight(from, to, kept)
      PROVE  Client!Straight(from, to, mine)
  <2>1. (IF from \in Signing THEN "handshake" ELSE from) = from
        /\ (IF to \in Signing THEN "handshake" ELSE to) = to
    OBVIOUS
  <2> QED BY <1>1, <2>1, ClientStraight
<1>2. \A r : r # "legacy" => (open \cup {r}) \ {"legacy"} = (open \ {"legacy"}) \cup {r}
  OBVIOUS
<1>3. (open \ {"cng"}) \ {"legacy"} = (open \ {"legacy"}) \ {"cng"} 
      /\ {} \ {"legacy"} = (open \ {"legacy"}) \cap {"module"}
  BY DEF ProcessInv, Unmoduled
<1> QED BY <1>1, <1>2, <1>3, Zenon

LEMMA ClientAcquire ==
  ASSUME ProcessInv, ~stray', NEW r, NEW from, NEW to, NEW otherwise, Acquire(r, from, to, otherwise),
         r # "legacy", from \notin Signing, to \notin Signing, otherwise \notin Signing
  PROVE  Client!Acquire(r, from, to, otherwise)
BY ClientPlain, Zenon DEF Acquire, Client!Acquire

LEMMA ClientAlong ==
  ASSUME ProcessInv, ~stray',
         \/ LoadDefault \/ StartWinsock \/ CreateContext \/ CreateSocket \/ Connect \/ Converse
         \/ Exit \/ Straight("handshake", "exit", open)
  PROVE  Client!Main
<1>1. {"load default", "winsock", "ssl_ctx", "open for certificate", "socket", "connect",
       "handshake", "write", "read", "exit", "returned"} \cap Signing = {}
  BY DEF Signing
<1>2. CASE LoadDefault
  <2>1. Client!LoadDefault
    BY <1>1, <1>2, ClientPlain DEF LoadDefault, Client!LoadDefault
  <2> QED BY <2>1 DEF Client!Main
<1>3. CASE StartWinsock
  BY <1>1, <1>3, ClientAcquire DEF StartWinsock, Client!StartWinsock, Client!Main
<1>4. CASE CreateContext
  BY <1>1, <1>4, ClientAcquire DEF CreateContext, Client!CreateContext, Client!Main
<1>5. CASE CreateSocket
  BY <1>1, <1>5, ClientAcquire DEF CreateSocket, Client!CreateSocket, Client!Main
<1>6. CASE Connect
  <2>1. Client!Connect
    BY <1>1, <1>6, ClientPlain DEF Connect, Client!Connect
  <2> QED BY <2>1 DEF Client!Main
<1>7. CASE Converse
  <2>1. ASSUME NEW from \in {"handshake", "finish"}, NEW to \in {"write", "returned", "exit"},
               Straight(from, to, open)
        PROVE  Client!Straight("handshake", to, open \ {"legacy"})
    <3>1. (IF from \in Signing THEN "handshake" ELSE from) = "handshake"
          /\ (IF to \in Signing THEN "handshake" ELSE to) = to
      BY DEF Signing
    <3> QED BY <2>1, <3>1, ClientStraight
  <2>2. CASE /\ Serves({"digest", "cipher", "mac", "kdf", "rand", "keyexch"})
             /\ \E from \in {"handshake", "finish"}, to \in {"write", "returned"} :
                  Straight(from, to, open)
    <3>1. "cng" \in open
      BY <2>2 DEF Straight, ProcessInv, Main
    <3>2. Client!Served({"signature", "digest", "cipher", "mac", "kdf", "rand", "keyexch"})
      BY <2>2, <3>1 DEF Serves, Client!Served, Client!Provider, Client!Offered
    <3>3. Client!Handshake
      BY <2>1, <2>2, <3>2 DEF Client!Handshake
    <3> QED BY <3>3 DEF Client!Main
  <2>3. CASE \E from \in {"handshake", "finish"} : Straight(from, "exit", open)
    <3>1. Client!Handshake
      BY <2>1, <2>3 DEF Client!Handshake
    <3> QED BY <3>1 DEF Client!Main
  <2>4. CASE \/ \E to \in {"read", "exit"} : Straight("write", to, open)
             \/ Straight("read", "exit", open)
    <3>1. Client!Write \/ Client!Read
      BY <1>1, <2>4, ClientPlain DEF Client!Write, Client!Read
    <3> QED BY <3>1 DEF Client!Main
  <2> QED BY <1>7, <2>2, <2>3, <2>4 DEF Converse
<1>8. CASE Exit
  <2>1. Client!Exit
    BY <1>1, <1>8, ClientPlain DEF Exit, Client!Exit
  <2> QED BY <2>1 DEF Client!Main
<1>9. CASE Straight("handshake", "exit", open)
  <2>1. Client!Handshake
    BY <1>1, <1>9, ClientPlain DEF Client!Handshake
  <2> QED BY <2>1 DEF Client!Main
<1> QED BY <1>2, <1>3, <1>4, <1>5, <1>6, <1>7, <1>8, <1>9

LEMMA ClientOpenStore ==
  ASSUME ProcessInv, ~stray', NEW from, NEW to,
         \/ from = "open for certificate" /\ to = "find certificate"
         \/ from = "open for key" /\ to = "find key",
         OpenStore(from, to)
  PROVE  Client!OpenStore(from, to)
<1>1. StoreCall
  BY StoreActions DEF OpenStore
<1>2. /\ pc = from /\ Client!Served({"store"}) /\ failure' = FALSE
      /\ UNCHANGED <<matches, after, pubkey, ctx_cert, ctx_pkey, open, infos, refused>>
  BY DEF OpenStore, Serves, search, ssl
<1>3. ClientKey' = ClientKey
  BY <1>1, <1>2, ClientKeyStays
<1>4. from \notin Signing /\ to \notin Signing /\ "exit" \notin Signing
  BY DEF Signing
<1>5. CASE Store!Open(loader) /\ pc' = to
  <2>1. ~is_open[loader] /\ is_open'[loader]
    BY <1>5 DEF Store!Open, ProcessInv, SP!Safe, SP!Owned, SP!TypeOK
  <2>2. Client!Stream!Start /\ Len(certs)' = Len(certs) /\ Store!Usable' = Store!Usable /\ stray' = stray
    BY <1>1, <2>1, StreamSteps
  <2> QED BY <1>2, <1>3, <1>4, <1>5, <2>2 DEF Client!OpenStore, Client!ssl, ClientKey
<1>6. CASE (Store!OpenFails(loader) \/ UNCHANGED provider) /\ pc' = "exit"
  <2>1. UNCHANGED <<certs, is_open, given, failed, cert_store_eof, priv_key_store_eof, stray>>
    BY <1>6 DEF Store!OpenFails, provider, Store!cursors, Store!history
  <2>2. UNCHANGED Client!store
    BY <2>1, StoreUnseen
  <2> QED BY <1>2, <1>3, <1>4, <1>6, <2>2 DEF Client!OpenStore, Client!ssl, ClientKey
<1> QED BY <1>5, <1>6 DEF OpenStore

LEMMA ClientCloseStore ==
  ASSUME ProcessInv, ~stray', CloseStore
  PROVE  Client!CloseStore
<1>1. StoreCall
  BY StoreActions DEF CloseStore
<1>2. /\ pc = "close" /\ pc' = after /\ after \in {"exit", "open for key", "socket"}
      /\ UNCHANGED <<matches, after, pubkey, ctx_cert, ctx_pkey, open, infos, failure, refused>>
  BY DEF CloseStore, search, ssl, ProcessInv, Main
<1>3. ClientKey' = ClientKey
  BY <1>1, <1>2, ClientKeyStays
<1>4. is_open[loader] /\ ~is_open'[loader]
  BY DEF CloseStore, Store!Close, Store!CloseFails, Store!CloseLoader, ProcessInv, SP!Safe, SP!Owned, SP!TypeOK
<1>5. Client!Stream!Stop /\ Len(certs)' = Len(certs) /\ Store!Usable' = Store!Usable /\ stray' = stray
  BY <1>1, <1>4, StreamSteps
<1>6. pc \notin Signing /\ pc' \notin Signing
  BY <1>2 DEF Signing
<1> QED BY <1>2, <1>3, <1>5, <1>6 DEF Client!CloseStore, Client!ssl, ClientKey

(* A certificate of the store is the next object of the stream.            *)
LEMMA CertGiven ==
  ASSUME ProcessInv, Store!LoadCert(loader), ~stray'
  PROVE  /\ StoreCall /\ given'[loader] <= Len(certs) /\ ~(given'[loader] > Len(certs))
         /\ ~(cert_store_eof[loader] /\ priv_key_store_eof[loader])
         /\ Client!Stream!Give /\ Len(certs)' = Len(certs) /\ Store!Usable' = Store!Usable /\ stray' = stray
<1>1. StoreCall /\ SP!LoadCert(loader)
  BY SameLoadCert, StoreActions
<1>2. ~stray /\ SP!TypeOK
  BY <1>1, StoreStep DEF ProcessInv, SP!Safe, SP!Owned
<1>3. SP!Positioned(loader)
  BY <1>2 DEF ProcessInv, SP!Positions
<1>4. /\ is_open[loader] /\ is_open'[loader] /\ ~cert_store_eof[loader]
      /\ given'[loader] = prev_cert_ctx[loader]
  BY <1>1, <1>2 DEF SP!LoadCert, SP!TypeOK
<1>5. given[loader] = prev_cert_ctx[loader] - 1 /\ prev_cert_ctx[loader] \in 1..Len(certs)
  BY <1>3, <1>4 DEF SP!Positioned, SP!Size
<1>6. Len(certs) \in Nat
  BY <1>2 DEF SP!TypeOK
<1>7. /\ given'[loader] # given[loader] /\ given'[loader] <= Len(certs)
      /\ ~(given'[loader] > Len(certs))
  BY <1>4, <1>5, <1>6
<1> QED BY <1>1, <1>4, <1>7, StreamSteps

(* A key that the core takes is the next object of the stream, and a       *)
(* duplicate of the one the loader had read ahead: its handle is open on   *)
(* the private key of the certificate whose rank is given.                 *)
LEMMA KeyGiven ==
  ASSUME ProcessInv, NEW k, KeyLoaded(k), ~stray'
  PROVE  /\ StoreCall /\ ~(cert_store_eof[loader] /\ priv_key_store_eof[loader])
         /\ Client!Stream!Give /\ Len(certs)' = Len(certs) /\ Store!Usable' = Store!Usable /\ stray' = stray
         /\ k \in held' /\ k \in KeyObj
         /\ \E at \in 1..Len(certs) :
              /\ given'[loader] = Len(certs) + at
              /\ names'[windows_key_handle'[k]] = at /\ KeyOf(k)' = PrivateKey[at]
<1>1. StoreCall /\ SP!LoadKey(loader) /\ k \in held' \ held
  BY SameLoadKey, StoreActions DEF KeyLoaded
<1>2. ~stray /\ SP!Safe /\ SP!Safe' /\ SP!TypeOK /\ SP!OneOwnerPerObject
  BY <1>1, StoreStep DEF ProcessInv, SP!Safe, SP!Owned
<1>3. SP!Positioned(loader)
  BY <1>2 DEF ProcessInv, SP!Positions
<1> DEFINE at == prev_key_cert_ctx[loader]
           own == key[loader]
<1>4. /\ is_open[loader] /\ cert_store_eof[loader] /\ ~priv_key_store_eof[loader]
      /\ at \in SP!Usable \ failed[loader]
      /\ given[loader] < SP!Size + at
      /\ given' = [given EXCEPT ![loader] = SP!Size + at]
      /\ is_open' = is_open
  BY <1>1, <1>2, <1>3, StoreAssumed, SP!LoadKeyGives, Zenon
<1>5. /\ at \in 1..Len(certs) /\ Len(certs) \in Nat /\ given \in [{loader} -> 0..2 * MaxCerts]
  BY <1>2, <1>4 DEF SP!Usable, SP!Size, SP!TypeOK
<1>6. given'[loader] = Len(certs) + at /\ given'[loader] # given[loader]
  BY <1>4, <1>5 DEF SP!Size
<1>7. names[windows_key_handle[own]] = at
  BY <1>2, <1>4 DEF SP!Safe, SP!PreloadMatchesCursor
<1>8. PICK k2 \in KeyObj, h2 \in Handle :
        /\ SP!Duplicate(own, k2, h2) /\ held' = held \cup {k2}
        /\ SP!Preload(loader, own, at, SP!DupHandles(k2, h2), SP!DupNames(own, h2))
  BY <1>1 DEF SP!LoadKey
<1>9. /\ k = k2 /\ own # k2 /\ own \in KeyObj /\ h2 \in Handle /\ names[h2] = 0 /\ at # 0
      /\ windows_key_handle \in [KeyObj -> Handle \cup {NoHandle}] /\ names \in [Handle -> 0..Len(certs)]
  BY <1>1, <1>2, <1>4, <1>5, <1>8 DEF SP!Duplicate, SP!OneOwnerPerObject, SP!ClosedHandle, SP!TypeOK, SP!Size
<1> DEFINE handles == SP!DupHandles(k2, h2)
           table == SP!DupNames(own, h2)
<1>10. handles \in [KeyObj -> Handle \cup {NoHandle}] /\ handles[k2] = h2 /\ table[h2] = at
       /\ table \in [Handle -> 0..Len(certs)]
  BY <1>5, <1>7, <1>8, <1>9 DEF SP!DupHandles, SP!DupNames
<1> HIDE DEF handles, table, at, own
<1>11. windows_key_handle'[k] = h2 /\ names'[h2] = at
  <2>1. CASE SP!PreloadHit(loader, own, at, handles, table)
    <3>1. PICK j \in at + 1 .. Len(certs), h \in Handle :
            /\ table[h] = 0
            /\ windows_key_handle' = [handles EXCEPT ![own] = h]
            /\ names' = [table EXCEPT ![h] = j]
      BY <2>1 DEF SP!PreloadHit, SP!Size
    <3> QED BY <1>9, <1>10, <3>1
  <2>2. CASE SP!PreloadMiss(loader, at, handles, table)
    <3>1. /\ windows_key_handle' = handles /\ names' = SP!FreeObject(table, {})
      BY <2>2 DEF SP!PreloadMiss
    <3> QED BY <1>9, <1>10, <3>1 DEF SP!FreeObject
  <2> QED BY <1>8, <2>1, <2>2 DEF SP!Preload, handles, table
<1>12. k \in KeyObj /\ KeyOf(k)' = PrivateKey[at]
  BY <1>1, <1>2, <1>11, HeldKeyOfNext
<1>13. Client!Stream!Give /\ Len(certs)' = Len(certs) /\ Store!Usable' = Store!Usable /\ stray' = stray
  BY <1>1, <1>4, <1>6, StreamSteps
<1> QED BY <1>1, <1>4, <1>5, <1>6, <1>11, <1>12, <1>13

LEMMA CertsType ==
  ASSUME ProcessInv
  PROVE  /\ Len(certs) \in Nat /\ Len(certs) <= MaxCerts /\ MaxCerts \in Nat
         /\ matches \subseteq 1..Len(certs)
<1>1. certs \in Seq(SP!Kind) /\ Len(certs) \in 0..MaxCerts
  BY DEF ProcessInv, SP!Safe, SP!Owned, SP!TypeOK, SP!Size, SP!Index
<1>2. matches \subseteq 1..Len(certs)
  BY DEF ProcessInv, Main
<1> QED BY <1>1, <1>2, ProcessAssumption

(* A pass that is given up. *)
LEMMA ClientGivesUp ==
  ASSUME ProcessInv, ~stray', GivesUp, UNCHANGED <<open, pubkey, ctx_cert, ctx_pkey, matches, infos, refused>>,
         pc \in {"find certificate", "find key"}
  PROVE  Client!LoadFails \/ Client!NotFound
<1>1. StoreCall
  BY StoreActions DEF GivesUp
<1>2. ClientKey' = ClientKey
  BY <1>1, ClientKeyStays
<1>3. pc' = "close" /\ after' = "exit" /\ "close" \notin Signing
  BY DEF GivesUp, Leave, Signing
<1>4. CASE AtEof /\ UNCHANGED <<provider, failure>>
  <2>1. UNCHANGED Client!store
    BY <1>4, StoreUnseen DEF provider
  <2> QED BY <1>2, <1>3, <1>4, <2>1 DEF Client!NotFound, Client!Leave, Client!ssl, ClientKey, AtEof
<1>5. CASE ~AtEof /\ failure' = TRUE /\ Store!LoadCert(loader)
  BY <1>2, <1>3, <1>5, CertGiven DEF Client!LoadFails, Client!Leave, Client!ssl, ClientKey
<1>6. CASE ~AtEof /\ failure' = TRUE /\ Store!LoadKeyRefused(loader)
  <2>1. UNCHANGED <<certs, is_open, given, failed, cert_store_eof, priv_key_store_eof, stray>>
    BY <1>6 DEF Store!LoadKeyRefused, Store!DupFails, Store!vars, Store!cursors, Store!history
  <2>2. UNCHANGED Client!store
    BY <2>1, StoreUnseen
  <2> QED BY <1>2, <1>3, <1>6, <2>2 DEF Client!LoadFails, Client!Leave, Client!ssl, ClientKey, AtEof
<1> QED BY <1>4, <1>5, <1>6 DEF GivesUp

(* An object that is passed over. *)
LEMMA ClientSkip ==
  ASSUME ProcessInv, StoreCall, ~stray', Skip, UNCHANGED open
  PROVE  Client!Skip
<1>1. UNCHANGED <<pc, after, pubkey, ctx_cert, ctx_pkey, matches, failure, refused>>
  BY DEF Skip, ssl
<1>2. ClientKey' = ClientKey
  BY <1>1, ClientKeyStays
<1> QED BY <1>1, <1>2 DEF Client!Skip, Client!ssl, ClientKey

LEMMA ClientFindCertificate ==
  ASSUME ProcessInv, ~stray', FindCertificate
  PROVE  Client!FindCertificate
<1>1. /\ pc = "find certificate" /\ UNCHANGED open /\ pc \notin Signing
  BY DEF FindCertificate, Signing
<1>2. CASE GivesUp
  <2>1. UNCHANGED <<pubkey, ctx_cert, ctx_pkey, matches, infos, refused>>
    BY <1>2 DEF GivesUp, ssl
  <2> QED BY <1>1, <1>2, <2>1, ClientGivesUp DEF Client!FindCertificate
<1>3. CASE CertificateLoaded /\ UseCertificate
  <2>1. /\ StoreCall /\ Client!Stream!Give
        /\ Len(certs)' = Len(certs) /\ Store!Usable' = Store!Usable /\ stray' = stray
    BY <1>3, CertGiven DEF CertificateLoaded
  <2>0. Client!Load
    BY <1>1, <1>3, <2>1 DEF CertificateLoaded, InfoKept, Client!Load
  <2>2. CASE given'[loader] \notin matches
    <3>1. Client!Skip
      BY <1>1, <1>3, <2>1, <2>2, ClientSkip DEF UseCertificate, Matches
    <3> QED BY <1>1, <2>0, <2>2, <3>1 DEF Client!FindCertificate
  <2>3. CASE given'[loader] \in matches
    <3>1. /\ pubkey' = given'[loader] /\ pc' = "close"
          /\ \/ Serves({"decoder"}) /\ ctx_cert' = given'[loader] /\ after' = "open for key"
             \/ UNCHANGED ctx_cert /\ after' = "exit"
          /\ UNCHANGED <<ctx_pkey, matches, failure, refused>>
      BY <1>3, <2>3 DEF UseCertificate, Matches, Leave
    <3>2. ClientKey' = ClientKey /\ "close" \notin Signing
      BY <2>1, <3>1, ClientKeyStays DEF Signing
    <3>3. Client!KeepPublicKey
      <4>1. given'[loader] \in 1..Len(certs) /\ Len(certs) \in Nat /\ pubkey' # 0
        <5>1. given'[loader] \in 1..Len(certs) /\ Len(certs) \in Nat /\ 0 \notin 1..Len(certs)
          BY <2>3, CertsType
        <5> QED BY <3>1, <5>1
      <4>2. ClientTwins' = {given'[loader]}
        BY <3>1, <4>1 DEF ClientTwins
      <4> QED BY <3>1, <4>1, <4>2 DEF Client!KeepPublicKey, ClientTwins
    <3>4. Client!UseCertificate
      BY <1>1, <3>1, <3>2, <3>3 DEF Client!UseCertificate, Client!Leave, ClientKey, Serves
    <3> QED BY <1>1, <2>0, <2>3, <3>4 DEF Client!FindCertificate
  <2> QED BY <2>2, <2>3
<1>4. CASE Skip /\ \E k \in KeyObj : KeyLoaded(k)
  <2>1. PICK k \in KeyObj : KeyLoaded(k)
    BY <1>4
  <2>2. PICK at \in 1..Len(certs) : given'[loader] = Len(certs) + at
    BY <2>1, KeyGiven
  <2>3. given'[loader] \notin matches
    BY <2>2, CertsType
  <2>4. /\ StoreCall /\ Client!Stream!Give
        /\ Len(certs)' = Len(certs) /\ Store!Usable' = Store!Usable /\ stray' = stray
    BY <2>1, KeyGiven
  <2>5. Client!Skip /\ Client!Load
    BY <1>1, <1>4, <2>1, <2>4, ClientSkip DEF KeyLoaded, InfoKept, Client!Load
  <2> QED BY <1>1, <2>3, <2>5 DEF Client!FindCertificate
<1> QED BY <1>2, <1>3, <1>4 DEF FindCertificate

LEMMA ClientFindKey ==
  ASSUME ProcessInv, ~stray', FindKey
  PROVE  Client!FindKey
<1>1. /\ pc = "find key" /\ UNCHANGED open /\ pc \notin Signing /\ ctx_pkey = NoKey
      /\ pubkey = ctx_cert /\ pubkey \in matches
  BY DEF FindKey, Signing, ProcessInv, Main, Searching, Certified
<1>5. pubkey \in 1..Len(certs) /\ Len(certs) \in Nat /\ Len(certs) <= MaxCerts /\ MaxCerts \in Nat
  BY <1>1, CertsType
<1>2. CASE GivesUp
  <2>1. UNCHANGED <<pubkey, ctx_cert, ctx_pkey, matches, infos, refused>>
    BY <1>2 DEF GivesUp, ssl
  <2> QED BY <1>1, <1>2, <2>1, ClientGivesUp DEF Client!FindKey
<1>3. CASE CertificateLoaded /\ Skip
  <2>1. /\ StoreCall /\ Client!Stream!Give /\ ~(given'[loader] > Len(certs))
        /\ Len(certs)' = Len(certs) /\ Store!Usable' = Store!Usable /\ stray' = stray
    BY <1>3, CertGiven DEF CertificateLoaded
  <2>2. ~Client!KeyMatches
    BY <2>1 DEF Client!KeyMatches
  <2>3. Client!Skip /\ Client!Load
    BY <1>1, <1>3, <2>1, ClientSkip DEF CertificateLoaded, InfoKept, Client!Load
  <2> QED BY <1>1, <2>2, <2>3 DEF Client!FindKey
<1>4. ASSUME NEW k \in KeyObj, KeyLoaded(k), IF KeyMatches(k) THEN UsePrivateKey(k) ELSE Skip
      PROVE  Client!FindKey
  <2>1. PICK at \in 1..Len(certs) :
          /\ given'[loader] = Len(certs) + at
          /\ names'[windows_key_handle'[k]] = at /\ KeyOf(k)' = PrivateKey[at]
    BY <1>4, KeyGiven
  <2>2. /\ StoreCall /\ Client!Stream!Give
        /\ Len(certs)' = Len(certs) /\ Store!Usable' = Store!Usable /\ stray' = stray
    BY <1>4, KeyGiven
  <2>0. Client!Load
    BY <1>1, <1>4, <2>2 DEF KeyLoaded, InfoKept, Client!Load
  <2>6. /\ given'[loader] > Len(certs) /\ given'[loader] - Len(certs) = at
        /\ pubkey # 0 /\ MaxCerts + at # pubkey
    BY <1>5, <2>1
  <2>7. Client!PairOf(at) = IF at = pubkey THEN pubkey ELSE MaxCerts + at
    BY <2>6 DEF Client!PairOf
  <2>3. /\ KeyMatches(k) <=> at = pubkey
        /\ Client!KeyMatches <=> at = pubkey
    <3>1. PrivateKey[at] = PrivateKey[pubkey] => at = pubkey
      BY <1>5, <2>1, ProcessAssumption
    <3>2. Client!KeyMatches <=> at = pubkey
      BY <2>2, <2>6, <2>7 DEF Client!KeyMatches
    <3> QED BY <2>1, <3>1, <3>2 DEF KeyMatches
  <2>4. CASE at # pubkey
    <3>1. Client!Skip
      BY <1>1, <1>4, <2>2, <2>3, <2>4, ClientSkip
    <3> QED BY <1>1, <2>0, <2>3, <2>4, <3>1 DEF Client!FindKey
  <2>5. CASE at = pubkey
    <3>1. CASE /\ Serves({"keymgmt"}) /\ ctx_pkey' = k /\ Leave("socket")
               /\ UNCHANGED <<pubkey, ctx_cert, matches, failure, refused>>
      <4>1. ClientKey' = at
        <5>1. k # NoKey
          BY ProcessAssumption
        <5> QED BY <2>1, <3>1, <5>1 DEF ClientKey
      <4>2. Client!PairOf(given'[loader] - Len(certs)) = at
        BY <2>5, <2>6, <2>7
      <4>3. Client!UsePrivateKey
        BY <1>1, <2>2, <2>5, <3>1, <4>1, <4>2 DEF Client!UsePrivateKey, Client!Leave, Leave, ClientKey, Serves, Signing
      <4> QED BY <1>1, <2>0, <2>3, <2>5, <4>3 DEF Client!FindKey
    <3>2. CASE pc' = "exit" /\ refused' = TRUE /\ UNCHANGED <<ssl, after, matches, failure>>
      <4>1. ClientKey' = ClientKey
        BY <2>2, <3>2, ClientKeyStays DEF ssl
      <4>2. Client!UsePrivateKey
        BY <1>1, <3>2, <4>1 DEF Client!UsePrivateKey, Client!ssl, ssl, ClientKey, Signing
      <4> QED BY <1>1, <2>0, <2>3, <2>5, <4>2 DEF Client!FindKey
    <3> QED BY <1>4, <2>3, <2>5, <3>1, <3>2 DEF UsePrivateKey
  <2> QED BY <2>4, <2>5
<1> QED BY <1>2, <1>3, <1>4 DEF FindKey

(* A signature is inside the client's handshake, and only its failure      *)
(* leaves it.                                                              *)
LEMMA ClientSign ==
  ASSUME ProcessInv, ~stray', Sign
  PROVE  Client!Main \/ UNCHANGED Client!vars
<1>1. CASE Straight("handshake", "exit", open)
  BY <1>1, ClientAlong
<1>2. CASE ~Straight("handshake", "exit", open)
  <2>1. StoreCall
    BY StepCalls DEF Next
  <2>2. /\ UNCHANGED <<pubkey, ctx_cert, ctx_pkey, matches, after, infos, failure, refused, open>>
        /\ pc \in Signing \cup {"handshake"} /\ pc' \in Signing \cup {"exit"}
    BY <1>2 DEF Sign, NewSignature, SignInit, SetPadding, SetSalt, FinalSize, Update, DupSignature,
      Refused, Calls, Goes, Final, FreeSignature, ssl, search, Signing
  <2>3. UNCHANGED <<certs, is_open, given, failed, cert_store_eof, priv_key_store_eof, stray>>
    <3>1. CASE DupSignature
      BY <3>1 DEF DupSignature, DupKey, DupKeyFails, Store!DupKey, Store!DupFails, Store!cursors,
        Store!history, provider
    <3>2. CASE ~DupSignature
      BY <1>2, <3>2 DEF Sign, NewSignature, SignInit, SetPadding, SetSalt, FinalSize, Update, Refused,
        Calls, Final, FreeSignature, provider
    <3> QED BY <3>1, <3>2
  <2>4. UNCHANGED Client!store /\ ClientKey' = ClientKey
    BY <2>1, <2>2, <2>3, StoreUnseen, ClientKeyStays
  <2>5. ClientPc = "handshake"
    BY <2>2 DEF ClientPc
  <2>6. CASE pc' \in Signing
    <3>1. ClientPc' = ClientPc
      BY <2>5, <2>6 DEF ClientPc
    <3> QED BY <2>2, <2>4, <3>1 DEF Client!vars, Client!ssl, ClientKey, ClientPc
  <2>7. CASE pc' = "exit"
    <3>1. ClientPc' = "exit"
      BY <2>7 DEF ClientPc, Signing
    <3>2. Client!Straight("handshake", "exit", open \ {"legacy"})
      BY <2>2, <2>4, <2>5, <3>1 DEF Client!Straight, Client!ssl, ClientKey, ClientPc
    <3>3. Client!Handshake
      BY <3>2 DEF Client!Handshake
    <3> QED BY <3>3 DEF Client!Main
  <2> QED BY <2>2, <2>6, <2>7
<1> QED BY <1>1, <1>2

LEMMA ClientStep ==
  ASSUME ProcessInv, Next, ~stray', pc \notin {"load legacy", "load cng"}
  PROVE  [Client!Main]_(Client!vars)
<1>1. CASE LoadLegacy \/ LoadCng
  BY <1>1 DEF LoadLegacy, LoadCng, Acquire, Straight
<1>2. CASE LoadDefault \/ StartWinsock \/ CreateContext \/ CreateSocket \/ Connect \/ Converse \/ Exit
  BY <1>2, ClientAlong
<1>3. CASE OpenStore("open for certificate", "find certificate")
  <2>1. Client!OpenStore("open for certificate", "find certificate")
    BY <1>3, ClientOpenStore
  <2> QED BY <2>1 DEF Client!Main
<1>4. CASE OpenStore("open for key", "find key")
  <2>1. Client!OpenStore("open for key", "find key")
    BY <1>4, ClientOpenStore
  <2> QED BY <2>1 DEF Client!Main
<1>5. CASE FindCertificate
  BY <1>5, ClientFindCertificate DEF Client!Main
<1>6. CASE FindKey
  BY <1>6, ClientFindKey DEF Client!Main
<1>7. CASE CloseStore
  BY <1>7, ClientCloseStore DEF Client!Main
<1>8. CASE Sign
  BY <1>8, ClientSign
<1> QED BY <1>1, <1>2, <1>3, <1>4, <1>5, <1>6, <1>7, <1>8 DEF Next

(* From the loaded provider on, every step of the process is a step of the *)
(* client or none that main() can see: loaders, key objects and handles    *)
(* give it exactly the stream that CngClient reads, and a signature        *)
(* disturbs none of it.                                                    *)
THEOREM ProcessFollowsTheClient == Spec => FollowsTheClient
<1>1. ProcessInv /\ [Next]_vars =>
        [stray' \/ pc \in {"load legacy", "load cng"} \/ [Client!Main]_(Client!vars)]_vars
  BY ClientStep
<1> QED BY <1>1, AlwaysInv, PTL DEF Spec, FollowsTheClient
=============================================================================
