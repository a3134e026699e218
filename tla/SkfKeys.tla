------------------------------ MODULE SkfKeys ------------------------------
(***************************************************************************)
(* The key tests of gmusbkeytest/main.c on one application of a token:     *)
(* KeyPairTest, SM2KeyPairTest and RasKeyPairTest make a container or use  *)
(* the one that is there, and sign and verify with it;                     *)
(* ImportSM2KeyPair_Test replaces the encryption pair of the SM2           *)
(* container, ImportSessionKey_Test sends a session key through it.        *)
(*                                                                         *)
(* The token outlives the program: a program is killed between any two     *)
(* calls and the next one finds what was made so far.  main runs three of  *)
(* the tests in a fixed order; here a program runs them in any order.  The *)
(* SKF library is external and each of its calls may fail.                 *)
(***************************************************************************)
EXTENDS Naturals

CONSTANTS
  MaxPairs,    \* bound on the key pairs a token generates
  Imported,    \* the pair written down in ImportSM2KeyPair_Test
  None

VARIABLES
  token,       \* of each container: has it been made, its two pairs
  pairs,       \* pairs generated so far
  verified,    \* the PIN was verified in this run
  opened,      \* containers of which a handle was opened in this run; none is closed
  call, at,    \* the test that runs, and where it is
  con,         \* hCon: the container it names
  pub,         \* pEccSignKey, RsaPubKey or pbBlob: the pair it is half of
  digest,      \* the pair whose public key went into the digest
  signed,      \* the pair that made the signature
  wrapped,     \* the pair whose public key the session key is wrapped with
  heap,        \* blobs that the test has allocated and not freed
  cut,         \* history: a test stopped between making a container and its pairs
  stray        \* history: an uninitialised hCon hit the SM2 container

local == <<con, pub, digest, signed, wrapped, heap>>
vars == <<token, pairs, verified, opened, call, at, local, cut, stray>>

Container == {"SM2", "RSA"}
Test == {"KeyPairTest", "SM2KeyPairTest", "RasKeyPairTest",
         "ImportSM2KeyPair_Test", "ImportSessionKey_Test"}
Pair == 1..MaxPairs \cup {Imported}
Blob == {"public key", "cipher", "envelope"}

Using == {"generate sign", "generate enc", "export sign", "export enc", "digest",
          "sign", "verify", "certificates", "wrap", "encrypt", "import"}

Place == Using \cup {"pin", "open", "create", "passed", "failed"}

ASSUME SkfKeysAssumption ==
  /\ MaxPairs \in Nat /\ Imported \notin Nat
  /\ None \notin Nat \cup {Imported} \cup Container \cup Test \cup Place

Empty == [made |-> FALSE, sign |-> None, enc |-> None]

Own(t) == IF t = "RasKeyPairTest" THEN "RSA" ELSE "SM2"

NoLocals ==
  /\ con' = None /\ pub' = None /\ digest' = None
  /\ signed' = None /\ wrapped' = None /\ heap' = {}

Init ==
  /\ token = [c \in Container |-> Empty]
  /\ pairs = 0 /\ verified = FALSE /\ opened = {}
  /\ call = None /\ at = None
  /\ con = None /\ pub = None /\ digest = None
  /\ signed = None /\ wrapped = None /\ heap = {}
  /\ cut = {} /\ stray = FALSE

(* A container that is being filled when its test stops is cut.            *)
Cut == {c \in {con} \cap Container :
          at \in {"generate sign", "generate enc"} /\ token[c].enc = None}

To(from, to) == at = from /\ at' = to /\ UNCHANGED call

(* The test returns an error; what it frees before that is for the action  *)
(* to say.                                                                 *)
Fails(from) ==
  /\ at = from /\ at' = "failed" /\ cut' = cut \cup Cut
  /\ UNCHANGED <<token, pairs, verified, opened, call, con, pub, digest, signed, wrapped, stray>>
-----------------------------------------------------------------------------
(* The two imports rely on a PIN that an earlier test verified. *)
Begin(t) ==
  /\ call = None /\ call' = t /\ NoLocals
  /\ at' = IF t \in {"ImportSM2KeyPair_Test", "ImportSessionKey_Test"} THEN "open" ELSE "pin"
  /\ UNCHANGED <<token, pairs, verified, opened, cut, stray>>

VerifyPIN ==
  \/ /\ To("pin", IF call = "SM2KeyPairTest" THEN "create" ELSE "open")
     /\ verified' = TRUE
     /\ UNCHANGED <<token, pairs, opened, local, cut, stray>>
  \/ Fails("pin") /\ UNCHANGED heap

AfterOpen ==
  CASE call = "KeyPairTest" -> "export sign"
    [] call = "RasKeyPairTest" -> "generate sign"
    [] call = "ImportSM2KeyPair_Test" -> "export sign"
    [] OTHER -> "export enc"

(* SAR_FAIL is taken for a container that is not there.  After any other   *)
(* error RasKeyPairTest goes on with an hCon that was never written.       *)
(* ImportSessionKey_Test goes on to allocate a blob for the public key.    *)
OpenContainer ==
  \/ /\ To("open", AfterOpen)
     /\ token[Own(call)].made
     /\ con' = Own(call) /\ opened' = opened \cup {con'}
     /\ heap' = IF call = "ImportSessionKey_Test" THEN {"public key"} ELSE heap
     /\ UNCHANGED <<token, pairs, verified, pub, digest, signed, wrapped, cut, stray>>
  \/ /\ To("open", "create")
     /\ call \in {"KeyPairTest", "RasKeyPairTest"}
     /\ UNCHANGED <<token, pairs, verified, opened, local, cut, stray>>
  \/ /\ To("open", AfterOpen)
     /\ call = "RasKeyPairTest"
     /\ con' \in opened \cup {None}
     /\ stray' = (stray \/ con' = "SM2")
     /\ UNCHANGED <<token, pairs, verified, opened, pub, digest, signed, wrapped, heap, cut>>
  \/ call # "RasKeyPairTest" /\ Fails("open") /\ UNCHANGED heap

CreateContainer ==
  \/ /\ To("create", "generate sign")
     /\ verified /\ ~token[Own(call)].made
     /\ con' = Own(call) /\ opened' = opened \cup {con'}
     /\ token' = [token EXCEPT ![con'].made = TRUE]
     /\ UNCHANGED <<pairs, verified, pub, digest, signed, wrapped, heap, cut, stray>>
  \/ Fails("create") /\ UNCHANGED heap

(* Faulty: the encryption pair is generated first. *)
GenerateSignAsEnc ==
  \/ /\ To("generate sign", IF call = "KeyPairTest" THEN "generate enc" ELSE "digest")
     /\ verified /\ con # None /\ pairs < MaxPairs
     /\ pairs' = pairs + 1 /\ pub' = pairs'
     /\ token' = [token EXCEPT ![con].enc = pairs']
     /\ UNCHANGED <<verified, opened, con, digest, signed, wrapped, heap, cut, stray>>
  \/ Fails("generate sign") /\ UNCHANGED heap

GenerateSign ==
  \/ /\ To("generate sign", IF call = "KeyPairTest" THEN "generate enc" ELSE "digest")
     /\ verified /\ con # None /\ pairs < MaxPairs
     /\ pairs' = pairs + 1 /\ pub' = pairs'
     /\ token' = [token EXCEPT ![con].sign = pairs']
     /\ UNCHANGED <<verified, opened, con, digest, signed, wrapped, heap, cut, stray>>
  \/ Fails("generate sign") /\ UNCHANGED heap

(* Faulty: the second pair is put into the variable of the first. *)
GenerateEncIntoSign ==
  \/ /\ To("generate enc", "digest") /\ pairs < MaxPairs
     /\ pairs' = pairs + 1 /\ pub' = pairs'
     /\ token' = [token EXCEPT ![con].enc = pairs']
     /\ UNCHANGED <<verified, opened, con, digest, signed, wrapped, heap, cut, stray>>
  \/ Fails("generate enc") /\ UNCHANGED heap

GenerateEnc ==
  \/ /\ To("generate enc", "digest") /\ pairs < MaxPairs
     /\ pairs' = pairs + 1
     /\ token' = [token EXCEPT ![con].enc = pairs']
     /\ UNCHANGED <<verified, opened, local, cut, stray>>
  \/ Fails("generate enc") /\ UNCHANGED heap

(* SKF_ExportPublicKey of the signing pair. *)
ExportSign ==
  \/ /\ To("export sign", IF call = "KeyPairTest" THEN "export enc" ELSE "wrap")
     /\ token[con].sign # None
     /\ pub' = token[con].sign
     /\ heap' = IF call = "KeyPairTest" THEN heap ELSE heap \cup {"cipher"}
     /\ UNCHANGED <<token, pairs, verified, opened, con, digest, signed, wrapped, cut, stray>>
  \/ Fails("export sign") /\ UNCHANGED heap

(* Faulty: ImportSessionKey_Test exports the signing pair. *)
ExportEncOfSign ==
  \/ /\ To("export enc", IF call = "KeyPairTest" THEN "digest" ELSE "wrap")
     /\ token[con].enc # None
     /\ IF call = "KeyPairTest" THEN UNCHANGED <<pub, heap>>
        ELSE pub' = token[con].sign /\ heap' = heap \cup {"cipher"}
     /\ UNCHANGED <<token, pairs, verified, opened, con, digest, signed, wrapped, cut, stray>>
  \/ Fails("export enc") /\ heap' = heap \ {"public key"}

(* The other pair.  ImportSessionKey_Test frees its blob when this fails,  *)
(* and allocates another one for the session key when it does not.         *)
ExportEnc ==
  \/ /\ To("export enc", IF call = "KeyPairTest" THEN "digest" ELSE "wrap")
     /\ token[con].enc # None
     /\ IF call = "KeyPairTest" THEN UNCHANGED <<pub, heap>>
        ELSE pub' = token[con].enc /\ heap' = heap \cup {"cipher"}
     /\ UNCHANGED <<token, pairs, verified, opened, con, digest, signed, wrapped, cut, stray>>
  \/ Fails("export enc") /\ heap' = heap \ {"public key"}

(* SKF_DigestInit and SKF_Digest; SHA1 takes no key. *)
Digest ==
  \/ /\ To("digest", "sign")
     /\ digest' = IF call = "RasKeyPairTest" THEN None ELSE pub
     /\ UNCHANGED <<token, pairs, verified, opened, con, pub, signed, wrapped, heap, cut, stray>>
  \/ Fails("digest") /\ UNCHANGED heap

Sign ==
  \/ /\ To("sign", "verify") /\ verified
     /\ signed' = token[con].sign
     /\ UNCHANGED <<token, pairs, verified, opened, con, pub, digest, wrapped, heap, cut, stray>>
  \/ Fails("sign") /\ UNCHANGED heap

Verify ==
  \/ /\ To("verify", IF call = "KeyPairTest" THEN "certificates" ELSE "passed")
     /\ pub = signed /\ (call # "RasKeyPairTest" => digest = signed)
     /\ UNCHANGED <<token, pairs, verified, opened, local, cut, stray>>
  \/ Fails("verify") /\ UNCHANGED heap

(* Both certificates are read and written to files. *)
Certificates ==
  \/ To("certificates", "passed")
     /\ UNCHANGED <<token, pairs, verified, opened, local, cut, stray>>
  \/ Fails("certificates") /\ UNCHANGED heap

(* Faulty: the blobs are forgotten when no session key is made. *)
WrapForgets ==
  \/ /\ To("wrap", IF call = "ImportSM2KeyPair_Test" THEN "encrypt" ELSE "import")
     /\ wrapped' = pub
     /\ UNCHANGED <<token, pairs, verified, opened, con, pub, digest, signed, heap, cut, stray>>
  \/ Fails("wrap") /\ UNCHANGED heap

(* SKF_ECCExportSessionKey.  ImportSM2KeyPair_Test leaves its blob when it *)
(* fails, here and later; ImportSessionKey_Test frees both.                *)
Wrap ==
  \/ /\ To("wrap", IF call = "ImportSM2KeyPair_Test" THEN "encrypt" ELSE "import")
     /\ wrapped' = pub
     /\ UNCHANGED <<token, pairs, verified, opened, con, pub, digest, signed, heap, cut, stray>>
  \/ Fails("wrap") /\ heap' = IF call = "ImportSessionKey_Test" THEN {} ELSE heap

(* The private key is encrypted under the session key, in an envelope. *)
Encrypt ==
  \/ /\ To("encrypt", "import") /\ heap' = heap \cup {"envelope"}
     /\ UNCHANGED <<token, pairs, verified, opened, con, pub, digest, signed, wrapped, cut, stray>>
  \/ Fails("encrypt") /\ UNCHANGED heap

(* Faulty: the envelope is imported as signing pair. *)
ImportKeyPairSigning ==
  /\ call = "ImportSM2KeyPair_Test"
  /\ \/ /\ To("import", "passed") /\ verified /\ wrapped = token[con].sign
        /\ token' = [token EXCEPT ![con].sign = Imported]
        /\ heap' = {}
        /\ UNCHANGED <<pairs, verified, opened, con, pub, digest, signed, wrapped, cut, stray>>
     \/ Fails("import") /\ UNCHANGED heap

(* SKF_ImportECCKeyPair opens the envelope with the signing pair. *)
ImportKeyPair ==
  /\ call = "ImportSM2KeyPair_Test"
  /\ \/ /\ To("import", "passed") /\ verified /\ wrapped = token[con].sign
        /\ token' = [token EXCEPT ![con].enc = Imported]
        /\ heap' = {}
        /\ UNCHANGED <<pairs, verified, opened, con, pub, digest, signed, wrapped, cut, stray>>
     \/ Fails("import") /\ UNCHANGED heap

(* SKF_ImportSessionKey opens it with the encryption pair.  On success     *)
(* `free(pCipherData)` frees NULL, and the blob of the session key stays.  *)
ImportSessionKey ==
  /\ call = "ImportSessionKey_Test"
  /\ \/ /\ To("import", "passed") /\ verified /\ wrapped = token[con].enc
        /\ heap' = heap \ {"public key"}
        /\ UNCHANGED <<token, pairs, verified, opened, con, pub, digest, signed, wrapped, cut, stray>>
     \/ Fails("import") /\ heap' = {}

Return ==
  /\ at \in {"passed", "failed"}
  /\ call' = None /\ at' = None /\ NoLocals
  /\ UNCHANGED <<token, pairs, verified, opened, cut, stray>>

(* The program is killed, and another one is started. *)
Restart ==
  /\ call' = None /\ at' = None /\ NoLocals
  /\ verified' = FALSE /\ opened' = {} /\ cut' = cut \cup Cut
  /\ UNCHANGED <<token, pairs, stray>>

Next ==
  \/ \E t \in Test : Begin(t)
  \/ call # None /\ at # None /\
       (\/ VerifyPIN \/ OpenContainer \/ CreateContainer \/ GenerateSign \/ GenerateEnc
        \/ ExportSign \/ ExportEnc \/ Digest \/ Sign \/ Verify \/ Certificates
        \/ Wrap \/ Encrypt \/ ImportKeyPair \/ ImportSessionKey \/ Return)
  \/ Restart

Spec == Init /\ [][Next]_vars
-----------------------------------------------------------------------------
(* The variables have their types; a test uses a container only when there *)
(* is one.                                                                 *)
TypeOK ==
  /\ token \in [Container -> [made : BOOLEAN, sign : Pair \cup {None}, enc : Pair \cup {None}]]
  /\ pairs \in 0..MaxPairs /\ verified \in BOOLEAN /\ opened \subseteq Container
  /\ call \in Test \cup {None}
  /\ at \in Using => con # None \/ (call = "RasKeyPairTest" /\ at = "generate sign")
  /\ con \in Container \cup {None}
  /\ {pub, digest, signed, wrapped} \subseteq Pair \cup {None}
  /\ heap \subseteq Blob /\ cut \subseteq Container /\ stray \in BOOLEAN

(* A signing pair of the SM2 container is never replaced, by no sequence   *)
(* of tests, failures and restarts, up to the use of an uninitialised      *)
(* handle: signatures made earlier can be verified with the public key     *)
(* that is exported later.                                                 *)
SigningPairStays ==
  [][token["SM2"].sign # None => stray' \/ token'["SM2"].sign = token["SM2"].sign]_vars

(* A verification fails only because the library refuses: the public key   *)
(* that a test verifies with is that of the pair that signed, and SM3 took *)
(* the same key in, whether the pair was made or found.                    *)
VerifiesItsOwnSignature ==
  at = "verify" => pub = signed /\ (call # "RasKeyPairTest" => digest = signed)

(* A session key is wrapped for the pair that the token opens it with:     *)
(* the signing pair for the envelope of a key, the encryption pair for a   *)
(* session key by itself (main.c:1078 insists on it).                      *)
WrappedForTheToken ==
  at = "import" => wrapped # None /\
    wrapped = IF call = "ImportSM2KeyPair_Test" THEN token[con].sign ELSE token[con].enc

(* Between tests a container without signing pair was cut by a failure or  *)
(* a restart.                                                              *)
HalfMadeWasCut ==
  call = None => \A c \in Container : token[c].made /\ token[c].sign = None => c \in cut

(* ImportSessionKey_Test leaves no blob behind when it fails. *)
RefusalFreesBlobs == call = "ImportSessionKey_Test" /\ at = "failed" => heap = {}
=============================================================================
