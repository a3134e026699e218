# Verification of the SSL and token programs of MakeDown_File

The repository is a notebook: Markdown notes, a few phone scripts, and a set of C
programs around TLS. The programs are what can be specified. The most demanding of
them is an OpenSSL 3 provider over the Windows CNG key store, whose correctness is a
matter of who owns which handle, where two cursors stand and what a forked signature
covers; the rest are TLS clients and servers and programs that drive a hardware token.

All paths below are relative to the repository root (`src/` here), with
`P = ssl学习/`, `B = P/provider学习/cng_provider_dll/`, `T = P/provider学习/cng-provider-test/`.

## 1. Inventory

| Component | Source | State | Operations | Talks to |
|---|---|---|---|---|
| Store loader | `B/store/cng_store_functions.c` | loader context: two cursors over the system store, two end flags, one preloaded key object | open, load, eof, close, set_ctx_params | core callbacks; Crypt32; key objects by reference |
| Key objects | `B/keymgmt/cng_keymgmt_functions.c` | one NCrypt handle each | new, dup, load, free, has, get_params, export | NCrypt; the core (EVP_PKEY) |
| Signature contexts | `B/signature/cng_signature_functions.c` | hash handle, digest name, key, padding flags, salt | newctx, dupctx, freectx, digest_sign_init/update/final, set_ctx_params | BCrypt, NCrypt, key objects |
| Dispatch and life cycle | `B/cng_provider.c`, `B/debug.c` | a running flag, a trace channel | init, teardown, query_operation, get_params | the core |
| Statically linked twin | `T/store`, `T/keymgmt`, `T/signature`, `T/cng_provider.c` | as above | as above | an older, heavily commented copy of the four rows above, function by function the same |
| Legacy provider copy | `T/legacy_provider.c` | child library context | init, teardown, query | code outside the repository |
| CNG client | `P/provider学习/cng-provider-dll-test/main.c`; `T/main.c` with the twin in one process | providers, SSL_CTX, socket, SSL, public key | two searches of the store, connect, one request | the provider through OSSL_STORE, and in the handshake through the core's signatures |
| Ukey TLS client | `P/国密SKF学习/tasslukey/main.c` | nothing between calls: every call opens a session on the token | export certificate or key, sign, TLS client | SKF library, token, TASSL |
| SKF enumeration and key tests | `P/国密SKF学习/gmusbkeytest/main.c` | lists of device, application, container handles; the blobs of one container | enumerate, read certificates, make, export, wrap and use keys | SKF library, a token that outlives the program |
| GMSSL client / server | `P/Ssl_C_Demo/GMSSL_Client/gmclient.c`, `P/Ssl_C_Demo/GMSSL_Server/main.c` | SSL, socket | handshake, renegotiation, exchange | each other |
| TASSL client / server | `P/Ssl_C_Demo/TASSL_GM_Client/tasslclient.c`, `.../TASSL_GM_Server/sm2svr.c` | SSL_CTX, CA store with a lock; SSL; name buffers | handshake, transfer, names of the peer's certificates, CA list | peer, hardware module |
| Unix-domain epoll server and client | `c c++/域套接字.c` | epoll set, sockets | accept loop, receive loop | each other |
| SKF header, Appium scripts, notes | `P/国密SKF学习/SKFAPI.h`, `python/`, `*.md` | none | none | — |

### What is hard in them

* **Shared ownership** (provider). The loader hands its own key object to the core by
  reference, the core duplicates it, the loader then reads the next key *into the same
  object*; handles are small integers that Windows reuses. Loads, duplications and frees
  of several loaders and keys interleave freely.
* **Two cursors, two flags** (store). Certificates come first, then keys; a key exists
  only for some certificates; an acquisition may fail at any position; eof is the
  conjunction of two flags moved by different calls.
* **Recursion with an uninitialised local** (store). A failed acquisition leaves
  `tmp_key_handle` unset, and the way out of the recursion frees it.
* **Forked transcripts** (signature). OpenSSL signs on a duplicate and goes on feeding
  the original; the duplication may fail half way; `final` is called twice.
* **Two passes over a changing store** (client). The certificate is found in one opening
  and its key in another; what the first pass loaded is never freed, and the handshake
  signs with a duplicate of a key object of the second.
* **A token that changes** (Ukey). Certificates, keys and every signature come from
  sessions of their own on whatever token is found first at that moment.
* **A container that survives** (key tests). Tests that fail or are killed leave on the
  token what the next run finds, and share one container in any order.
* **Two peers with different ideas** (GMSSL, TASSL). A renegotiation in the middle of a
  dialogue; a client that reads more answers than the server writes; a module that is
  waited for; calls of `SSL_connect` that signals interrupt.
* **Partial failure** everywhere: each handler is a chain of acquisitions with its own
  way out at every link.

The hazards, each with its line and the properties that would catch it, are in
`PROJECT.json`.

## 2. Modules

| Module | Models | Abstraction |
|---|---|---|
| `ObjectStream` | what a store loader promises: certificates once each in order, then obtainable keys once each in order, exact eof | the abstract specification `CngStore` implements and `CngClient` uses |
| `CngStore` | store loaders with their key objects and the Windows handle table | a certificate is its position and the kind of its key; a handle is a value of a finite set with the certificate it names; the recursion of the preload is one step with a witness for where it stops |
| `CngStoreProofs` | the theorems about `CngStore`, those on the way to `ObjectStream` included | |
| `CngSignatureProofs`, `CngClientProofs`, `CngProcessProofs`, `SkfEnumProofs`, `SkfKeysProofs` | the theorems about the module in their name | |
| `TlsProofs` | the theorems about the programs that talk TLS: `UkeyClient`, `GmExchange`, `TasslExchange` | it extends the first and has the other two as the instances `Gm` and `Tassl`, which share variables since no formula speaks of both |
| `FoldProofs` | the theorems about the modules that compute with folds: `CngKeymgmt`, `CertName`, `TasslPeer` | it extends all three, so that the state machine of `CngKeymgmt` is called `KeymgmtInit`, `KeymgmtNext`, `KeymgmtSpec` |
| `CngSignature` | signature contexts, their BCrypt hashes and the keys the core holds | data are opaque blocks; a signature is the tuple of digest, data, key, padding and salt |
| `CngKeymgmt` | parameters and export of one key: blobs, byte reversal, buffers, strength | numbers are digits in a small base with the same positional arithmetic; sizes run over the thresholds of the table |
| `CngClient` | main() of the client with its two searches over an `ObjectStream`, and which of the two providers serves its steps | a certificate is its position; OpenSSL, Winsock and the server may fail at any call |
| `CngProcess` | the program `T/main.c` with the provider linked in: `CngClient` composed with a loader of `CngStore` in the place of the abstract stream and with contexts of `CngSignature` in the place of the handshake | the core is external: the calls it makes for one CertificateVerify, in their order, any of which may fail |
| `UkeyClient` | the four exports of the client, its handshake, and every signature asked of it, on tokens that are swapped | a token is a model value with its certificate, keys and PIN counter; a session is the stack of what it opened |
| `Dialogue` | what two programs promise of a conversation: messages of a script in turn, each after the last was heard, to the end if the connection lasts | the abstract specification that `GmExchange` and `TasslExchange` implement |
| `GmExchange` | `gmclient.c` and the GMSSL server on one connection: handshake, first exchange, renegotiation, second exchange, close | a flight or a message is a value; the connection may be lost at any moment |
| `SkfEnum` | `SKF_EnumUkeyInfo`, `SKF_DevInfo`, `GetAppNames` and the lists they fill | a handle is the path of positions that leads to what it opens |
| `SkfKeys` | the five tests of key pairs on one container of a token that outlives the program | a key pair is a number; a blob or a signature is the pair it was made with |
| `CertName` | the reading of the issuer's and the subject's name into a buffer of the caller | text is a sequence of small numbers, 0 is the end; conversions are external |
| `TasslPeer` | the functions of the older `main` of the TASSL client around `CertName`: connection, CA list under its lock, handshake with verification and its interruptions | a certificate is its subject and which of two issues it is |
| `TasslExchange` | `main` of the TASSL client and of the TASSL server with its hardware module | as in `GmExchange` |
| `MC*` | instances for TLC | symmetry sets, constraints and bounds only |

One action is one call of a handler from the core, with everything the handler does:
`Open` of `CngStore` includes the preload that ends `init_store_ctx`, `LoadKey` includes
the core's duplicate and the preload of the next key, `Close` frees the key object.
Windows and libcrypto are external; each of their calls may fail wherever the code looks
at its result. The map in `PROJECT.json` names the lines behind every definition.

Definitions whose comment begins with `Faulty:` are wrong variants of the definition
after them. Nothing uses them in the specification; substituted for it they show that the
property they were written for notices that mistake.

### Correspondence worth knowing

* `CngStore.certs[i]` is what `CryptAcquireCertificatePrivateKey` gives for certificate
  `i`: `ncrypt` (a CNG key whose handle the caller frees), `foreign` (a CSP key or a
  cached handle), `none`. Even an `ncrypt` key may fail to be acquired; `failed`
  remembers which did.
* `names[h]` is 0 for a closed handle, otherwise the certificate whose private key it
  names. Handles are reused after they were closed.
* `stray` is set when the uninitialised handle of a failed frame hits one that is open.
  `PreloadMiss` closes any set of open handles no larger than the number of frames that
  can do so. After that the code promises nothing, so the safety properties are stated
  up to it and the run of two loaders does not expand states past it.
* `lost` are the key objects that nobody can reach any more: `DupFails` (cng_keymgmt_dup
  forgets its block, whose handle is 0) and `CloseFails` (the loader's key object, with its
  open handle) produce them, as the code does.
* `blank` are the keys that the core made with `cng_keymgmt_new` and that no call of the
  provider gives a handle to. `cng_keymgmt_has` answers 1 for them as for any other, and
  that answer is wrong about exactly these; a duplication of one fails.
* `CngSignature.stage` is "lost" for the block of a failed `dupctx`, which nobody frees.
* `CngClient`: between its two passes the store may change in any way (`StoreChanges`), so
  that the second pass counts its own certificates; those whose key is the remembered one are
  `twins`. The module that `LoadLibraryEx` gives for the trace function is never freed (`open`
  keeps it), and neither is any `OSSL_STORE_INFO` (`infos`). An `SSL_new` that gives NULL ends the
  process at once.
* `CngClient.CreateSocket` goes on without a socket: `SOCKET` is unsigned on Windows, so
  the code's `s < 0` is never true, and the failure shows at `connect`.
* `UkeyClient`: a handle opened on a token is dead once the token was exchanged, and every
  call on it fails. Connecting to the name NULL (no token enumerated) is taken to fail.
  `SSL_CTX_use_PrivateKey` is taken to accept any key, so that the agreement of key and
  certificate rests on the check the code itself makes.
* `CngProcess.FindKey` and `FindCertificate` leave every key object they load in `held`: neither
  pass calls `OSSL_STORE_INFO_free`. `Exit` frees the library context, and with it the legacy
  provider, whose handle was overwritten by that of the CNG provider; key objects stay. The
  calls for a CertificateVerify (padding as an integer, salt as the string `digest`, the size,
  the data, a duplicate, the signature) are those of OpenSSL 3; TLS 1.3 signs with PSS only.
* `CngProcess`: `cng_store_set_ctx_params` of the twin lost the declaration of `p`, so that the
  file as it stands does not compile; nothing else of it depends on that function, and the
  DLL's has it.
* `CngProcess` keeps the store as it is between the passes, since the loaders of `CngStore` walk
  one list; a store that changes is the business of `client_search`.
* `GmExchange`: SSL_MODE_AUTO_RETRY is off, as in the OpenSSL that the code was written
  for: a read that meets a handshake returns without data. A lost connection clears the
  wire, and whoever writes on it may be ended by SIGPIPE (`ClientKilled`, `ServerKilled`), since
  neither program sets a handler. The client's first message has an undefined prefix
  (its buffer is not
  initialised), which no property looks at. `Interruption` is a signal while `SSL_connect`
  waits: the call is repeated `MaxRetry` times and then by way of a `select` without a
  timeout, which a signal may end as well. `TasslExchange` and `TasslPeer` have the same loop.
* `SkfEnum`: the buffer of the second call has as many bytes as the first call asked for, and a
  list that grew fits when its names are short enough (`Fits`): the library may refuse any list
  unless both are empty. A count nobody wrote is 0 or 1; the library refuses a NULL handle; an empty
  list of names is one or two bytes long, and the code treats the two differently.
* `SkfKeys`: the tests run in any order, the two that `main` has commented out included.
  `stray` says that `RasKeyPairTest` used an `hCon` nobody wrote; it may then name any
  container, and `SigningPairStays` is stated up to it.
* `CertName`: the characters have one byte in UTF-8 and in GBK, so that `VOS_Utf8toGBK` keeps
  their number; a BMP string has two bytes for each.
* `CertName` ends where the issuer is known; the subject is one library call into another
  buffer. `TasslPeer` calls it as the `main` that is commented out does. That `main` is the
  only caller of these functions, which are compiled; they are modelled as functions any
  caller may use, with any buffer, with or without verification. Names are read on a
  connection that was not verified, since the reading does not look at how it was made.
* `TasslExchange`: a write on a broken connection may end the program (SIGPIPE); the first
  write into a connection the peer has closed is lost without notice. A handshake fails
  only for a reason: a flight that is refused or will not come.

## 3. Runs

| Run | Question | Bounds | Answer |
|---|---|---|---|
| `store_loaders` | where do cursors and flags stand; who owns what when two loaders and the core's keys interleave, empty ones of its own included; what leaks; does each loader implement `ObjectStream` | 2 loaders, 4 key objects, 4 handles, 0–2 certificates of every kind, every failure | holds up to a stray free |
| `signature_contexts` | contexts forked from one another, keys coming and going; what a signature covers, over all parameters and calls | 2 contexts, 2 hashes, 2 key objects, 2 digests and an unknown one, all paddings and salts, 1 block per hash | holds |
| `keymgmt_export` | exported numbers, strength, buffers | numbers of up to 3 digits, 2 calls, sizes at and around each threshold | holds |
| `client_search` | pair, reason, what is left at the end, termination of the searches | 0–3 certificates, any subset usable or matching; any other such store in its place for the second pass | holds |
| `cng_process` | does the client do with the real loader what it does with the stream; is a signature of the key of the certificate that is shown | 0–2 certificates of every kind, 6 key objects, 8 handles | holds up to a stray free |
| `ukey_sessions` | do certificate and key agree; PIN attempts; what each way out leaves open | 2 tokens, 2 handshakes, 2 signatures | holds |
| `gm_exchange` | do both programs reach their end; is their conversation a `Dialogue`, with the renegotiation inside it | 2 repeated calls before a select | holds |
| `skf_enum` | are the lists whole and in order, is anything skipped without reason, what can make `main` walk an array that is not there | 2 devices, 2 applications, 2 containers | holds |
| `skf_keys` | what a test that passed means, whose signature it is, what a failure leaves | 4 key pairs made in all | holds |
| `tassl_peer` | does the CA list have what it should when the handshake begins; which name is returned, and is it terminated | 2 subjects with 2 certificates each, 2 repeated calls; text up to 3, 2 entries, 3 encodings, 3 types of string, characters of one byte, buffers of 1 to 3 | holds |
| `tassl_exchange` | do both end; is what they agree on a `Dialogue` | 2 repeated calls before a select | holds |
| `keymgmt_strength_doc` | are the security bits those of SP 800-57, as a comment says | as `keymgmt_export` | refuted |

Most modules have a `TypeOK` that says what their variables range over. It is proved (section 5),
so that the runs are spent on the other properties.

Why the bounds are enough: two certificates are the least that make a preload pass over
one and land on another, and that make one handle supersede another; two loaders and two
keys of the core (four objects, four handles) exhibit every pairwise sharing and every
reuse of a handle freed by another party; the ownership results do not rest on them, for
they are proved for all values. Two contexts make an original and its duplicate, and a
duplicate of the duplicate once the original is freed. For the client,
three certificates make a match before, at and after one that is not usable. For the process
two suffice to load the key of another certificate before the right one; two passes that
free nothing, a loader and a duplicate need six objects and eight handles, and with these
numbers no call ever lacks a free one (`FirstFit` takes the lowest, since only their
identity counts). An interrupted handshake that may be repeated twice is repeated, goes
through the select and is repeated anew; a larger number only lengthens the first part.
Two tokens
are the least that can be exchanged; two devices, applications and containers the least
that make a skipped one stand before a reported one; four key pairs let a container be
made, replaced, and made again after a failure. Buffers of one to three bytes against text of
up to three characters, copied two at a time, make every order of the three lengths.

### Disagreements between code and comments

One is a run, `keymgmt_strength_doc`:

* `StrengthIsSP80057`: SP 800-57 gives 2048, 3072 and 7680 bits 112, 128 and 192 bits of security;
  the code, which compares with `>`, gives 2048 bits 80, and the
  others the strength of the class below too. An answer of 0, which the comment at line 62 of
  `B/keymgmt/cng_keymgmt_functions.c` calls unknown, is allowed for every size.

Others were met while modelling. The models follow the code in them:

* An acquisition error does not end the keys when a later one can be acquired; the comment at
  `B/store/cng_store_functions.c:38` says that an error sets the flag, the code from line 57
  on goes to the next certificate.
* A successful `cng_store_close` leaves every superseded key handle open, where the twin's
  comment promises that all resources are released (`LeaksAccountedFor` says what leaks).
* The padding string `pss` is accepted and ignored by `cng_signature_set_ctx_params`.
* `cng_signature_freectx` leaves the key object that `dupctx` made for the context.
* The enumeration of the key tool returns success with array and count unset when the
  library cannot be loaded; `main` then walks an array that is not there.
* The test for an empty issuer in `tasslclient.c` reads a buffer that nobody wrote when the
  certificate has no common name, and the subject "of the last certificate" is that of
  the first.

## 4. Fairness

The provider is called; it never calls itself. `CngStore`, `CngSignature` and
`CngKeymgmt` have no fairness, since the core may stop calling at any moment, and only
safety is claimed of them. `CngClient` is a program that runs: its steps are those of
one thread, and weak fairness of `Next` says that the thread is scheduled and that the
blocking calls on the socket return. `SearchEnds` needs only the first half, since the
searches touch no socket. It is the fairness of `Main` alone: nothing makes the user change
the store, or keeps him from it.

`CngProcess`, `UkeyClient`, `SkfEnum`, `SkfKeys` and `TasslPeer` make safety claims only and
assume nothing. `GmExchange` and `TasslExchange` have two processes and, in the latter, a hardware
module: weak fairness of each says that it is scheduled and that a blocked call returns
when what it waits for has come. A process has no step while it waits, so that two that
wait for one another would be found. Nothing is assumed of the loss of the connection, nor of signals:
they may interrupt `SSL_connect`, while it waits, for ever or never. No
other call is interrupted in the models: no program installs a handler, so that a signal
ends the process or is ignored, and at most one that stops and continues it could make a blocked
`SSL_read` or `SSL_accept` return (`gmclient.c` 203, 206, 223; `GMSSL_Server/main.c` 179, 202, 216;
`sm2svr.c` 230, 256). The code does not repeat those calls, and of a conversation in which one
of them is cut short nothing is said here. `Dialogue` promises what the two programs
owe together: weak fairness of its two steps, as long as the connection is there.

## 5. Proofs

Each theorem holds for every value of the constants that satisfies the `ASSUME` of its
module: any sets of loaders, key objects, handles, contexts and tokens, any number of
certificates and key pairs, sequences of any length. The assumptions say that NULL values are not members of the
sets they stand beside and that bounds are natural numbers; `SignatureAssumption` also
takes the sets of contexts and hashes to be finite, since one invariant counts their members;
`SkfEnumAssumption` takes the devices to be finitely many, since the library lists them;
`KeymgmtAssumption` asks for a base of at least 2; `CertNameAssumption` takes NUL for no
character of a text and the copying buffer for not empty; `ProcessAssumption` says that no
two certificates have the same private key, without which a key would not tell whose
signature it made. `GmTypes` and `TasslTypes` name their assumption, that the number of retries is
a natural number, in the theorem; the two theorems before them need none.

| Theorem | States | Module |
|---|---|---|
| `Ownership` | `[](TypeOK /\ OneOwnerPerObject)` | `CngStoreProofs` |
| `HandlesStayExclusive`, `PreloadsMatch`, `HasIsRightOfTheOthers` | `[]HandlesExclusive`, `[]PreloadMatchesCursor`, `[]HasErrsOnBlankKeys` | |
| `KeysStayStable` | `HeldKeysStable`, an action property | |
| `LeaksAreAccountedFor` | `[]LeaksAccountedFor` | |
| `CursorsAgree` | `[]PositionsAgree` | |
| `LoadersImplementStreams` | `LoadersAreStreams`: every loader implements `ObjectStream` | |
| `TranscriptsStayFaithful`, `OnlySigningUsesUp` | `[]TranscriptFaithful`, `[]UnsignedStaysOpen` | `CngSignatureProofs` |
| `SignaturesAreFaithful` | `SignsWhatWasFed`, an action property | |
| `HashesStayExclusive` | `[]HashesExclusive` | |
| `ConnectsWithTheChosenPair` | `[]ConnectsWithItsPair` | `CngClientProofs` |
| `GivesUpOnlyForAReason`, `ExitLeavesWhatItForgets` | `GivesUpForAReason`, `LeavesWhatItForgets`, action properties | |
| `ProcessSignsForItsCertificate` | `SignsForItsCertificate`, an action property | `CngProcessProofs` |
| `ProcessFollowsTheClient` | `FollowsTheClient`: the process implements the step relation of `CngClient` | |
| `ConnectsWithPairs`, `HandlesLeftOnlyByFailure` | `[]PairsMatch`, `[]LeftOnlyByFailure` | `TlsProofs` |
| `SignaturesComeFromClosedSessions` | `SignatureClosesItsSession`, an action property | |
| `OneAttemptPerRun` | `[]OneWrongPinAtMost` | |
| `GmConversesInTurn`, `TasslConversesInTurn` | the safety part of `TheyConverse`: initial states and steps of `GmExchange` and `TasslExchange` are those of `Dialogue` or stutters | |
| `SigningPairIsForGood` | `SigningPairStays`, an action property | `SkfKeysProofs` |
| `SignaturesVerify`, `WrappedKeysOpen`, `HalfMadeIsKnown`, `RefusalsFree` | `[]` of `VerifiesItsOwnSignature`, `WrappedForTheToken`, `HalfMadeWasCut`, `RefusalFreesBlobs` | |
| `EnumListsAreWhole`, `EnumSkippedForAReason`, `EnumCrashesOnlyOnNothing` | `[]` of `ListsAreWhole`, `SkippedForAReason`, `CrashesOnlyOnNothing` | `SkfEnumProofs` |
| `ExportsAgree`, `StrengthIsSafe`, `FailuresKeepNothing` | `ExportedNumbersAgree`, `StrengthNeverOverstated`, `FailuresLeakNothing` of `CngKeymgmt`, action properties | `FoldProofs` |
| `NamesAreTerminated`, `IssuerIsRead` | `[]Terminated`, `[]IssuerIsTheLastName` of `CertName` | |
| `PeerListsBothFiles` | `[]ListsBothFiles` of `TasslPeer` | |
| `ClientTypes`, `SignatureTypes`, `UkeyTypes`, `GmTypes`, `TasslTypes`, `EnumTypes`, `KeysTypes`, `PeerTypes` | `[]TypeOK` of `CngClient`, `CngSignature`, `UkeyClient`, `GmExchange`, `TasslExchange`, `SkfEnum`, `SkfKeys`, `TasslPeer` with `CertName` | the module with the others about it |

**The store.** The argument has layers. `Owned` (types and one owner per key object) is
inductive on its own: an object is taken from the free ones, so a new owner never meets an
old one. `Safe` is `Owned` with the exclusiveness of handles, the agreement of preload and
cursor, and a real handle for every key of the core but the blank ones. None of these is
inductive alone:
`FreeKey` keeps the preload of a loader intact only because the freed handle is not the
loader's, which is exclusiveness; `LoadKey` gives the core a real handle only because the
preload is real while the flag is down, which is the agreement. The lemmas
`PreloadType`, `PreloadExclusive` and `PreloadOthers` say once what the shared preload does
to an arbitrary handle table, so that `Open` (from a fresh object) and `LoadKey` (after a
duplication) can both cite them. `KeysStayStable` is proved along with the step of `Safe`:
a step changes what an open handle names only by closing it, and only its owner does that.
`Covered` says that an
open handle belongs to a live object or was superseded, and a superseded one to no object; with
one owner per object it gives `LeaksAccountedFor`: what no call can close was superseded, or
belongs to an object that is `lost`.

The refinement needs one more invariant, `Positions`, which relates the two cursors, the
flags and the set of failed acquisitions to the rank last handed over; from it follows
`EndsExact`, that the flags answer what the stream's end-of-file query would. With them a
load is `Give` of its own stream, and every step of another loader or of a key is a
stutter: no loader's position depends on what the others do, up to a stray free.

**Signatures.** `Hashes` says that each ready context has an open hash of its own which holds
its transcript, or was used up by a signature; `Keys`, that its key object is live, is the one asked
for, and is its own or held by the core on its behalf. Neither the transcript nor the exclusiveness is
inductive alone: feeding one context leaves the hash of another as it is only because they
differ. The bound on open hashes in `HashesExclusive` compares two cardinalities; `Counted`
follows how every action moves them, which takes the finiteness assumption.

**The client of the provider.** `Chosen` says where `main` may be with which pair: during the
first pass no match lies behind the stream, after it the certificate is the first match,
and after the second the key is its own. The step that needs it is `Give`, which passes
over nothing that can be delivered, and certificates always can. `Looking` does the
same for the key and follows who has the store open.

**The Ukey client.** `SlotsInOrder` says that `ukey_sslcli` passes a slot of the SSL_CTX only
with a pair in it. `HandlesAccounted` relates the open handles to the steps of the session
that runs and to the sessions that failed. `PinComesFirst` says that a session for a signature is past
its PIN only on a token that takes it, and that the first signature that fails is the last
(`Down`); that a wrong PIN is followed by no other attempt (`AttemptsCounted`) needs both.

**The key tests.** `Places` says at which of its steps a test can be and with whose container
(only `RasKeyPairTest` can have none, or another's); `Filling`, that a container without a
signing pair has no encryption pair and is being filled or was cut; `Holding`, that what
the test has in its variables is what its container has. The theorem on the signing
pair uses that the one test that generates into a container it found is `RasKeyPairTest`,
and that it reaches the SM2 container only through the uninitialised handle.

**The process.** `ProcessInv` puts the invariants of the parts side by side: `Safe` and
`Positions` of the store, which `CngStoreProofs` gives for the one loader of this program,
`Main` (where `main` is and with which pair, as `Chosen` and `Looking` of the client),
`Contexts` and `Keys` (how far the core is with a CertificateVerify, and which key object and
which hash its two contexts have), and `Fields`. Every step of the program is
a step of the store or leaves the store alone (`StoreCall`), so that the store's lemmas carry
over. Two facts join the parts. `held`, the key objects that were loaded, never shrinks, so
that the key of the SSL_CTX names what it named when it was checked; and the
handle of a key just loaded names the certificate of its rank, which is what the stream of
the client delivers. Then the signature is made with the private key of the certificate
shown, and since each certificate has its own it is of no other. For
`ProcessFollowsTheClient` the calls of the handshake are stutters of the client, and each other
step is the client's step of the same name, or leaves the claim because a stray free happened.

**The enumeration.** `Lists` says what the lists hold while they are filled: at every level
a list is the part of the names that could be had, in order, up to where the program
is, below the element of the level above it. `Dealt` says what lies behind the indices: every
device, application and container passed was reported, or refused one of the calls. Both
mention what the other levels hold, so they are proved together, one lemma for each action
and part. That the names can be listed at all is a fact about finite sets of numbers
(`SetToSortSeq` is defined by choice), proved by induction on the number of devices.

**Folds.** The library's folds are recursive functions over sets, and the induction theorems
take an operator as parameter. Induction is therefore the search for a least counterexample
(`Least`, from `WFMin` on the natural numbers): that the function of a fold exists, what it
gives for one element more, and that two folds agree. With them `ReversalKeepsTheNumber`
compares the sum that reads a buffer from its front with the one that reads the reversed
buffer from its end; `StringPrint` gives back its data for any size of the copying buffer;
and an extraction stores the last entry of its kind that fits. For the two invariants of
names, `Shape` says that the buffer keeps its length and its end, and
`Naming` what is known of it where the program is: nothing written yet,
the name of the first kind, or that of the second. The list of CA certificates needs `CAs`
(what is in it after each of the two files) and that the files do not change.

**The exchanges.** `GmInv` names the stages the two GMSSL programs go through together, 22 from
`Apart` to `Over`, or the connection is `Lost`; `TasslInv` has 12 from `Separate` to `Closing`.
A stage says where both programs are, what is on each wire, what each side's handshake
waits for, how many it has completed, and how many messages were heard. A step leads from a
stage to itself, to the next, or to where the client gave up; each has a lemma of its own.
A stage also means something to the conversation (`Meaning`): nothing said, all that was
said heard, or one message on its way. The steps of a handshake and those of a program that
waits keep the meaning, so that they are stutters of `Dialogue`; the others change it by
one message said or heard. That meaning is a fact about states, so `PTL` gives it for the
next state too. The second handshake is where this could fail: a request, a flight or the end of it may
be on the wire together with an answer (`AnsweredAhead`), and the read that meets it returns
with nothing. In `TasslExchange` it is the end: the server may have closed before the
client writes again, and `Closing` has to say that the wire is empty until it does. A lost
connection moves nothing more. `Dialogue` has no constant to assume anything of; the
theorems hold for any number of retries, and how long the module takes is open.

**Types.** Some of the type invariants need more than the types. In `CngClient` what is held is
a first part of what `main` acquires until it returns, so `Typed` says for each of its places
what is held there. In `CngSignature` a hash in use was made for a digest, and the keys the core has are
private keys (`Outside`). In `UkeyClient` a call is made from a place that has a purpose for it,
and one for a signature only while one is left to make. In the exchanges the numbers of
handshakes and of messages, and of things on a wire, are bounded by nothing but the order
of events: the bounds (`GmCounted`, `TasslCounted`) follow from the stages, and a lost
connection leaves them as they were; the rest of the types is inductive without
them. `PeerTypes` rests on what is known of the buffer of `CertName` and of the list of certificates.

What is only model-checked:

* Liveness: `SearchEnds`, `BothEnd` and the fair part of `TheyConverse` are out of the prover's
  reach.
* Nothing else that a run checks. `ObjectStream` and `Dialogue` are specifications to implement
  and state no properties; `CngKeymgmt`, `CngProcess` and `CertName` state no types of their own
  (`PeerTypes` covers the variables of `CertName`).

## 6. Not modelled

* In the modelled components: `cng_store_set_ctx_params` (stores a number that only a log
  line reads), the tables that settable and gettable calls return, logging, the client's
  key log; certificate contexts as counted objects; NULL dereferences after a failed
  `malloc`, which end the process; behaviour after a stray free.
* In the programs around TLS: signals in any call but `SSL_connect` (section 4); names with
  characters of several bytes, for which the conversion changes the length of UTF-8 text too;
  the sizes of names in bytes that `SkfEnum` compares with its buffer, of which `Fits` keeps the
  outcome. In the client of the provider: the library context.
* In the token programs: the content of certificates, `GetContainerNames` (not called),
  the bytes of the blobs. In the GMSSL programs: the verification mode. In the TASSL
  programs: the start-up of the library, and the verify callback of the server, which is
  installed only when client verification is compiled in. In the Ukey client: the callbacks
  that OpenSSL answers in software (`ukey_verify`, `ukey_encrypt`, `ukey_digest_custom`,
  `ukey_ctrl`), which neither keep state nor reach the token, and the declarations of the SKF
  interface that fill the first thousand lines of its file.
* Of the provider's dispatch (`cng_provider.c`, `debug.c`), the constant parameters and the
  trace channel; of the legacy provider, the tables that name code outside the repository. `CngClient` has the rest: the outcome of
  `OSSL_provider_init`, and `cng_query_operation`, by which a step of the client is served
  by the CNG provider or by the default one.
* Of the twin, what `CngProcess` does not call: export and key parameters, which are the DLL's
  in `CngKeymgmt`. The modules of the provider follow the DLL, and `CngProcess` the twin.
* `c c++/域套接字.c` does not compile (a directive `#epoll`, two functions `main`): notes on
  an epoll server, not a program.
* `SKFAPI.h` is a vendored header; the Appium scripts are straight lines of screen taps on
  apps outside the repository; the notes are prose.

## 7. Plan

Done: the provider (`ObjectStream`, `CngStore`, `CngSignature`,
`CngKeymgmt`), its clients (`CngClient`, `CngProcess`), the programs around tokens and
those around TLS, with `Dialogue` as the promise of the two exchanges, and the theorems of
section 5: every invariant and action property that a run checks is one of them, the type
invariants included, and so is the safety part of each refinement; what is left to TLC is
liveness.
