------------------------------ MODULE CngStore ------------------------------
(***************************************************************************)
(* The STOREMGMT half of the CNG provider (store/cng_store_functions.c)    *)
(* with the key objects it creates (cng_keymgmt_new, _dup, _load, _free)   *)
(* and the Windows handles behind them.                                    *)
(*                                                                         *)
(* The core opens loader contexts on a system store, loads objects from    *)
(* them, keeps the keys it was handed as EVP_PKEYs of its own, makes empty *)
(* ones, duplicates and frees all of those, and closes loaders, in any     *)
(* order.  One action is one call from the core, with everything that call *)
(* does.                                                                   *)
(*                                                                         *)
(* Windows is external: CertEnumCertificatesInStore walks a fixed list,    *)
(* CryptAcquireCertificatePrivateKey may fail at any call, and a handle    *)
(* value is reused once it is closed.  The tmp_key_handle of a frame whose *)
(* acquisition failed is uninitialised when it reaches NCryptFreeObject:   *)
(* it may name any handle, open or not.                                    *)
(***************************************************************************)
EXTENDS Integers, Sequences, FiniteSets

CONSTANTS
  Loader,    \* T_CNG_STORE_CTX blocks the core can have open at once
  KeyObj,    \* T_CNG_KEYMGMT_KEYDATA blocks the heap can hold
  NoKey,     \* the NULL key object
  Handle,    \* values an open NCRYPT_KEY_HANDLE can have
  NoHandle,  \* the handle 0
  MaxCerts   \* bound on the number of certificates in the system store

ASSUME StoreAssumption ==
  /\ NoKey \notin KeyObj
  /\ NoHandle \notin Handle
  /\ MaxCerts \in Nat

VARIABLES
  certs,               \* what acquiring the key of each certificate gives
  is_open,             \* loaders that cng_store_open returned
  prev_cert_ctx,       \* position of the certificate cursor, 0 for NULL
  cert_store_eof,
  prev_key_cert_ctx,   \* position of the key cursor, 0 for NULL
  priv_key_store_eof,
  key,                 \* store_ctx->key
  live,                \* key objects allocated and not freed
  windows_key_handle,  \* of each key object
  held,                \* key objects the core owns (EVP_PKEY)
  names,               \* certificate whose key an open handle names, or 0
  given,               \* history: rank of the last object the core took
  failed,              \* history: certificates whose acquisition failed
  blank,               \* history: those of held that cng_keymgmt_new made
  lost,                \* history: key objects left without an owner
  superseded,          \* history: handles a preload overwrote unfreed
  stray                \* history: an uninitialised handle hit an open one

cursors == <<prev_cert_ctx, cert_store_eof, prev_key_cert_ctx,
             priv_key_store_eof, key>>
keys == <<live, windows_key_handle, held, names>>
origin == <<blank, lost>>
history == <<given, failed, superseded, stray>>
vars == <<certs, is_open, cursors, keys, origin, history>>

(* CNG key the caller must free; CSP or cached key; no key at all. *)
Kind == {"ncrypt", "foreign", "none"}
Index == 0..MaxCerts
Size == Len(certs)
Usable == {i \in 1..Size : certs[i] = "ncrypt"}
ClosedHandle == {h \in Handle : names[h] = 0}

(* CertEnumCertificatesInStore *)
NextCert(i) == IF i < Size THEN i + 1 ELSE 0

(* NCryptFreeObject on each handle of a set. *)
FreeObject(table, freed) ==
  [h \in Handle |-> IF h \in freed THEN 0 ELSE table[h]]
-----------------------------------------------------------------------------
Init ==
  /\ certs \in UNION {[1..n -> Kind] : n \in Index}
  /\ is_open = [l \in Loader |-> FALSE]
  /\ prev_cert_ctx = [l \in Loader |-> 0]
  /\ cert_store_eof = [l \in Loader |-> FALSE]
  /\ prev_key_cert_ctx = [l \in Loader |-> 0]
  /\ priv_key_store_eof = [l \in Loader |-> FALSE]
  /\ key = [l \in Loader |-> NoKey]
  /\ live = {}
  /\ windows_key_handle = [k \in KeyObj |-> NoHandle]
  /\ held = {}
  /\ names = [h \in Handle |-> 0]
  /\ blank = {} /\ lost = {}
  /\ given = [l \in Loader |-> 0]
  /\ failed = [l \in Loader |-> {}]
  /\ superseded = [l \in Loader |-> {}]
  /\ stray = FALSE

(***************************************************************************)
(* load_another_privkey_from_store_into_context: from position "from" on,  *)
(* the recursion skips certificates until an acquisition succeeds; the     *)
(* handle then overwrites that of key object k.  handles and table are the *)
(* key objects and the handle table as they stand when it is called.       *)
(***************************************************************************)
PreloadHit(l, k, from, handles, table) ==
  \E j \in from + 1 .. Size, h \in Handle :
    /\ certs[j] = "ncrypt" /\ table[h] = 0
    /\ prev_key_cert_ctx' = [prev_key_cert_ctx EXCEPT ![l] = j]
    /\ priv_key_store_eof' = [priv_key_store_eof EXCEPT ![l] = FALSE]
    /\ windows_key_handle' = [handles EXCEPT ![k] = h]
    /\ names' = [table EXCEPT ![h] = j]
    /\ failed' = [failed EXCEPT ![l] = @ \cup (from + 1 .. j - 1)]
    /\ superseded' = [superseded EXCEPT ![l] = @ \cup ({handles[k]} \ {NoHandle})]
    /\ UNCHANGED stray

(* Faulty: the end of the enumeration is not recorded. *)
PreloadMissWithoutEof(l, from, handles, table) ==
  /\ prev_key_cert_ctx' = [prev_key_cert_ctx EXCEPT ![l] = 0]
  /\ failed' = [failed EXCEPT ![l] = @ \cup (from + 1 .. Size)]
  /\ windows_key_handle' = handles
  /\ names' = table
  /\ UNCHANGED <<priv_key_store_eof, superseded, stray>>

(* No acquisition succeeds: on the way out every frame frees its           *)
(* tmp_key_handle; the uninitialised ones may close handles in use.        *)
PreloadMiss(l, from, handles, table) ==
  \E freed \in SUBSET {h \in Handle : table[h] # 0} :
    /\ Cardinality(freed) <= Cardinality({i \in from + 1 .. Size : certs[i] # "foreign"})
    /\ prev_key_cert_ctx' = [prev_key_cert_ctx EXCEPT ![l] = 0]
    /\ priv_key_store_eof' = [priv_key_store_eof EXCEPT ![l] = TRUE]
    /\ windows_key_handle' = handles
    /\ names' = FreeObject(table, freed)
    /\ failed' = [failed EXCEPT ![l] = @ \cup (from + 1 .. Size)]
    /\ stray' = (stray \/ freed # {})
    /\ UNCHANGED superseded

Preload(l, k, from, handles, table) ==
  \/ PreloadHit(l, k, from, handles, table)
  \/ PreloadMiss(l, from, handles, table)
-----------------------------------------------------------------------------
(* cng_store_open on a good URI: both cursors are put on their first object. *)
Open(l) ==
  /\ ~is_open[l]
  /\ \E k \in KeyObj \ live :
       /\ live' = live \cup {k}
       /\ key' = [key EXCEPT ![l] = k]
       /\ Preload(l, k, 0, [windows_key_handle EXCEPT ![k] = NoHandle], names)
  /\ is_open' = [is_open EXCEPT ![l] = TRUE]
  /\ prev_cert_ctx' = [prev_cert_ctx EXCEPT ![l] = NextCert(0)]
  /\ cert_store_eof' = [cert_store_eof EXCEPT ![l] = NextCert(0) = 0]
  /\ UNCHANGED <<certs, held, given, origin>>

(* cng_store_open returns NULL.  A bad scheme or no memory is seen before  *)
(* a key object exists; an unknown store name, or a system store that does *)
(* not open, after it: that object is freed again with its handle 0.       *)
OpenFails(l) ==
  /\ ~is_open[l]
  /\ \/ UNCHANGED keys
     \/ \E k \in KeyObj \ live :
          /\ windows_key_handle' = [windows_key_handle EXCEPT ![k] = NoHandle]
          /\ live' = (live \cup {k}) \ {k}
          /\ UNCHANGED <<held, names>>
  /\ UNCHANGED <<certs, is_open, cursors, origin, history>>

(* Faulty: the cursor is advanced before the certificate is handed over. *)
LoadCertAdvancesFirst(l) ==
  LET next == NextCert(prev_cert_ctx[l]) IN
  /\ is_open[l] /\ ~cert_store_eof[l] /\ next # 0
  /\ given' = [given EXCEPT ![l] = next]
  /\ prev_cert_ctx' = [prev_cert_ctx EXCEPT ![l] = next]
  /\ UNCHANGED <<certs, is_open, cert_store_eof, prev_key_cert_ctx,
                 priv_key_store_eof, key, keys, origin, failed, superseded, stray>>

(* cng_store_load while certificates are left: load_another_cert, whatever *)
(* the core's callback answers.                                            *)
LoadCert(l) ==
  LET next == NextCert(prev_cert_ctx[l]) IN
  /\ is_open[l] /\ ~cert_store_eof[l]
  /\ given' = [given EXCEPT ![l] = prev_cert_ctx[l]]
  /\ prev_cert_ctx' = [prev_cert_ctx EXCEPT ![l] = next]
  /\ cert_store_eof' = [cert_store_eof EXCEPT ![l] = next = 0]
  /\ UNCHANGED <<certs, is_open, prev_key_cert_ctx, priv_key_store_eof, key,
                 keys, origin, failed, superseded, stray>>

KeyTurn(l) == is_open[l] /\ cert_store_eof[l] /\ ~priv_key_store_eof[l]

(* cng_keymgmt_dup of key object k succeeds: a new object k2 whose handle  *)
(* h2 was opened by name on the same key (duplicate_key_handle).           *)
Duplicate(k, k2, h2) ==
  /\ windows_key_handle[k] \in Handle \ ClosedHandle
  /\ k2 \in KeyObj \ live
  /\ h2 \in ClosedHandle

DupHandles(k2, h2) == [windows_key_handle EXCEPT ![k2] = h2]
DupNames(k, h2) == [names EXCEPT ![h2] = names[windows_key_handle[k]]]

(* Faulty: the core is given the loader's own key object. *)
LoadKeyByReference(l) ==
  /\ KeyTurn(l)
  /\ held' = held \cup {key[l]}
  /\ given' = [given EXCEPT ![l] = Size + names[windows_key_handle[key[l]]]]
  /\ Preload(l, key[l], prev_key_cert_ctx[l], windows_key_handle, names)
  /\ UNCHANGED <<certs, is_open, prev_cert_ctx, cert_store_eof, key, live, origin>>

(* Faulty: the handle is copied, as any other field would be. *)
LoadKeyCopiesHandle(l) ==
  /\ KeyTurn(l)
  /\ windows_key_handle[key[l]] \notin ClosedHandle
  /\ \E k2 \in KeyObj \ live :
       /\ live' = live \cup {k2}
       /\ held' = held \cup {k2}
       /\ given' = [given EXCEPT ![l] = Size + names[windows_key_handle[key[l]]]]
       /\ Preload(l, key[l], prev_key_cert_ctx[l],
                  DupHandles(k2, windows_key_handle[key[l]]), names)
  /\ UNCHANGED <<certs, is_open, prev_cert_ctx, cert_store_eof, key, origin>>

(* cng_store_load once the certificates are out: load_another_private_key. *)
(* The core takes the key through cng_keymgmt_load, a dup of the loader's  *)
(* own key object; then the next key is preloaded over it.                 *)
LoadKey(l) ==
  /\ KeyTurn(l)
  /\ \E k2 \in KeyObj, h2 \in Handle :
       /\ Duplicate(key[l], k2, h2)
       /\ live' = live \cup {k2}
       /\ held' = held \cup {k2}
       /\ given' = [given EXCEPT ![l] = Size + names[windows_key_handle[key[l]]]]
       /\ Preload(l, key[l], prev_key_cert_ctx[l],
                  DupHandles(k2, h2), DupNames(key[l], h2))
  /\ UNCHANGED <<certs, is_open, prev_cert_ctx, cert_store_eof, key, origin>>

(* cng_keymgmt_new: a key object with the handle 0. *)
NewObj(k) ==
  /\ k \in KeyObj \ live
  /\ live' = live \cup {k}
  /\ windows_key_handle' = [windows_key_handle EXCEPT ![k] = NoHandle]

(* OSSL_FUNC_KEYMGMT_NEW: the core makes a key of its own, which no call   *)
(* of the provider can give a Windows key to.                              *)
NewKey(k) ==
  /\ NewObj(k)
  /\ held' = held \cup {k} /\ blank' = blank \cup {k}
  /\ UNCHANGED <<certs, is_open, cursors, names, lost, history>>

(* A dup whose duplicate_key_handle fails, as it does on the handle 0,     *)
(* returns NULL and forgets the block that it made.                        *)
DupFails ==
  /\ \E k2 \in KeyObj : NewObj(k2) /\ lost' = lost \cup {k2}
  /\ UNCHANGED <<certs, is_open, cursors, held, names, blank, history>>

(* Faulty: the next key is preloaded whatever the callback answered. *)
LoadKeyRefusedAdvances(l) ==
  /\ KeyTurn(l)
  /\ Preload(l, key[l], prev_key_cert_ctx[l], windows_key_handle, names)
  /\ UNCHANGED <<certs, is_open, prev_cert_ctx, cert_store_eof, key, live, held, given, origin>>

(* The core's callback returns 0: cng_keymgmt_load failed, or the core     *)
(* freed what it got.  The loader stays on the same key.                   *)
LoadKeyRefused(l) ==
  /\ KeyTurn(l)
  /\ DupFails \/ UNCHANGED vars

(* Faulty: the result of duplicate_key_handle is not looked at. *)
DupKeyUnchecked(k) ==
  /\ k \in held
  /\ \E k2 \in KeyObj \ live :
       /\ live' = live \cup {k2}
       /\ held' = held \cup {k2}
  /\ UNCHANGED <<certs, is_open, cursors, windows_key_handle, names, origin, history>>

(* cng_keymgmt_dup on a key of the core. *)
DupKey(k) ==
  /\ k \in held
  /\ \/ DupFails
     \/ /\ \E k2 \in KeyObj, h2 \in Handle :
             /\ Duplicate(k, k2, h2)
             /\ live' = live \cup {k2}
             /\ held' = held \cup {k2}
             /\ windows_key_handle' = DupHandles(k2, h2)
             /\ names' = DupNames(k, h2)
        /\ UNCHANGED <<certs, is_open, cursors, origin, history>>

(* Faulty: only the memory is freed. *)
FreeObjKeepsHandle(k) ==
  /\ windows_key_handle' = [windows_key_handle EXCEPT ![k] = NoHandle]
  /\ live' = live \ {k}
  /\ UNCHANGED names

(* cng_keymgmt_free: the handle is closed and the object's memory freed. *)
FreeObj(k) ==
  /\ names' = FreeObject(names, {windows_key_handle[k]})
  /\ windows_key_handle' = [windows_key_handle EXCEPT ![k] = NoHandle]
  /\ live' = live \ {k}

FreeKey(k) ==
  /\ k \in held
  /\ FreeObj(k)
  /\ held' = held \ {k} /\ blank' = blank \ {k}
  /\ UNCHANGED <<certs, is_open, cursors, lost, history>>

(* cng_store_close.  When CertCloseStore fails it returns 0 and leaves the *)
(* context and its key object behind; the core forgets both either way.    *)
CloseLoader(l) ==
  /\ is_open' = [is_open EXCEPT ![l] = FALSE]
  /\ prev_cert_ctx' = [prev_cert_ctx EXCEPT ![l] = 0]
  /\ cert_store_eof' = [cert_store_eof EXCEPT ![l] = FALSE]
  /\ prev_key_cert_ctx' = [prev_key_cert_ctx EXCEPT ![l] = 0]
  /\ priv_key_store_eof' = [priv_key_store_eof EXCEPT ![l] = FALSE]
  /\ key' = [key EXCEPT ![l] = NoKey]
  /\ given' = [given EXCEPT ![l] = 0]
  /\ failed' = [failed EXCEPT ![l] = {}]
  /\ UNCHANGED <<certs, blank, superseded, stray>>

Close(l) ==
  /\ is_open[l]
  /\ FreeObj(key[l])
  /\ CloseLoader(l)
  /\ UNCHANGED <<held, lost>>

CloseFails(l) ==
  /\ is_open[l]
  /\ lost' = lost \cup {key[l]}
  /\ CloseLoader(l)
  /\ UNCHANGED keys

Next ==
  \/ \E l \in Loader : \/ Open(l) \/ OpenFails(l)
                       \/ LoadCert(l) \/ LoadKey(l) \/ LoadKeyRefused(l)
                       \/ Close(l) \/ CloseFails(l)
  \/ \E k \in KeyObj : NewKey(k) \/ DupKey(k) \/ FreeKey(k)

Spec == Init /\ [][Next]_vars
-----------------------------------------------------------------------------
(* The type of every variable. *)
TypeOK ==
  /\ certs \in Seq(Kind) /\ Size \in Index
  /\ is_open \in [Loader -> BOOLEAN]
  /\ prev_cert_ctx \in [Loader -> 0..Size]
  /\ cert_store_eof \in [Loader -> BOOLEAN]
  /\ prev_key_cert_ctx \in [Loader -> 0..Size]
  /\ priv_key_store_eof \in [Loader -> BOOLEAN]
  /\ key \in [Loader -> KeyObj \cup {NoKey}]
  /\ live \subseteq KeyObj
  /\ windows_key_handle \in [KeyObj -> Handle \cup {NoHandle}]
  /\ held \subseteq live
  /\ names \in [Handle -> 0..Size]
  /\ blank \subseteq held /\ lost \subseteq live
  /\ given \in [Loader -> 0..2 * MaxCerts]
  /\ failed \in [Loader -> SUBSET (1..Size)]
  /\ superseded \in [Loader -> SUBSET Handle]
  /\ stray \in BOOLEAN

(* Every key object belongs to one owner: to the core, to one open loader, *)
(* or to nobody, since a failed dup or a failed close left it behind.      *)
OneOwnerPerObject ==
  /\ held \cap lost = {}
  /\ \A l \in Loader : is_open[l] =>
       /\ key[l] \in live \ (held \cup lost)
       /\ \A m \in Loader \ {l} : is_open[m] => key[m] # key[l]
  /\ \A k \in live \ (held \cup lost) : \E l \in Loader : is_open[l] /\ key[l] = k

(* No two live key objects share a Windows handle, and the handle of each  *)
(* is open, so freeing one object never invalidates another, in whatever   *)
(* order loaders and keys are freed.                                       *)
HandlesExclusive ==
  ~stray =>
    /\ \A k \in live : windows_key_handle[k] \in (Handle \ ClosedHandle) \cup {NoHandle}
    /\ \A k1, k2 \in live :
         windows_key_handle[k1] = windows_key_handle[k2] =>
           k1 = k2 \/ windows_key_handle[k1] = NoHandle

(* What a loader is about to hand out is the private key of the            *)
(* certificate its key cursor stands on, and a CNG key.                    *)
PreloadMatchesCursor ==
  ~stray => \A l \in Loader : is_open[l] /\ ~priv_key_store_eof[l] =>
    /\ windows_key_handle[key[l]] # NoHandle
    /\ names[windows_key_handle[key[l]]] = prev_key_cert_ctx[l]
    /\ prev_key_cert_ctx[l] \in Usable

(* Where a loader stands: certificates have been given up to the cursor,   *)
(* and every obtainable key before the key cursor was given or failed.     *)
PositionsAgree ==
  ~stray => \A l \in Loader : is_open[l] =>
    /\ ~cert_store_eof[l] => given[l] = prev_cert_ctx[l] - 1
    /\ cert_store_eof[l] => given[l] >= Size
    /\ ~priv_key_store_eof[l] =>
         /\ given[l] < Size + prev_key_cert_ctx[l]
         /\ failed[l] \subseteq 1..prev_key_cert_ctx[l] - 1
    /\ \A i \in Usable \ failed[l] :
         priv_key_store_eof[l] \/ i < prev_key_cert_ctx[l] => Size + i <= given[l]

(* cng_keymgmt_has answers 1 for whatever key object the core asks about.  *)
(* It is wrong about those that cng_keymgmt_new made, and about no other:  *)
(* what came from a loader or a dup, of whatever it was the copy, has a    *)
(* handle for good, and an open one until a stray free.                    *)
HasErrsOnBlankKeys ==
  \A k \in held :
    /\ windows_key_handle[k] = NoHandle <=> k \in blank
    /\ k \in blank \/ stray \/ windows_key_handle[k] \in Handle \ ClosedHandle

(* What a call from the core can still close: the handles of its own keys  *)
(* and of the loaders it has open.                                         *)
Closable ==
  {windows_key_handle[k] : k \in held} \cup
  {windows_key_handle[key[l]] : l \in {m \in Loader : is_open[m]}}

(* Which handles leak, exactly: an open handle that no call can close was  *)
(* overwritten by a preload, or went with a close that failed, and such a  *)
(* handle stays open; the block that a failed dup forgets has none.        *)
LeaksAccountedFor ==
  ~stray =>
    Handle \ (ClosedHandle \cup Closable) =
      (UNION {superseded[l] : l \in Loader})
        \cup ({windows_key_handle[k] : k \in lost} \ {NoHandle})

(* A key that the core got from a loader or a dup names the same private   *)
(* key for as long as it is held, whatever loaders load, preload or close. *)
HeldKeysStable ==
  [][~stray' => \A k \in (held \cap held') \ blank :
       names'[windows_key_handle'[k]] = names[windows_key_handle[k]]]_vars

(* One loader implements the abstract stream. *)
Stream(l) == INSTANCE ObjectStream
  WITH size <- Size, usable <- Usable, active <- is_open[l],
       given <- given[l], gone <- failed[l],
       ended <- cert_store_eof[l] /\ priv_key_store_eof[l],
       broken <- stray

(* Until a stray free, each loader hands over each certificate once and    *)
(* then each obtainable key once, in store order, and its end-of-file      *)
(* answer is exact, also while other loaders and keys come and go: the     *)
(* conjunction of Stream(l)!Spec over the loaders.                         *)
LoadersAreStreams ==
  /\ \A l \in Loader : Stream(l)!Init
  /\ [][\A l \in Loader : [Stream(l)!Next]_(Stream(l)!vars)]_vars
=============================================================================
