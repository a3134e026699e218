--------------------------- MODULE CngStoreProofs ---------------------------
(***************************************************************************)
(* Proofs about CngStore, for any number of loaders, key objects, handle   *)
(* values and certificates: first who owns what, then where the cursors    *)
(* stand, and last that every loader implements the abstract ObjectStream, *)
(* whatever other loaders and the keys of the core do meanwhile.           *)
(***************************************************************************)
EXTENDS CngStore, TLAPS

USE StoreAssumption DEF Index, Size

(* A preload keeps the cursor, the handles and the history well typed.     *)
LEMMA PreloadType ==
  ASSUME TypeOK, NEW l \in Loader, NEW k \in KeyObj, NEW from \in 0..Size,
         NEW handles \in [KeyObj -> Handle \cup {NoHandle}],
         NEW table \in [Handle -> 0..Size],
         Preload(l, k, from, handles, table)
  PROVE  /\ prev_key_cert_ctx' \in [Loader -> 0..Size]
         /\ priv_key_store_eof' \in [Loader -> BOOLEAN]
         /\ windows_key_handle' \in [KeyObj -> Handle \cup {NoHandle}]
         /\ names' \in [Handle -> 0..Size]
         /\ failed' \in [Loader -> SUBSET (1..Size)]
         /\ superseded' \in [Loader -> SUBSET Handle]
         /\ stray' \in BOOLEAN
<1>1. CASE PreloadHit(l, k, from, handles, table)
  <2>1. PICK j \in from + 1 .. Size, h \in Handle :
          /\ prev_key_cert_ctx' = [prev_key_cert_ctx EXCEPT ![l] = j]
          /\ priv_key_store_eof' = [priv_key_store_eof EXCEPT ![l] = FALSE]
          /\ windows_key_handle' = [handles EXCEPT ![k] = h]
          /\ names' = [table EXCEPT ![h] = j]
          /\ failed' = [failed EXCEPT ![l] = @ \cup (from + 1 .. j - 1)]
          /\ superseded' = [superseded EXCEPT ![l] = @ \cup ({handles[k]} \ {NoHandle})]
          /\ UNCHANGED stray
    BY <1>1 DEF PreloadHit
  <2>2. j \in 1..Size /\ from + 1 .. j - 1 \subseteq 1..Size
    BY <2>1 DEF TypeOK
  <2>3. handles[k] \in Handle \cup {NoHandle}
    OBVIOUS
  <2> QED BY <2>1, <2>2, <2>3, SMTT(15) DEF TypeOK
<1>2. CASE PreloadMiss(l, from, handles, table)
  <2>1. from + 1 .. Size \subseteq 1..Size
    BY DEF TypeOK
  <2> QED BY <1>2, <2>1 DEF PreloadMiss, TypeOK, FreeObject
<1> QED BY <1>1, <1>2 DEF Preload
-----------------------------------------------------------------------------
(* Types and ownership together: freeing a loader's object leaves the      *)
(* core's objects live only because the two never share one.               *)
Owned == TypeOK /\ OneOwnerPerObject

LEMMA OwnedInit == Init => Owned
<1> SUFFICES ASSUME Init PROVE Owned
  OBVIOUS
<1>1. certs \in Seq(Kind) /\ Size \in Index
  <2>1. PICK n \in Index : certs \in [1..n -> Kind]
    BY DEF Init
  <2>2. Len(certs) = n /\ certs \in Seq(Kind)
    BY <2>1
  <2> QED BY <2>1, <2>2
<1>2. 0 \in 0..Size /\ 0 \in 0..2 * MaxCerts
  BY <1>1
<1>3. TypeOK
  BY <1>1, <1>2, Zenon DEF Init, TypeOK
<1>4. OneOwnerPerObject
  BY DEF Init, OneOwnerPerObject
<1> QED BY <1>3, <1>4 DEF Owned

(* The certificate cursor stays on the list. *)
LEMMA NextCertType ==
  ASSUME TypeOK, NEW i \in 0..Size
  PROVE  NextCert(i) \in 0..Size
BY DEF TypeOK, NextCert

LEMMA OwnedOpen ==
  ASSUME Owned, NEW l \in Loader, Open(l)
  PROVE  Owned'
<1>1. PICK k \in KeyObj \ live :
        /\ live' = live \cup {k}
        /\ key' = [key EXCEPT ![l] = k]
        /\ Preload(l, k, 0, [windows_key_handle EXCEPT ![k] = NoHandle], names)
  BY DEF Open
<1>2. /\ prev_key_cert_ctx' \in [Loader -> 0..Size]
      /\ priv_key_store_eof' \in [Loader -> BOOLEAN]
      /\ windows_key_handle' \in [KeyObj -> Handle \cup {NoHandle}]
      /\ names' \in [Handle -> 0..Size]
      /\ failed' \in [Loader -> SUBSET (1..Size)]
      /\ superseded' \in [Loader -> SUBSET Handle]
      /\ stray' \in BOOLEAN
  <2>1. /\ [windows_key_handle EXCEPT ![k] = NoHandle] \in [KeyObj -> Handle \cup {NoHandle}]
        /\ names \in [Handle -> 0..Size]
        /\ 0 \in 0..Size
    BY DEF Owned, TypeOK
  <2> QED BY <1>1, <2>1, PreloadType DEF Owned
<1>3. NextCert(0) \in 0..Size
  BY NextCertType DEF Owned, TypeOK
<1>4. TypeOK'
  <2>1. Size' = Size /\ certs' = certs
    BY DEF Open
  <2>2. prev_cert_ctx' \in [Loader -> 0..Size] /\ cert_store_eof' \in [Loader -> BOOLEAN]
    BY <1>3 DEF Open, Owned, TypeOK
  <2>3. UNCHANGED <<held, given, origin>>
    BY DEF Open
  <2>4. is_open' \in [Loader -> BOOLEAN] /\ key' \in [Loader -> KeyObj \cup {NoKey}]
    BY <1>1 DEF Open, Owned, TypeOK
  <2> QED BY <1>1, <1>2, <2>1, <2>2, <2>3, <2>4 DEF Owned, TypeOK, origin
<1>5. OneOwnerPerObject'
  <2>1. held' = held /\ lost' = lost /\ held \cup lost \subseteq live
    BY DEF Open, origin, Owned, TypeOK
  <2>2. is_open' = [is_open EXCEPT ![l] = TRUE] /\ ~is_open[l]
    BY DEF Open
  <2>3. is_open \in [Loader -> BOOLEAN] /\ key \in [Loader -> KeyObj \cup {NoKey}]
    BY DEF Owned, TypeOK
  <2> QED BY <1>1, <2>1, <2>2, <2>3 DEF Owned, OneOwnerPerObject
<1> QED BY <1>4, <1>5 DEF Owned

LEMMA OwnedLoadKey ==
  ASSUME Owned, NEW l \in Loader, LoadKey(l)
  PROVE  Owned'
<1>1. PICK k2 \in KeyObj, h2 \in Handle :
        /\ Duplicate(key[l], k2, h2)
        /\ live' = live \cup {k2}
        /\ held' = held \cup {k2}
        /\ given' = [given EXCEPT ![l] = Size + names[windows_key_handle[key[l]]]]
        /\ Preload(l, key[l], prev_key_cert_ctx[l], DupHandles(k2, h2), DupNames(key[l], h2))
  BY DEF LoadKey
<1>2. key[l] \in live /\ live \subseteq KeyObj /\ k2 \notin live
  BY <1>1 DEF LoadKey, KeyTurn, Owned, OneOwnerPerObject, TypeOK, Duplicate
<1>3. names[windows_key_handle[key[l]]] \in 0..Size
  BY <1>1, <1>2 DEF Owned, TypeOK, Duplicate, ClosedHandle
<1>4. /\ prev_key_cert_ctx' \in [Loader -> 0..Size]
      /\ priv_key_store_eof' \in [Loader -> BOOLEAN]
      /\ windows_key_handle' \in [KeyObj -> Handle \cup {NoHandle}]
      /\ names' \in [Handle -> 0..Size]
      /\ failed' \in [Loader -> SUBSET (1..Size)]
      /\ superseded' \in [Loader -> SUBSET Handle]
      /\ stray' \in BOOLEAN
  <2>1. /\ DupHandles(k2, h2) \in [KeyObj -> Handle \cup {NoHandle}]
        /\ DupNames(key[l], h2) \in [Handle -> 0..Size]
        /\ prev_key_cert_ctx[l] \in 0..Size
        /\ key[l] \in KeyObj
    BY <1>1, <1>2, <1>3 DEF Owned, TypeOK, DupHandles, DupNames
  <2> QED BY <1>1, <2>1, PreloadType DEF Owned
<1>5. given' \in [Loader -> 0..2 * MaxCerts]
  BY <1>1, <1>3 DEF Owned, TypeOK
<1>6. UNCHANGED <<certs, is_open, prev_cert_ctx, cert_store_eof, key, blank, lost>>
  BY DEF LoadKey, origin
<1>7. TypeOK'
  BY <1>1, <1>2, <1>4, <1>5, <1>6 DEF Owned, TypeOK
<1>8. OneOwnerPerObject'
  <2>1. lost \subseteq live
    BY DEF Owned, TypeOK
  <2> QED BY <1>1, <1>2, <1>6, <2>1 DEF Owned, OneOwnerPerObject
<1> QED BY <1>7, <1>8 DEF Owned

LEMMA OwnedDupFails ==
  ASSUME Owned, DupFails
  PROVE  Owned'
BY DEF DupFails, NewObj, Owned, TypeOK, OneOwnerPerObject, cursors, history

LEMMA OwnedDup ==
  ASSUME Owned, NEW k \in KeyObj, DupKey(k)
  PROVE  Owned'
<1>1. CASE DupFails
  BY <1>1, OwnedDupFails
<1>2. CASE ~DupFails
  <2>1. PICK k2 \in KeyObj, h2 \in Handle :
          /\ Duplicate(k, k2, h2)
          /\ live' = live \cup {k2}
          /\ held' = held \cup {k2}
          /\ windows_key_handle' = DupHandles(k2, h2)
          /\ names' = DupNames(k, h2)
    BY <1>2 DEF DupKey
  <2>2. UNCHANGED <<certs, is_open, cursors, origin, history>>
    BY <1>2 DEF DupKey
  <2>3. k2 \notin live /\ names[windows_key_handle[k]] \in 0..Size
    BY <2>1 DEF Duplicate, ClosedHandle, Owned, TypeOK
  <2>4. TypeOK'
    BY <2>1, <2>2, <2>3 DEF Owned, TypeOK, DupHandles, DupNames, cursors, origin, history
  <2>5. OneOwnerPerObject'
    BY <2>1, <2>2, <2>3 DEF Owned, TypeOK, OneOwnerPerObject, cursors, origin
  <2> QED BY <2>4, <2>5 DEF Owned
<1> QED BY <1>1, <1>2

LEMMA OwnedStep == Owned /\ [Next]_vars => Owned'
<1> SUFFICES ASSUME Owned, [Next]_vars PROVE Owned'
  OBVIOUS
<1>1. ASSUME NEW l \in Loader, Open(l) PROVE Owned'
  BY <1>1, OwnedOpen
<1>2. ASSUME NEW l \in Loader, OpenFails(l) PROVE Owned'
  <2>1. /\ UNCHANGED <<certs, is_open, cursors, origin, history, live, held, names>>
        /\ windows_key_handle' \in [KeyObj -> Handle \cup {NoHandle}]
    <3>1. UNCHANGED <<certs, is_open, cursors, origin, history>>
      BY <1>2 DEF OpenFails
    <3>2. CASE UNCHANGED keys
      BY <3>1, <3>2 DEF keys, Owned, TypeOK
    <3>3. ASSUME NEW k \in KeyObj \ live,
                 windows_key_handle' = [windows_key_handle EXCEPT ![k] = NoHandle],
                 live' = (live \cup {k}) \ {k},
                 UNCHANGED <<held, names>>
          PROVE  /\ UNCHANGED <<live, held, names>>
                 /\ windows_key_handle' \in [KeyObj -> Handle \cup {NoHandle}]
      BY <3>3 DEF Owned, TypeOK
    <3> QED BY <1>2, <3>1, <3>2, <3>3 DEF OpenFails
  <2> QED BY <2>1 DEF Owned, TypeOK, OneOwnerPerObject, cursors, origin, history
<1>3. ASSUME NEW l \in Loader, LoadCert(l) PROVE Owned'
  <2>1. prev_cert_ctx[l] \in 0..Size /\ prev_cert_ctx[l] \in 0..2 * MaxCerts
    BY DEF Owned, TypeOK
  <2>2. NextCert(prev_cert_ctx[l]) \in 0..Size
    BY <2>1, NextCertType DEF Owned
  <2>3. /\ prev_cert_ctx' \in [Loader -> 0..Size]
        /\ cert_store_eof' \in [Loader -> BOOLEAN]
        /\ given' \in [Loader -> 0..2 * MaxCerts]
    BY <1>3, <2>1, <2>2 DEF LoadCert, Owned, TypeOK
  <2>4. UNCHANGED <<certs, is_open, prev_key_cert_ctx, priv_key_store_eof, key,
                    keys, origin, failed, superseded, stray>>
    BY <1>3 DEF LoadCert
  <2>5. TypeOK'
    BY <2>3, <2>4 DEF Owned, TypeOK, keys, origin
  <2>6. OneOwnerPerObject'
    BY <2>4 DEF Owned, OneOwnerPerObject, keys, origin
  <2> QED BY <2>5, <2>6 DEF Owned
<1>4. ASSUME NEW l \in Loader, LoadKey(l) PROVE Owned'
  BY <1>4, OwnedLoadKey
<1>5. ASSUME NEW l \in Loader, LoadKeyRefused(l) PROVE Owned'
  <2>1. CASE DupFails
    BY <2>1, OwnedDupFails
  <2>2. CASE UNCHANGED vars
    BY <2>2 DEF Owned, TypeOK, OneOwnerPerObject, vars, cursors, keys, origin, history
  <2> QED BY <1>5, <2>1, <2>2 DEF LoadKeyRefused
<1>6. ASSUME NEW l \in Loader, Close(l) PROVE Owned'
  BY <1>6 DEF Close, CloseLoader, FreeObj, FreeObject, Owned, TypeOK, OneOwnerPerObject
<1>7. ASSUME NEW l \in Loader, CloseFails(l) PROVE Owned'
  BY <1>7 DEF CloseFails, CloseLoader, Owned, TypeOK, OneOwnerPerObject, keys
<1>8. ASSUME NEW k \in KeyObj, DupKey(k) PROVE Owned'
  BY <1>8, OwnedDup
<1>9. ASSUME NEW k \in KeyObj, FreeKey(k) PROVE Owned'
  BY <1>9 DEF FreeKey, FreeObj, FreeObject, Owned, TypeOK, OneOwnerPerObject,
              cursors, history
<1>10. ASSUME NEW k \in KeyObj, NewKey(k) PROVE Owned'
  BY <1>10 DEF NewKey, NewObj, Owned, TypeOK, OneOwnerPerObject, cursors, history
<1>11. CASE UNCHANGED vars
  BY <1>11 DEF Owned, TypeOK, OneOwnerPerObject, vars, cursors, keys, origin, history
<1> QED BY <1>1, <1>2, <1>3, <1>4, <1>5, <1>6, <1>7, <1>8, <1>9, <1>10, <1>11 DEF Next

(* Every variable keeps its type, and every key object has one owner, or   *)
(* none because a failed dup or close left it behind.                      *)
THEOREM Ownership == Spec => [](TypeOK /\ OneOwnerPerObject)
<1>1. Spec => []Owned
  BY OwnedInit, OwnedStep, PTL DEF Spec
<1> QED BY <1>1, PTL DEF Owned
-----------------------------------------------------------------------------
(* What HandlesExclusive says of any key objects and any handle table. *)
Exclusive(objs, handles, table) ==
  /\ \A k \in objs : handles[k] = NoHandle \/ (handles[k] \in Handle /\ table[handles[k]] # 0)
  /\ \A k1, k2 \in objs : handles[k1] = handles[k2] => k1 = k2 \/ handles[k1] = NoHandle

LEMMA ExclusiveIsHandlesExclusive ==
  ASSUME TypeOK
  PROVE  HandlesExclusive <=> (~stray => Exclusive(live, windows_key_handle, names))
<1>1. \A k \in live : windows_key_handle[k] \in Handle \cup {NoHandle}
  BY DEF TypeOK
<1> QED BY <1>1 DEF HandlesExclusive, Exclusive, ClosedHandle

LEMMA ExclusiveIsHandlesExclusiveNext ==
  ASSUME TypeOK'
  PROVE  HandlesExclusive' <=> (~stray' => Exclusive(live', windows_key_handle', names'))
<1>1. \A k \in live' : windows_key_handle'[k] \in Handle \cup {NoHandle}
  BY DEF TypeOK
<1> QED BY <1>1 DEF HandlesExclusive, Exclusive, ClosedHandle

(* A preload into object k leaves every other object with its handle and   *)
(* every handle with its key, and gives k a handle of its own on the key   *)
(* the cursor stands on, or raises the end-of-file flag.                   *)
Preloaded(l, k, objs, handles, table) ==
  /\ ~stray
  /\ Exclusive(objs, windows_key_handle', names')
  /\ \A x \in objs \ {k} : windows_key_handle'[x] = handles[x]
  /\ \A h \in Handle : table[h] # 0 => names'[h] = table[h]
  /\ \A m \in Loader \ {l} :
       /\ priv_key_store_eof'[m] = priv_key_store_eof[m]
       /\ prev_key_cert_ctx'[m] = prev_key_cert_ctx[m]
  /\ \/ priv_key_store_eof'[l]
     \/ /\ windows_key_handle'[k] \in Handle
        /\ names'[windows_key_handle'[k]] = prev_key_cert_ctx'[l]
        /\ prev_key_cert_ctx'[l] \in Usable

LEMMA PreloadExclusive ==
  ASSUME TypeOK, NEW l \in Loader, NEW objs \in SUBSET KeyObj, NEW k \in objs,
         NEW from \in 0..Size,
         NEW handles \in [KeyObj -> Handle \cup {NoHandle}],
         NEW table \in [Handle -> 0..Size],
         Exclusive(objs, handles, table),
         Preload(l, k, from, handles, table), ~stray'
  PROVE  Preloaded(l, k, objs, handles, table)
<1>1. CASE PreloadHit(l, k, from, handles, table)
  <2>1. PICK j \in from + 1 .. Size, h \in Handle :
          /\ certs[j] = "ncrypt" /\ table[h] = 0
          /\ prev_key_cert_ctx' = [prev_key_cert_ctx EXCEPT ![l] = j]
          /\ priv_key_store_eof' = [priv_key_store_eof EXCEPT ![l] = FALSE]
          /\ windows_key_handle' = [handles EXCEPT ![k] = h]
          /\ names' = [table EXCEPT ![h] = j]
          /\ UNCHANGED stray
    BY <1>1 DEF PreloadHit
  <2>2. j \in 1..Size /\ j # 0
    BY <2>1 DEF TypeOK
  <2>3. j \in Usable
    BY <2>1, <2>2 DEF Usable
  <2>4. Exclusive(objs, windows_key_handle', names')
    BY <2>1, <2>2, StoreAssumption DEF Exclusive
  <2> QED BY <2>1, <2>3, <2>4 DEF TypeOK, Preloaded
<1>2. CASE PreloadMiss(l, from, handles, table)
  <2>1. /\ names' = FreeObject(table, {}) /\ ~stray
        /\ windows_key_handle' = handles
        /\ prev_key_cert_ctx' = [prev_key_cert_ctx EXCEPT ![l] = 0]
        /\ priv_key_store_eof' = [priv_key_store_eof EXCEPT ![l] = TRUE]
    BY <1>2 DEF PreloadMiss
  <2>2. names' = table
    BY <2>1 DEF FreeObject
  <2> QED BY <2>1, <2>2 DEF TypeOK, Preloaded
<1> QED BY <1>1, <1>2 DEF Preload

LEMMA PreloadOthers ==
  ASSUME NEW l \in Loader, NEW k \in KeyObj, NEW from,
         NEW handles \in [KeyObj -> Handle \cup {NoHandle}], NEW table,
         Preload(l, k, from, handles, table)
  PROVE  \A x \in KeyObj \ {k} : windows_key_handle'[x] = handles[x]
BY DEF Preload, PreloadHit, PreloadMiss

(* The keys of the core without a handle are those it made itself. *)
Blanks == \A k \in held : windows_key_handle[k] = NoHandle <=> k \in blank

(* The strengthening: preloads match cursors, and no handle is shared. *)
Safe ==
  /\ Owned
  /\ HandlesExclusive
  /\ PreloadMatchesCursor
  /\ Blanks

(* The core's keys name what they named. *)
Stable ==
  ~stray' => \A k \in (held \cap held') \ blank :
    names'[windows_key_handle'[k]] = names[windows_key_handle[k]]

LEMMA SafeInit == Init => Safe
<1> SUFFICES ASSUME Init PROVE Safe
  OBVIOUS
<1> QED BY OwnedInit DEF Init, Safe, HandlesExclusive, PreloadMatchesCursor, Blanks

LEMMA SafeOpen ==
  ASSUME Safe, NEW l \in Loader, Open(l), Owned'
  PROVE  Safe' /\ Stable
<1>1. PICK k \in KeyObj \ live :
        /\ live' = live \cup {k}
        /\ key' = [key EXCEPT ![l] = k]
        /\ Preload(l, k, 0, [windows_key_handle EXCEPT ![k] = NoHandle], names)
  BY DEF Open
<1> DEFINE handles == [windows_key_handle EXCEPT ![k] = NoHandle]
<1>2. /\ TypeOK /\ TypeOK' /\ OneOwnerPerObject /\ live' \in SUBSET KeyObj /\ k \in live'
      /\ handles \in [KeyObj -> Handle \cup {NoHandle}]
      /\ names \in [Handle -> 0..Size] /\ 0 \in 0..Size
      /\ held' = held /\ held \subseteq live /\ certs' = certs /\ blank' = blank
  <2>1. TypeOK /\ TypeOK' /\ OneOwnerPerObject
    BY DEF Safe, Owned
  <2>2. live' \in SUBSET KeyObj /\ k \in live'
    BY <1>1, <2>1 DEF TypeOK
  <2>3. handles \in [KeyObj -> Handle \cup {NoHandle}]
    BY <2>1 DEF TypeOK
  <2>4. names \in [Handle -> 0..Size] /\ 0 \in 0..Size
    BY <2>1 DEF TypeOK, Size
  <2>5. held' = held /\ held \subseteq live /\ certs' = certs /\ blank' = blank
    BY <2>1 DEF TypeOK, Open, origin
  <2> QED BY <2>1, <2>2, <2>3, <2>4, <2>5
<1>3. \A x \in held : windows_key_handle'[x] = windows_key_handle[x]
  <2>1. \A x \in held : x # k /\ x \in KeyObj
    BY <1>2 DEF TypeOK
  <2>2. windows_key_handle' = handles
        \/ \E h \in Handle : windows_key_handle' = [handles EXCEPT ![k] = h]
    BY <1>1 DEF Preload, PreloadHit, PreloadMiss
  <2>3. windows_key_handle \in [KeyObj -> Handle \cup {NoHandle}]
    BY <1>2 DEF TypeOK
  <2> QED BY <2>1, <2>2, <2>3
<1>4. Blanks'
  BY <1>2, <1>3 DEF Safe, Blanks
<1>5. CASE stray'
  BY <1>4, <1>5 DEF Safe, Stable, HandlesExclusive, PreloadMatchesCursor
<1>6. CASE ~stray'
  <2>1. ~stray
    BY <1>1, <1>6 DEF Preload, PreloadHit, PreloadMiss
  <2>2. Exclusive(live, windows_key_handle, names)
    BY <1>2, <2>1, ExclusiveIsHandlesExclusive DEF Safe
  <2>3. Exclusive(live', handles, names)
    BY <1>1, <1>2, <2>2 DEF Exclusive, TypeOK
  <2>4. /\ Exclusive(live', windows_key_handle', names')
        /\ \A x \in live' \ {k} : windows_key_handle'[x] = handles[x]
        /\ \A h \in Handle : names[h] # 0 => names'[h] = names[h]
        /\ \A m \in Loader \ {l} :
             /\ priv_key_store_eof'[m] = priv_key_store_eof[m]
             /\ prev_key_cert_ctx'[m] = prev_key_cert_ctx[m]
        /\ \/ priv_key_store_eof'[l]
           \/ /\ windows_key_handle'[k] \in Handle
              /\ names'[windows_key_handle'[k]] = prev_key_cert_ctx'[l]
              /\ prev_key_cert_ctx'[l] \in Usable
    <3>1. Preload(l, k, 0, handles, names)
      BY <1>1
    <3> HIDE DEF handles
    <3>2. TypeOK /\ live' \in SUBSET KeyObj /\ k \in live' /\ 0 \in 0..Size
      BY <1>2
    <3>3. /\ handles \in [KeyObj -> Handle \cup {NoHandle}]
          /\ names \in [Handle -> 0..Size]
      BY <1>2
    <3>4. Preloaded(l, k, live', handles, names)
      BY <1>6, <2>3, <3>1, <3>2, <3>3, PreloadExclusive
    <3> QED BY <3>4 DEF Preloaded
  <2>5. HandlesExclusive'
    BY <1>2, <2>4, ExclusiveIsHandlesExclusiveNext
  <2>6. \A x \in live : windows_key_handle'[x] = windows_key_handle[x]
    BY <1>1, <1>2, <2>4 DEF TypeOK
  <2>7. \A x \in live : windows_key_handle[x] # NoHandle =>
          names'[windows_key_handle'[x]] = names[windows_key_handle[x]]
    BY <2>2, <2>4, <2>6 DEF Exclusive
  <2>8. PreloadMatchesCursor'
    <3> SUFFICES ASSUME NEW m \in Loader, is_open'[m], ~priv_key_store_eof'[m]
                 PROVE  /\ windows_key_handle'[key'[m]] # NoHandle
                        /\ names'[windows_key_handle'[key'[m]]] = prev_key_cert_ctx'[m]
                        /\ prev_key_cert_ctx'[m] \in Usable'
      BY DEF PreloadMatchesCursor
    <3>1. Usable' = Usable
      BY <1>2 DEF Usable
    <3>2. CASE m = l
      BY <1>1, <1>2, <2>4, <3>1, <3>2 DEF TypeOK
    <3>3. CASE m # l
      <4>1. is_open[m] /\ key'[m] = key[m] /\ ~priv_key_store_eof[m] /\ key[m] \in live
        BY <1>1, <1>2, <2>4, <3>3 DEF Open, TypeOK, OneOwnerPerObject
      <4>2. prev_key_cert_ctx'[m] = prev_key_cert_ctx[m]
        BY <2>4, <3>3
      <4>3. /\ windows_key_handle[key[m]] # NoHandle
            /\ names[windows_key_handle[key[m]]] = prev_key_cert_ctx[m]
            /\ prev_key_cert_ctx[m] \in Usable
        BY <2>1, <4>1 DEF Safe, PreloadMatchesCursor
      <4> QED BY <2>6, <2>7, <3>1, <4>1, <4>2, <4>3
    <3> QED BY <3>2, <3>3
  <2>9. Stable
    BY <1>2, <2>7 DEF Stable, Safe, Blanks
  <2> QED BY <1>4, <2>5, <2>8, <2>9 DEF Safe
<1> QED BY <1>5, <1>6

LEMMA SafeLoadKey ==
  ASSUME Safe, NEW l \in Loader, LoadKey(l), Owned'
  PROVE  Safe' /\ Stable
<1>1. PICK k2 \in KeyObj, h2 \in Handle :
        /\ Duplicate(key[l], k2, h2)
        /\ live' = live \cup {k2}
        /\ held' = held \cup {k2}
        /\ Preload(l, key[l], prev_key_cert_ctx[l], DupHandles(k2, h2), DupNames(key[l], h2))
  BY DEF LoadKey
<1>2. PICK k \in KeyObj : k = key[l]
  BY DEF Safe, Owned, OneOwnerPerObject, TypeOK, LoadKey, KeyTurn
<1> DEFINE handles == DupHandles(k2, h2)
           table == DupNames(k, h2)
<1>3. /\ TypeOK /\ TypeOK' /\ OneOwnerPerObject
      /\ held \subseteq live /\ live \subseteq KeyObj
      /\ UNCHANGED <<certs, is_open, key>> /\ blank' = blank /\ blank \subseteq held
      /\ prev_key_cert_ctx[l] \in 0..Size
      /\ k \in live /\ k \notin held /\ k2 \notin live /\ k2 # k
  <2>1. /\ TypeOK /\ TypeOK' /\ OneOwnerPerObject
        /\ UNCHANGED <<certs, is_open, key>> /\ blank' = blank
        /\ is_open[l] /\ k2 \notin live
    BY <1>1 DEF Safe, Owned, LoadKey, KeyTurn, Duplicate, origin
  <2>2. /\ held \subseteq live /\ live \subseteq KeyObj /\ blank \subseteq held
        /\ prev_key_cert_ctx[l] \in 0..Size
    BY <2>1 DEF TypeOK
  <2>3. k \in live /\ k \notin held
    BY <1>2, <2>1 DEF OneOwnerPerObject
  <2> QED BY <2>1, <2>2, <2>3
<1>4. /\ windows_key_handle[k] \in Handle /\ names[windows_key_handle[k]] # 0
      /\ names[h2] = 0
      /\ handles = [windows_key_handle EXCEPT ![k2] = h2]
      /\ table = [names EXCEPT ![h2] = names[windows_key_handle[k]]]
      /\ handles \in [KeyObj -> Handle \cup {NoHandle}]
      /\ table \in [Handle -> 0..Size]
  <2>1. windows_key_handle[k] \in Handle /\ names[windows_key_handle[k]] # 0 /\ names[h2] = 0
    BY <1>2, <1>1 DEF Duplicate, ClosedHandle
  <2>2. /\ handles = [windows_key_handle EXCEPT ![k2] = h2]
        /\ table = [names EXCEPT ![h2] = names[windows_key_handle[k]]]
    BY <1>2 DEF DupHandles, DupNames
  <2> HIDE DEF handles, table
  <2>3. /\ windows_key_handle \in [KeyObj -> Handle \cup {NoHandle}]
        /\ names \in [Handle -> 0..Size]
    BY <1>3 DEF TypeOK
  <2> QED BY <2>1, <2>2, <2>3
<1> HIDE DEF handles, table
<1>5. \A x \in KeyObj \ {k} : windows_key_handle'[x] = handles[x]
  <2>1. Preload(l, k, prev_key_cert_ctx[l], handles, table) /\ k \in KeyObj
    BY <1>2, <1>1, <1>3 DEF handles, table
  <2>2. handles \in [KeyObj -> Handle \cup {NoHandle}]
    BY <1>4
  <2> QED BY <2>1, <2>2, PreloadOthers
<1>6. handles[k2] = h2 /\ \A x \in live : handles[x] = windows_key_handle[x]
  BY <1>3, <1>4 DEF TypeOK
<1>7. \A x \in held : windows_key_handle'[x] = windows_key_handle[x]
  BY <1>3, <1>5, <1>6
<1>8. windows_key_handle'[k2] = h2
  BY <1>3, <1>5, <1>6
<1>9. Blanks'
  BY <1>1, <1>3, <1>7, <1>8, StoreAssumption DEF Safe, Blanks
<1>10. CASE stray'
  BY <1>9, <1>10 DEF Safe, Stable, HandlesExclusive, PreloadMatchesCursor
<1>11. CASE ~stray'
  <2>1. ~stray
    BY <1>1, <1>11 DEF Preload, PreloadHit, PreloadMiss
  <2>2. Exclusive(live, windows_key_handle, names)
    BY <1>3, <2>1, ExclusiveIsHandlesExclusive DEF Safe
  <2>3. Exclusive(live', handles, table)
    BY <1>1, <1>3, <1>4, <2>2 DEF Exclusive, TypeOK
  <2>4. /\ Exclusive(live', windows_key_handle', names')
        /\ \A x \in live' \ {k} : windows_key_handle'[x] = handles[x]
        /\ \A h \in Handle : table[h] # 0 => names'[h] = table[h]
        /\ \A m \in Loader \ {l} :
             /\ priv_key_store_eof'[m] = priv_key_store_eof[m]
             /\ prev_key_cert_ctx'[m] = prev_key_cert_ctx[m]
        /\ \/ priv_key_store_eof'[l]
           \/ /\ windows_key_handle'[k] \in Handle
              /\ names'[windows_key_handle'[k]] = prev_key_cert_ctx'[l]
              /\ prev_key_cert_ctx'[l] \in Usable
    <3>1. Preload(l, k, prev_key_cert_ctx[l], handles, table)
      BY <1>2, <1>1 DEF handles, table
    <3>2. TypeOK /\ live' \in SUBSET KeyObj /\ k \in live' /\ prev_key_cert_ctx[l] \in 0..Size
      BY <1>1, <1>3
    <3>3. /\ handles \in [KeyObj -> Handle \cup {NoHandle}]
          /\ table \in [Handle -> 0..Size]
      BY <1>4
    <3>4. Preloaded(l, k, live', handles, table)
      BY <1>11, <2>3, <3>1, <3>2, <3>3, PreloadExclusive
    <3> QED BY <3>4 DEF Preloaded
  <2>5. HandlesExclusive'
    BY <1>3, <2>4, ExclusiveIsHandlesExclusiveNext
  <2>6. \A x \in live \ {k} : windows_key_handle'[x] = windows_key_handle[x]
    BY <1>1, <1>3, <1>6, <2>4
  <2>7. \A h \in Handle : names[h] # 0 => names'[h] = names[h]
    BY <1>4, <2>4 DEF TypeOK
  <2>8. \A x \in live \ {k} : windows_key_handle[x] # NoHandle =>
          names'[windows_key_handle'[x]] = names[windows_key_handle[x]]
    BY <2>2, <2>6, <2>7 DEF Exclusive
  <2>9. PreloadMatchesCursor'
    <3> SUFFICES ASSUME NEW m \in Loader, is_open'[m], ~priv_key_store_eof'[m]
                 PROVE  /\ windows_key_handle'[key'[m]] # NoHandle
                        /\ names'[windows_key_handle'[key'[m]]] = prev_key_cert_ctx'[m]
                        /\ prev_key_cert_ctx'[m] \in Usable'
      BY DEF PreloadMatchesCursor
    <3>1. Usable' = Usable
      BY <1>3 DEF Usable
    <3>2. CASE m = l
      BY <1>2, <1>3, <2>4, <3>1, <3>2
    <3>3. CASE m # l
      <4>1. /\ is_open[m] /\ key'[m] = key[m] /\ ~priv_key_store_eof[m]
            /\ key[m] \in live \ {k}
        BY <1>2, <1>3, <2>4, <3>3 DEF OneOwnerPerObject, LoadKey, KeyTurn
      <4>2. prev_key_cert_ctx'[m] = prev_key_cert_ctx[m]
        BY <2>4, <3>3
      <4>3. /\ windows_key_handle[key[m]] # NoHandle
            /\ names[windows_key_handle[key[m]]] = prev_key_cert_ctx[m]
            /\ prev_key_cert_ctx[m] \in Usable
        BY <2>1, <4>1 DEF Safe, PreloadMatchesCursor
      <4> QED BY <2>6, <2>8, <3>1, <4>1, <4>2, <4>3
    <3> QED BY <3>2, <3>3
  <2>10. Stable
    BY <1>3, <2>8 DEF Stable, Safe, Blanks
  <2> QED BY <1>9, <2>5, <2>9, <2>10 DEF Safe
<1> QED BY <1>10, <1>11

(* A failed dup leaves a live object without a handle and nothing else. *)
LEMMA SafeDupFails ==
  ASSUME Safe, DupFails, Owned'
  PROVE  Safe' /\ Stable
<1>1. PICK k2 \in KeyObj \ live :
        /\ live' = live \cup {k2}
        /\ windows_key_handle' = [windows_key_handle EXCEPT ![k2] = NoHandle]
  BY DEF DupFails, NewObj
<1>2. /\ TypeOK /\ TypeOK' /\ OneOwnerPerObject /\ blank' = blank
      /\ UNCHANGED <<certs, is_open, prev_key_cert_ctx, priv_key_store_eof, key, held, names, stray>>
      /\ held \subseteq live /\ live \subseteq KeyObj
  BY DEF Safe, Owned, DupFails, TypeOK, cursors, history
<1>3. /\ \A x \in live : windows_key_handle'[x] = windows_key_handle[x]
      /\ windows_key_handle'[k2] = NoHandle
  BY <1>1, <1>2 DEF TypeOK
<1>4. Blanks' /\ Stable
  BY <1>2, <1>3 DEF Safe, Blanks, Stable
<1>5. HandlesExclusive'
  BY <1>1, <1>2, <1>3, ExclusiveIsHandlesExclusive, ExclusiveIsHandlesExclusiveNext DEF Safe, Exclusive
<1>6. PreloadMatchesCursor'
  BY <1>2, <1>3 DEF Safe, PreloadMatchesCursor, OneOwnerPerObject, Usable
<1> QED BY <1>4, <1>5, <1>6 DEF Safe

(* A key object that the core makes has no handle. *)
LEMMA SafeNew ==
  ASSUME Safe, NEW k \in KeyObj, NewKey(k), Owned'
  PROVE  Safe' /\ Stable
<1>1. /\ k \notin live /\ live' = live \cup {k}
      /\ windows_key_handle' = [windows_key_handle EXCEPT ![k] = NoHandle]
      /\ held' = held \cup {k} /\ blank' = blank \cup {k}
  BY DEF NewKey, NewObj
<1>2. /\ TypeOK /\ TypeOK' /\ OneOwnerPerObject
      /\ UNCHANGED <<certs, is_open, prev_key_cert_ctx, priv_key_store_eof, key, names, stray>>
      /\ held \subseteq live /\ live \subseteq KeyObj
  BY DEF Safe, Owned, NewKey, TypeOK, cursors, history
<1>3. /\ \A x \in live : windows_key_handle'[x] = windows_key_handle[x]
      /\ windows_key_handle'[k] = NoHandle
  BY <1>1, <1>2 DEF TypeOK
<1>4. Blanks' /\ Stable
  BY <1>1, <1>2, <1>3 DEF Safe, Blanks, Stable
<1>5. HandlesExclusive'
  BY <1>1, <1>2, <1>3, ExclusiveIsHandlesExclusive, ExclusiveIsHandlesExclusiveNext
     DEF Safe, Exclusive
<1>6. PreloadMatchesCursor'
  BY <1>2, <1>3 DEF Safe, PreloadMatchesCursor, OneOwnerPerObject, Usable
<1> QED BY <1>4, <1>5, <1>6 DEF Safe

LEMMA SafeDup ==
  ASSUME Safe, NEW k \in KeyObj, DupKey(k), ~DupFails, Owned'
  PROVE  Safe' /\ Stable
<1>1. PICK k2 \in KeyObj, h2 \in Handle :
        /\ Duplicate(k, k2, h2)
        /\ live' = live \cup {k2}
        /\ held' = held \cup {k2}
        /\ windows_key_handle' = DupHandles(k2, h2)
        /\ names' = DupNames(k, h2)
  BY DEF DupKey
<1>2. /\ TypeOK /\ TypeOK' /\ OneOwnerPerObject /\ blank' = blank /\ blank \subseteq held
      /\ UNCHANGED <<certs, is_open, prev_key_cert_ctx, priv_key_store_eof, key, stray>>
      /\ held \subseteq live /\ live \subseteq KeyObj
      /\ k \in live /\ k2 \notin live /\ names[h2] = 0
      /\ windows_key_handle[k] \in Handle /\ names[windows_key_handle[k]] # 0
  BY <1>1 DEF Safe, Owned, DupKey, Duplicate, ClosedHandle, TypeOK, cursors, origin, history
<1>3. /\ \A x \in live : windows_key_handle'[x] = windows_key_handle[x]
      /\ windows_key_handle'[k2] = h2
      /\ \A h \in Handle : names[h] # 0 => names'[h] = names[h]
      /\ names'[h2] # 0
  BY <1>1, <1>2 DEF DupHandles, DupNames, TypeOK
<1>4. Blanks'
  BY <1>1, <1>2, <1>3, StoreAssumption DEF Safe, Blanks
<1>5. CASE stray
  BY <1>2, <1>4, <1>5 DEF Safe, Stable, HandlesExclusive, PreloadMatchesCursor
<1>6. CASE ~stray
  <2>1. Exclusive(live, windows_key_handle, names)
    BY <1>2, <1>6, ExclusiveIsHandlesExclusive DEF Safe
  <2>2. HandlesExclusive'
    BY <1>1, <1>2, <1>3, <2>1, ExclusiveIsHandlesExclusiveNext DEF Exclusive
  <2>3. \A x \in live : windows_key_handle[x] # NoHandle =>
          names'[windows_key_handle'[x]] = names[windows_key_handle[x]]
    BY <1>3, <2>1 DEF Exclusive
  <2>4. PreloadMatchesCursor'
    BY <1>2, <1>3, <1>6, <2>3 DEF Safe, PreloadMatchesCursor, OneOwnerPerObject, Usable
  <2>5. Stable
    BY <1>2, <2>3 DEF Safe, Blanks, Stable
  <2> QED BY <1>4, <2>2, <2>4, <2>5 DEF Safe
<1> QED BY <1>5, <1>6

(* Freeing object k, which nobody but its owner can reach, disturbs no     *)
(* other object: its handle was its own.                                   *)
LEMMA SafeFree ==
  ASSUME Safe, Owned', NEW k \in live, FreeObj(k), k \notin held',
         held' \subseteq held, blank' \cap held' = blank \cap held', UNCHANGED <<certs, stray>>,
         \A m \in Loader : is_open'[m] =>
           /\ is_open[m] /\ key[m] # k /\ key'[m] = key[m]
           /\ prev_key_cert_ctx'[m] = prev_key_cert_ctx[m]
           /\ priv_key_store_eof'[m] = priv_key_store_eof[m]
  PROVE  Safe' /\ Stable
<1>1. /\ TypeOK /\ TypeOK' /\ OneOwnerPerObject /\ live \subseteq KeyObj /\ k \in KeyObj
      /\ held \subseteq live /\ live' = live \ {k}
  BY DEF Safe, Owned, TypeOK, FreeObj
<1>2. \A x \in live' : windows_key_handle'[x] = windows_key_handle[x]
  BY <1>1 DEF FreeObj, TypeOK
<1>3. \A h \in Handle : names'[h] = IF h = windows_key_handle[k] THEN 0 ELSE names[h]
  BY DEF FreeObj, FreeObject
<1>4. Blanks'
  BY <1>1, <1>2 DEF Safe, Blanks
<1>5. CASE stray
  BY <1>4, <1>5 DEF Safe, Stable, HandlesExclusive, PreloadMatchesCursor
<1>6. CASE ~stray
  <2>1. Exclusive(live, windows_key_handle, names)
    BY <1>1, <1>6, ExclusiveIsHandlesExclusive DEF Safe
  <2>2. \A x \in live' : windows_key_handle[x] # NoHandle =>
          /\ windows_key_handle[x] \in Handle
          /\ windows_key_handle[x] # windows_key_handle[k]
    BY <1>1, <2>1 DEF Exclusive
  <2>3. \A x \in live' : windows_key_handle[x] # NoHandle =>
          names'[windows_key_handle'[x]] = names[windows_key_handle[x]]
    BY <1>2, <1>3, <2>2
  <2>4. Exclusive(live', windows_key_handle', names')
    BY <1>1, <1>2, <2>1, <2>2, <2>3 DEF Exclusive
  <2>5. HandlesExclusive'
    BY <1>1, <2>4, ExclusiveIsHandlesExclusiveNext
  <2>6. PreloadMatchesCursor'
    <3> SUFFICES ASSUME NEW m \in Loader, is_open'[m], ~priv_key_store_eof'[m]
                 PROVE  /\ windows_key_handle'[key'[m]] # NoHandle
                        /\ names'[windows_key_handle'[key'[m]]] = prev_key_cert_ctx'[m]
                        /\ prev_key_cert_ctx'[m] \in Usable'
      BY DEF PreloadMatchesCursor
    <3>1. /\ is_open[m] /\ ~priv_key_store_eof[m] /\ key'[m] = key[m]
          /\ prev_key_cert_ctx'[m] = prev_key_cert_ctx[m]
          /\ key[m] \in live' /\ Usable' = Usable
      BY <1>1 DEF OneOwnerPerObject, Usable
    <3>2. /\ windows_key_handle[key[m]] # NoHandle
          /\ names[windows_key_handle[key[m]]] = prev_key_cert_ctx[m]
          /\ prev_key_cert_ctx[m] \in Usable
      BY <1>6, <3>1 DEF Safe, PreloadMatchesCursor
    <3> QED BY <1>2, <2>3, <3>1, <3>2
  <2>7. Stable
    BY <1>1, <2>3 DEF Safe, Blanks, Stable
  <2> QED BY <1>4, <2>5, <2>6, <2>7 DEF Safe
<1> QED BY <1>1, <1>5, <1>6 DEF TypeOK

(* Steps that move no handle, no key object and no key cursor of a loader  *)
(* that stays open.                                                        *)
LEMMA SafeElsewhere ==
  ASSUME Safe, Owned', UNCHANGED <<certs, live, held, names, blank, stray>>,
         \A x \in live : windows_key_handle'[x] = windows_key_handle[x],
         \A m \in Loader : is_open'[m] =>
           /\ is_open[m] /\ key'[m] = key[m]
           /\ prev_key_cert_ctx'[m] = prev_key_cert_ctx[m]
           /\ priv_key_store_eof'[m] = priv_key_store_eof[m]
  PROVE  Safe' /\ Stable
<1>1. TypeOK /\ TypeOK' /\ OneOwnerPerObject /\ held \subseteq live
  BY DEF Safe, Owned, TypeOK
<1>2. HandlesExclusive'
  BY <1>1, ExclusiveIsHandlesExclusive, ExclusiveIsHandlesExclusiveNext DEF Safe, Exclusive
<1>3. PreloadMatchesCursor'
  BY <1>1 DEF Safe, PreloadMatchesCursor, OneOwnerPerObject, Usable
<1>4. Blanks' /\ Stable
  BY <1>1 DEF Safe, Blanks, Stable
<1> QED BY <1>2, <1>3, <1>4 DEF Safe

LEMMA SafeStep == Safe /\ [Next]_vars => Safe' /\ Stable
<1> SUFFICES ASSUME Safe, [Next]_vars PROVE Safe' /\ Stable
  OBVIOUS
<1>0. /\ Owned' /\ TypeOK /\ OneOwnerPerObject
      /\ live \subseteq KeyObj /\ held \subseteq live
  BY OwnedStep DEF Safe, Owned, TypeOK
<1>1. ASSUME NEW l \in Loader, Open(l) PROVE Safe' /\ Stable
  BY <1>0, <1>1, SafeOpen
<1>2. ASSUME NEW l \in Loader, OpenFails(l) PROVE Safe' /\ Stable
  <2>1. UNCHANGED <<certs, is_open, cursors, origin, history>>
    BY <1>2 DEF OpenFails
  <2>2. /\ UNCHANGED <<live, held, names>>
        /\ \A x \in live : windows_key_handle'[x] = windows_key_handle[x]
    <3>1. CASE UNCHANGED keys
      BY <3>1 DEF keys
    <3>2. ASSUME NEW k \in KeyObj \ live,
                 windows_key_handle' = [windows_key_handle EXCEPT ![k] = NoHandle],
                 live' = (live \cup {k}) \ {k},
                 UNCHANGED <<held, names>>
          PROVE  /\ UNCHANGED <<live, held, names>>
                 /\ \A x \in live : windows_key_handle'[x] = windows_key_handle[x]
      BY <1>0, <3>2 DEF TypeOK
    <3> QED BY <1>2, <3>1, <3>2 DEF OpenFails
  <2> QED BY <1>0, <2>1, <2>2, SafeElsewhere DEF cursors, origin, history
<1>3. ASSUME NEW l \in Loader, LoadCert(l) PROVE Safe' /\ Stable
  BY <1>0, <1>3, SafeElsewhere DEF LoadCert, keys, origin
<1>4. ASSUME NEW l \in Loader, LoadKey(l) PROVE Safe' /\ Stable
  BY <1>0, <1>4, SafeLoadKey
<1>5. CASE DupFails
  BY <1>0, <1>5, SafeDupFails
<1>6. CASE UNCHANGED vars
  BY <1>0, <1>6, SafeElsewhere DEF vars, cursors, keys, origin, history
<1>7. ASSUME NEW l \in Loader, LoadKeyRefused(l) PROVE Safe' /\ Stable
  BY <1>5, <1>6, <1>7 DEF LoadKeyRefused
<1>8. ASSUME NEW l \in Loader, Close(l) PROVE Safe' /\ Stable
  <2>1. key[l] \in live /\ key[l] \notin held /\ FreeObj(key[l])
    BY <1>0, <1>8 DEF Close, OneOwnerPerObject
  <2>2. held' = held /\ UNCHANGED <<certs, blank, stray>>
    BY <1>8 DEF Close, CloseLoader
  <2>3. \A m \in Loader : is_open'[m] =>
          /\ is_open[m] /\ key[m] # key[l] /\ key'[m] = key[m]
          /\ prev_key_cert_ctx'[m] = prev_key_cert_ctx[m]
          /\ priv_key_store_eof'[m] = priv_key_store_eof[m]
    <3>1. is_open[l] /\ \A m \in Loader \ {l} : is_open[m] => key[m] # key[l]
      BY <1>0, <1>8 DEF Close, OneOwnerPerObject
    <3> QED BY <1>0, <1>8, <3>1 DEF Close, CloseLoader, TypeOK
  <2> QED BY <1>0, <2>1, <2>2, <2>3, SafeFree
<1>9. ASSUME NEW l \in Loader, CloseFails(l) PROVE Safe' /\ Stable
  <2>1. \A m \in Loader : is_open'[m] =>
          /\ is_open[m] /\ key'[m] = key[m]
          /\ prev_key_cert_ctx'[m] = prev_key_cert_ctx[m]
          /\ priv_key_store_eof'[m] = priv_key_store_eof[m]
    BY <1>0, <1>9 DEF CloseFails, CloseLoader, TypeOK
  <2> QED BY <1>0, <1>9, <2>1, SafeElsewhere DEF CloseFails, CloseLoader, keys
<1>10. ASSUME NEW k \in KeyObj, DupKey(k) PROVE Safe' /\ Stable
  BY <1>0, <1>5, <1>10, SafeDup
<1>11. ASSUME NEW k \in KeyObj, FreeKey(k) PROVE Safe' /\ Stable
  <2>1. /\ k \in live /\ FreeObj(k) /\ held' = held \ {k} /\ blank' = blank \ {k}
        /\ UNCHANGED <<certs, is_open, cursors, history>>
    BY <1>0, <1>11 DEF FreeKey
  <2>2. \A m \in Loader : is_open'[m] =>
          /\ is_open[m] /\ key[m] # k /\ key'[m] = key[m]
          /\ prev_key_cert_ctx'[m] = prev_key_cert_ctx[m]
          /\ priv_key_store_eof'[m] = priv_key_store_eof[m]
    BY <1>0, <1>11, <2>1 DEF FreeKey, OneOwnerPerObject, cursors
  <2> QED BY <1>0, <2>1, <2>2, SafeFree DEF history
<1>12. ASSUME NEW k \in KeyObj, NewKey(k) PROVE Safe' /\ Stable
  BY <1>0, <1>12, SafeNew
<1> QED BY <1>1, <1>2, <1>3, <1>4, <1>6, <1>7, <1>8, <1>9, <1>10, <1>11, <1>12 DEF Next

LEMMA AlwaysSafe == Spec => []Safe
BY SafeInit, SafeStep, PTL DEF Spec

(* No two live key objects share a handle, and each handle is open.        *)
THEOREM HandlesStayExclusive == Spec => []HandlesExclusive
<1>1. Safe => HandlesExclusive
  BY DEF Safe
<1> QED BY <1>1, AlwaysSafe, PTL

(* A loader hands out the key of the certificate its cursor stands on.     *)
THEOREM PreloadsMatch == Spec => []PreloadMatchesCursor
<1>1. Safe => PreloadMatchesCursor
  BY DEF Safe
<1> QED BY <1>1, AlwaysSafe, PTL

(* cng_keymgmt_has is right about every key of the core but those that     *)
(* cng_keymgmt_new made.                                                   *)
THEOREM HasIsRightOfTheOthers == Spec => []HasErrsOnBlankKeys
<1>1. Safe => HasErrsOnBlankKeys
  <2> SUFFICES ASSUME Safe, NEW k \in held, k \notin blank, ~stray
               PROVE  windows_key_handle[k] \in Handle \ ClosedHandle
    BY DEF HasErrsOnBlankKeys, Safe, Blanks
  <2>1. k \in live /\ windows_key_handle[k] # NoHandle
    BY DEF Safe, Owned, TypeOK, Blanks
  <2> QED BY <2>1 DEF Safe, HandlesExclusive
<1> QED BY <1>1, AlwaysSafe, PTL

(* A key of the core names one private key from load to free.              *)
THEOREM KeysStayStable == Spec => HeldKeysStable
<1>1. Safe /\ [Next]_vars =>
        [~stray' => \A k \in (held \cap held') \ blank :
           names'[windows_key_handle'[k]] = names[windows_key_handle[k]]]_vars
  BY SafeStep DEF Stable
<1> QED BY <1>1, AlwaysSafe, PTL DEF Spec, HeldKeysStable
-----------------------------------------------------------------------------
(* Every open handle has a live key object or was overwritten by a preload, *)
(* and one that was overwritten is open and nobody's.                       *)
Covered(objs, handles, table, left) ==
  /\ \A h \in Handle : table[h] # 0 =>
       \/ \E k \in objs : handles[k] = h
       \/ \E l \in Loader : h \in left[l]
  /\ \A l \in Loader : \A h \in left[l] : table[h] # 0 /\ \A k \in objs : handles[k] # h

Leaks == ~stray => Covered(live, windows_key_handle, names, superseded)

(* The handle a preload overwrites is remembered as superseded. *)
LEMMA PreloadCovers ==
  ASSUME TypeOK, NEW l \in Loader, NEW objs \in SUBSET KeyObj, NEW k \in objs,
         NEW from \in 0..Size,
         NEW handles \in [KeyObj -> Handle \cup {NoHandle}],
         NEW table \in [Handle -> 0..Size],
         Exclusive(objs, handles, table),
         Covered(objs, handles, table, superseded),
         Preload(l, k, from, handles, table), ~stray'
  PROVE  ~stray /\ Covered(objs, windows_key_handle', names', superseded')
<1>1. CASE PreloadHit(l, k, from, handles, table)
  <2>1. PICK j \in from + 1 .. Size, h \in Handle :
          /\ table[h] = 0
          /\ windows_key_handle' = [handles EXCEPT ![k] = h]
          /\ names' = [table EXCEPT ![h] = j]
          /\ superseded' = [superseded EXCEPT ![l] = @ \cup ({handles[k]} \ {NoHandle})]
          /\ UNCHANGED stray
    BY <1>1 DEF PreloadHit
  <2>2. \A m \in Loader : superseded[m] \subseteq superseded'[m]
    BY <2>1 DEF TypeOK
  <2>3. handles[k] \in Handle => handles[k] \in superseded'[l]
    BY <2>1, StoreAssumption DEF TypeOK
  <2>4. windows_key_handle'[k] = h /\ \A x \in objs \ {k} : windows_key_handle'[x] = handles[x]
    BY <2>1
  <2>5. \A g \in Handle \ {h} : names'[g] = table[g]
    BY <2>1
  <2>6. ASSUME NEW g \in Handle, names'[g] # 0
        PROVE  \/ \E x \in objs : windows_key_handle'[x] = g
               \/ \E m \in Loader : g \in superseded'[m]
    <3>1. CASE g = h
      BY <2>4, <3>1
    <3>2. CASE g # h
      <4>1. (\E x \in objs : handles[x] = g) \/ \E m \in Loader : g \in superseded[m]
        BY <2>5, <2>6, <3>2 DEF Covered
      <4> QED BY <2>2, <2>3, <2>4, <4>1
    <3> QED BY <3>1, <3>2
  <2>7. ASSUME NEW m \in Loader, NEW g \in superseded'[m]
        PROVE  names'[g] # 0 /\ \A x \in objs : windows_key_handle'[x] # g
    <3>1. \/ g \in superseded[m]
          \/ g = handles[k] /\ g # NoHandle
      BY <2>1, <2>7 DEF TypeOK
    <3>2. g \in Handle /\ table[g] # 0 /\ \A x \in objs \ {k} : handles[x] # g
      <4>1. CASE g \in superseded[m]
        BY <4>1 DEF TypeOK, Covered
      <4>2. CASE g = handles[k] /\ g # NoHandle
        BY <4>2 DEF Exclusive
      <4> QED BY <3>1, <4>1, <4>2
    <3>3. g # h
      BY <2>1, <3>2
    <3> QED BY <2>4, <2>5, <3>2, <3>3
  <2> QED BY <2>1, <2>6, <2>7 DEF Covered
<1>2. CASE PreloadMiss(l, from, handles, table)
  <2>1. /\ names' = FreeObject(table, {}) /\ ~stray
        /\ windows_key_handle' = handles /\ UNCHANGED superseded
    BY <1>2 DEF PreloadMiss
  <2>2. names' = table
    BY <2>1 DEF FreeObject
  <2> QED BY <2>1, <2>2
<1> QED BY <1>1, <1>2 DEF Preload

(* The objects with a handle, and the handles, are those of before. *)
LEMMA LeakElsewhere ==
  ASSUME TypeOK, Leaks, UNCHANGED <<names, superseded, stray>>, live \subseteq live',
         \A x \in live : windows_key_handle'[x] = windows_key_handle[x],
         \A x \in live' \ live : windows_key_handle'[x] = NoHandle
  PROVE  Leaks'
<1> SUFFICES ASSUME ~stray' PROVE Covered(live', windows_key_handle', names', superseded')
  BY DEF Leaks
<1>1. Covered(live, windows_key_handle, names, superseded)
  BY DEF Leaks
<1>2. \A m \in Loader : \A h \in superseded[m] : h # NoHandle
  BY StoreAssumption DEF TypeOK
<1> QED BY <1>1, <1>2 DEF Covered

LEMMA LeakOpen ==
  ASSUME Safe, Leaks, NEW l \in Loader, Open(l), ~stray'
  PROVE  Leaks'
<1>1. PICK k \in KeyObj \ live :
        /\ live' = live \cup {k}
        /\ Preload(l, k, 0, [windows_key_handle EXCEPT ![k] = NoHandle], names)
  BY DEF Open
<1> DEFINE handles == [windows_key_handle EXCEPT ![k] = NoHandle]
<1>2. /\ TypeOK /\ live' \in SUBSET KeyObj /\ k \in live'
      /\ handles \in [KeyObj -> Handle \cup {NoHandle}]
      /\ names \in [Handle -> 0..Size] /\ 0 \in 0..Size
  BY <1>1 DEF Safe, Owned, TypeOK
<1>3. ~stray
  BY <1>1 DEF Preload, PreloadHit, PreloadMiss
<1>4. handles[k] = NoHandle /\ \A x \in live : handles[x] = windows_key_handle[x]
  BY <1>2 DEF TypeOK
<1>5. Exclusive(live, windows_key_handle, names)
  BY <1>2, <1>3, ExclusiveIsHandlesExclusive DEF Safe
<1> HIDE DEF handles
<1>6. Exclusive(live', handles, names)
  BY <1>1, <1>4, <1>5 DEF Exclusive
<1>7. Covered(live, windows_key_handle, names, superseded)
  BY <1>3 DEF Leaks
<1>8. \A m \in Loader : \A h \in superseded[m] : h # NoHandle
  BY <1>2, StoreAssumption DEF TypeOK
<1>9. Covered(live', handles, names, superseded)
  BY <1>1, <1>4, <1>7, <1>8 DEF Covered
<1>10. Preload(l, k, 0, handles, names)
  BY <1>1 DEF handles
<1> HIDE DEF Size, Index
<1>11. Covered(live', windows_key_handle', names', superseded')
  BY <1>2, <1>6, <1>9, <1>10, PreloadCovers
<1> QED BY <1>11 DEF Leaks

LEMMA LeakLoadKey ==
  ASSUME Safe, Leaks, NEW l \in Loader, LoadKey(l), ~stray'
  PROVE  Leaks'
<1>1. PICK k2 \in KeyObj, h2 \in Handle :
        /\ Duplicate(key[l], k2, h2)
        /\ live' = live \cup {k2}
        /\ Preload(l, key[l], prev_key_cert_ctx[l], DupHandles(k2, h2), DupNames(key[l], h2))
  BY DEF LoadKey
<1> DEFINE handles == DupHandles(k2, h2)
           table == DupNames(key[l], h2)
<1>2. /\ TypeOK /\ key[l] \in live /\ live \subseteq KeyObj
      /\ prev_key_cert_ctx[l] \in 0..Size /\ k2 \notin live
  BY <1>1 DEF Safe, Owned, TypeOK, OneOwnerPerObject, LoadKey, KeyTurn, Duplicate
<1>3. /\ windows_key_handle[key[l]] \in Handle /\ names[windows_key_handle[key[l]]] # 0
      /\ names[h2] = 0
      /\ handles = [windows_key_handle EXCEPT ![k2] = h2]
      /\ table = [names EXCEPT ![h2] = names[windows_key_handle[key[l]]]]
  BY <1>1 DEF Duplicate, ClosedHandle, DupHandles, DupNames
<1>4. /\ handles \in [KeyObj -> Handle \cup {NoHandle}]
      /\ table \in [Handle -> 0..Size]
      /\ handles[k2] = h2 /\ \A x \in live : handles[x] = windows_key_handle[x]
      /\ table[h2] # 0 /\ \A g \in Handle \ {h2} : table[g] = names[g]
  BY <1>2, <1>3 DEF TypeOK
<1> HIDE DEF handles, table
<1>5. ~stray
  BY <1>1 DEF Preload, PreloadHit, PreloadMiss
<1>6. Exclusive(live, windows_key_handle, names)
  BY <1>2, <1>5, ExclusiveIsHandlesExclusive DEF Safe
<1>7. Exclusive(live', handles, table)
  BY <1>1, <1>3, <1>4, <1>6 DEF Exclusive
<1>8. Covered(live, windows_key_handle, names, superseded)
  BY <1>5 DEF Leaks
<1>9. Covered(live', handles, table, superseded)
  <2>1. \A m \in Loader : \A h \in superseded[m] : h \in Handle /\ h # h2
    BY <1>2, <1>3, <1>8 DEF TypeOK, Covered
  <2> QED BY <1>1, <1>4, <1>8, <2>1 DEF Covered
<1>10. live' \in SUBSET KeyObj /\ key[l] \in live'
  BY <1>1, <1>2
<1>11. Preload(l, key[l], prev_key_cert_ctx[l], handles, table)
  BY <1>1 DEF handles, table
<1> HIDE DEF Size, Index
<1>12. Covered(live', windows_key_handle', names', superseded')
  BY <1>2, <1>4, <1>7, <1>9, <1>10, <1>11, PreloadCovers
<1> QED BY <1>12 DEF Leaks

LEMMA LeakFree ==
  ASSUME Safe, Leaks, NEW k \in live, FreeObj(k), UNCHANGED <<superseded, stray>>
  PROVE  Leaks'
<1> SUFFICES ASSUME ~stray' PROVE Covered(live', windows_key_handle', names', superseded')
  BY DEF Leaks
<1>1. TypeOK /\ k \in KeyObj
  BY DEF Safe, Owned, TypeOK
<1>2. /\ names' = [h \in Handle |-> IF h = windows_key_handle[k] THEN 0 ELSE names[h]]
      /\ windows_key_handle' = [windows_key_handle EXCEPT ![k] = NoHandle]
      /\ live' = live \ {k}
  BY DEF FreeObj, FreeObject
<1>3. \A x \in live' : windows_key_handle'[x] = windows_key_handle[x]
  BY <1>1, <1>2 DEF TypeOK
<1>4. Covered(live, windows_key_handle, names, superseded)
  BY DEF Leaks
<1>5. \A m \in Loader : \A h \in superseded[m] : h \in Handle /\ h # windows_key_handle[k]
  BY <1>1, <1>4 DEF TypeOK, Covered
<1> QED BY <1>2, <1>3, <1>4, <1>5 DEF Covered

(* A key object that cng_keymgmt_new has just made has no handle to leak. *)
LEMMA LeakNew ==
  ASSUME Safe, Leaks, NEW k \in KeyObj, NewObj(k), UNCHANGED <<names, superseded, stray>>
  PROVE  Leaks'
<1>1. TypeOK /\ k \notin live /\ live' = live \cup {k}
  BY DEF Safe, Owned, NewObj
<1>2. /\ \A x \in live : windows_key_handle'[x] = windows_key_handle[x]
      /\ windows_key_handle'[k] = NoHandle
  BY <1>1 DEF NewObj, TypeOK
<1> QED BY <1>1, <1>2, LeakElsewhere

LEMMA LeakDupFails == ASSUME Safe, Leaks, DupFails PROVE Leaks'
<1>1. PICK k \in KeyObj : NewObj(k)
  BY DEF DupFails
<1>2. UNCHANGED <<names, superseded, stray>>
  BY DEF DupFails, history
<1> QED BY <1>1, <1>2, LeakNew

LEMMA LeakDup ==
  ASSUME Safe, Leaks, NEW k \in held, DupKey(k)
  PROVE  Leaks'
<1>1. CASE DupFails
  BY <1>1, LeakDupFails
<1>2. ASSUME NEW k2 \in KeyObj, NEW h2 \in Handle,
             Duplicate(k, k2, h2), live' = live \cup {k2},
             windows_key_handle' = DupHandles(k2, h2), names' = DupNames(k, h2),
             UNCHANGED history
      PROVE  Leaks'
  <2>0. SUFFICES ASSUME ~stray' PROVE Covered(live', windows_key_handle', names', superseded')
    BY DEF Leaks
  <2>1. /\ TypeOK /\ k2 \notin live /\ live \subseteq KeyObj /\ UNCHANGED <<superseded, stray>>
        /\ names[h2] = 0 /\ names[windows_key_handle[k]] # 0
    BY <1>2 DEF Safe, Owned, TypeOK, Duplicate, ClosedHandle, history
  <2>2. /\ windows_key_handle'[k2] = h2
        /\ \A x \in live : windows_key_handle'[x] = windows_key_handle[x]
        /\ names'[h2] # 0 /\ \A g \in Handle \ {h2} : names'[g] = names[g]
    BY <1>2, <2>1 DEF DupHandles, DupNames, TypeOK
  <2>3. Covered(live, windows_key_handle, names, superseded)
    BY <2>0, <2>1 DEF Leaks
  <2>4. \A m \in Loader : \A h \in superseded[m] : h \in Handle /\ h # h2
    BY <2>1, <2>3 DEF TypeOK, Covered
  <2> QED BY <1>2, <2>1, <2>2, <2>3, <2>4 DEF Covered
<1> QED BY <1>1, <1>2 DEF DupKey

LEMMA LeakStep == Safe /\ Leaks /\ [Next]_vars => Leaks'
<1> SUFFICES ASSUME Safe, Leaks, [Next]_vars, ~stray' PROVE Leaks'
  BY DEF Leaks
<1>0. TypeOK /\ OneOwnerPerObject /\ live \subseteq KeyObj /\ held \subseteq live
  BY DEF Safe, Owned, TypeOK
<1>1. ASSUME NEW l \in Loader, Open(l) \/ LoadKey(l) PROVE Leaks'
  BY <1>1, LeakOpen, LeakLoadKey
<1>2. ASSUME NEW l \in Loader, OpenFails(l) PROVE Leaks'
  <2>1. UNCHANGED <<names, superseded, stray, live>>
    BY <1>2 DEF OpenFails, keys, history
  <2>2. \A x \in live : windows_key_handle'[x] = windows_key_handle[x]
    BY <1>0, <1>2 DEF OpenFails, keys, TypeOK
  <2> QED BY <1>0, <2>1, <2>2, LeakElsewhere
<1>3. ASSUME NEW l \in Loader, LoadCert(l) \/ CloseFails(l) PROVE Leaks'
  BY <1>0, <1>3, LeakElsewhere DEF LoadCert, CloseFails, CloseLoader, keys
<1>4. CASE UNCHANGED vars
  BY <1>0, <1>4, LeakElsewhere DEF vars, keys, history
<1>5. ASSUME NEW l \in Loader, LoadKeyRefused(l) PROVE Leaks'
  BY <1>4, <1>5, LeakDupFails DEF LoadKeyRefused
<1>6. ASSUME NEW l \in Loader, Close(l) PROVE Leaks'
  <2>1. key[l] \in live /\ FreeObj(key[l]) /\ UNCHANGED <<superseded, stray>>
    BY <1>0, <1>6 DEF Close, CloseLoader, OneOwnerPerObject
  <2> QED BY <2>1, LeakFree
<1>7. ASSUME NEW k \in KeyObj, FreeKey(k) PROVE Leaks'
  BY <1>0, <1>7, LeakFree DEF FreeKey, history
<1>8. ASSUME NEW k \in KeyObj, DupKey(k) PROVE Leaks'
  BY <1>8, LeakDup DEF DupKey
<1>9. ASSUME NEW k \in KeyObj, NewKey(k) PROVE Leaks'
  BY <1>9, LeakNew DEF NewKey, history
<1> QED BY <1>1, <1>2, <1>3, <1>4, <1>5, <1>6, <1>7, <1>8, <1>9 DEF Next

(* What no call can close any more is what a preload overwrote and what a  *)
(* close that failed left behind, and all of it stays open.                *)
LEMMA CoveredIsAccountedFor ==
  ASSUME Safe, Leaks, ~stray, NEW h \in Handle
  PROVE  (names[h] # 0 /\ h \notin Closable) <=>
           \/ \E l \in Loader : h \in superseded[l]
           \/ \E k \in lost : windows_key_handle[k] = h
<1>1. /\ TypeOK /\ OneOwnerPerObject /\ held \subseteq live /\ lost \subseteq live
      /\ Exclusive(live, windows_key_handle, names) /\ h # NoHandle
  BY ExclusiveIsHandlesExclusive, StoreAssumption DEF Safe, Owned, TypeOK
<1>2. Covered(live, windows_key_handle, names, superseded)
  BY DEF Leaks
<1>3. h \in Closable <=>
        \/ \E k \in held : windows_key_handle[k] = h
        \/ \E l \in Loader : is_open[l] /\ windows_key_handle[key[l]] = h
  BY DEF Closable
<1>4. ASSUME names[h] # 0, h \notin Closable
      PROVE  \/ \E l \in Loader : h \in superseded[l]
             \/ \E k \in lost : windows_key_handle[k] = h
  <2>1. CASE \E l \in Loader : h \in superseded[l]
    BY <2>1
  <2>2. CASE \E k \in live : windows_key_handle[k] = h
    BY <1>1, <1>3, <1>4, <2>2 DEF OneOwnerPerObject
  <2> QED BY <1>2, <1>4, <2>1, <2>2 DEF Covered
<1>5. ASSUME NEW l \in Loader, h \in superseded[l] PROVE names[h] # 0 /\ h \notin Closable
  BY <1>1, <1>2, <1>3, <1>5 DEF Covered, OneOwnerPerObject
<1>6. ASSUME NEW k \in lost, windows_key_handle[k] = h PROVE names[h] # 0 /\ h \notin Closable
  <2>1. names[h] # 0 /\ \A x \in live : windows_key_handle[x] = h => x = k
    BY <1>1, <1>6 DEF Exclusive
  <2> QED BY <1>1, <1>3, <2>1 DEF OneOwnerPerObject
<1> QED BY <1>4, <1>5, <1>6

(* Which handles leak, exactly.                                            *)
THEOREM LeaksAreAccountedFor == Spec => []LeaksAccountedFor
<1>1. Init => Leaks
  BY DEF Init, Leaks, Covered
<1>2. Safe /\ Leaks => LeaksAccountedFor
  <2> SUFFICES ASSUME Safe, Leaks, ~stray
               PROVE  Handle \ (ClosedHandle \cup Closable) =
                        (UNION {superseded[l] : l \in Loader})
                          \cup ({windows_key_handle[k] : k \in lost} \ {NoHandle})
    BY DEF LeaksAccountedFor
  <2>1. /\ \A l \in Loader : superseded[l] \subseteq Handle
        /\ \A k \in lost : windows_key_handle[k] \in Handle \cup {NoHandle}
    BY DEF Safe, Owned, TypeOK
  <2>2. \A h \in Handle : h \in ClosedHandle <=> names[h] = 0
    BY DEF ClosedHandle
  <2>3. ASSUME NEW h
        PROVE  h \in Handle \ (ClosedHandle \cup Closable) <=>
                 h \in (UNION {superseded[l] : l \in Loader})
                   \cup ({windows_key_handle[k] : k \in lost} \ {NoHandle})
    <3>1. h \in Handle \ (ClosedHandle \cup Closable) <=>
            h \in Handle /\ names[h] # 0 /\ h \notin Closable
      BY <2>2
    <3>2. h \in (UNION {superseded[l] : l \in Loader})
            \cup ({windows_key_handle[k] : k \in lost} \ {NoHandle}) <=>
              /\ h \in Handle
              /\ \/ \E l \in Loader : h \in superseded[l]
                 \/ \E k \in lost : windows_key_handle[k] = h
      BY <2>1, StoreAssumption
    <3> QED BY <3>1, <3>2, CoveredIsAccountedFor
  <2> QED BY <2>3, Zenon
<1> QED BY <1>1, <1>2, LeakStep, AlwaysSafe, PTL DEF Spec
-----------------------------------------------------------------------------
HIDE StoreAssumption DEF Index, Size

(* Where a preload from a position leaves the key cursor: on a usable      *)
(* certificate, with all that it passed failed, or at the end.             *)
LEMMA PreloadCursor ==
  ASSUME NEW l \in Loader, NEW k, NEW from \in 0..Size, NEW handles, NEW table,
         Size \in Nat, Preload(l, k, from, handles, table), ~stray'
  PROVE  /\ ~stray
         /\ \/ \E j \in from + 1 .. Size :
                 /\ j \in Usable
                 /\ prev_key_cert_ctx' = [prev_key_cert_ctx EXCEPT ![l] = j]
                 /\ priv_key_store_eof' = [priv_key_store_eof EXCEPT ![l] = FALSE]
                 /\ failed' = [failed EXCEPT ![l] = failed[l] \cup (from + 1 .. j - 1)]
            \/ /\ prev_key_cert_ctx' = [prev_key_cert_ctx EXCEPT ![l] = 0]
               /\ priv_key_store_eof' = [priv_key_store_eof EXCEPT ![l] = TRUE]
               /\ failed' = [failed EXCEPT ![l] = failed[l] \cup (from + 1 .. Size)]
<1>1. CASE PreloadHit(l, k, from, handles, table)
  <2>1. PICK j \in from + 1 .. Size :
          /\ certs[j] = "ncrypt"
          /\ prev_key_cert_ctx' = [prev_key_cert_ctx EXCEPT ![l] = j]
          /\ priv_key_store_eof' = [priv_key_store_eof EXCEPT ![l] = FALSE]
          /\ failed' = [failed EXCEPT ![l] = failed[l] \cup (from + 1 .. j - 1)]
          /\ UNCHANGED stray
    BY <1>1 DEF PreloadHit
  <2>2. j \in Usable
    BY <2>1 DEF Usable
  <2> QED BY <2>1, <2>2
<1>2. CASE PreloadMiss(l, from, handles, table)
  BY <1>2 DEF PreloadMiss
<1> QED BY <1>1, <1>2 DEF Preload
-----------------------------------------------------------------------------
(* What holds of the cursors of a loader: what it has given, what it is to *)
(* give next, and what it will never give.                                 *)
Positioned(l) ==
  /\ ~is_open[l] => given[l] = 0 /\ failed[l] = {}
  /\ is_open[l] =>
       /\ ~cert_store_eof[l] => prev_cert_ctx[l] \in 1..Size /\ given[l] = prev_cert_ctx[l] - 1
       /\ cert_store_eof[l] => given[l] >= Size
       /\ ~priv_key_store_eof[l] =>
            /\ prev_key_cert_ctx[l] \in Usable
            /\ given[l] < Size + prev_key_cert_ctx[l]
            /\ failed[l] \subseteq 1..prev_key_cert_ctx[l] - 1
       /\ \A i \in Usable \ failed[l] :
            priv_key_store_eof[l] \/ i < prev_key_cert_ctx[l] => Size + i <= given[l]

Positions == ~stray => \A l \in Loader : Positioned(l)

LEMMA PositionsInit == Init => Positions
BY DEF Init, Positions, Positioned

(* A step that leaves a loader as it is. *)
LEMMA PositionedKept ==
  ASSUME NEW l \in Loader, Positioned(l), certs' = certs,
         is_open'[l] = is_open[l], prev_cert_ctx'[l] = prev_cert_ctx[l],
         cert_store_eof'[l] = cert_store_eof[l],
         prev_key_cert_ctx'[l] = prev_key_cert_ctx[l],
         priv_key_store_eof'[l] = priv_key_store_eof[l],
         given'[l] = given[l], failed'[l] = failed[l]
  PROVE  Positioned(l)'
BY DEF Positioned, Usable, Size

LEMMA PositionedOpen ==
  ASSUME TypeOK, NEW l \in Loader, Positioned(l), Open(l), ~stray'
  PROVE  Positioned(l)'
<1>1. is_open'[l] /\ certs' = certs /\ given' = given
  BY DEF Open, TypeOK
<1>2. given[l] = 0 /\ failed[l] = {}
  BY DEF Positioned, Open
<1>3. Size \in Nat /\ Size' = Size /\ Usable' = Usable /\ Usable \subseteq 1..Size
  BY <1>1 DEF TypeOK, Size, Usable
<1>4. /\ ~cert_store_eof'[l] => prev_cert_ctx'[l] \in 1..Size /\ prev_cert_ctx'[l] = 1
      /\ cert_store_eof'[l] => Size = 0
  <2>1. /\ prev_cert_ctx'[l] = NextCert(0)
        /\ cert_store_eof' = [cert_store_eof EXCEPT ![l] = NextCert(0) = 0]
    BY DEF Open, TypeOK
  <2>2. CASE Size = 0
    <3>1. NextCert(0) = 0
      BY <2>2 DEF NextCert
    <3>2. cert_store_eof' = [cert_store_eof EXCEPT ![l] = TRUE]
      BY <2>1, <3>1
    <3> QED BY <2>2, <3>2 DEF TypeOK
  <2>3. CASE Size # 0
    <3>1. NextCert(0) = 1 /\ 1 \in 1..Size
      BY <1>3, <2>3 DEF NextCert
    <3>2. (NextCert(0) = 0) = FALSE
      BY <3>1
    <3>3. cert_store_eof' = [cert_store_eof EXCEPT ![l] = FALSE]
      BY <2>1, <3>2, Zenon
    <3> QED BY <2>1, <3>1, <3>3 DEF TypeOK
  <2> QED BY <2>2, <2>3
<1>5. /\ ~priv_key_store_eof'[l] =>
            prev_key_cert_ctx'[l] \in Usable /\ failed'[l] = 1..prev_key_cert_ctx'[l] - 1
      /\ priv_key_store_eof'[l] => failed'[l] = 1..Size
  <2>1. PICK k : Preload(l, k, 0, [windows_key_handle EXCEPT ![k] = NoHandle], names)
    BY DEF Open
  <2>2. 0 \in 0..Size
    BY <1>3
  <2>3. CASE \E j \in 0 + 1 .. Size :
               /\ j \in Usable
               /\ prev_key_cert_ctx' = [prev_key_cert_ctx EXCEPT ![l] = j]
               /\ priv_key_store_eof' = [priv_key_store_eof EXCEPT ![l] = FALSE]
               /\ failed' = [failed EXCEPT ![l] = failed[l] \cup (0 + 1 .. j - 1)]
    BY <1>2, <2>3 DEF TypeOK
  <2>4. CASE /\ prev_key_cert_ctx' = [prev_key_cert_ctx EXCEPT ![l] = 0]
             /\ priv_key_store_eof' = [priv_key_store_eof EXCEPT ![l] = TRUE]
             /\ failed' = [failed EXCEPT ![l] = failed[l] \cup (0 + 1 .. Size)]
    BY <1>2, <2>4 DEF TypeOK
  <2>5. \/ \E j \in 0 + 1 .. Size :
             /\ j \in Usable
             /\ prev_key_cert_ctx' = [prev_key_cert_ctx EXCEPT ![l] = j]
             /\ priv_key_store_eof' = [priv_key_store_eof EXCEPT ![l] = FALSE]
             /\ failed' = [failed EXCEPT ![l] = failed[l] \cup (0 + 1 .. j - 1)]
        \/ /\ prev_key_cert_ctx' = [prev_key_cert_ctx EXCEPT ![l] = 0]
           /\ priv_key_store_eof' = [priv_key_store_eof EXCEPT ![l] = TRUE]
           /\ failed' = [failed EXCEPT ![l] = failed[l] \cup (0 + 1 .. Size)]
    BY <1>3, <2>1, <2>2, PreloadCursor, ZenonT(30)
  <2> QED BY <2>3, <2>4, <2>5
<1>6. ~priv_key_store_eof'[l] =>
        /\ prev_key_cert_ctx'[l] \in Usable
        /\ 0 < Size + prev_key_cert_ctx'[l]
        /\ failed'[l] \subseteq 1..prev_key_cert_ctx'[l] - 1
  <2> SUFFICES ASSUME ~priv_key_store_eof'[l]
               PROVE  /\ prev_key_cert_ctx'[l] \in Usable
                      /\ 0 < Size + prev_key_cert_ctx'[l]
                      /\ failed'[l] \subseteq 1..prev_key_cert_ctx'[l] - 1
    OBVIOUS
  <2>1. prev_key_cert_ctx'[l] \in Usable /\ failed'[l] = 1..prev_key_cert_ctx'[l] - 1
    BY <1>5
  <2>2. prev_key_cert_ctx'[l] \in 1..Size
    BY <1>3, <2>1
  <2> QED BY <1>3, <2>1, <2>2
<1>7. \A i \in Usable \ failed'[l] :
        ~(priv_key_store_eof'[l] \/ i < prev_key_cert_ctx'[l])
  <2>1. CASE priv_key_store_eof'[l]
    BY <1>3, <1>5, <2>1
  <2>2. CASE ~priv_key_store_eof'[l]
    <3>1. prev_key_cert_ctx'[l] \in 1..Size /\ failed'[l] = 1..prev_key_cert_ctx'[l] - 1
      BY <1>3, <1>5, <2>2
    <3>2. ASSUME NEW i \in Usable \ failed'[l] PROVE ~(i < prev_key_cert_ctx'[l])
      <4>1. i \in 1..Size /\ i \notin 1..prev_key_cert_ctx'[l] - 1
        BY <1>3, <3>1, <3>2
      <4> QED BY <1>3, <3>1, <4>1
    <3> QED BY <2>2, <3>2
  <2> QED BY <2>1, <2>2
<1>8. 0 >= 0 /\ 0 = 1 - 1
  OBVIOUS
<1> QED BY <1>1, <1>2, <1>3, <1>4, <1>6, <1>7, <1>8 DEF Positioned

LEMMA PositionedLoadCert ==
  ASSUME TypeOK, NEW l \in Loader, Positioned(l), LoadCert(l)
  PROVE  Positioned(l)'
<1> DEFINE next == NextCert(prev_cert_ctx[l])
<1>1. /\ is_open[l] /\ ~cert_store_eof[l] /\ certs' = certs
      /\ UNCHANGED <<is_open, prev_key_cert_ctx, priv_key_store_eof, failed>>
      /\ given'[l] = prev_cert_ctx[l] /\ prev_cert_ctx'[l] = next
      /\ cert_store_eof' = [cert_store_eof EXCEPT ![l] = next = 0]
  BY DEF LoadCert, TypeOK
<1>2. Size \in Nat /\ Size' = Size /\ Usable' = Usable /\ Usable \subseteq 1..Size
  BY <1>1 DEF TypeOK, Size, Usable
<1>3. prev_cert_ctx[l] \in 1..Size /\ given[l] = prev_cert_ctx[l] - 1
  BY <1>1 DEF Positioned
<1>4. /\ ~cert_store_eof'[l] =>
            prev_cert_ctx'[l] \in 1..Size /\ given'[l] = prev_cert_ctx'[l] - 1
      /\ cert_store_eof'[l] => given'[l] >= Size
  <2>1. CASE prev_cert_ctx[l] < Size
    <3>1. next = prev_cert_ctx[l] + 1 /\ next \in 1..Size /\ next # 0
      BY <1>2, <1>3, <2>1 DEF NextCert
    <3> HIDE DEF next
    <3>2. cert_store_eof' = [cert_store_eof EXCEPT ![l] = FALSE]
      BY <1>1, <3>1
    <3>3. ~cert_store_eof'[l]
      BY <3>2 DEF TypeOK
    <3> QED BY <1>1, <1>2, <1>3, <3>1, <3>3
  <2>2. CASE ~(prev_cert_ctx[l] < Size)
    <3>1. next = 0 /\ prev_cert_ctx[l] = Size
      BY <1>2, <1>3, <2>2 DEF NextCert
    <3> HIDE DEF next
    <3>2. cert_store_eof' = [cert_store_eof EXCEPT ![l] = TRUE]
      BY <1>1, <3>1
    <3>3. cert_store_eof'[l]
      BY <3>2 DEF TypeOK
    <3> QED BY <1>1, <1>2, <3>1, <3>3
  <2> QED BY <2>1, <2>2
<1>5. ~priv_key_store_eof'[l] =>
        /\ prev_key_cert_ctx'[l] \in Usable
        /\ given'[l] < Size + prev_key_cert_ctx'[l]
        /\ failed'[l] \subseteq 1..prev_key_cert_ctx'[l] - 1
  <2> SUFFICES ASSUME ~priv_key_store_eof[l]
               PROVE  /\ prev_key_cert_ctx[l] \in Usable
                      /\ prev_cert_ctx[l] < Size + prev_key_cert_ctx[l]
                      /\ failed[l] \subseteq 1..prev_key_cert_ctx[l] - 1
    BY <1>1
  <2>1. prev_key_cert_ctx[l] \in Usable /\ failed[l] \subseteq 1..prev_key_cert_ctx[l] - 1
    BY <1>1 DEF Positioned
  <2>2. prev_key_cert_ctx[l] \in 1..Size
    BY <1>2, <2>1
  <2> QED BY <1>2, <1>3, <2>1, <2>2
<1>6. ASSUME NEW i \in Usable \ failed'[l],
             priv_key_store_eof'[l] \/ i < prev_key_cert_ctx'[l]
      PROVE  Size + i <= given'[l]
  <2>1. i \in Usable \ failed[l] /\ (priv_key_store_eof[l] \/ i < prev_key_cert_ctx[l])
    BY <1>1, <1>6
  <2>2. Size + i <= given[l]
    BY <1>1, <2>1 DEF Positioned
  <2>3. i \in 1..Size
    BY <1>2, <2>1
  <2>4. given'[l] = given[l] + 1 /\ given[l] \in Nat
    BY <1>1, <1>2, <1>3
  <2> QED BY <1>2, <2>2, <2>3, <2>4
<1> HIDE DEF next
<1> QED BY <1>1, <1>2, <1>4, <1>5, <1>6 DEF Positioned

(* What LoadKey hands over, and where it leaves the loader. *)
LEMMA LoadKeyGives ==
  ASSUME Safe, ~stray, NEW l \in Loader, Positioned(l), LoadKey(l)
  PROVE  /\ is_open[l] /\ cert_store_eof[l] /\ ~priv_key_store_eof[l]
         /\ prev_key_cert_ctx[l] \in Usable \ failed[l]
         /\ given[l] >= Size /\ given[l] < Size + prev_key_cert_ctx[l]
         /\ given' = [given EXCEPT ![l] = Size + prev_key_cert_ctx[l]]
         /\ UNCHANGED <<certs, is_open, prev_cert_ctx, cert_store_eof>>
         /\ \E k, handles, table : Preload(l, k, prev_key_cert_ctx[l], handles, table)
<1>1. is_open[l] /\ cert_store_eof[l] /\ ~priv_key_store_eof[l]
  BY DEF LoadKey, KeyTurn
<1>2. names[windows_key_handle[key[l]]] = prev_key_cert_ctx[l]
  BY <1>1 DEF Safe, PreloadMatchesCursor
<1>3. /\ given' = [given EXCEPT ![l] = Size + names[windows_key_handle[key[l]]]]
      /\ UNCHANGED <<certs, is_open, prev_cert_ctx, cert_store_eof>>
      /\ \E k, handles, table : Preload(l, k, prev_key_cert_ctx[l], handles, table)
  BY DEF LoadKey
<1>4. /\ prev_key_cert_ctx[l] \in Usable /\ failed[l] \subseteq 1..prev_key_cert_ctx[l] - 1
      /\ given[l] >= Size /\ given[l] < Size + prev_key_cert_ctx[l]
  BY <1>1 DEF Positioned
<1>5. prev_key_cert_ctx[l] \in 1..Size /\ Size \in Nat
  BY <1>4 DEF Safe, Owned, TypeOK, Usable, Size
<1>6. prev_key_cert_ctx[l] \notin failed[l]
  BY <1>4, <1>5
<1> QED BY <1>1, <1>2, <1>3, <1>4, <1>6, Zenon

LEMMA PositionedLoadKey ==
  ASSUME Safe, ~stray, NEW l \in Loader, Positioned(l), LoadKey(l), ~stray'
  PROVE  /\ Positioned(l)'
         /\ failed[l] \subseteq failed'[l]
         /\ \A i \in failed'[l] \ failed[l] : i > prev_key_cert_ctx[l]
<1> DEFINE from == prev_key_cert_ctx[l]
<1>1. TypeOK /\ Size \in Nat /\ Usable \subseteq 1..Size /\ failed[l] \subseteq 1..Size
  BY DEF Safe, Owned, TypeOK, Size, Usable
<1>2. /\ is_open[l] /\ cert_store_eof[l] /\ ~priv_key_store_eof[l]
      /\ from \in Usable \ failed[l] /\ given[l] >= Size /\ given[l] < Size + from
      /\ given' = [given EXCEPT ![l] = Size + from]
      /\ UNCHANGED <<certs, is_open, prev_cert_ctx, cert_store_eof>>
      /\ \E k, handles, table : Preload(l, k, from, handles, table)
  BY LoadKeyGives
<1>3. from \in 1..Size /\ from \in 0..Size
  <2>1. from \in Usable
    BY <1>2
  <2> HIDE DEF from
  <2>2. from \in 1..Size
    BY <1>1, <2>1
  <2> QED BY <1>1, <2>2
<1> HIDE DEF from
<1>4. given'[l] = Size + from /\ is_open'[l] /\ cert_store_eof'[l]
  BY <1>1, <1>2 DEF TypeOK
<1>5. Size' = Size /\ Usable' = Usable
  BY <1>2 DEF Size, Usable
<1>6. /\ ~priv_key_store_eof'[l] =>
            /\ prev_key_cert_ctx'[l] \in Usable /\ prev_key_cert_ctx'[l] > from
            /\ failed'[l] = failed[l] \cup (from + 1 .. prev_key_cert_ctx'[l] - 1)
      /\ priv_key_store_eof'[l] => failed'[l] = failed[l] \cup (from + 1 .. Size)
  <2>1. \/ \E j \in from + 1 .. Size :
             /\ j \in Usable
             /\ prev_key_cert_ctx' = [prev_key_cert_ctx EXCEPT ![l] = j]
             /\ priv_key_store_eof' = [priv_key_store_eof EXCEPT ![l] = FALSE]
             /\ failed' = [failed EXCEPT ![l] = failed[l] \cup (from + 1 .. j - 1)]
        \/ /\ prev_key_cert_ctx' = [prev_key_cert_ctx EXCEPT ![l] = 0]
           /\ priv_key_store_eof' = [priv_key_store_eof EXCEPT ![l] = TRUE]
           /\ failed' = [failed EXCEPT ![l] = failed[l] \cup (from + 1 .. Size)]
    BY <1>1, <1>2, <1>3, PreloadCursor, ZenonT(30)
  <2>2. ASSUME NEW j \in from + 1 .. Size, j \in Usable,
               prev_key_cert_ctx' = [prev_key_cert_ctx EXCEPT ![l] = j],
               priv_key_store_eof' = [priv_key_store_eof EXCEPT ![l] = FALSE],
               failed' = [failed EXCEPT ![l] = failed[l] \cup (from + 1 .. j - 1)]
        PROVE  /\ ~priv_key_store_eof'[l] /\ prev_key_cert_ctx'[l] = j /\ j > from
               /\ failed'[l] = failed[l] \cup (from + 1 .. j - 1)
    BY <1>1, <1>3, <2>2 DEF TypeOK
  <2>3. CASE /\ prev_key_cert_ctx' = [prev_key_cert_ctx EXCEPT ![l] = 0]
             /\ priv_key_store_eof' = [priv_key_store_eof EXCEPT ![l] = TRUE]
             /\ failed' = [failed EXCEPT ![l] = failed[l] \cup (from + 1 .. Size)]
    BY <1>1, <2>3 DEF TypeOK
  <2>4. CASE \E j \in from + 1 .. Size :
               /\ j \in Usable
               /\ prev_key_cert_ctx' = [prev_key_cert_ctx EXCEPT ![l] = j]
               /\ priv_key_store_eof' = [priv_key_store_eof EXCEPT ![l] = FALSE]
               /\ failed' = [failed EXCEPT ![l] = failed[l] \cup (from + 1 .. j - 1)]
    BY <2>2, <2>4
  <2> QED BY <2>1, <2>3, <2>4
<1>7. failed[l] \subseteq 1..from - 1
  BY <1>2 DEF Positioned, from
<1>8. ~priv_key_store_eof'[l] =>
        /\ prev_key_cert_ctx'[l] \in Usable
        /\ Size + from < Size + prev_key_cert_ctx'[l]
        /\ failed'[l] \subseteq 1..prev_key_cert_ctx'[l] - 1
  <2> SUFFICES ASSUME ~priv_key_store_eof'[l]
               PROVE  /\ prev_key_cert_ctx'[l] \in Usable
                      /\ Size + from < Size + prev_key_cert_ctx'[l]
                      /\ failed'[l] \subseteq 1..prev_key_cert_ctx'[l] - 1
    OBVIOUS
  <2>1. /\ prev_key_cert_ctx'[l] \in 1..Size /\ prev_key_cert_ctx'[l] > from
        /\ failed'[l] = failed[l] \cup (from + 1 .. prev_key_cert_ctx'[l] - 1)
    BY <1>1, <1>6
  <2> QED BY <1>1, <1>3, <1>6, <1>7, <2>1
<1>9. ASSUME NEW i \in Usable \ failed'[l],
             priv_key_store_eof'[l] \/ i < prev_key_cert_ctx'[l]
      PROVE  Size + i <= Size + from
  <2>1. i \in 1..Size
    BY <1>1
  <2>2. CASE priv_key_store_eof'[l]
    <3>1. i \notin from + 1 .. Size
      BY <1>6, <2>2
    <3> QED BY <1>1, <1>3, <2>1, <3>1
  <2>3. CASE ~priv_key_store_eof'[l]
    <3>1. /\ prev_key_cert_ctx'[l] \in 1..Size /\ i < prev_key_cert_ctx'[l]
          /\ i \notin from + 1 .. prev_key_cert_ctx'[l] - 1
      BY <1>1, <1>6, <1>9, <2>3
    <3> QED BY <1>1, <1>3, <2>1, <3>1
  <2> QED BY <2>2, <2>3
<1>10. Positioned(l)'
  <2>1. Size + from >= Size
    BY <1>1, <1>3
  <2> QED BY <1>4, <1>5, <1>8, <1>9, <2>1 DEF Positioned
<1>11. failed[l] \subseteq failed'[l]
  BY <1>6
<1>12. \A i \in failed'[l] \ failed[l] : i > from
  <2> SUFFICES ASSUME NEW i \in failed'[l] \ failed[l] PROVE i > from
    OBVIOUS
  <2>1. CASE priv_key_store_eof'[l]
    BY <1>1, <1>3, <1>6, <2>1
  <2>2. CASE ~priv_key_store_eof'[l]
    <3>1. prev_key_cert_ctx'[l] \in 1..Size
      BY <1>1, <1>6, <2>2
    <3> QED BY <1>1, <1>3, <1>6, <2>2, <3>1
  <2> QED BY <2>1, <2>2
<1> QED BY <1>10, <1>11, <1>12 DEF from

LEMMA PositionedClose ==
  ASSUME TypeOK, NEW l \in Loader, Close(l) \/ CloseFails(l)
  PROVE  /\ is_open[l] /\ ~is_open'[l] /\ given'[l] = 0 /\ failed'[l] = {}
         /\ ~cert_store_eof'[l] /\ UNCHANGED <<certs, stray>>
         /\ Positioned(l)'
<1>1. /\ is_open[l] /\ ~is_open'[l] /\ given'[l] = 0 /\ failed'[l] = {}
      /\ ~cert_store_eof'[l] /\ UNCHANGED <<certs, stray>>
  BY DEF TypeOK, Close, CloseFails, CloseLoader
<1> QED BY <1>1 DEF Positioned
-----------------------------------------------------------------------------
(* Nothing of loader m changes. *)
Kept(m) ==
  /\ certs' = certs
  /\ is_open'[m] = is_open[m] /\ given'[m] = given[m] /\ failed'[m] = failed[m]
  /\ prev_cert_ctx'[m] = prev_cert_ctx[m] /\ cert_store_eof'[m] = cert_store_eof[m]
  /\ prev_key_cert_ctx'[m] = prev_key_cert_ctx[m]
  /\ priv_key_store_eof'[m] = priv_key_store_eof[m]

Moves(l) == Open(l) \/ LoadCert(l) \/ LoadKey(l) \/ Close(l) \/ CloseFails(l)

LEMMA PreloadKeeps ==
  ASSUME TypeOK, NEW l \in Loader, NEW k, NEW from, NEW handles, NEW table,
         Preload(l, k, from, handles, table), NEW m \in Loader \ {l}
  PROVE  /\ failed'[m] = failed[m] /\ prev_key_cert_ctx'[m] = prev_key_cert_ctx[m]
         /\ priv_key_store_eof'[m] = priv_key_store_eof[m]
BY DEF TypeOK, Preload, PreloadHit, PreloadMiss

LEMMA MovesKeepOthers ==
  ASSUME TypeOK, NEW l \in Loader, Moves(l), NEW m \in Loader \ {l}
  PROVE  Kept(m)
<1>1. CASE Open(l)
  <2>1. /\ failed'[m] = failed[m] /\ prev_key_cert_ctx'[m] = prev_key_cert_ctx[m]
        /\ priv_key_store_eof'[m] = priv_key_store_eof[m]
    BY <1>1, PreloadKeeps DEF Open
  <2> QED BY <1>1, <2>1 DEF Open, Kept, TypeOK
<1>2. CASE LoadKey(l)
  <2>1. /\ failed'[m] = failed[m] /\ prev_key_cert_ctx'[m] = prev_key_cert_ctx[m]
        /\ priv_key_store_eof'[m] = priv_key_store_eof[m]
    BY <1>2, PreloadKeeps DEF LoadKey
  <2> QED BY <1>2, <2>1 DEF LoadKey, Kept, TypeOK
<1>3. CASE LoadCert(l)
  BY <1>3 DEF LoadCert, Kept, TypeOK
<1>4. CASE Close(l) \/ CloseFails(l)
  BY <1>4 DEF Close, CloseFails, CloseLoader, Kept, TypeOK
<1> QED BY <1>1, <1>2, <1>3, <1>4 DEF Moves

(* A step is one loader's, or it moves no loader at all; and a stray free  *)
(* is remembered.                                                          *)
LEMMA OneMoves ==
  ASSUME TypeOK, [Next]_vars
  PROVE  /\ (\A m \in Loader : Kept(m)) \/ \E l \in Loader : Moves(l)
         /\ stray => stray'
<1>1. CASE UNCHANGED <<certs, is_open, cursors, history>>
  BY <1>1 DEF cursors, history, Kept
<1>2. ASSUME NEW l \in Loader, OpenFails(l) PROVE UNCHANGED <<certs, is_open, cursors, history>>
  BY <1>2 DEF OpenFails
<1>3. DupFails => UNCHANGED <<certs, is_open, cursors, history>>
  BY DEF DupFails
<1>4. UNCHANGED vars => UNCHANGED <<certs, is_open, cursors, history>>
  BY DEF vars
<1>5. ASSUME NEW l \in Loader, LoadKeyRefused(l)
      PROVE  UNCHANGED <<certs, is_open, cursors, history>>
  BY <1>3, <1>4, <1>5 DEF LoadKeyRefused
<1>6. ASSUME NEW k \in KeyObj, NewKey(k) \/ DupKey(k) \/ FreeKey(k)
      PROVE  UNCHANGED <<certs, is_open, cursors, history>>
  BY <1>3, <1>6 DEF NewKey, DupKey, FreeKey
<1>7. ASSUME NEW l \in Loader, Moves(l) PROVE stray => stray'
  BY <1>7 DEF Moves, Open, LoadCert, LoadKey, Close, CloseFails, CloseLoader, Preload, PreloadHit,
     PreloadMiss
<1> QED BY <1>1, <1>2, <1>4, <1>5, <1>6, <1>7 DEF Next, Moves

LEMMA PositionsNext == ASSUME Safe, Positions, [Next]_vars PROVE Positions'
<1> SUFFICES ASSUME ~stray' PROVE \A m \in Loader : Positioned(m)'
  BY DEF Positions
<1>1. TypeOK /\ ~stray /\ \A m \in Loader : Positioned(m)
  BY OneMoves DEF Safe, Owned, Positions
<1>2. ASSUME NEW m \in Loader, Kept(m) PROVE Positioned(m)'
  BY <1>1, <1>2, PositionedKept DEF Kept
<1>3. ASSUME NEW l \in Loader, Moves(l) PROVE \A m \in Loader : Positioned(m)'
  <2>1. Positioned(l)'
    BY <1>1, <1>3, PositionedOpen, PositionedLoadCert, PositionedLoadKey, PositionedClose DEF Moves
  <2>2. \A m \in Loader \ {l} : Kept(m)
    BY <1>1, <1>3, MovesKeepOthers
  <2> QED BY <1>2, <2>1, <2>2
<1> QED BY <1>1, <1>2, <1>3, OneMoves

LEMMA AlwaysPositioned == Spec => [](Safe /\ Positions)
<1>1. Safe /\ Positions /\ [Next]_vars => Safe' /\ Positions'
  BY SafeStep, PositionsNext
<1> QED BY <1>1, SafeInit, PositionsInit, PTL DEF Spec

(* A loader has given exactly what lies before its cursors.                *)
THEOREM CursorsAgree == Spec => []PositionsAgree
<1>1. Positions => PositionsAgree
  BY DEF Positions, Positioned, PositionsAgree
<1> QED BY <1>1, AlwaysPositioned, PTL
-----------------------------------------------------------------------------
(* The end-of-file answer is exact: both flags are up exactly when nothing *)
(* that can be handed over is left.                                        *)
LEMMA EndedExact ==
  ASSUME TypeOK, NEW l \in Loader, Positioned(l), is_open[l]
  PROVE  (cert_store_eof[l] /\ priv_key_store_eof[l]) <=>
           Stream(l)!NothingAfter(given[l], failed[l])
<1> DEFINE at == prev_key_cert_ctx[l]
<1>1. Size \in Nat /\ Usable \in SUBSET (1..Size) /\ given[l] \in Nat
  BY StoreAssumption DEF TypeOK, Size, Usable
<1>2. Stream(l)!NothingAfter(given[l], failed[l]) <=>
        \A q \in given[l] + 1 .. 2 * Size :
          ~(q \in 1..Size \/ (q - Size) \in Usable \ failed[l])
  BY DEF Stream!NothingAfter, Stream!Deliverable
<1>3. CASE ~cert_store_eof[l]
  <2>1. prev_cert_ctx[l] \in 1..Size /\ given[l] = prev_cert_ctx[l] - 1
    BY <1>3 DEF Positioned
  <2>2. prev_cert_ctx[l] \in given[l] + 1 .. 2 * Size
    BY <1>1, <2>1
  <2> QED BY <1>2, <1>3, <2>1, <2>2
<1>4. CASE cert_store_eof[l] /\ ~priv_key_store_eof[l]
  <2>1. at \in Usable /\ given[l] < Size + at /\ failed[l] \subseteq 1..at - 1
    BY <1>4 DEF Positioned
  <2>2. at \in 1..Size
    BY <1>1, <2>1
  <2>3. at \notin 1..at - 1
    BY <2>2
  <2>4. Size + at \in given[l] + 1 .. 2 * Size /\ (Size + at) - Size = at
    BY <1>1, <2>1, <2>2
  <2> HIDE DEF at
  <2>5. ~ \A q \in given[l] + 1 .. 2 * Size :
           ~(q \in 1..Size \/ (q - Size) \in Usable \ failed[l])
    BY <2>1, <2>3, <2>4
  <2> QED BY <1>2, <1>4, <2>5
<1>5. CASE cert_store_eof[l] /\ priv_key_store_eof[l]
  <2>1. given[l] >= Size /\ \A i \in Usable \ failed[l] : Size + i <= given[l]
    BY <1>5 DEF Positioned
  <2>2. ASSUME NEW q \in given[l] + 1 .. 2 * Size
        PROVE  q \notin 1..Size /\ (q - Size) \notin Usable \ failed[l]
    <3>1. q > Size
      BY <1>1, <2>1
    <3>2. ASSUME (q - Size) \in Usable \ failed[l] PROVE FALSE
      <4>1. Size + (q - Size) <= given[l]
        BY <2>1, <3>2
      <4> QED BY <1>1, <4>1
    <3> QED BY <1>1, <3>1, <3>2
  <2> QED BY <1>2, <1>5, <2>2
<1> QED BY <1>3, <1>4, <1>5

(* The same of every loader, and after a step. *)
EndsExact ==
  \A l \in Loader : ~stray /\ is_open[l] =>
    ((cert_store_eof[l] /\ priv_key_store_eof[l]) <=>
       Stream(l)!NothingAfter(given[l], failed[l]))

LEMMA EndsExactNext == Safe /\ Positions /\ [Next]_vars => EndsExact'
<1>1. Safe /\ Positions => EndsExact
  BY EndedExact DEF Safe, Owned, Positions, EndsExact
<1>2. Safe /\ Positions /\ [Next]_vars => Safe' /\ Positions'
  BY SafeStep, PositionsNext
<1> QED BY <1>1, <1>2, PTL
-----------------------------------------------------------------------------
LEMMA StreamKept ==
  ASSUME NEW m \in Loader, Kept(m), ~stray, ~stray', stray \in BOOLEAN, stray' \in BOOLEAN
  PROVE  UNCHANGED Stream(m)!vars
BY DEF Kept, Stream!vars, Size, Usable

(* What the abstract steps say of the end-of-file answer. *)
LEMMA AnswerExact ==
  ASSUME EndsExact', NEW l \in Loader, is_open'[l], ~stray', certs' = certs
  PROVE  (cert_store_eof'[l] /\ priv_key_store_eof'[l]) =
           Stream(l)!NothingAfter(given'[l], failed'[l])
<1>1. (cert_store_eof'[l] /\ priv_key_store_eof'[l]) <=>
        Stream(l)!NothingAfter(given[l], failed[l])'
  BY DEF EndsExact
<1>2. Size' = Size /\ Usable' = Usable
  BY DEF Size, Usable
<1>3. (cert_store_eof'[l] /\ priv_key_store_eof'[l]) <=>
        Stream(l)!NothingAfter(given'[l], failed'[l])
  BY <1>1, <1>2 DEF Stream!NothingAfter, Stream!Deliverable
<1> QED BY <1>3 DEF Stream!NothingAfter

(* Opening starts the stream. *)
LEMMA OpenStarts ==
  ASSUME Safe, Positions, [Next]_vars, NEW l \in Loader, Open(l), ~stray, ~stray'
  PROVE  Stream(l)!Next
<1>1. TypeOK /\ TypeOK' /\ Positioned(l) /\ EndsExact'
  BY SafeStep, EndsExactNext DEF Safe, Owned, Positions
<1>2. ~is_open[l] /\ is_open' = [is_open EXCEPT ![l] = TRUE] /\ UNCHANGED <<certs, given>>
  BY DEF Open
<1>3. is_open'[l] /\ given'[l] = 0 /\ failed'[l] \in SUBSET (1..Size)
  BY <1>1, <1>2 DEF TypeOK, Positioned, Size
<1>4. (cert_store_eof'[l] /\ priv_key_store_eof'[l]) = Stream(l)!NothingAfter(0, failed'[l])
  BY <1>1, <1>2, <1>3, AnswerExact
<1>5. Stream(l)!Start
  BY <1>1, <1>2, <1>3, <1>4 DEF Stream!Start, TypeOK
<1>6. UNCHANGED <<Size, Usable, stray>>
  BY <1>1, <1>2 DEF TypeOK, Size, Usable
<1> QED BY <1>5, <1>6 DEF Stream!Next

(* Loading a certificate gives the next object. *)
LEMMA LoadCertGives ==
  ASSUME Safe, Positions, [Next]_vars, NEW l \in Loader, LoadCert(l), ~stray, ~stray'
  PROVE  Stream(l)!Next
<1>1. TypeOK /\ TypeOK' /\ Positioned(l) /\ EndsExact' /\ Size \in Nat
  <2>1. TypeOK /\ TypeOK' /\ Positioned(l) /\ EndsExact'
    BY SafeStep, EndsExactNext DEF Safe, Owned, Positions
  <2>2. Size \in Nat
    BY <2>1 DEF TypeOK, Size
  <2> QED BY <2>1, <2>2
<1>2. /\ is_open[l] /\ ~cert_store_eof[l]
      /\ UNCHANGED <<certs, is_open, failed, stray>>
      /\ given'[l] = prev_cert_ctx[l]
  BY <1>1 DEF LoadCert, TypeOK
<1>3. prev_cert_ctx[l] \in 1..Size /\ given[l] = prev_cert_ctx[l] - 1
  BY <1>1, <1>2 DEF Positioned
<1>4. given'[l] \in 1..Size /\ given[l] = given'[l] - 1
  BY <1>2, <1>3
<1>5. /\ given'[l] \in given[l] + 1 .. 2 * Size
      /\ given[l] + 1 .. given'[l] - 1 = {}
  BY <1>1, <1>4
<1>6. Stream(l)!Deliverable(given'[l], failed[l])
  BY <1>4 DEF Stream!Deliverable
<1>7. (cert_store_eof'[l] /\ priv_key_store_eof'[l]) =
        Stream(l)!NothingAfter(given'[l], failed'[l])
  BY <1>1, <1>2, AnswerExact
<1>8. failed'[l] = failed[l] /\ failed[l] \in SUBSET (1..Size)
  BY <1>1, <1>2 DEF TypeOK, Size
<1>9. Stream(l)!Give
  BY <1>2, <1>5, <1>6, <1>7, <1>8 DEF Stream!Give
<1>10. UNCHANGED <<Size, Usable, stray>>
  BY <1>2 DEF Size, Usable
<1> QED BY <1>9, <1>10 DEF Stream!Next

(* Loading a key gives the next key that can be had. *)
LEMMA LoadKeyGivesNext ==
  ASSUME Safe, Positions, [Next]_vars, NEW l \in Loader, LoadKey(l), ~stray, ~stray'
  PROVE  Stream(l)!Next
<1> DEFINE at == prev_key_cert_ctx[l]
<1>1. /\ TypeOK /\ TypeOK' /\ Positioned(l) /\ EndsExact'
      /\ Size \in Nat /\ Usable \subseteq 1..Size /\ given[l] \in Nat
  <2>1. TypeOK /\ TypeOK' /\ Positioned(l) /\ EndsExact'
    BY SafeStep, EndsExactNext DEF Safe, Owned, Positions
  <2>2. Size \in Nat /\ Usable \subseteq 1..Size /\ given[l] \in Nat
    BY <2>1, StoreAssumption DEF TypeOK, Size, Usable
  <2> QED BY <2>1, <2>2
<1>2. /\ is_open[l] /\ cert_store_eof[l] /\ ~priv_key_store_eof[l]
      /\ at \in Usable \ failed[l] /\ given[l] >= Size /\ given[l] < Size + at
      /\ given' = [given EXCEPT ![l] = Size + at]
      /\ UNCHANGED <<certs, is_open>>
  BY <1>1, LoadKeyGives
<1>3. at \in 1..Size /\ given'[l] = Size + at
  BY <1>1, <1>2 DEF TypeOK
<1>4. /\ failed[l] \subseteq failed'[l] /\ failed'[l] \in SUBSET (1..Size)
      /\ \A i \in failed'[l] \ failed[l] : i > at
  BY <1>1, <1>2, PositionedLoadKey DEF TypeOK, Size
<1>5. \A i \in Usable \ failed[l] : i < at => Size + i <= given[l]
  BY <1>2 DEF Positioned, Positions
<1> HIDE DEF at
<1>6. given'[l] \in given[l] + 1 .. 2 * Size
  BY <1>1, <1>2, <1>3
<1>7. Stream(l)!Deliverable(given'[l], failed[l])
  <2>1. (Size + at) - Size = at
    BY <1>1, <1>3
  <2> QED BY <1>2, <1>3, <2>1 DEF Stream!Deliverable
<1>8. ASSUME NEW q \in given[l] + 1 .. given'[l] - 1
      PROVE  ~Stream(l)!Deliverable(q, failed[l])
  <2>1. q > Size /\ q < Size + at /\ q > given[l]
    BY <1>1, <1>2, <1>3, <1>8
  <2>2. ASSUME (q - Size) \in Usable \ failed[l] PROVE FALSE
    <3>1. q - Size < at /\ Size + (q - Size) = q
      BY <1>1, <1>3, <1>8, <2>1
    <3>2. Size + (q - Size) <= given[l]
      BY <1>5, <2>2, <3>1
    <3> QED BY <1>1, <1>8, <2>1, <3>1, <3>2
  <2>3. q \notin 1..Size
    BY <1>1, <1>8, <2>1
  <2> QED BY <2>2, <2>3 DEF Stream!Deliverable
<1>9. \A i \in failed'[l] \ failed[l] : Size + i > given'[l]
  BY <1>1, <1>3, <1>4
<1>10. (cert_store_eof'[l] /\ priv_key_store_eof'[l]) =
         Stream(l)!NothingAfter(given'[l], failed'[l])
  BY <1>1, <1>2, AnswerExact
<1>11. Stream(l)!Give
  BY <1>2, <1>4, <1>6, <1>7, <1>8, <1>9, <1>10 DEF Stream!Give
<1>12. UNCHANGED <<Size, Usable>> /\ stray' = stray
  BY <1>1, <1>2 DEF TypeOK, Size, Usable
<1> QED BY <1>11, <1>12 DEF Stream!Next

LEMMA CloseStops ==
  ASSUME Safe, NEW l \in Loader, Close(l) \/ CloseFails(l)
  PROVE  Stream(l)!Next
<1>1. /\ is_open[l] /\ ~is_open'[l] /\ given'[l] = 0 /\ failed'[l] = {}
      /\ ~cert_store_eof'[l] /\ UNCHANGED <<certs, stray>>
  BY PositionedClose DEF Safe, Owned
<1>2. is_open' = [is_open EXCEPT ![l] = FALSE] /\ l \in DOMAIN is_open
  BY DEF Close, CloseFails, CloseLoader, Safe, Owned, TypeOK
<1>3. is_open'[l] = FALSE /\ (cert_store_eof'[l] /\ priv_key_store_eof'[l]) = FALSE
  BY <1>1, <1>2
<1>4. Stream(l)!Stop
  BY <1>1, <1>3 DEF Stream!Stop
<1> QED BY <1>1, <1>4 DEF Stream!Next, Size, Usable

LEMMA StreamStep ==
  ASSUME Safe, Positions, [Next]_vars, NEW m \in Loader
  PROVE  [Stream(m)!Next]_(Stream(m)!vars)
<1>1. CASE stray'
  BY <1>1 DEF Stream!Next
<1>2. CASE ~stray'
  <2>1. TypeOK /\ TypeOK' /\ ~stray
    BY <1>2, OneMoves, SafeStep DEF Safe, Owned
  <2>2. CASE Kept(m)
    BY <1>2, <2>1, <2>2, StreamKept DEF TypeOK
  <2>3. CASE Moves(m)
    BY <1>2, <2>1, <2>3, OpenStarts, LoadCertGives, LoadKeyGivesNext, CloseStops DEF Moves
  <2> QED BY <2>1, <2>2, <2>3, OneMoves, MovesKeepOthers
<1> QED BY <1>1, <1>2

(* Every loader is an abstract stream: until a stray free it hands over    *)
(* each certificate and then each key that can be had once, in store       *)
(* order, and its end-of-file answer is exact.                             *)
THEOREM LoadersImplementStreams == Spec => LoadersAreStreams
<1>1. Init => \A l \in Loader : Stream(l)!Init
  BY DEF Init, Stream!Init
<1>2. Safe /\ Positions /\ [Next]_vars =>
        [\A l \in Loader : [Stream(l)!Next]_(Stream(l)!vars)]_vars
  BY StreamStep
<1> QED BY <1>1, <1>2, AlwaysPositioned, PTL DEF Spec, LoadersAreStreams
=============================================================================
