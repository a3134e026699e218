------------------------- MODULE CngSignatureProofs -------------------------
(***************************************************************************)
(* Proofs about CngSignature, for any sets of contexts, hashes, keys,      *)
(* digests and blocks, and hashes of any length.                           *)
(***************************************************************************)
EXTENDS CngSignature, FiniteSetTheorems, TLAPS

(* Every variable that is a function has the domain it is used on. *)
Shapes ==
  /\ stage = [c \in Ctx |-> stage[c]]
  /\ hash_handle = [c \in Ctx |-> hash_handle[c]]
  /\ alg_identifier = [c \in Ctx |-> alg_identifier[c]]
  /\ key = [c \in Ctx |-> key[c]]
  /\ hash = [h \in Hash |-> hash[h]]
  /\ keydata = [k \in KeyObj |-> keydata[k]]
  /\ pkey = [c \in Ctx |-> pkey[c]]
  /\ fed = [c \in Ctx |-> fed[c]]
  /\ asked = [c \in Ctx |-> asked[c]]

LEMMA ShapesInit == Init => Shapes
BY DEF Init, Shapes

LEMMA ShapesKeys ==
  ASSUME Shapes, NEW k \in KeyObj, NEW p, KeyFree(k) \/ KeyArrives(k, p)
  PROVE  Shapes'
BY DEF Shapes, KeyFree, KeyArrives, ctx_fields

LEMMA ShapesNext == ASSUME Shapes, [Next]_vars PROVE Shapes'
<1>1. ASSUME NEW c \in Ctx, NewCtx(c) \/ FinalSize(c) \/ Final(c) PROVE Shapes'
  BY <1>1 DEF Shapes, NewCtx, FinalSize, Final, ctx_fields, core
<1>2. ASSUME NEW c \in Ctx, FreeCtx(c) PROVE Shapes'
  BY <1>2 DEF Shapes, FreeCtx, Clear, DestroyHash
<1>3. ASSUME NEW c \in Ctx, NEW md, NEW k, SignInit(c, md, k) PROVE Shapes'
  BY <1>3 DEF Shapes, SignInit, RecordDigest
<1>4. ASSUME NEW c \in Ctx, NEW b, Update(c, b) PROVE Shapes'
  BY <1>4 DEF Shapes, Update, ctx_fields
<1>5. ASSUME NEW c \in Ctx, NEW pad, NEW salt, SetParams(c, pad, salt) PROVE Shapes'
  BY <1>5 DEF Shapes, SetParams
<1>6. ASSUME NEW c \in Ctx, NEW d \in Ctx, DupCtx(c, d) PROVE Shapes'
  BY <1>6 DEF Shapes, DupCtx, CopyFields
<1>7. ASSUME NEW c \in Ctx, NEW d \in Ctx, DupCtxFails(c, d) PROVE Shapes'
  BY <1>7 DEF Shapes, DupCtxFails, ctx_fields, core
<1>8. CASE UNCHANGED vars
  BY <1>8 DEF vars, ctx_fields, core, Shapes
<1> QED BY <1>1, <1>2, <1>3, <1>4, <1>5, <1>6, <1>7, <1>8, ShapesKeys DEF Next
-----------------------------------------------------------------------------
(* What a context was asked for is a record. *)
Requests ==
  \A c \in Ctx : asked[c] = [alg |-> asked[c].alg, key |-> asked[c].key, pad |-> asked[c].pad]

LEMMA RequestsInit == Init => Requests
BY DEF Init, Requests, NotAsked

LEMMA RequestsNext == ASSUME Requests, Shapes, [Next]_vars PROVE Requests'
<1>1. CASE UNCHANGED asked
  BY <1>1 DEF Requests
<1>2. ASSUME NEW k, NEW p, KeyFree(k) \/ KeyArrives(k, p) PROVE UNCHANGED asked
  BY <1>2 DEF KeyFree, KeyArrives
<1>3. ASSUME NEW c \in Ctx, NewCtx(c) \/ FinalSize(c) \/ Final(c) PROVE UNCHANGED asked
  BY <1>3 DEF NewCtx, FinalSize, Final, core
<1>4. ASSUME NEW c \in Ctx, FreeCtx(c) PROVE Requests'
  BY <1>4 DEF FreeCtx, Clear, Requests, NotAsked, Shapes
<1>5. ASSUME NEW c \in Ctx, NEW md, NEW k, SignInit(c, md, k) PROVE Requests'
  BY <1>5 DEF SignInit, Requests, Shapes
<1>6. ASSUME NEW c \in Ctx, NEW x, Update(c, x) PROVE UNCHANGED asked
  BY <1>6 DEF Update
<1>7. ASSUME NEW c \in Ctx, NEW pad, NEW salt, SetParams(c, pad, salt) PROVE Requests'
  <2>1. PICK r : asked' = [asked EXCEPT ![c].pad = r]
    BY <1>7 DEF SetParams
  <2>2. asked'[c] = [asked[c] EXCEPT !.pad = r] /\ \A d \in Ctx \ {c} : asked'[d] = asked[d]
    BY <2>1 DEF Shapes
  <2>3. asked'[c] = [alg |-> asked[c].alg, key |-> asked[c].key, pad |-> r]
    BY <2>2 DEF Requests
  <2> QED BY <2>2, <2>3 DEF Requests
<1>8. ASSUME NEW c \in Ctx, NEW d \in Ctx, DupCtx(c, d) PROVE Requests'
  BY <1>8 DEF DupCtx, CopyFields, Requests, Shapes
<1>9. ASSUME NEW c \in Ctx, NEW d \in Ctx, DupCtxFails(c, d) PROVE UNCHANGED asked
  BY <1>9 DEF DupCtxFails, core
<1>10. UNCHANGED vars => UNCHANGED asked
  BY DEF vars, core
<1> QED BY <1>1, <1>2, <1>3, <1>4, <1>5, <1>6, <1>7, <1>8, <1>9, <1>10 DEF Next
-----------------------------------------------------------------------------
(* The hash of a context in use holds what was fed to it, under the digest *)
(* it was initialised for, and only the context's own signing call uses it *)
(* up; a context that has no hash can destroy none.                        *)
OwnHash(c) ==
  /\ hash_handle[c] \in Hash /\ hash[hash_handle[c]].state # "closed"
  /\ OpenHash(c) => hash[hash_handle[c]] =
                      [state |-> "open", alg |-> alg_identifier[c], data |-> fed[c]]
  /\ alg_identifier[c] = asked[c].alg
  /\ c \notin consumed => OpenHash(c)

Hashes ==
  /\ \A c \in Ctx : stage[c] = "ready" => OwnHash(c)
  /\ \A c, d \in Ctx :
       stage[c] = "ready" /\ stage[d] = "ready" /\ c # d => hash_handle[c] # hash_handle[d]
  /\ \A c \in Ctx : stage[c] \in {"new", "failed"} => hash_handle[c] = NoHash

LEMMA HashesInit == Init => Hashes
BY DEF Init, Hashes

(* A step that changes no context and no hash. *)
LEMMA HashesIdle ==
  ASSUME Hashes, UNCHANGED <<stage, hash_handle, alg_identifier, hash, fed, asked, consumed>>
  PROVE  Hashes'
BY DEF Hashes, OwnHash, OpenHash

LEMMA HashesNewCtx ==
  ASSUME Hashes, Shapes, NEW c \in Ctx, NewCtx(c)
  PROVE  Hashes'
BY DEF Hashes, OwnHash, OpenHash, Shapes, NewCtx, core, Free

(* A step that gives context c the hash h, which was closed or c's own, and *)
(* lets every other context alone.                                          *)
LEMMA HashesOne ==
  ASSUME Hashes, NEW c \in Ctx, NEW h \in Hash,
         (h = hash_handle[c] /\ stage[c] = "ready") \/ hash[h].state = "closed",
         stage'[c] = "ready", hash_handle'[c] = h, OwnHash(c)',
         \A d \in Ctx \ {c} :
           /\ stage'[d] = stage[d] /\ hash_handle'[d] = hash_handle[d]
           /\ alg_identifier'[d] = alg_identifier[d] /\ fed'[d] = fed[d]
           /\ asked'[d].alg = asked[d].alg /\ (d \in consumed' <=> d \in consumed),
         \A i \in Hash \ {h} : hash'[i] = hash[i]
  PROVE  Hashes'
<1>1. ASSUME NEW d \in Ctx \ {c}, stage[d] = "ready" PROVE hash_handle[d] \in Hash \ {h}
  <2>1. OwnHash(d) /\ (stage[c] = "ready" => hash_handle[d] # hash_handle[c])
    BY <1>1 DEF Hashes
  <2> QED BY <2>1 DEF OwnHash
<1>2. ASSUME NEW d \in Ctx \ {c}, stage'[d] = "ready" PROVE OwnHash(d)'
  BY <1>1, <1>2 DEF Hashes, OwnHash, OpenHash
<1>3. ASSUME NEW d \in Ctx, NEW e \in Ctx, stage'[d] = "ready", stage'[e] = "ready", d # e
      PROVE  hash_handle'[d] # hash_handle'[e]
  BY <1>1, <1>3 DEF Hashes
<1>4. ASSUME NEW d \in Ctx, stage'[d] \in {"new", "failed"} PROVE hash_handle'[d] = NoHash
  BY <1>4 DEF Hashes
<1> QED BY <1>2, <1>3, <1>4 DEF Hashes

LEMMA HashesSignInit ==
  ASSUME Hashes, Shapes, NEW c \in Ctx, NEW md, NEW k, SignInit(c, md, k)
  PROVE  Hashes'
<1> USE DEF Shapes, SignInit, RecordDigest
<1>1. CASE stage' = [stage EXCEPT ![c] = "failed"]
  <2>1. stage[c] = "new" /\ stage'[c] = "failed"
    BY <1>1
  <2>2. UNCHANGED <<hash_handle, hash, consumed>>
    BY <2>1
  <2>3. \A d \in Ctx \ {c} :
          /\ stage'[d] = stage[d] /\ alg_identifier'[d] = alg_identifier[d]
          /\ fed'[d] = fed[d] /\ asked'[d] = asked[d]
    BY <1>1
  <2> HIDE DEF Shapes, SignInit
  <2> QED BY <2>1, <2>2, <2>3 DEF Hashes, OwnHash, OpenHash
<1>2. CASE stage' = [stage EXCEPT ![c] = "ready"]
  <2>1. PICK h \in ClosedHash :
          /\ hash_handle' = [hash_handle EXCEPT ![c] = h]
          /\ hash' = [hash EXCEPT ![h] = [state |-> "open", alg |-> md, data |-> <<>>]]
    BY <1>2
  <2>2. h \in Hash /\ hash[h].state = "closed"
    BY DEF ClosedHash, Closed
  <2>3. OwnHash(c)'
    BY <2>1, <2>2 DEF OwnHash, OpenHash
  <2> QED BY <1>2, <2>1, <2>2, <2>3, HashesOne
<1> QED BY <1>1, <1>2

(* Replacing the digested data of an open hash object leaves its state and
   its algorithm alone. *)
LEMMA OpenWith ==
  \A r, a, d, e :
    r = [state |-> "open", alg |-> a, data |-> d]
      => [r EXCEPT !.data = e] = [state |-> "open", alg |-> a, data |-> e]
OBVIOUS

LEMMA HashesUpdate ==
  ASSUME Hashes, Shapes, NEW c \in Ctx, NEW x, Update(c, x)
  PROVE  Hashes'
<1> DEFINE h == hash_handle[c]
<1>1. h \in Hash /\ hash[h] = [state |-> "open", alg |-> alg_identifier[c], data |-> fed[c]]
  BY DEF Update, Hashes, OwnHash, OpenHash
<1>2. hash' = [hash EXCEPT ![h] = [state |-> "open", alg |-> alg_identifier[c],
                                   data |-> Append(fed[c], x)]]
  <2>1. hash' = [hash EXCEPT ![h] = [hash[h] EXCEPT !.data = Append(hash[h].data, x)]]
    BY DEF Update
  <2> HIDE DEF h
  <2>2. [hash[h] EXCEPT !.data = Append(hash[h].data, x)] =
          [state |-> "open", alg |-> alg_identifier[c], data |-> Append(fed[c], x)]
    <3>1. hash[h].data = fed[c]
      BY <1>1
    <3>2. [hash[h] EXCEPT !.data = Append(fed[c], x)] =
            [state |-> "open", alg |-> alg_identifier[c], data |-> Append(fed[c], x)]
      <4> DEFINE r == hash[h]
                 a == alg_identifier[c]
                 e == Append(fed[c], x)
      <4>1. r = [state |-> "open", alg |-> a, data |-> fed[c]]
        BY <1>1
      <4> HIDE DEF r, a, e
      <4>2. [r EXCEPT !.data = e] = [state |-> "open", alg |-> a, data |-> e]
        BY <4>1, OpenWith
      <4> QED BY <4>2 DEF r, a, e
    <3> QED BY <3>1, <3>2, Zenon
  <2> QED BY <2>1, <2>2, Zenon
<1>3. fed' = [fed EXCEPT ![c] = Append(fed[c], x)]
  BY DEF Update
<1>4. stage[c] = "ready" /\ UNCHANGED <<stage, hash_handle, alg_identifier, asked, consumed>>
  BY DEF Update, ctx_fields
<1>5. OwnHash(c)'
  BY <1>1, <1>2, <1>3, <1>4 DEF OwnHash, OpenHash, Shapes, Hashes
<1> HIDE DEF h
<1>6. h = hash_handle[c]
  BY DEF h
<1> QED BY <1>1, <1>2, <1>3, <1>4, <1>5, <1>6, HashesOne DEF Shapes

LEMMA HashesSetParams ==
  ASSUME Hashes, Shapes, Requests, NEW c \in Ctx, NEW pad, NEW salt, SetParams(c, pad, salt)
  PROVE  Hashes'
<1>1. UNCHANGED <<stage, hash_handle, alg_identifier, hash, fed, consumed>>
  BY DEF SetParams
<1>2. PICK r : asked' = [asked EXCEPT ![c].pad = r]
  BY DEF SetParams
<1>3. asked'[c] = [asked[c] EXCEPT !.pad = r] /\ \A d \in Ctx \ {c} : asked'[d] = asked[d]
  BY <1>2 DEF Shapes
<1>4. \A d \in Ctx : asked'[d].alg = asked[d].alg
  <2>1. asked[c] = [alg |-> asked[c].alg, key |-> asked[c].key, pad |-> asked[c].pad]
    BY DEF Requests
  <2>2. [asked[c] EXCEPT !.pad = r].alg = asked[c].alg
    BY <2>1
  <2> QED BY <1>3, <2>2
<1> QED BY <1>1, <1>4 DEF Hashes, OwnHash, OpenHash

LEMMA HashesFinal ==
  ASSUME Hashes, Shapes, NEW c \in Ctx, Final(c)
  PROVE  Hashes'
<1> DEFINE h == hash_handle[c]
<1>1. h \in Hash /\ hash[h] = [state |-> "open", alg |-> alg_identifier[c], data |-> fed[c]]
  BY DEF Final, Hashes, OwnHash, OpenHash
<1>2. hash' = [hash EXCEPT ![h] = [state |-> "finished", alg |-> alg_identifier[c],
                                   data |-> fed[c]]]
  <2>1. hash' = [hash EXCEPT ![h] = [hash[h] EXCEPT !.state = "finished"]]
    BY DEF Final
  <2>2. [hash[h] EXCEPT !.state = "finished"] =
          [state |-> "finished", alg |-> alg_identifier[c], data |-> fed[c]]
    BY <1>1
  <2> QED BY <2>1, <2>2, Zenon
<1>3. /\ stage[c] = "ready" /\ consumed' = consumed \cup {c}
      /\ UNCHANGED <<stage, hash_handle, alg_identifier, fed, asked>>
  BY DEF Final, ctx_fields
<1>4. OwnHash(c)'
  BY <1>1, <1>2, <1>3 DEF OwnHash, OpenHash, Shapes, Hashes
<1> HIDE DEF h
<1>5. h = hash_handle[c]
  BY DEF h
<1> QED BY <1>1, <1>2, <1>3, <1>4, <1>5, HashesOne DEF Shapes

LEMMA HashesDupCtx ==
  ASSUME Hashes, Shapes, NEW c \in Ctx, NEW d \in Ctx, DupCtx(c, d)
  PROVE  Hashes'
<1>1. PICK h \in ClosedHash :
        /\ hash' = [hash EXCEPT ![h] = hash[hash_handle[c]]]
        /\ hash_handle' = [hash_handle EXCEPT ![d] = h]
  BY DEF DupCtx
<1>2. h \in Hash /\ hash[h].state = "closed"
  BY DEF ClosedHash, Closed
<1>3. /\ stage[c] = "ready" /\ d # c
      /\ stage' = [stage EXCEPT ![d] = "ready"]
      /\ alg_identifier' = [alg_identifier EXCEPT ![d] = alg_identifier[c]]
      /\ fed' = [fed EXCEPT ![d] = fed[c]]
      /\ asked' = [asked EXCEPT ![d] = asked[c]]
      /\ d \in consumed' <=> c \in consumed \/ d \in consumed
      /\ \A e \in Ctx \ {d} : e \in consumed' <=> e \in consumed
  BY DEF DupCtx, CopyFields, Free
<1>4. OwnHash(c)
  BY <1>3 DEF Hashes
<1>5. hash'[h] = hash[hash_handle[c]] /\ hash_handle'[d] = h
  BY <1>1, <1>2 DEF Shapes
<1>6. alg_identifier'[d] = alg_identifier[c] /\ fed'[d] = fed[c] /\ asked'[d] = asked[c]
  BY <1>3 DEF Shapes
<1>7. OwnHash(d)'
  BY <1>2, <1>3, <1>4, <1>5, <1>6 DEF OwnHash, OpenHash
<1> QED BY <1>1, <1>2, <1>3, <1>5, <1>7, HashesOne DEF Shapes

LEMMA HashesDupCtxFails ==
  ASSUME Hashes, Shapes, NEW c \in Ctx, NEW d \in Ctx, DupCtxFails(c, d)
  PROVE  Hashes'
<1>1. /\ stage' = [stage EXCEPT ![d] = "lost"]
      /\ UNCHANGED <<hash_handle, alg_identifier, fed, asked, consumed>>
  BY DEF DupCtxFails, ctx_fields, core
<1>2. \A i \in Hash : hash[i].state # "closed" => hash'[i] = hash[i]
  BY DEF DupCtxFails, ClosedHash, Closed, Shapes
<1> QED BY <1>1, <1>2 DEF Hashes, OwnHash, OpenHash, Shapes

LEMMA HashesFreeCtx ==
  ASSUME Hashes, Shapes, NEW c \in Ctx, FreeCtx(c)
  PROVE  Hashes'
<1>1. /\ stage' = [stage EXCEPT ![c] = "free"]
      /\ \A d \in Ctx \ {c} :
           /\ hash_handle'[d] = hash_handle[d] /\ alg_identifier'[d] = alg_identifier[d]
           /\ fed'[d] = fed[d] /\ asked'[d] = asked[d]
           /\ (d \in consumed' <=> d \in consumed)
  BY DEF FreeCtx, Clear, Shapes
<1>2. \A i \in Hash : i # hash_handle[c] => hash'[i] = hash[i]
  BY DEF FreeCtx, DestroyHash
<1>3. ASSUME NEW d \in Ctx \ {c}, stage[d] = "ready"
      PROVE  hash_handle[d] \in Hash /\ hash_handle[d] # hash_handle[c]
  <2>1. hash_handle[d] \in Hash
    BY <1>3 DEF Hashes, OwnHash
  <2>2. CASE stage[c] = "ready"
    BY <1>3, <2>1, <2>2 DEF Hashes
  <2>3. CASE stage[c] \in {"new", "failed"}
    BY <2>1, <2>3, SignatureAssumption DEF Hashes
  <2> QED BY <2>2, <2>3 DEF FreeCtx, Live
<1>4. ASSUME NEW d \in Ctx, stage'[d] = "ready" PROVE OwnHash(d)'
  <2>1. d \in Ctx \ {c} /\ stage[d] = "ready"
    BY <1>1, <1>4 DEF Shapes
  <2> QED BY <1>1, <1>2, <1>3, <2>1 DEF Hashes, OwnHash, OpenHash
<1>5. \A d \in Ctx : stage'[d] # "free" => d # c /\ stage'[d] = stage[d]
  BY <1>1 DEF Shapes
<1> QED BY <1>1, <1>4, <1>5 DEF Hashes

LEMMA HashesNext == ASSUME Hashes, Shapes, Requests, [Next]_vars PROVE Hashes'
<1>1. ASSUME NEW k, NEW p, KeyFree(k) \/ KeyArrives(k, p) PROVE Hashes'
  BY <1>1, HashesIdle DEF KeyFree, KeyArrives, ctx_fields
<1>2. ASSUME NEW c, FinalSize(c) PROVE Hashes'
  BY <1>2, HashesIdle DEF FinalSize, ctx_fields, core
<1>3. CASE UNCHANGED vars
  BY <1>3, HashesIdle DEF vars, ctx_fields, core
<1> QED
  BY <1>1, <1>2, <1>3, HashesNewCtx, HashesSignInit, HashesUpdate, HashesSetParams, HashesFinal,
     HashesDupCtx, HashesDupCtxFails, HashesFreeCtx
  DEF Next
-----------------------------------------------------------------------------
(* The key object of a context in use names the private key it was asked   *)
(* to sign with, and belongs to a duplicate for good or to the core, which *)
(* keeps it as long as the context is initialised for it.                  *)
OwnKey(c) ==
  /\ key[c] \in KeyObj
  /\ keydata[key[c]] = asked[c].key /\ asked[c].key # "free"
  /\ key[c] \in held => pkey[c] = key[c]

Keys ==
  /\ \A c \in Ctx : stage[c] = "ready" => OwnKey(c)
  /\ \A k \in held : k \in KeyObj /\ keydata[k] # "free"

LEMMA KeysInit == Init => Keys
BY DEF Init, Keys

LEMMA KeysArrive ==
  ASSUME Keys, Shapes, NEW k \in KeyObj, NEW p \in PrivKey, KeyArrives(k, p)
  PROVE  Keys'
<1>1. keydata[k] = "free" /\ keydata' = [keydata EXCEPT ![k] = p] /\ held' = held \cup {k}
  BY DEF KeyArrives, FreeKeyObj
<1>2. UNCHANGED <<stage, key, pkey, asked>>
  BY DEF KeyArrives, ctx_fields
<1>3. p # "free"
  BY SignatureAssumption
<1>4. ASSUME NEW c \in Ctx, stage'[c] = "ready" PROVE OwnKey(c)'
  BY <1>1, <1>2, <1>4 DEF Keys, OwnKey, Shapes
<1> QED BY <1>1, <1>3, <1>4 DEF Keys, Shapes

LEMMA KeysFree ==
  ASSUME Keys, Shapes, NEW k \in KeyObj, KeyFree(k)
  PROVE  Keys'
<1>1. k \in held /\ keydata' = [keydata EXCEPT ![k] = "free"] /\ held' = held \ {k}
  BY DEF KeyFree
<1>2. UNCHANGED <<stage, key, pkey, asked>>
  BY DEF KeyFree, ctx_fields
<1>3. ASSUME NEW c \in Ctx, stage'[c] = "ready" PROVE OwnKey(c)'
  <2>1. OwnKey(c) /\ pkey[c] # k
    BY <1>2, <1>3 DEF Keys, KeyFree, Live
  <2>2. key[c] # k
    BY <1>1, <2>1 DEF OwnKey
  <2> QED BY <1>1, <1>2, <2>1, <2>2 DEF OwnKey, Shapes
<1> QED BY <1>1, <1>3 DEF Keys, Shapes

(* A step after which the contexts in use have the keys they had. *)
LEMMA KeysKept ==
  ASSUME Keys, UNCHANGED <<keydata, held>>,
         \A c \in Ctx : stage'[c] = "ready" =>
           /\ stage[c] = "ready" /\ key'[c] = key[c] /\ pkey'[c] = pkey[c]
           /\ asked'[c].key = asked[c].key
  PROVE  Keys'
BY DEF Keys, OwnKey

LEMMA KeysSignInit ==
  ASSUME Keys, Shapes, NEW c \in Ctx, NEW md, NEW k, SignInit(c, md, k)
  PROVE  Keys'
<1>1. /\ k \in held /\ key' = [key EXCEPT ![c] = k] /\ pkey' = [pkey EXCEPT ![c] = k]
      /\ asked' = [asked EXCEPT ![c] = [alg |-> md, key |-> keydata[k], pad |-> "none"]]
      /\ UNCHANGED <<keydata, held>>
  BY DEF SignInit
<1>2. \A d \in Ctx \ {c} : stage'[d] = stage[d]
  BY DEF SignInit, Shapes
<1>3. OwnKey(c)'
  BY <1>1 DEF Keys, OwnKey, Shapes
<1>4. ASSUME NEW d \in Ctx \ {c}, stage'[d] = "ready" PROVE OwnKey(d)'
  BY <1>1, <1>2, <1>4 DEF Keys, OwnKey, Shapes
<1> QED BY <1>1, <1>3, <1>4 DEF Keys

LEMMA KeysSetParams ==
  ASSUME Keys, Shapes, Requests, NEW c \in Ctx, NEW pad, NEW salt, SetParams(c, pad, salt)
  PROVE  Keys'
<1>1. UNCHANGED <<stage, key, pkey, keydata, held>>
  BY DEF SetParams
<1>2. PICK r : asked' = [asked EXCEPT ![c].pad = r]
  BY DEF SetParams
<1>3. asked'[c] = [asked[c] EXCEPT !.pad = r] /\ \A d \in Ctx \ {c} : asked'[d] = asked[d]
  BY <1>2 DEF Shapes
<1>4. \A d \in Ctx : asked'[d].key = asked[d].key
  <2>1. asked[c] = [alg |-> asked[c].alg, key |-> asked[c].key, pad |-> asked[c].pad]
    BY DEF Requests
  <2>2. [asked[c] EXCEPT !.pad = r].key = asked[c].key
    BY <2>1
  <2> QED BY <1>3, <2>2
<1> QED BY <1>1, <1>4, KeysKept

LEMMA KeysDupCtx ==
  ASSUME Keys, Shapes, NEW c \in Ctx, NEW d \in Ctx, DupCtx(c, d)
  PROVE  Keys'
<1>1. PICK k \in FreeKeyObj :
        /\ keydata' = [keydata EXCEPT ![k] = keydata[key[c]]]
        /\ key' = [key EXCEPT ![d] = k]
  BY DEF DupCtx
<1>2. k \in KeyObj /\ keydata[k] = "free"
  BY DEF FreeKeyObj
<1>3. /\ stage[c] = "ready" /\ stage' = [stage EXCEPT ![d] = "ready"]
      /\ pkey' = [pkey EXCEPT ![d] = pkey[c]] /\ asked' = [asked EXCEPT ![d] = asked[c]]
      /\ held' = held
  BY DEF DupCtx, CopyFields
<1>4. OwnKey(c)
  BY <1>3 DEF Keys
<1>5. k \notin held
  BY <1>2 DEF Keys
<1>6. keydata'[k] = asked[c].key /\ key'[d] = k /\ asked'[d] = asked[c]
  BY <1>1, <1>2, <1>3, <1>4 DEF OwnKey, Shapes
<1>7. OwnKey(d)'
  BY <1>2, <1>3, <1>4, <1>5, <1>6 DEF OwnKey
<1>8. ASSUME NEW e \in Ctx \ {d}, stage'[e] = "ready" PROVE OwnKey(e)'
  <2>1. OwnKey(e)
    BY <1>3, <1>8 DEF Keys, Shapes
  <2>2. key[e] # k
    BY <1>2, <2>1 DEF OwnKey
  <2> QED BY <1>1, <1>3, <2>1, <2>2 DEF OwnKey, Shapes
<1>9. ASSUME NEW i \in held' PROVE i \in KeyObj /\ keydata'[i] # "free"
  BY <1>1, <1>3, <1>5, <1>9 DEF Keys, Shapes
<1> QED BY <1>7, <1>8, <1>9 DEF Keys

LEMMA KeysDupCtxFails ==
  ASSUME Keys, Shapes, NEW c \in Ctx, NEW d \in Ctx, DupCtxFails(c, d)
  PROVE  Keys'
<1>1. /\ stage' = [stage EXCEPT ![d] = "lost"]
      /\ UNCHANGED <<key, pkey, asked, held>>
  BY DEF DupCtxFails, ctx_fields, core
<1>2. \A k \in KeyObj : keydata[k] # "free" => keydata'[k] = keydata[k]
  BY DEF DupCtxFails, FreeKeyObj, Shapes
<1>3. ASSUME NEW e \in Ctx, stage'[e] = "ready" PROVE OwnKey(e)'
  <2>1. OwnKey(e)
    BY <1>1, <1>3 DEF Keys, Shapes
  <2> QED BY <1>1, <1>2, <2>1 DEF OwnKey
<1>4. ASSUME NEW i \in held' PROVE i \in KeyObj /\ keydata'[i] # "free"
  BY <1>1, <1>2, <1>4 DEF Keys
<1> QED BY <1>3, <1>4 DEF Keys

LEMMA KeysNext == ASSUME Keys, Shapes, Requests, [Next]_vars PROVE Keys'
<1>1. ASSUME NEW c \in Ctx, NewCtx(c) PROVE Keys'
  BY <1>1, KeysKept DEF NewCtx, core, Shapes
<1>2. ASSUME NEW c \in Ctx, FinalSize(c) \/ Final(c) PROVE Keys'
  BY <1>2, KeysKept DEF FinalSize, Final, ctx_fields, core
<1>3. ASSUME NEW c \in Ctx, FreeCtx(c) PROVE Keys'
  BY <1>3, KeysKept DEF FreeCtx, Clear, Shapes
<1>4. ASSUME NEW c \in Ctx, NEW x, Update(c, x) PROVE Keys'
  BY <1>4, KeysKept DEF Update, ctx_fields
<1>5. CASE UNCHANGED vars
  BY <1>5, KeysKept DEF vars, ctx_fields, core
<1> QED
  BY <1>1, <1>2, <1>3, <1>4, <1>5, KeysArrive, KeysFree, KeysSignInit, KeysSetParams, KeysDupCtx,
     KeysDupCtxFails
  DEF Next
-----------------------------------------------------------------------------
Faithful == Shapes /\ Requests /\ Hashes /\ Keys

LEMMA AlwaysFaithful == Spec => []Faithful
<1>1. Init => Faithful
  BY ShapesInit, RequestsInit, HashesInit, KeysInit DEF Faithful
<1>2. Faithful /\ [Next]_vars => Faithful'
  BY ShapesNext, RequestsNext, HashesNext, KeysNext DEF Faithful
<1> QED BY <1>1, <1>2, PTL DEF Spec

(* Whatever contexts are forked, signed with or freed, and whatever keys   *)
(* the core frees, a context in use hashes its own transcript under its    *)
(* own digest, and its key is the one it was initialised for.              *)
THEOREM TranscriptsStayFaithful == Spec => []TranscriptFaithful
<1>1. Faithful => TranscriptFaithful
  BY DEF Faithful, Hashes, OwnHash, Keys, OwnKey, TranscriptFaithful, Ready
<1> QED BY <1>1, AlwaysFaithful, PTL

(* Only a signing call on the context itself uses its transcript up.       *)
THEOREM OnlySigningUsesUp == Spec => []UnsignedStaysOpen
<1>1. Faithful => UnsignedStaysOpen
  BY DEF Faithful, Hashes, OwnHash, UnsignedStaysOpen, Ready
<1> QED BY <1>1, AlwaysFaithful, PTL

(* A signature that is written is over the data fed, under the digest and  *)
(* the private key asked for, with a padding that was set.                 *)
THEOREM SignaturesAreFaithful == Spec => SignsWhatWasFed
<1> DEFINE Right ==
      signature' # NoSignature =>
        LET c == signature'.ctx IN
        /\ signature'.data = fed[c]
        /\ signature'.alg = asked[c].alg /\ signature'.pad_alg = asked[c].alg
        /\ signature'.key = asked[c].key
        /\ signature'.pad # "none"
<1>1. ASSUME Faithful, NEW c \in Ctx, Final(c) PROVE Right
  <2>1. OwnHash(c) /\ OwnKey(c) /\ OpenHash(c)
    BY <1>1 DEF Faithful, Hashes, Keys, Final, OpenHash
  <2>2. CASE signature' = NoSignature
    BY <2>2
  <2>3. CASE sign_hash_flags[c] # "none" /\ signature' = SignatureOf(c)
    <3>1. /\ signature'.ctx = c /\ signature'.data = hash[hash_handle[c]].data
          /\ signature'.alg = hash[hash_handle[c]].alg
          /\ signature'.pad_alg = alg_identifier[c]
          /\ signature'.pad = sign_hash_flags[c] /\ signature'.key = keydata[key[c]]
      BY <2>3 DEF SignatureOf
    <3> QED BY <2>1, <2>3, <3>1 DEF OwnHash, OwnKey
  <2> QED BY <1>1, <2>2, <2>3 DEF Final
<1>2. ASSUME Next, \A c \in Ctx : ~Final(c) PROVE signature' = NoSignature
  <2>1. ASSUME NEW c, NewCtx(c) \/ FinalSize(c) \/ FreeCtx(c) PROVE signature' = NoSignature
    BY <2>1 DEF NewCtx, FinalSize, FreeCtx, Clear
  <2>2. ASSUME NEW c, NEW d, DupCtx(c, d) \/ DupCtxFails(c, d) PROVE signature' = NoSignature
    BY <2>2 DEF DupCtx, CopyFields, DupCtxFails
  <2>3. ASSUME NEW c, NEW x, NEW y, SignInit(c, x, y) \/ Update(c, x) \/ SetParams(c, x, y)
        PROVE  signature' = NoSignature
    BY <2>3 DEF SignInit, Update, SetParams
  <2>4. ASSUME NEW k, NEW p, KeyFree(k) \/ KeyArrives(k, p) PROVE signature' = NoSignature
    BY <2>4 DEF KeyFree, KeyArrives
  <2> QED BY <1>2, <2>1, <2>2, <2>3, <2>4 DEF Next
<1>3. Faithful /\ [Next]_vars => [Right]_vars
  BY <1>1, <1>2
<1> QED BY <1>3, AlwaysFaithful, PTL DEF Spec, SignsWhatWasFed
-----------------------------------------------------------------------------
(* A hash that is not closed was made for a context that is in use, or     *)
(* whose duplication failed: there are no more of them.                    *)
Made == Hash \ ClosedHash
Owners == {c \in Ctx : stage[c] \in {"ready", "lost"}}
Counted == Cardinality(Made) <= Cardinality(Owners)

LEMMA CountedInit == Init => Counted
<1> SUFFICES ASSUME Init PROVE Counted
  OBVIOUS
<1>1. Made = {} /\ Owners = {}
  BY DEF Init, Made, ClosedHash, Owners
<1> QED BY <1>1, FS_EmptySet DEF Counted

LEMMA CountsAreNumbers ==
  /\ IsFiniteSet(Made) /\ Cardinality(Made) \in Nat
  /\ IsFiniteSet(Owners) /\ Cardinality(Owners) \in Nat
BY SignatureAssumption, FS_Subset, FS_CardinalityType DEF Made, Owners

(* One hash more, and one context more. *)
LEMMA CountedMore ==
  ASSUME Counted, NEW c, c \notin Owners, Owners' = Owners \cup {c},
         NEW h, Made' \subseteq Made \cup {h}
  PROVE  Counted'
<1>1. Cardinality(Owners') = Cardinality(Owners) + 1
  BY CountsAreNumbers, FS_AddElement
<1>2. IsFiniteSet(Made \cup {h}) /\ Cardinality(Made \cup {h}) <= Cardinality(Made) + 1
  <2>1. /\ IsFiniteSet(Made \cup {h})
        /\ Cardinality(Made \cup {h}) =
             IF h \in Made THEN Cardinality(Made) ELSE Cardinality(Made) + 1
    BY CountsAreNumbers, FS_AddElement
  <2> QED BY <2>1, CountsAreNumbers
<1>3. Cardinality(Made') <= Cardinality(Made \cup {h})
  BY <1>2, FS_Subset
<1>4. Cardinality(Made') \in Nat /\ Cardinality(Made \cup {h}) \in Nat
  BY <1>2, FS_Subset, FS_CardinalityType
<1> QED BY <1>1, <1>2, <1>3, <1>4, CountsAreNumbers DEF Counted

LEMMA CountedFreeCtx ==
  ASSUME Counted, Hashes, Shapes, NEW c \in Ctx, FreeCtx(c)
  PROVE  Counted'
<1>1. c \in Live /\ stage' = [stage EXCEPT ![c] = "free"]
      /\ hash' = [h \in Hash |-> IF h = hash_handle[c] THEN Closed ELSE hash[h]]
  BY DEF FreeCtx, Clear, DestroyHash
<1>2. Made' = Made \ {hash_handle[c]} /\ Owners' = Owners \ {c}
  BY <1>1 DEF Made, ClosedHash, Owners, Shapes
<1>3. CASE stage[c] = "ready"
  <2>1. hash_handle[c] \in Made /\ c \in Owners
    <3>1. OwnHash(c)
      BY <1>3 DEF Hashes
    <3> QED BY <1>3, <3>1 DEF OwnHash, Made, ClosedHash, Closed, Owners
  <2>2. /\ Cardinality(Made') = Cardinality(Made) - 1
        /\ Cardinality(Owners') = Cardinality(Owners) - 1
    BY <1>2, <2>1, CountsAreNumbers, FS_RemoveElement
  <2> QED BY <2>2, CountsAreNumbers DEF Counted
<1>4. CASE stage[c] \in {"new", "failed"}
  <2>1. hash_handle[c] \notin Made /\ c \notin Owners
    BY <1>4, SignatureAssumption DEF Hashes, Made, Owners
  <2>2. Made' = Made /\ Owners' = Owners
    BY <1>2, <2>1
  <2> QED BY <2>2 DEF Counted
<1> QED BY <1>1, <1>3, <1>4 DEF Live

LEMMA CountedSignInit ==
  ASSUME Counted, Shapes, NEW c \in Ctx, NEW md, NEW k, SignInit(c, md, k)
  PROVE  Counted'
<1>1. stage[c] = "new" /\ c \notin Owners
  BY DEF SignInit, Owners
<1>2. CASE stage' = [stage EXCEPT ![c] = "failed"] /\ UNCHANGED hash
  <2>1. Made' = Made /\ Owners' = Owners
    BY <1>1, <1>2 DEF Made, ClosedHash, Owners, Shapes
  <2> QED BY <2>1 DEF Counted
<1>3. CASE /\ stage' = [stage EXCEPT ![c] = "ready"]
           /\ \E h \in ClosedHash : hash' = [hash EXCEPT ![h] =
                                            [state |-> "open", alg |-> md, data |-> <<>>]]
  <2>1. PICK h \in ClosedHash :
          hash' = [hash EXCEPT ![h] = [state |-> "open", alg |-> md, data |-> <<>>]]
    BY <1>3
  <2>2. Made' \subseteq Made \cup {h}
    BY <2>1 DEF Made, ClosedHash, Shapes
  <2>3. Owners' = Owners \cup {c}
    BY <1>3 DEF Owners, Shapes
  <2> QED BY <1>1, <2>2, <2>3, CountedMore
<1> QED BY <1>2, <1>3 DEF SignInit

LEMMA CountedDup ==
  ASSUME Counted, Shapes, NEW c \in Ctx, NEW d \in Ctx, DupCtx(c, d) \/ DupCtxFails(c, d)
  PROVE  Counted'
<1>1. d \notin Owners
  BY DEF DupCtx, DupCtxFails, Free, Owners
<1>2. stage' = [stage EXCEPT ![d] = "ready"] \/ stage' = [stage EXCEPT ![d] = "lost"]
  BY DEF DupCtx, DupCtxFails
<1>3. Owners' = Owners \cup {d}
  BY <1>2 DEF Owners, Shapes
<1>4. \/ UNCHANGED hash
      \/ \E h \in ClosedHash : hash' = [hash EXCEPT ![h] = hash[hash_handle[c]]]
  BY DEF DupCtx, DupCtxFails
<1>5. \E h : Made' \subseteq Made \cup {h}
  BY <1>4 DEF Made, ClosedHash, Shapes
<1> QED BY <1>1, <1>3, <1>5, CountedMore

LEMMA CountedElsewhere ==
  ASSUME Counted, Shapes, Hashes, NEW c \in Ctx,
         NewCtx(c) \/ FinalSize(c) \/ Final(c) \/ \E x : Update(c, x)
  PROVE  Counted'
<1>1. Owners' = Owners
  <2>1. UNCHANGED stage \/ (stage[c] = "free" /\ stage' = [stage EXCEPT ![c] = "new"])
    BY DEF NewCtx, FinalSize, Final, Update, Free
  <2> QED BY <2>1 DEF Owners, Shapes
<1>2. CASE UNCHANGED hash
  <2>1. Made' = Made
    BY <1>2 DEF Made, ClosedHash
  <2> QED BY <1>1, <2>1 DEF Counted
<1>3. CASE Final(c) \/ \E x : Update(c, x)
  <2>1. stage[c] = "ready"
    BY <1>3 DEF Final, Update
  <2>2. hash_handle[c] \in Made
    <3>1. OwnHash(c)
      BY <2>1 DEF Hashes
    <3> QED BY <3>1 DEF OwnHash, Made, ClosedHash, Closed
  <2>3. \A h \in Hash \ {hash_handle[c]} : hash'[h] = hash[h]
    BY <1>3 DEF Final, Update, Shapes
  <2>4. Made' \subseteq Made
    BY <2>2, <2>3 DEF Made, ClosedHash
  <2>5. Cardinality(Made') <= Cardinality(Made) /\ Cardinality(Made') \in Nat
    BY <2>4, CountsAreNumbers, FS_Subset, FS_CardinalityType
  <2> QED BY <1>1, <2>5, CountsAreNumbers DEF Counted
<1> QED BY <1>2, <1>3 DEF NewCtx, FinalSize

LEMMA CountedNext == ASSUME Counted, Shapes, Hashes, [Next]_vars PROVE Counted'
<1>1. ASSUME UNCHANGED <<stage, hash>> PROVE Counted'
  BY <1>1 DEF Counted, Made, ClosedHash, Owners
<1>2. ASSUME NEW k, NEW p, KeyFree(k) \/ KeyArrives(k, p) PROVE UNCHANGED <<stage, hash>>
  BY <1>2 DEF KeyFree, KeyArrives
<1>3. ASSUME NEW c, NEW pad, NEW salt, SetParams(c, pad, salt) PROVE UNCHANGED <<stage, hash>>
  BY <1>3 DEF SetParams
<1>4. UNCHANGED vars => UNCHANGED <<stage, hash>>
  BY DEF vars
<1> QED
  BY <1>1, <1>2, <1>3, <1>4, CountedFreeCtx, CountedSignInit, CountedDup, CountedElsewhere
  DEF Next

(* Contexts in use never share a hash, and no more hashes are left than    *)
(* contexts in use and duplications that failed.                           *)
THEOREM HashesStayExclusive == Spec => []HashesExclusive
<1>1. Faithful /\ Counted => HashesExclusive
  BY SignatureAssumption
     DEF Faithful, Hashes, OwnHash, Counted, Made, Owners, HashesExclusive, Ready
<1>2. Faithful /\ Counted /\ [Next]_vars => Counted'
  BY CountedNext DEF Faithful
<1> QED BY <1>1, <1>2, CountedInit, AlwaysFaithful, PTL DEF Spec
-----------------------------------------------------------------------------
(* What makes the types inductive: a hash that is open or finished was     *)
(* made for a digest, and a key that the core has is a private key.        *)
HashType ==
  [state : {"closed", "open", "finished"}, alg : Alg \cup {NoAlg}, data : Seq(Block)]
RequestType ==
  [alg : Alg \cup {NoAlg}, key : PrivKey \cup {"free"}, pad : {"none", "pss", "pkcs1"}]
SaltType == {NoSalt, "explicit"} \cup Alg

Contexts ==
  /\ stage \in [Ctx -> {"free", "new", "ready", "failed", "lost"}]
  /\ hash_handle \in [Ctx -> Hash \cup {NoHash}]
  /\ alg_identifier \in [Ctx -> Alg \cup {NoAlg}]
  /\ key \in [Ctx -> KeyObj \cup {NoKey}]
  /\ sign_hash_flags \in [Ctx -> {"none", "pss", "pkcs1"}]
  /\ pss_salt_len \in [Ctx -> SaltType]

Outside ==
  /\ hash \in [Hash -> HashType]
  /\ \A h \in Hash : hash[h].state = "closed" \/ hash[h].alg \in Alg
  /\ keydata \in [KeyObj -> PrivKey \cup {"free", "void"}]
  /\ held \subseteq KeyObj /\ \A k \in held : keydata[k] \in PrivKey

Caller ==
  /\ pkey \in [Ctx -> KeyObj \cup {NoKey}]
  /\ fed \in [Ctx -> Seq(Block)]
  /\ asked \in [Ctx -> RequestType]
  /\ consumed \subseteq Ctx

Typed == Contexts /\ Outside /\ Caller

LEMMA TypedInit == Init => Typed
<1> SUFFICES ASSUME Init PROVE Typed
  OBVIOUS
<1>1. Contexts
  BY DEF Init, Contexts, SaltType
<1>2. Outside
  BY DEF Init, Outside, Closed, HashType
<1>3. Caller
  BY DEF Init, Caller, NotAsked, RequestType
<1> QED BY <1>1, <1>2, <1>3 DEF Typed

LEMMA ContextsKept == ASSUME Contexts, UNCHANGED <<stage, ctx_fields>> PROVE Contexts'
BY DEF Contexts, ctx_fields

LEMMA OutsideKept == ASSUME Outside, UNCHANGED <<hash, keydata, held>> PROVE Outside'
BY DEF Outside

LEMMA CallerKept == ASSUME Caller, UNCHANGED <<pkey, fed, asked, consumed>> PROVE Caller'
BY DEF Caller

LEMMA TypedFrees == ASSUME Typed, NEW k \in KeyObj, KeyFree(k) PROVE Typed'
<1>1. Contexts' /\ Caller'
  BY ContextsKept, CallerKept DEF Typed, KeyFree
<1>2. Outside'
  BY DEF Typed, Outside, KeyFree
<1> QED BY <1>1, <1>2 DEF Typed

LEMMA TypedArrives ==
  ASSUME Typed, NEW k \in KeyObj, NEW p \in PrivKey, KeyArrives(k, p) PROVE Typed'
<1>1. Contexts' /\ Caller'
  BY ContextsKept, CallerKept DEF Typed, KeyArrives
<1>2. Outside'
  BY DEF Typed, Outside, KeyArrives
<1> QED BY <1>1, <1>2 DEF Typed

LEMMA TypedNewCtx == ASSUME Typed, NEW c \in Ctx, NewCtx(c) PROVE Typed'
<1>1. Contexts'
  BY DEF Typed, Contexts, NewCtx, SaltType
<1>2. Outside' /\ Caller'
  BY OutsideKept, CallerKept DEF Typed, NewCtx, core
<1> QED BY <1>1, <1>2 DEF Typed

(* A hash changes to one of its type, with a digest. *)
LEMMA OutsideHash ==
  ASSUME Outside, NEW h \in Hash, NEW v \in HashType, v.state = "closed" \/ v.alg \in Alg,
         hash' = [hash EXCEPT ![h] = v]
  PROVE  /\ hash' \in [Hash -> HashType]
         /\ \A g \in Hash : hash'[g].state = "closed" \/ hash'[g].alg \in Alg
BY DEF Outside

LEMMA TypedSignInit ==
  ASSUME Typed, NEW c \in Ctx, NEW md \in Alg \cup {NoAlg}, NEW k \in KeyObj, SignInit(c, md, k)
  PROVE  Typed'
<1>1. /\ sign_hash_flags' = sign_hash_flags /\ pss_salt_len' = pss_salt_len
      /\ keydata' = keydata /\ held' = held /\ consumed' = consumed
      /\ key' = [key EXCEPT ![c] = k] /\ alg_identifier' = [alg_identifier EXCEPT ![c] = md]
      /\ pkey' = [pkey EXCEPT ![c] = k] /\ fed' = [fed EXCEPT ![c] = <<>>]
  BY DEF SignInit, RecordDigest
<1>2. Caller'
  <2>1. [alg |-> md, key |-> keydata[k], pad |-> "none"] \in RequestType
    BY DEF Typed, Outside, SignInit, RequestType
  <2>2. asked' \in [Ctx -> RequestType]
    BY <2>1 DEF Typed, Caller, SignInit
  <2>3. fed' \in [Ctx -> Seq(Block)]
    BY <1>1 DEF Typed, Caller
  <2> QED BY <1>1, <2>2, <2>3 DEF Typed, Caller
<1>3. /\ key' \in [Ctx -> KeyObj \cup {NoKey}]
      /\ alg_identifier' \in [Ctx -> Alg \cup {NoAlg}]
  BY <1>1 DEF Typed, Contexts
<1>4. ASSUME KnownDigest(md), NEW h \in ClosedHash,
             hash_handle' = [hash_handle EXCEPT ![c] = h],
             hash' = [hash EXCEPT ![h] = [state |-> "open", alg |-> md, data |-> <<>>]],
             stage' = [stage EXCEPT ![c] = "ready"]
      PROVE  Typed'
  <2>1. h \in Hash /\ md \in Alg
    BY <1>4 DEF ClosedHash, KnownDigest
  <2>2. Contexts'
    BY <1>1, <1>3, <1>4, <2>1 DEF Typed, Contexts
  <2>3. [state |-> "open", alg |-> md, data |-> <<>>] \in HashType
    BY <2>1 DEF HashType
  <2>4. Outside'
    BY <1>1, <1>4, <2>1, <2>3, OutsideHash DEF Typed, Outside
  <2> QED BY <1>2, <2>2, <2>4 DEF Typed
<1>5. CASE stage' = [stage EXCEPT ![c] = "failed"] /\ UNCHANGED <<hash_handle, hash>>
  <2>1. Contexts'
    BY <1>1, <1>3, <1>5 DEF Typed, Contexts
  <2> QED BY <1>1, <1>2, <1>5, <2>1, OutsideKept DEF Typed
<1> QED BY <1>4, <1>5 DEF SignInit

LEMMA TypedUpdate ==
  ASSUME Typed, Hashes, NEW c \in Ctx, NEW b \in Block, Update(c, b)
  PROVE  Typed'
<1> DEFINE h == hash_handle[c]
<1>1. h \in Hash /\ hash[h].state = "open" /\ hash[h] \in HashType
  BY DEF Update, Hashes, OwnHash, Typed, Outside
<1>2. hash[h].alg \in Alg /\ hash[h].data \in Seq(Block)
  BY <1>1 DEF Typed, Outside, HashType
<1>3. Append(hash[h].data, b) \in Seq(Block)
  BY <1>2
<1>4. hash' = [hash EXCEPT ![h] = [state |-> "open", alg |-> hash[h].alg,
                                   data |-> Append(hash[h].data, b)]]
  <2>1. hash[h] = [state |-> "open", alg |-> hash[h].alg, data |-> hash[h].data]
    BY <1>1 DEF HashType
  <2>2. [hash[h] EXCEPT !.data = Append(@, b)] =
          [state |-> "open", alg |-> hash[h].alg, data |-> Append(hash[h].data, b)]
    BY <2>1
  <2>3. hash' = [hash EXCEPT ![h] = [hash[h] EXCEPT !.data = Append(@, b)]]
    BY DEF Update
  <2> QED BY <2>2, <2>3
<1>5. [state |-> "open", alg |-> hash[h].alg, data |-> Append(hash[h].data, b)] \in HashType
  BY <1>2, <1>3 DEF HashType
<1>6. Outside'
  <2>1. UNCHANGED <<keydata, held>>
    BY DEF Update
  <2> QED BY <1>1, <1>2, <1>4, <1>5, <2>1, OutsideHash DEF Typed, Outside
<1>7. Caller'
  <2>1. fed' = [fed EXCEPT ![c] = Append(fed[c], b)] /\ fed[c] \in Seq(Block)
    BY DEF Update, Typed, Caller
  <2>2. Append(fed[c], b) \in Seq(Block)
    BY <2>1
  <2>3. fed' \in [Ctx -> Seq(Block)]
    BY <2>1, <2>2 DEF Typed, Caller
  <2> QED BY <2>3 DEF Typed, Caller, Update
<1>8. Contexts'
  BY ContextsKept DEF Update, Typed
<1> QED BY <1>6, <1>7, <1>8 DEF Typed

LEMMA TypedSetParams ==
  ASSUME Typed, Hashes, NEW c \in Ctx, NEW pad \in Pad, NEW salt \in Salt, SetParams(c, pad, salt)
  PROVE  Typed'
<1>1. stage[c] = "ready" /\ pad \in PadParam
  BY SignatureAssumption DEF SetParams
<1>2. hash[hash_handle[c]].alg \in Alg
  BY <1>1 DEF Hashes, OwnHash, Typed, Outside
<1>3. FlagsAfter(c, pad) \in {"none", "pss", "pkcs1"} /\ PadNamed[pad] \in {"none", "pss", "pkcs1"}
  BY <1>1 DEF FlagsAfter, PadNamed, Typed, Contexts
<1>4. pss_salt_len[c] \in SaltType /\ SaltAfter(c, salt) \in SaltType
  BY <1>2 DEF SaltAfter, SaltType, Typed, Contexts
<1>5. Contexts'
  BY <1>3, <1>4 DEF SetParams, Typed, Contexts
<1>6. Outside'
  BY OutsideKept DEF SetParams, Typed
<1>7. Caller'
  <2>1. PICK r \in {"none", "pss", "pkcs1"} :
          asked' = [asked EXCEPT ![c] = [asked[c] EXCEPT !.pad = r]]
    <3>1. asked[c].pad \in {"none", "pss", "pkcs1"}
      BY DEF Typed, Caller, RequestType
    <3> QED BY <1>3, <3>1 DEF SetParams
  <2>2. [asked[c] EXCEPT !.pad = r] \in RequestType
    BY DEF Typed, Caller, RequestType
  <2>3. asked' \in [Ctx -> RequestType]
    BY <2>1, <2>2 DEF Typed, Caller
  <2> QED BY <2>3 DEF SetParams, Typed, Caller
<1> QED BY <1>5, <1>6, <1>7 DEF Typed

LEMMA TypedFinal ==
  ASSUME Typed, Hashes, NEW c \in Ctx, FinalSize(c) \/ Final(c)
  PROVE  Typed'
<1>1. Contexts'
  BY ContextsKept DEF FinalSize, Final, Typed
<1>2. Caller'
  BY DEF FinalSize, Final, Typed, Caller, core
<1>3. CASE FinalSize(c)
  BY <1>1, <1>2, <1>3, OutsideKept DEF FinalSize, Typed, core
<1>4. CASE Final(c)
  <2> DEFINE h == hash_handle[c]
  <2>1. h \in Hash /\ hash[h] \in HashType /\ hash[h].state # "closed"
    BY <1>4 DEF Final, Hashes, OwnHash, Typed, Outside
  <2>2. hash[h].alg \in Alg /\ hash[h].data \in Seq(Block)
    BY <2>1 DEF Typed, Outside, HashType
  <2>3. [hash[h] EXCEPT !.state = "finished"] =
          [state |-> "finished", alg |-> hash[h].alg, data |-> hash[h].data]
    <3>1. hash[h] = [state |-> hash[h].state, alg |-> hash[h].alg, data |-> hash[h].data]
      BY <2>1 DEF HashType
    <3> QED BY <3>1
  <2>4. [state |-> "finished", alg |-> hash[h].alg, data |-> hash[h].data] \in HashType
    BY <2>2 DEF HashType
  <2>5. hash' = [hash EXCEPT ![h] = [hash[h] EXCEPT !.state = "finished"]]
    BY <1>4 DEF Final
  <2>6. UNCHANGED <<keydata, held>>
    BY <1>4 DEF Final
  <2>7. Outside'
    BY <2>1, <2>2, <2>3, <2>4, <2>5, <2>6, OutsideHash DEF Typed, Outside
  <2> QED BY <1>1, <1>2, <2>7 DEF Typed
<1> QED BY <1>3, <1>4

LEMMA TypedDupCtx ==
  ASSUME Typed, Hashes, Keys, NEW c \in Ctx, NEW d \in Ctx, DupCtx(c, d)
  PROVE  Typed'
<1>1. PICK h \in ClosedHash : hash' = [hash EXCEPT ![h] = hash[hash_handle[c]]]
                              /\ hash_handle' = [hash_handle EXCEPT ![d] = h]
  BY DEF DupCtx
<1>2. PICK k \in FreeKeyObj : keydata' = [keydata EXCEPT ![k] = keydata[key[c]]]
                              /\ key' = [key EXCEPT ![d] = k]
  BY DEF DupCtx
<1>3. /\ h \in Hash /\ k \in KeyObj /\ keydata[k] = "free"
      /\ hash_handle[c] \in Hash /\ key[c] \in KeyObj
      /\ hash[hash_handle[c]].state # "closed"
  BY DEF ClosedHash, FreeKeyObj, DupCtx, Hashes, OwnHash, Keys, OwnKey
<1>4. /\ stage' = [stage EXCEPT ![d] = "ready"]
      /\ alg_identifier' = [alg_identifier EXCEPT ![d] = alg_identifier[c]]
      /\ sign_hash_flags' = [sign_hash_flags EXCEPT ![d] = sign_hash_flags[c]]
      /\ pss_salt_len' = [pss_salt_len EXCEPT ![d] = pss_salt_len[c]]
      /\ pkey' = [pkey EXCEPT ![d] = pkey[c]] /\ fed' = [fed EXCEPT ![d] = fed[c]]
      /\ asked' = [asked EXCEPT ![d] = asked[c]]
      /\ consumed' \in {consumed, consumed \cup {d}} /\ held' = held
  BY DEF DupCtx, CopyFields
<1>5. Contexts'
  BY <1>1, <1>2, <1>3, <1>4 DEF Typed, Contexts
<1>6. Caller'
  BY <1>4 DEF Typed, Caller
<1>7. Outside'
  <2>1. hash[hash_handle[c]] \in HashType /\ hash[hash_handle[c]].alg \in Alg
    BY <1>3 DEF Typed, Outside
  <2>2. /\ hash' \in [Hash -> HashType]
        /\ \A g \in Hash : hash'[g].state = "closed" \/ hash'[g].alg \in Alg
    BY <1>1, <1>3, <2>1, OutsideHash DEF Typed
  <2>3. keydata' \in [KeyObj -> PrivKey \cup {"free", "void"}]
    BY <1>2, <1>3 DEF Typed, Outside
  <2>4. k \notin held
    BY <1>3, SignatureAssumption DEF Typed, Outside
  <2>5. held' \subseteq KeyObj /\ \A j \in held' : keydata'[j] \in PrivKey
    BY <1>2, <1>4, <2>4 DEF Typed, Outside
  <2> QED BY <2>2, <2>3, <2>5 DEF Outside
<1> QED BY <1>5, <1>6, <1>7 DEF Typed

LEMMA TypedDupCtxFails ==
  ASSUME Typed, Hashes, NEW c \in Ctx, NEW d \in Ctx, DupCtxFails(c, d)
  PROVE  Typed'
<1>1. UNCHANGED <<ctx_fields, core>> /\ stage' = [stage EXCEPT ![d] = "lost"]
  BY DEF DupCtxFails
<1>2. Contexts' /\ Caller'
  BY <1>1 DEF Typed, Contexts, Caller, ctx_fields, core
<1>3. CASE UNCHANGED <<hash, keydata>>
  BY <1>1, <1>2, <1>3, OutsideKept DEF Typed, core
<1>4. ASSUME NEW h \in ClosedHash, NEW k \in FreeKeyObj,
             hash' = [hash EXCEPT ![h] = hash[hash_handle[c]]],
             keydata' = [keydata EXCEPT ![k] = "void"]
      PROVE  Typed'
  <2>1. /\ h \in Hash /\ k \in KeyObj /\ keydata[k] = "free" /\ held' = held
        /\ hash_handle[c] \in Hash /\ hash[hash_handle[c]].state # "closed"
    BY <1>1 DEF ClosedHash, FreeKeyObj, DupCtxFails, Hashes, OwnHash, core
  <2>2. hash[hash_handle[c]] \in HashType /\ hash[hash_handle[c]].alg \in Alg
    BY <2>1 DEF Typed, Outside
  <2>3. /\ hash' \in [Hash -> HashType]
        /\ \A g \in Hash : hash'[g].state = "closed" \/ hash'[g].alg \in Alg
    BY <1>4, <2>1, <2>2, OutsideHash DEF Typed
  <2>4. keydata' \in [KeyObj -> PrivKey \cup {"free", "void"}]
    BY <1>4, <2>1 DEF Typed, Outside
  <2>5. k \notin held
    BY <2>1, SignatureAssumption DEF Typed, Outside
  <2>6. held' \subseteq KeyObj /\ \A j \in held' : keydata'[j] \in PrivKey
    BY <1>4, <2>1, <2>5 DEF Typed, Outside
  <2> QED BY <1>2, <2>3, <2>4, <2>6 DEF Outside, Typed
<1> QED BY <1>3, <1>4 DEF DupCtxFails

LEMMA TypedFreeCtx == ASSUME Typed, NEW c \in Ctx, FreeCtx(c) PROVE Typed'
<1>1. Contexts'
  BY DEF Typed, Contexts, FreeCtx, Clear, SaltType
<1>2. Caller'
  <2>1. asked' \in [Ctx -> RequestType]
    BY DEF Typed, Caller, FreeCtx, Clear, NotAsked, RequestType
  <2>2. fed' \in [Ctx -> Seq(Block)]
    BY DEF Typed, Caller, FreeCtx, Clear
  <2> QED BY <2>1, <2>2 DEF Typed, Caller, FreeCtx, Clear
<1>3. Outside'
  <2>1. Closed \in HashType /\ Closed.state = "closed"
    BY DEF Closed, HashType
  <2>2. /\ hash' \in [Hash -> HashType]
        /\ \A g \in Hash : hash'[g].state = "closed" \/ hash'[g].alg \in Alg
    BY <2>1 DEF Typed, Outside, FreeCtx, DestroyHash
  <2> QED BY <2>2 DEF Typed, Outside, FreeCtx, Clear
<1> QED BY <1>1, <1>2, <1>3 DEF Typed

LEMMA TypedNext == ASSUME Typed, Faithful, [Next]_vars PROVE Typed'
<1>1. Hashes /\ Keys
  BY DEF Faithful
<1>2. CASE UNCHANGED vars
  BY <1>2, ContextsKept, OutsideKept, CallerKept DEF vars, core, Typed
<1>3. ASSUME NEW k \in KeyObj, KeyFree(k) \/ \E p \in PrivKey : KeyArrives(k, p) PROVE Typed'
  BY <1>3, TypedFrees, TypedArrives
<1>4. ASSUME NEW c \in Ctx, NewCtx(c) \/ FinalSize(c) \/ Final(c) \/ FreeCtx(c) PROVE Typed'
  BY <1>1, <1>4, TypedNewCtx, TypedFinal, TypedFreeCtx
<1>5. ASSUME NEW c \in Ctx, \E md \in Alg \cup {NoAlg}, k \in KeyObj : SignInit(c, md, k)
      PROVE  Typed'
  BY <1>5, TypedSignInit
<1>6. ASSUME NEW c \in Ctx, \E b \in Block : Update(c, b) PROVE Typed'
  BY <1>1, <1>6, TypedUpdate
<1>7. ASSUME NEW c \in Ctx, \E pad \in Pad, salt \in Salt : SetParams(c, pad, salt) PROVE Typed'
  BY <1>1, <1>7, TypedSetParams
<1>8. ASSUME NEW c \in Ctx, NEW d \in Ctx, DupCtx(c, d) \/ DupCtxFails(c, d) PROVE Typed'
  BY <1>1, <1>8, TypedDupCtx, TypedDupCtxFails
<1> QED BY <1>2, <1>3, <1>4, <1>5, <1>6, <1>7, <1>8 DEF Next

(* The variables have their types, whatever is created, duplicated, fed,   *)
(* set, signed and freed: a context that is used has a hash made for a     *)
(* digest, so that the salt of its padding is never that of no digest.     *)
THEOREM SignatureTypes == Spec => []TypeOK
<1>1. Typed => TypeOK
  BY DEF Typed, Contexts, Outside, Caller, TypeOK, HashType, RequestType, SaltType
<1>2. Typed /\ Faithful /\ [Next]_vars => Typed'
  BY TypedNext
<1> QED BY <1>1, <1>2, TypedInit, AlwaysFaithful, PTL DEF Spec
=============================================================================
