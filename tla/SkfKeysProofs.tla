---------------------------- MODULE SkfKeysProofs ----------------------------
(***************************************************************************)
(* Proofs about SkfKeys, for any number of key pairs: any sequence of      *)
(* tests, failures and restarts on one token.                              *)
(***************************************************************************)
EXTENDS SkfKeys, TLAPS

(* The places a test comes through. *)
Ends == {"passed", "failed"}
Route(t) ==
  CASE t = "KeyPairTest" ->
         {"pin", "open", "create", "generate sign", "generate enc", "export sign",
          "export enc", "digest", "sign", "verify", "certificates"} \cup Ends
    [] t = "SM2KeyPairTest" ->
         {"pin", "create", "generate sign", "digest", "sign", "verify"} \cup Ends
    [] t = "RasKeyPairTest" ->
         {"pin", "open", "create", "generate sign", "digest", "sign", "verify"} \cup Ends
    [] t = "ImportSM2KeyPair_Test" ->
         {"open", "export sign", "wrap", "encrypt", "import"} \cup Ends
    [] t = "ImportSessionKey_Test" ->
         {"open", "export enc", "wrap", "import"} \cup Ends

Types ==
  /\ token \in [Container -> [made : BOOLEAN, sign : Pair \cup {None}, enc : Pair \cup {None}]]
  /\ pairs \in 0..MaxPairs /\ verified \in BOOLEAN /\ opened \subseteq Container
  /\ con \in opened \cup {None}
  /\ {pub, digest, signed, wrapped} \subseteq Pair \cup {None}
  /\ heap \subseteq Blob /\ cut \subseteq Container /\ stray \in BOOLEAN

(* A test is at one of its places, with its own container; only            *)
(* RasKeyPairTest can be at the generation of its pair without one, or     *)
(* with that of another.                                                   *)
Places ==
  /\ call = None => at = None
  /\ call # None => call \in Test /\ at \in Route(call)
  /\ at \in Using =>
       \/ con = Own(call)
       \/ call = "RasKeyPairTest" /\ con = None /\ at = "generate sign"
       \/ call = "RasKeyPairTest" /\ con = "SM2" /\ stray

(* A container is filled from its making on, first with a signing pair;    *)
(* one that is not yet is being filled, or was cut.                        *)
Filling ==
  /\ \A c \in opened : token[c].made
  /\ \A c \in Container : ~token[c].made => token[c].sign = None
  /\ \A c \in Container : token[c].sign = None => token[c].enc = None
  /\ at = "generate sign" /\ con = "SM2" => stray \/ token["SM2"].sign = None
  /\ \A c \in Container : token[c].made /\ token[c].sign = None =>
       c \in cut \/ (con = c /\ at = "generate sign")

(* The pair that the session key of an import has to be wrapped for. *)
Wanted == IF call = "ImportSM2KeyPair_Test" THEN token[con].sign ELSE token[con].enc

(* What the test has in its variables belongs to its container. *)
Holding ==
  /\ (at \in {"generate enc", "digest", "sign"}
       \/ (call = "KeyPairTest" /\ at = "export enc"))
     => pub # None /\ pub = token[con].sign
  /\ at = "sign" /\ call # "RasKeyPairTest" => digest = pub
  /\ at = "verify" => pub = signed /\ (call # "RasKeyPairTest" => digest = signed)
  /\ at = "wrap" => pub # None /\ pub = Wanted
  /\ at \in {"encrypt", "import"} => wrapped # None /\ wrapped = Wanted
  /\ call = "ImportSessionKey_Test" /\ at \in {"open", "failed"} => heap = {}
  /\ call = "ImportSessionKey_Test" /\ at = "export enc" => heap \subseteq {"public key"}

KeysInv == Types /\ Places /\ Filling /\ Holding

LEMMA NoneApart ==
  /\ None \notin Container /\ None \notin Test /\ None \notin Place /\ None \notin Pair
  /\ None \notin Using
<1>1. None \notin 1..MaxPairs
  BY SkfKeysAssumption
<1> QED BY <1>1, SkfKeysAssumption DEF Pair, Place

LEMMA InitKeys == Init => KeysInv
<1> SUFFICES ASSUME Init PROVE KeysInv
  OBVIOUS
<1>1. Types
  <2>1. Empty \in [made : BOOLEAN, sign : Pair \cup {None}, enc : Pair \cup {None}]
    BY DEF Empty
  <2>2. pairs \in 0..MaxPairs
    BY SkfKeysAssumption DEF Init
  <2> QED BY <2>1, <2>2 DEF Init, Types
<1>2. Places
  BY NoneApart DEF Init, Places
<1>3. Filling
  <2>1. at # "generate sign"
    BY NoneApart DEF Init, Using
  <2>2. opened = {}
    BY DEF Init
  <2>3. \A c \in Container : token[c] = Empty
    BY DEF Init
  <2>4. Empty.made = FALSE /\ Empty.sign = None /\ Empty.enc = None
    BY DEF Empty
  <2> QED BY <2>1, <2>2, <2>3, <2>4 DEF Filling
<1>4. Holding
  BY NoneApart DEF Init, Holding, Using, Place
<1> QED BY <1>1, <1>2, <1>3, <1>4 DEF KeysInv

(* A test that fails takes nothing with it but the note that its container *)
(* is half made.                                                           *)
LEMMA FailsKeys ==
  ASSUME KeysInv, NEW from, from \in Place, Fails(from), call # None,
         heap' \subseteq heap,
         call = "ImportSessionKey_Test" => from = "open" \/ heap' = {}
  PROVE  KeysInv'
<1>1. /\ at = from /\ at' = "failed" /\ cut' = cut \cup Cut
      /\ UNCHANGED <<token, pairs, verified, opened, call, con, pub, digest, signed, wrapped, stray>>
  BY DEF Fails
<1>2. Cut \subseteq Container
  BY DEF Cut
<1>3. Types'
  BY <1>1, <1>2 DEF KeysInv, Types
<1>4. Places'
  BY <1>1 DEF KeysInv, Places, Route, Ends, Using, Test
<1>5. Filling'
  <2>1. \A c \in Container : token[c].made /\ token[c].sign = None => c \in cut'
    BY <1>1 DEF KeysInv, Filling, Cut
  <2> QED BY <1>1, <2>1 DEF KeysInv, Types, Filling
<1>6. Holding'
  BY <1>1 DEF KeysInv, Holding, Places, Route, Ends, Test
<1> QED BY <1>3, <1>4, <1>5, <1>6 DEF KeysInv

(* A step of a test that makes nothing on the token. *)
LEMMA QuietKeys ==
  ASSUME KeysInv, NEW from, NEW to, To(from, to), call # None, from # "generate sign",
         to \in Using => (from \in Using \/ con' = Own(call)),
         to \in Route(call), to # "generate sign",
         UNCHANGED <<token, pairs, verified, cut, stray>>,
         opened' \subseteq Container,
         con' \in opened' \cup {None}, \A c \in opened' : token[c].made,
         from \in Using => con' = con,
         {pub', digest', signed', wrapped'} \subseteq Pair \cup {None}, heap' \subseteq Blob,
         Holding'
  PROVE  KeysInv'
<1>1. at = from /\ at' = to /\ call' = call
  BY DEF To
<1>2. Types'
  BY DEF KeysInv, Types
<1>3. Places'
  BY <1>1 DEF KeysInv, Places, Own
<1>4. Filling'
  BY <1>1 DEF KeysInv, Types, Filling
<1> QED BY <1>2, <1>3, <1>4 DEF KeysInv

(* Between two tests nothing is under way. *)
LEMMA IdleKeys ==
  ASSUME KeysInv, NoLocals, at # "generate sign" \/ cut' = cut \cup Cut,
         cut \subseteq cut', cut' \subseteq Container,
         opened' \subseteq opened, verified' \in BOOLEAN,
         UNCHANGED <<token, pairs, stray>>,
         \/ call' = None /\ at' = None
         \/ /\ call' \in Test
            /\ at' = IF call' \in {"ImportSM2KeyPair_Test", "ImportSessionKey_Test"}
                     THEN "open" ELSE "pin"
  PROVE  KeysInv'
<1>1. Types'
  BY DEF NoLocals, KeysInv, Types
<1>2. at' \notin Using /\ at' # "failed"
  BY NoneApart DEF Using, Place
<1>3. Places'
  <2>1. call' = None => at' = None
    BY NoneApart
  <2>2. call' # None => call' \in Test /\ at' \in Route(call')
    BY DEF Test, Route
  <2> QED BY <1>2, <2>1, <2>2 DEF Places
<1>4. Filling'
  <2>1. \A c \in Container : token[c].made /\ token[c].sign = None => c \in cut'
    BY DEF KeysInv, Filling, Cut
  <2> QED BY <1>2, <2>1 DEF KeysInv, Filling, Using
<1>5. Holding'
  BY <1>2 DEF Holding, NoLocals, Using
<1> QED BY <1>1, <1>3, <1>4, <1>5 DEF KeysInv

LEMMA BeginKeys == ASSUME KeysInv, NEW t \in Test, Begin(t) PROVE KeysInv'
<1>1. at # "generate sign"
  BY NoneApart DEF Begin, KeysInv, Places, Using
<1>2. cut \subseteq Container /\ verified \in BOOLEAN
  BY DEF KeysInv, Types
<1> QED BY <1>1, <1>2, IdleKeys DEF Begin

LEMMA ReturnKeys == ASSUME KeysInv, Return PROVE KeysInv'
<1>1. cut \subseteq Container /\ verified \in BOOLEAN
  BY DEF KeysInv, Types
<1> QED BY <1>1, IdleKeys DEF Return

LEMMA RestartKeys == ASSUME KeysInv, Restart PROVE KeysInv'
<1>1. cut \subseteq Container /\ Cut \subseteq Container
  BY DEF KeysInv, Types, Cut
<1> QED BY <1>1, IdleKeys DEF Restart

LEMMA VerifyPINKeys == ASSUME KeysInv, call # None, VerifyPIN PROVE KeysInv'
<1>1. CASE Fails("pin") /\ UNCHANGED heap
  <2>1. call # "ImportSessionKey_Test"
    BY <1>1 DEF Fails, KeysInv, Places, Route, Ends
  <2> QED BY <1>1, <2>1, FailsKeys DEF Place
<1>2. CASE /\ To("pin", IF call = "SM2KeyPairTest" THEN "create" ELSE "open")
           /\ verified' = TRUE
           /\ UNCHANGED <<token, pairs, opened, local, cut, stray>>
  <2>1. at = "pin" /\ call' = call /\ at' = IF call = "SM2KeyPairTest" THEN "create" ELSE "open"
    BY <1>2 DEF To
  <2>2. call \in {"KeyPairTest", "SM2KeyPairTest", "RasKeyPairTest"}
    BY <2>1 DEF KeysInv, Places, Route, Test, Ends
  <2>3. Types'
    BY <1>2 DEF local, KeysInv, Types
  <2>4. Places'
    BY <2>1, <2>2 DEF KeysInv, Places, Route, Using, Test
  <2>5. Filling'
    BY <1>2, <2>1 DEF local, KeysInv, Filling
  <2>6. Holding'
    BY <2>1, <2>2 DEF Holding
  <2> QED BY <2>3, <2>4, <2>5, <2>6 DEF KeysInv
<1> QED BY <1>1, <1>2 DEF VerifyPIN

LEMMA OpenContainerKeys == ASSUME KeysInv, call # None, OpenContainer PROVE KeysInv'
<1>1. CASE call # "RasKeyPairTest" /\ Fails("open") /\ UNCHANGED heap
  BY <1>1, FailsKeys DEF Place
<1>2. CASE /\ To("open", "create")
           /\ call \in {"KeyPairTest", "RasKeyPairTest"}
           /\ UNCHANGED <<token, pairs, verified, opened, local, cut, stray>>
  <2>1. Holding'
    BY <1>2 DEF To, Holding
  <2>2. "create" \in Route(call) /\ "create" \notin Using /\ "open" \notin Using
    BY <1>2 DEF Route, Using
  <2>3. /\ opened' \subseteq Container /\ con' \in opened' \cup {None}
        /\ \A c \in opened' : token[c].made
        /\ {pub', digest', signed', wrapped'} \subseteq Pair \cup {None} /\ heap' \subseteq Blob
    BY <1>2 DEF local, KeysInv, Types, Filling
  <2> QED BY <1>2, <2>1, <2>2, <2>3, QuietKeys
<1>3. CASE /\ To("open", AfterOpen)
           /\ token[Own(call)].made
           /\ con' = Own(call) /\ opened' = opened \cup {con'}
           /\ heap' = IF call = "ImportSessionKey_Test" THEN {"public key"} ELSE heap
           /\ UNCHANGED <<token, pairs, verified, pub, digest, signed, wrapped, cut, stray>>
  <2>1. at = "open" /\ call' = call /\ at' = AfterOpen
    BY <1>3 DEF To
  <2>2. call \in {"KeyPairTest", "RasKeyPairTest", "ImportSM2KeyPair_Test", "ImportSessionKey_Test"}
    BY <2>1 DEF KeysInv, Places, Route, Test, Ends
  <2>3. Types'
    BY <1>3 DEF KeysInv, Types, Own, Container, Blob
  <2>4. Places'
    BY <1>3, <2>1, <2>2 DEF KeysInv, Places, Route, Using, AfterOpen, Own
  <2>5. Filling'
    BY <1>3, <2>1, <2>2 DEF KeysInv, Filling, AfterOpen, Own
  <2>6. Holding'
    BY <1>3, <2>1, <2>2 DEF KeysInv, Holding, AfterOpen
  <2> QED BY <2>3, <2>4, <2>5, <2>6 DEF KeysInv
<1>4. CASE /\ To("open", AfterOpen)
           /\ call = "RasKeyPairTest"
           /\ con' \in opened \cup {None}
           /\ stray' = (stray \/ con' = "SM2")
           /\ UNCHANGED <<token, pairs, verified, opened, pub, digest, signed, wrapped, heap, cut>>
  <2>1. at = "open" /\ call' = call /\ at' = "generate sign"
    BY <1>4 DEF To, AfterOpen
  <2>2. con' = "SM2" => stray'
    BY <1>4
  <2>3. Types'
    BY <1>4 DEF KeysInv, Types
  <2>4. con' \in {"SM2", "RSA", None}
    BY <1>4 DEF KeysInv, Types, Container
  <2>5. Places'
    BY <1>4, <2>1, <2>2, <2>4, NoneApart DEF Places, Route, Own, Test
  <2>6. Filling'
    BY <1>4, <2>1, <2>2 DEF KeysInv, Filling
  <2>7. Holding'
    BY <1>4, <2>1 DEF Holding
  <2> QED BY <2>3, <2>5, <2>6, <2>7 DEF KeysInv
<1> QED BY <1>1, <1>2, <1>3, <1>4 DEF OpenContainer

LEMMA CreateContainerKeys == ASSUME KeysInv, call # None, CreateContainer PROVE KeysInv'
<1>1. CASE Fails("create") /\ UNCHANGED heap
  <2>1. call # "ImportSessionKey_Test"
    BY <1>1 DEF Fails, KeysInv, Places, Route, Ends
  <2> QED BY <1>1, <2>1, FailsKeys DEF Place
<1>2. CASE /\ To("create", "generate sign")
           /\ verified /\ ~token[Own(call)].made
           /\ con' = Own(call) /\ opened' = opened \cup {con'}
           /\ token' = [token EXCEPT ![con'].made = TRUE]
           /\ UNCHANGED <<pairs, verified, pub, digest, signed, wrapped, heap, cut, stray>>
  <2>1. at = "create" /\ call' = call /\ at' = "generate sign"
    BY <1>2 DEF To
  <2>2. call \in {"KeyPairTest", "SM2KeyPairTest", "RasKeyPairTest"}
    BY <2>1 DEF KeysInv, Places, Route, Test, Ends
  <2>3. con' \in Container /\ ~token[con'].made
    BY <1>2 DEF Own, Container
  <2>4. /\ token' \in [Container -> [made : BOOLEAN, sign : Pair \cup {None}, enc : Pair \cup {None}]]
        /\ token'[con'].made /\ \A c \in Container \ {con'} : token'[c] = token[c]
        /\ token'[con'].sign = token[con'].sign /\ token'[con'].enc = token[con'].enc
    BY <1>2, <2>3 DEF KeysInv, Types
  <2>5. Types'
    BY <1>2, <2>3, <2>4 DEF KeysInv, Types
  <2>6. Places'
    BY <1>2, <2>1, <2>2 DEF KeysInv, Places, Route
  <2>7. Filling'
    <3>1. opened \subseteq Container
      BY DEF KeysInv, Types
    <3>2. \A c \in opened' : token'[c].made
      BY <1>2, <2>4, <3>1 DEF KeysInv, Filling
    <3>3. \A c \in Container : token'[c].sign = token[c].sign /\ token'[c].enc = token[c].enc
      BY <2>4
    <3>4. token'[con'].sign = None
      BY <2>3, <3>3 DEF KeysInv, Filling
    <3>5. \A c \in Container : ~token'[c].made => c # con' /\ ~token[c].made
      BY <2>4
    <3>6. \A c \in Container : token'[c].made => c = con' \/ token[c].made
      BY <2>4
    <3>7. \A c \in Container : ~token'[c].made => token'[c].sign = None
      BY <3>3, <3>5 DEF KeysInv, Filling
    <3>8. \A c \in Container : token'[c].sign = None => token'[c].enc = None
      BY <3>3 DEF KeysInv, Filling
    <3>9. \A c \in Container : token'[c].made /\ token'[c].sign = None => c \in cut \/ c = con'
      BY <2>1, <3>3, <3>6 DEF KeysInv, Filling
    <3>10. con' = "SM2" => token'["SM2"].sign = None
      BY <3>4
    <3> QED BY <1>2, <2>1, <3>2, <3>7, <3>8, <3>9, <3>10 DEF Filling
  <2>8. Holding'
    BY <2>1, <2>2 DEF Holding
  <2> QED BY <2>5, <2>6, <2>7, <2>8 DEF KeysInv
<1> QED BY <1>1, <1>2 DEF CreateContainer

(* A pair that was never there before goes into one of the two places of a *)
(* container, and nothing else changes on the token.                       *)
LEMMA NextPair ==
  ASSUME KeysInv, pairs < MaxPairs, pairs' = pairs + 1
  PROVE  pairs' \in 0..MaxPairs /\ pairs' \in Pair /\ pairs' # None
<1>1. pairs \in 0..MaxPairs /\ MaxPairs \in Nat
  BY SkfKeysAssumption DEF KeysInv, Types
<1>2. pairs' \in 0..MaxPairs /\ pairs' \in 1..MaxPairs
  BY <1>1
<1> QED BY <1>2, NoneApart DEF Pair

LEMMA GenerateSignKeys == ASSUME KeysInv, call # None, GenerateSign PROVE KeysInv'
<1>1. CASE Fails("generate sign") /\ UNCHANGED heap
  <2>1. call # "ImportSessionKey_Test"
    BY <1>1 DEF Fails, KeysInv, Places, Route, Ends
  <2>2. "generate sign" \in Place
    BY DEF Place, Using
  <2> QED BY <1>1, <2>1, <2>2, FailsKeys
<1>2. CASE /\ To("generate sign", IF call = "KeyPairTest" THEN "generate enc" ELSE "digest")
           /\ verified /\ con # None /\ pairs < MaxPairs
           /\ pairs' = pairs + 1 /\ pub' = pairs'
           /\ token' = [token EXCEPT ![con].sign = pairs']
           /\ UNCHANGED <<verified, opened, con, digest, signed, wrapped, heap, cut, stray>>
  <2>1. /\ at = "generate sign" /\ call' = call
        /\ at' = IF call = "KeyPairTest" THEN "generate enc" ELSE "digest"
    BY <1>2 DEF To
  <2>2. call \in {"KeyPairTest", "SM2KeyPairTest", "RasKeyPairTest"}
    BY <2>1 DEF KeysInv, Places, Route, Test, Ends
  <2>3. con \in Container /\ con \in opened
    BY <1>2 DEF KeysInv, Types
  <2>4. pairs' \in 0..MaxPairs /\ pairs' \in Pair /\ pairs' # None
    BY <1>2, NextPair
  <2>5. /\ token' \in [Container -> [made : BOOLEAN, sign : Pair \cup {None}, enc : Pair \cup {None}]]
        /\ \A c \in Container : token'[c].made = token[c].made /\ token'[c].enc = token[c].enc
        /\ \A c \in Container \ {con} : token'[c] = token[c]
        /\ token'[con].sign = pairs'
    BY <1>2, <2>3, <2>4 DEF KeysInv, Types
  <2>6. Types'
    <3>1. pub' \in Pair /\ {digest', signed', wrapped'} \subseteq Pair \cup {None}
      BY <1>2, <2>4 DEF KeysInv, Types
    <3>2. {pub', digest', signed', wrapped'} \subseteq Pair \cup {None}
      BY <3>1
    <3> QED BY <1>2, <2>4, <2>5, <3>2 DEF KeysInv, Types
  <2>7. Places'
    <3>1. at' \in Route(call')
      BY <2>1, <2>2 DEF Route
    <3>2. con = Own(call) \/ (call = "RasKeyPairTest" /\ con = "SM2" /\ stray)
      BY <1>2, <2>1 DEF KeysInv, Places, Using
    <3>3. call' \in Test /\ call' # None
      BY <2>1, <2>2 DEF Test
    <3>4. UNCHANGED <<con, stray, call>>
      BY <1>2, <2>1
    <3> QED BY <3>1, <3>2, <3>3, <3>4 DEF Places, Own
  <2>8. Filling'
    <3>1. token[con].made
      BY <2>3 DEF KeysInv, Filling
    <3>2. \A c \in Container : token'[c].sign # None => c = con \/ token[c].sign # None
      BY <2>5
    <3>3. \A c \in Container : token'[c].sign = None => c # con /\ token[c].sign = None
      BY <2>4, <2>5
    <3>4. opened \subseteq Container
      BY DEF KeysInv, Types
    <3>5. \A c \in opened : token'[c].made
      BY <2>5, <3>4 DEF KeysInv, Filling
    <3>6. ASSUME NEW c \in Container, ~token'[c].made PROVE token'[c].sign = None
      <4>1. c # con /\ ~token[c].made
        BY <2>5, <3>1, <3>6
      <4> QED BY <2>5, <4>1 DEF KeysInv, Filling
    <3>7. \A c \in Container : token'[c].sign = None => token'[c].enc = None
      BY <2>5, <3>3 DEF KeysInv, Filling
    <3>8. ASSUME NEW c \in Container, token'[c].made, token'[c].sign = None PROVE c \in cut
      <4>1. c # con /\ token[c].sign = None /\ token[c].made
        BY <2>5, <3>3, <3>8
      <4> QED BY <4>1 DEF KeysInv, Filling
    <3>9. at' # "generate sign"
      BY <2>1
    <3> QED BY <1>2, <3>5, <3>6, <3>7, <3>8, <3>9 DEF Filling
  <2>9. Holding'
    BY <1>2, <2>1, <2>2, <2>4, <2>5 DEF Holding
  <2> QED BY <2>6, <2>7, <2>8, <2>9 DEF KeysInv
<1> QED BY <1>1, <1>2 DEF GenerateSign

(* A change of the encryption pair of a container with a signing pair.     *)
LEMMA EncKeys ==
  ASSUME KeysInv, NEW e \in Pair, con \in Container, token[con].sign # None,
         token' = [token EXCEPT ![con].enc = e],
         at # "generate sign", at' # "generate sign",
         UNCHANGED <<opened, con, cut, stray>>
  PROVE  /\ token' \in [Container -> [made : BOOLEAN, sign : Pair \cup {None}, enc : Pair \cup {None}]]
         /\ Filling'
         /\ \A c \in Container : token'[c].sign = token[c].sign
<1>1. /\ token' \in [Container -> [made : BOOLEAN, sign : Pair \cup {None}, enc : Pair \cup {None}]]
      /\ \A c \in Container : token'[c].made = token[c].made /\ token'[c].sign = token[c].sign
      /\ \A c \in Container \ {con} : token'[c] = token[c]
  BY DEF KeysInv, Types
<1>2. opened \subseteq Container
  BY DEF KeysInv, Types
<1>3. Filling'
  <2>1. \A c \in opened : token'[c].made
    BY <1>1, <1>2 DEF KeysInv, Filling
  <2>2. \A c \in Container : ~token'[c].made => token'[c].sign = None
    BY <1>1 DEF KeysInv, Filling
  <2>3. \A c \in Container : token'[c].sign = None => token'[c].enc = None
    BY <1>1 DEF KeysInv, Filling
  <2>4. \A c \in Container : token'[c].made /\ token'[c].sign = None => c \in cut
    BY <1>1 DEF KeysInv, Filling
  <2> QED BY <2>1, <2>2, <2>3, <2>4 DEF Filling
<1> QED BY <1>1, <1>3

LEMMA GenerateEncKeys == ASSUME KeysInv, call # None, GenerateEnc PROVE KeysInv'
<1>1. CASE Fails("generate enc") /\ UNCHANGED heap
  <2>1. call # "ImportSessionKey_Test"
    BY <1>1 DEF Fails, KeysInv, Places, Route, Ends
  <2>2. "generate enc" \in Place
    BY DEF Place, Using
  <2> QED BY <1>1, <2>1, <2>2, FailsKeys
<1>2. CASE /\ To("generate enc", "digest") /\ pairs < MaxPairs
           /\ pairs' = pairs + 1
           /\ token' = [token EXCEPT ![con].enc = pairs']
           /\ UNCHANGED <<verified, opened, local, cut, stray>>
  <2>1. at = "generate enc" /\ call' = call /\ at' = "digest"
    BY <1>2 DEF To
  <2>2. call = "KeyPairTest" /\ con = "SM2"
    BY <2>1 DEF KeysInv, Places, Route, Test, Ends, Using, Own
  <2>3. pub # None /\ pub = token[con].sign /\ con \in Container
    BY <2>1, <2>2 DEF KeysInv, Holding, Container
  <2>4. pairs' \in 0..MaxPairs /\ pairs' \in Pair
    BY <1>2, NextPair
  <2>5. UNCHANGED <<opened, con, cut, stray, pub, digest, signed, wrapped, heap, verified>>
    BY <1>2 DEF local
  <2>6. /\ token' \in [Container -> [made : BOOLEAN, sign : Pair \cup {None}, enc : Pair \cup {None}]]
        /\ Filling'
        /\ \A c \in Container : token'[c].sign = token[c].sign
    BY <1>2, <2>1, <2>3, <2>4, <2>5, EncKeys
  <2>7. Types'
    BY <2>4, <2>5, <2>6 DEF KeysInv, Types
  <2>8. Places'
    BY <2>1, <2>2, <2>5 DEF KeysInv, Places, Route, Using, Own
  <2>9. Holding'
    BY <2>1, <2>2, <2>3, <2>5, <2>6 DEF Holding
  <2> QED BY <2>6, <2>7, <2>8, <2>9 DEF KeysInv
<1> QED BY <1>1, <1>2 DEF GenerateEnc

LEMMA ImportKeyPairKeys == ASSUME KeysInv, call # None, ImportKeyPair PROVE KeysInv'
<1>1. call = "ImportSM2KeyPair_Test"
  BY DEF ImportKeyPair
<1>2. CASE Fails("import") /\ UNCHANGED heap
  <2>1. "import" \in Place
    BY DEF Place, Using
  <2> QED BY <1>1, <1>2, <2>1, FailsKeys
<1>3. CASE /\ To("import", "passed") /\ verified /\ wrapped = token[con].sign
           /\ token' = [token EXCEPT ![con].enc = Imported]
           /\ heap' = {}
           /\ UNCHANGED <<pairs, verified, opened, con, pub, digest, signed, wrapped, cut, stray>>
  <2>1. at = "import" /\ call' = call /\ at' = "passed"
    BY <1>3 DEF To
  <2>2. con \in Container
    BY <1>1, <2>1 DEF KeysInv, Places, Using, Own, Container
  <2>3. token[con].sign # None /\ Imported \in Pair
    BY <1>3, <2>1 DEF KeysInv, Holding, Pair
  <2>4. /\ token' \in [Container -> [made : BOOLEAN, sign : Pair \cup {None}, enc : Pair \cup {None}]]
        /\ Filling'
    BY <1>3, <2>1, <2>2, <2>3, EncKeys
  <2>5. Types'
    BY <1>3, <2>4 DEF KeysInv, Types
  <2>6. Places'
    BY <1>1, <2>1 DEF KeysInv, Places, Route, Ends, Using, Test
  <2>7. Holding'
    BY <1>1, <2>1 DEF Holding
  <2> QED BY <2>4, <2>5, <2>6, <2>7 DEF KeysInv
<1> QED BY <1>2, <1>3 DEF ImportKeyPair

LEMMA ExportSignKeys == ASSUME KeysInv, call # None, ExportSign PROVE KeysInv'
<1>1. CASE Fails("export sign") /\ UNCHANGED heap
  <2>1. call # "ImportSessionKey_Test"
    BY <1>1 DEF Fails, KeysInv, Places, Route, Ends
  <2>2. "export sign" \in Place
    BY DEF Place, Using
  <2> QED BY <1>1, <2>1, <2>2, FailsKeys
<1>2. CASE /\ To("export sign", IF call = "KeyPairTest" THEN "export enc" ELSE "wrap")
           /\ token[con].sign # None
           /\ pub' = token[con].sign
           /\ heap' = IF call = "KeyPairTest" THEN heap ELSE heap \cup {"cipher"}
           /\ UNCHANGED <<token, pairs, verified, opened, con, digest, signed, wrapped, cut, stray>>
  <2>1. /\ at = "export sign" /\ call' = call
        /\ at' = IF call = "KeyPairTest" THEN "export enc" ELSE "wrap"
    BY <1>2 DEF To
  <2>2. call \in {"KeyPairTest", "ImportSM2KeyPair_Test"} /\ con = "SM2"
    BY <2>1 DEF KeysInv, Places, Route, Test, Ends, Using, Own
  <2>3. pub' \in Pair \cup {None}
    BY <1>2, <2>2 DEF KeysInv, Types, Container
  <2>4. {pub', digest', signed', wrapped'} \subseteq Pair \cup {None} /\ heap' \subseteq Blob
    <3>1. {digest, signed, wrapped} \subseteq Pair \cup {None} /\ heap' \subseteq Blob
      BY <1>2 DEF KeysInv, Types, Blob
    <3> QED BY <1>2, <2>3, <3>1
  <2>5. Holding'
    BY <1>2, <2>1, <2>2 DEF Holding, Wanted
  <2>6. at' \in Route(call) /\ at' # "generate sign" /\ "export sign" \in Using
    BY <2>1, <2>2 DEF Route, Using
  <2>7. opened' \subseteq Container /\ con' \in opened' \cup {None} /\ \A c \in opened' : token[c].made
    BY <1>2 DEF KeysInv, Types, Filling
  <2> QED BY <1>2, <2>1, <2>4, <2>5, <2>6, <2>7, QuietKeys
<1> QED BY <1>1, <1>2 DEF ExportSign

LEMMA ExportEncKeys == ASSUME KeysInv, call # None, ExportEnc PROVE KeysInv'
<1>1. CASE Fails("export enc") /\ heap' = heap \ {"public key"}
  <2>1. "export enc" \in Place
    BY DEF Place, Using
  <2>2. heap' \subseteq heap /\ (call = "ImportSessionKey_Test" => heap' = {})
    BY <1>1 DEF KeysInv, Holding, Fails
  <2> QED BY <1>1, <2>1, <2>2, FailsKeys
<1>2. CASE /\ To("export enc", IF call = "KeyPairTest" THEN "digest" ELSE "wrap")
           /\ token[con].enc # None
           /\ IF call = "KeyPairTest" THEN UNCHANGED <<pub, heap>>
              ELSE pub' = token[con].enc /\ heap' = heap \cup {"cipher"}
           /\ UNCHANGED <<token, pairs, verified, opened, con, digest, signed, wrapped, cut, stray>>
  <2>1. /\ at = "export enc" /\ call' = call
        /\ at' = IF call = "KeyPairTest" THEN "digest" ELSE "wrap"
    BY <1>2 DEF To
  <2>2. call \in {"KeyPairTest", "ImportSessionKey_Test"} /\ con = "SM2"
    BY <2>1 DEF KeysInv, Places, Route, Test, Ends, Using, Own
  <2>3. pub' \in Pair \cup {None}
    BY <1>2, <2>2 DEF KeysInv, Types, Container
  <2>4. {pub', digest', signed', wrapped'} \subseteq Pair \cup {None} /\ heap' \subseteq Blob
    BY <1>2, <2>3 DEF KeysInv, Types, Blob
  <2>5. Holding'
    BY <1>2, <2>1, <2>2 DEF KeysInv, Holding, Wanted
  <2>6. at' \in Route(call) /\ at' # "generate sign" /\ "export enc" \in Using
    BY <2>1, <2>2 DEF Route, Using
  <2>7. opened' \subseteq Container /\ con' \in opened' \cup {None} /\ \A c \in opened' : token[c].made
    BY <1>2 DEF KeysInv, Types, Filling
  <2> QED BY <1>2, <2>1, <2>4, <2>5, <2>6, <2>7, QuietKeys
<1> QED BY <1>1, <1>2 DEF ExportEnc

LEMMA DigestKeys == ASSUME KeysInv, call # None, Digest PROVE KeysInv'
<1>0. "digest" \in Place /\ "digest" \in Using
  BY DEF Place, Using
<1>1. CASE Fails("digest") /\ UNCHANGED heap
  <2>1. call # "ImportSessionKey_Test"
    BY <1>1 DEF Fails, KeysInv, Places, Route, Ends
  <2> QED BY <1>0, <1>1, <2>1, FailsKeys
<1>2. CASE /\ To("digest", "sign")
           /\ digest' = IF call = "RasKeyPairTest" THEN None ELSE pub
           /\ UNCHANGED <<token, pairs, verified, opened, con, pub, signed, wrapped, heap, cut, stray>>
  <2>1. at = "digest" /\ call' = call /\ at' = "sign"
    BY <1>2 DEF To
  <2>2. call \in {"KeyPairTest", "SM2KeyPairTest", "RasKeyPairTest"}
    BY <2>1 DEF KeysInv, Places, Route, Test, Ends
  <2>3. {pub', digest', signed', wrapped'} \subseteq Pair \cup {None} /\ heap' \subseteq Blob
    BY <1>2 DEF KeysInv, Types
  <2>4. Holding'
    BY <1>2, <2>1, <2>2 DEF KeysInv, Holding
  <2>5. "sign" \in Route(call)
    BY <2>2 DEF Route
  <2>6. opened' \subseteq Container /\ con' \in opened' \cup {None} /\ \A c \in opened' : token[c].made
    BY <1>2 DEF KeysInv, Types, Filling
  <2> QED BY <1>0, <1>2, <2>3, <2>4, <2>5, <2>6, QuietKeys
<1> QED BY <1>1, <1>2 DEF Digest

LEMMA SignKeys == ASSUME KeysInv, call # None, Sign PROVE KeysInv'
<1>0. "sign" \in Place /\ "sign" \in Using
  BY DEF Place, Using
<1>1. CASE Fails("sign") /\ UNCHANGED heap
  <2>1. call # "ImportSessionKey_Test"
    BY <1>1 DEF Fails, KeysInv, Places, Route, Ends
  <2> QED BY <1>0, <1>1, <2>1, FailsKeys
<1>2. CASE /\ To("sign", "verify") /\ verified
           /\ signed' = token[con].sign
           /\ UNCHANGED <<token, pairs, verified, opened, con, pub, digest, wrapped, heap, cut, stray>>
  <2>1. at = "sign" /\ call' = call /\ at' = "verify"
    BY <1>2 DEF To
  <2>2. call \in {"KeyPairTest", "SM2KeyPairTest", "RasKeyPairTest"}
    BY <2>1 DEF KeysInv, Places, Route, Test, Ends
  <2>3. signed' = pub
    BY <1>2, <2>1 DEF KeysInv, Holding
  <2>4. {pub', digest', signed', wrapped'} \subseteq Pair \cup {None} /\ heap' \subseteq Blob
    BY <1>2, <2>3 DEF KeysInv, Types
  <2>5. Holding'
    BY <1>2, <2>1, <2>2, <2>3 DEF KeysInv, Holding
  <2>6. "verify" \in Route(call)
    BY <2>2 DEF Route
  <2>7. opened' \subseteq Container /\ con' \in opened' \cup {None} /\ \A c \in opened' : token[c].made
    BY <1>2 DEF KeysInv, Types, Filling
  <2> QED BY <1>0, <1>2, <2>4, <2>5, <2>6, <2>7, QuietKeys
<1> QED BY <1>1, <1>2 DEF Sign

LEMMA VerifyKeys == ASSUME KeysInv, call # None, Verify PROVE KeysInv'
<1>0. "verify" \in Place /\ "verify" \in Using
  BY DEF Place, Using
<1>1. CASE Fails("verify") /\ UNCHANGED heap
  <2>1. call # "ImportSessionKey_Test"
    BY <1>1 DEF Fails, KeysInv, Places, Route, Ends
  <2> QED BY <1>0, <1>1, <2>1, FailsKeys
<1>2. CASE /\ To("verify", IF call = "KeyPairTest" THEN "certificates" ELSE "passed")
           /\ UNCHANGED <<token, pairs, verified, opened, local, cut, stray>>
  <2>1. /\ at = "verify" /\ call' = call
        /\ at' = IF call = "KeyPairTest" THEN "certificates" ELSE "passed"
    BY <1>2 DEF To
  <2>2. call \in {"KeyPairTest", "SM2KeyPairTest", "RasKeyPairTest"}
    BY <2>1 DEF KeysInv, Places, Route, Test, Ends
  <2>3. UNCHANGED <<con, heap, pub, digest, signed, wrapped>>
    BY <1>2 DEF local
  <2>4. {pub', digest', signed', wrapped'} \subseteq Pair \cup {None} /\ heap' \subseteq Blob
    BY <2>3 DEF KeysInv, Types
  <2>5. Holding'
    BY <2>1, <2>2 DEF Holding
  <2>6. at' \in Route(call) /\ at' # "generate sign"
    BY <2>1, <2>2 DEF Route, Ends
  <2>7. opened' \subseteq Container /\ con' \in opened' \cup {None} /\ \A c \in opened' : token[c].made
    BY <1>2, <2>3 DEF KeysInv, Types, Filling
  <2> QED BY <1>0, <1>2, <2>1, <2>3, <2>4, <2>5, <2>6, <2>7, QuietKeys
<1> QED BY <1>1, <1>2 DEF Verify

LEMMA CertificatesKeys == ASSUME KeysInv, call # None, Certificates PROVE KeysInv'
<1>0. "certificates" \in Place /\ "certificates" \in Using
  BY DEF Place, Using
<1>1. CASE Fails("certificates") /\ UNCHANGED heap
  <2>1. call # "ImportSessionKey_Test"
    BY <1>1 DEF Fails, KeysInv, Places, Route, Ends
  <2> QED BY <1>0, <1>1, <2>1, FailsKeys
<1>2. CASE /\ To("certificates", "passed")
           /\ UNCHANGED <<token, pairs, verified, opened, local, cut, stray>>
  <2>1. at = "certificates" /\ call' = call /\ at' = "passed"
    BY <1>2 DEF To
  <2>2. "passed" \in Route(call)
    BY <2>1 DEF KeysInv, Places, Route, Test, Ends
  <2>3. UNCHANGED <<con, heap, pub, digest, signed, wrapped>>
    BY <1>2 DEF local
  <2>4. {pub', digest', signed', wrapped'} \subseteq Pair \cup {None} /\ heap' \subseteq Blob
    BY <2>3 DEF KeysInv, Types
  <2>5. Holding'
    BY <2>1 DEF Holding
  <2>6. opened' \subseteq Container /\ con' \in opened' \cup {None} /\ \A c \in opened' : token[c].made
    BY <1>2, <2>3 DEF KeysInv, Types, Filling
  <2> QED BY <1>0, <1>2, <2>2, <2>3, <2>4, <2>5, <2>6, QuietKeys
<1> QED BY <1>1, <1>2 DEF Certificates

LEMMA WrapKeys == ASSUME KeysInv, call # None, Wrap PROVE KeysInv'
<1>0. "wrap" \in Place /\ "wrap" \in Using
  BY DEF Place, Using
<1>1. CASE Fails("wrap") /\ heap' = IF call = "ImportSessionKey_Test" THEN {} ELSE heap
  BY <1>0, <1>1, FailsKeys
<1>2. CASE /\ To("wrap", IF call = "ImportSM2KeyPair_Test" THEN "encrypt" ELSE "import")
           /\ wrapped' = pub
           /\ UNCHANGED <<token, pairs, verified, opened, con, pub, digest, signed, heap, cut, stray>>
  <2>1. /\ at = "wrap" /\ call' = call
        /\ at' = IF call = "ImportSM2KeyPair_Test" THEN "encrypt" ELSE "import"
    BY <1>2 DEF To
  <2>2. call \in {"ImportSM2KeyPair_Test", "ImportSessionKey_Test"}
    BY <2>1 DEF KeysInv, Places, Route, Test, Ends
  <2>3. {pub', digest', signed', wrapped'} \subseteq Pair \cup {None} /\ heap' \subseteq Blob
    BY <1>2 DEF KeysInv, Types
  <2>4. Holding'
    BY <1>2, <2>1, <2>2 DEF KeysInv, Holding, Wanted
  <2>5. at' \in Route(call) /\ at' # "generate sign"
    BY <2>1, <2>2 DEF Route
  <2>6. opened' \subseteq Container /\ con' \in opened' \cup {None} /\ \A c \in opened' : token[c].made
    BY <1>2 DEF KeysInv, Types, Filling
  <2> QED BY <1>0, <1>2, <2>1, <2>3, <2>4, <2>5, <2>6, QuietKeys
<1> QED BY <1>1, <1>2 DEF Wrap

LEMMA EncryptKeys == ASSUME KeysInv, call # None, Encrypt PROVE KeysInv'
<1>0. "encrypt" \in Place /\ "encrypt" \in Using
  BY DEF Place, Using
<1>1. CASE Fails("encrypt") /\ UNCHANGED heap
  <2>1. call # "ImportSessionKey_Test"
    BY <1>1 DEF Fails, KeysInv, Places, Route, Ends
  <2> QED BY <1>0, <1>1, <2>1, FailsKeys
<1>2. CASE /\ To("encrypt", "import") /\ heap' = heap \cup {"envelope"}
           /\ UNCHANGED <<token, pairs, verified, opened, con, pub, digest, signed, wrapped, cut, stray>>
  <2>1. at = "encrypt" /\ call' = call /\ at' = "import"
    BY <1>2 DEF To
  <2>2. "import" \in Route(call)
    BY <2>1 DEF KeysInv, Places, Route, Test, Ends
  <2>3. {pub', digest', signed', wrapped'} \subseteq Pair \cup {None} /\ heap' \subseteq Blob
    BY <1>2 DEF KeysInv, Types, Blob
  <2>4. Holding'
    BY <1>2, <2>1 DEF KeysInv, Holding, Wanted
  <2>5. opened' \subseteq Container /\ con' \in opened' \cup {None} /\ \A c \in opened' : token[c].made
    BY <1>2 DEF KeysInv, Types, Filling
  <2> QED BY <1>0, <1>2, <2>2, <2>3, <2>4, <2>5, QuietKeys
<1> QED BY <1>1, <1>2 DEF Encrypt

LEMMA ImportSessionKeyKeys == ASSUME KeysInv, call # None, ImportSessionKey PROVE KeysInv'
<1>0. "import" \in Place /\ "import" \in Using
  BY DEF Place, Using
<1>1. CASE Fails("import") /\ heap' = {}
  BY <1>0, <1>1, FailsKeys
<1>2. CASE /\ To("import", "passed") /\ call = "ImportSessionKey_Test"
           /\ heap' = heap \ {"public key"}
           /\ UNCHANGED <<token, pairs, verified, opened, con, pub, digest, signed, wrapped, cut, stray>>
  <2>1. at = "import" /\ call' = call /\ at' = "passed"
    BY <1>2 DEF To
  <2>2. "passed" \in Route(call)
    BY <1>2 DEF Route, Ends
  <2>3. {pub', digest', signed', wrapped'} \subseteq Pair \cup {None} /\ heap' \subseteq Blob
    BY <1>2 DEF KeysInv, Types
  <2>4. Holding'
    BY <2>1 DEF Holding
  <2>5. opened' \subseteq Container /\ con' \in opened' \cup {None} /\ \A c \in opened' : token[c].made
    BY <1>2 DEF KeysInv, Types, Filling
  <2> QED BY <1>0, <1>2, <2>2, <2>3, <2>4, <2>5, QuietKeys
<1> QED BY <1>1, <1>2 DEF ImportSessionKey
-----------------------------------------------------------------------------
LEMMA StepKeys == KeysInv /\ [Next]_vars => KeysInv'
<1> SUFFICES ASSUME KeysInv, [Next]_vars PROVE KeysInv'
  OBVIOUS
<1>1. CASE \E t \in Test : Begin(t)
  BY <1>1, BeginKeys
<1>2. ASSUME call # None,
             \/ VerifyPIN \/ OpenContainer \/ CreateContainer \/ GenerateSign \/ GenerateEnc
             \/ ExportSign \/ ExportEnc \/ Digest \/ Sign \/ Verify \/ Certificates
             \/ Wrap \/ Encrypt \/ ImportKeyPair \/ ImportSessionKey \/ Return
      PROVE  KeysInv'
  BY <1>2, VerifyPINKeys, OpenContainerKeys, CreateContainerKeys, GenerateSignKeys,
     GenerateEncKeys, ExportSignKeys, ExportEncKeys, DigestKeys, SignKeys, VerifyKeys,
     CertificatesKeys, WrapKeys, EncryptKeys, ImportKeyPairKeys, ImportSessionKeyKeys, ReturnKeys
<1>3. CASE Restart
  BY <1>3, RestartKeys
<1>4. CASE UNCHANGED vars
  <2> USE <1>4 DEF vars, local
  <2>1. Types'
    BY DEF KeysInv, Types
  <2>2. Places'
    BY DEF KeysInv, Places
  <2>3. Filling'
    BY DEF KeysInv, Filling
  <2>4. Holding'
    BY DEF KeysInv, Holding, Wanted
  <2> QED BY <2>1, <2>2, <2>3, <2>4 DEF KeysInv
<1> QED BY <1>1, <1>2, <1>3, <1>4 DEF Next

LEMMA KeysAreAccounted == Spec => []KeysInv
BY InitKeys, StepKeys, PTL DEF Spec

(* Verifications of the tests compare with the pair that signed, whatever  *)
(* tests, failures and restarts came before.                               *)
THEOREM SignaturesVerify == Spec => []VerifiesItsOwnSignature
<1>1. KeysInv => VerifiesItsOwnSignature
  BY DEF KeysInv, Holding, VerifiesItsOwnSignature
<1> QED BY <1>1, KeysAreAccounted, PTL

(* Session keys are wrapped for the pair that the token opens them with.   *)
THEOREM WrappedKeysOpen == Spec => []WrappedForTheToken
<1>1. KeysInv => WrappedForTheToken
  BY DEF KeysInv, Holding, Wanted, WrappedForTheToken
<1> QED BY <1>1, KeysAreAccounted, PTL

(* Between tests a container without a signing pair was cut.               *)
THEOREM HalfMadeIsKnown == Spec => []HalfMadeWasCut
<1>1. KeysInv => HalfMadeWasCut
  BY NoneApart DEF KeysInv, Places, Filling, HalfMadeWasCut, Using
<1> QED BY <1>1, KeysAreAccounted, PTL

(* ImportSessionKey_Test frees its blobs when it fails.                    *)
THEOREM RefusalsFree == Spec => []RefusalFreesBlobs
<1>1. KeysInv => RefusalFreesBlobs
  BY DEF KeysInv, Holding, RefusalFreesBlobs
<1> QED BY <1>1, KeysAreAccounted, PTL

(* A step leaves the signing pair of the SM2 container alone, once there   *)
(* is one, unless an uninitialised handle hits it.                         *)
LEMMA StepKeepsSigningPair ==
  ASSUME KeysInv, [Next]_vars, token["SM2"].sign # None
  PROVE  stray' \/ token'["SM2"].sign = token["SM2"].sign
<1>1. /\ token \in [Container -> [made : BOOLEAN, sign : Pair \cup {None}, enc : Pair \cup {None}]]
      /\ "SM2" \in Container
  BY DEF KeysInv, Types, Container
<1>2. CASE UNCHANGED token
  BY <1>2
<1>3. ASSUME NEW c, NEW e,
             \/ token' = [token EXCEPT ![c].made = e]
             \/ token' = [token EXCEPT ![c].enc = e]
      PROVE  token'["SM2"].sign = token["SM2"].sign
  BY <1>1, <1>3
<1>4. CASE GenerateSign /\ ~UNCHANGED token
  <2>1. /\ at = "generate sign" /\ stray' = stray
        /\ token' = [token EXCEPT ![con].sign = pairs']
    BY <1>4 DEF GenerateSign, To, Fails
  <2>2. CASE con = "SM2"
    BY <2>1, <2>2 DEF KeysInv, Filling
  <2>3. CASE con # "SM2"
    BY <1>1, <2>1, <2>3
  <2> QED BY <2>2, <2>3
<1>5. CASE CreateContainer \/ GenerateEnc \/ ImportKeyPair
  BY <1>2, <1>3, <1>5 DEF CreateContainer, GenerateEnc, ImportKeyPair, Fails
<1>6. CASE VerifyPIN \/ OpenContainer \/ ExportSign \/ ExportEnc \/ Digest \/ Sign
           \/ Verify \/ Certificates \/ Wrap \/ Encrypt \/ ImportSessionKey \/ Return
  BY <1>2, <1>6 DEF VerifyPIN, OpenContainer, ExportSign, ExportEnc, Digest, Sign,
     Verify, Certificates, Wrap, Encrypt, ImportSessionKey, Return, Fails
<1>7. CASE Restart \/ \E t \in Test : Begin(t)
  BY <1>2, <1>7 DEF Restart, Begin
<1>8. CASE UNCHANGED vars
  BY <1>2, <1>8 DEF vars
<1> QED BY <1>2, <1>4, <1>5, <1>6, <1>7, <1>8 DEF Next

(* The signing pair of the SM2 container stays, for any number of tests,   *)
(* failures and restarts.                                                  *)
THEOREM SigningPairIsForGood == Spec => SigningPairStays
<1>1. KeysInv /\ [Next]_vars =>
        [token["SM2"].sign # None => stray' \/ token'["SM2"].sign = token["SM2"].sign]_vars
  BY StepKeepsSigningPair
<1> QED BY <1>1, KeysAreAccounted, PTL DEF Spec, SigningPairStays

(* The variables have their types in every run, and a test uses a          *)
(* container only when it has one.                                         *)
THEOREM KeysTypes == Spec => []TypeOK
<1>1. ASSUME KeysInv PROVE TypeOK
  <2>1. call \in Test \cup {None}
    BY <1>1 DEF KeysInv, Places
  <2>2. con \in Container \cup {None}
    BY <1>1 DEF KeysInv, Types
  <2>3. ASSUME at \in Using
        PROVE  con # None \/ (call = "RasKeyPairTest" /\ at = "generate sign")
    BY <1>1, <2>3, NoneApart DEF KeysInv, Places, Own, Container
  <2> QED BY <1>1, <2>1, <2>2, <2>3 DEF KeysInv, Types, TypeOK
<1>2. KeysInv => TypeOK
  BY <1>1
<1> QED BY <1>2, KeysAreAccounted, PTL
=============================================================================
