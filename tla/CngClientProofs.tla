-------------------------- MODULE CngClientProofs --------------------------
(***************************************************************************)
(* Proofs about CngClient, for a system store of any size.                 *)
(***************************************************************************)
EXTENDS CngClient, TLAPS

Connecting == {"socket", "connect", "handshake", "write", "read"}
Beginning == {"load cng", "register log", "load default", "winsock", "ssl_ctx",
              "open for certificate", "find certificate"}

(* The certificate is chosen, or so is its key, and main() is on its way.  *)
CertChosen ==
  \/ pc \in {"open for key", "find key"} \cup Connecting
  \/ pc = "close" /\ after \in {"open for key", "socket"}
KeyChosen == pc \in Connecting \/ (pc = "close" /\ after = "socket")

(* No certificate that matches was passed over; the one that was chosen is *)
(* the first, and the key that was chosen is its own.                      *)
Chosen ==
  /\ size \in Nat /\ usable \subseteq 1..size /\ matches \subseteq 1..MaxCerts /\ given \in Nat
  /\ after \in {"open for key", "socket", "exit"}
  /\ pc \in Beginning => matches \subseteq 1..size
  /\ pc = "find certificate" => \A i \in matches : i > given
  /\ CertChosen =>
       /\ pubkey \in matches /\ ctx_cert = pubkey
       /\ \A i \in matches : ctx_cert <= i
  /\ KeyChosen => ctx_key = ctx_cert /\ twins \cap usable # {}

LEMMA ChosenInit == Init => Chosen
<1> SUFFICES ASSUME Init PROVE Chosen
  OBVIOUS
<1>1. size \in Nat /\ 1..size \subseteq 1..MaxCerts
  <2>1. size \in 0..MaxCerts /\ MaxCerts \in Nat
    BY ClientAssumption DEF Init
  <2> QED BY <2>1
<1>2. usable \subseteq 1..size /\ matches \subseteq 1..size /\ matches \subseteq 1..MaxCerts
  BY <1>1 DEF Init
<1>3. given = 0 /\ pc = "load cng" /\ after = "exit"
  BY DEF Init, Stream!Init
<1> QED BY <1>1, <1>2, <1>3 DEF Chosen, CertChosen, KeyChosen, Connecting

LEMMA Between ==
  ASSUME NEW m \in Nat, NEW n \in Nat, NEW i \in Nat, m < i, i < n
  PROVE  i \in m + 1 .. n - 1
OBVIOUS

LEMMA RanksArePositive == ASSUME NEW n \in Nat, NEW i \in 1..n PROVE i \in Nat /\ i > 0
OBVIOUS

LEMMA RankOfKey ==
  ASSUME NEW n \in Nat, NEW i \in 1..n
  PROVE  n + i \in Nat /\ n + i > 0 /\ n + i <= 2 * n /\ (n + i) - n = i
OBVIOUS

LEMMA DoubleIsNat == ASSUME NEW n \in Nat PROVE 2 * n \in Nat
OBVIOUS

LEMMA UpTo ==
  ASSUME NEW m \in Nat, NEW n \in Nat, NEW i \in Nat, m < i, i <= n
  PROVE  i \in m + 1 .. n
OBVIOUS

(* What the stream hands over comes later than all it handed over before,  *)
(* and it passes over no certificate.                                      *)
LEMMA GivesTheNext ==
  ASSUME size \in Nat, given \in Nat, Stream!Give
  PROVE  /\ given' \in Nat /\ given' > given
         /\ \A i \in 1..size : i > given => given' <= i
<1>1. given' \in given + 1 .. 2 * size
  BY DEF Stream!Give
<1>2. given' \in Nat /\ given' > given
  BY <1>1
<1>3. \A q \in given + 1 .. given' - 1 : q \notin 1..size
  BY DEF Stream!Give, Stream!Deliverable
<1>4. ASSUME NEW i \in 1..size, i > given PROVE given' <= i
  <2> SUFFICES ASSUME i < given' PROVE FALSE
    BY <1>2
  <2>1. i \in given + 1 .. given' - 1
    BY <1>2, <1>4, Between, RanksArePositive
  <2> QED BY <1>3, <2>1
<1> QED BY <1>2, <1>4

(* A step that does not touch the store or the SSL_CTX. *)
LEMMA ChosenStraight ==
  ASSUME Chosen, NEW from, NEW to, NEW kept, Straight(from, to, kept),
         to \notin {"find certificate", "open for key", "find key", "close"},
         to \in Connecting => from \in Connecting,
         to \in Beginning => from \in Beginning
  PROVE  Chosen'
BY DEF Straight, store, ssl, Chosen, CertChosen, KeyChosen, Connecting

LEMMA ChosenOpenStore ==
  ASSUME Chosen,
         \/ OpenStore("open for certificate", "find certificate")
         \/ OpenStore("open for key", "find key")
  PROVE  Chosen'
<1>1. UNCHANGED <<size, usable, matches, twins, after, pubkey, ctx_cert, ctx_key>>
  BY DEF OpenStore, store, ssl
<1>2. CASE pc' = "exit" /\ given' = given
  BY <1>1, <1>2 DEF Chosen, CertChosen, KeyChosen, Connecting, Beginning
<1>3. CASE pc = "open for certificate" /\ pc' = "find certificate" /\ given' = 0
  <2>1. size \in Nat /\ matches' \subseteq 1..size
    BY <1>1, <1>3 DEF Chosen, Beginning
  <2>2. \A i \in 1..size : i > 0
    BY <2>1, RanksArePositive
  <2>3. \A i \in matches' : i > given'
    BY <1>3, <2>1, <2>2
  <2> QED BY <1>1, <1>3, <2>1, <2>3 DEF Chosen, CertChosen, KeyChosen, Connecting, Beginning
<1>4. CASE pc = "open for key" /\ pc' = "find key" /\ given' = 0
  BY <1>1, <1>4 DEF Chosen, CertChosen, KeyChosen, Connecting, Beginning
<1>5. \A from, to : OpenStore(from, to) =>
        /\ pc = from
        /\ (pc' = "exit" /\ given' = given) \/ (pc' = to /\ given' = 0)
  BY DEF OpenStore, store, Stream!Start
<1> QED BY <1>2, <1>3, <1>4, <1>5

(* The user changes the store, and what was chosen stays chosen. *)
LEMMA ChosenStoreChanges == ASSUME Chosen, StoreChanges PROVE Chosen'
<1>1. size' \in Nat /\ usable' \subseteq 1..size'
  <2>1. size' \in 0..MaxCerts /\ MaxCerts \in Nat
    BY ClientAssumption DEF StoreChanges
  <2>2. usable' \in SUBSET (1..size')
    BY DEF StoreChanges
  <2> QED BY <2>1, <2>2
<1>2. pc = "open for key" /\ UNCHANGED <<given, matches, pc, after, pubkey, ctx_cert, ctx_key>>
  BY DEF StoreChanges, ssl
<1> QED BY <1>1, <1>2 DEF Chosen, CertChosen, KeyChosen, Connecting, Beginning

LEMMA ChosenCloseStore == ASSUME Chosen, CloseStore PROVE Chosen'
<1>1. pc = "close" /\ pc' = after /\ given' = 0
  BY DEF CloseStore, Stream!Stop
<1>2. UNCHANGED <<size, usable, matches, twins, after, pubkey, ctx_cert, ctx_key>>
  BY DEF CloseStore, ssl
<1>3. after \in {"open for key", "socket", "exit"}
  BY DEF Chosen
<1> QED BY <1>1, <1>2, <1>3 DEF Chosen, CertChosen, KeyChosen, Connecting, Beginning

(* A pass that ends without what it looked for. *)
LEMMA ChosenGivesUp ==
  ASSUME Chosen, LoadFails \/ NotFound
  PROVE  Chosen'
<1>1. UNCHANGED <<size, usable, matches, twins, pubkey, ctx_cert, ctx_key>>
  BY DEF LoadFails, NotFound, store, ssl
<1>2. pc' = "close" /\ after' = "exit"
  BY DEF LoadFails, NotFound, Leave
<1>3. given' \in Nat
  <2>1. size \in Nat /\ given \in Nat
    BY DEF Chosen
  <2>2. given' = given \/ Stream!Give
    BY DEF LoadFails, NotFound, store
  <2> QED BY <2>1, <2>2, GivesTheNext
<1> QED BY <1>1, <1>2, <1>3 DEF Chosen, CertChosen, KeyChosen, Connecting, Beginning

LEMMA ChosenFindCertificate == ASSUME Chosen, FindCertificate PROVE Chosen'
<1>1. CASE LoadFails \/ NotFound
  BY <1>1, ChosenGivesUp
<1>2. CASE Load /\ (IF given' \in matches THEN UseCertificate ELSE Skip)
  <2>0. Stream!Give /\ UNCHANGED <<size, usable>>
    BY <1>2 DEF Load
  <2>1. pc = "find certificate"
    BY DEF FindCertificate
  <2>2. size \in Nat /\ given \in Nat /\ matches \subseteq 1..size
        /\ \A i \in matches : i > given
    BY <2>1 DEF Chosen, Beginning
  <2>3. given' \in Nat /\ \A i \in matches : given' <= i
    BY <2>0, <2>2, GivesTheNext
  <2>4. CASE given' \in matches /\ UseCertificate
    <3>1. UNCHANGED <<matches, ctx_key>> /\ pubkey' = given' /\ pc' = "close"
      BY <2>4 DEF UseCertificate, KeepPublicKey, Leave
    <3>2. \/ ctx_cert' = given' /\ after' = "open for key"
          \/ after' = "exit"
      BY <2>4 DEF UseCertificate, Leave
    <3> QED BY <2>0, <2>2, <2>3, <2>4, <3>1, <3>2
            DEF Chosen, CertChosen, KeyChosen, Connecting, Beginning
  <2>5. CASE given' \notin matches /\ Skip
    <3>1. UNCHANGED <<matches, pc, after, pubkey, ctx_cert, ctx_key>>
      BY <2>5 DEF Skip, ssl
    <3>2. ASSUME NEW i \in matches PROVE i > given'
      <4>1. i \in 1..size /\ given' <= i /\ given' # i
        BY <2>2, <2>3, <2>5
      <4> QED BY <2>2, <2>3, <4>1
    <3> QED BY <2>0, <2>1, <2>2, <2>3, <3>1, <3>2
            DEF Chosen, CertChosen, KeyChosen, Connecting, Beginning
  <2> QED BY <1>2, <2>4, <2>5
<1> QED BY <1>1, <1>2 DEF FindCertificate

LEMMA LargerName ==
  ASSUME NEW m \in Nat, NEW n \in Nat, NEW i \in Nat, i > n, NEW p \in 1..m
  PROVE  m + (i - n) # p
OBVIOUS

(* A key that matches is that of a certificate with the same key pair, and *)
(* one that could be had.                                                  *)
LEMMA MatchingKey ==
  ASSUME size \in Nat, given \in Nat, pubkey \in 1..MaxCerts, Stream!Give, KeyMatches
  PROVE  /\ given' - size \in twins \cap usable
         /\ PairOf(given' - size) = pubkey
<1>1. given' \in Nat /\ given' > size /\ PairOf(given' - size) = pubkey
  BY GivesTheNext DEF KeyMatches
<1>2. given' - size \in twins
  BY <1>1, LargerName, ClientAssumption DEF PairOf
<1>3. given' \notin 1..size
  BY <1>1
<1> QED BY <1>1, <1>2, <1>3 DEF Stream!Give, Stream!Deliverable

LEMMA ChosenFindKey == ASSUME Chosen, FindKey PROVE Chosen'
<1>1. CASE LoadFails \/ NotFound
  BY <1>1, ChosenGivesUp
<1>2. CASE Load /\ (IF KeyMatches THEN UsePrivateKey ELSE Skip)
  <2>0. Stream!Give /\ UNCHANGED <<size, usable>>
    BY <1>2 DEF Load
  <2>1. pc = "find key"
    BY DEF FindKey
  <2>2. size \in Nat /\ given \in Nat /\ matches \subseteq 1..MaxCerts
    BY DEF Chosen
  <2>3. given' \in Nat
    BY <2>0, <2>2, GivesTheNext
  <2>4. CASE KeyMatches /\ UsePrivateKey
    <3>1. pubkey \in matches /\ ctx_cert = pubkey /\ \A i \in matches : ctx_cert <= i
      BY <2>1 DEF Chosen, CertChosen
    <3>2. given' - size \in twins \cap usable /\ PairOf(given' - size) = pubkey
      BY <2>0, <2>2, <2>4, <3>1, MatchingKey
    <3>3. CASE ctx_key' = PairOf(given' - size) /\ Leave("socket")
               /\ UNCHANGED <<matches, twins, pubkey, ctx_cert>>
      <4>1. pc' = "close" /\ after' = "socket"
        BY <3>3 DEF Leave
      <4>2. ctx_key' = ctx_cert' /\ twins' \cap usable' # {}
        BY <2>0, <3>1, <3>2, <3>3
      <4> QED BY <2>0, <2>2, <2>3, <3>1, <3>3, <4>1, <4>2
              DEF Chosen, CertChosen, KeyChosen, Connecting, Beginning
    <3>4. CASE pc' = "exit" /\ UNCHANGED <<matches, twins, after, ssl>>
      BY <2>0, <2>3, <3>4 DEF ssl, Chosen, CertChosen, KeyChosen, Connecting, Beginning
    <3> QED BY <2>4, <3>3, <3>4 DEF UsePrivateKey
  <2>5. CASE ~KeyMatches /\ Skip
    <3>1. UNCHANGED <<matches, pc, after, pubkey, ctx_cert, ctx_key>>
      BY <2>5 DEF Skip, ssl
    <3> QED BY <2>0, <2>1, <2>3, <3>1 DEF Chosen, CertChosen, KeyChosen, Connecting, Beginning
  <2> QED BY <1>2, <2>4, <2>5
<1> QED BY <1>1, <1>2 DEF FindKey

(* What comes before the search for the certificate. *)
LEMMA ChosenSetUp ==
  ASSUME Chosen,
         LoadCng \/ RegisterLog \/ LoadDefault \/ StartWinsock \/ CreateContext
  PROVE  Chosen'
<1>1. PICK from, to, kept :
        Straight(from, to, kept) /\ from \in Beginning
        /\ to \in {"register log", "load default", "winsock", "ssl_ctx",
                   "open for certificate", "returned"}
  BY DEF LoadCng, RegisterLog, LoadDefault, StartWinsock, CreateContext, Acquire, Beginning
<1>2. to \notin {"find certificate", "open for key", "find key", "close"} \cup Connecting
  BY <1>1 DEF Connecting
<1> QED BY <1>1, <1>2, ChosenStraight

(* What comes after the search for the key. *)
LEMMA ChosenConnects ==
  ASSUME Chosen, CreateSocket \/ Connect \/ Handshake \/ Write \/ Read \/ Exit
  PROVE  Chosen'
<1>1. PICK from, to, kept :
        Straight(from, to, kept)
        /\ from \in Connecting \cup {"exit"}
        /\ to \in (IF from = "exit" THEN {"returned"}
                   ELSE {"connect", "handshake", "write", "read", "exit", "returned"})
  BY DEF CreateSocket, Connect, Handshake, Write, Read, Exit, Acquire, Connecting
<1>2. /\ to \notin {"find certificate", "open for key", "find key", "close"} \cup Beginning
      /\ to \in Connecting => from \in Connecting
  BY <1>1 DEF Connecting, Beginning
<1> QED BY <1>1, <1>2, ChosenStraight

LEMMA ChosenStep == Chosen /\ [Next]_vars => Chosen'
<1> SUFFICES ASSUME Chosen, [Next]_vars PROVE Chosen'
  OBVIOUS
<1>1. CASE LoadCng \/ RegisterLog \/ LoadDefault \/ StartWinsock \/ CreateContext
  BY <1>1, ChosenSetUp
<1>2. CASE \/ OpenStore("open for certificate", "find certificate")
           \/ OpenStore("open for key", "find key")
  BY <1>2, ChosenOpenStore
<1>3. CASE FindCertificate
  BY <1>3, ChosenFindCertificate
<1>4. CASE FindKey
  BY <1>4, ChosenFindKey
<1>5. CASE CloseStore
  BY <1>5, ChosenCloseStore
<1>6. CASE CreateSocket \/ Connect \/ Handshake \/ Write \/ Read \/ Exit
  BY <1>6, ChosenConnects
<1>7. CASE UNCHANGED vars
  BY <1>7 DEF vars, store, ssl, Chosen, CertChosen, KeyChosen, Connecting
<1>8. CASE StoreChanges
  BY <1>8, ChosenStoreChanges
<1> QED BY <1>1, <1>2, <1>3, <1>4, <1>5, <1>6, <1>7, <1>8 DEF Next, Main

(* The client only connects with the first certificate in store order that *)
(* matches the search and with the private key of that very certificate,   *)
(* however many certificates the store holds, and however it changed       *)
(* between the two passes.                                                 *)
THEOREM ConnectsWithTheChosenPair == Spec => []ConnectsWithItsPair
<1>1. Chosen => ConnectsWithItsPair
  <2> SUFFICES ASSUME Chosen, pc \in Connecting
               PROVE  /\ ctx_cert \in matches /\ \A i \in matches : ctx_cert <= i
                      /\ ctx_key = ctx_cert /\ twins \cap usable # {}
    BY DEF ConnectsWithItsPair, Connecting
  <2> QED BY DEF Chosen, CertChosen, KeyChosen
<1> QED BY <1>1, ChosenStep, ChosenInit, PTL DEF Spec

(* ---- the second pass, and what is left open ---- *)

(* Every key that matches is still to come; the end is reported only when  *)
(* nothing is left; the store is open during a pass, or because            *)
(* SSL_CTX_use_PrivateKey failed.                                          *)
Looking ==
  /\ pc = "find key" => \A i \in twins \cap (usable \ gone) : size + i > given
  /\ pc = "open for key" => ~ended
  /\ ended => Stream!NothingAfter(given, gone)
  /\ active => pc \in {"find certificate", "find key", "close"} \/ refused

LEMMA LookingInit == Init => Looking
BY DEF Init, Stream!Init, Looking

LEMMA LookingStraight ==
  ASSUME Looking, NEW from, NEW to, NEW kept, Straight(from, to, kept),
         from \notin {"find certificate", "find key", "close"},
         to \notin {"open for key", "find key"}
  PROVE  Looking'
BY DEF Straight, store, ssl, Looking, Stream!NothingAfter, Stream!Deliverable

LEMMA LookingOpenStore ==
  ASSUME Chosen, Looking,
         \/ OpenStore("open for certificate", "find certificate")
         \/ OpenStore("open for key", "find key")
  PROVE  Looking'
<1>1. PICK from \in {"open for certificate", "open for key"},
           to \in {"find certificate", "find key"} :
        OpenStore(from, to) /\ (to = "find key" => from = "open for key")
  OBVIOUS
<1>2. CASE UNCHANGED store /\ pc' = "exit"
  BY <1>1, <1>2 DEF OpenStore, store, Looking, Stream!NothingAfter, Stream!Deliverable
<1>3. CASE Stream!Start /\ UNCHANGED <<size, usable, broken>> /\ pc' = to
  <2>1. \A i \in twins' \cap (usable' \ gone') : size' + i > given'
    <3>1. size \in Nat /\ usable \subseteq 1..size
      BY DEF Chosen
    <3>2. given' = 0 /\ size' = size /\ usable' = usable
      BY <1>3 DEF Stream!Start
    <3> QED BY <3>1, <3>2, RankOfKey
  <2>2. ended' => Stream!NothingAfter(given, gone)'
    BY <1>3 DEF Stream!Start, Stream!NothingAfter, Stream!Deliverable
  <2> QED BY <1>1, <1>3, <2>1, <2>2 DEF Looking
<1> QED BY <1>1, <1>2, <1>3 DEF OpenStore

LEMMA LookingStoreChanges == ASSUME Looking, StoreChanges PROVE Looking'
<1>1. pc' = "open for key" /\ ~ended' /\ (active' => refused')
  BY DEF StoreChanges, Looking
<1> QED BY <1>1 DEF Looking

LEMMA LookingCloseStore == ASSUME Chosen, Looking, CloseStore PROVE Looking'
<1>1. ~active' /\ ~ended' /\ pc' # "find key"
  BY DEF CloseStore, Stream!Stop, Chosen
<1> QED BY <1>1 DEF Looking

LEMMA GivesTruly ==
  ASSUME Stream!Give, UNCHANGED <<size, usable, broken>>
  PROVE  ended' => Stream!NothingAfter(given, gone)'
BY DEF Stream!Give, Stream!NothingAfter, Stream!Deliverable

LEMMA LookingGivesUp ==
  ASSUME Looking, LoadFails \/ NotFound
  PROVE  Looking'
<1>1. pc' = "close"
  BY DEF LoadFails, NotFound, Leave
<1>2. CASE UNCHANGED store
  BY <1>1, <1>2 DEF store, Looking, Stream!NothingAfter, Stream!Deliverable
<1>3. CASE Stream!Give /\ UNCHANGED <<size, usable, broken>>
  BY <1>1, <1>3, GivesTruly DEF Looking
<1> QED BY <1>2, <1>3 DEF LoadFails, NotFound

LEMMA LookingFindCertificate == ASSUME Looking, FindCertificate PROVE Looking'
<1>1. CASE LoadFails \/ NotFound
  BY <1>1, LookingGivesUp
<1>2. CASE Load /\ (IF given' \in matches THEN UseCertificate ELSE Skip)
  <2>1. pc' \in {"find certificate", "close"}
    BY <1>2 DEF FindCertificate, UseCertificate, Skip, Leave
  <2> QED BY <1>2, <2>1, GivesTruly DEF Looking, Load
<1> QED BY <1>1, <1>2 DEF FindCertificate

LEMMA LookingFindKey == ASSUME Chosen, Looking, FindKey PROVE Looking'
<1>1. CASE LoadFails \/ NotFound
  BY <1>1, LookingGivesUp
<1>2. CASE Load /\ (IF KeyMatches THEN UsePrivateKey ELSE Skip)
  <2>0. Stream!Give /\ UNCHANGED <<size, usable, broken>>
    BY <1>2 DEF Load
  <2>1. pc = "find key"
    BY DEF FindKey
  <2>2. CASE KeyMatches /\ UsePrivateKey
    <3>1. pc' = "close" \/ (pc' = "exit" /\ refused')
      BY <2>2 DEF UsePrivateKey, Leave
    <3> QED BY <2>0, <3>1, GivesTruly DEF Looking
  <2>3. CASE ~KeyMatches /\ Skip
    <3>1. pc' = "find key" /\ twins' = twins /\ gone \subseteq gone'
      BY <2>0, <2>1, <2>3 DEF Skip, Stream!Give
    <3>2. size \in Nat /\ given \in Nat /\ usable \subseteq 1..size
      BY DEF Chosen
    <3>3. given' \in Nat
      BY <2>0, <3>2, GivesTheNext
    <3>4. ASSUME NEW i \in twins \cap (usable \ gone) PROVE size + i > given'
      <4>1. i \in 1..size /\ size + i > given
        BY <2>1, <3>2 DEF Looking
      <4>2. size + i \in Nat /\ (size + i) - size = i /\ size + i > size
        BY <3>2, <4>1, RankOfKey
      <4>3. size + i # given'
        BY <2>3, <4>2 DEF KeyMatches, PairOf
      <4>4. Stream!Deliverable(size + i, gone)
        BY <4>2 DEF Stream!Deliverable
      <4>5. size + i \notin given + 1 .. given' - 1
        BY <2>0, <4>4 DEF Stream!Give
      <4>6. ~(size + i < given')
        BY <3>2, <3>3, <4>1, <4>2, <4>5, Between
      <4> QED BY <3>3, <4>2, <4>3, <4>6
    <3> QED BY <2>0, <3>1, <3>4, GivesTruly DEF Looking
  <2> QED BY <1>2, <2>2, <2>3
<1> QED BY <1>1, <1>2 DEF FindKey

LEMMA LookingStep == Chosen /\ Looking /\ [Next]_vars => Looking'
<1> SUFFICES ASSUME Chosen, Looking, [Next]_vars PROVE Looking'
  OBVIOUS
<1>1. CASE LoadCng \/ RegisterLog \/ LoadDefault \/ StartWinsock \/ CreateContext
  <2>1. PICK from, to, kept :
          Straight(from, to, kept)
          /\ from \in {"load cng", "register log", "load default", "winsock", "ssl_ctx"}
          /\ to \in {"register log", "load default", "winsock", "ssl_ctx",
                     "open for certificate", "returned"}
    BY <1>1 DEF LoadCng, RegisterLog, LoadDefault, StartWinsock, CreateContext, Acquire
  <2> QED BY <2>1, LookingStraight
<1>2. CASE \/ OpenStore("open for certificate", "find certificate")
           \/ OpenStore("open for key", "find key")
  BY <1>2, LookingOpenStore
<1>3. CASE FindCertificate
  BY <1>3, LookingFindCertificate
<1>4. CASE FindKey
  BY <1>4, LookingFindKey
<1>5. CASE CloseStore
  BY <1>5, LookingCloseStore
<1>6. CASE CreateSocket \/ Connect \/ Handshake \/ Write \/ Read \/ Exit
  <2>1. PICK from, to, kept :
          Straight(from, to, kept)
          /\ from \in Connecting \cup {"exit"}
          /\ to \in {"connect", "handshake", "write", "read", "exit", "returned"}
    BY <1>6 DEF CreateSocket, Connect, Handshake, Write, Read, Exit, Acquire, Connecting
  <2> QED BY <2>1, LookingStraight DEF Connecting
<1>7. CASE UNCHANGED vars
  BY <1>7 DEF vars, store, ssl, Looking, Stream!NothingAfter, Stream!Deliverable
<1>8. CASE StoreChanges
  BY <1>8, LookingStoreChanges
<1> QED BY <1>1, <1>2, <1>3, <1>4, <1>5, <1>6, <1>7, <1>8 DEF Next, Main

LEMMA SearchIsSound == Spec => [](Chosen /\ Looking)
BY ChosenInit, LookingInit, ChosenStep, LookingStep, PTL DEF Spec

LEMMA GivesUpStep ==
  ASSUME Chosen, Looking, [Next]_vars,
         pc = "find key", after' = "exit", pc' = "close", ~failure'
  PROVE  twins \cap (usable \ gone) = {}
<1>1. FindKey
  BY DEF Next, Main, FindKey, FindCertificate, OpenStore, CloseStore, LoadCng, RegisterLog,
     LoadDefault, StartWinsock, CreateContext, CreateSocket, Connect, Handshake, Write,
     Read, Exit, Acquire, Straight, StoreChanges, vars
<1>2. CASE NotFound
  <2>1. \A q \in given + 1 .. 2 * size : ~Stream!Deliverable(q, gone)
    BY <1>2 DEF NotFound, Looking, Stream!NothingAfter
  <2>2. size \in Nat /\ given \in Nat /\ usable \subseteq 1..size
    BY DEF Chosen
  <2>3. ASSUME NEW i \in twins \cap (usable \ gone) PROVE FALSE
    <3>1. /\ size + i \in Nat /\ size + i <= 2 * size /\ (size + i) - size = i
          /\ size + i > given
      BY <2>2, RankOfKey DEF Looking
    <3>2. size + i \in given + 1 .. 2 * size
      BY <2>2, <3>1, DoubleIsNat, UpTo
    <3> QED BY <2>1, <3>1, <3>2 DEF Stream!Deliverable
  <2> QED BY <2>3
<1>3. ~LoadFails
  BY DEF LoadFails
<1>4. CASE Load /\ (IF KeyMatches THEN UsePrivateKey ELSE Skip)
  BY <1>4 DEF UsePrivateKey, Skip, Leave
<1> QED BY <1>1, <1>2, <1>3, <1>4 DEF FindKey

(* A second pass that ends without the key and without a failure was over  *)
(* a store in which no certificate with that key pair has a key to be had. *)
THEOREM GivesUpOnlyForAReason == Spec => GivesUpForAReason
<1>1. Chosen /\ Looking /\ [Next]_vars =>
        [pc = "find key" /\ after' = "exit" /\ pc' = "close" /\ ~failure' =>
           twins \cap (usable \ gone) = {}]_vars
  BY GivesUpStep
<1> QED BY <1>1, SearchIsSound, PTL DEF Spec, GivesUpForAReason

(***************************************************************************)
(* The types of the variables.                                             *)
(***************************************************************************)

(* What main() may hold in each place: it acquires in one order, and gives *)
(* back nothing before the exit label but when a provider fails to load.   *)
Basis == {"cng", "module", "default", "winsock", "ssl_ctx"}
Holdings(place) ==
  CASE place = "load cng" -> {{}}
    [] place = "register log" -> {{"cng"}}
    [] place = "load default" -> {{"cng", "module"}}
    [] place = "winsock" -> {{"cng", "module", "default"}}
    [] place = "ssl_ctx" -> {{"cng", "module", "default", "winsock"}}
    [] place = "connect" -> {Basis, Basis \cup {"socket"}}
    [] place \in {"handshake", "write", "read"} -> {Basis \cup {"socket", "ssl"}}
    [] place = "exit" -> {Basis, Basis \cup {"socket"}, Basis \cup {"socket", "ssl"}}
    [] place = "returned" ->
         {{}, {"cng"}, {"cng", "module"}, {"module"}, {"cng", "module", "default"},
          {"cng", "module", "default", "winsock"},
          Basis \cup {"socket"}, Basis \cup {"socket", "ssl"}}
    [] OTHER -> {Basis}

Pass == {"find certificate", "find key"}

Typed ==
  /\ size \in 0..MaxCerts /\ usable \subseteq 1..size /\ twins \subseteq 1..size
  /\ active \in BOOLEAN /\ ended \in BOOLEAN /\ broken = FALSE
  /\ given \in 0..2 * size /\ gone \subseteq 1..size
  /\ matches \subseteq 1..MaxCerts
  /\ pc \in Place /\ after \in {"open for key", "socket", "exit"}
  /\ pubkey \in 0..MaxCerts /\ ctx_cert \in 0..MaxCerts /\ ctx_key \in 0..MaxCerts
  /\ open \in Holdings(pc)
  /\ infos \subseteq Pass \X (1..2 * MaxCerts)
  /\ failure \in BOOLEAN /\ refused \in BOOLEAN

LEMMA UpToSeven ==
  /\ 1..0 = {} /\ 1..1 = {1} /\ 1..2 = {1, 2} /\ 1..3 = {1, 2, 3} /\ 1..4 = {1, 2, 3, 4}
  /\ 1..6 = {1, 2, 3, 4, 5, 6} /\ 1..5 = {1, 2, 3, 4, 5} /\ 1..7 = {1, 2, 3, 4, 5, 6, 7}
  /\ 0 \in 0..7 /\ 1 \in 0..7 /\ 2 \in 0..7 /\ 3 \in 0..7 /\ 4 \in 0..7 /\ 5 \in 0..7
  /\ 6 \in 0..7 /\ 7 \in 0..7
OBVIOUS

(* Whatever it holds is a prefix of what it acquires, or only the module.  *)
LEMMA HoldsAPrefix ==
  ASSUME NEW place, open \in Holdings(place)
  PROVE  \/ \E n \in 0..7 : open = {Resource[k] : k \in 1..n}
         \/ place = "returned" /\ open = {"module"}
<1>1. /\ Resource[1] = "cng" /\ Resource[2] = "module" /\ Resource[3] = "default"
      /\ Resource[4] = "winsock" /\ Resource[5] = "ssl_ctx" /\ Resource[6] = "socket"
      /\ Resource[7] = "ssl"
  BY DEF Resource
<1> DEFINE First(n) == {Resource[k] : k \in 1..n}
<1>2. First(0) = {} /\ First(1) = {"cng"} /\ First(2) = {"cng", "module"}
  BY <1>1, UpToSeven
<1>3. /\ First(3) = {"cng", "module", "default"}
      /\ First(4) = {"cng", "module", "default", "winsock"}
  BY <1>1, UpToSeven
<1>4. First(5) = Basis
  BY <1>1, UpToSeven DEF Basis
<1>5. First(6) = Basis \cup {"socket"}
  BY <1>1, UpToSeven DEF Basis
<1>6. First(7) = Basis \cup {"socket", "ssl"}
  BY <1>1, UpToSeven DEF Basis
<1>7. \/ open \in {{}, {"cng"}, {"cng", "module"}, {"cng", "module", "default"},
                   {"cng", "module", "default", "winsock"}, Basis,
                   Basis \cup {"socket"}, Basis \cup {"socket", "ssl"}}
      \/ place = "returned" /\ open = {"module"}
  BY DEF Holdings
<1> HIDE DEF First
<1>8. (\E n \in 0..7 : open = First(n)) \/ (place = "returned" /\ open = {"module"})
  BY <1>2, <1>3, <1>4, <1>5, <1>6, <1>7, UpToSeven, Zenon
<1> QED BY <1>8 DEF First

LEMMA ZeroIsARank ==
  ASSUME NEW n \in Nat PROVE 0 \in 0..n /\ 0 \in 0..2 * n /\ 1..n \subseteq 0..n /\ 2 * n \in Nat
OBVIOUS

LEMMA TypedInit == Init => Typed
<1> SUFFICES ASSUME Init PROVE Typed
  OBVIOUS
<1>1. size \in 0..MaxCerts /\ size \in Nat /\ 0 \in 0..MaxCerts /\ 1..size \subseteq 1..MaxCerts
  <2>1. size \in 0..MaxCerts /\ MaxCerts \in Nat
    BY ClientAssumption DEF Init
  <2> QED BY <2>1
<1>2. active = FALSE /\ ended = FALSE /\ broken = FALSE /\ given = 0 /\ gone = {}
  BY DEF Init, Stream!Init
<1>3. open \in Holdings(pc)
  BY DEF Init, Holdings
<1>4. matches \subseteq 1..MaxCerts
  BY <1>1 DEF Init
<1> QED BY <1>1, <1>2, <1>3, <1>4, ZeroIsARank DEF Init, Typed, Place

(* A step that does not touch the store or the SSL_CTX. *)
LEMMA TypedStraight ==
  ASSUME Typed, NEW from, NEW to \in Place, NEW kept \in Holdings(to), Straight(from, to, kept)
  PROVE  Typed'
<1>1. UNCHANGED <<size, usable, active, given, gone, ended, broken, matches, twins, after,
                  pubkey, ctx_cert, ctx_key, infos, failure, refused>>
  BY DEF Straight, store, ssl
<1>2. pc' = to /\ open' = kept
  BY DEF Straight
<1> QED BY <1>1, <1>2 DEF Typed

(* What is acquired and what is given back before the store is opened.     *)
LEMMA TypedSetUp ==
  ASSUME Typed, LoadCng \/ RegisterLog \/ LoadDefault \/ StartWinsock \/ CreateContext
  PROVE  Typed'
<1>1. open \in Holdings(pc)
  BY DEF Typed
<1>2. PICK to, kept : to \in Place /\ kept \in Holdings(to) /\ Straight(pc, to, kept)
  <2>1. CASE LoadCng
    <3>1. pc = "load cng" /\ open = {}
      BY <1>1, <2>1 DEF LoadCng, Acquire, Straight, Holdings
    <3> QED BY <2>1, <3>1 DEF LoadCng, Acquire, Straight, Holdings, Place
  <2>2. CASE RegisterLog
    <3>1. pc = "register log" /\ open = {"cng"}
      BY <1>1, <2>2 DEF RegisterLog, Straight, Holdings
    <3>2. /\ open \cup {"module"} \in Holdings("load default")
          /\ open \cup {"module"} \in Holdings("returned") /\ open \cup {} \in Holdings("returned")
      BY <3>1 DEF Holdings
    <3>3. "load default" \in Place /\ "returned" \in Place
      BY DEF Place
    <3>4. \/ Straight(pc, "load default", open \cup {"module"})
          \/ Straight(pc, "returned", open \cup {"module"})
          \/ Straight(pc, "returned", open \cup {})
      BY <2>2, <3>1 DEF RegisterLog
    <3> QED BY <3>2, <3>3, <3>4
  <2>3. CASE LoadDefault
    <3>1. pc = "load default" /\ open = {"cng", "module"}
      BY <1>1, <2>3 DEF LoadDefault, Straight, Holdings
    <3>2. open \cup {"default"} \in Holdings("winsock") /\ open \ {"cng"} \in Holdings("returned")
      <4>1. /\ open \cup {"default"} = {"cng", "module", "default"}
            /\ open \ {"cng"} = {"module"}
        BY <3>1
      <4> QED BY <4>1 DEF Holdings
    <3>3. "winsock" \in Place /\ "returned" \in Place
      BY DEF Place
    <3>4. \/ Straight(pc, "winsock", open \cup {"default"})
          \/ Straight(pc, "returned", open \ {"cng"})
      BY <2>3, <3>1 DEF LoadDefault
    <3> QED BY <3>2, <3>3, <3>4
  <2>4. CASE StartWinsock
    <3>1. pc = "winsock" /\ open = {"cng", "module", "default"}
      BY <1>1, <2>4 DEF StartWinsock, Acquire, Straight, Holdings
    <3>2. open \cup {"winsock"} \in Holdings("ssl_ctx") /\ open \in Holdings("returned")
      <4>1. open \cup {"winsock"} = {"cng", "module", "default", "winsock"}
        BY <3>1
      <4> QED BY <3>1, <4>1 DEF Holdings
    <3>3. "ssl_ctx" \in Place /\ "returned" \in Place
      BY DEF Place
    <3>4. Straight(pc, "ssl_ctx", open \cup {"winsock"}) \/ Straight(pc, "returned", open)
      BY <2>4, <3>1 DEF StartWinsock, Acquire
    <3> QED BY <3>2, <3>3, <3>4
  <2>5. CASE CreateContext
    <3>1. pc = "ssl_ctx" /\ open = {"cng", "module", "default", "winsock"}
      BY <1>1, <2>5 DEF CreateContext, Acquire, Straight, Holdings
    <3>2. open \cup {"ssl_ctx"} \in Holdings("open for certificate") /\ open \in Holdings("returned")
      <4>1. open \cup {"ssl_ctx"} = Basis
        BY <3>1 DEF Basis
      <4> QED BY <3>1, <4>1 DEF Holdings
    <3>3. "open for certificate" \in Place /\ "returned" \in Place
      BY DEF Place
    <3>4. Straight(pc, "open for certificate", open \cup {"ssl_ctx"}) \/ Straight(pc, "returned", open)
      BY <2>5, <3>1 DEF CreateContext, Acquire
    <3> QED BY <3>2, <3>3, <3>4
  <2> QED BY <2>1, <2>2, <2>3, <2>4, <2>5
<1> QED BY <1>2, TypedStraight

(* What is acquired and what is given back after it.                       *)
LEMMA TypedConnects ==
  ASSUME Typed, CreateSocket \/ Connect \/ Handshake \/ Write \/ Read \/ Exit
  PROVE  Typed'
<1>1. open \in Holdings(pc)
  BY DEF Typed
<1>2. PICK to, kept : to \in Place /\ kept \in Holdings(to) /\ Straight(pc, to, kept)
  <2>1. CASE CreateSocket
    <3>1. pc = "socket" /\ open = Basis
      BY <1>1, <2>1 DEF CreateSocket, Acquire, Straight, Holdings
    <3> QED BY <2>1, <3>1 DEF CreateSocket, Acquire, Straight, Holdings, Place
  <2>2. CASE Connect
    <3>1. pc = "connect" /\ open \in {Basis, Basis \cup {"socket"}}
      BY <1>1, <2>2 DEF Connect, Straight, Holdings
    <3>2. CASE Straight("connect", "exit", open)
      BY <3>1, <3>2 DEF Straight, Holdings, Place
    <3>3. CASE "socket" \in open /\ Straight("connect", "handshake", open \cup {"ssl"})
      <4>1. open \cup {"ssl"} = Basis \cup {"socket", "ssl"}
        BY <3>1, <3>3 DEF Basis
      <4> QED BY <3>1, <3>3, <4>1 DEF Straight, Holdings, Place
    <3>4. CASE "socket" \in open /\ Straight("connect", "returned", open)
      <4>1. open = Basis \cup {"socket"} /\ open \in Holdings("returned") /\ "returned" \in Place
        BY <3>1, <3>4 DEF Basis, Holdings, Place
      <4> QED BY <3>1, <3>4, <4>1
    <3> QED BY <2>2, <3>2, <3>3, <3>4 DEF Connect
  <2>3. CASE Handshake \/ Write \/ Read
    <3>1. pc \in {"handshake", "write", "read"} /\ open = Basis \cup {"socket", "ssl"}
      BY <1>1, <2>3 DEF Handshake, Write, Read, Straight, Holdings
    <3>2. PICK to \in {"write", "read", "exit", "returned"} : Straight(pc, to, open)
      BY <2>3 DEF Handshake, Write, Read, Straight
    <3>3. open \in Holdings(to) /\ to \in Place
      BY <3>1 DEF Holdings, Place
    <3> QED BY <3>2, <3>3
  <2>4. CASE Exit
    <3>1. pc = "exit" /\ open \cap {"module"} = {"module"}
      BY <1>1, <2>4 DEF Exit, Straight, Holdings, Basis
    <3> QED BY <2>4, <3>1 DEF Exit, Straight, Holdings, Place
  <2> QED BY <2>1, <2>2, <2>3, <2>4
<1> QED BY <1>2, TypedStraight

LEMMA RankFromKey == ASSUME NEW n \in Nat, NEW g \in Nat PROVE g = n + (g - n)
OBVIOUS

(* What the stream gives is a certificate of the store or the key of one.  *)
LEMMA TypedGive ==
  ASSUME Typed, Stream!Give
  PROVE  /\ active' \in BOOLEAN /\ ended' \in BOOLEAN /\ gone' \subseteq 1..size
         /\ given' \in 0..2 * size /\ given' \in 1..size \cup {size + i : i \in usable}
<1>1. given' \in given + 1 .. 2 * size /\ given \in Nat /\ size \in Nat /\ usable \subseteq 1..size
  <2>1. /\ size \in 0..MaxCerts /\ MaxCerts \in Nat
        /\ given \in 0..2 * size /\ usable \subseteq 1..size
    BY ClientAssumption DEF Typed
  <2>2. size \in Nat
    BY <2>1
  <2>3. given \in Nat
    BY <2>1, <2>2, ZeroIsARank
  <2> QED BY <2>1, <2>2, <2>3 DEF Stream!Give
<1>2. given' \in 1..size \/ given' - size \in usable
  BY DEF Stream!Give, Stream!Deliverable
<1>3. given' \in 0..2 * size
  BY <1>1, ZeroIsARank
<1>4. given' - size \in usable => given' = size + (given' - size)
  <2>1. given' \in Nat
    BY <1>1, GivesTheNext
  <2>2. given' = size + (given' - size)
    BY <1>1, <2>1, RankFromKey
  <2> QED BY <2>2
<1>5. active' \in BOOLEAN /\ ended' \in BOOLEAN /\ gone' \subseteq 1..size
  BY DEF Stream!Give, Stream!NothingAfter, Typed
<1> QED BY <1>2, <1>3, <1>4, <1>5

(* A step in the search: the store is open, or is about to be.             *)
LEMMA TypedSearching ==
  ASSUME Typed, UNCHANGED <<matches, open>>, broken' = FALSE,
         size' \in 0..MaxCerts, usable' \subseteq 1..size', twins' \subseteq 1..size',
         active' \in BOOLEAN, ended' \in BOOLEAN, gone' \subseteq 1..size', given' \in 0..2 * size',
         pc \in {"open for certificate", "find certificate", "open for key", "find key", "close"},
         pc' \in {"find certificate", "open for key", "find key", "close", "socket", "exit"},
         after' \in {"open for key", "socket", "exit"},
         pubkey' \in 0..MaxCerts, ctx_cert' \in 0..MaxCerts, ctx_key' \in 0..MaxCerts,
         infos' \subseteq Pass \X (1..2 * MaxCerts),
         failure' \in BOOLEAN, refused' \in BOOLEAN
  PROVE  Typed'
<1>1. open' \in Holdings(pc')
  <2>1. open = Basis
    BY DEF Typed, Holdings
  <2> QED BY <2>1 DEF Holdings
<1>2. pc' \in Place
  BY DEF Place
<1> QED BY <1>1, <1>2 DEF Typed

(* What it needs to have, before and after.                                *)
LEMMA Kept ==
  ASSUME Typed
  PROVE  /\ size \in Nat /\ size \in 0..MaxCerts /\ broken = FALSE
         /\ usable \subseteq 1..size /\ twins \subseteq 1..size
         /\ active \in BOOLEAN /\ ended \in BOOLEAN
         /\ gone \subseteq 1..size /\ given \in 0..2 * size
         /\ pubkey \in 0..MaxCerts /\ ctx_cert \in 0..MaxCerts /\ ctx_key \in 0..MaxCerts
         /\ infos \subseteq Pass \X (1..2 * MaxCerts)
         /\ failure \in BOOLEAN /\ refused \in BOOLEAN
         /\ after \in {"open for key", "socket", "exit"}
<1>1. size \in 0..MaxCerts /\ MaxCerts \in Nat
  BY ClientAssumption DEF Typed
<1>2. size \in Nat
  BY <1>1
<1> QED BY <1>2 DEF Typed

LEMMA TypedOpenStore ==
  ASSUME Typed, NEW from, NEW to, OpenStore(from, to),
         from \in {"open for certificate", "open for key"}, to \in {"find certificate", "find key"}
  PROVE  Typed'
<1>1. /\ UNCHANGED <<size, usable, matches, twins, open, broken, after,
                      pubkey, ctx_cert, ctx_key, infos, refused>>
      /\ pc = from /\ pc' \in {to, "exit"} /\ failure' = FALSE
  BY DEF OpenStore, store, ssl
<1>2. CASE UNCHANGED store
  BY <1>1, <1>2, Kept, TypedSearching DEF store
<1>3. CASE Stream!Start
  <2>1. active' \in BOOLEAN /\ ended' \in BOOLEAN /\ gone' \subseteq 1..size /\ given' = 0
    BY <1>3 DEF Stream!Start, Stream!NothingAfter
  <2> QED BY <1>1, <2>1, Kept, ZeroIsARank, TypedSearching
<1> QED BY <1>2, <1>3 DEF OpenStore

LEMMA TypedStoreChanges ==
  ASSUME Typed, StoreChanges, ~active => given = 0 /\ gone = {}, ~active
  PROVE  Typed'
<1>1. /\ UNCHANGED <<active, given, gone, ended, broken, matches, pc, after, open, infos,
                      pubkey, ctx_cert, ctx_key, failure, refused>>
      /\ pc = "open for key"
      /\ size' \in 0..MaxCerts /\ usable' \subseteq 1..size' /\ twins' \subseteq 1..size'
  BY DEF StoreChanges, ssl
<1>2. size' \in Nat
  <2>1. size' \in 0..MaxCerts /\ MaxCerts \in Nat
    BY <1>1, ClientAssumption
  <2> QED BY <2>1
<1>3. given' \in 0..2 * size' /\ gone' \subseteq 1..size'
  BY <1>1, <1>2, ZeroIsARank
<1> QED BY <1>1, <1>3, Kept, TypedSearching

LEMMA TypedCloseStore ==
  ASSUME Typed, CloseStore PROVE Typed'
<1>1. /\ UNCHANGED <<size, usable, matches, twins, open, broken, after,
                      pubkey, ctx_cert, ctx_key, infos, failure, refused>>
      /\ pc = "close" /\ pc' = after
  BY DEF CloseStore, ssl
<1>2. active' \in BOOLEAN /\ ended' \in BOOLEAN /\ gone' \subseteq 1..size /\ given' = 0
  BY DEF CloseStore, Stream!Stop
<1> QED BY <1>1, <1>2, Kept, ZeroIsARank, TypedSearching

(* A pass ends without what it looked for.                                 *)
LEMMA TypedGivesUp ==
  ASSUME Typed, LoadFails \/ NotFound, pc \in Pass PROVE Typed'
<1>1. /\ UNCHANGED <<size, usable, matches, twins, open, broken, infos,
                      pubkey, ctx_cert, ctx_key, refused>>
      /\ pc' = "close" /\ after' = "exit"
  BY DEF LoadFails, NotFound, store, ssl, Leave
<1>2. failure' \in BOOLEAN
  BY DEF LoadFails, NotFound, Typed
<1>3. UNCHANGED store \/ Stream!Give
  BY DEF LoadFails, NotFound
<1>4. active' \in BOOLEAN /\ ended' \in BOOLEAN /\ gone' \subseteq 1..size /\ given' \in 0..2 * size
  BY <1>1, <1>3, Kept, TypedGive DEF store
<1> QED BY <1>1, <1>2, <1>4, Kept, TypedSearching DEF Pass

LEMMA DoubleUpTo ==
  ASSUME NEW m \in Nat, NEW n \in 0..m, NEW g \in 1..2 * n
  PROVE  g \in 1..2 * m
OBVIOUS

(* An object is loaded, and its OSSL_STORE_INFO is there.                  *)
LEMMA TypedLoad ==
  ASSUME Typed, Load, pc \in Pass
  PROVE  /\ Stream!Give /\ UNCHANGED <<size, usable, broken>>
         /\ active' \in BOOLEAN /\ ended' \in BOOLEAN /\ gone' \subseteq 1..size
         /\ given' \in 0..2 * size
         /\ infos' \subseteq Pass \X (1..2 * MaxCerts)
<1>1. Stream!Give /\ UNCHANGED <<size, usable, broken>> /\ infos' = infos \cup {<<pc, given'>>}
  BY DEF Load
<1>2. /\ active' \in BOOLEAN /\ ended' \in BOOLEAN /\ gone' \subseteq 1..size
      /\ given' \in 0..2 * size
  BY <1>1, TypedGive
<1>3. given' \in 1..2 * size
  <2>1. size \in Nat /\ given \in Nat
    <3>1. size \in Nat /\ given \in 0..2 * size
      BY Kept
    <3> QED BY <3>1, ZeroIsARank
  <2>2. given' \in given + 1 .. 2 * size
    BY <1>1 DEF Stream!Give
  <2> QED BY <2>1, <2>2
<1>4. given' \in 1..2 * MaxCerts
  BY <1>3, Kept, ClientAssumption, DoubleUpTo
<1>5. <<pc, given'>> \in Pass \X (1..2 * MaxCerts)
  BY <1>4
<1>6. infos' \subseteq Pass \X (1..2 * MaxCerts)
  BY <1>1, <1>5, Kept, Zenon
<1> QED BY <1>1, <1>2, <1>6

LEMMA TypedFindCertificate ==
  ASSUME Typed, FindCertificate PROVE Typed'
<1>1. CASE LoadFails \/ NotFound
  BY <1>1, TypedGivesUp DEF FindCertificate, Pass
<1>2. ASSUME Load, IF given' \in matches THEN UseCertificate ELSE Skip
      PROVE  Typed'
  <2>1. /\ UNCHANGED <<size, usable, broken>>
        /\ active' \in BOOLEAN /\ ended' \in BOOLEAN
        /\ gone' \subseteq 1..size /\ given' \in 0..2 * size
        /\ infos' \subseteq Pass \X (1..2 * MaxCerts)
    BY <1>2, TypedLoad DEF FindCertificate, Pass
  <2>2. CASE Skip
    BY <1>2, <2>1, <2>2, Kept, TypedSearching DEF FindCertificate, Skip, ssl
  <2>3. CASE given' \in matches /\ UseCertificate
    <3>1. given' \in 0..MaxCerts
      BY <2>3, Kept, ZeroIsARank, ClientAssumption DEF Typed
    <3>2. pubkey' \in 0..MaxCerts /\ ctx_cert' \in 0..MaxCerts /\ twins' \subseteq 1..size
      BY <2>3, <3>1, Kept DEF UseCertificate, KeepPublicKey
    <3>3. /\ UNCHANGED <<matches, ctx_key, open, failure, refused>>
          /\ pc' = "close" /\ after' \in {"open for key", "exit"}
      BY <2>3 DEF UseCertificate, Leave
    <3> QED BY <1>2, <2>1, <3>2, <3>3, Kept, TypedSearching DEF FindCertificate
  <2> QED BY <1>2, <2>2, <2>3
<1> QED BY <1>1, <1>2 DEF FindCertificate

LEMMA TypedFindKey ==
  ASSUME Typed, FindKey PROVE Typed'
<1>1. CASE LoadFails \/ NotFound
  BY <1>1, TypedGivesUp DEF FindKey, Pass
<1>2. ASSUME Load, IF KeyMatches THEN UsePrivateKey ELSE Skip
      PROVE  Typed'
  <2>1. /\ UNCHANGED <<size, usable, broken>>
        /\ active' \in BOOLEAN /\ ended' \in BOOLEAN
        /\ gone' \subseteq 1..size /\ given' \in 0..2 * size
        /\ infos' \subseteq Pass \X (1..2 * MaxCerts)
    BY <1>2, TypedLoad DEF FindKey, Pass
  <2>2. CASE Skip
    BY <1>2, <2>1, <2>2, Kept, TypedSearching DEF FindKey, Skip, ssl
  <2>3. CASE KeyMatches /\ UsePrivateKey
    <3>1. PairOf(given' - size) = pubkey
      BY <2>3 DEF KeyMatches
    <3>2. ctx_key' \in 0..MaxCerts
      BY <2>3, <3>1, Kept DEF UsePrivateKey, ssl
    <3>3. /\ UNCHANGED <<matches, twins, open, pubkey, ctx_cert, failure>>
          /\ pc' \in {"close", "exit"} /\ after' \in {after, "socket"}
      BY <2>3 DEF UsePrivateKey, Leave, ssl
    <3>4. refused' \in BOOLEAN
      BY <2>3, Kept DEF UsePrivateKey
    <3> QED BY <1>2, <2>1, <3>2, <3>3, <3>4, Kept, TypedSearching DEF FindKey
  <2> QED BY <1>2, <2>2, <2>3
<1> QED BY <1>1, <1>2 DEF FindKey

(* A store that is closed has given nothing. *)
Closed == /\ ~active => given = 0 /\ gone = {}
          /\ pc = "open for key" => ~active

LEMMA ClosedNext == Closed /\ [Next]_vars => Closed'
<1> SUFFICES ASSUME Closed, [Next]_vars PROVE Closed'
  OBVIOUS
<1>1. CASE FindCertificate \/ FindKey
  <2>1. Stream!Give \/ UNCHANGED store
    BY <1>1 DEF FindCertificate, FindKey, Load, LoadFails, NotFound
  <2>2. pc' # "open for key"
    BY <1>1 DEF FindCertificate, FindKey, LoadFails, NotFound, UseCertificate, UsePrivateKey,
       Skip, Leave
  <2>3. CASE Stream!Give
    <3>1. active'
      BY <2>3, Zenon DEF Stream!Give
    <3> QED BY <2>2, <3>1, Zenon DEF Closed
  <2>4. CASE UNCHANGED store
    BY <2>2, <2>4 DEF store, Closed
  <2> QED BY <2>1, <2>3, <2>4
<1>2. CASE \/ OpenStore("open for certificate", "find certificate")
           \/ OpenStore("open for key", "find key")
  BY <1>2 DEF OpenStore, Stream!Start, store, Closed
<1>3. CASE CloseStore
  BY <1>3 DEF CloseStore, Stream!Stop, Closed
<1>4. CASE StoreChanges
  BY <1>4 DEF StoreChanges, Closed
<1>5. CASE UNCHANGED vars
  BY <1>5 DEF vars, store, Closed
<1>6. CASE \/ LoadCng \/ RegisterLog \/ LoadDefault \/ StartWinsock \/ CreateContext
           \/ CreateSocket \/ Connect \/ Handshake \/ Write \/ Read \/ Exit
  BY <1>6 DEF LoadCng, RegisterLog, LoadDefault, StartWinsock, CreateContext, CreateSocket,
     Connect, Handshake, Write, Read, Exit, Acquire, Straight, store, Closed
<1> QED BY <1>1, <1>2, <1>3, <1>4, <1>5, <1>6 DEF Next, Main

LEMMA TypedNext == Typed /\ Closed /\ [Next]_vars => Typed'
<1> SUFFICES ASSUME Typed, Closed, [Next]_vars PROVE Typed'
  OBVIOUS
<1>1. CASE LoadCng \/ RegisterLog \/ LoadDefault \/ StartWinsock \/ CreateContext
  BY <1>1, TypedSetUp
<1>2. CASE \/ OpenStore("open for certificate", "find certificate")
           \/ OpenStore("open for key", "find key")
  BY <1>2, TypedOpenStore
<1>3. CASE FindCertificate \/ FindKey \/ CloseStore
  BY <1>3, TypedFindCertificate, TypedFindKey, TypedCloseStore
<1>4. CASE CreateSocket \/ Connect \/ Handshake \/ Write \/ Read \/ Exit
  BY <1>4, TypedConnects
<1>5. CASE UNCHANGED vars
  BY <1>5 DEF vars, store, ssl, Typed
<1>6. CASE StoreChanges
  <2>1. ~active /\ (~active => given = 0 /\ gone = {})
    BY <1>6 DEF StoreChanges, Closed
  <2> QED BY <1>6, <2>1, TypedStoreChanges
<1> QED BY <1>1, <1>2, <1>3, <1>4, <1>5, <1>6 DEF Next, Main

LEMMA AlwaysTyped == Spec => [](Typed /\ Closed)
<1>1. Init => Closed
  BY DEF Init, Closed, Stream!Init
<1> QED BY <1>1, TypedInit, TypedNext, ClosedNext, PTL DEF Spec

(* Every variable keeps its type, and until it returns main() holds a      *)
(* prefix of what it acquires, whatever fails on the way; what it holds    *)
(* when it returns is the module at least, if it got that far.             *)
THEOREM ClientTypes == Spec => []TypeOK
<1>1. Typed => TypeOK
  BY HoldsAPrefix DEF Typed, TypeOK, Pass
<1> QED BY <1>1, AlwaysTyped, PTL

(***************************************************************************)
(* What main() leaves behind.                                              *)
(***************************************************************************)
Seen(pass, r) == <<pass, r>> \in infos

(* No private key is in the SSL_CTX yet. *)
Unkeyed ==
  \/ pc \in Beginning \cup {"open for key", "find key"}
  \/ pc = "close" /\ after = "open for key"

(* Every certificate of the second pass was loaded, and a key that matches. *)
KeyFound ==
  /\ \A i \in 1..size : Seen("find key", i)
  /\ \E i \in twins \cap usable : Seen("find key", size + i)

(* There is an OSSL_STORE_INFO for every object that a pass was given.     *)
Counted ==
  /\ pc \in Beginning \ {"find certificate"} => infos = {}
  /\ pc \in Beginning => pubkey = 0
  /\ pc = "find certificate" =>
       /\ \A r : Seen("find certificate", r) => r \in 1..given
       /\ \A i \in 1..size : i <= given => Seen("find certificate", i)
  /\ pubkey # 0 => \A r : Seen("find certificate", r) <=> r \in 1..pubkey
  /\ pc = "find key" => \A i \in 1..size : i <= given => Seen("find key", i)
  /\ Unkeyed => ctx_key = 0
  /\ ctx_key # 0 => KeyFound

LEMMA CountedInit == Init => Counted
BY DEF Init, Counted, Beginning

(* A step that neither loads nor chooses anything. *)
LEMMA CountedElsewhere ==
  ASSUME Counted, UNCHANGED <<infos, size, usable, twins, pubkey, ctx_key>>,
         pc' \notin {"find certificate", "find key"}, Unkeyed' => Unkeyed,
         pc' \in Beginning => pc \in Beginning \ {"find certificate"}
  PROVE  Counted'
BY DEF Counted, KeyFound, Seen, Beginning

LEMMA CountedStraight ==
  ASSUME Counted, NEW from, NEW to, NEW kept, Straight(from, to, kept),
         to \notin {"find certificate", "find key", "open for key", "close"},
         to \in Beginning => from \in Beginning \ {"find certificate"}
  PROVE  Counted'
<1>1. /\ UNCHANGED <<infos, size, usable, twins, pubkey, ctx_key>>
      /\ pc = from /\ pc' = to
  BY DEF Straight, store, ssl
<1>2. Unkeyed' => Unkeyed
  BY <1>1 DEF Unkeyed
<1> QED BY <1>1, <1>2, CountedElsewhere

LEMMA NoneUpToZero == ASSUME NEW n \in Nat PROVE \A i \in 1..n : ~(i <= 0)
OBVIOUS

LEMMA UpToTheNext ==
  ASSUME NEW n \in Nat, NEW m \in Nat, m > n
  PROVE  m \in 1..m /\ \A r \in 1..n : r \in 1..m
OBVIOUS

LEMMA UpToOneOf ==
  ASSUME NEW n \in Nat, NEW m \in 1..n
  PROVE  \A r \in 1..m : r \in 1..n /\ r <= m
OBVIOUS

LEMMA AllBefore ==
  ASSUME NEW n \in Nat, NEW m \in Nat, m > n
  PROVE  /\ \A i \in 1..n : i <= m
         /\ n + (m - n) = m
OBVIOUS

LEMMA CountedOpenStore ==
  ASSUME Counted, size \in Nat,
         \/ OpenStore("open for certificate", "find certificate")
         \/ OpenStore("open for key", "find key")
  PROVE  Counted'
<1>1. UNCHANGED <<infos, size, usable, twins, after, pubkey, ctx_key>>
  BY DEF OpenStore, store, ssl
<1>2. \A from, to : OpenStore(from, to) =>
        /\ pc = from
        /\ pc' = "exit" \/ (pc' = to /\ given' = 0)
  BY DEF OpenStore, store, Stream!Start
<1>3. \A i \in 1..size : ~(i <= 0)
  BY NoneUpToZero
<1>4. CASE pc' = "exit"
  BY <1>1, <1>4, CountedElsewhere DEF Unkeyed, Beginning
<1>5. CASE pc = "open for certificate" /\ pc' = "find certificate" /\ given' = 0
  BY <1>1, <1>3, <1>5 DEF Counted, KeyFound, Seen, Unkeyed, Beginning
<1>6. CASE pc = "open for key" /\ pc' = "find key" /\ given' = 0
  BY <1>1, <1>3, <1>6 DEF Counted, KeyFound, Seen, Unkeyed, Beginning
<1> QED BY <1>2, <1>4, <1>5, <1>6

LEMMA CountedStoreChanges == ASSUME Counted, StoreChanges PROVE Counted'
<1>1. pc = "open for key" /\ UNCHANGED <<infos, pc, after, pubkey, ctx_key>>
  BY DEF StoreChanges, ssl
<1>2. ctx_key = 0
  BY <1>1 DEF Counted, Unkeyed
<1> QED BY <1>1, <1>2 DEF Counted, Seen, Unkeyed, Beginning

LEMMA CountedCloseStore == ASSUME Chosen, Counted, CloseStore PROVE Counted'
<1>1. /\ pc = "close" /\ pc' = after /\ after' = after
      /\ UNCHANGED <<infos, size, usable, twins, pubkey, ctx_key>>
  BY DEF CloseStore, ssl
<1>2. after \in {"open for key", "socket", "exit"}
  BY DEF Chosen
<1>3. Unkeyed' => Unkeyed
  BY <1>1, <1>2 DEF Unkeyed, Beginning
<1> QED BY <1>1, <1>2, <1>3, CountedElsewhere DEF Beginning

LEMMA CountedGivesUp == ASSUME Counted, LoadFails \/ NotFound PROVE Counted'
<1>1. /\ UNCHANGED <<infos, size, usable, twins, pubkey, ctx_key>>
      /\ pc' = "close" /\ after' = "exit"
  BY DEF LoadFails, NotFound, Leave, store, ssl
<1> QED BY <1>1, CountedElsewhere DEF Unkeyed, Beginning

(* What was loaded up to the last object, and that one.                    *)
LEMMA LoadedToo ==
  ASSUME Chosen, Load
  PROVE  /\ given \in Nat /\ size \in Nat /\ given' \in Nat /\ given' > given
         /\ UNCHANGED <<size, usable>>
         /\ \A pass, r : Seen(pass, r)' <=> Seen(pass, r) \/ (pass = pc /\ r = given')
         /\ \A i \in 1..size : i <= given' <=> i <= given \/ i = given'
<1>1. Stream!Give /\ UNCHANGED <<size, usable>> /\ infos' = infos \cup {<<pc, given'>>}
  BY DEF Load
<1>2. /\ given \in Nat /\ size \in Nat /\ given' \in Nat /\ given' > given
      /\ \A i \in 1..size : i > given => given' <= i
  BY <1>1, GivesTheNext DEF Chosen
<1>3. \A pass, r : Seen(pass, r)' <=> Seen(pass, r) \/ <<pass, r>> = <<pc, given'>>
  BY <1>1, Zenon DEF Seen
<1>4. \A pass, r : <<pass, r>> = <<pc, given'>> <=> pass = pc /\ r = given'
  OBVIOUS
<1>5. ASSUME NEW i \in 1..size PROVE i <= given' <=> i <= given \/ i = given'
  BY <1>2
<1>6. \A pass, r : Seen(pass, r)' <=> Seen(pass, r) \/ (pass = pc /\ r = given')
  BY <1>3, <1>4, Zenon
<1>7. /\ given \in Nat /\ size \in Nat /\ given' \in Nat /\ given' > given
      /\ UNCHANGED <<size, usable>>
  BY <1>1, <1>2
<1> QED BY <1>5, <1>6, <1>7, Zenon

LEMMA CountedFindCertificate == ASSUME Chosen, Counted, FindCertificate PROVE Counted'
<1>1. CASE LoadFails \/ NotFound
  BY <1>1, CountedGivesUp
<1>2. CASE Load /\ (IF given' \in matches THEN UseCertificate ELSE Skip)
  <2>1. /\ pc = "find certificate" /\ pubkey = 0 /\ ctx_key = 0 /\ matches \subseteq 1..size
        /\ \A r : Seen("find certificate", r) => r \in 1..given
        /\ \A i \in 1..size : i <= given => Seen("find certificate", i)
    BY DEF FindCertificate, Counted, Unkeyed, Beginning, Chosen
  <2>0. /\ given \in Nat /\ size \in Nat /\ given' \in Nat /\ given' > given /\ size' = size
        /\ \A i \in 1..size : i <= given' <=> i <= given \/ i = given'
        /\ \A pass, r : Seen(pass, r)' <=> Seen(pass, r) \/ (pass = pc /\ r = given')
    BY <1>2, LoadedToo, Zenon
  <2>2. /\ size' = size
        /\ \A r : Seen("find certificate", r)' <=> Seen("find certificate", r) \/ r = given'
        /\ \A i \in 1..size : i <= given' <=> i <= given \/ i = given'
    BY <2>0, <2>1
  <2>3. \A r : Seen("find certificate", r)' => r \in 1..given'
    <3>1. given' \in 1..given' /\ \A r \in 1..given : r \in 1..given'
      BY <2>0, UpToTheNext, Zenon
    <3> QED BY <2>1, <2>2, <3>1
  <2>4. \A i \in 1..size : i <= given' => Seen("find certificate", i)'
    BY <2>1, <2>2
  <2>5. CASE Skip
    <3>1. UNCHANGED <<pc, after, pubkey, ctx_key>>
      BY <2>5 DEF Skip, ssl
    <3> QED BY <2>1, <2>2, <2>3, <2>4, <3>1 DEF Counted, Beginning
  <2>6. CASE given' \in matches /\ UseCertificate
    <3>1. pubkey' = given' /\ ctx_key' = ctx_key /\ pc' = "close"
      BY <2>6 DEF UseCertificate, KeepPublicKey, Leave
    <3>2. \A r \in 1..given' : r \in 1..size /\ r <= given'
      <4>1. given' \in 1..size /\ size \in Nat
        BY <2>0, <2>1, <2>6
      <4> QED BY <4>1, UpToOneOf
    <3>3. \A r : Seen("find certificate", r)' <=> r \in 1..given'
      BY <2>3, <2>4, <3>2
    <3> QED BY <2>1, <3>1, <3>3 DEF Counted, Beginning
  <2> QED BY <1>2, <2>5, <2>6
<1> QED BY <1>1, <1>2 DEF FindCertificate

LEMMA CountedFindKey == ASSUME Chosen, Counted, FindKey PROVE Counted'
<1>1. CASE LoadFails \/ NotFound
  BY <1>1, CountedGivesUp
<1>2. CASE Load /\ (IF KeyMatches THEN UsePrivateKey ELSE Skip)
  <2>1. /\ pc = "find key" /\ ctx_key = 0 /\ pubkey \in 1..MaxCerts /\ Stream!Give
        /\ \A i \in 1..size : i <= given => Seen("find key", i)
        /\ pubkey # 0 => \A r : Seen("find certificate", r) <=> r \in 1..pubkey
    BY <1>2 DEF FindKey, Counted, Unkeyed, Beginning, Chosen, CertChosen, Load
  <2>0. /\ given \in Nat /\ size \in Nat /\ given' \in Nat /\ UNCHANGED <<size, usable>>
        /\ \A i \in 1..size : i <= given' <=> i <= given \/ i = given'
        /\ \A pass, r : Seen(pass, r)' <=> Seen(pass, r) \/ (pass = pc /\ r = given')
    BY <1>2, LoadedToo, Zenon
  <2>2. /\ UNCHANGED <<size, usable>>
        /\ \A r : Seen("find key", r)' <=> Seen("find key", r) \/ r = given'
        /\ \A r : Seen("find certificate", r)' <=> Seen("find certificate", r)
        /\ \A i \in 1..size : i <= given' <=> i <= given \/ i = given'
    <3>1. pc = "find key" /\ pc # "find certificate"
      BY <2>1
    <3> QED BY <2>0, <3>1, Zenon
  <2>3. \A i \in 1..size : i <= given' => Seen("find key", i)'
    BY <2>1, <2>2
  <2>4. pubkey # 0 => \A r : Seen("find certificate", r)' <=> r \in 1..pubkey
    BY <2>1, <2>2
  <2>5. CASE Skip
    <3>1. UNCHANGED <<pc, after, pubkey, ctx_key>>
      BY <2>5 DEF Skip, ssl
    <3> QED BY <2>1, <2>2, <2>3, <2>4, <3>1 DEF Counted, Beginning
  <2>6. CASE KeyMatches /\ UsePrivateKey
    <3>1. pubkey' = pubkey /\ twins' = twins /\ pc' \in {"close", "exit"}
          /\ (ctx_key' = ctx_key \/ (pc' = "close" /\ after' = "socket"))
      BY <2>6 DEF UsePrivateKey, Leave, ssl
    <3>2. given' > size /\ given' - size \in twins \cap usable
      BY <2>0, <2>1, <2>6, MatchingKey DEF KeyMatches
    <3>3. \A i \in 1..size : Seen("find key", i)'
      <4>1. \A i \in 1..size : i <= given'
        BY <2>0, <3>2, AllBefore
      <4> QED BY <2>3, <4>1
    <3>4. size + (given' - size) = given'
      BY <2>0, <3>2, AllBefore
    <3>5. KeyFound'
      <4>1. <<"find key", size + (given' - size)>> \in infos'
        BY <1>2, <2>1, <3>4 DEF Load
      <4> QED BY <2>2, <3>1, <3>2, <3>3, <4>1 DEF KeyFound, Seen
    <3> QED BY <2>1, <2>4, <3>1, <3>5 DEF Counted, Unkeyed, Beginning
  <2> QED BY <1>2, <2>5, <2>6
<1> QED BY <1>1, <1>2 DEF FindKey

LEMMA CountedStep == Chosen /\ Counted /\ [Next]_vars => Counted'
<1> SUFFICES ASSUME Chosen, Counted, [Next]_vars PROVE Counted'
  OBVIOUS
<1>1. CASE LoadCng \/ RegisterLog \/ LoadDefault \/ StartWinsock \/ CreateContext
  <2>1. PICK from, to, kept :
          Straight(from, to, kept) /\ from \in Beginning \ {"find certificate"}
          /\ to \in {"register log", "load default", "winsock", "ssl_ctx",
                     "open for certificate", "returned"}
    BY <1>1 DEF LoadCng, RegisterLog, LoadDefault, StartWinsock, CreateContext, Acquire, Beginning
  <2> QED BY <2>1, CountedStraight
<1>2. CASE CreateSocket \/ Connect \/ Handshake \/ Write \/ Read \/ Exit
  <2>1. PICK from, to, kept :
          Straight(from, to, kept)
          /\ to \in {"connect", "handshake", "write", "read", "exit", "returned"}
    BY <1>2 DEF CreateSocket, Connect, Handshake, Write, Read, Exit, Acquire
  <2> QED BY <2>1, CountedStraight DEF Beginning
<1>3. CASE \/ OpenStore("open for certificate", "find certificate")
           \/ OpenStore("open for key", "find key")
  BY <1>3, CountedOpenStore DEF Chosen
<1>4. CASE FindCertificate \/ FindKey \/ CloseStore \/ StoreChanges
  BY <1>4, CountedFindCertificate, CountedFindKey, CountedCloseStore, CountedStoreChanges
<1>5. CASE UNCHANGED vars
  BY <1>5 DEF vars, store, ssl, Counted, KeyFound, Seen, Unkeyed, Beginning
<1> QED BY <1>1, <1>2, <1>3, <1>4, <1>5 DEF Next, Main

LEMMA PassUpTo ==
  ASSUME NEW m \in Nat, NEW n \in 0..m
  PROVE  \A i \in 1..n : i \in 1..2 * m
OBVIOUS

LEMMA PassOfKeys ==
  ASSUME NEW m \in Nat, NEW n \in 0..m, NEW i \in 1..n
  PROVE  n + i \in 1..2 * m
OBVIOUS

LEMMA ExitStep ==
  ASSUME Looking, Typed, Counted, [Next]_vars, pc = "exit", pc' = "returned"
  PROVE  /\ {"cng", "default", "winsock", "ssl_ctx"} \subseteq open
         /\ open' = {"module"}
         /\ active' => refused'
         /\ pubkey # 0 => Loaded("find certificate")' = 1..pubkey
         /\ ctx_key # 0 => /\ 1..size \subseteq Loaded("find key")'
                           /\ \E i \in twins \cap usable : size + i \in Loaded("find key")'
<1>1. Exit
  BY DEF Next, Main, FindKey, FindCertificate, OpenStore, CloseStore, LoadCng, RegisterLog,
     LoadDefault, StartWinsock, CreateContext, CreateSocket, Connect, Handshake, Write,
     Read, Acquire, Straight, StoreChanges, vars
<1>2. active' => refused'
  BY <1>1 DEF Exit, Straight, store, Looking
<1>3. open \in Holdings("exit")
  BY DEF Typed
<1>4. {"cng", "default", "winsock", "ssl_ctx"} \subseteq open /\ open \cap {"module"} = {"module"}
  BY <1>3 DEF Holdings, Basis
<1>5. open' = open \cap {"module"} /\ infos' = infos
  BY <1>1 DEF Exit, Straight
<1>6. /\ MaxCerts \in Nat /\ size \in 0..MaxCerts /\ pubkey \in 0..MaxCerts
      /\ usable \subseteq 1..size
  BY ClientAssumption DEF Typed
<1>7. \A pass : Loaded(pass)' = {r \in 1..2 * MaxCerts : Seen(pass, r)}
  BY <1>5 DEF Loaded, Seen
<1>8. ASSUME pubkey # 0 PROVE Loaded("find certificate")' = 1..pubkey
  <2>1. \A r : Seen("find certificate", r) <=> r \in 1..pubkey
    BY <1>8 DEF Counted
  <2>2. \A i \in 1..pubkey : i \in 1..2 * MaxCerts
    BY <1>6, PassUpTo
  <2> QED BY <1>7, <2>1, <2>2, Zenon
<1>9. ASSUME ctx_key # 0
      PROVE  /\ 1..size \subseteq Loaded("find key")'
             /\ \E i \in twins \cap usable : size + i \in Loaded("find key")'
  <2>1. /\ \A i \in 1..size : Seen("find key", i)
        /\ \E i \in twins \cap usable : Seen("find key", size + i)
    BY <1>9 DEF Counted, KeyFound
  <2>2. /\ \A i \in 1..size : i \in 1..2 * MaxCerts
        /\ \A i \in 1..size : size + i \in 1..2 * MaxCerts
    BY <1>6, PassUpTo, PassOfKeys
  <2> QED BY <1>6, <1>7, <2>1, <2>2
<1> QED BY <1>2, <1>4, <1>5, <1>8, <1>9

(* The exit label releases what was acquired and no more; what it leaves   *)
(* is the module, the store after a refusal of the private key, and one    *)
(* OSSL_STORE_INFO for every object that was loaded, those that the key    *)
(* pair in the SSL_CTX came in among them.                                 *)
THEOREM ExitLeavesWhatItForgets == Spec => LeavesWhatItForgets
<1>1. Looking /\ Typed /\ Counted /\ [Next]_vars =>
        [pc = "exit" /\ pc' = "returned" =>
           /\ {"cng", "default", "winsock", "ssl_ctx"} \subseteq open
           /\ open' = {"module"}
           /\ active' => refused'
           /\ pubkey # 0 => Loaded("find certificate")' = 1..pubkey
           /\ ctx_key # 0 => /\ 1..size \subseteq Loaded("find key")'
                             /\ \E i \in twins \cap usable :
                                  size + i \in Loaded("find key")']_vars
  BY ExitStep
<1>2. Spec => []Counted
  BY CountedInit, CountedStep, SearchIsSound, PTL DEF Spec
<1> QED BY <1>1, <1>2, SearchIsSound, AlwaysTyped, PTL DEF Spec, LeavesWhatItForgets
=============================================================================
