------------------------------ MODULE TlsProofs ------------------------------
(***************************************************************************)
(* Proofs about the programs that talk TLS: UkeyClient, for any set of     *)
(* tokens, any number of tries and of signatures; GmExchange and           *)
(* TasslExchange, for any number of retries.                               *)
(***************************************************************************)
EXTENDS UkeyClient, SequenceTheorems, TLAPS

CONSTANT MaxRetry
VARIABLES
  client, server, listening, connected, lost, to_server, to_client,
  awaited, shaken, szBuffer, retry, heard, hsm

(* The two pairs of programs, each with the variables it has. *)
Gm == INSTANCE GmExchange
Tassl == INSTANCE TasslExchange

(* The steps of ukey_export and ukey_sign after their first. *)
SessionStep ==
  \/ EnumSize \/ EnumNames \/ ConnectDev \/ OpenApplication \/ OpenContainer
  \/ VerifyPIN \/ ExportData \/ SignData \/ Close \/ Format

(* The steps of ukey_sslcli. *)
MainStep == Start \/ Load \/ Connect \/ Handshake \/ Signed \/ Write \/ Read

LEMMA NextSplits ==
  ASSUME [Next]_vars
  PROVE  Fetch \/ Sign \/ SessionStep \/ MainStep \/ Swap \/ UNCHANGED vars
BY DEF Next, Program, SessionStep, MainStep

(* A session leaves ukey_sslcli and the SSL_CTX alone. *)
LEMMA SessionKeepsSsl ==
  ASSUME Fetch \/ Sign \/ SessionStep \/ Swap \/ UNCHANGED vars
  PROVE  UNCHANGED <<main, ctx_cert, ctx_key, signed>>
<1>1. CASE Fetch \/ Sign
  BY <1>1 DEF Fetch, Sign, Begin, ssl
<1>2. CASE EnumSize \/ EnumNames \/ ConnectDev \/ OpenApplication \/ OpenContainer
  BY <1>2 DEF EnumSize, EnumNames, ConnectDev, OpenApplication, OpenContainer, Step, Fails,
     StepFails, ssl
<1>3. CASE VerifyPIN \/ ExportData \/ SignData \/ Format
  BY <1>3 DEF VerifyPIN, ExportData, SignData, Format, Step, Fails, StepFails, ssl
<1>4. CASE Close
  BY <1>4 DEF Close, CloseStep, Step, Fails, StepFails, ssl
<1>5. CASE Swap \/ UNCHANGED vars
  BY <1>5 DEF Swap, vars, ssl
<1> QED BY <1>1, <1>2, <1>3, <1>4, <1>5 DEF SessionStep
-----------------------------------------------------------------------------
(* The slots are filled in order, and ukey_sslcli passes a slot only with  *)
(* a pair in it.                                                           *)
Paired(s) == ctx_key[s] # NoToken /\ ctx_key[s] = ctx_cert[s]

SlotsInOrder ==
  /\ DOMAIN ctx_cert = Slot /\ ctx_cert = [s \in Slot |-> ctx_cert[s]]
  /\ DOMAIN ctx_key = Slot /\ ctx_key = [s \in Slot |-> ctx_key[s]]
  /\ main \in {"enc cert", "enc key", "connect"} \cup Connected => Paired("sign")
  /\ main \in {"connect"} \cup Connected => Paired("enc")

LEMMA SlotsInit == Init => SlotsInOrder
BY DEF Init, SlotsInOrder, Paired, Connected, Slot

LEMMA SlotsUseCert ==
  ASSUME SlotsInOrder,
         \/ UseCert("sign", "sign cert", "sign key")
         \/ UseCert("enc", "enc cert", "enc key")
  PROVE  SlotsInOrder'
BY DEF UseCert, Go, SlotsInOrder, Paired, Connected, Slot

LEMMA SlotsUseKey ==
  ASSUME SlotsInOrder,
         \/ UseKey("sign", "sign key", "enc cert")
         \/ UseKey("enc", "enc key", "connect")
  PROVE  SlotsInOrder'
BY DEF UseKey, Go, SlotsInOrder, Paired, Connected, Slot

LEMMA SlotsNext == ASSUME SlotsInOrder, [Next]_vars PROVE SlotsInOrder'
<1>1. CASE Load
  BY <1>1, SlotsUseCert, SlotsUseKey DEF Load
<1>2. CASE Start \/ Connect \/ Handshake \/ Signed \/ Write \/ Read
  BY <1>2 DEF Start, Connect, Handshake, Signed, Write, Read, Onward, Go, SlotsInOrder, Paired,
     Connected, Signing
<1>3. CASE UNCHANGED <<main, ctx_cert, ctx_key, signed>>
  BY <1>3 DEF SlotsInOrder, Paired
<1> QED BY <1>1, <1>2, <1>3, NextSplits, SessionKeepsSsl DEF MainStep

(* The client connects only with the certificate and the key of one token  *)
(* in each slot, whatever tokens were in the reader between the sessions   *)
(* that fetched them.                                                      *)
THEOREM ConnectsWithPairs == Spec => []PairsMatch
<1>1. SlotsInOrder => PairsMatch
  BY DEF SlotsInOrder, Paired, PairsMatch, Slot
<1> QED BY <1>1, SlotsInit, SlotsNext, PTL DEF Spec
-----------------------------------------------------------------------------
(* The handles a session holds where it is. *)
Held ==
  CASE call \in {"application", "disconnect"} -> {"device"}
    [] call \in {"container", "close application"} -> {"device", "application"}
    [] call \in {"pin", "export", "operation", "close container"} -> Kind
    [] OTHER -> {}

Outside == call \in {"none", "done"}

(* A handle is held by the session in progress, which was made for what    *)
(* ukey_sslcli is doing, or was left by a call with a step that failed.    *)
HandlesAccounted ==
  /\ open \subseteq (Export \cup {"signature"}) \X Kind
  /\ \A h \in open : h[1] \in broke \/ (h[1] = Purpose /\ h[2] \in Held)
  /\ ~Outside => main \in Export \cup Signing
  /\ main = "sign cert" /\ from_file["sign"] # NoToken => call = "none"
  /\ main = "enc cert" /\ from_file["enc"] # NoToken => call = "none"

LEMMA HandlesInit == Init => HandlesAccounted
BY DEF Init, HandlesAccounted, Outside

(* The first step of a call, and those that leave the handles as they are. *)
LEMMA HandlesBegin == ASSUME HandlesAccounted, Fetch \/ Sign PROVE HandlesAccounted'
<1> USE DEF HandlesAccounted, Held, Outside, Begin, Purpose, ssl, user
<1>1. CASE Fetch
  BY <1>1 DEF Fetch, Export
<1>2. CASE Sign
  BY <1>2 DEF Sign, Signing
<1> QED BY <1>1, <1>2

LEMMA HandlesFail ==
  ASSUME HandlesAccounted, NEW from, StepFails(from), from \notin {"none", "done"}
  PROVE  HandlesAccounted'
BY DEF HandlesAccounted, StepFails, Held, Outside, Purpose, ssl, user

LEMMA HandlesAdd ==
  ASSUME HandlesAccounted, ~Outside, NEW kind \in Kind,
         open' = open \cup {<<Purpose, kind>>}, Held' = Held \cup {kind},
         UNCHANGED <<main, from_file, broke>>
  PROVE  HandlesAccounted'
<1>1. Purpose' = Purpose /\ Purpose \in Export \cup {"signature"}
  BY DEF HandlesAccounted, Purpose
<1>2. <<Purpose, kind>> \in (Export \cup {"signature"}) \X Kind
  BY <1>1
<1>3. ASSUME NEW h \in open'
      PROVE  h[1] \in broke' \/ (h[1] = Purpose' /\ h[2] \in Held')
  <2>1. CASE h = <<Purpose, kind>>
    BY <1>1, <2>1
  <2>2. CASE h \in open
    BY <1>1, <2>2 DEF HandlesAccounted
  <2> QED BY <1>3, <2>1, <2>2
<1> QED BY <1>2, <1>3 DEF HandlesAccounted, Outside

LEMMA HandlesRemove ==
  ASSUME HandlesAccounted, ~Outside, NEW kind \in Kind,
         open' = open \ {<<Purpose, kind>>}, Held' = Held \ {kind},
         UNCHANGED <<main, from_file, broke>>
  PROVE  HandlesAccounted'
<1>1. Purpose' = Purpose
  BY DEF Purpose
<1>2. ASSUME NEW h \in open'
      PROVE  h[1] \in broke' \/ (h[1] = Purpose' /\ h[2] \in Held')
  <2>1. h \in (Export \cup {"signature"}) \X Kind /\ h # <<Purpose, kind>>
    BY <1>2 DEF HandlesAccounted
  <2>2. h = <<h[1], h[2]>>
    BY <2>1
  <2> QED BY <1>1, <1>2, <2>1, <2>2 DEF HandlesAccounted
<1> QED BY <1>2 DEF HandlesAccounted, Outside

LEMMA HandlesOpen ==
  ASSUME HandlesAccounted, ConnectDev \/ OpenApplication \/ OpenContainer
  PROVE  HandlesAccounted'
<1> USE DEF Held, Kind, Outside, Step, Fails, ssl, user
<1>1. CASE ConnectDev
  BY <1>1, HandlesFail, HandlesAdd DEF ConnectDev
<1>2. CASE OpenApplication
  BY <1>2, HandlesFail, HandlesAdd DEF OpenApplication
<1>3. CASE OpenContainer
  BY <1>3, HandlesFail, HandlesAdd DEF OpenContainer
<1> QED BY <1>1, <1>2, <1>3

LEMMA HandlesClose == ASSUME HandlesAccounted, Close PROVE HandlesAccounted'
<1> USE DEF Held, Kind, Outside, CloseStep, Step, Fails, ssl, user
<1>1. CASE CloseStep("close container", "container", "close application")
  BY <1>1, HandlesFail, HandlesRemove
<1>2. CASE CloseStep("close application", "application", "disconnect")
  BY <1>2, HandlesFail, HandlesRemove
<1>3. CASE CloseStep("disconnect", "device", IF main \in Signing THEN "format" ELSE "done")
  BY <1>3, HandlesFail, HandlesRemove
<1> QED BY <1>1, <1>2, <1>3 DEF Close

LEMMA HandlesWork ==
  ASSUME HandlesAccounted,
         EnumSize \/ EnumNames \/ VerifyPIN \/ ExportData \/ SignData \/ Format
  PROVE  HandlesAccounted'
<1> USE DEF HandlesAccounted, Held, Outside, Purpose, Step, Fails, Export, Signing, ssl, user
<1>1. CASE EnumSize \/ EnumNames
  BY <1>1, HandlesFail DEF EnumSize, EnumNames
<1>2. CASE VerifyPIN
  BY <1>2, HandlesFail DEF VerifyPIN
<1>3. CASE ExportData \/ SignData
  BY <1>3, HandlesFail DEF ExportData, SignData
<1>4. CASE Format
  BY <1>4, HandlesFail DEF Format
<1> QED BY <1>1, <1>2, <1>3, <1>4

LEMMA HandlesMain == ASSUME HandlesAccounted, MainStep PROVE HandlesAccounted'
<1> USE DEF HandlesAccounted, Held, Outside, Purpose, Go, Export, Signing, user
<1>1. CASE Load
  BY <1>1 DEF Load, UseCert, UseKey
<1>2. CASE Start \/ Connect \/ Handshake \/ Write \/ Read
  BY <1>2 DEF Start, Connect, Handshake, Write, Read, Onward
<1>3. CASE Signed
  <2>1. call = "done" /\ call' = "none" /\ UNCHANGED <<open, broke>>
    BY <1>3 DEF Signed
  <2>2. main' \in Signing \cup {"returned", "exited"}
    BY <1>3 DEF Signed
  <2> QED BY <2>1, <2>2
<1> QED BY <1>1, <1>2, <1>3 DEF MainStep

LEMMA HandlesNext == ASSUME HandlesAccounted, [Next]_vars PROVE HandlesAccounted'
<1>1. CASE Swap \/ UNCHANGED vars
  BY <1>1 DEF Swap, vars, user, session, ssl, HandlesAccounted, Held, Outside, Purpose
<1> QED
  BY <1>1, NextSplits, HandlesBegin, HandlesOpen, HandlesClose, HandlesWork, HandlesMain
  DEF SessionStep

(* A call in which every step went well leaves no handle open.             *)
THEOREM HandlesLeftOnlyByFailure == Spec => []LeftOnlyByFailure
<1>1. HandlesAccounted => LeftOnlyByFailure
  BY DEF HandlesAccounted, LeftOnlyByFailure, Held, Outside
<1> QED BY <1>1, HandlesInit, HandlesNext, PTL DEF Spec
-----------------------------------------------------------------------------
(* The first signature that fails is the last: from then on ukey_sslcli is *)
(* about to be told, or has ended.                                         *)
Down ==
  \/ main \in {"returned", "exited"}
  \/ main \in Signing /\ call = "done" /\ ret = NoToken

(* A session for a signature goes past the PIN only on a token that takes  *)
(* it, and gives its result when it is over.                               *)
PinComesFirst ==
  /\ call \in {"pin", "operation", "format"} => main \in Signing
  /\ call = "export" => main \in Export
  /\ main \in Signing =>
       /\ call \in {"operation", "close container", "close application", "disconnect", "format"}
            => name \in pin_ok
       /\ ~Outside => ret = NoToken
       /\ call = "done" /\ ret # NoToken => ret \in pin_ok
  /\ "signature" \in broke => Down
  /\ signed \in Nat

LEMMA PinInit == Init => PinComesFirst
BY DEF Init, PinComesFirst, Outside, Signing

LEMMA PinBegin == ASSUME PinComesFirst, Fetch \/ Sign PROVE PinComesFirst'
<1> USE DEF PinComesFirst, Begin, Outside, Down, Purpose, Signing, Export, ssl, user
<1>1. CASE Fetch
  BY <1>1 DEF Fetch
<1>2. CASE Sign
  BY <1>2 DEF Sign
<1> QED BY <1>1, <1>2

LEMMA PinFail ==
  ASSUME PinComesFirst, HandlesAccounted, NEW from, StepFails(from), from \notin {"none", "done"}
  PROVE  PinComesFirst'
BY DEF PinComesFirst, HandlesAccounted, StepFails, Outside, Down, Purpose, Signing, Export, ssl,
   user

LEMMA PinSession == ASSUME PinComesFirst, HandlesAccounted, SessionStep PROVE PinComesFirst'
<1> USE DEF PinComesFirst, Step, Fails, Outside, Down, Signing, Export, ssl, user
<1>1. CASE EnumSize \/ EnumNames
  BY <1>1, PinFail DEF EnumSize, EnumNames
<1>2. CASE ConnectDev \/ OpenApplication
  BY <1>2, PinFail DEF ConnectDev, OpenApplication
<1>3. CASE OpenContainer
  BY <1>3, PinFail DEF OpenContainer, HandlesAccounted
<1>4. CASE VerifyPIN
  BY <1>4, PinFail DEF VerifyPIN
<1>5. CASE ExportData \/ SignData
  BY <1>5, PinFail DEF ExportData, SignData
<1>6. CASE Close
  BY <1>6, PinFail DEF Close, CloseStep
<1>7. CASE Format
  BY <1>7, PinFail DEF Format
<1> QED BY <1>1, <1>2, <1>3, <1>4, <1>5, <1>6, <1>7 DEF SessionStep

LEMMA PinMain == ASSUME PinComesFirst, HandlesAccounted, MainStep PROVE PinComesFirst'
<1> USE DEF PinComesFirst, Go, Outside, Down, Signing, Export, user
<1>1. CASE Load
  BY <1>1 DEF Load, UseCert, UseKey
<1>2. CASE Start \/ Connect \/ Handshake \/ Write \/ Read
  BY <1>2 DEF Start, Connect, Handshake, Write, Read, Onward
<1>3. CASE Signed
  <2>1. main \in Signing /\ call = "done" /\ call' = "none" /\ UNCHANGED broke
    BY <1>3 DEF Signed
  <2>2. CASE ret # NoToken
    <3>1. main' = main /\ signed' = signed + 1
      BY <1>3, <2>2 DEF Signed
    <3> QED BY <2>1, <2>2, <3>1
  <2>3. CASE ret = NoToken
    <3>1. main' \in {"returned", "exited"} /\ signed' = signed
      BY <1>3, <2>3 DEF Signed
    <3> QED BY <2>1, <3>1
  <2> QED BY <2>2, <2>3
<1> QED BY <1>1, <1>2, <1>3 DEF MainStep

LEMMA PinNext == ASSUME PinComesFirst, HandlesAccounted, [Next]_vars PROVE PinComesFirst'
<1>1. CASE Swap \/ UNCHANGED vars
  BY <1>1 DEF Swap, vars, user, session, ssl, PinComesFirst, Outside, Down
<1> QED BY <1>1, NextSplits, PinBegin, PinSession, PinMain

(* A signature that OpenSSL is given comes from a session that closed all  *)
(* its handles, on a token that takes the PIN.                             *)
THEOREM SignaturesComeFromClosedSessions == Spec => SignatureClosesItsSession
<1> DEFINE Safe == signed' > signed => ret \in pin_ok /\ \A h \in open : h[1] # "signature"
<1>1. ASSUME PinComesFirst, HandlesAccounted, [Next]_vars
      PROVE  Safe
  <2>1. CASE UNCHANGED signed
    <3>1. signed \in Nat
      BY <1>1 DEF PinComesFirst
    <3>2. ~(signed' > signed)
      BY <2>1, <3>1
    <3> QED BY <3>2
  <2>2. CASE Signed /\ ret # NoToken
    <3>1. main \in Signing /\ call = "done"
      BY <2>2 DEF Signed
    <3>2. ret \in pin_ok /\ "signature" \notin broke
      BY <1>1, <2>2, <3>1 DEF PinComesFirst, Down, Signing
    <3>3. \A h \in open : h[1] # "signature"
      BY <1>1, <3>1, <3>2 DEF HandlesAccounted, Held
    <3> QED BY <3>2, <3>3
  <2>3. CASE Signed /\ ret = NoToken
    <3>1. UNCHANGED signed
      BY <2>3 DEF Signed
    <3> QED BY <2>1, <3>1
  <2>4. CASE Load
    <3>1. UNCHANGED signed
      BY <2>4 DEF Load, UseCert, UseKey
    <3> QED BY <2>1, <3>1
  <2>5. CASE Start \/ Connect \/ Handshake \/ Write \/ Read
    <3>1. UNCHANGED signed
      BY <2>5 DEF Start, Connect, Handshake, Write, Read, Onward
    <3> QED BY <2>1, <3>1
  <2> QED BY <1>1, <2>1, <2>2, <2>3, <2>4, <2>5, NextSplits, SessionKeepsSsl DEF MainStep
<1>2. PinComesFirst /\ HandlesAccounted /\ [Next]_vars => [Safe]_vars
  BY <1>1
<1> QED
  BY <1>2, HandlesInit, HandlesNext, PinInit, PinNext, PTL DEF Spec, SignatureClosesItsSession
-----------------------------------------------------------------------------
(* One wrong PIN is counted against one token at most, and it is the last. *)
AttemptsCounted ==
  /\ wrong \in [Token -> Nat]
  /\ OneWrongPinAtMost
  /\ (\E t \in Token : wrong[t] > 0) => Down

LEMMA AttemptsInit == Init => AttemptsCounted
BY DEF Init, AttemptsCounted, OneWrongPinAtMost

(* Whoever is about to verify a PIN has met no wrong one. *)
LEMMA AttemptsPin ==
  ASSUME AttemptsCounted, PinComesFirst, VerifyPIN
  PROVE  AttemptsCounted'
<1>1. call = "pin" /\ main \in Signing
  BY DEF VerifyPIN, Step, Fails, StepFails, PinComesFirst
<1>2. ~Down
  BY <1>1 DEF Down, Signing
<1>3. \A t \in Token : wrong[t] = 0
  BY <1>2 DEF AttemptsCounted
<1>4. CASE wrong' = wrong \/ wrong' = [wrong EXCEPT ![name] = 0]
  <2>1. wrong' \in [Token -> Nat] /\ \A t \in Token : wrong'[t] = 0
    BY <1>3, <1>4 DEF AttemptsCounted
  <2> QED BY <2>1 DEF AttemptsCounted, OneWrongPinAtMost
<1>5. CASE StepFails("pin") /\ wrong' = [wrong EXCEPT ![name] = @ + 1]
  <2>1. wrong' \in [Token -> Nat] /\ \A t \in Token : wrong'[t] = IF t = name THEN 1 ELSE 0
    <3>1. CASE name \in Token
      <4>1. wrong[name] + 1 = 1
        BY <1>3, <3>1
      <4>2. wrong' = [wrong EXCEPT ![name] = wrong[name] + 1]
        BY <1>5
      <4>3. wrong' = [wrong EXCEPT ![name] = 1]
        BY <4>1, <4>2, Zenon
      <4> QED BY <1>3, <3>1, <4>3 DEF AttemptsCounted
    <3>2. CASE name \notin Token
      <4>1. wrong' = wrong
        BY <1>5, <3>2 DEF AttemptsCounted
      <4> QED BY <1>3, <3>2, <4>1 DEF AttemptsCounted
    <3> QED BY <3>1, <3>2
  <2>2. OneWrongPinAtMost'
    BY <2>1 DEF OneWrongPinAtMost
  <2>3. Down'
    <3>1. ret = NoToken
      BY <1>1 DEF PinComesFirst, Outside
    <3> QED BY <1>1, <1>5, <3>1 DEF StepFails, Down, ssl
  <2> QED BY <2>1, <2>2, <2>3 DEF AttemptsCounted
<1> QED BY <1>4, <1>5 DEF VerifyPIN, Fails

(* Every other step keeps the counts, and what is down stays down. *)
LEMMA OthersKeepWrong ==
  ASSUME [Next]_vars, ~VerifyPIN
  PROVE  UNCHANGED wrong
<1>1. CASE Fetch \/ Sign
  BY <1>1 DEF Fetch, Sign, Begin
<1>2. CASE EnumSize \/ EnumNames \/ ConnectDev \/ OpenApplication \/ OpenContainer
  BY <1>2 DEF EnumSize, EnumNames, ConnectDev, OpenApplication, OpenContainer, Step, Fails
<1>3. CASE ExportData \/ SignData \/ Close \/ Format
  BY <1>3 DEF ExportData, SignData, Close, CloseStep, Format, Fails
<1>4. CASE Start \/ Connect \/ Handshake \/ Signed \/ Write \/ Read
  BY <1>4 DEF Start, Connect, Handshake, Signed, Write, Read, Onward, Go
<1>5. CASE Load
  BY <1>5 DEF Load, UseCert, UseKey, Go
<1>6. CASE Swap \/ UNCHANGED vars
  BY <1>6 DEF Swap, vars, session
<1> QED BY <1>1, <1>2, <1>3, <1>4, <1>5, <1>6, NextSplits DEF SessionStep, MainStep

LEMMA DownStaysDown == ASSUME Down, HandlesAccounted, [Next]_vars PROVE Down'
<1>1. CASE Fetch \/ Sign
  BY <1>1 DEF Fetch, Sign, Begin, Down, Export, Signing
<1>2. CASE SessionStep
  <2>1. ~Outside
    BY <1>2 DEF SessionStep, EnumSize, EnumNames, ConnectDev, OpenApplication, OpenContainer,
       VerifyPIN, ExportData, SignData, Close, CloseStep, Format, Step, Fails, StepFails, Outside
  <2>2. main \in Export \cup Signing
    BY <2>1 DEF HandlesAccounted
  <2> QED BY <2>1, <2>2 DEF Down, Outside, Export, Signing
<1>3. CASE Signed
  <2>1. CASE main \in Signing /\ call = "done" /\ ret = NoToken
    BY <1>3, <2>1 DEF Signed, Go, Down
  <2>2. CASE main \in {"returned", "exited"}
    BY <1>3, <2>2 DEF Signed, Signing
  <2> QED BY <2>1, <2>2 DEF Down
<1>4. CASE Start \/ Load \/ Connect \/ Handshake \/ Write \/ Read
  BY <1>4 DEF Start, Load, UseCert, UseKey, Connect, Handshake, Write, Read, Onward, Down, Signing
<1>5. CASE Swap \/ UNCHANGED vars
  BY <1>5 DEF Swap, vars, session, ssl, Down
<1> QED BY <1>1, <1>2, <1>3, <1>4, <1>5, NextSplits DEF MainStep

LEMMA AttemptsNext ==
  ASSUME AttemptsCounted, PinComesFirst, HandlesAccounted, [Next]_vars
  PROVE  AttemptsCounted'
<1>1. CASE ~VerifyPIN
  BY <1>1, OthersKeepWrong, DownStaysDown DEF AttemptsCounted, OneWrongPinAtMost
<1> QED BY <1>1, AttemptsPin

(* A run costs a user with the wrong PIN at most one attempt, on all       *)
(* tokens together, however many signatures the server asks for.           *)
THEOREM OneAttemptPerRun == Spec => []OneWrongPinAtMost
<1>1. AttemptsCounted => OneWrongPinAtMost
  BY DEF AttemptsCounted
<1>2. Spec => [](PinComesFirst /\ HandlesAccounted)
  BY HandlesInit, HandlesNext, PinInit, PinNext, PTL DEF Spec
<1> QED BY <1>1, <1>2, AttemptsInit, AttemptsNext, PTL DEF Spec
-----------------------------------------------------------------------------
(* The types, with what bounds the signatures: a call is made from a place *)
(* that has a purpose for it, and one for a signature while there is one   *)
(* left to make.                                                           *)
Calls == {"size", "names", "device", "application", "container", "pin", "export", "operation",
          "close container", "close application", "disconnect", "format", "done"}

Typed ==
  /\ TypeOK
  /\ call # "none" => main \in Export \cup Signing
  /\ call # "none" /\ main \in Signing => signed < MaxSigned

LEMMA TypedInit == Init => Typed
<1> SUFFICES ASSUME Init PROVE Typed
  OBVIOUS
<1>1. 0 \in 0..MaxTries /\ 0 \in 0..MaxSigned
  BY UkeyAssumption
<1>2. wrong \in [Token -> 0..MaxTries] /\ signed \in 0..MaxSigned
  BY <1>1 DEF Init
<1>3. /\ open \subseteq (Export \cup {"signature"}) \X Kind
      /\ broke \subseteq Export \cup {"signature"}
  BY DEF Init
<1>4. ctx_cert \in [Slot -> Token \cup {NoToken}] /\ ctx_key \in [Slot -> Token \cup {NoToken}]
  BY DEF Init
<1> QED BY <1>2, <1>3, <1>4 DEF Init, Typed, TypeOK

LEMMA TypedPurpose ==
  ASSUME Typed, call # "none" PROVE Purpose \in Export \cup {"signature"}
BY DEF Typed, Purpose

LEMMA TypedBegin ==
  ASSUME Typed, Begin, main \in Export \/ (main \in Signing /\ signed < MaxSigned)
  PROVE  Typed'
<1>1. Purpose \in Export \cup {"signature"}
  BY DEF Purpose
<1>2. broke' \subseteq Export \cup {"signature"}
  BY <1>1 DEF Typed, TypeOK, Begin
<1>3. Export \cap Signing = {}
  BY DEF Export, Signing
<1>4. call' \in {"size", "done"}
  BY DEF Begin
<1> QED BY <1>2, <1>3, <1>4 DEF Typed, TypeOK, Begin, user, ssl

(* A step of a session. *)
LEMMA TypedSession ==
  ASSUME Typed, SessionStep PROVE Typed'
<1>1. call \in Calls /\ main \in Export \cup Signing
  <2>1. call # "none"
    BY DEF SessionStep, EnumSize, EnumNames, ConnectDev, OpenApplication, OpenContainer, VerifyPIN,
       ExportData, SignData, Close, CloseStep, Format, Step, Fails, StepFails
  <2> QED BY <2>1 DEF Typed, TypeOK, Calls
<1>2. Purpose \in Export \cup {"signature"}
  BY <1>1, TypedPurpose DEF Calls
<1>3. UNCHANGED <<inserted, pin_ok, from_file, main, ctx_cert, ctx_key, signed>>
  BY DEF SessionStep, EnumSize, EnumNames, ConnectDev, OpenApplication, OpenContainer, VerifyPIN,
     ExportData, SignData, Close, CloseStep, Format, Step, Fails, StepFails, user, ssl
<1>4. ASSUME NEW from, StepFails(from), wrong' \in [Token -> 0..MaxTries]
      PROVE  Typed'
  <2>1. broke' \subseteq Export \cup {"signature"}
    BY <1>2, <1>4 DEF Typed, TypeOK, StepFails
  <2> QED BY <1>1, <1>3, <1>4, <2>1 DEF Typed, TypeOK, StepFails, Calls
<1>5. wrong \in [Token -> 0..MaxTries]
  BY DEF Typed, TypeOK
<1>6. ASSUME NEW from, Fails(from) PROVE Typed'
  BY <1>4, <1>5, <1>6 DEF Fails
<1>7. ASSUME NEW from, NEW to \in Calls, Step(from, to),
             to \in {"pin", "operation", "format"} => main \in Signing,
             api' \in BOOLEAN, sized' \in BOOLEAN, alive' \in BOOLEAN,
             name' \in Token \cup {NoToken}, ret' \in Token \cup {NoToken},
             open' \subseteq (Export \cup {"signature"}) \X Kind,
             wrong' \in [Token -> 0..MaxTries]
      PROVE  Typed'
  BY <1>1, <1>3, <1>7 DEF Typed, TypeOK, Step, Calls
<1>8. ASSUME NEW kind \in Kind
      PROVE  open \cup {<<Purpose, kind>>} \subseteq (Export \cup {"signature"}) \X Kind
  <2>1. <<Purpose, kind>> \in (Export \cup {"signature"}) \X Kind
    BY <1>2
  <2>2. open \subseteq (Export \cup {"signature"}) \X Kind
    BY DEF Typed, TypeOK
  <2> QED BY <2>1, <2>2
<1>9. CASE EnumSize \/ EnumNames
  BY <1>6, <1>7, <1>9 DEF Typed, TypeOK, EnumSize, EnumNames, Calls
<1>10. CASE ConnectDev \/ OpenApplication \/ OpenContainer
  BY <1>6, <1>7, <1>8, <1>10 DEF Typed, TypeOK, ConnectDev,
     OpenApplication, OpenContainer, Calls, Kind
<1>11. CASE VerifyPIN
  <2>1. CASE Fails("pin")
    BY <1>6, <2>1
  <2>2. CASE ~Fails("pin")
    <3>1. name \in Token => wrong[name] \in 0..MaxTries
      BY DEF Typed, TypeOK
    <3>2. call = "pin"
      BY <1>11, <2>2 DEF VerifyPIN, Step, StepFails
    <3>3. wrong' \in [Token -> 0..MaxTries]
      BY <1>11, <2>2, <3>1, <1>5, UkeyAssumption DEF VerifyPIN
    <3> QED BY <1>4, <1>7, <1>11, <2>2, <3>2, <3>3 DEF Typed, TypeOK, VerifyPIN, Calls
  <2> QED BY <2>1, <2>2
<1>12. CASE ExportData \/ SignData
  BY <1>6, <1>7, <1>12 DEF Typed, TypeOK, ExportData, SignData, Calls
<1>13. ASSUME NEW from, NEW kind, NEW to \in Calls, CloseStep(from, kind, to),
              to \in {"pin", "operation", "format"} => main \in Signing
       PROVE  Typed'
  BY <1>6, <1>7, <1>13 DEF Typed, TypeOK, CloseStep
<1>14. CASE Close
  BY <1>13, <1>14 DEF Close, Calls
<1>15. CASE Format
  BY <1>6, <1>7, <1>15 DEF Typed, TypeOK, Format, Calls
<1> QED BY <1>9, <1>10, <1>11, <1>12, <1>14, <1>15 DEF SessionStep

(* A step of ukey_sslcli. *)
LEMMA TypedMain ==
  ASSUME Typed, MainStep PROVE Typed'
<1>1. ASSUME NEW to, Go(to),
             to \in Export \cup Connected \cup {"start", "connect", "returned", "exited"},
             ctx_cert' \in [Slot -> Token \cup {NoToken}],
             ctx_key' \in [Slot -> Token \cup {NoToken}],
             signed' \in 0..MaxSigned
      PROVE  Typed'
  BY <1>1 DEF Typed, TypeOK, Go, user
<1>2. CASE Start \/ Connect \/ Handshake \/ Write \/ Read
  BY <1>1, <1>2 DEF Start, Connect, Handshake, Write, Read, Onward, Export, Connected, Typed, TypeOK
<1>3. ASSUME NEW slot \in Slot, NEW here, NEW next \in Export, UseCert(slot, here, next)
      PROVE  Typed'
  BY <1>1, <1>3 DEF UseCert, Typed, TypeOK
<1>4. ASSUME NEW slot \in Slot, NEW here, NEW next \in Export \cup {"connect"},
             UseKey(slot, here, next)
      PROVE  Typed'
  BY <1>1, <1>4 DEF UseKey, Typed, TypeOK
<1>5. CASE Load
  BY <1>3, <1>4, <1>5 DEF Load, Slot, Export
<1>6. CASE Signed
  <2>1. signed < MaxSigned /\ signed \in 0..MaxSigned /\ main \in Connected
    BY <1>6 DEF Signed, Typed, TypeOK, Signing, Connected
  <2>2. signed + 1 \in 0..MaxSigned
    BY <2>1, UkeyAssumption
  <2> QED BY <1>1, <1>6, <2>1, <2>2 DEF Signed, Typed, TypeOK
<1> QED BY <1>2, <1>5, <1>6 DEF MainStep

LEMMA TypedNext == Typed /\ [Next]_vars => Typed'
<1> SUFFICES ASSUME Typed, [Next]_vars PROVE Typed'
  OBVIOUS
<1>1. CASE Fetch \/ Sign
  BY <1>1, TypedBegin DEF Fetch, Sign
<1>2. CASE Swap \/ UNCHANGED vars
  <2>1. /\ UNCHANGED <<pin_ok, from_file, main, ctx_cert, ctx_key, signed>>
        /\ UNCHANGED <<api, call, sized, name, ret, open, wrong, broke>>
        /\ alive' \in {FALSE, alive} /\ inserted' \in Token \cup {NoToken, inserted}
    BY <1>2 DEF Swap, vars, user, session, ssl
  <2>2. api' \in BOOLEAN /\ sized' \in BOOLEAN /\ alive' \in BOOLEAN
    BY <2>1 DEF Typed, TypeOK
  <2>3. wrong' \in [Token -> 0..MaxTries] /\ signed' \in 0..MaxSigned
    BY <2>1 DEF Typed, TypeOK
  <2>4. open' \subseteq (Export \cup {"signature"}) \X Kind
    BY <2>1 DEF Typed, TypeOK
  <2>5. /\ pin_ok' \subseteq Token /\ broke' \subseteq Export \cup {"signature"}
        /\ from_file' \in [Slot -> Token \cup {NoToken}]
        /\ ctx_cert' \in [Slot -> Token \cup {NoToken}]
        /\ ctx_key' \in [Slot -> Token \cup {NoToken}]
    BY <2>1 DEF Typed, TypeOK
  <2>6. inserted' \in Token \cup {NoToken}
    BY <2>1 DEF Typed, TypeOK
  <2>7. main' = main /\ call' = call /\ name' = name /\ ret' = ret /\ signed' = signed
    BY <2>1
  <2> QED BY <2>2, <2>3, <2>4, <2>5, <2>6, <2>7, Zenon DEF Typed, TypeOK
<1> QED BY <1>1, <1>2, TypedSession, TypedMain, NextSplits

(* Every variable keeps its type: a PIN is verified for signatures only,   *)
(* no token takes more wrong PINs than block it, no more signatures are    *)
(* delivered than were asked for.                                          *)
THEOREM UkeyTypes == Spec => []TypeOK
<1>1. Typed => TypeOK
  BY DEF Typed
<1> QED BY <1>1, TypedInit, TypedNext, PTL DEF Spec
-----------------------------------------------------------------------------
(* One thing on a channel, or nothing.                                     *)
LEMMA OneOnIt ==
  ASSUME NEW x
  PROVE  /\ <<x>> # <<>> /\ Head(<<x>>) = x /\ Tail(<<x>>) = <<>>
         /\ Append(<<>>, x) = <<x>>
OBVIOUS

LEMMA TwoOnIt ==
  ASSUME NEW x, NEW y
  PROVE  /\ Append(<<x>>, y) = <<x, y>>
         /\ <<x, y>> # <<>> /\ Head(<<x, y>>) = x /\ Tail(<<x, y>>) = <<y>>
<1>1. <<x>> \in Seq({x, y}) /\ <<x, y>> \in Seq({x, y}) /\ y \in {x, y}
  OBVIOUS
<1>2. /\ Append(<<x>>, y) \in Seq({x, y}) /\ Len(Append(<<x>>, y)) = 2
      /\ Append(<<x>>, y)[1] = x /\ Append(<<x>>, y)[2] = y
  BY <1>1, AppendProperties
<1>a. Len(<<x, y>>) = 2 /\ <<x, y>>[1] = x /\ <<x, y>>[2] = y
  OBVIOUS
<1>b. \A i \in 1..2 : Append(<<x>>, y)[i] = <<x, y>>[i]
  <2> SUFFICES ASSUME NEW i \in 1..2 PROVE Append(<<x>>, y)[i] = <<x, y>>[i]
    OBVIOUS
  <2>1. i = 1 \/ i = 2
    OBVIOUS
  <2> QED BY <2>1, <1>2, <1>a
<1> DEFINE s == Append(<<x>>, y)  t == <<x, y>>
<1>c. /\ s \in Seq({x, y}) /\ t \in Seq({x, y}) /\ Len(s) = 2 /\ Len(t) = 2
      /\ \A i \in 1..2 : s[i] = t[i]
  BY <1>1, <1>2, <1>a, <1>b
<1> HIDE DEF s, t
<1>3. s = t
  BY <1>c, SeqEqual
<1>4. Tail(<<x, y>>) = <<y>>
  OBVIOUS
<1> QED BY <1>3, <1>4 DEF s, t

LEMMA ThreeOnIt ==
  ASSUME NEW x, NEW y, NEW z
  PROVE  Append(<<x, y>>, z) = <<x, y, z>>
<1> DEFINE s == Append(<<x, y>>, z)  t == <<x, y, z>>
<1>1. <<x, y>> \in Seq({x, y, z}) /\ t \in Seq({x, y, z}) /\ z \in {x, y, z}
  OBVIOUS
<1>2. s \in Seq({x, y, z}) /\ Len(s) = 3 /\ s[1] = x /\ s[2] = y /\ s[3] = z
  <2>1. Len(<<x, y>>) = 2 /\ <<x, y>>[1] = x /\ <<x, y>>[2] = y
    OBVIOUS
  <2> QED BY <1>1, <2>1, AppendProperties
<1>3. Len(t) = 3 /\ t[1] = x /\ t[2] = y /\ t[3] = z
  OBVIOUS
<1> HIDE DEF s, t
<1>4. \A i \in 1..Len(s) : s[i] = t[i]
  <2> SUFFICES ASSUME NEW i \in 1..3 PROVE s[i] = t[i]
    BY <1>2
  <2>1. i = 1 \/ i = 2 \/ i = 3
    OBVIOUS
  <2> QED BY <2>1, <1>2, <1>3
<1>5. s = t
  BY <1>1, <1>2, <1>3, <1>4, SeqEqual
<1> QED BY <1>5 DEF s, t

LEMMA JoinOne ==
  ASSUME NEW x
  PROVE  <<>> \o <<x>> = <<x>> /\ <<x>> \o <<>> = <<x>> /\ <<>> \o <<>> = <<>>
<1>1. <<x>> \in Seq({x}) /\ <<>> \in Seq({x})
  OBVIOUS
<1> QED BY <1>1, ConcatEmptySeq

LEMMA JoinIsAppend ==
  ASSUME NEW S, NEW s \in Seq(S), NEW x \in S PROVE s \o <<x>> = Append(s, x)
BY AppendIsConcat

First == {<<"c1">>, <<"garbage", "c1">>}
(* The first n messages of the conversation, as they were written.         *)
Text == Seq(Gm!Line)
Begins(h, n) ==
  /\ h \in Seq(Text) /\ Len(h) = n
  /\ n > 0 => h[1] \in First
  /\ \A k \in 2..n : h[k] = Gm!Script[k]
(* What is on its way when n messages were heard.                          *)
NextOne(m, n) ==
  /\ n = 0 => m \in First
  /\ n # 0 => m = Gm!Script[n + 1]

LEMMA ScriptIs ==
  /\ Gm!Script[1] = <<"c1">> /\ Gm!Script[2] = <<"s1">>
  /\ Gm!Script[3] = <<"s1", "c2">> /\ Gm!Script[4] = <<"s1", "c2", "s2">>
  /\ Len(Gm!Script) = 4 /\ Gm!Script \in Seq(Text)
<1>1. \A l \in Gm!Line : <<l>> \in Text
  BY DEF Text
<1>2. \A l, m \in Gm!Line : <<l, m>> \in Text
  BY DEF Text
<1>3. \A l, m, n \in Gm!Line : <<l, m, n>> \in Text
  BY DEF Text
<1>4. {<<"c1">>, <<"s1">>, <<"s1", "c2">>, <<"s1", "c2", "s2">>} \subseteq Text
  BY <1>1, <1>2, <1>3 DEF Gm!Line
<1> QED BY <1>4 DEF Gm!Script

LEMMA ScriptType == \A k \in 1..4 : Gm!Script[k] \in Text
BY ScriptIs, ElementOfSeq

(* The messages in their turn.                                             *)
LEMMA NextIs ==
  /\ \A m \in First : NextOne(m, 0)
  /\ NextOne(<<"s1">>, 1) /\ NextOne(<<"s1", "c2">>, 2) /\ NextOne(<<"s1", "c2", "s2">>, 3)
<1>1. ASSUME NEW m, m \in First, NEW n, n = 0 PROVE NextOne(m, n)
  BY <1>1 DEF NextOne
<1>2. ASSUME NEW n \in Nat, n # 0 PROVE NextOne(Gm!Script[n + 1], n)
  BY <1>2 DEF NextOne
<1>3. NextOne(Gm!Script[1 + 1], 1) /\ NextOne(Gm!Script[2 + 1], 2) /\ NextOne(Gm!Script[3 + 1], 3)
  BY <1>2
<1>4. 1 + 1 = 2 /\ 2 + 1 = 3 /\ 3 + 1 = 4
  OBVIOUS
<1> QED BY <1>1, <1>3, <1>4, ScriptIs

LEMMA NoFlight ==
  \A m \in First \cup {<<"s1">>, <<"s1", "c2">>, <<"s1", "c2", "s2">>} :
    m \notin Gm!Flight /\ m \in Text
<1>1. <<"c1">> \notin Gm!Flight
  BY DEF Gm!Flight
<1>2. <<"garbage", "c1">> \notin Gm!Flight
  BY DEF Gm!Flight
<1>3. <<"s1">> \notin Gm!Flight
  BY DEF Gm!Flight
<1>4. <<"s1", "c2">> \notin Gm!Flight
  BY DEF Gm!Flight
<1>5. <<"s1", "c2", "s2">> \notin Gm!Flight
  BY DEF Gm!Flight
<1>6. <<"c1">> \in Text /\ <<"garbage", "c1">> \in Text
  BY DEF Gm!Line, Text
<1>7. {<<"s1">>, <<"s1", "c2">>, <<"s1", "c2", "s2">>} \subseteq Text
  BY ScriptIs, ScriptType
<1>8. \A m \in First \cup {<<"s1">>, <<"s1", "c2">>, <<"s1", "c2", "s2">>} : m \notin Gm!Flight
  BY <1>1, <1>2, <1>3, <1>4, <1>5 DEF First
<1> QED BY <1>6, <1>7, <1>8 DEF First

LEMMA MessageIs ==
  /\ \A m \in First : Gm!Message(m) = Gm!Script[1]
  /\ \A k \in 2..4 : Gm!Message(Gm!Script[k]) = Gm!Script[k]
<1>1. Gm!Message(<<"c1">>) = <<"c1">>
  BY OneOnIt DEF Gm!Message
<1>2. Gm!Message(<<"garbage", "c1">>) = <<"c1">>
  BY TwoOnIt DEF Gm!Message
<1>3. Gm!Message(<<"s1">>) = <<"s1">>
  BY DEF Gm!Message
<1>4. Gm!Message(<<"s1", "c2">>) = <<"s1", "c2">>
  BY DEF Gm!Message
<1>5. Gm!Message(<<"s1", "c2", "s2">>) = <<"s1", "c2", "s2">>
  BY DEF Gm!Message
<1>6. \A k \in 2..4 : k = 2 \/ k = 3 \/ k = 4
  OBVIOUS
<1> QED BY <1>1, <1>2, <1>3, <1>4, <1>5, <1>6, ScriptIs, Zenon DEF First

Said(n) == SubSeq(Gm!Script, 1, n)

LEMMA SaidIs ==
  ASSUME NEW n \in 0..4
  PROVE  /\ Said(n) \in Seq(Text) /\ Len(Said(n)) = n
         /\ \A k \in 1..n : Said(n)[k] = Gm!Script[k]
<1>1. \A k \in 1..n : Gm!Script[k] \in Text
  BY ScriptType
<1>2. /\ SubSeq(Gm!Script, 1, n) \in Seq(Text)
      /\ Len(SubSeq(Gm!Script, 1, n)) = IF 1 <= n THEN n - 1 + 1 ELSE 0
      /\ \A i \in 1..n - 1 + 1 : SubSeq(Gm!Script, 1, n)[i] = Gm!Script[1 + i - 1]
  BY <1>1, SubSeqProperties
<1>3. n - 1 + 1 = n /\ \A i \in 1..n : 1 + i - 1 = i
  OBVIOUS
<1>4. Len(SubSeq(Gm!Script, 1, n)) = n
  BY <1>2
<1>5. \A i \in 1..n : SubSeq(Gm!Script, 1, n)[i] = Gm!Script[i]
  BY <1>2, <1>3
<1> QED BY <1>2, <1>4, <1>5 DEF Said

(* One message more was said.                                              *)
LEMMA SaidOneMore ==
  ASSUME NEW n \in 0..3
  PROVE  Said(n + 1) = Append(Said(n), Gm!Script[n + 1])
<1>1. /\ Said(n) \in Seq(Text) /\ Len(Said(n)) = n
      /\ Said(n + 1) \in Seq(Text) /\ Len(Said(n + 1)) = n + 1
      /\ \A k \in 1..n : Said(n)[k] = Gm!Script[k]
      /\ \A k \in 1..n + 1 : Said(n + 1)[k] = Gm!Script[k]
  <2>1. n \in 0..4 /\ n + 1 \in 0..4
    OBVIOUS
  <2> QED BY <2>1, SaidIs
<1>2. Gm!Script[n + 1] \in Text
  BY ScriptType
<1>3. /\ Append(Said(n), Gm!Script[n + 1]) \in Seq(Text)
      /\ Len(Append(Said(n), Gm!Script[n + 1])) = n + 1
      /\ \A k \in 1..n : Append(Said(n), Gm!Script[n + 1])[k] = Said(n)[k]
      /\ Append(Said(n), Gm!Script[n + 1])[n + 1] = Gm!Script[n + 1]
  BY <1>1, <1>2, AppendProperties
<1>4. \A k \in 1..n + 1 : Append(Said(n), Gm!Script[n + 1])[k] = Said(n + 1)[k]
  BY <1>1, <1>3
<1> QED BY <1>1, <1>3, <1>4, SeqEqual

LEMMA MessagesAre ==
  ASSUME NEW n \in 0..4, NEW h, Begins(h, n)
  PROVE  Gm!Messages(h) = Said(n)
<1>1. h \in Seq(Text) /\ Len(h) = n /\ DOMAIN h = 1..n
  BY DEF Begins
<1>2. \A k \in 1..n : Gm!Message(h[k]) = Said(n)[k]
  <2> SUFFICES ASSUME NEW k \in 1..n PROVE Gm!Message(h[k]) = Said(n)[k]
    OBVIOUS
  <2>1. Said(n)[k] = Gm!Script[k]
    BY SaidIs
  <2>2. CASE k = 1
    BY <2>1, <2>2, MessageIs DEF Begins
  <2>3. CASE k # 1
    <3>1. k \in 2..n /\ k \in 2..4
      BY <2>3
    <3> QED BY <3>1, <2>1, MessageIs DEF Begins
  <2> QED BY <2>2, <2>3
<1>3. Said(n) \in Seq(Text) /\ Len(Said(n)) = n
  BY SaidIs
<1>5. Gm!Messages(h) = [k \in 1..n |-> Said(n)[k]]
  BY <1>1, <1>2 DEF Gm!Messages
<1>6. Said(n) = [k \in 1..n |-> Said(n)[k]]
  BY <1>3
<1> QED BY <1>5, <1>6

LEMMA OneMore ==
  ASSUME NEW n \in 0..3, NEW h, NEW m, Begins(h, n), NextOne(m, n)
  PROVE  Begins(Append(h, m), n + 1) /\ h \o <<m>> = Append(h, m)
<1>1. m \in Text
  <2>1. n = 0 \/ n = 1 \/ n = 2 \/ n = 3
    OBVIOUS
  <2>2. n # 0 => m = Gm!Script[n + 1] /\ n + 1 \in 1..4
    BY DEF NextOne
  <2>3. n = 0 => m \in First
    BY DEF NextOne
  <2> QED BY <2>2, <2>3, NoFlight, ScriptType
<1>2. /\ Append(h, m) \in Seq(Text) /\ Len(Append(h, m)) = n + 1
      /\ Append(h, m)[n + 1] = m /\ \A k \in 1..n : Append(h, m)[k] = h[k]
  BY <1>1, AppendProperties DEF Begins
<1>3. \A k \in 2..n + 1 : Append(h, m)[k] = Gm!Script[k]
  <2> SUFFICES ASSUME NEW k \in 2..n + 1 PROVE Append(h, m)[k] = Gm!Script[k]
    OBVIOUS
  <2>1. CASE k = n + 1
    BY <1>2, <2>1 DEF NextOne
  <2>2. CASE k # n + 1
    BY <1>2, <2>2 DEF Begins
  <2> QED BY <2>1, <2>2
<1>4. Append(h, m)[1] \in First
  <2>1. CASE n = 0
    BY <1>2, <2>1 DEF NextOne
  <2>2. CASE n # 0
    BY <1>2, <2>2 DEF Begins
  <2> QED BY <2>1, <2>2
<1> QED BY <1>1, <1>2, <1>3, <1>4, JoinIsAppend DEF Begins

LEMMA HearOne ==
  ASSUME NEW h
  PROVE  /\ \A m \in First : Begins(h, 0) => Begins(Append(h, m), 1)
         /\ Begins(h, 1) => Begins(Append(h, <<"s1">>), 2)
         /\ Begins(h, 2) => Begins(Append(h, <<"s1", "c2">>), 3)
         /\ Begins(h, 3) => Begins(Append(h, <<"s1", "c2", "s2">>), 4)
<1>1. ASSUME NEW n \in 0..3, NEW k, k = n + 1, NEW m, NextOne(m, n), Begins(h, n)
      PROVE  Begins(Append(h, m), k)
  BY <1>1, OneMore
<1>2. /\ 0 \in 0..3 /\ 1 \in 0..3 /\ 2 \in 0..3 /\ 3 \in 0..3
      /\ 1 = 0 + 1 /\ 2 = 1 + 1 /\ 3 = 2 + 1 /\ 4 = 3 + 1
  OBVIOUS
<1>3. ASSUME NEW m \in First, Begins(h, 0) PROVE Begins(Append(h, m), 1)
  <2>1. NextOne(m, 0)
    BY NextIs
  <2> QED BY <1>1, <1>2, <1>3, <2>1
<1>4. ASSUME Begins(h, 1) PROVE Begins(Append(h, <<"s1">>), 2)
  <2>1. NextOne(<<"s1">>, 1)
    BY NextIs
  <2> QED BY <1>1, <1>2, <1>4, <2>1
<1>5. ASSUME Begins(h, 2) PROVE Begins(Append(h, <<"s1", "c2">>), 3)
  <2>1. NextOne(<<"s1", "c2">>, 2)
    BY NextIs
  <2> QED BY <1>1, <1>2, <1>5, <2>1
<1>6. ASSUME Begins(h, 3) PROVE Begins(Append(h, <<"s1", "c2", "s2">>), 4)
  <2>1. NextOne(<<"s1", "c2", "s2">>, 3)
    BY NextIs
  <2> QED BY <1>1, <1>2, <1>6, <2>1
<1> QED BY <1>3, <1>4, <1>5, <1>6
-----------------------------------------------------------------------------
ClientClears ==
  /\ client = "clear" /\ client' = "read 1"
  /\ szBuffer' = [szBuffer EXCEPT !["client"] = <<>>]
  /\ UNCHANGED <<server, Gm!link, Gm!wire, Gm!tls, heard, retry>>

ClientWaits ==
  /\ client \in {"handshake", "select"} /\ client' \in {"handshake", "select"}
  /\ UNCHANGED <<server, Gm!link, Gm!wire, Gm!tls, szBuffer, heard>>

(* A write that a program does not survive.                                *)
ClientDies ==
  /\ Gm!Broken /\ client \in {"write 1", "write 2"} /\ client' = "done"
  /\ UNCHANGED <<server, Gm!link, Gm!wire, Gm!tls, Gm!talk>>

ServerDies ==
  /\ Gm!Broken /\ server \in {"renegotiate", "write 1", "write 2"} /\ server' = "done"
  /\ UNCHANGED <<client, Gm!link, Gm!wire, Gm!tls, Gm!talk>>

(* What the client can do where it is.                                     *)
LEMMA ClientAt ==
  ASSUME Gm!Client \/ Gm!Interruption
  PROVE  \/ client = "setup" /\ Gm!ClientSetup
         \/ client = "connect" /\ Gm!ClientConnect
         \/ client = "hello" /\ Gm!ClientHello
         \/ client = "handshake" /\ Gm!ClientHandshake
         \/ ClientWaits
         \/ client = "write 1" /\ Gm!ClientWrites("write 1", Gm!Garbage, "c1", "clear")
         \/ client = "clear" /\ ClientClears
         \/ client = "read 1" /\ Gm!ClientReads("read 1", "write 2", "read 1 again")
         \/ client = "read 1 again" /\ Gm!ClientReads("read 1 again", "write 2", "write 2")
         \/ client = "write 2" /\ Gm!ClientWrites("write 2", {szBuffer["client"]}, "c2", "read 2")
         \/ client = "read 2" /\ Gm!ClientReads("read 2", "done", "done")
         \/ ClientDies
<1>1. CASE Gm!Interruption
  BY <1>1 DEF Gm!Interruption, Gm!ClientGoes, Gm!ClientSelectReturns, ClientWaits, Gm!talk
<1>2. CASE Gm!ClientSelects
  BY <1>2 DEF Gm!ClientSelects, Gm!ClientSelectReturns, ClientWaits
<1>3. CASE Gm!ClientSetup
  BY <1>3 DEF Gm!ClientSetup, Gm!ClientGoes
<1>4. CASE Gm!ClientConnect
  BY <1>4 DEF Gm!ClientConnect, Gm!ClientGoes
<1>5. CASE Gm!ClientHello
  BY <1>5 DEF Gm!ClientHello, Gm!ClientGoes
<1>6. CASE Gm!ClientHandshake
  BY <1>6 DEF Gm!ClientHandshake
<1>7. CASE Gm!ClientReadsAnswer
  BY <1>7 DEF Gm!ClientReadsAnswer, Gm!ClientReads
<1>8. CASE Gm!ClientWrites("write 1", Gm!Garbage, "c1", "clear")
  BY <1>8 DEF Gm!ClientWrites
<1>9. CASE Gm!ClientWrites("write 2", {szBuffer["client"]}, "c2", "read 2")
  BY <1>9 DEF Gm!ClientWrites
<1>10. CASE Gm!ClientReads("read 2", "done", "done")
  BY <1>10 DEF Gm!ClientReads
<1>11. CASE Gm!ClientKilled
  BY <1>11 DEF Gm!ClientKilled, Gm!ClientGoes, ClientDies
<1> QED BY <1>1, <1>2, <1>3, <1>4, <1>5, <1>6, <1>7, <1>8, <1>9, <1>10, <1>11
        DEF Gm!Client, ClientClears

(* What the server can do where it is.                                     *)
LEMMA ServerAt ==
  ASSUME Gm!Server
  PROVE  \/ server = "listen" /\ Gm!ServerListen
         \/ server = "setup" /\ Gm!ServerSetup
         \/ server = "accept" /\ Gm!ServerAccept
         \/ server = "handshake" /\ Gm!ServerHandshake
         \/ server = "read 1" /\ Gm!ServerReads("read 1", "renegotiate", "done")
         \/ server = "renegotiate" /\ Gm!ServerRenegotiate
         \/ server = "read nothing" /\ Gm!ServerReadsNothing
         \/ server = "write 1" /\ Gm!ServerWrites("write 1", "s1", "read 2")
         \/ server = "read 2" /\ Gm!ServerReads("read 2", "write 2", "write 2")
         \/ server = "write 2" /\ Gm!ServerWrites("write 2", "s2", "done")
         \/ ServerDies
<1>1. CASE Gm!ServerListen
  BY <1>1 DEF Gm!ServerListen
<1>2. CASE Gm!ServerSetup
  BY <1>2 DEF Gm!ServerSetup, Gm!ServerGoes
<1>3. CASE Gm!ServerAccept
  BY <1>3 DEF Gm!ServerAccept, Gm!ServerGoes
<1>4. CASE Gm!ServerHandshake
  BY <1>4 DEF Gm!ServerHandshake
<1>5. CASE Gm!ServerReads("read 1", "renegotiate", "done")
  BY <1>5 DEF Gm!ServerReads
<1>6. CASE Gm!ServerRenegotiate
  BY <1>6 DEF Gm!ServerRenegotiate
<1>7. CASE Gm!ServerReadsNothing
  BY <1>7 DEF Gm!ServerReadsNothing
<1>8. CASE Gm!ServerWrites("write 1", "s1", "read 2")
  BY <1>8 DEF Gm!ServerWrites
<1>9. CASE Gm!ServerReads("read 2", "write 2", "write 2")
  BY <1>9 DEF Gm!ServerReads
<1>10. CASE Gm!ServerWrites("write 2", "s2", "done")
  BY <1>10 DEF Gm!ServerWrites
<1>11. CASE Gm!ServerKilled
  BY <1>11 DEF Gm!ServerKilled, Gm!ServerGoes, ServerDies
<1> QED BY <1>1, <1>2, <1>3, <1>4, <1>5, <1>6, <1>7, <1>8, <1>9, <1>10, <1>11 DEF Gm!Server

(* A program that waits for what does not come.                            *)
LEMMA ClientIdle ==
  ASSUME ~Gm!Broken, to_client = <<>>, server # "done", Gm!Client \/ Gm!Interruption,
         client \in {"handshake", "select", "read 1", "read 1 again", "read 2"}
  PROVE  ClientWaits
BY ClientAt DEF Gm!ClientHandshake, Gm!ClientReads, Gm!ClientShakes, Gm!ClientShaken,
   Gm!ClientFlight, Gm!Ended, Gm!Arrived, ClientDies

LEMMA ServerIdle ==
  ASSUME ~Gm!Broken, to_server = <<>>, client # "done",
         server \in {"handshake", "read 1", "read nothing", "read 2"}
  PROVE  ~Gm!Server
BY ServerAt DEF Gm!ServerHandshake, Gm!ServerReads, Gm!ServerReadsNothing, Gm!ServerShakes,
   Gm!ServerShaken, Gm!ServerFlight, Gm!Ended, Gm!Arrived, ServerDies

LEMMA AtTheirEnd ==
  /\ client = "done" => ~(Gm!Client \/ Gm!Interruption)
  /\ server = "done" => ~Gm!Server
BY ClientAt, ServerAt DEF ClientWaits, ClientDies, ServerDies
-----------------------------------------------------------------------------
Side == {"client", "server"}
Sides == DOMAIN awaited = Side /\ DOMAIN shaken = Side /\ DOMAIN szBuffer = Side

(* A flight alone on a wire.                                              *)
Flies(flight) == <<<<flight>>>>

Programs(c, s) == client \in c /\ server \in s
Wires(ts, tc) == to_server = ts /\ to_client = tc
Shaking(ac, as, sc, ss) ==
  /\ awaited["client"] = ac /\ awaited["server"] = as
  /\ shaken["client"] = sc /\ shaken["server"] = ss

Connecting == {"handshake", "select"}
Begun == {"setup", "accept", "handshake", "done"}

(* Before the client is connected.                                         *)
Apart ==
  /\ ~connected
  /\ Programs({"setup", "connect", "done"}, {"listen"} \cup Begun)
  /\ Shaking("none", "none", 0, 0) /\ Wires(<<>>, <<>>) /\ Begins(heard, 0)
  /\ server \in {"listen", "handshake"} => ~listening

(* The client has no context of its own, or has given up.                  *)
Met ==
  /\ Programs({"hello"}, Begun)
  /\ Shaking("none", "none", 0, 0) /\ Wires(<<>>, <<>>) /\ Begins(heard, 0)
Left ==
  /\ Programs({"done"}, Begun)
  /\ awaited["server"] = "none" /\ shaken["client"] = 0 /\ shaken["server"] = 0
  /\ to_client = <<>> /\ Begins(heard, 0)
  /\ to_server = <<>> \/ (server = "done" /\ to_server = Flies("client hello"))

(* The first handshake.                                                    *)
Hello ==
  /\ Programs(Connecting, Begun)
  /\ Shaking("server hello", "none", 0, 0) /\ Wires(Flies("client hello"), <<>>) /\ Begins(heard, 0)
HelloAnswered ==
  /\ Programs(Connecting, {"handshake"})
  /\ Shaking("server hello", "client finished", 0, 0)
  /\ Wires(<<>>, Flies("server hello")) /\ Begins(heard, 0)
Finishing ==
  /\ Programs(Connecting, {"handshake"})
  /\ Shaking("server finished", "client finished", 0, 0)
  /\ Wires(Flies("client finished"), <<>>) /\ Begins(heard, 0)
Finished ==
  /\ Programs(Connecting, {"read 1"})
  /\ Shaking("server finished", "none", 0, 1)
  /\ Wires(<<>>, Flies("server finished")) /\ Begins(heard, 0)

(* The first message, and the request for another handshake.               *)
Reading == {"clear", "read 1"}
Shaken ==
  /\ Programs({"write 1"}, {"read 1"})
  /\ Shaking("none", "none", 1, 1) /\ Wires(<<>>, <<>>) /\ Begins(heard, 0)
Asked ==
  /\ Programs(Reading, {"read 1"})
  /\ Shaking("none", "none", 1, 1)
  /\ \E m \in First : Wires(<<m>>, <<>>)
  /\ Begins(heard, 0)
Reached ==
  /\ Programs(Reading, {"renegotiate"})
  /\ Shaking("none", "none", 1, 1) /\ Wires(<<>>, <<>>) /\ Begins(heard, 1)

(* The second handshake, with the answer behind its last flight.           *)
Cleared == szBuffer["server"] = <<>>
Requested ==
  /\ Programs(Reading, {"read nothing"})
  /\ Shaking("none", "none", 1, 1) /\ Wires(<<>>, Flies("hello request")) /\ Begins(heard, 1)
  /\ Cleared
HelloAgain ==
  /\ Programs({"read 1"}, {"read nothing"})
  /\ Shaking("server hello", "none", 1, 1) /\ Wires(Flies("client hello"), <<>>) /\ Begins(heard, 1)
  /\ Cleared
HelloAnsweredAgain ==
  /\ Programs({"read 1"}, {"read nothing"})
  /\ Shaking("server hello", "client finished", 1, 1)
  /\ Wires(<<>>, Flies("server hello")) /\ Begins(heard, 1)
  /\ Cleared
FinishingAgain ==
  /\ Programs({"read 1"}, {"read nothing"})
  /\ Shaking("server finished", "client finished", 1, 1)
  /\ Wires(Flies("client finished"), <<>>) /\ Begins(heard, 1)
  /\ Cleared
FinishedAgain ==
  /\ Programs({"read 1"}, {"write 1"})
  /\ Shaking("server finished", "none", 1, 2)
  /\ Wires(<<>>, Flies("server finished")) /\ Begins(heard, 1)
  /\ Cleared
AnsweredAhead ==
  /\ Programs({"read 1"}, {"read 2"})
  /\ Shaking("server finished", "none", 1, 2)
  /\ Wires(<<>>, <<<<"server finished">>, <<"s1">>>>) /\ Begins(heard, 1)
ShakenAgain ==
  /\ Programs({"read 1 again"}, {"write 1"})
  /\ Shaking("none", "none", 2, 2) /\ Wires(<<>>, <<>>) /\ Begins(heard, 1)
  /\ Cleared

(* The rest of the conversation.                                           *)
Answered ==
  /\ Programs({"read 1 again"}, {"read 2"})
  /\ Shaking("none", "none", 2, 2) /\ Wires(<<>>, <<<<"s1">>>>) /\ Begins(heard, 1)
AnswerRead ==
  /\ Programs({"write 2"}, {"read 2"})
  /\ Shaking("none", "none", 2, 2) /\ Wires(<<>>, <<>>) /\ Begins(heard, 2)
  /\ szBuffer["client"] = <<"s1">>
AskedAgain ==
  /\ Programs({"read 2"}, {"read 2"})
  /\ Shaking("none", "none", 2, 2) /\ Wires(<<<<"s1", "c2">>>>, <<>>) /\ Begins(heard, 2)
ReachedAgain ==
  /\ Programs({"read 2"}, {"write 2"})
  /\ Shaking("none", "none", 2, 2) /\ Wires(<<>>, <<>>) /\ Begins(heard, 3)
  /\ szBuffer["server"] = <<"s1", "c2">>
AnsweredAgain ==
  /\ Programs({"read 2"}, {"done"})
  /\ Shaking("none", "none", 2, 2) /\ Wires(<<>>, <<<<"s1", "c2", "s2">>>>) /\ Begins(heard, 3)
Over ==
  /\ Programs({"done"}, {"done"})
  /\ Shaking("none", "none", 2, 2) /\ Wires(<<>>, <<>>) /\ Begins(heard, 4)

Lost == lost /\ connected /\ Wires(<<>>, <<>>)
Lasting == ~lost /\ connected

LEMMA SidesStep == Sides /\ [Gm!Next]_Gm!vars => Sides'
<1> SUFFICES ASSUME Sides, [Gm!Next]_Gm!vars PROVE Sides'
  OBVIOUS
<1>1. CASE Gm!Client \/ Gm!Interruption
  BY <1>1, ClientAt DEF Sides, Gm!ClientSetup, Gm!ClientConnect, Gm!ClientHello,
     Gm!ClientHandshake, ClientWaits, Gm!ClientWrites, ClientClears, Gm!ClientReads, Gm!ClientGoes,
     Gm!ClientShakes, Gm!ClientShaken, Gm!ClientFlight, Gm!tls, Gm!talk, ClientDies
<1>2. CASE Gm!Server
  BY <1>2, ServerAt DEF Sides, Gm!ServerListen, Gm!ServerSetup, Gm!ServerAccept,
     Gm!ServerHandshake, Gm!ServerReads, Gm!ServerRenegotiate, Gm!ServerReadsNothing,
     Gm!ServerWrites, Gm!ServerGoes, Gm!ServerShakes, Gm!ServerShaken, Gm!ServerFlight, Gm!tls,
     Gm!talk, ServerDies
<1>3. CASE Gm!Lose
  BY <1>3 DEF Sides, Gm!Lose, Gm!tls, Gm!talk
<1>4. CASE UNCHANGED Gm!vars
  BY <1>4 DEF Sides, Gm!vars, Gm!tls, Gm!talk
<1> QED BY <1>1, <1>2, <1>3, <1>4 DEF Gm!Next
-----------------------------------------------------------------------------
(* What the steps do that change the wires, on a connection that lasts.    *)
Quiet == UNCHANGED <<listening, connected, lost, to_server, to_client, awaited, shaken, heard>>
Steady == UNCHANGED <<listening, connected, lost>>

LEMMA QuietSteps ==
  /\ ClientWaits => Quiet /\ UNCHANGED <<server, szBuffer>>
  /\ ClientClears => Quiet /\ UNCHANGED server
  /\ \A from, to : Gm!ClientGoes(from, to) => Quiet /\ UNCHANGED <<server, szBuffer>>
  /\ \A from, to : Gm!ServerGoes(from, to) => Quiet /\ UNCHANGED <<client, szBuffer>>
<1>1. ClientWaits => Quiet /\ UNCHANGED <<server, szBuffer>>
  BY DEF ClientWaits, Quiet, Gm!link, Gm!wire, Gm!tls
<1>2. ClientClears => Quiet /\ UNCHANGED server
  BY DEF ClientClears, Quiet, Gm!link, Gm!wire, Gm!tls
<1>3. ASSUME NEW from, NEW to, Gm!ClientGoes(from, to)
      PROVE  Quiet /\ UNCHANGED <<server, szBuffer>>
  BY <1>3 DEF Quiet, Gm!ClientGoes, Gm!link, Gm!wire, Gm!tls, Gm!talk
<1>4. ASSUME NEW from, NEW to, Gm!ServerGoes(from, to)
      PROVE  Quiet /\ UNCHANGED <<client, szBuffer>>
  BY <1>4 DEF Quiet, Gm!ServerGoes, Gm!link, Gm!wire, Gm!tls, Gm!talk
<1> QED BY <1>1, <1>2, <1>3, <1>4

LEMMA ClientShakesIs ==
  ASSUME Sides, to_server = <<>>, to_client = Flies("server hello"), Gm!ClientShakes
  PROVE  /\ to_server' = Flies("client finished") /\ to_client' = <<>>
         /\ awaited'["client"] = "server finished" /\ awaited'["server"] = awaited["server"]
         /\ Steady /\ UNCHANGED <<client, server, shaken, szBuffer, heard>>
BY OneOnIt DEF Flies, Sides, Side, Gm!ClientShakes, Gm!ClientFlight, Steady, Gm!link, Gm!talk

LEMMA ClientShakenIs ==
  ASSUME Sides, NEW to, Gm!ClientShaken(to)
  PROVE  /\ Head(to_client) = <<"server finished">>
         /\ to_client' = Tail(to_client) /\ to_server' = to_server
         /\ awaited'["client"] = "none" /\ awaited'["server"] = awaited["server"]
         /\ shaken'["client"] = shaken["client"] + 1 /\ shaken'["server"] = shaken["server"]
         /\ client' = to
         /\ Steady /\ UNCHANGED <<server, szBuffer, heard>>
BY DEF Sides, Side, Gm!ClientShaken, Gm!ClientFlight, Steady, Gm!link, Gm!talk

LEMMA ServerShakesIs ==
  ASSUME Sides, to_server = Flies("client hello"), to_client = <<>>, Gm!ServerShakes
  PROVE  /\ to_server' = <<>> /\ to_client' = Flies("server hello")
         /\ awaited'["server"] = "client finished" /\ awaited'["client"] = awaited["client"]
         /\ Steady /\ UNCHANGED <<client, server, shaken, szBuffer, heard>>
BY OneOnIt DEF Flies, Sides, Side, Gm!ServerShakes, Gm!ServerFlight, Steady, Gm!link, Gm!talk

LEMMA ServerShakenIs ==
  ASSUME Sides, to_server = Flies("client finished"), to_client = <<>>, NEW to,
     Gm!ServerShaken(to)
  PROVE  /\ to_server' = <<>> /\ to_client' = Flies("server finished")
         /\ awaited'["server"] = "none" /\ awaited'["client"] = awaited["client"]
         /\ shaken'["server"] = shaken["server"] + 1 /\ shaken'["client"] = shaken["client"]
         /\ server' = to
         /\ Steady /\ UNCHANGED <<client, szBuffer, heard>>
BY OneOnIt DEF Flies, Sides, Side, Gm!ServerShaken, Gm!ServerFlight, Steady, Gm!link, Gm!talk

(* The messages that are read and written.                                 *)
LEMMA ClientReadsIs ==
  ASSUME Sides, Lasting, NEW m \in Text, to_client = <<m>>, m \notin Gm!Flight,
     awaited["client"] = "none",
         NEW from, NEW to, NEW nothing, Gm!ClientReads(from, to, nothing)
  PROVE  /\ to_client' = <<>> /\ heard' = Append(heard, m) /\ client' = to
         /\ szBuffer'["client"] = m /\ szBuffer'["server"] = szBuffer["server"]
         /\ Steady /\ UNCHANGED <<server, to_server, awaited, shaken>>
<1>1. /\ to_client # <<>> /\ Head(to_client) = m /\ Tail(to_client) = <<>>
      /\ m # <<"hello request">> /\ ~Gm!Ended(to_client, server)
  BY OneOnIt DEF Gm!Flight, Gm!Ended, Gm!Broken, Lasting
<1> QED BY <1>1 DEF Sides, Side, Gm!ClientReads, Gm!ClientShakes, Gm!ClientShaken,
        Gm!ClientFlight,
           Steady, Gm!link, Gm!tls

LEMMA ServerReadsIs ==
  ASSUME Sides, Lasting, NEW m \in Text, to_server = <<m>>, NEW from, NEW to, NEW nothing,
         Gm!ServerReads(from, to, nothing)
  PROVE  /\ to_server' = <<>> /\ heard' = Append(heard, m) /\ server' = to
         /\ szBuffer'["server"] = m /\ szBuffer'["client"] = szBuffer["client"]
         /\ Steady /\ UNCHANGED <<client, to_client, awaited, shaken>>
<1>1. Head(to_server) = m /\ Tail(to_server) = <<>> /\ ~Gm!Ended(to_server, client)
  BY OneOnIt DEF Gm!Ended, Gm!Broken, Lasting
<1> QED BY <1>1 DEF Sides, Side, Gm!ServerReads, Steady, Gm!link, Gm!tls

LEMMA ServerWritesIs ==
  ASSUME Sides, Lasting, NEW from, NEW line, NEW to, Gm!ServerWrites(from, line, to)
  PROVE  /\ to_client' = Append(to_client, Append(szBuffer["server"], line)) /\ server' = to
         /\ Steady /\ UNCHANGED <<client, to_server, awaited, shaken, heard>>
BY DEF Gm!ServerWrites, Gm!Send, Gm!Broken, Lasting, Steady, Gm!link, Gm!tls
-----------------------------------------------------------------------------
(* One step of the two programs, from each of these.                       *)
LEMMA ApartStep ==
  ASSUME Sides, ~lost, Apart, Gm!Client \/ Gm!Server \/ Gm!Interruption
  PROVE  ~lost' /\ (Apart' \/ (connected' /\ Met'))
<1>1. CASE Gm!Client \/ Gm!Interruption
  <2>1. Gm!ClientSetup \/ Gm!ClientConnect
    BY <1>1, ClientAt DEF Apart, Programs, ClientWaits, ClientDies
  <2>2. CASE Gm!ClientSetup
    <3>1. client' \in {"connect", "done"} /\ Quiet /\ UNCHANGED <<server, szBuffer>>
      BY <2>2, QuietSteps DEF Gm!ClientSetup, Gm!ClientGoes
    <3> QED BY <3>1 DEF Apart, Programs, Wires, Shaking, Quiet
  <2>3. CASE Gm!ClientGoes("connect", "done")
    <3>1. client' = "done" /\ Quiet /\ UNCHANGED <<server, szBuffer>>
      BY <2>3, QuietSteps DEF Gm!ClientGoes
    <3> QED BY <3>1 DEF Apart, Programs, Wires, Shaking, Quiet
  <2>4. CASE Gm!ClientConnect /\ ~Gm!ClientGoes("connect", "done")
    <3>1. /\ listening /\ connected' /\ client' = "hello"
          /\ UNCHANGED <<server, lost, to_server, to_client, awaited, shaken, heard>>
      BY <2>4 DEF Gm!ClientConnect, Gm!wire, Gm!tls, Gm!talk
    <3> QED BY <3>1 DEF Apart, Met, Programs, Wires, Shaking, Begun
  <2> QED BY <2>1, <2>2, <2>3, <2>4
<1>2. CASE Gm!Server
  <2>1. Gm!ServerListen \/ Gm!ServerSetup \/ Gm!ServerAccept \/ Gm!ServerHandshake
    BY <1>2, ServerAt DEF Apart, Programs, Begun, ServerDies
  <2>2. CASE Gm!ServerListen
    <3>1. /\ server' = "setup"
          /\ UNCHANGED <<client, connected, lost, to_server, to_client, awaited, shaken, heard>>
      BY <2>2 DEF Gm!ServerListen, Gm!wire, Gm!tls, Gm!talk
    <3> QED BY <3>1 DEF Apart, Programs, Wires, Shaking, Begun
  <2>3. CASE ~Gm!ServerListen
    <3>1. \E from, to : Gm!ServerGoes(from, to)
      BY <2>1, <2>3 DEF Apart, Gm!ServerSetup, Gm!ServerAccept, Gm!ServerHandshake,
         Gm!ServerShakes,
         Gm!ServerShaken, Gm!ServerFlight, Gm!Broken
    <3>2. server' \in {"accept", "handshake", "done"} /\ (server' = "handshake" => ~listening)
      BY <2>1, <2>3 DEF Apart, Gm!ServerSetup, Gm!ServerAccept, Gm!ServerHandshake,
         Gm!ServerShakes,
         Gm!ServerShaken, Gm!ServerFlight, Gm!Broken, Gm!ServerGoes
    <3> QED BY <3>1, <3>2, QuietSteps DEF Apart, Programs, Wires, Shaking, Begun, Quiet
  <2> QED BY <2>2, <2>3
<1> QED BY <1>1, <1>2

(* The server before it meets the first flight.                            *)
LEMMA ServerBegins ==
  ASSUME Lasting, server \in Begun, Gm!Server,
         to_server = <<>> \/ server # "handshake"
  PROVE  server' \in Begun /\ server # "done" /\ Quiet /\ UNCHANGED <<client, szBuffer>>
<1>1. Gm!ServerSetup \/ Gm!ServerAccept \/ (server = "handshake" /\ Gm!ServerHandshake)
  BY ServerAt DEF Begun, ServerDies
<1>2. \E from \in {"setup", "accept", "handshake"}, to \in Begun : Gm!ServerGoes(from, to)
  BY <1>1 DEF Begun, Gm!ServerSetup, Gm!ServerAccept, Gm!ServerHandshake, Gm!ServerShakes,
     Gm!ServerShaken, Gm!ServerFlight
<1> QED BY <1>2, QuietSteps DEF Gm!ServerGoes

(* The connection, as far as a program touches it.                         *)
Kept == lost' = lost /\ connected' \in {connected, TRUE}

(* Only the network breaks a connection.                                   *)
LEMMA LastingStep ==
  ASSUME Lasting, Gm!Client \/ Gm!Server \/ Gm!Interruption
  PROVE  Kept /\ Lasting'
<1>1. ASSUME Gm!Client \/ Gm!Interruption PROVE Kept
  <2>1. CASE ClientWaits \/ ClientClears
    BY <2>1, QuietSteps DEF Kept, Quiet
  <2>2. CASE Gm!ClientSetup \/ Gm!ClientConnect \/ Gm!ClientHello
    BY <2>2 DEF Kept, Gm!ClientSetup, Gm!ClientConnect, Gm!ClientHello, Gm!ClientGoes, Gm!link
  <2>3. CASE Gm!ClientHandshake
    BY <2>3 DEF Kept, Gm!ClientHandshake, Gm!ClientGoes, Gm!ClientShakes, Gm!ClientShaken, Gm!link
  <2>4. ASSUME NEW from, NEW to, NEW nothing, Gm!ClientReads(from, to, nothing)
        PROVE  Kept
    BY <2>4 DEF Kept, Gm!ClientReads, Gm!ClientShakes, Gm!ClientShaken, Gm!link
  <2>5. ASSUME NEW from, NEW text, NEW line, NEW to, Gm!ClientWrites(from, text, line, to)
        PROVE  Kept
    BY <2>5 DEF Kept, Gm!ClientWrites, Gm!link
  <2>6. CASE ClientDies
    BY <2>6 DEF Kept, ClientDies, Gm!link
  <2> QED BY <1>1, <2>1, <2>2, <2>3, <2>4, <2>5, <2>6, ClientAt
<1>2. ASSUME Gm!Server PROVE Kept
  <2>1. CASE Gm!ServerListen \/ Gm!ServerSetup \/ Gm!ServerAccept \/ Gm!ServerRenegotiate
    BY <2>1 DEF Kept, Gm!ServerListen, Gm!ServerSetup, Gm!ServerAccept, Gm!ServerRenegotiate,
       Gm!ServerGoes, Gm!link
  <2>2. CASE Gm!ServerHandshake \/ Gm!ServerReadsNothing
    BY <2>2 DEF Kept, Gm!ServerHandshake, Gm!ServerReadsNothing, Gm!ServerShakes, Gm!ServerShaken,
       Gm!ServerGoes, Gm!link
  <2>3. ASSUME NEW from, NEW to, NEW nothing, Gm!ServerReads(from, to, nothing)
        PROVE  Kept
    BY <2>3 DEF Kept, Gm!ServerReads, Gm!link
  <2>4. ASSUME NEW from, NEW line, NEW to, Gm!ServerWrites(from, line, to)
        PROVE  Kept
    BY <2>4 DEF Kept, Gm!ServerWrites, Gm!link
  <2>5. CASE ServerDies
    BY <2>5 DEF Kept, ServerDies, Gm!link
  <2> QED BY <1>2, <2>1, <2>2, <2>3, <2>4, <2>5, ServerAt
<1>3. Kept
  BY <1>1, <1>2
<1>4. lost' = lost /\ (connected' = connected \/ connected' = TRUE)
  BY <1>3 DEF Kept
<1> QED BY <1>3, <1>4 DEF Lasting

LEMMA MetStep ==
  ASSUME Sides, Lasting, Met, Gm!Client \/ Gm!Server \/ Gm!Interruption
  PROVE  Met' \/ Left' \/ Hello'
<1>1. CASE Gm!Client \/ Gm!Interruption
  <2>1. Gm!ClientHello
    BY <1>1, ClientAt DEF Met, Programs, ClientWaits, ClientDies, Lasting, Gm!Broken
  <2>2. CASE Gm!ClientGoes("hello", "done")
    <3>1. client' = "done" /\ Quiet /\ UNCHANGED server
      BY <2>2, QuietSteps DEF Gm!ClientGoes
    <3> QED BY <3>1 DEF Lasting, Met, Left, Programs, Wires, Shaking, Quiet
  <2>3. CASE ~Gm!ClientGoes("hello", "done")
    <3>1. /\ client' = "handshake" /\ to_server' = Append(to_server, <<"client hello">>)
          /\ awaited' = [awaited EXCEPT !["client"] = "server hello"]
          /\ UNCHANGED <<server, listening, connected, lost, to_client, shaken, heard>>
      BY <2>1, <2>3 DEF Gm!ClientHello, Gm!Send, Gm!Broken, Lasting, Gm!link, Gm!talk
    <3>2. to_server' = Flies("client hello")
      BY <3>1, OneOnIt DEF Flies, Met, Wires
    <3> QED BY <3>1, <3>2 DEF Lasting, Met, Hello, Sides, Side, Programs, Wires, Shaking,
            Connecting
  <2> QED BY <2>2, <2>3
<1>2. CASE Gm!Server
  BY <1>2, ServerBegins DEF Lasting, Met, Programs, Wires, Shaking, Quiet
<1> QED BY <1>1, <1>2

LEMMA LeftStep ==
  ASSUME Sides, Lasting, Left, Gm!Client \/ Gm!Server \/ Gm!Interruption
  PROVE  Left'
<1>1. Gm!Server
  BY AtTheirEnd DEF Left, Programs
<1>2. server # "done"
  BY <1>1, AtTheirEnd
<1>3. server' \in Begun /\ Quiet /\ UNCHANGED client
  BY <1>1, <1>2, ServerBegins DEF Left, Programs
<1> QED BY <1>2, <1>3 DEF Lasting, Left, Programs, Quiet

LEMMA HelloStep ==
  ASSUME Sides, Lasting, Hello, Gm!Client \/ Gm!Server \/ Gm!Interruption
  PROVE  Hello' \/ Left' \/ HelloAnswered'
<1>1. CASE Gm!Client \/ Gm!Interruption
  <2>1. ClientWaits \/ (Gm!Ended(to_client, server) /\ Gm!ClientGoes("handshake", "done"))
    BY <1>1, ClientAt DEF Hello, Programs, Wires, Connecting, Gm!ClientHandshake, Gm!ClientShakes,
       Gm!ClientShaken, Gm!ClientFlight, ClientDies, Lasting, Gm!Broken
  <2>2. CASE ClientWaits
    BY <2>2, QuietSteps DEF ClientWaits, Lasting, Hello, Programs, Wires, Shaking, Connecting,
       Quiet
  <2>3. CASE Gm!Ended(to_client, server) /\ Gm!ClientGoes("handshake", "done")
    <3>1. client' = "done" /\ server = "done" /\ Quiet /\ UNCHANGED server
      BY <2>3, QuietSteps DEF Gm!ClientGoes, Gm!Ended, Gm!Broken, Lasting
    <3> QED BY <3>1 DEF Lasting, Hello, Left, Programs, Wires, Shaking, Quiet, Begun
  <2> QED BY <2>1, <2>2, <2>3
<1>2. CASE Gm!Server
  <2>1. CASE server # "handshake"
    BY <1>2, <2>1, ServerBegins DEF Lasting, Hello, Programs, Wires, Shaking, Quiet
  <2>2. CASE server = "handshake"
    <3>1. /\ Head(to_server) = <<"client hello">> /\ to_server # <<>>
          /\ <<"client hello">> # <<"client finished">>
      BY OneOnIt DEF Flies, Hello, Wires
    <3>2. Gm!ServerShakes
      BY <1>2, <2>2, <3>1, ServerAt DEF Lasting, Hello, Shaking, Gm!ServerHandshake,
         Gm!ServerShaken, Gm!Ended, Gm!Broken, ServerDies
    <3> QED BY <2>2, <3>2, ServerShakesIs DEF Lasting, Hello, HelloAnswered, Programs, Wires,
            Shaking, Steady
  <2> QED BY <2>1, <2>2
<1> QED BY <1>1, <1>2

LEMMA HelloAnsweredStep ==
  ASSUME Sides, Lasting, HelloAnswered, Gm!Client \/ Gm!Server \/ Gm!Interruption
  PROVE  HelloAnswered' \/ Finishing'
<1>1. Gm!Client \/ Gm!Interruption
  BY ServerIdle DEF Lasting, HelloAnswered, Programs, Wires, Connecting, Gm!Broken
<1>2. to_client # <<>>
  BY OneOnIt DEF Flies, HelloAnswered, Wires
<1>3. ClientWaits \/ Gm!ClientShakes
  BY <1>1, <1>2, ClientAt DEF Lasting, HelloAnswered, Programs, Shaking, Connecting,
     Gm!ClientHandshake, Gm!ClientShaken, Gm!Ended, Gm!Broken, ClientDies
<1>4. CASE ClientWaits
  BY <1>4, QuietSteps DEF ClientWaits, Lasting, HelloAnswered, Programs, Wires, Shaking,
     Connecting, Quiet
<1>5. CASE Gm!ClientShakes
  BY <1>5, ClientShakesIs DEF Lasting, HelloAnswered, Finishing, Programs, Wires, Shaking, Steady
<1> QED BY <1>3, <1>4, <1>5

LEMMA FinishingStep ==
  ASSUME Sides, Lasting, Finishing, Gm!Client \/ Gm!Server \/ Gm!Interruption
  PROVE  Finishing' \/ Finished'
<1>1. CASE Gm!Client \/ Gm!Interruption
  <2>1. ClientWaits
    BY <1>1, ClientIdle DEF Lasting, Finishing, Programs, Wires, Connecting, Gm!Broken
  <2> QED BY <2>1, QuietSteps DEF ClientWaits, Lasting, Finishing, Programs, Wires, Shaking,
          Connecting, Quiet
<1>2. CASE Gm!Server
  <2>1. to_server # <<>>
    BY OneOnIt DEF Flies, Finishing, Wires
  <2>2. Gm!ServerShaken("read 1")
    BY <1>2, <2>1, ServerAt DEF Lasting, Finishing, Programs, Shaking, Gm!ServerHandshake,
       Gm!ServerShakes, Gm!Ended, Gm!Broken, ServerDies
  <2>3. shaken["server"] = 0 /\ shaken'["server"] = shaken["server"] + 1
    BY <2>2, ServerShakenIs DEF Finishing, Wires, Shaking
  <2>4. shaken'["server"] = 1
    BY <2>3
  <2>5. /\ shaken'["client"] = shaken["client"]
        /\ to_server' = <<>> /\ to_client' = Flies("server finished")
        /\ awaited'["server"] = "none" /\ awaited'["client"] = awaited["client"]
        /\ server' = "read 1" /\ UNCHANGED <<client, heard>>
    BY <2>2, ServerShakenIs DEF Finishing, Wires
  <2> QED BY <2>4, <2>5 DEF Finishing, Finished, Programs, Wires, Shaking
<1> QED BY <1>1, <1>2

LEMMA FinishedStep ==
  ASSUME Sides, Lasting, Finished, Gm!Client \/ Gm!Server \/ Gm!Interruption
  PROVE  Finished' \/ Shaken'
<1>1. Gm!Client \/ Gm!Interruption
  BY ServerIdle DEF Lasting, Finished, Programs, Wires, Connecting, Gm!Broken
<1>2. to_client # <<>> /\ Tail(to_client) = <<>>
  BY OneOnIt DEF Flies, Finished, Wires
<1>3. ClientWaits \/ Gm!ClientShaken("write 1")
  BY <1>1, <1>2, ClientAt DEF Lasting, Finished, Programs, Shaking, Connecting, Gm!ClientHandshake,
     Gm!ClientShakes, Gm!Ended, Gm!Broken, ClientDies
<1>4. CASE ClientWaits
  BY <1>4, QuietSteps DEF ClientWaits, Lasting, Finished, Programs, Wires, Shaking, Connecting,
     Quiet
<1>5. CASE Gm!ClientShaken("write 1")
  <2>1. shaken["client"] = 0 /\ shaken'["client"] = shaken["client"] + 1
    BY <1>5, ClientShakenIs DEF Finished, Shaking
  <2>2. shaken'["client"] = 1
    BY <2>1
  <2>3. /\ shaken'["server"] = shaken["server"]
        /\ to_client' = <<>> /\ UNCHANGED <<to_server, server, heard>>
        /\ awaited'["client"] = "none" /\ awaited'["server"] = awaited["server"]
        /\ client' = "write 1"
    BY <1>2, <1>5, ClientShakenIs
  <2> QED BY <2>2, <2>3 DEF Finished, Shaken, Programs, Wires, Shaking
<1> QED BY <1>3, <1>4, <1>5

LEMMA ShakenStep ==
  ASSUME Sides, Lasting, Shaken, Gm!Client \/ Gm!Server \/ Gm!Interruption
  PROVE  Asked'
<1>1. Gm!ClientWrites("write 1", Gm!Garbage, "c1", "clear")
  BY ServerIdle, ClientAt DEF Lasting, Shaken, Programs, Wires, Gm!Broken, ClientWaits, ClientDies
<1>2. PICK text \in Gm!Garbage : to_server' = Append(to_server, text \o <<"c1">>)
  BY <1>1 DEF Gm!ClientWrites, Gm!Send, Gm!Broken, Lasting
<1>3. text \o <<"c1">> \in First
  <2>1. <<>> \o <<"c1">> = <<"c1">>
    BY JoinOne
  <2>2. <<"garbage">> \o <<"c1">> = <<"garbage", "c1">>
    <3>1. <<"garbage">> \in Seq({"garbage", "c1"}) /\ "c1" \in {"garbage", "c1"}
      OBVIOUS
    <3> QED BY <3>1, TwoOnIt, AppendIsConcat
  <2> QED BY <2>1, <2>2 DEF Gm!Garbage, First
<1>4. to_server' = <<text \o <<"c1">>>>
  BY <1>2, OneOnIt DEF Shaken, Wires
<1>5. client' = "clear" /\ Steady /\ UNCHANGED <<server, to_client, awaited, shaken, heard>>
  BY <1>1 DEF Gm!ClientWrites, Steady, Gm!link, Gm!tls
<1> QED BY <1>3, <1>4, <1>5 DEF Shaken, Asked, Programs, Wires, Shaking, Reading

LEMMA AskedStep ==
  ASSUME Sides, Lasting, Asked, Gm!Client \/ Gm!Server \/ Gm!Interruption
  PROVE  Asked' \/ Reached'
<1>1. PICK m \in First : to_server = <<m>> /\ to_client = <<>>
  BY DEF Asked, Wires
<1>2. CASE Gm!Client \/ Gm!Interruption
  <2>1. ClientClears \/ ClientWaits
    BY <1>1, <1>2, ClientAt, ClientIdle DEF Lasting, Asked, Programs, Reading, Gm!Broken,
       ClientDies
  <2>2. ClientClears
    BY <2>1 DEF Asked, Programs, Reading, ClientWaits
  <2>3. Quiet /\ UNCHANGED server /\ client' = "read 1"
    BY <2>2, QuietSteps DEF ClientClears
  <2> QED BY <2>3 DEF Asked, Programs, Wires, Shaking, Reading, Quiet
<1>3. CASE Gm!Server
  <2>1. Gm!ServerReads("read 1", "renegotiate", "done")
    BY <1>3, ServerAt DEF Asked, Programs, ServerDies, Lasting, Gm!Broken
  <2>2. m \in Text
    BY NoFlight
  <2>3. /\ to_server' = <<>> /\ heard' = Append(heard, m) /\ server' = "renegotiate"
        /\ UNCHANGED <<client, to_client, awaited, shaken>>
    BY <1>1, <2>1, <2>2, ServerReadsIs
  <2>4. Begins(heard, 0)
    BY DEF Asked
  <2>5. Begins(heard', 1)
    BY <2>3, <2>4, HearOne
  <2> QED BY <1>1, <2>3, <2>5 DEF Asked, Reached, Programs, Wires, Shaking
<1> QED BY <1>2, <1>3

LEMMA ReachedStep ==
  ASSUME Sides, Lasting, Reached, Gm!Client \/ Gm!Server \/ Gm!Interruption
  PROVE  Reached' \/ Requested'
<1>1. CASE Gm!Client \/ Gm!Interruption
  <2>1. ClientClears \/ ClientWaits
    BY <1>1, ClientAt, ClientIdle DEF Lasting, Reached, Programs, Wires, Reading, Gm!Broken,
       ClientDies
  <2>2. ClientClears
    BY <2>1 DEF Reached, Programs, Reading, ClientWaits
  <2>3. Quiet /\ UNCHANGED server /\ client' = "read 1"
    BY <2>2, QuietSteps DEF ClientClears
  <2> QED BY <2>3 DEF Reached, Programs, Wires, Shaking, Reading, Quiet
<1>2. CASE Gm!Server
  <2>1. Gm!ServerRenegotiate
    BY <1>2, ServerAt DEF Reached, Programs, ServerDies, Lasting, Gm!Broken
  <2>2. /\ to_client' = Append(to_client, <<"hello request">>) /\ server' = "read nothing"
        /\ szBuffer' = [szBuffer EXCEPT !["server"] = <<>>]
        /\ UNCHANGED <<client, to_server, awaited, shaken, heard>>
    BY <2>1 DEF Gm!ServerRenegotiate, Gm!Send, Gm!Broken, Lasting, Gm!tls
  <2>3. to_client' = Flies("hello request") /\ Cleared'
    BY <2>2, OneOnIt DEF Reached, Wires, Flies, Cleared, Sides, Side
  <2> QED BY <2>2, <2>3 DEF Reached, Requested, Programs, Wires, Shaking
<1> QED BY <1>1, <1>2

LEMMA RequestedStep ==
  ASSUME Sides, Lasting, Requested, Gm!Client \/ Gm!Server \/ Gm!Interruption
  PROVE  Requested' \/ HelloAgain'
<1>1. Gm!Client \/ Gm!Interruption
  BY ServerIdle DEF Lasting, Requested, Programs, Wires, Reading, Gm!Broken
<1>2. ClientClears \/ Gm!ClientReads("read 1", "write 2", "read 1 again")
  BY <1>1, ClientAt DEF Requested, Programs, Reading, ClientWaits, ClientDies, Lasting, Gm!Broken
<1>3. CASE ClientClears
  <2>1. Quiet /\ UNCHANGED server /\ client' = "read 1"
    BY <1>3, QuietSteps DEF ClientClears
  <2>2. Cleared'
    BY <1>3 DEF Requested, Cleared, ClientClears, Sides, Side
  <2> QED BY <2>1, <2>2 DEF Requested, Programs, Wires, Shaking, Reading, Quiet
<1>4. CASE Gm!ClientReads("read 1", "write 2", "read 1 again")
  <2>1. to_client # <<>> /\ Head(to_client) = <<"hello request">> /\ Tail(to_client) = <<>>
    BY OneOnIt DEF Requested, Wires, Flies
  <2>2. ~Gm!Arrived(to_client) /\ ~Gm!Ended(to_client, server)
    BY <2>1 DEF Gm!Arrived, Gm!Ended, Gm!Broken, Lasting, Gm!Flight
  <2>3. Gm!ClientFlight("hello request", "client hello", "server hello")
        /\ client = "read 1" /\ UNCHANGED <<client, server, shaken, szBuffer, heard>>
    BY <1>4, <2>2 DEF Requested, Shaking, Gm!ClientReads, Gm!ClientShakes, Gm!ClientShaken,
       Gm!talk
  <2>4. /\ to_client' = <<>> /\ to_server' = Append(to_server, <<"client hello">>)
        /\ awaited' = [awaited EXCEPT !["client"] = "server hello"]
    BY <2>1, <2>3 DEF Gm!ClientFlight
  <2>5. to_server' = Flies("client hello")
    BY <2>4, OneOnIt DEF Requested, Wires, Flies
  <2> QED BY <2>3, <2>4, <2>5 DEF Requested, HelloAgain, Cleared, Sides, Side, Programs, Wires,
          Shaking
<1> QED BY <1>2, <1>3, <1>4

LEMMA HelloAgainStep ==
  ASSUME Sides, Lasting, HelloAgain, Gm!Client \/ Gm!Server \/ Gm!Interruption
  PROVE  HelloAnsweredAgain'
<1>1. Gm!Server
  BY ClientIdle DEF Lasting, HelloAgain, Programs, Wires, Gm!Broken, ClientWaits
<1>2. /\ Head(to_server) = <<"client hello">> /\ to_server # <<>>
      /\ <<"client hello">> # <<"client finished">>
  BY OneOnIt DEF Flies, HelloAgain, Wires
<1>3. Gm!ServerShakes
  BY <1>1, <1>2, ServerAt DEF Lasting, HelloAgain, Programs, Shaking, Gm!ServerReadsNothing,
     Gm!ServerShaken, Gm!Ended, Gm!Broken, ServerDies
<1>4. Cleared'
  BY <1>3, ServerShakesIs DEF HelloAgain, Wires, Cleared
<1> QED BY <1>3, <1>4, ServerShakesIs DEF HelloAgain, HelloAnsweredAgain, Programs, Wires, Shaking

LEMMA HelloAnsweredAgainStep ==
  ASSUME Sides, Lasting, HelloAnsweredAgain, Gm!Client \/ Gm!Server \/ Gm!Interruption
  PROVE  FinishingAgain'
<1>1. Gm!Client \/ Gm!Interruption
  BY ServerIdle DEF Lasting, HelloAnsweredAgain, Programs, Wires, Gm!Broken
<1>2. to_client # <<>> /\ Head(to_client) = <<"server hello">>
  BY OneOnIt DEF Flies, HelloAnsweredAgain, Wires
<1>3. Gm!ClientReads("read 1", "write 2", "read 1 again")
  BY <1>1, ClientAt DEF HelloAnsweredAgain, Programs, ClientWaits, ClientDies, Lasting, Gm!Broken
<1>4. Gm!ClientShakes
  BY <1>2, <1>3 DEF Lasting, HelloAnsweredAgain, Shaking, Gm!ClientReads, Gm!ClientShaken,
     Gm!Ended, Gm!Broken
<1>5. Cleared'
  BY <1>4, ClientShakesIs DEF HelloAnsweredAgain, Wires, Cleared
<1> QED BY <1>4, <1>5, ClientShakesIs DEF HelloAnsweredAgain, FinishingAgain, Programs, Wires,
        Shaking

LEMMA FinishingAgainStep ==
  ASSUME Sides, Lasting, FinishingAgain, Gm!Client \/ Gm!Server \/ Gm!Interruption
  PROVE  FinishedAgain'
<1>1. Gm!Server
  BY ClientIdle DEF Lasting, FinishingAgain, Programs, Wires, Gm!Broken, ClientWaits
<1>2. to_server # <<>>
  BY OneOnIt DEF Flies, FinishingAgain, Wires
<1>3. Gm!ServerShaken("write 1")
  BY <1>1, <1>2, ServerAt DEF Lasting, FinishingAgain, Programs, Shaking, Gm!ServerReadsNothing,
     Gm!ServerShakes, Gm!Ended, Gm!Broken, ServerDies
<1>4. shaken["server"] = 1 /\ shaken'["server"] = shaken["server"] + 1
  BY <1>3, ServerShakenIs DEF FinishingAgain, Wires, Shaking
<1>5. shaken'["server"] = 2
  BY <1>4
<1>6. /\ shaken'["client"] = shaken["client"]
      /\ to_server' = <<>> /\ to_client' = Flies("server finished")
      /\ awaited'["server"] = "none" /\ awaited'["client"] = awaited["client"]
      /\ server' = "write 1" /\ UNCHANGED <<client, szBuffer, heard>>
  BY <1>3, ServerShakenIs DEF FinishingAgain, Wires
<1> QED BY <1>5, <1>6 DEF FinishingAgain, FinishedAgain, Cleared, Programs, Wires, Shaking

LEMMA TwoShaken == \A n : n = 1 => n + 1 = 2
OBVIOUS

(* The client's second handshake is over with the flight that it reads.    *)
LEMMA ShakesAgain ==
  ASSUME Sides, Lasting, client = "read 1", to_client # <<>>,
     Head(to_client) = <<"server finished">>,
         awaited["client"] = "server finished", shaken["client"] = 1, Gm!Client \/ Gm!Interruption
  PROVE  /\ client' = "read 1 again" /\ to_client' = Tail(to_client)
         /\ awaited'["client"] = "none" /\ awaited'["server"] = awaited["server"]
         /\ shaken'["client"] = 2 /\ shaken'["server"] = shaken["server"]
         /\ UNCHANGED <<server, to_server, szBuffer, heard>>
<1>1. Gm!ClientReads("read 1", "write 2", "read 1 again")
  BY ClientAt DEF ClientWaits, ClientDies, Lasting, Gm!Broken
<1>2. Gm!ClientShaken("read 1 again")
  BY <1>1 DEF Lasting, Gm!ClientReads, Gm!ClientShakes, Gm!Ended, Gm!Broken
<1>3. shaken'["client"] = shaken["client"] + 1
  BY <1>2, ClientShakenIs
<1>4. shaken'["client"] = 2
  BY <1>3, TwoShaken
<1> QED BY <1>2, <1>4, ClientShakenIs

LEMMA FinishedAgainStep ==
  ASSUME Sides, Lasting, FinishedAgain, Gm!Client \/ Gm!Server \/ Gm!Interruption
  PROVE  ShakenAgain' \/ AnsweredAhead'
<1>1. CASE Gm!Client \/ Gm!Interruption
  <2>1. to_client # <<>> /\ Head(to_client) = <<"server finished">> /\ Tail(to_client) = <<>>
    BY OneOnIt DEF Flies, FinishedAgain, Wires
  <2>2. /\ client' = "read 1 again" /\ to_client' = <<>>
        /\ awaited'["client"] = "none" /\ awaited'["server"] = awaited["server"]
        /\ shaken'["client"] = 2 /\ shaken'["server"] = shaken["server"]
        /\ UNCHANGED <<server, to_server, szBuffer, heard>>
    BY <1>1, <2>1, ShakesAgain DEF FinishedAgain, Programs, Shaking
  <2> QED BY <2>2 DEF FinishedAgain, ShakenAgain, Cleared, Programs, Wires, Shaking
<1>2. CASE Gm!Server
  <2>1. Gm!ServerWrites("write 1", "s1", "read 2")
    BY <1>2, ServerAt DEF FinishedAgain, Programs, ServerDies, Lasting, Gm!Broken
  <2>2. /\ to_client' = Append(to_client, Append(<<>>, "s1")) /\ server' = "read 2"
        /\ UNCHANGED <<client, to_server, awaited, shaken, heard>>
    BY <2>1, ServerWritesIs DEF FinishedAgain, Cleared
  <2>3. to_client' = Append(<<<<"server finished">>>>, <<"s1">>)
    BY <2>2, OneOnIt DEF FinishedAgain, Wires, Flies
  <2>4. to_client' = <<<<"server finished">>, <<"s1">>>>
    BY <2>3, TwoOnIt
  <2> QED BY <2>2, <2>4 DEF FinishedAgain, AnsweredAhead, Programs, Wires, Shaking
<1> QED BY <1>1, <1>2

LEMMA AnsweredAheadStep ==
  ASSUME Sides, Lasting, AnsweredAhead, Gm!Client \/ Gm!Server \/ Gm!Interruption
  PROVE  Answered'
<1>1. Gm!Client \/ Gm!Interruption
  BY ServerIdle DEF Lasting, AnsweredAhead, Programs, Wires, Gm!Broken
<1>2. to_client # <<>> /\ Head(to_client) = <<"server finished">> /\ Tail(to_client) = <<<<"s1">>>>
  BY TwoOnIt DEF AnsweredAhead, Wires
<1>3. /\ client' = "read 1 again" /\ to_client' = <<<<"s1">>>>
      /\ awaited'["client"] = "none" /\ awaited'["server"] = awaited["server"]
      /\ shaken'["client"] = 2 /\ shaken'["server"] = shaken["server"]
      /\ UNCHANGED <<server, to_server, szBuffer, heard>>
  BY <1>1, <1>2, ShakesAgain DEF AnsweredAhead, Programs, Shaking
<1> QED BY <1>3 DEF AnsweredAhead, Answered, Programs, Wires, Shaking

LEMMA ShakenAgainStep ==
  ASSUME Sides, Lasting, ShakenAgain, Gm!Client \/ Gm!Server \/ Gm!Interruption
  PROVE  Answered'
<1>1. Gm!Server
  BY ClientIdle DEF Lasting, ShakenAgain, Programs, Wires, Gm!Broken, ClientWaits
<1>2. Gm!ServerWrites("write 1", "s1", "read 2")
  BY <1>1, ServerAt DEF ShakenAgain, Programs, ServerDies, Lasting, Gm!Broken
<1>3. /\ to_client' = Append(<<>>, Append(<<>>, "s1")) /\ server' = "read 2"
      /\ UNCHANGED <<client, to_server, awaited, shaken, heard>>
  BY <1>2, ServerWritesIs DEF ShakenAgain, Wires, Cleared
<1>4. to_client' = <<<<"s1">>>>
  BY <1>3, OneOnIt
<1> QED BY <1>3, <1>4 DEF ShakenAgain, Answered, Programs, Wires, Shaking

LEMMA AnsweredStep ==
  ASSUME Sides, Lasting, Answered, Gm!Client \/ Gm!Server \/ Gm!Interruption
  PROVE  AnswerRead'
<1>1. Gm!Client \/ Gm!Interruption
  BY ServerIdle DEF Lasting, Answered, Programs, Wires, Gm!Broken
<1>2. Gm!ClientReads("read 1 again", "write 2", "write 2")
  BY <1>1, ClientAt DEF Answered, Programs, ClientWaits, ClientDies, Lasting, Gm!Broken
<1>3. <<"s1">> \in Text /\ <<"s1">> \notin Gm!Flight
  BY NoFlight
<1>4. /\ to_client' = <<>> /\ heard' = Append(heard, <<"s1">>) /\ client' = "write 2"
      /\ szBuffer'["client"] = <<"s1">>
      /\ UNCHANGED <<server, to_server, awaited, shaken>>
  BY <1>2, <1>3, ClientReadsIs DEF Answered, Wires, Shaking
<1>5. Begins(heard, 1)
  BY DEF Answered
<1>6. Begins(heard', 2)
  BY <1>4, <1>5, HearOne
<1> QED BY <1>4, <1>6 DEF Answered, AnswerRead, Programs, Wires, Shaking

LEMMA AnswerReadStep ==
  ASSUME Sides, Lasting, AnswerRead, Gm!Client \/ Gm!Server \/ Gm!Interruption
  PROVE  AskedAgain'
<1>1. Gm!ClientWrites("write 2", {szBuffer["client"]}, "c2", "read 2")
  BY ServerIdle, ClientAt DEF Lasting, AnswerRead, Programs, Wires, Gm!Broken, ClientWaits,
     ClientDies
<1>2. /\ to_server' = Append(<<>>, <<"s1">> \o <<"c2">>) /\ client' = "read 2"
      /\ UNCHANGED <<server, to_client, awaited, shaken, heard>>
  BY <1>1 DEF Lasting, AnswerRead, Wires, Gm!ClientWrites, Gm!Send, Gm!Broken, Gm!tls
<1>3. <<"s1">> \o <<"c2">> = <<"s1", "c2">>
  <2>1. <<"s1">> \in Seq({"s1", "c2"}) /\ "c2" \in {"s1", "c2"}
    OBVIOUS
  <2> QED BY <2>1, TwoOnIt, AppendIsConcat
<1>4. to_server' = <<<<"s1", "c2">>>>
  BY <1>2, <1>3, OneOnIt
<1> QED BY <1>2, <1>4 DEF AnswerRead, AskedAgain, Programs, Wires, Shaking

LEMMA AskedAgainStep ==
  ASSUME Sides, Lasting, AskedAgain, Gm!Client \/ Gm!Server \/ Gm!Interruption
  PROVE  ReachedAgain'
<1>1. ~(Gm!Client \/ Gm!Interruption)
  BY ClientIdle DEF Lasting, AskedAgain, Programs, Wires, Gm!Broken, ClientWaits
<1>2. Gm!ServerReads("read 2", "write 2", "write 2")
  BY <1>1, ServerAt DEF AskedAgain, Programs, ServerDies, Lasting, Gm!Broken
<1>3. <<"s1", "c2">> \in Text
  BY NoFlight
<1>4. /\ to_server' = <<>> /\ heard' = Append(heard, <<"s1", "c2">>) /\ server' = "write 2"
      /\ szBuffer'["server"] = <<"s1", "c2">>
      /\ UNCHANGED <<client, to_client, awaited, shaken>>
  BY <1>2, <1>3, ServerReadsIs DEF AskedAgain, Wires
<1>5. Begins(heard, 2)
  BY DEF AskedAgain
<1>6. Begins(heard', 3)
  BY <1>4, <1>5, HearOne
<1> QED BY <1>4, <1>6 DEF AskedAgain, ReachedAgain, Programs, Wires, Shaking

LEMMA ReachedAgainStep ==
  ASSUME Sides, Lasting, ReachedAgain, Gm!Client \/ Gm!Server \/ Gm!Interruption
  PROVE  AnsweredAgain'
<1>1. ~(Gm!Client \/ Gm!Interruption)
  BY ClientIdle DEF Lasting, ReachedAgain, Programs, Wires, Gm!Broken, ClientWaits
<1>2. Gm!ServerWrites("write 2", "s2", "done")
  BY <1>1, ServerAt DEF ReachedAgain, Programs, ServerDies, Lasting, Gm!Broken
<1>3. /\ to_client' = Append(<<>>, Append(<<"s1", "c2">>, "s2")) /\ server' = "done"
      /\ UNCHANGED <<client, to_server, awaited, shaken, heard>>
  BY <1>2, ServerWritesIs DEF ReachedAgain, Wires
<1>4. to_client' = <<<<"s1", "c2", "s2">>>>
  BY <1>3, OneOnIt, ThreeOnIt
<1> QED BY <1>3, <1>4 DEF ReachedAgain, AnsweredAgain, Programs, Wires, Shaking

LEMMA AnsweredAgainStep ==
  ASSUME Sides, Lasting, AnsweredAgain, Gm!Client \/ Gm!Server \/ Gm!Interruption
  PROVE  Over'
<1>1. Gm!Client \/ Gm!Interruption
  BY AtTheirEnd DEF AnsweredAgain, Programs
<1>2. Gm!ClientReads("read 2", "done", "done")
  BY <1>1, ClientAt DEF AnsweredAgain, Programs, ClientWaits, ClientDies, Lasting, Gm!Broken
<1>3. <<"s1", "c2", "s2">> \in Text /\ <<"s1", "c2", "s2">> \notin Gm!Flight
  BY NoFlight
<1>4. /\ to_client' = <<>> /\ heard' = Append(heard, <<"s1", "c2", "s2">>) /\ client' = "done"
      /\ UNCHANGED <<server, to_server, awaited, shaken>>
  BY <1>2, <1>3, ClientReadsIs DEF AnsweredAgain, Wires, Shaking
<1>5. Begins(heard, 3)
  BY DEF AnsweredAgain
<1>6. Begins(heard', 4)
  BY <1>4, <1>5, HearOne
<1> QED BY <1>4, <1>6 DEF AnsweredAgain, Over, Programs, Wires, Shaking

LEMMA OverStays ==
  ASSUME Over PROVE ~(Gm!Client \/ Gm!Server \/ Gm!Interruption)
BY AtTheirEnd DEF Over, Programs
-----------------------------------------------------------------------------
(* The conversation in these terms.                                        *)
PhaseOf(s, l) == IF s = 0 THEN "closed" ELSE IF l THEN "lost" ELSE "open"
Phase == PhaseOf(shaken["client"], lost)
SaidNow == Gm!Messages(heard \o Gm!OnTheirWay)
HeardNow == Gm!Messages(heard)
Talks == [Gm!Conversation!Next]_(Gm!Conversation!vars)

LEMMA PhaseIs ==
  ASSUME NEW s, NEW l
  PROVE  /\ s = 0 => PhaseOf(s, l) = "closed"
         /\ s # 0 /\ l => PhaseOf(s, l) = "lost"
         /\ s # 0 /\ ~l => PhaseOf(s, l) = "open"
<1>1. s = 0 => PhaseOf(s, l) = "closed"
  BY DEF PhaseOf
<1>2. s # 0 /\ l => PhaseOf(s, l) = "lost"
  BY DEF PhaseOf
<1>3. s # 0 /\ ~l => PhaseOf(s, l) = "open"
  BY DEF PhaseOf
<1> QED BY <1>1, <1>2, <1>3

LEMMA TalksIf ==
  /\ UNCHANGED <<Phase, SaidNow, HeardNow>> => Talks
  /\ Phase = "closed" /\ Phase' = "open" /\ UNCHANGED <<SaidNow, HeardNow>> => Talks
  /\ /\ Phase = "open" /\ Phase' = "open" /\ SaidNow = HeardNow /\ SaidNow # Gm!Script
     /\ SaidNow' = Append(SaidNow, Gm!Script[Len(SaidNow) + 1]) /\ HeardNow' = HeardNow
     => Talks
  /\ /\ Phase = "open" /\ Phase' = "open" /\ HeardNow # SaidNow
     /\ HeardNow' = SaidNow /\ SaidNow' = SaidNow
     => Talks
  /\ /\ Phase = "open" /\ Phase' = "lost" /\ SaidNow' = HeardNow /\ HeardNow' = HeardNow
     => Talks
<1>1. UNCHANGED <<Phase, SaidNow, HeardNow>> => UNCHANGED Gm!Conversation!vars
  BY DEF Gm!Conversation!vars, Phase, PhaseOf, SaidNow, HeardNow
<1>2. Phase = "closed" /\ Phase' = "open" /\ UNCHANGED <<SaidNow, HeardNow>> => Gm!Conversation!Open
  BY DEF Gm!Conversation!Open, Phase, PhaseOf, SaidNow, HeardNow
<1>3. /\ Phase = "open" /\ Phase' = "open" /\ SaidNow = HeardNow /\ SaidNow # Gm!Script
      /\ SaidNow' = Append(SaidNow, Gm!Script[Len(SaidNow) + 1]) /\ HeardNow' = HeardNow
      => Gm!Conversation!Say
  BY DEF Gm!Conversation!Say, Phase, PhaseOf, SaidNow, HeardNow
<1>4. /\ Phase = "open" /\ Phase' = "open" /\ HeardNow # SaidNow
      /\ HeardNow' = SaidNow /\ SaidNow' = SaidNow
      => Gm!Conversation!Hear
  BY DEF Gm!Conversation!Hear, Phase, PhaseOf, SaidNow, HeardNow
<1>5. /\ Phase = "open" /\ Phase' = "lost" /\ SaidNow' = HeardNow /\ HeardNow' = HeardNow
      => Gm!Conversation!Lose
  BY DEF Gm!Conversation!Lose, Phase, PhaseOf, SaidNow, HeardNow
<1> QED BY <1>1, <1>2, <1>3, <1>4, <1>5 DEF Talks, Gm!Conversation!Next

(* What is on its way.                                                     *)
Flights == {"hello request", "client hello", "server hello", "client finished", "server finished"}

LEMMA SpokenIs ==
  /\ Gm!Spoken(<<>>) = <<>>
  /\ \A f \in Flights : Gm!Spoken(Flies(f)) = <<>>
  /\ \A m : m \notin Gm!Flight => Gm!Spoken(<<m>>) = <<m>>
  /\ \A m : Gm!Spoken(<<<<"server finished">>, m>>) = <<m>>
<1>1. \A m : <<m>> # <<>> /\ Head(<<m>>) = m /\ Tail(<<m>>) = <<>>
  BY OneOnIt
<1>2. ASSUME NEW f \in Flights
      PROVE  Gm!Spoken(Flies(f)) = <<>>
  <2>1. <<f>> \in Gm!Flight
    BY DEF Gm!Flight, Flights
  <2> QED BY <1>1, <2>1 DEF Gm!Spoken, Flies
<1>3. ASSUME NEW m, m \notin Gm!Flight PROVE Gm!Spoken(<<m>>) = <<m>>
  BY <1>1, <1>3 DEF Gm!Spoken
<1>4. ASSUME NEW m PROVE Gm!Spoken(<<<<"server finished">>, m>>) = <<m>>
  <2>1. <<"server finished">> \in Gm!Flight
    BY DEF Gm!Flight
  <2> QED BY <2>1, TwoOnIt DEF Gm!Spoken
<1> QED BY <1>2, <1>3, <1>4 DEF Gm!Spoken

(* Before anything is said; when all that was said was heard; and when one *)
(* message is on its way.                                                  *)
Closed == shaken["client"] = 0 /\ Gm!OnTheirWay = <<>> /\ Begins(heard, 0)
Listening(n) == shaken["client"] # 0 /\ ~lost /\ Gm!OnTheirWay = <<>> /\ Begins(heard, n)
Speaking(n) ==
  /\ shaken["client"] # 0 /\ ~lost /\ Begins(heard, n)
  /\ \E m : Gm!OnTheirWay = <<m>> /\ NextOne(m, n)

LEMMA NothingMore ==
  ASSUME NEW n \in 0..4, NEW h, NEW o, Begins(h, n), o = <<>>
  PROVE  Gm!Messages(h) = Said(n) /\ Gm!Messages(h \o o) = Said(n)
<1>1. h \o o = h
  BY ConcatEmptySeq DEF Begins
<1> QED BY <1>1, MessagesAre

LEMMA OneIsSaid ==
  ASSUME NEW n \in 0..3, NEW h, NEW o, Begins(h, n), \E m : o = <<m>> /\ NextOne(m, n)
  PROVE  Gm!Messages(h) = Said(n) /\ Gm!Messages(h \o o) = Said(n + 1)
<1>1. PICK m : o = <<m>> /\ NextOne(m, n)
  OBVIOUS
<1>2. Begins(h \o o, n + 1)
  BY <1>1, OneMore
<1>3. n \in 0..4 /\ n + 1 \in 0..4
  OBVIOUS
<1> QED BY <1>2, <1>3, MessagesAre

LEMMA ClosedMeans ==
  /\ Closed => Phase = "closed" /\ SaidNow = Said(0) /\ HeardNow = Said(0)
  /\ Closed' => Phase' = "closed" /\ SaidNow' = Said(0) /\ HeardNow' = Said(0)
<1>1. 0 \in 0..4
  OBVIOUS
<1> QED BY <1>1, PhaseIs, NothingMore DEF Closed, Phase, SaidNow, HeardNow

LEMMA ListeningMeans ==
  ASSUME NEW n \in 0..4
  PROVE  /\ Listening(n) => Phase = "open" /\ SaidNow = Said(n) /\ HeardNow = Said(n)
         /\ Listening(n)' => Phase' = "open" /\ SaidNow' = Said(n) /\ HeardNow' = Said(n)
BY PhaseIs, NothingMore DEF Listening, Phase, SaidNow, HeardNow

LEMMA SpeakingMeans ==
  ASSUME NEW n \in 0..3
  PROVE  /\ Speaking(n) => Phase = "open" /\ SaidNow = Said(n + 1) /\ HeardNow = Said(n)
         /\ Speaking(n)' => Phase' = "open" /\ SaidNow' = Said(n + 1) /\ HeardNow' = Said(n)
BY PhaseIs, OneIsSaid DEF Speaking, Phase, SaidNow, HeardNow

LEMMA SaidInTurn ==
  /\ \A n \in 0..3 : Said(n) # Gm!Script /\ Len(Said(n)) = n /\ Said(n + 1) # Said(n)
<1>1. ASSUME NEW n \in 0..3 PROVE Len(Said(n)) = n /\ Len(Said(n + 1)) = n + 1
  <2>1. n \in 0..4 /\ n + 1 \in 0..4
    OBVIOUS
  <2> QED BY <2>1, SaidIs
<1>2. ASSUME NEW n \in 0..3 PROVE Said(n) # Gm!Script /\ Said(n + 1) # Said(n)
  <2>1. n # 4 /\ n + 1 # n
    OBVIOUS
  <2> QED BY <1>1, <2>1, ScriptIs
<1> QED BY <1>1, <1>2

(* Steps between such states are steps of the conversation.                *)
LEMMA OpensTalk ==
  /\ Closed /\ Closed' => Talks
  /\ Closed /\ Listening(0)' => Talks
BY ClosedMeans, ListeningMeans, TalksIf

LEMMA GoesOn ==
  ASSUME NEW n \in 0..3
  PROVE  /\ Listening(n) /\ Listening(n)' => Talks
         /\ Listening(n) /\ Speaking(n)' => Talks
         /\ Speaking(n) /\ Speaking(n)' => Talks
         /\ Speaking(n) /\ Listening(n + 1)' => Talks
<1>1. n \in 0..4 /\ n + 1 \in 0..4
  OBVIOUS
<1>2. Listening(n) /\ Listening(n)' => Talks
  BY <1>1, ListeningMeans, TalksIf
<1>3. Listening(n) /\ Speaking(n)' => Talks
  BY <1>1, ListeningMeans, SpeakingMeans, SaidInTurn, SaidOneMore, TalksIf
<1>4. Speaking(n) /\ Speaking(n)' => Talks
  BY SpeakingMeans, TalksIf
<1>5. Speaking(n) /\ Listening(n + 1)' => Talks
  BY <1>1, ListeningMeans, SpeakingMeans, SaidInTurn, TalksIf
<1> QED BY <1>2, <1>3, <1>4, <1>5

(* The loss of the connection.                                             *)
LEMMA Breaks ==
  ASSUME lost', to_server' = <<>>, to_client' = <<>>, UNCHANGED <<shaken, heard>>
  PROVE  /\ Closed => Talks
         /\ \A n \in 0..4 : Listening(n) => Talks
         /\ \A n \in 0..3 : Speaking(n) => Talks
<1>1. Gm!OnTheirWay' = <<>>
  BY SpokenIs, JoinOne DEF Gm!OnTheirWay
<1>2. ASSUME NEW n \in 0..4, Begins(heard, n) PROVE SaidNow' = Said(n) /\ HeardNow' = Said(n)
  <2>1. Begins(heard', n)
    BY <1>2
  <2> QED BY <1>1, <2>1, NothingMore DEF SaidNow, HeardNow
<1>3. ASSUME Closed PROVE Talks
  <2>1. Closed'
    BY <1>1, <1>3 DEF Closed
  <2> QED BY <1>3, <2>1, OpensTalk
<1>4. shaken["client"] # 0 => Phase' = "lost"
  BY PhaseIs DEF Phase
<1>5. ASSUME NEW n \in 0..4, Listening(n) PROVE Talks
  BY <1>2, <1>4, <1>5, ListeningMeans, TalksIf DEF Listening
<1>6. ASSUME NEW n \in 0..3, Speaking(n) PROVE Talks
  <2>1. n \in 0..4
    OBVIOUS
  <2> QED BY <1>2, <1>4, <1>6, <2>1, SpeakingMeans, TalksIf DEF Speaking
<1> QED BY <1>3, <1>5, <1>6
-----------------------------------------------------------------------------
(* Where the programs are, and where their conversation is.                *)
Preparing == Met \/ Left \/ Hello \/ HelloAnswered \/ Finishing \/ Finished
Listening1 ==
  \/ Reached \/ Requested \/ HelloAgain \/ HelloAnsweredAgain \/ FinishingAgain
  \/ FinishedAgain \/ ShakenAgain
Speaking1 == AnsweredAhead \/ Answered

Together ==
  \/ Preparing \/ Shaken \/ Asked \/ Listening1 \/ Speaking1
  \/ AnswerRead \/ AskedAgain \/ ReachedAgain \/ AnsweredAgain \/ Over

GmInv == Sides /\ (Lost \/ (~lost /\ Apart) \/ (Lasting /\ Together))

(* A wire with no message on it.                                           *)
Plain(w) == w = <<>> \/ \E f \in Flights : w = Flies(f)

LEMMA PlainIs ==
  /\ Plain(<<>>) /\ Plain(Flies("hello request")) /\ Plain(Flies("client hello"))
  /\ Plain(Flies("server hello")) /\ Plain(Flies("client finished"))
  /\ Plain(Flies("server finished"))
<1>1. ASSUME NEW f \in Flights PROVE Plain(Flies(f))
  BY DEF Plain
<1> QED BY <1>1 DEF Plain, Flights

LEMMA NothingCarried ==
  ASSUME Plain(to_server), Plain(to_client) PROVE Gm!OnTheirWay = <<>>
<1>1. \A w : Plain(w) => Gm!Spoken(w) = <<>>
  BY SpokenIs DEF Plain
<1> QED BY <1>1, JoinOne DEF Gm!OnTheirWay

LEMMA OneCarried ==
  ASSUME NEW m, m \notin Gm!Flight,
         (Plain(to_server) /\ to_client = <<m>>) \/ (to_server = <<m>> /\ Plain(to_client))
  PROVE  Gm!OnTheirWay = <<m>>
<1>1. \A w : Plain(w) => Gm!Spoken(w) = <<>>
  BY SpokenIs DEF Plain
<1>2. Gm!Spoken(<<m>>) = <<m>>
  BY SpokenIs
<1> QED BY <1>1, <1>2, JoinOne DEF Gm!OnTheirWay

Meaning ==
  /\ Apart \/ Preparing => Closed
  /\ Lasting =>
       /\ Shaken => Listening(0)
       /\ Asked => Speaking(0)
       /\ Listening1 => Listening(1)
       /\ Speaking1 => Speaking(1)
       /\ AnswerRead => Listening(2)
       /\ AskedAgain => Speaking(2)
       /\ ReachedAgain => Listening(3)
       /\ AnsweredAgain => Speaking(3)
       /\ Over => Listening(4)

LEMMA StagesMean == Meaning
<1>1. ASSUME Apart \/ Preparing PROVE Closed
  <2>1. Plain(to_server) /\ Plain(to_client)
    BY <1>1, PlainIs DEF Apart, Preparing, Met, Left, Hello, HelloAnswered, Finishing,
       Finished, Wires
  <2>2. shaken["client"] = 0 /\ Begins(heard, 0)
    BY <1>1 DEF Apart, Preparing, Met, Left, Hello, HelloAnswered, Finishing, Finished, Shaking
  <2> QED BY <2>1, <2>2, NothingCarried DEF Closed
<1>2. ASSUME Shaken \/ Listening1 \/ AnswerRead \/ ReachedAgain \/ Over
      PROVE  Gm!OnTheirWay = <<>> /\ shaken["client"] # 0
  <2>1. Plain(to_server) /\ Plain(to_client)
    BY <1>2, PlainIs DEF Shaken, Listening1, Reached, Requested, HelloAgain, HelloAnsweredAgain,
       FinishingAgain, FinishedAgain, ShakenAgain, AnswerRead, ReachedAgain, Over, Wires
  <2>2. shaken["client"] = 1 \/ shaken["client"] = 2
    BY <1>2 DEF Shaken, Listening1, Reached, Requested, HelloAgain, HelloAnsweredAgain,
       FinishingAgain, FinishedAgain, ShakenAgain, AnswerRead, ReachedAgain, Over, Shaking
  <2> QED BY <2>1, <2>2, NothingCarried
<1>3. /\ Shaken => Begins(heard, 0)
      /\ Listening1 => Begins(heard, 1)
      /\ AnswerRead => Begins(heard, 2)
      /\ ReachedAgain => Begins(heard, 3)
      /\ Over => Begins(heard, 4)
  BY DEF Shaken, Listening1, Reached, Requested, HelloAgain, HelloAnsweredAgain,
     FinishingAgain, FinishedAgain, ShakenAgain, AnswerRead, ReachedAgain, Over
<1>4. \A m \in First \cup {<<"s1">>, <<"s1", "c2">>, <<"s1", "c2", "s2">>} : m \notin Gm!Flight
  BY NoFlight
<1>5. ASSUME Lasting, Asked PROVE Speaking(0)
  <2>1. PICK m \in First : to_server = <<m>> /\ to_client = <<>>
    BY <1>5 DEF Asked, Wires
  <2>2. Gm!OnTheirWay = <<m>>
    BY <1>4, <2>1, PlainIs, OneCarried
  <2>3. NextOne(m, 0)
    BY NextIs
  <2>4. shaken["client"] = 1 /\ Begins(heard, 0) /\ ~lost
    BY <1>5 DEF Asked, Shaking, Lasting
  <2> QED BY <2>2, <2>3, <2>4 DEF Speaking
<1>6. ASSUME Lasting, Speaking1 PROVE Speaking(1)
  <2>1. Gm!OnTheirWay = <<<<"s1">>>>
    <3>1. CASE Answered
      BY <1>4, <3>1, PlainIs, OneCarried DEF Answered, Wires
    <3>2. CASE AnsweredAhead
      <4>1. Gm!Spoken(<<>>) = <<>> /\ Gm!Spoken(<<<<"server finished">>, <<"s1">>>>) = <<<<"s1">>>>
        BY SpokenIs
      <4> QED BY <3>2, <4>1, JoinOne DEF AnsweredAhead, Wires, Gm!OnTheirWay
    <3> QED BY <1>6, <3>1, <3>2 DEF Speaking1
  <2>2. NextOne(<<"s1">>, 1)
    BY NextIs
  <2>3. (shaken["client"] = 1 \/ shaken["client"] = 2) /\ Begins(heard, 1) /\ ~lost
    BY <1>6 DEF Speaking1, Answered, AnsweredAhead, Shaking, Lasting
  <2> QED BY <2>1, <2>2, <2>3 DEF Speaking
<1>7. ASSUME Lasting, AskedAgain PROVE Speaking(2)
  <2>1. Gm!OnTheirWay = <<<<"s1", "c2">>>>
    BY <1>4, <1>7, PlainIs, OneCarried DEF AskedAgain, Wires
  <2>2. NextOne(<<"s1", "c2">>, 2)
    BY NextIs
  <2>3. shaken["client"] = 2 /\ Begins(heard, 2) /\ ~lost
    BY <1>7 DEF AskedAgain, Shaking, Lasting
  <2> QED BY <2>1, <2>2, <2>3 DEF Speaking
<1>8. ASSUME Lasting, AnsweredAgain PROVE Speaking(3)
  <2>1. Gm!OnTheirWay = <<<<"s1", "c2", "s2">>>>
    BY <1>4, <1>8, PlainIs, OneCarried DEF AnsweredAgain, Wires
  <2>2. NextOne(<<"s1", "c2", "s2">>, 3)
    BY NextIs
  <2>3. shaken["client"] = 2 /\ Begins(heard, 3) /\ ~lost
    BY <1>8 DEF AnsweredAgain, Shaking, Lasting
  <2> QED BY <2>1, <2>2, <2>3 DEF Speaking
<1>9. Lasting => ~lost
  BY DEF Lasting
<1> QED BY <1>1, <1>2, <1>3, <1>5, <1>6, <1>7, <1>8, <1>9 DEF Meaning, Listening

LEMMA StagesMeanNext == Meaning'
BY StagesMean, PTL

(* A lost connection stays lost, and nothing is said on it any more.       *)
LEMMA LostStep ==
  ASSUME Lost, Gm!Client \/ Gm!Server \/ Gm!Interruption
  PROVE  Lost' /\ UNCHANGED <<to_server, to_client, lost, shaken, heard>>
<1> USE DEF Lost
<1>1. Gm!Broken
  BY DEF Gm!Broken
<1>2. ASSUME Gm!Client \/ Gm!Interruption
      PROVE  UNCHANGED <<to_server, to_client, connected, lost, shaken, heard>> \/ Gm!ClientConnect
  <2>1. CASE ClientWaits \/ ClientClears
    BY <2>1, QuietSteps DEF Quiet
  <2>2. CASE Gm!ClientSetup \/ Gm!ClientHello
    BY <1>1, <2>2 DEF Gm!ClientSetup, Gm!ClientHello, Gm!ClientGoes, Gm!Send, Gm!link, Gm!wire,
       Gm!tls, Gm!talk
  <2>3. CASE Gm!ClientHandshake
    BY <1>1, <2>3 DEF Gm!ClientHandshake, Gm!ClientGoes, Gm!ClientShakes, Gm!ClientShaken,
       Gm!ClientFlight,
       Gm!link, Gm!wire, Gm!tls, Gm!talk
  <2>4. ASSUME NEW from, NEW to, NEW nothing, Gm!ClientReads(from, to, nothing)
        PROVE  UNCHANGED <<to_server, to_client, connected, lost, shaken, heard>>
    BY <1>1, <2>4 DEF Wires, Gm!ClientReads, Gm!ClientShakes, Gm!ClientShaken, Gm!ClientFlight,
       Gm!Arrived,
       Gm!link, Gm!wire, Gm!tls
  <2>5. ASSUME NEW from, NEW text, NEW line, NEW to, Gm!ClientWrites(from, text, line, to)
        PROVE  UNCHANGED <<to_server, to_client, connected, lost, shaken, heard>>
    BY <1>1, <2>5 DEF Gm!ClientWrites, Gm!Send, Gm!link, Gm!tls
  <2>6. CASE ClientDies
    BY <2>6 DEF ClientDies, Gm!link, Gm!wire, Gm!tls, Gm!talk
  <2> QED BY <1>2, <2>1, <2>2, <2>3, <2>4, <2>5, <2>6, ClientAt
<1>3. ASSUME Gm!Server
      PROVE  UNCHANGED <<to_server, to_client, connected, lost, shaken, heard>>
  <2>1. CASE Gm!ServerListen \/ Gm!ServerSetup \/ Gm!ServerAccept \/ Gm!ServerRenegotiate
    BY <1>1, <2>1 DEF Gm!ServerListen, Gm!ServerSetup, Gm!ServerAccept, Gm!ServerRenegotiate,
       Gm!ServerGoes, Gm!Send, Gm!link, Gm!wire, Gm!tls, Gm!talk
  <2>2. CASE Gm!ServerHandshake \/ Gm!ServerReadsNothing
    BY <1>1, <2>2 DEF Gm!ServerHandshake, Gm!ServerReadsNothing, Gm!ServerShakes, Gm!ServerShaken,
       Gm!ServerFlight, Gm!ServerGoes, Gm!link, Gm!wire, Gm!tls, Gm!talk
  <2>3. ASSUME NEW from, NEW to, NEW nothing, Gm!ServerReads(from, to, nothing)
        PROVE  UNCHANGED <<to_server, to_client, connected, lost, shaken, heard>>
    BY <2>3 DEF Wires, Gm!ServerReads, Gm!Arrived, Gm!link, Gm!wire, Gm!tls
  <2>4. ASSUME NEW from, NEW line, NEW to, Gm!ServerWrites(from, line, to)
        PROVE  UNCHANGED <<to_server, to_client, connected, lost, shaken, heard>>
    BY <1>1, <2>4 DEF Gm!ServerWrites, Gm!Send, Gm!link, Gm!tls
  <2>5. CASE ServerDies
    BY <2>5 DEF ServerDies, Gm!link, Gm!wire, Gm!tls, Gm!talk
  <2> QED BY <1>3, <2>1, <2>2, <2>3, <2>4, <2>5, ServerAt
<1>4. ASSUME Gm!ClientConnect
      PROVE  UNCHANGED <<to_server, to_client, lost, shaken, heard>> /\ connected' \in {TRUE,
         connected}
  BY <1>4 DEF Gm!ClientConnect, Gm!ClientGoes, Gm!link, Gm!wire, Gm!tls, Gm!talk
<1>5. /\ UNCHANGED <<to_server, to_client, lost, shaken, heard>>
      /\ connected' = connected \/ connected' = TRUE
  BY <1>2, <1>3, <1>4
<1>6. lost' /\ connected'
  BY <1>5
<1>7. Wires(<<>>, <<>>)'
  BY <1>5 DEF Wires
<1> QED BY <1>5, <1>6, <1>7

LEMMA InitGm == Gm!Init => GmInv /\ Gm!Conversation!Init
<1> SUFFICES ASSUME Gm!Init PROVE GmInv /\ Gm!Conversation!Init
  OBVIOUS
<1>1. Begins(heard, 0)
  BY DEF Gm!Init, Begins, Text
<1>2. Apart /\ ~lost /\ Sides
  BY <1>1 DEF Gm!Init, Apart, Sides, Side, Programs, Wires, Shaking, Begun
<1>3. Closed
  BY <1>2, StagesMean DEF Meaning
<1>4. Phase = "closed" /\ SaidNow = Said(0) /\ HeardNow = Said(0)
  BY <1>3, ClosedMeans
<1>5. Said(0) = <<>>
  BY SubSeqEmpty DEF Said
<1> QED BY <1>2, <1>4, <1>5 DEF GmInv, Gm!Conversation!Init, Phase, PhaseOf, SaidNow, HeardNow

LEMMA Stutters ==
  ASSUME GmInv, UNCHANGED Gm!vars PROVE GmInv' /\ Talks
<1>1. UNCHANGED <<client, server, listening, connected, lost, to_server, to_client,
                  awaited, shaken, szBuffer, heard>>
  BY DEF Gm!vars, Gm!link, Gm!wire, Gm!tls, Gm!talk
<1>2. GmInv'
  BY <1>1 DEF GmInv, Sides, Lost, Lasting, Together, Preparing, Listening1, Speaking1,
     Programs, Wires, Shaking,
     Apart, Met, Left, Hello, HelloAnswered, Finishing, Finished, Shaken, Asked, Reached,
        Requested, Cleared,
     HelloAgain, HelloAnsweredAgain, FinishingAgain, FinishedAgain, AnsweredAhead, ShakenAgain,
        Answered,
     AnswerRead, AskedAgain, ReachedAgain, AnsweredAgain, Over
<1>3. UNCHANGED <<Phase, SaidNow, HeardNow>>
  BY <1>1 DEF Phase, SaidNow, HeardNow, Gm!OnTheirWay
<1> QED BY <1>2, <1>3, TalksIf

LEMMA Loses ==
  ASSUME GmInv, Gm!Lose PROVE GmInv' /\ Talks
<1>1. /\ connected /\ ~lost /\ lost' = TRUE /\ connected' = connected
      /\ to_server' = <<>> /\ to_client' = <<>> /\ UNCHANGED <<awaited, shaken, szBuffer, heard>>
  BY DEF Gm!Lose, Gm!tls, Gm!talk
<1>2. Lasting /\ Together
  BY <1>1 DEF GmInv, Lost, Apart
<1>3. GmInv'
  BY <1>1 DEF GmInv, Sides, Lost, Wires
<1>4. \/ Closed
      \/ \E n \in 0..4 : Listening(n)
      \/ \E n \in 0..3 : Speaking(n)
  BY <1>2, StagesMean DEF Meaning, Together
<1>5. Talks
  BY <1>1, <1>4, Breaks
<1> QED BY <1>3, <1>5

(* From what is said and heard before a step and after it.                 *)
LEMMA Turns ==
  ASSUME Meaning, Meaning', Lasting, Lasting'
  PROVE  /\ Preparing /\ (Preparing \/ Shaken)' => Talks
         /\ Shaken /\ Asked' => Talks
         /\ Asked /\ (Asked \/ Reached)' => Talks
         /\ Listening1 /\ (Listening1 \/ Speaking1)' => Talks
         /\ Speaking1 /\ (Speaking1 \/ AnswerRead)' => Talks
         /\ AnswerRead /\ AskedAgain' => Talks
         /\ AskedAgain /\ ReachedAgain' => Talks
         /\ ReachedAgain /\ AnsweredAgain' => Talks
         /\ AnsweredAgain /\ Over' => Talks
<1>1. /\ 0 \in 0..3 /\ 1 \in 0..3 /\ 2 \in 0..3 /\ 3 \in 0..3
      /\ 0 + 1 = 1 /\ 1 + 1 = 2 /\ 2 + 1 = 3 /\ 3 + 1 = 4
  OBVIOUS
<1>2. Reached' => Listening1'
  BY DEF Listening1
<1>3. /\ Listening(0) /\ Speaking(0)' => Talks
      /\ Speaking(0) /\ Speaking(0)' => Talks
      /\ Speaking(0) /\ Listening(1)' => Talks
  BY <1>1, GoesOn
<1>4. /\ Listening(1) /\ Listening(1)' => Talks
      /\ Listening(1) /\ Speaking(1)' => Talks
      /\ Speaking(1) /\ Speaking(1)' => Talks
      /\ Speaking(1) /\ Listening(2)' => Talks
  BY <1>1, GoesOn
<1>5. /\ Listening(2) /\ Speaking(2)' => Talks
      /\ Speaking(2) /\ Listening(3)' => Talks
  BY <1>1, GoesOn
<1>6. /\ Listening(3) /\ Speaking(3)' => Talks
      /\ Speaking(3) /\ Listening(4)' => Talks
  BY <1>1, GoesOn
<1> QED BY <1>2, <1>3, <1>4, <1>5, <1>6, OpensTalk DEF Meaning

LEMMA TogetherStep ==
  ASSUME Sides, Lasting, Together, Gm!Client \/ Gm!Server \/ Gm!Interruption
  PROVE  Together' /\ Talks
<1>1. Lasting' /\ Meaning /\ Meaning'
  BY LastingStep, StagesMean, StagesMeanNext
<1>2. ASSUME Preparing PROVE (Preparing \/ Shaken)'
  BY <1>2, MetStep, LeftStep, HelloStep, HelloAnsweredStep, FinishingStep, FinishedStep
     DEF Preparing
<1>3. ASSUME Listening1 PROVE (Listening1 \/ Speaking1)'
  BY <1>3, ReachedStep, RequestedStep, HelloAgainStep, HelloAnsweredAgainStep, FinishingAgainStep,
     FinishedAgainStep, ShakenAgainStep DEF Listening1, Speaking1
<1>4. ASSUME Speaking1 PROVE (Speaking1 \/ AnswerRead)'
  BY <1>4, AnsweredAheadStep, AnsweredStep DEF Speaking1
<1>5. CASE Preparing
  BY <1>1, <1>2, <1>5, Turns DEF Together
<1>6. CASE Listening1
  BY <1>1, <1>3, <1>6, Turns DEF Together
<1>7. CASE Speaking1
  BY <1>1, <1>4, <1>7, Turns DEF Together
<1>8. CASE Shaken
  BY <1>1, <1>8, ShakenStep, Turns DEF Together
<1>9. CASE Asked
  <2>1. (Asked \/ Reached)'
    BY <1>9, AskedStep
  <2>2. Together'
    BY <2>1 DEF Together, Listening1
  <2> QED BY <1>1, <1>9, <2>1, <2>2, Turns
<1>10. CASE AnswerRead
  BY <1>1, <1>10, AnswerReadStep, Turns DEF Together
<1>11. CASE AskedAgain
  BY <1>1, <1>11, AskedAgainStep, Turns DEF Together
<1>12. CASE ReachedAgain
  BY <1>1, <1>12, ReachedAgainStep, Turns DEF Together
<1>13. CASE AnsweredAgain
  BY <1>1, <1>13, AnsweredAgainStep, Turns DEF Together
<1>14. ~Over
  BY OverStays
<1> QED BY <1>5, <1>6, <1>7, <1>8, <1>9, <1>10, <1>11, <1>12, <1>13, <1>14 DEF Together

LEMMA GmStep == GmInv /\ [Gm!Next]_Gm!vars => GmInv' /\ Talks
<1> SUFFICES ASSUME GmInv, [Gm!Next]_Gm!vars PROVE GmInv' /\ Talks
  OBVIOUS
<1>1. CASE Gm!Client \/ Gm!Server \/ Gm!Interruption
  <2>1. Sides /\ Sides'
    BY <1>1, SidesStep DEF GmInv, Gm!Next
  <2>2. CASE Lost
    <3>1. Lost' /\ UNCHANGED <<to_server, to_client, lost, shaken, heard>>
      BY <1>1, <2>2, LostStep
    <3>2. UNCHANGED <<Phase, SaidNow, HeardNow>>
      BY <3>1 DEF Phase, SaidNow, HeardNow, Gm!OnTheirWay
    <3> QED BY <2>1, <3>1, <3>2, TalksIf DEF GmInv
  <2>3. CASE ~lost /\ Apart
    <3>1. ~lost' /\ (Apart' \/ (connected' /\ Met'))
      BY <1>1, <2>1, <2>3, ApartStep
    <3>2. Closed /\ Closed'
      BY <2>3, <3>1, StagesMean, StagesMeanNext DEF Meaning, Preparing
    <3>3. GmInv'
      BY <2>1, <3>1 DEF GmInv, Lasting, Together, Preparing
    <3> QED BY <3>2, <3>3, OpensTalk
  <2>4. CASE Lasting /\ Together
    BY <1>1, <2>1, <2>4, TogetherStep, LastingStep DEF GmInv
  <2> QED BY <2>2, <2>3, <2>4 DEF GmInv
<1> QED BY <1>1, Stutters, Loses DEF Gm!Next

(* gmclient.c and GMSSL_Server/main.c converse as Dialogue says, however   *)
(* often an interrupted SSL_connect is repeated: every step is one of the  *)
(* conversation or none of it, the steps of both handshakes included.      *)
THEOREM GmConversesInTurn ==
  Gm!Spec => Gm!Conversation!Init /\ [][Gm!Conversation!Next]_(Gm!Conversation!vars)
<1>1. Gm!Init => GmInv /\ Gm!Conversation!Init
  BY InitGm
<1>2. GmInv /\ [Gm!Next]_Gm!vars => GmInv'
  BY GmStep
<1>3. GmInv /\ [Gm!Next]_Gm!vars => [Gm!Conversation!Next]_(Gm!Conversation!vars)
  BY GmStep DEF Talks
<1> QED BY <1>1, <1>2, <1>3, PTL DEF Gm!Spec
-----------------------------------------------------------------------------
(* The types of GmExchange, first without bounds: every step keeps them.   *)
Carried == Seq(Text \cup Gm!Flight)
Awaits == {"none", "server hello", "client finished", "server finished"}
GmClients == {"setup", "connect", "hello", "handshake", "select", "write 1", "clear", "read 1",
              "read 1 again", "write 2", "read 2", "done"}
GmServers == {"listen", "setup", "accept", "handshake", "read 1", "renegotiate",
              "read nothing", "write 1", "read 2", "write 2", "done"}

GmPlaced == client \in GmClients /\ server \in GmServers
GmLinked == listening \in BOOLEAN /\ connected \in BOOLEAN /\ lost \in BOOLEAN
GmCarried == to_server \in Carried /\ to_client \in Carried
GmShaking == awaited \in [Side -> Awaits] /\ shaken \in [Side -> Nat]
GmTexts == szBuffer \in [Side -> Text] /\ heard \in Seq(Text)
GmRetries == retry \in 0..MaxRetry
GmTyped == GmPlaced /\ GmLinked /\ GmCarried /\ GmShaking /\ GmTexts /\ GmRetries

LEMMA GmPlacedStep == GmPlaced /\ [Gm!Next]_Gm!vars => GmPlaced'
<1> SUFFICES ASSUME GmPlaced, [Gm!Next]_Gm!vars PROVE GmPlaced'
  OBVIOUS
<1> USE DEF GmPlaced, GmClients, GmServers
<1>1. CASE Gm!Client \/ Gm!Interruption
  <2>1. \A from, to : Gm!ClientGoes(from, to) => client' = to /\ server' = server
    BY DEF Gm!ClientGoes
  <2>2. \A to : Gm!ClientShaken(to) => client' = to /\ server' = server
    BY DEF Gm!ClientShaken
  <2>3. Gm!ClientShakes => UNCHANGED <<client, server>>
    BY DEF Gm!ClientShakes
  <2>4. \A from, texts, line, to : Gm!ClientWrites(from, texts, line, to) =>
          client' = to /\ server' = server
    BY DEF Gm!ClientWrites
  <2>5. \A from, to, nothing : Gm!ClientReads(from, to, nothing) =>
          client' \in {client, to, nothing} /\ server' = server
    BY <2>2, <2>3 DEF Gm!ClientReads
  <2>6. CASE ClientWaits \/ ClientClears
    BY <2>6 DEF ClientWaits, ClientClears
  <2>7. CASE Gm!ClientSetup \/ Gm!ClientConnect \/ Gm!ClientHello \/ Gm!ClientHandshake
    BY <2>1, <2>2, <2>3, <2>7 DEF Gm!ClientSetup, Gm!ClientConnect, Gm!ClientHello,
       Gm!ClientHandshake
  <2> QED BY <1>1, <2>4, <2>5, <2>6, <2>7, ClientAt DEF ClientDies
<1>2. CASE Gm!Server
  <2>1. \A from, to : Gm!ServerGoes(from, to) => server' = to /\ client' = client
    BY DEF Gm!ServerGoes
  <2>2. \A to : Gm!ServerShaken(to) => server' = to /\ client' = client
    BY DEF Gm!ServerShaken
  <2>3. Gm!ServerShakes => UNCHANGED <<client, server>>
    BY DEF Gm!ServerShakes
  <2>4. \A from, line, to : Gm!ServerWrites(from, line, to) => server' = to /\ client' = client
    BY DEF Gm!ServerWrites
  <2>5. \A from, to, nothing : Gm!ServerReads(from, to, nothing) =>
          server' \in {to, nothing} /\ client' = client
    BY DEF Gm!ServerReads
  <2>6. CASE Gm!ServerListen \/ Gm!ServerSetup \/ Gm!ServerAccept
    BY <2>1, <2>6 DEF Gm!ServerListen, Gm!ServerSetup, Gm!ServerAccept
  <2>7. CASE Gm!ServerHandshake \/ Gm!ServerRenegotiate \/ Gm!ServerReadsNothing
    BY <2>1, <2>2, <2>3, <2>7 DEF Gm!ServerHandshake, Gm!ServerRenegotiate, Gm!ServerReadsNothing
  <2> QED BY <1>2, <2>4, <2>5, <2>6, <2>7, ServerAt DEF ServerDies
<1>3. CASE Gm!Lose \/ UNCHANGED Gm!vars
  BY <1>3 DEF Gm!Lose, Gm!vars
<1> QED BY <1>1, <1>2, <1>3 DEF Gm!Next

LEMMA GmRetriesStep == ASSUME MaxRetry \in Nat PROVE GmRetries /\ [Gm!Next]_Gm!vars => GmRetries'
<1> SUFFICES ASSUME GmRetries, [Gm!Next]_Gm!vars PROVE GmRetries'
  OBVIOUS
<1>1. retry' = retry \/ retry' = MaxRetry \/ (retry > 0 /\ retry' = retry - 1)
  <2>1. CASE Gm!Client
    <3>1. CASE Gm!ClientSelects
      BY <3>1 DEF Gm!ClientSelects, Gm!ClientSelectReturns
    <3>2. CASE Gm!ClientSetup \/ Gm!ClientConnect \/ Gm!ClientHello \/ Gm!ClientHandshake
      BY <3>2 DEF Gm!ClientSetup, Gm!ClientConnect, Gm!ClientHello, Gm!ClientHandshake,
         Gm!ClientGoes, Gm!ClientShakes, Gm!ClientShaken, Gm!talk
    <3>3. \A from, texts, line, to : Gm!ClientWrites(from, texts, line, to) => retry' = retry
      BY DEF Gm!ClientWrites
    <3>4. \A from, to, nothing : Gm!ClientReads(from, to, nothing) => retry' = retry
      BY DEF Gm!ClientReads, Gm!ClientShakes, Gm!ClientShaken, Gm!talk
    <3>5. CASE Gm!ClientKilled
      BY <3>5 DEF Gm!ClientKilled, Gm!ClientGoes, Gm!talk
    <3> QED BY <2>1, <3>1, <3>2, <3>3, <3>4, <3>5 DEF Gm!Client, Gm!ClientReadsAnswer
  <2>2. CASE Gm!Interruption
    BY <2>2 DEF Gm!Interruption, Gm!ClientSelectReturns, Gm!ClientGoes, Gm!talk
  <2>3. CASE Gm!Server
    <3>1. \A from, to : Gm!ServerGoes(from, to) => retry' = retry
      BY DEF Gm!ServerGoes, Gm!talk
    <3>2. Gm!ServerShakes \/ (\E to : Gm!ServerShaken(to)) => retry' = retry
      BY DEF Gm!ServerShakes, Gm!ServerShaken, Gm!talk
    <3>3. CASE Gm!ServerListen \/ Gm!ServerSetup \/ Gm!ServerAccept \/ Gm!ServerRenegotiate
      BY <3>1, <3>3 DEF Gm!ServerListen, Gm!ServerSetup, Gm!ServerAccept, Gm!ServerRenegotiate,
         Gm!talk
    <3>4. CASE Gm!ServerHandshake \/ Gm!ServerReadsNothing
      BY <3>1, <3>2, <3>4 DEF Gm!ServerHandshake, Gm!ServerReadsNothing
    <3>5. \A from, line, to : Gm!ServerWrites(from, line, to) => retry' = retry
      BY DEF Gm!ServerWrites
    <3>6. \A from, to, nothing : Gm!ServerReads(from, to, nothing) => retry' = retry
      BY DEF Gm!ServerReads
    <3> QED BY <2>3, <3>3, <3>4, <3>5, <3>6, ServerAt DEF ServerDies, Gm!talk
  <2>4. CASE Gm!Lose \/ UNCHANGED Gm!vars
    BY <2>4 DEF Gm!Lose, Gm!vars, Gm!talk
  <2> QED BY <2>1, <2>2, <2>3, <2>4 DEF Gm!Next
<1> QED BY <1>1 DEF GmRetries

LEMMA GmTextIs ==
  /\ \A text \in Gm!Garbage : text \o <<"c1">> \in Text
  /\ \A text \in Text : text \o <<"c2">> \in Text
  /\ \A text \in Text : Append(text, "s1") \in Text /\ Append(text, "s2") \in Text
  /\ <<>> \in Text
  /\ \A f \in Flights : <<f>> \in Gm!Flight
<1>1. {"c1", "c2", "s1", "s2", "garbage"} \subseteq Gm!Line
  BY DEF Gm!Line
<1>2. <<>> \in Text /\ <<"garbage">> \in Text
  BY <1>1 DEF Text
<1>3. \A text \in Text, l \in Gm!Line : Append(text, l) \in Text /\ text \o <<l>> \in Text
  BY JoinIsAppend DEF Text
<1>4. \A f \in Flights : <<f>> \in Gm!Flight
  BY DEF Flights, Gm!Flight
<1> QED BY <1>1, <1>2, <1>3, <1>4 DEF Gm!Garbage

(* What is put on a wire or taken off it.                                  *)
LEMMA GmCarriedIs ==
  /\ <<>> \in Carried
  /\ \A w \in Carried : w # <<>> => Tail(w) \in Carried /\ Head(w) \in Text \cup Gm!Flight
  /\ \A w \in Carried, m \in Text \cup Gm!Flight :
       Append(w, m) \in Carried /\ Gm!Send(w, m) \in Carried
  /\ \A w \in Carried : Gm!Arrived(w) => Head(w) \in Text
<1>1. <<>> \in Carried
  BY DEF Carried
<1>2. \A w \in Carried : w # <<>> => Tail(w) \in Carried /\ Head(w) \in Text \cup Gm!Flight
  BY DEF Carried
<1>3. \A w \in Carried, m \in Text \cup Gm!Flight : Append(w, m) \in Carried
  BY DEF Carried
<1> QED BY <1>1, <1>2, <1>3 DEF Gm!Send, Gm!Arrived

(* The flights: what each leaves on the wires and waits for.               *)
LEMMA GmFlightTypes ==
  ASSUME GmCarried, GmShaking
  PROVE  /\ \A flight, answer, next :
              /\ Gm!ClientFlight(flight, answer, next)
              /\ answer = "" \/ answer \in Flights
              /\ next \in Awaits
              => GmCarried' /\ awaited' \in [Side -> Awaits]
         /\ \A flight, answer, next :
              Gm!ServerFlight(flight, answer, next) /\ answer \in Flights /\ next \in Awaits
              => GmCarried' /\ awaited' \in [Side -> Awaits]
<1>1. \A f \in Flights : <<f>> \in Text \cup Gm!Flight
  BY GmTextIs
<1>2. ASSUME NEW flight, NEW answer, NEW next \in Awaits,
             Gm!ClientFlight(flight, answer, next), answer = "" \/ answer \in Flights
      PROVE  GmCarried' /\ awaited' \in [Side -> Awaits]
  <2>1. to_client' \in Carried
    BY <1>2, GmCarriedIs DEF GmCarried, Gm!ClientFlight
  <2>2. to_server' \in Carried
    BY <1>1, <1>2, GmCarriedIs DEF GmCarried, Gm!ClientFlight
  <2>3. awaited' \in [Side -> Awaits]
    BY <1>2 DEF GmShaking, Gm!ClientFlight
  <2> QED BY <2>1, <2>2, <2>3 DEF GmCarried
<1>3. ASSUME NEW flight, NEW answer \in Flights, NEW next \in Awaits,
             Gm!ServerFlight(flight, answer, next)
      PROVE  GmCarried' /\ awaited' \in [Side -> Awaits]
  <2>1. to_server' \in Carried /\ to_client' \in Carried
    BY <1>1, <1>3, GmCarriedIs DEF GmCarried, Gm!ServerFlight
  <2>2. awaited' \in [Side -> Awaits]
    BY <1>3 DEF GmShaking, Gm!ServerFlight
  <2> QED BY <2>1, <2>2 DEF GmCarried
<1> QED BY <1>2, <1>3

GmSpeaks == GmLinked /\ GmCarried /\ GmShaking /\ GmTexts

(* The steps of the handshakes.                                            *)
LEMMA GmShakeTypes ==
  ASSUME GmSpeaks
  PROVE  /\ Gm!ClientShakes => GmSpeaks'
         /\ Gm!ServerShakes => GmSpeaks'
         /\ \A to : Gm!ClientShaken(to) => GmSpeaks'
         /\ \A to : Gm!ServerShaken(to) => GmSpeaks'
<1>1. /\ {"none", "client finished", "server finished", "server hello"} \subseteq Awaits
      /\ {"server hello", "client finished", "server finished"} \subseteq Flights
      /\ GmCarried /\ GmShaking
  BY DEF Awaits, Flights, GmSpeaks
<1>2. ASSUME Gm!ClientShakes \/ Gm!ServerShakes PROVE GmSpeaks'
  <2>1. GmCarried' /\ awaited' \in [Side -> Awaits]
    BY <1>1, <1>2, GmFlightTypes DEF Gm!ClientShakes, Gm!ServerShakes
  <2>2. UNCHANGED <<listening, connected, lost, shaken, szBuffer, heard>>
    BY <1>2 DEF Gm!ClientShakes, Gm!ServerShakes, Gm!link, Gm!talk
  <2>3. GmLinked'
    BY <2>2 DEF GmSpeaks, GmLinked
  <2> QED BY <2>1, <2>2, <2>3 DEF GmSpeaks, GmShaking, GmTexts
<1>3. ASSUME NEW to, Gm!ClientShaken(to) \/ Gm!ServerShaken(to) PROVE GmSpeaks'
  <2>1. GmCarried' /\ awaited' \in [Side -> Awaits]
    BY <1>1, <1>3, GmFlightTypes DEF Gm!ClientShaken, Gm!ServerShaken
  <2>2. UNCHANGED <<listening, connected, lost, szBuffer, heard>>
    BY <1>3 DEF Gm!ClientShaken, Gm!ServerShaken, Gm!link, Gm!talk
  <2>a. \/ shaken' = [shaken EXCEPT !["client"] = @ + 1]
        \/ shaken' = [shaken EXCEPT !["server"] = @ + 1]
    BY <1>3, Zenon DEF Gm!ClientShaken, Gm!ServerShaken
  <2>3. shaken' \in [Side -> Nat]
    BY <2>a DEF GmSpeaks, GmShaking, Side
  <2>4. GmLinked'
    BY <2>2 DEF GmSpeaks, GmLinked
  <2> QED BY <2>1, <2>2, <2>3, <2>4 DEF GmSpeaks, GmShaking, GmTexts
<1> QED BY <1>2, <1>3

LEMMA GmQuietTypes ==
  ASSUME GmSpeaks, Quiet, szBuffer' \in [Side -> Text] PROVE GmSpeaks'
<1>1. GmLinked'
  BY DEF GmSpeaks, GmLinked, Quiet
<1> QED BY <1>1 DEF GmSpeaks, GmCarried, GmShaking, GmTexts, Quiet

LEMMA GmClientSpeaks ==
  ASSUME GmSpeaks, Gm!Client \/ Gm!Interruption PROVE GmSpeaks'
<1>1. /\ szBuffer \in [Side -> Text] /\ "client" \in Side /\ <<>> \in Text
      /\ [szBuffer EXCEPT !["client"] = <<>>] \in [Side -> Text]
  BY GmTextIs DEF GmSpeaks, GmTexts, Side
<1>2. \A from, to : Gm!ClientGoes(from, to) => GmSpeaks'
  BY <1>1, QuietSteps, GmQuietTypes
<1>3. CASE ClientWaits \/ ClientClears
  <2>1. Quiet /\ szBuffer' \in [Side -> Text]
    BY <1>1, <1>3, QuietSteps DEF ClientClears
  <2> QED BY <2>1, GmQuietTypes
<1>4. CASE Gm!ClientSetup \/ Gm!ClientHandshake
  BY <1>2, <1>4, GmShakeTypes DEF Gm!ClientSetup, Gm!ClientHandshake
<1>5. CASE Gm!ClientConnect
  <2>1. CASE Gm!ClientGoes("connect", "done")
    BY <1>2, <2>1
  <2>2. CASE ~Gm!ClientGoes("connect", "done")
    <3>1. /\ listening' = listening /\ lost' = lost /\ connected' = TRUE
          /\ UNCHANGED <<to_server, to_client, awaited, shaken, szBuffer, heard>>
      BY <1>5, <2>2 DEF Gm!ClientConnect, Gm!wire, Gm!tls, Gm!talk
    <3>2. GmLinked'
      BY <3>1 DEF GmSpeaks, GmLinked
    <3> QED BY <3>1, <3>2 DEF GmSpeaks, GmCarried, GmShaking, GmTexts
  <2> QED BY <2>1, <2>2
<1>6. CASE Gm!ClientHello
  <2>1. CASE Gm!ClientGoes("hello", "done")
    BY <1>2, <2>1
  <2>2. CASE ~Gm!ClientGoes("hello", "done")
    <3>1. /\ UNCHANGED <<listening, connected, lost, to_client, shaken, szBuffer, heard>>
          /\ to_server' = Gm!Send(to_server, <<"client hello">>)
          /\ awaited' = [awaited EXCEPT !["client"] = "server hello"]
      BY <1>6, <2>2 DEF Gm!ClientHello, Gm!link, Gm!talk
    <3>2. GmLinked'
      BY <3>1 DEF GmSpeaks, GmLinked
    <3>3. "client hello" \in Flights /\ <<"client hello">> \in Text \cup Gm!Flight
      BY GmTextIs DEF Flights
    <3>4. GmCarried'
      BY <3>1, <3>3, GmCarriedIs DEF GmSpeaks, GmCarried
    <3>5. awaited' \in [Side -> Awaits]
      BY <3>1 DEF GmSpeaks, GmShaking, Awaits
    <3> QED BY <3>1, <3>2, <3>4, <3>5 DEF GmSpeaks, GmShaking, GmTexts
  <2> QED BY <2>1, <2>2
<1>7. ASSUME NEW from, NEW texts, NEW line, NEW to, Gm!ClientWrites(from, texts, line, to),
             \A text \in texts : text \o <<line>> \in Text
      PROVE  GmSpeaks'
  <2>1. PICK text \in texts :
          /\ szBuffer' = [szBuffer EXCEPT !["client"] = text \o <<line>>]
          /\ to_server' = Gm!Send(to_server, text \o <<line>>)
    BY <1>7 DEF Gm!ClientWrites
  <2>2. UNCHANGED <<listening, connected, lost, to_client, awaited, shaken, heard>>
    BY <1>7 DEF Gm!ClientWrites, Gm!link, Gm!tls
  <2>3. GmLinked'
    BY <2>2 DEF GmSpeaks, GmLinked
  <2>4. szBuffer' \in [Side -> Text] /\ to_server' \in Carried
    BY <1>1, <1>7, <2>1, GmCarriedIs DEF GmSpeaks, GmCarried
  <2> QED BY <2>2, <2>3, <2>4 DEF GmSpeaks, GmCarried, GmShaking, GmTexts
<1>8. ASSUME NEW from, NEW to, NEW nothing, Gm!ClientReads(from, to, nothing) PROVE GmSpeaks'
  <2>1. CASE /\ Gm!Arrived(to_client) /\ to_client' = Tail(to_client)
             /\ szBuffer' = [szBuffer EXCEPT !["client"] = Head(to_client)]
             /\ heard' = Append(heard, Head(to_client))
             /\ UNCHANGED <<server, Gm!link, to_server, Gm!tls, retry>>
    <3>1. UNCHANGED <<listening, connected, lost, to_server, awaited, shaken>>
      BY <2>1 DEF Gm!link, Gm!tls
    <3>2. Head(to_client) \in Text /\ to_client' \in Carried
      BY <2>1, GmCarriedIs DEF GmSpeaks, GmCarried, Gm!Arrived
    <3>3. GmLinked'
      BY <3>1 DEF GmSpeaks, GmLinked
    <3>4. heard' \in Seq(Text)
      BY <2>1, <3>2 DEF GmSpeaks, GmTexts
    <3>5. szBuffer' \in [Side -> Text]
      BY <1>1, <2>1, <3>2
    <3> QED BY <3>1, <3>2, <3>3, <3>4, <3>5 DEF GmSpeaks, GmCarried, GmShaking, GmTexts
  <2>2. CASE /\ Gm!ClientFlight("hello request", "client hello", "server hello")
             /\ UNCHANGED <<client, server, Gm!link, shaken, Gm!talk>>
    <3>1. UNCHANGED <<listening, connected, lost, shaken, szBuffer, heard>>
      BY <2>2 DEF Gm!link, Gm!talk
    <3>2. GmCarried' /\ awaited' \in [Side -> Awaits]
      BY <2>2, GmFlightTypes DEF GmSpeaks, Flights, Awaits
    <3>3. GmLinked'
      BY <3>1 DEF GmSpeaks, GmLinked
    <3> QED BY <3>1, <3>2, <3>3 DEF GmSpeaks, GmShaking, GmTexts
  <2>3. CASE Gm!ClientShakes \/ Gm!ClientShaken(nothing)
    BY <2>3, GmShakeTypes
  <2>4. CASE /\ szBuffer' = [szBuffer EXCEPT !["client"] = <<>>]
             /\ UNCHANGED <<server, Gm!link, Gm!wire, Gm!tls, heard, retry>>
    <3>1. Quiet
      BY <2>4 DEF Quiet, Gm!link, Gm!wire, Gm!tls
    <3> QED BY <1>1, <2>4, <3>1, GmQuietTypes
  <2> QED BY <1>8, <2>1, <2>2, <2>3, <2>4 DEF Gm!ClientReads
<1>9. /\ \A text \in Gm!Garbage : text \o <<"c1">> \in Text
      /\ \A text \in {szBuffer["client"]} : text \o <<"c2">> \in Text
  BY <1>1, GmTextIs
<1>10. /\ Gm!ClientWrites("write 1", Gm!Garbage, "c1", "clear") => GmSpeaks'
       /\ Gm!ClientWrites("write 2", {szBuffer["client"]}, "c2", "read 2") => GmSpeaks'
  <2>1. CASE Gm!ClientWrites("write 1", Gm!Garbage, "c1", "clear")
    BY <1>7, <1>9, <2>1, Zenon
  <2>2. CASE Gm!ClientWrites("write 2", {szBuffer["client"]}, "c2", "read 2")
    <3> DEFINE own == {szBuffer["client"]}
    <3>1. \A text \in own : text \o <<"c2">> \in Text
      BY <1>9
    <3>2. Gm!ClientWrites("write 2", own, "c2", "read 2")
      BY <2>2
    <3> HIDE DEF own
    <3> QED BY <1>7, <3>1, <3>2, Zenon
  <2> QED BY <2>1, <2>2
<1>11. CASE ClientDies
  <2>1. Quiet /\ szBuffer' = szBuffer
    BY <1>11 DEF ClientDies, Quiet, Gm!link, Gm!wire, Gm!tls, Gm!talk
  <2> QED BY <1>1, <2>1, GmQuietTypes
<1> QED BY <1>3, <1>4, <1>5, <1>6, <1>8, <1>10, <1>11, ClientAt

LEMMA GmServerSpeaks ==
  ASSUME GmSpeaks, Gm!Server PROVE GmSpeaks'
<1>1. /\ szBuffer \in [Side -> Text] /\ "server" \in Side /\ <<>> \in Text
      /\ [szBuffer EXCEPT !["server"] = <<>>] \in [Side -> Text]
  BY GmTextIs DEF GmSpeaks, GmTexts, Side
<1>2. \A from, to : Gm!ServerGoes(from, to) => GmSpeaks'
  BY <1>1, QuietSteps, GmQuietTypes
<1>3. CASE Gm!ServerListen
  <2>1. /\ listening' \in BOOLEAN
        /\ UNCHANGED <<connected, lost, to_server, to_client, awaited, shaken, szBuffer, heard>>
    BY <1>3 DEF Gm!ServerListen, Gm!wire, Gm!tls, Gm!talk
  <2>2. connected' \in BOOLEAN /\ lost' \in BOOLEAN
    BY <2>1 DEF GmSpeaks, GmLinked
  <2>3. GmLinked'
    BY <2>1, <2>2 DEF GmLinked
  <2> QED BY <2>1, <2>3 DEF GmSpeaks, GmCarried, GmShaking, GmTexts
<1>4. CASE Gm!ServerSetup \/ Gm!ServerAccept \/ Gm!ServerHandshake \/ Gm!ServerReadsNothing
  BY <1>2, <1>4, GmShakeTypes DEF Gm!ServerSetup, Gm!ServerAccept, Gm!ServerHandshake,
     Gm!ServerReadsNothing
<1>5. CASE Gm!ServerRenegotiate
  <2>1. /\ UNCHANGED <<listening, connected, lost, to_server, awaited, shaken, heard>>
        /\ to_client' = Gm!Send(to_client, <<"hello request">>)
        /\ szBuffer' \in {szBuffer, [szBuffer EXCEPT !["server"] = <<>>]}
    BY <1>5 DEF Gm!ServerRenegotiate, Gm!link, Gm!tls
  <2>2. "hello request" \in Flights /\ <<"hello request">> \in Text \cup Gm!Flight
    BY GmTextIs DEF Flights
  <2>3. to_client' \in Carried
    BY <2>1, <2>2, GmCarriedIs DEF GmSpeaks, GmCarried
  <2>4. szBuffer' \in [Side -> Text]
    BY <1>1, <2>1
  <2>5. GmLinked'
    BY <2>1 DEF GmSpeaks, GmLinked
  <2> QED BY <2>1, <2>3, <2>4, <2>5 DEF GmSpeaks, GmCarried, GmShaking, GmTexts
<1>6. ASSUME NEW from, NEW to, NEW nothing, Gm!ServerReads(from, to, nothing) PROVE GmSpeaks'
  <2>1. CASE /\ Gm!Arrived(to_server) /\ to_server' = Tail(to_server)
             /\ szBuffer' = [szBuffer EXCEPT !["server"] = Head(to_server)]
             /\ heard' = Append(heard, Head(to_server))
             /\ UNCHANGED <<client, Gm!link, to_client, Gm!tls, retry>>
    <3>1. UNCHANGED <<listening, connected, lost, to_client, awaited, shaken>>
      BY <2>1 DEF Gm!link, Gm!tls
    <3>2. Head(to_server) \in Text /\ to_server' \in Carried
      BY <2>1, GmCarriedIs DEF GmSpeaks, GmCarried, Gm!Arrived
    <3>3. GmLinked'
      BY <3>1 DEF GmSpeaks, GmLinked
    <3>4. heard' \in Seq(Text)
      BY <2>1, <3>2 DEF GmSpeaks, GmTexts
    <3>5. szBuffer' \in [Side -> Text]
      BY <1>1, <2>1, <3>2
    <3> QED BY <3>1, <3>2, <3>3, <3>4, <3>5 DEF GmSpeaks, GmCarried, GmShaking, GmTexts
  <2>2. CASE /\ szBuffer' = [szBuffer EXCEPT !["server"] = <<>>]
             /\ UNCHANGED <<client, Gm!link, Gm!wire, Gm!tls, heard, retry>>
    <3>1. Quiet
      BY <2>2 DEF Quiet, Gm!link, Gm!wire, Gm!tls
    <3> QED BY <1>1, <2>2, <3>1, GmQuietTypes
  <2> QED BY <1>6, <2>1, <2>2 DEF Gm!ServerReads
<1>7. ASSUME NEW from, NEW line \in {"s1", "s2"}, NEW to, Gm!ServerWrites(from, line, to)
      PROVE  GmSpeaks'
  <2>1. /\ UNCHANGED <<listening, connected, lost, to_server, awaited, shaken, heard>>
        /\ szBuffer' = [szBuffer EXCEPT !["server"] = Append(szBuffer["server"], line)]
        /\ to_client' = Gm!Send(to_client, Append(szBuffer["server"], line))
    BY <1>7 DEF Gm!ServerWrites, Gm!link, Gm!tls
  <2>2. Append(szBuffer["server"], line) \in Text
    BY <1>1, GmTextIs
  <2>3. szBuffer' \in [Side -> Text] /\ to_client' \in Carried
    BY <1>1, <2>1, <2>2, GmCarriedIs DEF GmSpeaks, GmCarried
  <2>4. GmLinked'
    BY <2>1 DEF GmSpeaks, GmLinked
  <2> QED BY <2>1, <2>3, <2>4 DEF GmSpeaks, GmCarried, GmShaking, GmTexts
<1>8. CASE ServerDies
  <2>1. Quiet /\ szBuffer' = szBuffer
    BY <1>8 DEF ServerDies, Quiet, Gm!link, Gm!wire, Gm!tls, Gm!talk
  <2> QED BY <1>1, <2>1, GmQuietTypes
<1> QED BY <1>3, <1>4, <1>5, <1>6, <1>7, <1>8, ServerAt

LEMMA GmTypedStep == ASSUME MaxRetry \in Nat PROVE GmTyped /\ [Gm!Next]_Gm!vars => GmTyped'
<1> SUFFICES ASSUME GmTyped, [Gm!Next]_Gm!vars PROVE GmTyped'
  OBVIOUS
<1>1. GmPlaced' /\ GmRetries'
  BY GmPlacedStep, GmRetriesStep DEF GmTyped
<1>2. GmSpeaks
  BY DEF GmTyped, GmSpeaks
<1>3. CASE Gm!Lose
  <2>1. /\ UNCHANGED <<listening, connected, awaited, shaken, szBuffer, heard>> /\ lost' = TRUE
        /\ to_server' = <<>> /\ to_client' = <<>>
    BY <1>3 DEF Gm!Lose, Gm!tls, Gm!talk
  <2>2. GmLinked'
    BY <2>1 DEF GmTyped, GmLinked
  <2> QED BY <1>1, <2>1, <2>2, GmCarriedIs DEF GmTyped, GmCarried, GmShaking, GmTexts
<1>4. CASE UNCHANGED Gm!vars
  <2>1. Quiet /\ szBuffer' = szBuffer
    BY <1>4 DEF Quiet, Gm!vars, Gm!link, Gm!wire, Gm!tls, Gm!talk
  <2>2. GmSpeaks'
    BY <1>2, <2>1, GmQuietTypes DEF GmSpeaks, GmTexts
  <2> QED BY <1>1, <2>2 DEF GmTyped, GmSpeaks
<1>5. ASSUME Gm!Client \/ Gm!Server \/ Gm!Interruption PROVE GmTyped'
  <2>1. GmSpeaks'
    BY <1>2, <1>5, GmClientSpeaks, GmServerSpeaks
  <2> QED BY <1>1, <2>1 DEF GmTyped, GmSpeaks
<1> QED BY <1>3, <1>4, <1>5 DEF Gm!Next

(* The bounds: what the stages say of them, which a lost connection keeps. *)
GmCounted ==
  /\ shaken["client"] \in 0..2 /\ shaken["server"] \in 0..2
  /\ Len(heard) <= 4 /\ Len(to_server) <= 1 /\ Len(to_client) <= 2

LEMMA LengthsAre == Len(<<>>) = 0 /\ \A x, y : Len(<<x>>) = 1 /\ Len(<<x, y>>) = 2
OBVIOUS
LEMMA AtMost ==
  /\ \A n \in {0, 1} : n <= 1
  /\ \A n \in {0, 1, 2} : n <= 2
  /\ \A n \in {0, 1, 2, 3, 4} : n <= 4
OBVIOUS

LEMMA GmStagesCount ==
  ASSUME Apart \/ Together PROVE GmCounted
<1>1. shaken["client"] \in {0, 1, 2} /\ shaken["server"] \in {0, 1, 2}
  BY DEF Together, Preparing, Listening1, Speaking1, Shaking, Apart, Met, Left, Hello,
     HelloAnswered, Finishing, Finished, Shaken, Asked, Reached, Requested, HelloAgain,
     HelloAnsweredAgain, FinishingAgain, FinishedAgain, AnsweredAhead, ShakenAgain, Answered,
     AnswerRead, AskedAgain, ReachedAgain, AnsweredAgain, Over
<1>2. Len(heard) \in {0, 1, 2, 3, 4}
  BY DEF Together, Preparing, Listening1, Speaking1, Begins, Apart, Met, Left, Hello,
     HelloAnswered, Finishing, Finished, Shaken, Asked, Reached, Requested, HelloAgain,
     HelloAnsweredAgain, FinishingAgain, FinishedAgain, AnsweredAhead, ShakenAgain, Answered,
     AnswerRead, AskedAgain, ReachedAgain, AnsweredAgain, Over
<1>3. /\ to_server = <<>> \/ \E x : to_server = <<x>>
      /\ to_client = <<>> \/ (\E x : to_client = <<x>>) \/ (\E x, y : to_client = <<x, y>>)
  BY DEF Together, Preparing, Listening1, Speaking1, Wires, Flies, Apart, Met, Left, Hello,
     HelloAnswered, Finishing, Finished, Shaken, Asked, Reached, Requested, HelloAgain,
     HelloAnsweredAgain, FinishingAgain, FinishedAgain, AnsweredAhead, ShakenAgain, Answered,
     AnswerRead, AskedAgain, ReachedAgain, AnsweredAgain, Over
<1>4. Len(to_server) <= 1 /\ Len(to_client) <= 2
  <2>1. Len(to_server) \in {0, 1} /\ Len(to_client) \in {0, 1, 2}
    BY <1>3, LengthsAre, Zenon
  <2> QED BY <2>1, AtMost, Zenon
<1>5. Len(heard) <= 4
  BY <1>2, AtMost, Zenon
<1>6. {0, 1, 2} \subseteq 0..2
  OBVIOUS
<1> QED BY <1>1, <1>4, <1>5, <1>6, Zenon DEF GmCounted

LEMMA GmStagesCountNext == Apart' \/ Together' => GmCounted'
<1>1. Apart \/ Together => GmCounted
  BY GmStagesCount
<1> QED BY <1>1, PTL

LEMMA GmCountedStep == GmInv /\ GmCounted /\ [Gm!Next]_Gm!vars => GmCounted'
<1> SUFFICES ASSUME GmInv, GmCounted, [Gm!Next]_Gm!vars PROVE GmCounted'
  OBVIOUS
<1>1. GmInv'
  BY GmStep
<1>2. CASE Lost /\ (Gm!Client \/ Gm!Server \/ Gm!Interruption)
  <2>1. UNCHANGED <<to_server, to_client, shaken, heard>>
    BY <1>2, LostStep
  <2> QED BY <2>1 DEF GmCounted
<1>3. CASE ~Lost /\ (Gm!Client \/ Gm!Server \/ Gm!Interruption)
  <2>1. Apart' \/ Together'
    BY <1>3, ApartStep, TogetherStep DEF GmInv, Together, Preparing
  <2> QED BY <2>1, GmStagesCountNext
<1>4. CASE Gm!Lose
  <2>1. UNCHANGED <<shaken, heard>> /\ to_server' = <<>> /\ to_client' = <<>>
    BY <1>4 DEF Gm!Lose, Gm!tls, Gm!talk
  <2>2. Len(<<>>) = 0
    OBVIOUS
  <2> QED BY <2>1, <2>2 DEF GmCounted
<1>5. CASE UNCHANGED Gm!vars
  BY <1>5 DEF GmCounted, Gm!vars, Gm!wire, Gm!tls, Gm!talk
<1> QED BY <1>2, <1>3, <1>4, <1>5 DEF Gm!Next

LEMMA GmTypedInit == ASSUME MaxRetry \in Nat PROVE Gm!Init => GmTyped /\ GmCounted
<1> SUFFICES ASSUME Gm!Init PROVE GmTyped /\ GmCounted
  OBVIOUS
<1>1. GmPlaced /\ GmLinked /\ GmRetries
  <2>1. GmPlaced
    BY DEF Gm!Init, GmPlaced, GmClients, GmServers
  <2>2. GmLinked
    BY Zenon DEF Gm!Init, GmLinked
  <2>3. retry = MaxRetry
    BY DEF Gm!Init
  <2> QED BY <2>1, <2>2, <2>3 DEF GmRetries
<1>2. GmCarried /\ GmShaking
  BY GmCarriedIs DEF Gm!Init, GmCarried, GmShaking, Awaits, Side
<1>3. GmTexts
  BY GmTextIs DEF Gm!Init, GmTexts, Side
<1>4. Apart
  <2>1. Begins(heard, 0)
    BY DEF Gm!Init, Begins, Text
  <2> QED BY <2>1 DEF Gm!Init, Apart, Programs, Wires, Shaking, Begun
<1> QED BY <1>1, <1>2, <1>3, <1>4, GmStagesCount DEF GmTyped

(* The types of both GMSSL programs, however often an interrupted          *)
(* SSL_connect is repeated: no more than two handshakes and four messages, *)
(* and on a wire no more than a flight with one message behind it.         *)
THEOREM GmTypes == ASSUME MaxRetry \in Nat PROVE Gm!Spec => []Gm!TypeOK
<1>1. Gm!Init => GmInv /\ GmTyped /\ GmCounted
  BY InitGm, GmTypedInit
<1>2. GmInv /\ GmTyped /\ GmCounted /\ [Gm!Next]_Gm!vars => (GmInv /\ GmTyped /\ GmCounted)'
  BY GmStep, GmTypedStep, GmCountedStep
<1>3. GmTyped /\ GmCounted => Gm!TypeOK
  <2> SUFFICES ASSUME GmTyped, GmCounted PROVE Gm!TypeOK
    OBVIOUS
  <2>1. shaken \in [Side -> 0..2]
    BY DEF GmTyped, GmShaking, GmCounted, Side
  <2>2. GmPlaced /\ GmLinked /\ GmRetries /\ GmTexts /\ awaited \in [Side -> Awaits]
    BY DEF GmTyped, GmShaking
  <2> QED BY <2>1, <2>2 DEF Gm!TypeOK, GmTyped, GmPlaced, GmClients, GmServers, GmLinked,
          GmCarried, Carried, Text, GmTexts, GmRetries, GmCounted, Side, Awaits
<1> QED BY <1>1, <1>2, <1>3, PTL DEF Gm!Spec
-----------------------------------------------------------------------------
(* The TASSL programs.  What no step of the handshake's waiting touches.   *)
Silent == UNCHANGED <<connected, lost, to_server, to_client, shaken, heard>>

TasslWaits ==
  /\ client \in Connecting /\ client' \in Connecting
  /\ Silent /\ UNCHANGED server

LEMMA TasslGoes ==
  /\ \A from, to : Tassl!ClientGoes(from, to) =>
       client = from /\ client' = to /\ Silent /\ UNCHANGED server
  /\ \A from, to : Tassl!ServerGoes(from, to) =>
       server = from /\ server' = to /\ Silent /\ UNCHANGED client
BY DEF Silent, Tassl!ClientGoes, Tassl!ServerGoes, Tassl!link, Tassl!wire, Tassl!tls

(* What the client can do where it is.                                     *)
LEMMA TasslClientAt ==
  ASSUME Tassl!Client \/ Tassl!Interruption
  PROVE  \/ client = "setup" /\ Tassl!ClientSetup
         \/ client = "connect" /\ Tassl!ClientConnect
         \/ client = "hello" /\ Tassl!ClientHello
         \/ client = "handshake" /\ Tassl!ClientHandshake
         \/ TasslWaits
         \/ client = "write 1" /\ Tassl!ClientWrites("write 1", "client 1", "read 1")
         \/ client = "read 1" /\ Tassl!ClientReads("read 1", "write 2", "read 1 again")
         \/ client = "read 1 again" /\ Tassl!ClientReads("read 1 again", "write 2", "write 2")
         \/ client = "write 2" /\ Tassl!ClientWrites("write 2", "client 2", "read 2")
         \/ client = "read 2" /\ Tassl!ClientReads("read 2", "done", "done")
<1>1. CASE Tassl!Interruption \/ Tassl!ClientSelects
  BY <1>1 DEF Tassl!Interruption, Tassl!ClientSelects, Tassl!ClientGoes,
     Tassl!ClientSelectReturns,
     TasslWaits, Connecting, Silent, Tassl!link, Tassl!wire, Tassl!tls
<1>2. CASE Tassl!ClientSetup \/ Tassl!ClientConnect \/ Tassl!ClientHello
  BY <1>2 DEF Tassl!ClientSetup, Tassl!ClientConnect, Tassl!ClientHello, Tassl!ClientGoes
<1>3. CASE Tassl!ClientHandshake
  BY <1>3 DEF Tassl!ClientHandshake, Tassl!ClientGoes
<1>4. \A from, message, to : Tassl!ClientWrites(from, message, to) => client = from
  BY DEF Tassl!ClientWrites, Tassl!ClientGoes
<1>5. \A from, to, nothing : Tassl!ClientReads(from, to, nothing) => client = from
  BY DEF Tassl!ClientReads, Tassl!ClientGoes
<1> QED BY <1>1, <1>2, <1>3, <1>4, <1>5 DEF Tassl!Client

(* What the server can do where it is.                                     *)
LEMMA TasslServerAt ==
  ASSUME Tassl!Server
  PROVE  \/ server = "setup" /\ Tassl!ServerSetup
         \/ server = "listen" /\ Tassl!ServerListen
         \/ server = "accept" /\ Tassl!ServerAccept
         \/ server = "handshake" /\ Tassl!ServerHandshake
         \/ server = "read" /\ Tassl!ServerReads
         \/ server = "write" /\ Tassl!ServerWrites
         \/ server = "shutdown" /\ Tassl!ServerShutdown
<1>1. Tassl!ServerHandshake => server = "handshake"
  BY DEF Tassl!ServerHandshake, Tassl!ServerGoes
<1>2. Tassl!ServerReads => server = "read"
  BY DEF Tassl!ServerReads, Tassl!ServerGoes
<1>3. Tassl!ServerWrites => server = "write"
  BY DEF Tassl!ServerWrites, Tassl!ServerGoes
<1>4. /\ Tassl!ServerSetup => server = "setup"
      /\ Tassl!ServerListen => server = "listen"
      /\ Tassl!ServerAccept => server = "accept"
      /\ Tassl!ServerShutdown => server = "shutdown"
  BY DEF Tassl!ServerSetup, Tassl!ServerListen, Tassl!ServerAccept, Tassl!ServerShutdown,
     Tassl!ServerGoes
<1> QED BY <1>1, <1>2, <1>3, <1>4 DEF Tassl!Server

(* A program that waits for what does not come.                            *)
LEMMA TasslIdle ==
  /\ client = "done" => ~(Tassl!Client \/ Tassl!Interruption)
  /\ server = "done" => ~Tassl!Server
  /\ Lasting /\ to_client = <<>> /\ server # "done" /\ client = "read 1" =>
       ~(Tassl!Client \/ Tassl!Interruption)
  /\ Lasting /\ to_client = <<>> /\ server # "done" /\ client \in Connecting =>
       (Tassl!Client \/ Tassl!Interruption => TasslWaits)
  /\ Lasting /\ to_server = <<>> /\ client # "done" /\ server \in {"handshake", "read"} =>
       ~Tassl!Server
<1>1. client = "done" => ~(Tassl!Client \/ Tassl!Interruption)
  BY TasslClientAt DEF TasslWaits, Connecting
<1>2. server = "done" => ~Tassl!Server
  BY TasslServerAt
<1>3. ASSUME Lasting, to_client = <<>>, server # "done"
      PROVE  ~Tassl!ClientHandshake /\ ~Tassl!ClientReads("read 1", "write 2", "read 1 again")
  BY <1>3 DEF Lasting, Tassl!ClientHandshake, Tassl!ClientReads, Tassl!Arrived, Tassl!Ended,
     Tassl!Broken
<1>4. ASSUME Lasting, to_server = <<>>, client # "done"
      PROVE  ~Tassl!ServerHandshake /\ ~Tassl!ServerReads
  BY <1>4 DEF Lasting, Tassl!ServerHandshake, Tassl!ServerReads, Tassl!Arrived, Tassl!Ended,
     Tassl!Broken
<1> QED BY <1>1, <1>2, <1>3, <1>4, TasslClientAt, TasslServerAt DEF TasslWaits, Connecting
-----------------------------------------------------------------------------
(* Before the client is connected; then before it speaks TLS; and when it  *)
(* has given up.                                                           *)
Separate ==
  /\ ~connected /\ ~shaken /\ heard = <<>> /\ Wires(<<>>, <<>>)
  /\ Programs({"setup", "connect", "done"}, {"setup", "listen", "accept", "done"})
  /\ listening => server = "accept"
Dialled ==
  /\ ~shaken /\ heard = <<>> /\ Wires(<<>>, <<>>)
  /\ Programs({"hello"}, {"accept", "handshake", "done"})
GivenUp ==
  /\ ~shaken /\ heard = <<>> /\ client = "done"
  /\ \/ to_server = <<>>
     \/ server = "done" /\ to_server \in {<<"client hello">>, <<"client finished">>}
  /\ to_client \in {<<>>, <<"server hello">>, <<"server finished">>}

(* The handshake.                                                          *)
Greeting ==
  /\ ~shaken /\ heard = <<>> /\ Wires(<<"client hello">>, <<>>)
  /\ Programs(Connecting, {"accept", "handshake", "done"})
Greeted ==
  /\ ~shaken /\ heard = <<>> /\ Wires(<<>>, <<"server hello">>)
  /\ Programs(Connecting, {"handshake"})
Confirming ==
  /\ ~shaken /\ heard = <<>> /\ Wires(<<"client finished">>, <<>>)
  /\ Programs(Connecting, {"handshake", "done"})
Confirmed ==
  /\ ~shaken /\ heard = <<>> /\ Wires(<<>>, <<"server finished">>)
  /\ Programs(Connecting, {"read"})

(* The conversation, and what the client goes on to write.                 *)
Ready ==
  /\ shaken /\ heard = <<>> /\ Wires(<<>>, <<>>)
  /\ Programs({"write 1"}, {"read"})
Asking ==
  /\ shaken /\ heard = <<>> /\ Wires(<<"client 1">>, <<>>)
  /\ Programs({"read 1"}, {"read"})
Replying ==
  /\ shaken /\ heard = <<"client 1">> /\ Wires(<<>>, <<>>)
  /\ Programs({"read 1"}, {"write"})
Replied ==
  /\ shaken /\ heard = <<"client 1">> /\ Wires(<<>>, <<"server">>)
  /\ Programs({"read 1"}, {"shutdown", "done"})
Closing ==
  /\ shaken /\ heard = <<"client 1", "server">>
  /\ to_server \in {<<>>, <<"client 2">>} /\ to_client = <<>>
  /\ client = "write 2" => to_server = <<>>
  /\ Programs({"write 2", "read 2", "done"}, {"shutdown", "done"})
-----------------------------------------------------------------------------
(* Only the network breaks a connection.                                   *)
TasslStep == Tassl!Client \/ Tassl!Server \/ Tassl!Interruption
StaysUp == lost' = lost /\ (connected' = connected \/ connected' = TRUE)

LEMMA TasslStaysUp == TasslStep => StaysUp
<1> SUFFICES ASSUME TasslStep PROVE StaysUp
  OBVIOUS
<1>1. CASE Tassl!Client \/ Tassl!Interruption
  <2>1. CASE TasslWaits
    BY <2>1 DEF TasslWaits, Silent, StaysUp
  <2>2. CASE \/ Tassl!ClientSetup \/ Tassl!ClientConnect
             \/ Tassl!ClientHello \/ Tassl!ClientHandshake
    BY <2>2 DEF StaysUp, Tassl!ClientSetup, Tassl!ClientConnect, Tassl!ClientHello,
       Tassl!ClientHandshake,
       Tassl!ClientGoes, Tassl!link
  <2>3. ASSUME NEW from, NEW to, NEW nothing, Tassl!ClientReads(from, to, nothing) PROVE StaysUp
    BY <2>3 DEF StaysUp, Tassl!ClientReads, Tassl!ClientGoes, Tassl!link
  <2>4. ASSUME NEW from, NEW message, NEW to, Tassl!ClientWrites(from, message, to) PROVE StaysUp
    BY <2>4 DEF StaysUp, Tassl!ClientWrites, Tassl!ClientGoes, Tassl!link
  <2> QED BY <1>1, <2>1, <2>2, <2>3, <2>4, TasslClientAt
<1>2. CASE Tassl!Server
  <2>1. CASE Tassl!ServerSetup \/ Tassl!ServerListen \/ Tassl!ServerAccept \/ Tassl!ServerShutdown
    BY <2>1 DEF StaysUp, Tassl!ServerSetup, Tassl!ServerListen, Tassl!ServerAccept,
       Tassl!ServerShutdown,
       Tassl!ServerGoes, Tassl!link
  <2>2. CASE Tassl!ServerHandshake
    BY <2>2 DEF StaysUp, Tassl!ServerHandshake, Tassl!ServerFlight, Tassl!ServerGoes, Tassl!link
  <2>3. CASE Tassl!ServerReads \/ Tassl!ServerWrites
    BY <2>3 DEF StaysUp, Tassl!ServerReads, Tassl!ServerWrites, Tassl!ServerGoes, Tassl!link
  <2> QED BY <1>2, <2>1, <2>2, <2>3, TasslServerAt
<1> QED BY <1>1, <1>2 DEF TasslStep

LEMMA TasslLasts ==
  /\ Lasting /\ TasslStep => Lasting'
  /\ lost /\ TasslStep => lost'
  /\ ~lost /\ TasslStep => ~lost'
BY TasslStaysUp DEF StaysUp, Lasting

(* On a broken connection nothing moves.                                   *)
LEMMA TasslBroken ==
  ASSUME lost, TasslStep PROVE UNCHANGED <<lost, to_server, to_client, shaken, heard>>
<1> USE DEF Tassl!Arrived, Tassl!Broken
<1>1. CASE Tassl!Client \/ Tassl!Interruption
  <2>1. CASE TasslWaits
    BY <2>1 DEF TasslWaits, Silent
  <2>2. CASE \/ Tassl!ClientSetup \/ Tassl!ClientConnect
             \/ Tassl!ClientHello \/ Tassl!ClientHandshake
    BY <2>2 DEF Tassl!ClientSetup, Tassl!ClientConnect, Tassl!ClientHello, Tassl!ClientHandshake,
       Tassl!ClientGoes, Tassl!link, Tassl!wire, Tassl!tls
  <2>3. ASSUME NEW from, NEW to, NEW nothing, Tassl!ClientReads(from, to, nothing)
        PROVE  UNCHANGED <<lost, to_server, to_client, shaken, heard>>
    BY <2>3, TasslGoes DEF Tassl!ClientReads, Silent
  <2>4. ASSUME NEW from, NEW message, NEW to, Tassl!ClientWrites(from, message, to)
        PROVE  UNCHANGED <<lost, to_server, to_client, shaken, heard>>
    BY <2>4 DEF Tassl!ClientWrites, Tassl!ClientGoes, Tassl!link, Tassl!wire, Tassl!tls
  <2> QED BY <1>1, <2>1, <2>2, <2>3, <2>4, TasslClientAt
<1>2. CASE Tassl!Server
  <2>1. CASE Tassl!ServerSetup \/ Tassl!ServerListen \/ Tassl!ServerAccept \/ Tassl!ServerShutdown
    BY <2>1 DEF Tassl!ServerSetup, Tassl!ServerListen, Tassl!ServerAccept, Tassl!ServerShutdown,
       Tassl!ServerGoes, Tassl!link, Tassl!wire, Tassl!tls
  <2>2. CASE Tassl!ServerHandshake \/ Tassl!ServerReads \/ Tassl!ServerWrites
    BY <2>2 DEF Tassl!ServerHandshake, Tassl!ServerReads, Tassl!ServerWrites,
       Tassl!ServerGoes, Tassl!link, Tassl!wire, Tassl!tls
  <2> QED BY <1>2, <2>1, <2>2, TasslServerAt
<1> QED BY <1>1, <1>2 DEF TasslStep
-----------------------------------------------------------------------------
(* One step of the two programs, from each of these.                       *)
LEMMA SeparateStep ==
  ASSUME ~lost, Separate, TasslStep
  PROVE  Separate' \/ (connected' /\ Dialled')
<1>1. CASE Tassl!Client \/ Tassl!Interruption
  <2>1. Tassl!ClientSetup \/ Tassl!ClientConnect
    BY <1>1, TasslClientAt DEF Separate, Programs, TasslWaits, Connecting
  <2>2. CASE \E from \in {"setup", "connect"}, to \in {"connect",
        "done"} : Tassl!ClientGoes(from, to)
    <3>1. client' \in {"connect", "done"} /\ Silent /\ UNCHANGED <<server, listening>>
      BY <2>2, TasslGoes DEF Tassl!ClientGoes, Tassl!link
    <3> QED BY <3>1 DEF Separate, Programs, Wires, Silent
  <2>3. CASE ~\E from \in {"setup", "connect"}, to \in {"connect",
        "done"} : Tassl!ClientGoes(from, to)
    <3>1. listening /\ connected' /\ client' = "hello"
          /\ UNCHANGED <<server, to_server, to_client, shaken, heard>>
      BY <2>1, <2>3 DEF Tassl!ClientSetup, Tassl!ClientConnect, Tassl!wire, Tassl!tls
    <3> QED BY <3>1 DEF Separate, Dialled, Programs, Wires
  <2> QED BY <2>2, <2>3
<1>2. CASE Tassl!Server
  <2>1. Tassl!ServerSetup \/ Tassl!ServerListen
    BY <1>2, TasslServerAt DEF Separate, Programs, Tassl!ServerAccept
  <2>2. CASE \E from \in {"setup", "listen"}, to \in {"listen",
        "done"} : Tassl!ServerGoes(from, to)
    <3>1. server \in {"setup", "listen"} /\ server' \in {"listen", "done"} /\ Silent
          /\ UNCHANGED <<client, listening>>
      BY <2>2, TasslGoes DEF Tassl!ServerGoes, Tassl!link
    <3> QED BY <3>1 DEF Separate, Programs, Wires, Silent
  <2>3. CASE ~\E from \in {"setup", "listen"}, to \in {"listen",
        "done"} : Tassl!ServerGoes(from, to)
    <3>1. /\ server' = "accept"
          /\ UNCHANGED <<client, connected, to_server, to_client, shaken, heard>>
      BY <2>1, <2>3 DEF Tassl!ServerSetup, Tassl!ServerListen, Tassl!wire, Tassl!tls
    <3> QED BY <3>1 DEF Separate, Programs, Wires
  <2> QED BY <2>2, <2>3
<1> QED BY <1>1, <1>2 DEF TasslStep

(* The server takes its client.                                            *)
LEMMA ServerTakes ==
  ASSUME Tassl!ServerAccept
  PROVE  /\ server' \in {"handshake", "done"}
         /\ UNCHANGED <<client, to_server, to_client, shaken, heard>>
BY DEF Tassl!ServerAccept, Tassl!wire, Tassl!tls

LEMMA DialledStep ==
  ASSUME Lasting, Dialled, TasslStep
  PROVE  Dialled' \/ GivenUp' \/ Greeting'
<1>1. CASE Tassl!Client \/ Tassl!Interruption
  <2>1. Tassl!ClientHello
    BY <1>1, TasslClientAt DEF Dialled, Programs, TasslWaits, Connecting
  <2>2. CASE Tassl!ClientGoes("hello", "done")
    <3>1. client' = "done" /\ Silent /\ UNCHANGED server
      BY <2>2, TasslGoes
    <3> QED BY <3>1 DEF Dialled, GivenUp, Wires, Silent
  <2>3. CASE ~Tassl!ClientGoes("hello", "done")
    <3>1. client' = "handshake" /\ to_server' = Append(to_server, "client hello")
          /\ UNCHANGED <<server, to_client, shaken, heard>>
      BY <2>1, <2>3 DEF Lasting, Tassl!ClientHello, Tassl!Broken, Tassl!tls
    <3>2. to_server' = <<"client hello">>
      BY <3>1, OneOnIt DEF Dialled, Wires
    <3> QED BY <3>1, <3>2 DEF Dialled, Greeting, Programs, Wires, Connecting
  <2> QED BY <2>2, <2>3
<1>2. CASE Tassl!Server
  <2>1. Tassl!ServerAccept
    BY <1>2, TasslServerAt, TasslIdle DEF Lasting, Dialled, Programs, Wires
  <2> QED BY <2>1, ServerTakes DEF Dialled, Programs, Wires
<1> QED BY <1>1, <1>2 DEF TasslStep

LEMMA GivenUpStep ==
  ASSUME Lasting, GivenUp, TasslStep
  PROVE  GivenUp'
<1>1. Tassl!Server /\ server # "done" /\ to_server = <<>>
  BY TasslIdle DEF TasslStep, GivenUp
<1>2. UNCHANGED <<client, to_server, to_client, shaken, heard>>
  <2>1. CASE Tassl!ServerSetup \/ Tassl!ServerListen \/ Tassl!ServerAccept \/ Tassl!ServerShutdown
    BY <2>1 DEF Tassl!ServerSetup, Tassl!ServerListen, Tassl!ServerAccept, Tassl!ServerShutdown,
       Tassl!ServerGoes, Tassl!wire, Tassl!tls
  <2>2. CASE Tassl!ServerHandshake \/ Tassl!ServerReads
    BY <1>1, <2>2, TasslGoes DEF Tassl!ServerHandshake, Tassl!ServerReads, Tassl!Arrived, Silent
  <2>3. CASE Tassl!ServerWrites
    BY <2>3 DEF GivenUp, Tassl!ServerWrites, Tassl!ServerGoes, Tassl!link, Tassl!wire, Tassl!tls
  <2> QED BY <1>1, <2>1, <2>2, <2>3 DEF Tassl!Server
<1> QED BY <1>1, <1>2 DEF GivenUp

(* A step of the server's handshake, with its module or without.           *)
LEMMA ServerShakesHands ==
  ASSUME Tassl!ServerHandshake
  PROVE  \/ Silent /\ UNCHANGED <<client, server>>
         \/ Tassl!ServerFlight
         \/ Silent /\ UNCHANGED client /\ server' = "done"
BY TasslGoes DEF Tassl!ServerHandshake, Silent, Tassl!link, Tassl!wire, Tassl!tls

LEMMA ServerFlightIs ==
  ASSUME NEW flight, to_server = <<flight>>, to_client = <<>>, Tassl!ServerFlight
  PROVE  /\ to_server' = <<>> /\ UNCHANGED <<client, shaken, heard>>
         /\ flight = "client hello" => to_client' = <<"server hello">> /\ server' = "handshake"
         /\ flight # "client hello" => to_client' = <<"server finished">> /\ server' = "read"
BY OneOnIt DEF Tassl!ServerFlight, Tassl!tls

(* A step of the client's.                                                 *)
LEMMA ClientShakesHands ==
  ASSUME client \in Connecting, NEW flight, to_client = <<flight>>,
         Tassl!Client \/ Tassl!Interruption
  PROVE  \/ TasslWaits
         \/ /\ flight = "server hello" /\ to_client' = <<>>
            /\ to_server' = Append(to_server, "client finished")
            /\ UNCHANGED <<client, server, shaken, heard>>
         \/ /\ flight = "server finished" /\ to_client' = <<>>
            /\ client' = "write 1" /\ shaken' = TRUE
            /\ UNCHANGED <<server, to_server, heard>>
         \/ client' = "done" /\ Silent /\ UNCHANGED server
<1>1. to_client # <<>> /\ Head(to_client) = flight /\ Tail(to_client) = <<>>
  BY OneOnIt
<1>2. TasslWaits \/ Tassl!ClientHandshake
  BY TasslClientAt DEF Connecting
<1> QED BY <1>1, <1>2, TasslGoes DEF Tassl!ClientHandshake, Tassl!Arrived, Tassl!tls

LEMMA GreetingStep ==
  ASSUME Lasting, Greeting, TasslStep
  PROVE  Greeting' \/ GivenUp' \/ Greeted'
<1>1. CASE Tassl!Client \/ Tassl!Interruption
  <2>1. CASE TasslWaits
    BY <2>1 DEF Greeting, Programs, Wires, TasslWaits, Silent
  <2>2. CASE ~TasslWaits
    <3>1. server = "done" /\ Tassl!ClientHandshake
      BY <1>1, <2>2, TasslIdle, TasslClientAt DEF Greeting, Programs, Wires, Connecting
    <3>2. client' = "done" /\ Silent /\ UNCHANGED server
      BY <3>1, TasslGoes DEF Greeting, Wires, Tassl!ClientHandshake, Tassl!Arrived
    <3> QED BY <3>1, <3>2 DEF Greeting, GivenUp, Wires, Silent
  <2> QED BY <2>1, <2>2
<1>2. CASE Tassl!Server
  <2>1. Tassl!ServerAccept \/ Tassl!ServerHandshake
    BY <1>2, TasslServerAt DEF Greeting, Programs
  <2>2. CASE Tassl!ServerAccept
    BY <2>2, ServerTakes DEF Greeting, Programs, Wires
  <2>3. CASE Tassl!ServerFlight
    BY <2>3, ServerFlightIs DEF Greeting, Greeted, Programs, Wires
  <2>4. CASE Tassl!ServerHandshake /\ ~Tassl!ServerFlight
    BY <2>4, ServerShakesHands DEF Greeting, Programs, Wires, Silent
  <2> QED BY <2>1, <2>2, <2>3, <2>4
<1> QED BY <1>1, <1>2 DEF TasslStep

LEMMA GreetedStep ==
  ASSUME Lasting, Greeted, TasslStep
  PROVE  Greeted' \/ GivenUp' \/ Confirming'
<1>1. Tassl!Client \/ Tassl!Interruption
  BY TasslIdle DEF TasslStep, Greeted, Programs, Wires, Connecting
<1>2. Append(<<>>, "client finished") = <<"client finished">>
  BY OneOnIt
<1>3. "server hello" # "server finished"
  OBVIOUS
<1>4. client \in Connecting /\ to_client = <<"server hello">> /\ to_server = <<>>
  BY DEF Greeted, Programs, Wires
<1>5. CASE TasslWaits
  BY <1>5 DEF Greeted, Programs, Wires, TasslWaits, Silent
<1>6. CASE /\ to_client' = <<>> /\ to_server' = <<"client finished">>
           /\ UNCHANGED <<client, server, shaken, heard>>
  BY <1>6 DEF Greeted, Confirming, Programs, Wires
<1>7. CASE client' = "done" /\ Silent /\ UNCHANGED server
  BY <1>4, <1>7 DEF Greeted, GivenUp, Silent
<1> QED BY <1>1, <1>2, <1>3, <1>4, <1>5, <1>6, <1>7, ClientShakesHands

LEMMA ConfirmingStep ==
  ASSUME Lasting, Confirming, TasslStep
  PROVE  Confirming' \/ GivenUp' \/ Confirmed'
<1>1. CASE Tassl!Client \/ Tassl!Interruption
  <2>1. CASE TasslWaits
    BY <2>1 DEF Confirming, Programs, Wires, TasslWaits, Silent
  <2>2. CASE ~TasslWaits
    <3>1. server = "done" /\ Tassl!ClientHandshake
      BY <1>1, <2>2, TasslIdle, TasslClientAt DEF Confirming, Programs, Wires, Connecting
    <3>2. client' = "done" /\ Silent /\ UNCHANGED server
      BY <3>1, TasslGoes DEF Confirming, Wires, Tassl!ClientHandshake, Tassl!Arrived
    <3> QED BY <3>1, <3>2 DEF Confirming, GivenUp, Wires, Silent
  <2> QED BY <2>1, <2>2
<1>2. CASE Tassl!Server
  <2>1. Tassl!ServerHandshake
    BY <1>2, TasslServerAt DEF Confirming, Programs
  <2>2. CASE Tassl!ServerFlight
    <3>1. "client finished" # "client hello"
      OBVIOUS
    <3> QED BY <2>2, <3>1, ServerFlightIs DEF Confirming, Confirmed, Programs, Wires
  <2>3. CASE ~Tassl!ServerFlight
    BY <2>1, <2>3, ServerShakesHands DEF Confirming, Programs, Wires, Silent
  <2> QED BY <2>2, <2>3
<1> QED BY <1>1, <1>2 DEF TasslStep

LEMMA ConfirmedStep ==
  ASSUME Lasting, Confirmed, TasslStep
  PROVE  Confirmed' \/ GivenUp' \/ Ready'
<1>1. Tassl!Client \/ Tassl!Interruption
  BY TasslIdle DEF TasslStep, Confirmed, Programs, Wires, Connecting
<1>2. "server hello" # "server finished"
  OBVIOUS
<1>3. client \in Connecting /\ to_client = <<"server finished">> /\ to_server = <<>>
  BY DEF Confirmed, Programs, Wires
<1>4. CASE TasslWaits
  BY <1>4 DEF Confirmed, Programs, Wires, TasslWaits, Silent
<1>5. CASE /\ to_client' = <<>> /\ client' = "write 1" /\ shaken' = TRUE
           /\ UNCHANGED <<server, to_server, heard>>
  BY <1>5 DEF Confirmed, Ready, Programs, Wires
<1>6. CASE client' = "done" /\ Silent /\ UNCHANGED server
  BY <1>3, <1>6 DEF Confirmed, GivenUp, Silent
<1> QED BY <1>1, <1>2, <1>3, <1>4, <1>5, <1>6, ClientShakesHands

LEMMA ReadyStep ==
  ASSUME Lasting, Ready, TasslStep
  PROVE  Asking'
<1>1. Tassl!ClientWrites("write 1", "client 1", "read 1") /\ server # "done"
  BY TasslIdle, TasslClientAt DEF TasslStep, Lasting, Ready, Programs, Wires, TasslWaits,
     Connecting
<1>2. /\ client' = "read 1" /\ to_server' = Append(to_server, "client 1")
      /\ UNCHANGED <<server, to_client, shaken, heard>>
  BY <1>1 DEF Lasting, Tassl!ClientWrites, Tassl!Broken, Tassl!tls
<1>3. to_server' = <<"client 1">>
  BY <1>2, OneOnIt DEF Ready, Wires
<1> QED BY <1>2, <1>3 DEF Ready, Asking, Programs, Wires

LEMMA AskingStep ==
  ASSUME Lasting, Asking, TasslStep
  PROVE  Replying'
<1>1. Tassl!Server /\ server = "read" /\ client = "read 1"
  BY TasslIdle DEF TasslStep, Asking, Programs, Wires
<1>2. Tassl!ServerReads
  BY <1>1, TasslServerAt
<1>3. to_server # <<>> /\ Head(to_server) = "client 1" /\ Tail(to_server) = <<>>
  BY OneOnIt DEF Asking, Wires
<1>4. /\ to_server' = <<>> /\ server' = "write" /\ heard' = Append(heard, "client 1")
      /\ UNCHANGED <<client, to_client, shaken>>
  BY <1>1, <1>2, <1>3 DEF Lasting, Tassl!ServerReads, Tassl!Ended, Tassl!Broken, Tassl!tls
<1>5. heard' = <<"client 1">>
  BY <1>4, OneOnIt DEF Asking
<1> QED BY <1>4, <1>5 DEF Asking, Replying, Programs, Wires

LEMMA ReplyingStep ==
  ASSUME Lasting, Replying, TasslStep
  PROVE  Replied'
<1>1. Tassl!Server /\ server = "write" /\ client = "read 1"
  BY TasslIdle DEF TasslStep, Replying, Programs, Wires
<1>2. Tassl!ServerWrites
  BY <1>1, TasslServerAt
<1>3. /\ server' = "shutdown" /\ to_client' = Append(to_client, "server")
      /\ UNCHANGED <<client, to_server, shaken, heard>>
  BY <1>1, <1>2 DEF Lasting, Tassl!ServerWrites, Tassl!Broken, Tassl!tls
<1>4. to_client' = <<"server">>
  BY <1>3, OneOnIt DEF Replying, Wires
<1> QED BY <1>3, <1>4 DEF Replying, Replied, Programs, Wires

LEMMA RepliedStep ==
  ASSUME Lasting, Replied, TasslStep
  PROVE  Replied' \/ Closing'
<1>1. CASE Tassl!Server
  <2>1. Tassl!ServerShutdown
    BY <1>1, TasslServerAt DEF Replied, Programs
  <2>2. server' = "done" /\ Silent /\ UNCHANGED client
    BY <2>1, TasslGoes DEF Tassl!ServerShutdown
  <2> QED BY <2>2 DEF Replied, Programs, Wires, Silent
<1>2. CASE Tassl!Client \/ Tassl!Interruption
  <2>1. Tassl!ClientReads("read 1", "write 2", "read 1 again")
    BY <1>2, TasslClientAt DEF Replied, Programs, TasslWaits, Connecting
  <2>2. to_client # <<>> /\ Head(to_client) = "server" /\ Tail(to_client) = <<>>
    BY OneOnIt DEF Replied, Wires
  <2>3. /\ to_client' = <<>> /\ client' = "write 2" /\ heard' = Append(heard, "server")
        /\ UNCHANGED <<server, to_server, shaken>>
    BY <2>1, <2>2 DEF Lasting, Tassl!ClientReads, Tassl!Ended, Tassl!Broken, Tassl!tls
  <2>4. heard' = <<"client 1", "server">>
    BY <2>3, TwoOnIt DEF Replied
  <2> QED BY <2>3, <2>4 DEF Replied, Closing, Programs, Wires
<1> QED BY <1>1, <1>2 DEF TasslStep

LEMMA ClosingStep ==
  ASSUME Lasting, Closing, TasslStep
  PROVE  Closing'
<1>1. CASE Tassl!Server
  <2>1. Tassl!ServerShutdown
    BY <1>1, TasslServerAt DEF Closing, Programs
  <2>2. server' = "done" /\ Silent /\ UNCHANGED client
    BY <2>1, TasslGoes DEF Tassl!ServerShutdown
  <2> QED BY <2>2 DEF Closing, Programs, Silent
<1>2. CASE Tassl!Client \/ Tassl!Interruption
  <2>1. \/ client = "write 2" /\ Tassl!ClientWrites("write 2", "client 2", "read 2")
        \/ client = "read 2" /\ Tassl!ClientReads("read 2", "done", "done")
    BY <1>2, TasslClientAt DEF Closing, Programs, TasslWaits, Connecting
  <2>2. CASE Tassl!ClientReads("read 2", "done", "done")
    <3>1. client' = "done" /\ Silent /\ UNCHANGED server
      BY <2>2, TasslGoes DEF Closing, Tassl!ClientReads, Tassl!Arrived
    <3> QED BY <3>1 DEF Closing, Programs, Silent
  <2>3. CASE client = "write 2" /\ Tassl!ClientWrites("write 2", "client 2", "read 2")
    <3>1. /\ client' \in {"read 2", "done"}
          /\ to_server' \in {to_server, Append(to_server, "client 2")}
          /\ UNCHANGED <<server, to_client, shaken, heard>>
      BY <2>3 DEF Tassl!ClientWrites, Tassl!ClientGoes, Tassl!link, Tassl!wire, Tassl!tls
    <3>2. to_server = <<>> /\ Append(<<>>, "client 2") = <<"client 2">>
      BY <2>3, OneOnIt DEF Closing
    <3>3. to_server' \in {<<>>, <<"client 2">>}
      BY <3>1, <3>2
    <3> QED BY <3>1, <3>3 DEF Closing, Programs
  <2> QED BY <2>1, <2>2, <2>3
<1> QED BY <1>1, <1>2 DEF TasslStep
-----------------------------------------------------------------------------
(* The conversation of the TASSL programs in these terms: its phase, what  *)
(* was said and what was heard.                                            *)
TasslPhaseOf(s, l) == IF ~s THEN "closed" ELSE IF l THEN "lost" ELSE "open"
TasslPhase == TasslPhaseOf(shaken, lost)
TasslSaid == heard \o Tassl!OnTheirWay
TasslTalks == [Tassl!Conversation!Next]_(Tassl!Conversation!vars)
Stands(phase, said, known) == TasslPhase = phase /\ TasslSaid = said /\ heard = known

LEMMA TasslPhaseIs ==
  ASSUME NEW s, NEW l
  PROVE  /\ ~s => TasslPhaseOf(s, l) = "closed"
         /\ s /\ l => TasslPhaseOf(s, l) = "lost"
         /\ s /\ ~l => TasslPhaseOf(s, l) = "open"
BY DEF TasslPhaseOf

LEMMA TasslSpokenIs ==
  /\ Tassl!Spoken(<<>>) = <<>>
  /\ \A f \in Tassl!Flight \cup {"client 2"} : Tassl!Spoken(<<f>>) = <<>>
  /\ \A m \in {"client 1", "server"} : Tassl!Spoken(<<m>>) = <<m>>
BY OneOnIt DEF Tassl!Spoken, Tassl!Flight

LEMMA ScriptOfTwo ==
  /\ <<>> # Tassl!Script /\ <<"client 1">> # Tassl!Script
  /\ Append(<<>>, Tassl!Script[Len(<<>>) + 1]) = <<"client 1">>
  /\ Append(<<"client 1">>, Tassl!Script[Len(<<"client 1">>) + 1]) = <<"client 1", "server">>
  /\ <<"client 1">> # <<>> /\ <<"client 1", "server">> # <<"client 1">>
<1>1. Len(<<>>) + 1 = 1 /\ Len(<<"client 1">>) + 1 = 2 /\ Len(<<"client 1", "server">>) = 2
  OBVIOUS
<1>2. Tassl!Script[1] = "client 1" /\ Tassl!Script[2] = "server" /\ Len(Tassl!Script) = 2
  BY DEF Tassl!Script
<1>3. /\ Append(<<>>, "client 1") = <<"client 1">>
      /\ Append(<<"client 1">>, "server") = <<"client 1", "server">>
  BY OneOnIt, TwoOnIt
<1>4. <<>> # Tassl!Script /\ <<"client 1">> # Tassl!Script
  <2>1. Len(<<>>) # 2 /\ Len(<<"client 1">>) # 2
    OBVIOUS
  <2> QED BY <1>2, <2>1
<1> QED BY <1>1, <1>2, <1>3, <1>4

LEMMA TasslTalksIf ==
  /\ \A p, s, h : Stands(p, s, h) /\ Stands(p, s, h)' => TasslTalks
  /\ Stands("closed", <<>>, <<>>) /\ Stands("open", <<>>, <<>>)' => TasslTalks
  /\ Stands("open", <<>>, <<>>) /\ Stands("open", <<"client 1">>, <<>>)' => TasslTalks
  /\ Stands("open", <<"client 1">>, <<>>) /\ Stands("open", <<"client 1">>, <<"client 1">>)'
     => TasslTalks
  /\ Stands("open", <<"client 1">>, <<"client 1">>)
     /\ Stands("open", <<"client 1", "server">>, <<"client 1">>)' => TasslTalks
  /\ Stands("open", <<"client 1", "server">>, <<"client 1">>)
     /\ Stands("open", <<"client 1", "server">>, <<"client 1", "server">>)' => TasslTalks
  /\ \A s, h : Stands("open", s, h) /\ Stands("lost", h, h)' => TasslTalks
<1> USE DEF Stands, TasslPhase, TasslPhaseOf, TasslSaid
<1>1. ASSUME NEW p, NEW s, NEW h, Stands(p, s, h), Stands(p, s, h)'
      PROVE  UNCHANGED Tassl!Conversation!vars
  BY <1>1 DEF Tassl!Conversation!vars
<1>2. Stands("closed", <<>>, <<>>) /\ Stands("open", <<>>, <<>>)' => Tassl!Conversation!Open
  BY DEF Tassl!Conversation!Open
<1>3. Stands("open", <<>>, <<>>) /\ Stands("open", <<"client 1">>, <<>>)' => Tassl!Conversation!Say
  BY ScriptOfTwo DEF Tassl!Conversation!Say
<1>4. Stands("open", <<"client 1">>, <<"client 1">>)
      /\ Stands("open", <<"client 1", "server">>, <<"client 1">>)' => Tassl!Conversation!Say
  BY ScriptOfTwo DEF Tassl!Conversation!Say
<1>5. ASSUME NEW s, NEW h, s # h, Stands("open", s, h), Stands("open", s, s)'
      PROVE  Tassl!Conversation!Hear
  BY <1>5 DEF Tassl!Conversation!Hear
<1>6. ASSUME NEW s, NEW h, Stands("open", s, h), Stands("lost", h, h)'
      PROVE  Tassl!Conversation!Lose
  BY <1>6 DEF Tassl!Conversation!Lose
<1> QED BY <1>1, <1>2, <1>3, <1>4, <1>5, <1>6, ScriptOfTwo DEF TasslTalks, Tassl!Conversation!Next

(* Where the programs are, and where their conversation is.                *)
Before == Dialled \/ GivenUp \/ Greeting \/ Greeted \/ Confirming \/ Confirmed
Linked == Before \/ Ready \/ Asking \/ Replying \/ Replied \/ Closing
TasslInv == lost \/ (~lost /\ Separate) \/ (Lasting /\ Linked)

TasslMeaning ==
  /\ Separate \/ Before => Stands("closed", <<>>, <<>>)
  /\ Lasting =>
       /\ Ready => Stands("open", <<>>, <<>>)
       /\ Asking => Stands("open", <<"client 1">>, <<>>)
       /\ Replying => Stands("open", <<"client 1">>, <<"client 1">>)
       /\ Replied => Stands("open", <<"client 1", "server">>, <<"client 1">>)
       /\ Closing => Stands("open", <<"client 1", "server">>, <<"client 1", "server">>)

LEMMA Joined ==
  /\ <<>> \o <<>> = <<>>
  /\ <<>> \o <<"client 1">> = <<"client 1">> /\ <<>> \o <<"server">> = <<"server">>
  /\ <<"client 1">> \o <<>> = <<"client 1">>
  /\ <<"client 1">> \o <<"server">> = <<"client 1", "server">>
  /\ <<"client 1", "server">> \o <<>> = <<"client 1", "server">>
<1>1. /\ <<"client 1">> \in Seq(Tassl!Message) /\ <<"client 1", "server">> \in Seq(Tassl!Message)
      /\ "server" \in Tassl!Message
  BY DEF Tassl!Message
<1>2. <<"client 1">> \o <<"server">> = <<"client 1", "server">>
  BY <1>1, AppendIsConcat, TwoOnIt
<1>3. <<"client 1", "server">> \o <<>> = <<"client 1", "server">>
  BY <1>1, ConcatEmptySeq
<1> QED BY <1>2, <1>3, JoinOne

LEMMA TasslStagesMean == TasslMeaning
<1> USE DEF Tassl!OnTheirWay, Stands, TasslPhase, TasslSaid
<1>1. ASSUME Separate \/ Before PROVE Stands("closed", <<>>, <<>>)
  <2>1. /\ ~shaken /\ heard = <<>>
        /\ to_server \in {<<>>, <<"client hello">>, <<"client finished">>}
        /\ to_client \in {<<>>, <<"server hello">>, <<"server finished">>}
    BY <1>1 DEF Separate, Before, Dialled, GivenUp, Greeting, Greeted, Confirming, Confirmed,
       Wires
  <2>2. {"client hello", "client finished", "server hello",
        "server finished"} \subseteq Tassl!Flight
    BY DEF Tassl!Flight
  <2>3. Tassl!Spoken(to_server) = <<>> /\ Tassl!Spoken(to_client) = <<>>
    BY <2>1, <2>2, TasslSpokenIs
  <2> QED BY <2>1, <2>3, TasslPhaseIs, Joined
<1>2. ASSUME Lasting, shaken PROVE TasslPhase = "open"
  <2>1. ~lost
    BY <1>2 DEF Lasting
  <2> QED BY <1>2, <2>1 DEF TasslPhase, TasslPhaseOf
<1>3. ASSUME Ready \/ Asking \/ Replying \/ Replied \/ Closing PROVE shaken
  BY <1>3 DEF Ready, Asking, Replying, Replied, Closing
<1>4. ASSUME Ready PROVE TasslSaid = <<>> /\ heard = <<>>
  BY <1>4, TasslSpokenIs, Joined DEF Ready, Wires
<1>5. ASSUME Asking PROVE TasslSaid = <<"client 1">> /\ heard = <<>>
  BY <1>5, TasslSpokenIs, Joined DEF Asking, Wires
<1>6. ASSUME Replying PROVE TasslSaid = <<"client 1">> /\ heard = <<"client 1">>
  BY <1>6, TasslSpokenIs, Joined DEF Replying, Wires
<1>7. ASSUME Replied PROVE TasslSaid = <<"client 1", "server">> /\ heard = <<"client 1">>
  BY <1>7, TasslSpokenIs, Joined DEF Replied, Wires
<1>8. ASSUME Closing
      PROVE  TasslSaid = <<"client 1", "server">> /\ heard = <<"client 1", "server">>
  BY <1>8, TasslSpokenIs, Joined DEF Closing
<1> QED BY <1>1, <1>2, <1>3, <1>4, <1>5, <1>6, <1>7, <1>8 DEF TasslMeaning

LEMMA TasslStagesMeanNext == TasslMeaning'
BY TasslStagesMean, PTL

LEMMA TasslUnmoved ==
  ASSUME UNCHANGED <<to_server, to_client, lost, shaken, heard>> PROVE TasslTalks
<1>1. UNCHANGED <<TasslPhase, TasslSaid, heard>>
  BY DEF TasslPhase, TasslSaid, Tassl!OnTheirWay
<1>2. Stands(TasslPhase, TasslSaid, heard)
  BY DEF Stands
<1>3. \A p, s, h : p = TasslPhase /\ s = TasslSaid /\ h = heard =>
        Stands(p, s, h) /\ Stands(p, s, h)'
  BY <1>1 DEF Stands
<1> QED BY <1>3, TasslTalksIf

LEMMA LinkedStep ==
  ASSUME Lasting, Linked, TasslStep PROVE Linked' /\ TasslTalks
<1>1. Lasting' /\ TasslMeaning /\ TasslMeaning'
  BY TasslLasts, TasslStagesMean, TasslStagesMeanNext
<1>2. CASE Before
  <2>1. Before' \/ Ready'
    BY <1>2, DialledStep, GivenUpStep, GreetingStep, GreetedStep, ConfirmingStep,
       ConfirmedStep DEF Before
  <2> QED BY <1>1, <1>2, <2>1, TasslTalksIf DEF TasslMeaning, Linked
<1>3. CASE Ready
  BY <1>1, <1>3, ReadyStep, TasslTalksIf DEF TasslMeaning, Linked
<1>4. CASE Asking
  BY <1>1, <1>4, AskingStep, TasslTalksIf DEF TasslMeaning, Linked
<1>5. CASE Replying
  BY <1>1, <1>5, ReplyingStep, TasslTalksIf DEF TasslMeaning, Linked
<1>6. CASE Replied
  BY <1>1, <1>6, RepliedStep, TasslTalksIf DEF TasslMeaning, Linked
<1>7. CASE Closing
  BY <1>1, <1>7, ClosingStep, TasslTalksIf DEF TasslMeaning, Linked
<1> QED BY <1>2, <1>3, <1>4, <1>5, <1>6, <1>7 DEF Linked

LEMMA TasslLoses ==
  ASSUME TasslInv, Tassl!Lose PROVE TasslInv' /\ TasslTalks
<1>1. /\ connected /\ ~lost /\ lost' = TRUE /\ to_server' = <<>> /\ to_client' = <<>>
      /\ UNCHANGED <<shaken, heard>>
  BY DEF Tassl!Lose, Tassl!tls
<1>2. Tassl!OnTheirWay' = <<>>
  BY <1>1, TasslSpokenIs, Joined DEF Tassl!OnTheirWay
<1>3. ASSUME NEW h \in {<<>>, <<"client 1">>, <<"client 1", "server">>}, heard = h
      PROVE  heard' = h /\ TasslSaid' = h
  BY <1>1, <1>2, <1>3, Joined DEF TasslSaid
<1>4. shaken => TasslPhase' = "lost"
  BY <1>1, TasslPhaseIs DEF TasslPhase
<1>5. ~shaken => TasslPhase' = "closed"
  BY <1>1, TasslPhaseIs DEF TasslPhase
<1>6. Lasting /\ Linked /\ TasslMeaning
  BY <1>1, TasslStagesMean DEF TasslInv, Lasting, Separate
<1>7. ASSUME NEW h \in {<<>>, <<"client 1">>, <<"client 1", "server">>}, NEW s, shaken,
             Stands("open", s, h)
      PROVE  TasslTalks
  BY <1>3, <1>4, <1>7, TasslTalksIf DEF Stands
<1>8. CASE Before
  <2>1. ~shaken /\ Stands("closed", <<>>, <<>>)
    BY <1>6, <1>8 DEF TasslMeaning, Before, Dialled, GivenUp, Greeting, Greeted, Confirming,
       Confirmed
  <2>2. Stands("closed", <<>>, <<>>)'
    BY <1>3, <1>5, <2>1 DEF Stands
  <2> QED BY <1>1, <2>1, <2>2, TasslTalksIf DEF TasslInv
<1>9. CASE Ready \/ Asking \/ Replying \/ Replied \/ Closing
  <2>1. shaken
    BY <1>9 DEF Ready, Asking, Replying, Replied, Closing
  <2> QED BY <1>1, <1>6, <1>7, <1>9, <2>1 DEF TasslMeaning, TasslInv
<1> QED BY <1>6, <1>8, <1>9 DEF Linked

LEMMA TasslRests ==
  ASSUME TasslInv, Tassl!Hsm \/ UNCHANGED Tassl!vars PROVE TasslInv' /\ TasslTalks
<1>1. UNCHANGED <<client, server, listening, connected, lost, to_server, to_client,
                  shaken, heard>>
  BY DEF Tassl!Hsm, Tassl!vars, Tassl!link, Tassl!wire, Tassl!tls
<1>2. TasslInv'
  BY <1>1 DEF TasslInv, Lasting, Linked, Before, Separate, Dialled, GivenUp, Greeting, Greeted,
     Confirming,
     Confirmed, Ready, Asking, Replying, Replied, Closing, Programs, Wires
<1> QED BY <1>1, <1>2, TasslUnmoved

LEMMA TasslInvStep == TasslInv /\ [Tassl!Next]_Tassl!vars => TasslInv' /\ TasslTalks
<1> SUFFICES ASSUME TasslInv, [Tassl!Next]_Tassl!vars PROVE TasslInv' /\ TasslTalks
  OBVIOUS
<1>1. CASE TasslStep /\ lost
  BY <1>1, TasslBroken, TasslLasts, TasslUnmoved DEF TasslInv
<1>2. CASE TasslStep /\ ~lost /\ Separate
  <2>1. ~lost' /\ (Separate' \/ (connected' /\ Dialled'))
    BY <1>2, SeparateStep, TasslLasts
  <2>2. TasslInv'
    BY <2>1 DEF TasslInv, Lasting, Linked, Before
  <2>3. Stands("closed", <<>>, <<>>) /\ Stands("closed", <<>>, <<>>)'
    BY <1>2, <2>1, TasslStagesMean, TasslStagesMeanNext DEF TasslMeaning, Before
  <2> QED BY <2>2, <2>3, TasslTalksIf
<1>3. CASE TasslStep /\ Lasting /\ Linked
  BY <1>3, LinkedStep, TasslLasts DEF TasslInv
<1> QED BY <1>1, <1>2, <1>3, TasslRests, TasslLoses DEF Tassl!Next, TasslStep, TasslInv

(* tasslclient.c and sm2svr.c converse as Dialogue says, however often an  *)
(* interrupted SSL_connect is repeated and however long the module takes:  *)
(* the message the client writes into the closed connection, and the       *)
(* answer it then asks for, are no part of what the two say.               *)
THEOREM TasslConversesInTurn ==
  Tassl!Spec => Tassl!Conversation!Init /\ [][Tassl!Conversation!Next]_(Tassl!Conversation!vars)
<1>1. Tassl!Init => TasslInv /\ Tassl!Conversation!Init
  <2> SUFFICES ASSUME Tassl!Init PROVE TasslInv /\ Tassl!Conversation!Init
    OBVIOUS
  <2>1. ~lost /\ Separate
    BY DEF Tassl!Init, Separate, Programs, Wires
  <2>2. Stands("closed", <<>>, <<>>)
    BY <2>1, TasslStagesMean DEF TasslMeaning
  <2> QED BY <2>1, <2>2 DEF TasslInv, Tassl!Conversation!Init, Stands, TasslPhase,
          TasslPhaseOf, TasslSaid
<1>2. TasslInv /\ [Tassl!Next]_Tassl!vars => TasslInv'
  BY TasslInvStep
<1>3. TasslInv /\ [Tassl!Next]_Tassl!vars => [Tassl!Conversation!Next]_(Tassl!Conversation!vars)
  BY TasslInvStep DEF TasslTalks
<1> QED BY <1>1, <1>2, <1>3, PTL DEF Tassl!Spec
-----------------------------------------------------------------------------
(* The types of TasslExchange, in the same way.                            *)
Things == Tassl!Flight \cup Tassl!Message
TasslClients == {"setup", "connect", "hello", "handshake", "select", "write 1", "read 1",
                 "read 1 again", "write 2", "read 2", "done"}
TasslServers == {"setup", "listen", "accept", "handshake", "read", "write", "shutdown", "done"}

TasslPlaced == client \in TasslClients /\ server \in TasslServers
TasslLinked ==
  listening \in BOOLEAN /\ connected \in BOOLEAN /\ lost \in BOOLEAN /\ shaken \in BOOLEAN
TasslCarried ==
  /\ to_server \in Seq(Things) /\ to_client \in Seq(Things) /\ heard \in Seq(Tassl!Message)
TasslModule == hsm \in {"idle", "asked", "answered"} /\ retry \in 0..MaxRetry
TasslTyped == TasslPlaced /\ TasslLinked /\ TasslCarried /\ TasslModule

Unlinked == UNCHANGED <<listening, connected, lost, shaken>>

LEMMA TasslUnlinked == TasslLinked /\ Unlinked => TasslLinked'
BY DEF TasslLinked, Unlinked

LEMMA TasslCarriedIs ==
  /\ <<>> \in Seq(Things)
  /\ \A w \in Seq(Things) : w # <<>> => Tail(w) \in Seq(Things)
  /\ \A w \in Seq(Things), x \in Things : Append(w, x) \in Seq(Things)
  /\ \A h \in Seq(Tassl!Message), m \in Tassl!Message : Append(h, m) \in Seq(Tassl!Message)
OBVIOUS

LEMMA TasslGoesTyped ==
  ASSUME TasslTyped
  PROVE  /\ \A from, to : Tassl!ClientGoes(from, to) /\ to \in TasslClients => TasslTyped'
         /\ \A from, to : Tassl!ServerGoes(from, to) /\ to \in TasslServers => TasslTyped'
<1>1. ASSUME NEW from, NEW to, Tassl!ClientGoes(from, to) \/ Tassl!ServerGoes(from, to)
      PROVE  /\ Unlinked /\ UNCHANGED <<to_server, to_client, heard, hsm, retry>>
             /\ Tassl!ClientGoes(from, to) => client' = to /\ server' = server
             /\ Tassl!ServerGoes(from, to) => server' = to /\ client' = client
  BY <1>1 DEF Unlinked, Tassl!ClientGoes, Tassl!ServerGoes, Tassl!link, Tassl!wire, Tassl!tls
<1>2. ASSUME NEW from, NEW to \in TasslClients, Tassl!ClientGoes(from, to) PROVE TasslTyped'
  BY <1>1, <1>2, TasslUnlinked DEF TasslTyped, TasslPlaced, TasslCarried, TasslModule
<1>3. ASSUME NEW from, NEW to \in TasslServers, Tassl!ServerGoes(from, to) PROVE TasslTyped'
  BY <1>1, <1>3, TasslUnlinked DEF TasslTyped, TasslPlaced, TasslCarried, TasslModule
<1> QED BY <1>2, <1>3

LEMMA TasslClientTyped ==
  ASSUME MaxRetry \in Nat, TasslTyped, Tassl!Client \/ Tassl!Interruption PROVE TasslTyped'
<1>1. \A from, to : Tassl!ClientGoes(from, to) /\ to \in TasslClients => TasslTyped'
  BY TasslGoesTyped
<1>2. CASE Tassl!ClientSetup
  BY <1>1, <1>2 DEF Tassl!ClientSetup, TasslClients
<1>3. CASE Tassl!ClientConnect
  <2>1. CASE Tassl!ClientGoes("connect", "done")
    BY <1>1, <2>1 DEF TasslClients
  <2>2. CASE ~Tassl!ClientGoes("connect", "done")
    <3>1. /\ client' = "hello" /\ connected' = TRUE
          /\ UNCHANGED <<server, listening, lost, shaken, to_server, to_client, heard, hsm, retry>>
      BY <1>3, <2>2 DEF Tassl!ClientConnect, Tassl!wire, Tassl!tls
    <3>2. TasslLinked'
      BY <3>1 DEF TasslTyped, TasslLinked
    <3> QED BY <3>1, <3>2 DEF TasslTyped, TasslPlaced, TasslClients, TasslCarried, TasslModule
  <2> QED BY <2>1, <2>2
<1>4. CASE Tassl!ClientHello
  <2>1. CASE Tassl!ClientGoes("hello", "done")
    BY <1>1, <2>1 DEF TasslClients
  <2>2. CASE ~Tassl!ClientGoes("hello", "done")
    <3>1. /\ client' = "handshake" /\ Unlinked
          /\ UNCHANGED <<server, to_client, heard, hsm, retry>>
          /\ to_server' \in {to_server, Append(to_server, "client hello")}
      BY <1>4, <2>2 DEF Tassl!ClientHello, Unlinked, Tassl!link, Tassl!tls
    <3>2. "client hello" \in Things
      BY DEF Things, Tassl!Flight
    <3>3. to_server' \in Seq(Things)
      BY <3>1, <3>2, TasslCarriedIs DEF TasslTyped, TasslCarried
    <3> QED BY <3>1, <3>3, TasslUnlinked DEF TasslTyped, TasslPlaced, TasslClients, TasslCarried,
            TasslModule
  <2> QED BY <2>1, <2>2
<1>5. CASE Tassl!ClientHandshake
  <2>1. CASE Tassl!ClientGoes("handshake", "done")
    BY <1>1, <2>1 DEF TasslClients
  <2>2. CASE ~Tassl!ClientGoes("handshake", "done")
    <3>1. /\ to_client # <<>> /\ to_client' = Tail(to_client)
          /\ to_server' \in {to_server, Append(to_server, "client finished")}
          /\ client' \in {client, "write 1"} /\ shaken' \in {shaken, TRUE}
          /\ UNCHANGED <<server, listening, connected, lost, heard, hsm, retry>>
      BY <1>5, <2>2 DEF Tassl!ClientHandshake, Tassl!Arrived, Tassl!link, Tassl!tls
    <3>2. "client finished" \in Things
      BY DEF Things, Tassl!Flight
    <3>3. to_server' \in Seq(Things) /\ to_client' \in Seq(Things)
      BY <3>1, <3>2, TasslCarriedIs DEF TasslTyped, TasslCarried
    <3>4. TasslLinked'
      <4>1. shaken' = shaken \/ shaken' = TRUE
        BY <3>1
      <4> QED BY <3>1, <4>1 DEF TasslTyped, TasslLinked
    <3> QED BY <3>1, <3>3, <3>4 DEF TasslTyped, TasslPlaced, TasslClients, TasslCarried, TasslModule
  <2> QED BY <2>1, <2>2
<1>6. CASE Tassl!Interruption \/ Tassl!ClientSelects
  <2>1. CASE Tassl!ClientGoes("handshake", "select")
    BY <1>1, <2>1 DEF TasslClients
  <2>2. CASE ~Tassl!ClientGoes("handshake", "select")
    <3>1. /\ client' \in {client, "handshake"} /\ Unlinked
          /\ UNCHANGED <<server, to_server, to_client, heard, hsm>>
          /\ retry' = MaxRetry \/ (retry > 0 /\ retry' = retry - 1)
      BY <1>6, <2>2 DEF Tassl!Interruption, Tassl!ClientSelects, Tassl!ClientSelectReturns,
         Unlinked, Tassl!link, Tassl!wire
    <3>2. retry' \in 0..MaxRetry
      BY <3>1 DEF TasslTyped, TasslModule
    <3> QED BY <3>1, <3>2, TasslUnlinked DEF TasslTyped, TasslPlaced, TasslClients, TasslCarried,
            TasslModule
  <2> QED BY <2>1, <2>2
<1>7. ASSUME NEW from, NEW message \in Tassl!Message, NEW to \in TasslClients,
             Tassl!ClientWrites(from, message, to)
      PROVE  TasslTyped'
  <2>1. CASE Tassl!ClientGoes(from, "done")
    BY <1>1, <2>1 DEF TasslClients
  <2>2. CASE ~Tassl!ClientGoes(from, "done")
    <3>1. /\ client' = to /\ Unlinked /\ UNCHANGED <<server, to_client, heard, hsm, retry>>
          /\ to_server' \in {to_server, Append(to_server, message)}
      BY <1>7, <2>2 DEF Tassl!ClientWrites, Unlinked, Tassl!link, Tassl!tls
    <3>2. to_server' \in Seq(Things)
      BY <3>1, TasslCarriedIs DEF TasslTyped, TasslCarried, Things
    <3> QED BY <3>1, <3>2, TasslUnlinked DEF TasslTyped, TasslPlaced, TasslCarried, TasslModule
  <2> QED BY <2>1, <2>2
<1>8. ASSUME NEW from, NEW to \in TasslClients, NEW nothing \in TasslClients,
             Tassl!ClientReads(from, to, nothing)
      PROVE  TasslTyped'
  <2>1. CASE Tassl!ClientGoes(from, nothing)
    BY <1>1, <2>1
  <2>2. CASE ~Tassl!ClientGoes(from, nothing)
    <3>1. /\ client' = to /\ Unlinked /\ UNCHANGED <<server, to_server, hsm, retry>>
          /\ to_client # <<>> /\ Head(to_client) \in Tassl!Message
          /\ to_client' = Tail(to_client) /\ heard' = Append(heard, Head(to_client))
      BY <1>8, <2>2 DEF Tassl!ClientReads, Tassl!Arrived, Unlinked, Tassl!link, Tassl!tls
    <3>2. TasslCarried'
      BY <3>1, TasslCarriedIs DEF TasslTyped, TasslCarried
    <3> QED BY <3>1, <3>2, TasslUnlinked DEF TasslTyped, TasslPlaced, TasslModule
  <2> QED BY <2>1, <2>2
<1>9. /\ {"client 1", "client 2"} \subseteq Tassl!Message
      /\ {"read 1", "read 1 again", "write 2", "read 2", "done"} \subseteq TasslClients
  BY DEF Tassl!Message, TasslClients
<1> QED BY <1>2, <1>3, <1>4, <1>5, <1>6, <1>7, <1>8, <1>9 DEF Tassl!Client

LEMMA TasslServerTyped ==
  ASSUME TasslTyped, Tassl!Server PROVE TasslTyped'
<1>1. \A from, to : Tassl!ServerGoes(from, to) /\ to \in TasslServers => TasslTyped'
  BY TasslGoesTyped
<1>2. CASE Tassl!ServerSetup \/ Tassl!ServerShutdown
  BY <1>1, <1>2 DEF Tassl!ServerSetup, Tassl!ServerShutdown, TasslServers
<1>3. CASE Tassl!ServerListen \/ Tassl!ServerAccept
  <2>1. CASE Tassl!ServerGoes("listen", "done")
    BY <1>1, <2>1 DEF TasslServers
  <2>2. CASE ~Tassl!ServerGoes("listen", "done")
    <3>1. /\ server' \in {"accept", "handshake", "done"} /\ listening' \in BOOLEAN
          /\ UNCHANGED <<client, connected, lost, shaken, to_server, to_client, heard, hsm, retry>>
      BY <1>3, <2>2 DEF Tassl!ServerListen, Tassl!ServerAccept, Tassl!wire, Tassl!tls
    <3>2. TasslLinked'
      BY <3>1 DEF TasslTyped, TasslLinked
    <3> QED BY <3>1, <3>2 DEF TasslTyped, TasslPlaced, TasslServers, TasslCarried, TasslModule
  <2> QED BY <2>1, <2>2
<1>4. CASE Tassl!ServerHandshake
  <2>1. CASE Tassl!ServerGoes("handshake", "done")
    BY <1>1, <2>1 DEF TasslServers
  <2>2. CASE /\ hsm' = "asked"
             /\ UNCHANGED <<client, server, Tassl!link, Tassl!wire, Tassl!tls, heard>>
    <3>1. Unlinked /\ UNCHANGED <<client, server, to_server, to_client, heard, retry>>
      BY <2>2 DEF Unlinked, Tassl!link, Tassl!wire, Tassl!tls
    <3> QED BY <2>2, <3>1, TasslUnlinked DEF TasslTyped, TasslPlaced, TasslCarried, TasslModule
  <2>3. CASE Tassl!Arrived(to_server, {"client hello", "client finished"}) /\ Tassl!ServerFlight
             /\ hsm' = "idle"
    <3>1. /\ to_server # <<>> /\ to_server' = Tail(to_server)
          /\ \E x \in {"server hello", "server finished"} : to_client' = Append(to_client, x)
          /\ server' \in {"handshake", "read"}
          /\ Unlinked /\ UNCHANGED <<client, heard, retry>>
      BY <2>3 DEF Tassl!Arrived, Tassl!ServerFlight, Unlinked, Tassl!link, Tassl!tls
    <3>2. {"server hello", "server finished"} \subseteq Things
      BY DEF Things, Tassl!Flight
    <3>3. to_server' \in Seq(Things) /\ to_client' \in Seq(Things)
      BY <3>1, <3>2, TasslCarriedIs DEF TasslTyped, TasslCarried
    <3> QED BY <2>3, <3>1, <3>3, TasslUnlinked DEF TasslTyped, TasslPlaced, TasslServers,
            TasslCarried, TasslModule
  <2> QED BY <1>4, <2>1, <2>2, <2>3 DEF Tassl!ServerHandshake
<1>5. CASE Tassl!ServerReads
  <2>1. CASE \E to \in {"write", "done"} : Tassl!ServerGoes("read", to)
    BY <1>1, <2>1 DEF TasslServers
  <2>2. CASE ~\E to \in {"write", "done"} : Tassl!ServerGoes("read", to)
    <3>1. /\ server' = "write" /\ Unlinked /\ UNCHANGED <<client, to_client, hsm, retry>>
          /\ to_server # <<>> /\ Head(to_server) \in Tassl!Message
          /\ to_server' = Tail(to_server) /\ heard' = Append(heard, Head(to_server))
      BY <1>5, <2>2 DEF Tassl!ServerReads, Tassl!Arrived, Unlinked, Tassl!link, Tassl!tls
    <3>2. TasslCarried'
      BY <3>1, TasslCarriedIs DEF TasslTyped, TasslCarried
    <3> QED BY <3>1, <3>2, TasslUnlinked DEF TasslTyped, TasslPlaced, TasslServers, TasslModule
  <2> QED BY <2>1, <2>2
<1>6. CASE Tassl!ServerWrites
  <2>1. CASE Tassl!ServerGoes("write", "done")
    BY <1>1, <2>1 DEF TasslServers
  <2>2. CASE ~Tassl!ServerGoes("write", "done")
    <3>1. /\ server' = "shutdown" /\ Unlinked /\ UNCHANGED <<client, to_server, heard, hsm, retry>>
          /\ to_client' \in {to_client, Append(to_client, "server")}
      BY <1>6, <2>2 DEF Tassl!ServerWrites, Unlinked, Tassl!link, Tassl!tls
    <3>2. "server" \in Things
      BY DEF Things, Tassl!Message
    <3>3. TasslCarried'
      BY <3>1, <3>2, TasslCarriedIs DEF TasslTyped, TasslCarried
    <3> QED BY <3>1, <3>3, TasslUnlinked DEF TasslTyped, TasslPlaced, TasslServers, TasslModule
  <2> QED BY <2>1, <2>2
<1> QED BY <1>2, <1>3, <1>4, <1>5, <1>6 DEF Tassl!Server

LEMMA TasslTypedStep ==
  ASSUME MaxRetry \in Nat PROVE TasslTyped /\ [Tassl!Next]_Tassl!vars => TasslTyped'
<1> SUFFICES ASSUME TasslTyped, [Tassl!Next]_Tassl!vars PROVE TasslTyped'
  OBVIOUS
<1>1. CASE Tassl!Hsm \/ UNCHANGED Tassl!vars
  <2>1. /\ Unlinked /\ UNCHANGED <<client, server, to_server, to_client, heard, retry>>
        /\ hsm' \in {hsm, "answered"}
    BY <1>1 DEF Unlinked, Tassl!Hsm, Tassl!vars, Tassl!link, Tassl!wire, Tassl!tls
  <2> QED BY <2>1, TasslUnlinked DEF TasslTyped, TasslPlaced, TasslCarried, TasslModule
<1>2. CASE Tassl!Lose
  <2>1. /\ UNCHANGED <<client, server, listening, connected, shaken, heard, hsm, retry>>
        /\ lost' = TRUE /\ to_server' = <<>> /\ to_client' = <<>>
    BY <1>2 DEF Tassl!Lose, Tassl!tls
  <2>2. TasslLinked'
    BY <2>1 DEF TasslTyped, TasslLinked
  <2> QED BY <2>1, <2>2, TasslCarriedIs DEF TasslTyped, TasslPlaced, TasslCarried, TasslModule
<1> QED BY <1>1, <1>2, TasslClientTyped, TasslServerTyped DEF Tassl!Next

(* The bounds: one thing at a time on each wire, and two messages heard.   *)
TasslCounted == Len(to_server) <= 1 /\ Len(to_client) <= 1 /\ Len(heard) <= 2

LEMMA TasslStagesCount ==
  ASSUME Separate \/ Linked PROVE TasslCounted
<1>2. /\ to_server = <<>> \/ \E x : to_server = <<x>>
      /\ to_client = <<>> \/ \E x : to_client = <<x>>
      /\ heard = <<>> \/ (\E x : heard = <<x>>) \/ (\E x, y : heard = <<x, y>>)
  BY DEF Separate, Linked, Before, Dialled, GivenUp, Greeting, Greeted, Confirming, Confirmed,
     Ready, Asking, Replying, Replied, Closing, Wires
<1>3. Len(to_server) \in {0, 1} /\ Len(to_client) \in {0, 1} /\ Len(heard) \in {0, 1, 2}
  BY <1>2, LengthsAre, Zenon
<1> QED BY <1>3, AtMost, Zenon DEF TasslCounted

LEMMA TasslStagesCountNext == Separate' \/ Linked' => TasslCounted'
<1>1. Separate \/ Linked => TasslCounted
  BY TasslStagesCount
<1> QED BY <1>1, PTL

LEMMA TasslCountedStep ==
  TasslInv /\ TasslCounted /\ [Tassl!Next]_Tassl!vars => TasslCounted'
<1> SUFFICES ASSUME TasslInv, TasslCounted, [Tassl!Next]_Tassl!vars PROVE TasslCounted'
  OBVIOUS
<1>1. TasslInv'
  BY TasslInvStep
<1>3. CASE lost /\ TasslStep
  BY <1>3, TasslBroken DEF TasslCounted
<1>4. CASE Tassl!Lose
  <2>1. heard' = heard /\ to_server' = <<>> /\ to_client' = <<>>
    BY <1>4 DEF Tassl!Lose
  <2>2. Len(<<>>) = 0
    OBVIOUS
  <2> QED BY <2>1, <2>2 DEF TasslCounted
<1>5. CASE Tassl!Hsm \/ UNCHANGED Tassl!vars
  BY <1>5 DEF TasslCounted, Tassl!Hsm, Tassl!vars, Tassl!wire
<1>6. CASE ~lost /\ TasslStep
  BY <1>1, <1>6, TasslLasts, TasslStagesCountNext DEF TasslInv
<1> QED BY <1>3, <1>4, <1>5, <1>6 DEF Tassl!Next, TasslStep

(* The types of both TASSL programs, however often an interrupted          *)
(* SSL_connect is repeated: one thing at a time is on its way in each      *)
(* direction, the message nobody will read included.                       *)
THEOREM TasslTypes == ASSUME MaxRetry \in Nat PROVE Tassl!Spec => []Tassl!TypeOK
<1>1. Tassl!Init => TasslInv /\ TasslTyped /\ TasslCounted
  <2> SUFFICES ASSUME Tassl!Init PROVE TasslInv /\ TasslTyped /\ TasslCounted
    OBVIOUS
  <2>1. Separate /\ ~lost
    BY DEF Tassl!Init, Separate, Wires, Programs
  <2>2. TasslPlaced /\ TasslLinked /\ TasslModule
    <3>1. TasslPlaced
      BY DEF Tassl!Init, TasslPlaced, TasslClients, TasslServers
    <3>2. TasslLinked
      BY Zenon DEF Tassl!Init, TasslLinked
    <3>3. hsm = "idle" /\ retry = MaxRetry
      BY DEF Tassl!Init
    <3> QED BY <3>1, <3>2, <3>3 DEF TasslModule
  <2>3. TasslCarried
    BY TasslCarriedIs DEF Tassl!Init, TasslCarried
  <2> QED BY <2>1, <2>2, <2>3, TasslStagesCount DEF TasslInv, TasslTyped
<1>2. TasslInv /\ TasslTyped /\ TasslCounted /\ [Tassl!Next]_Tassl!vars
      => (TasslInv /\ TasslTyped /\ TasslCounted)'
  BY TasslInvStep, TasslTypedStep, TasslCountedStep
<1>3. TasslTyped /\ TasslCounted => Tassl!TypeOK
  <2> SUFFICES ASSUME TasslTyped, TasslCounted PROVE Tassl!TypeOK
    OBVIOUS
  <2>1. {listening, connected, lost, shaken} \subseteq BOOLEAN
    BY DEF TasslTyped, TasslLinked
  <2> QED BY <2>1 DEF Tassl!TypeOK, TasslTyped, TasslPlaced, TasslClients, TasslServers,
          TasslCarried, Things, TasslModule, TasslCounted
<1> QED BY <1>1, <1>2, <1>3, PTL DEF Tassl!Spec
=============================================================================
