----------------------------- MODULE UkeyClient -----------------------------
(***************************************************************************)
(* The TLS client of tasslukey/main.c, whose keys are in a USB token.      *)
(*                                                                         *)
(* ukey_sslcli fetches a certificate and a public key for signing, then    *)
(* for encryption, and connects; OpenSSL calls ukey_sign back whenever the *)
(* handshake needs a signature.  Nothing is kept between these calls:      *)
(* ukey_export and ukey_sign each enumerate the tokens anew, open device,  *)
(* application and container of the first, do one operation, and close.    *)
(*                                                                         *)
(* The user may exchange or pull the token at any moment; a session on a   *)
(* token that left the reader works no more.  The SKF library, OpenSSL and *)
(* the server are external: each of their calls may fail.                  *)
(***************************************************************************)
EXTENDS Naturals, FiniteSets

CONSTANTS
  Token,
  NoToken,     \* no token; NULL
  MaxTries,    \* wrong PINs after which a token blocks itself
  MaxSigned    \* bound on the signatures the server asks for

ASSUME UkeyAssumption == NoToken \notin Token /\ MaxTries \in Nat /\ MaxSigned \in Nat

VARIABLES
  inserted,    \* the first token that can be enumerated
  pin_ok,      \* tokens that take the PIN of the command line
  from_file,   \* of each slot: whose certificate the file has, NoToken without -sc or -ec
  api,         \* GetSKFAPI has loaded the library
  main,        \* where ukey_sslcli is
  call,        \* where ukey_export or ukey_sign is, "none" outside them
  sized,       \* the first SKF_EnumDev gave room for a name
  name,        \* szNameList; the token the handles are of
  alive,       \* that token has stayed in the reader since SKF_ConnectDev
  ret,         \* what the call is to return: the token its result is of
  open,        \* handles that are open, with the purpose they were opened for
  ctx_cert, ctx_key,   \* of each slot of the SSL_CTX: the token
  signed,      \* signatures delivered
  wrong,       \* of each token: wrong PINs since the last right one
  broke        \* history: purposes of calls in which a step failed

user == <<pin_ok, from_file>>
session == <<api, call, sized, name, alive, ret, open, wrong, broke>>
ssl == <<main, ctx_cert, ctx_key, signed>>
vars == <<inserted, user, session, ssl>>

Slot == {"sign", "enc"}
Export == {"sign cert", "sign key", "enc cert", "enc key"}
Signing == {"handshake", "read"}
Connected == {"handshake", "write", "read"}
Kind == {"device", "application", "container"}

(* The purpose of the call in progress; all signatures have the same. *)
Purpose == IF main \in Signing THEN "signature" ELSE main

Init ==
  /\ inserted \in Token \cup {NoToken}
  /\ pin_ok \in SUBSET Token
  /\ from_file \in [Slot -> Token \cup {NoToken}]
  /\ api = FALSE
  /\ main = "start" /\ call = "none"
  /\ sized = FALSE /\ name = NoToken /\ alive = FALSE /\ ret = NoToken
  /\ open = {}
  /\ ctx_cert = [s \in Slot |-> NoToken]
  /\ ctx_key = [s \in Slot |-> NoToken]
  /\ signed = 0
  /\ wrong = [t \in Token |-> 0]
  /\ broke = {}

(* The user pulls the token, or puts in another one. *)
Swap ==
  /\ inserted' \in (Token \cup {NoToken}) \ {inserted}
  /\ alive' = FALSE
  /\ UNCHANGED <<user, api, call, sized, name, ret, open, wrong, broke, ssl>>
-----------------------------------------------------------------------------
(* One step of ukey_export or ukey_sign goes well. *)
Step(from, to) == call = from /\ call' = to /\ UNCHANGED <<inserted, user, ssl, broke>>

(* A step fails: the call returns what ret has been set to so far, and     *)
(* closes nothing.                                                         *)
StepFails(from) ==
  /\ call = from /\ call' = "done"
  /\ broke' = broke \cup {Purpose}
  /\ UNCHANGED <<inserted, user, ssl, api, sized, name, alive, ret, open>>

Fails(from) == StepFails(from) /\ UNCHANGED wrong

(* GetSKFAPI, which remembers that it has loaded the library; ukey_sign    *)
(* may be given too short a buffer, which it sees before.                  *)
Begin ==
  /\ call = "none"
  /\ ret' = NoToken /\ name' = NoToken /\ sized' = FALSE /\ alive' = FALSE
  /\ \/ call' = "size" /\ api' = TRUE /\ UNCHANGED broke
     \/ /\ ~api \/ main \in Signing
        /\ call' = "done" /\ broke' = broke \cup {Purpose} /\ UNCHANGED api
  /\ UNCHANGED <<inserted, user, ssl, open, wrong>>

EnumSize ==
  \/ Step("size", "names") /\ sized' = (inserted # NoToken)
     /\ UNCHANGED <<api, name, alive, ret, open, wrong>>
  \/ Fails("size")

(* Without room for a name this call only gives the size again. *)
EnumNames ==
  \/ Step("names", "device") /\ name' = (IF sized THEN inserted ELSE NoToken)
     /\ UNCHANGED <<api, sized, alive, ret, open, wrong>>
  \/ Fails("names")

ConnectDev ==
  \/ /\ name # NoToken /\ name = inserted
     /\ Step("device", "application") /\ alive' = TRUE
     /\ open' = open \cup {<<Purpose, "device">>}
     /\ UNCHANGED <<api, sized, name, ret, wrong>>
  \/ Fails("device")

OpenApplication ==
  \/ alive /\ Step("application", "container")
     /\ open' = open \cup {<<Purpose, "application">>}
     /\ UNCHANGED <<api, sized, name, alive, ret, wrong>>
  \/ Fails("application")

OpenContainer ==
  \/ alive /\ Step("container", IF main \in Signing THEN "pin" ELSE "export")
     /\ open' = open \cup {<<Purpose, "container">>}
     /\ UNCHANGED <<api, sized, name, alive, ret, wrong>>
  \/ Fails("container")

(* A blocked token refuses the right PIN as well. *)
VerifyPIN ==
  \/ /\ alive /\ name \in pin_ok /\ wrong[name] < MaxTries
     /\ Step("pin", "operation")
     /\ wrong' = [wrong EXCEPT ![name] = 0]
     /\ UNCHANGED <<api, sized, name, alive, ret, open>>
  \/ /\ alive /\ name \notin pin_ok /\ wrong[name] < MaxTries
     /\ StepFails("pin")
     /\ wrong' = [wrong EXCEPT ![name] = @ + 1]
  \/ Fails("pin")

(* The certificate or the public key, as an OpenSSL object: ret is set. *)
ExportData ==
  \/ alive /\ Step("export", "close container") /\ ret' = name
     /\ UNCHANGED <<api, sized, name, alive, open, wrong>>
  \/ Fails("export")

(* Faulty: the result is set before the session is closed, as ukey_export does. *)
SignDataSetsRet ==
  \/ alive /\ Step("operation", "close container") /\ ret' = name
     /\ UNCHANGED <<api, sized, name, alive, open, wrong>>
  \/ Fails("operation")

(* SKF_ECCSignData; ukey_sign sets ret only at its very end. *)
SignData ==
  \/ alive /\ Step("operation", "close container")
     /\ UNCHANGED <<api, sized, name, alive, ret, open, wrong>>
  \/ Fails("operation")

(* Faulty: the application is not closed, since the device will be. *)
CloseStepForgets(from, kind, to) ==
  \/ Step(from, to)
     /\ open' = open \ (IF kind = "application" THEN {} ELSE {<<Purpose, kind>>})
     /\ UNCHANGED <<api, sized, name, alive, ret, wrong>>
  \/ Fails(from)

CloseStep(from, kind, to) ==
  \/ Step(from, to) /\ open' = open \ {<<Purpose, kind>>}
     /\ UNCHANGED <<api, sized, name, alive, ret, wrong>>
  \/ Fails(from)

Close ==
  \/ CloseStep("close container", "container", "close application")
  \/ CloseStep("close application", "application", "disconnect")
  \/ CloseStep("disconnect", "device", IF main \in Signing THEN "format" ELSE "done")

(* The signature is put in DER; only now ukey_sign succeeds. *)
Format ==
  \/ Step("format", "done") /\ ret' = name
     /\ UNCHANGED <<api, sized, name, alive, open, wrong>>
  \/ Fails("format")
-----------------------------------------------------------------------------
(* ukey_sslcli moves on between two calls. *)
Go(to) ==
  /\ main' = to /\ call' = "none"
  /\ UNCHANGED <<inserted, user, api, sized, name, alive, ret, open, wrong, broke>>

(* SSL_CTX_use_certificate, or its variant for a file.  Its failures, and  *)
(* those of every other call before the exchange, end ukey_sslcli.         *)
UseCert(slot, here, next) ==
  /\ main = here /\ UNCHANGED <<ctx_key, signed>>
  /\ LET cert == IF from_file[slot] # NoToken THEN from_file[slot] ELSE ret IN
     \/ /\ from_file[slot] # NoToken => call = "none"
        /\ from_file[slot] = NoToken => call = "done"
        /\ cert # NoToken
        /\ ctx_cert' = [ctx_cert EXCEPT ![slot] = cert]
        /\ Go(next)
     \/ /\ from_file[slot] # NoToken \/ call = "done"
        /\ Go("returned") /\ UNCHANGED ctx_cert

(* Faulty: the check is left to the server. *)
UseKeyUnchecked(slot, here, next) ==
  /\ main = here /\ call = "done"
  /\ UNCHANGED <<ctx_cert, signed>>
  /\ \/ /\ ret # NoToken
        /\ ctx_key' = [ctx_key EXCEPT ![slot] = ret]
        /\ Go(next)
     \/ Go("returned") /\ UNCHANGED ctx_key

(* SSL_CTX_use_PrivateKey, and the check that certificate and key match. *)
UseKey(slot, here, next) ==
  /\ main = here /\ call = "done"
  /\ UNCHANGED <<ctx_cert, signed>>
  /\ \/ /\ ret # NoToken /\ ret = ctx_cert[slot]
        /\ ctx_key' = [ctx_key EXCEPT ![slot] = ret]
        /\ Go(next)
     \/ Go("returned") /\ UNCHANGED ctx_key

Load ==
  \/ UseCert("sign", "sign cert", "sign key") \/ UseKey("sign", "sign key", "enc cert")
  \/ UseCert("enc", "enc cert", "enc key") \/ UseKey("enc", "enc key", "connect")

Fetch ==
  /\ main \in Export
  /\ main = "sign cert" => from_file["sign"] = NoToken
  /\ main = "enc cert" => from_file["enc"] = NoToken
  /\ Begin

(* A step of ukey_sslcli that leaves the SSL_CTX as it is. *)
Onward(from, to) ==
  /\ main = from /\ call = "none"
  /\ Go(to) /\ UNCHANGED <<ctx_cert, ctx_key, signed>>

(* The key method is registered and the SSL_CTX made. *)
Start == \E to \in {"sign cert", "returned"} : Onward("start", to)

(* The CA file, the TCP connection and the SSL object. *)
Connect == \E to \in {"handshake", "returned"} : Onward("connect", to)

(* SSL_connect; in the exchange a failure ends the process. *)
Handshake == \E to \in {"write", "returned"} : Onward("handshake", to)
Write == \E to \in {"read", "exited"} : Onward("write", to)
Read == \E to \in {"write", "exited"} : Onward("read", to)

(* The server asks for a signature, in the handshake or, when it           *)
(* renegotiates, inside SSL_read.                                          *)
Sign == main \in Signing /\ signed < MaxSigned /\ Begin

(* Faulty: a signature that failed is asked for once more. *)
SignedRetries ==
  /\ main \in Signing /\ call = "done"
  /\ UNCHANGED <<ctx_cert, ctx_key>>
  /\ IF ret # NoToken THEN Go(main) /\ signed' = signed + 1
                      ELSE Go(main) /\ UNCHANGED signed

(* ukey_sign returns to OpenSSL; without a signature, SSL_connect or       *)
(* SSL_read fails.                                                         *)
Signed ==
  /\ main \in Signing /\ call = "done"
  /\ UNCHANGED <<ctx_cert, ctx_key>>
  /\ IF ret # NoToken
     THEN Go(main) /\ signed' = signed + 1
     ELSE /\ Go(IF main = "handshake" THEN "returned" ELSE "exited")
          /\ UNCHANGED signed

Program ==
  \/ Start \/ Fetch \/ Load \/ Connect \/ Handshake \/ Sign \/ Signed \/ Write \/ Read
  \/ EnumSize \/ EnumNames \/ ConnectDev \/ OpenApplication \/ OpenContainer
  \/ VerifyPIN \/ ExportData \/ SignData \/ Close \/ Format

Next == Program \/ Swap

Spec == Init /\ [][Next]_vars
-----------------------------------------------------------------------------
(* The type of every variable; a PIN is verified for signatures only, so   *)
(* that fetching certificates and keys costs no attempt.                   *)
TypeOK ==
  /\ inserted \in Token \cup {NoToken} /\ pin_ok \subseteq Token
  /\ from_file \in [Slot -> Token \cup {NoToken}]
  /\ api \in BOOLEAN /\ sized \in BOOLEAN /\ alive \in BOOLEAN
  /\ main \in Export \cup Connected \cup {"start", "connect", "returned", "exited"}
  /\ call \in {"none", "size", "names", "device", "application", "container", "pin",
               "export", "operation", "close container", "close application",
               "disconnect", "format", "done"}
  /\ call \in {"pin", "operation", "format"} => main \in Signing
  /\ name \in Token \cup {NoToken} /\ ret \in Token \cup {NoToken}
  /\ open \subseteq (Export \cup {"signature"}) \X Kind
  /\ ctx_cert \in [Slot -> Token \cup {NoToken}] /\ ctx_key \in [Slot -> Token \cup {NoToken}]
  /\ signed \in 0..MaxSigned
  /\ wrong \in [Token -> 0..MaxTries]
  /\ broke \subseteq Export \cup {"signature"}

(* The client connects only when the certificate and the key of each slot  *)
(* are of the same token, though they were fetched in sessions between     *)
(* which the token may have been exchanged, or the certificate came from a *)
(* file.                                                                   *)
PairsMatch ==
  main \in Connected \cup {"connect"} =>
    \A s \in Slot : ctx_key[s] # NoToken /\ ctx_key[s] = ctx_cert[s]

(* A run costs a user with the wrong PIN at most one attempt, on all       *)
(* tokens together, however many signatures the server asks for: a token   *)
(* that had two attempts left is not blocked by the client.                *)
OneWrongPinAtMost ==
  \A t \in Token : wrong[t] > 0 =>
    wrong[t] = 1 /\ \A u \in Token \ {t} : wrong[u] = 0

(* A call in which no step failed leaves no handle open.                   *)
LeftOnlyByFailure ==
  \A h \in open : h[1] \in broke \/ (call \notin {"none", "done"} /\ h[1] = Purpose)

(* A signature that OpenSSL gets was made in a session that was closed     *)
(* completely, on a token that takes the PIN.                              *)
SignatureClosesItsSession ==
  [][signed' > signed => ret \in pin_ok /\ \A h \in open : h[1] # "signature"]_vars
=============================================================================
