--------------------------- MODULE TasslExchange ---------------------------
(***************************************************************************)
(* The client of TASSL_GM_Client/tasslclient.c (main) and the server of    *)
(* TASSL_GM_Server/sm2svr.c, which use one port and one cipher suite.      *)
(*                                                                         *)
(* The two do not agree on how much there is to say: the client writes     *)
(* and reads twice, and asks a second time for an answer that does not     *)
(* come; the server takes one client, reads once, answers once and closes. *)
(* In the handshake the server waits for its hardware module by starting   *)
(* the handshake anew as long as the module has no result.                 *)
(*                                                                         *)
(* TLS and the module are external: a handshake is four flights, and the   *)
(* server may need the module for each of its own.  The connection may be  *)
(* lost at any moment.  A write on a broken connection may end the program *)
(* (SIGPIPE).                                                              *)
(*                                                                         *)
(* Neither program installs a signal handler.  The client is written to    *)
(* repeat an interrupted SSL_connect, which is modelled; a signal that     *)
(* ends an SSL_read, or the handshake of the server, which then exits, is  *)
(* not: that both converse says nothing of such a connection.              *)
(***************************************************************************)
EXTENDS Naturals, Sequences

CONSTANT MaxRetry   \* 200 in the code

ASSUME TasslAssumption == MaxRetry \in Nat

VARIABLES
  client, server,   \* where the two programs are
  listening,        \* the server's port takes a connection
  connected, lost,  \* the client has connected; the connection is gone
  to_server, to_client,   \* flights and messages on their way
  hsm,              \* the hardware module: "idle", "asked" or "answered"
  shaken,           \* SSL_connect has succeeded
  retry,            \* calls of SSL_connect that an interruption may still cost
  heard             \* history: the messages that reached either program

link == <<listening, connected, lost>>
wire == <<to_server, to_client>>
tls == <<shaken, retry>>
vars == <<client, server, link, wire, hsm, tls, heard>>

Flight == {"client hello", "server hello", "client finished", "server finished"}
Message == {"client 1", "client 2", "server"}

Init ==
  /\ client = "setup" /\ server = "setup"
  /\ listening = FALSE /\ connected = FALSE /\ lost = FALSE
  /\ to_server = <<>> /\ to_client = <<>>
  /\ hsm = "idle" /\ shaken = FALSE /\ retry = MaxRetry /\ heard = <<>>

Broken == lost \/ ~connected
Ended(in, peer) == Broken \/ (in = <<>> /\ peer = "done")
Arrived(in, what) == ~Broken /\ in # <<>> /\ Head(in) \in what

Lose ==
  /\ connected /\ ~lost /\ lost' = TRUE
  /\ to_server' = <<>> /\ to_client' = <<>>
  /\ UNCHANGED <<client, server, listening, connected, hsm, tls, heard>>

ClientGoes(from, to) ==
  /\ client = from /\ client' = to
  /\ UNCHANGED <<server, link, wire, hsm, tls, heard>>
ServerGoes(from, to) ==
  /\ server = from /\ server' = to
  /\ UNCHANGED <<client, link, wire, hsm, tls, heard>>
-----------------------------------------------------------------------------
(* The context with its CA certificates, both certificates and both keys.  *)
ClientSetup == \E to \in {"connect", "done"} : ClientGoes("setup", to)

ClientConnect ==
  \/ /\ client = "connect" /\ listening
     /\ connected' = TRUE /\ client' = "hello"
     /\ UNCHANGED <<server, listening, lost, wire, hsm, tls, heard>>
  \/ ClientGoes("connect", "done")

(* SSL_new, and the first flight of SSL_connect. *)
ClientHello ==
  \/ /\ client = "hello" /\ client' = "handshake"
     /\ to_server' = IF Broken THEN to_server ELSE Append(to_server, "client hello")
     /\ UNCHANGED <<server, link, to_client, hsm, tls, heard>>
  \/ ClientGoes("hello", "done")

(* SSL_connect, which blocks.  It fails when a flight is not accepted or   *)
(* none will come, and everything is freed.                                *)
ClientHandshake ==
  \/ /\ client = "handshake" /\ Arrived(to_client, {"server hello"})
     /\ to_client' = Tail(to_client) /\ to_server' = Append(to_server, "client finished")
     /\ UNCHANGED <<client, server, link, hsm, tls, heard>>
  \/ /\ client = "handshake" /\ Arrived(to_client, {"server finished"})
     /\ to_client' = Tail(to_client) /\ client' = "write 1" /\ shaken' = TRUE
     /\ UNCHANGED <<server, link, to_server, hsm, retry, heard>>
  \/ /\ Arrived(to_client, Flight) \/ Ended(to_client, server)
     /\ ClientGoes("handshake", "done")

Blocked == to_client = <<>> /\ ~Ended(to_client, server)

ClientSelectReturns ==
  /\ client = "select" /\ client' = "handshake" /\ retry' = MaxRetry
  /\ UNCHANGED <<server, link, wire, hsm, shaken, heard>>

(* select has no timeout; SSL_connect is then called once more. *)
ClientSelects == ~Blocked /\ ClientSelectReturns

(* A signal ends a call that waits: SSL_connect, which is then repeated,   *)
(* after so many times by way of select; or select, whose result nobody    *)
(* looks at.                                                               *)
Interruption ==
  \/ /\ client = "handshake" /\ Blocked /\ retry > 0 /\ retry' = retry - 1
     /\ UNCHANGED <<client, server, link, wire, hsm, shaken, heard>>
  \/ Blocked /\ retry = 0 /\ ClientGoes("handshake", "select")
  \/ Blocked /\ ClientSelectReturns

ClientWrites(from, message, to) ==
  \/ /\ client = from /\ client' = to
     /\ to_server' = IF Broken \/ server = "done" THEN to_server ELSE Append(to_server, message)
     /\ UNCHANGED <<server, link, to_client, hsm, tls, heard>>
  \/ (Broken \/ server = "done") /\ ClientGoes(from, "done")

(* SSL_read into a buffer set to zero, up to twice for the first answer.   *)
ClientReads(from, to, to_after_nothing) ==
  \/ /\ client = from /\ Arrived(to_client, Message)
     /\ to_client' = Tail(to_client) /\ client' = to
     /\ heard' = Append(heard, Head(to_client))
     /\ UNCHANGED <<server, link, to_server, hsm, tls>>
  \/ Ended(to_client, server) /\ ClientGoes(from, to_after_nothing)

Client ==
  \/ ClientSetup \/ ClientConnect \/ ClientHello \/ ClientHandshake \/ ClientSelects
  \/ ClientWrites("write 1", "client 1", "read 1")
  \/ ClientReads("read 1", "write 2", "read 1 again")
  \/ ClientReads("read 1 again", "write 2", "write 2")
  \/ ClientWrites("write 2", "client 2", "read 2")
  \/ ClientReads("read 2", "done", "done")
-----------------------------------------------------------------------------
ServerSetup == \E to \in {"listen", "done"} : ServerGoes("setup", to)

(* socket, bind and listen *)
ServerListen ==
  \/ /\ server = "listen" /\ server' = "accept" /\ listening' = TRUE
     /\ UNCHANGED <<client, connected, lost, wire, hsm, tls, heard>>
  \/ ServerGoes("listen", "done")

(* One client is taken, the port closed, SSL_new called. *)
ServerAccept ==
  /\ server = "accept" /\ connected
  /\ listening' = FALSE /\ server' \in {"handshake", "done"}
  /\ UNCHANGED <<client, connected, lost, wire, hsm, tls, heard>>

(* The flight that answers what the client sent. *)
ServerFlight ==
  LET hello == Head(to_server) = "client hello"
  IN /\ to_server' = Tail(to_server)
     /\ to_client' = Append(to_client, IF hello THEN "server hello" ELSE "server finished")
     /\ server' = IF hello THEN "handshake" ELSE "read"
     /\ UNCHANGED <<client, link, tls, heard>>

(* Faulty: a handshake that waits for the module is begun from the start,  *)
(* and the module asked again.                                             *)
ServerHandshakeAsksAgain ==
  \/ /\ server = "handshake" /\ Arrived(to_server, {"client hello", "client finished"})
     /\ \/ hsm # "asked" /\ hsm' = "asked" /\ UNCHANGED <<client, server, link, wire, tls, heard>>
        \/ hsm = "idle" /\ ServerFlight /\ UNCHANGED hsm
  \/ hsm # "asked" /\ Ended(to_server, client) /\ ServerGoes("handshake", "done")

(* SSL_do_handshake in its loop.  While the module has not answered it     *)
(* returns SSL_ERROR_WANT_HSM_RESULT, and the loop calls it again.         *)
ServerHandshake ==
  \/ /\ server = "handshake" /\ Arrived(to_server, {"client hello", "client finished"})
     /\ \/ hsm = "idle" /\ hsm' = "asked" /\ UNCHANGED <<client, server, link, wire, tls, heard>>
        \/ hsm \in {"idle", "answered"} /\ ServerFlight /\ hsm' = "idle"
  \/ /\ hsm # "asked"
     /\ Arrived(to_server, Flight) \/ Ended(to_server, client)
     /\ ServerGoes("handshake", "done")

Hsm ==
  /\ hsm = "asked" /\ hsm' = "answered"
  /\ UNCHANGED <<client, server, link, wire, tls, heard>>

(* RETURN_SSL exits on -1 only: after a closed connection the server goes  *)
(* on to write.                                                            *)
ServerReads ==
  \/ /\ server = "read" /\ Arrived(to_server, Message)
     /\ to_server' = Tail(to_server) /\ server' = "write"
     /\ heard' = Append(heard, Head(to_server))
     /\ UNCHANGED <<client, link, to_client, hsm, tls>>
  \/ \E to \in {"write", "done"} : Ended(to_server, client) /\ ServerGoes("read", to)

(* Faulty: the connection is shut down first. *)
ServerWritesLate == ServerGoes("write", "done")

(* SSL_write, which succeeds as long as the system takes the bytes. *)
ServerWrites ==
  \/ /\ server = "write" /\ server' = "shutdown"
     /\ to_client' = IF Broken \/ client = "done" THEN to_client ELSE Append(to_client, "server")
     /\ UNCHANGED <<client, link, to_server, hsm, tls, heard>>
  \/ (Broken \/ client = "done") /\ ServerGoes("write", "done")

(* SSL_shutdown and close: the alert is sent, the client's is not awaited. *)
ServerShutdown == ServerGoes("shutdown", "done")

Server ==
  \/ ServerSetup \/ ServerListen \/ ServerAccept \/ ServerHandshake
  \/ ServerReads \/ ServerWrites \/ ServerShutdown

Next == Client \/ Server \/ Hsm \/ Lose \/ Interruption

(* Two processes that run, a network that delivers, a module that answers; *)
(* of losses and signals nothing is assumed.                               *)
Spec == Init /\ [][Next]_vars /\ WF_vars(Client) /\ WF_vars(Server) /\ WF_vars(Hsm)
-----------------------------------------------------------------------------
(* The types of the variables; one thing at a time is on its way in each   *)
(* direction, or the message that nobody will read.                        *)
TypeOK ==
  /\ client \in {"setup", "connect", "hello", "handshake", "select", "write 1", "read 1",
                 "read 1 again", "write 2", "read 2", "done"}
  /\ server \in {"setup", "listen", "accept", "handshake", "read", "write", "shutdown",
                 "done"}
  /\ {listening, connected, lost, shaken} \subseteq BOOLEAN
  /\ to_server \in Seq(Flight \cup Message) /\ Len(to_server) <= 1
  /\ to_client \in Seq(Flight \cup Message) /\ Len(to_client) <= 1
  /\ hsm \in {"idle", "asked", "answered"} /\ retry \in 0..MaxRetry
  /\ heard \in Seq(Message) /\ Len(heard) <= 2

(* Once connected both programs come to their end, though the client waits *)
(* for a second answer that is never written and the server waits for its  *)
(* module without a limit; the module has to answer.                       *)
BothEnd == connected ~> client = "done" /\ server = "done"

(* As far as the two agree they hold the conversation of Dialogue: though *)
(* the server closes right after its answer, and the client writes into    *)
(* the closed connection, the answer comes after what it answers and       *)
(* arrives, on every connection that lasts and whose handshake succeeded.  *)
Script == <<"client 1", "server">>
Spoken(channel) ==
  IF channel # <<>> /\ Head(channel) \in Flight \cup {"client 2"} THEN Tail(channel) ELSE channel
OnTheirWay == Spoken(to_server) \o Spoken(to_client)

Conversation == INSTANCE Dialogue WITH
  phase <- IF ~shaken THEN "closed" ELSE IF lost THEN "lost" ELSE "open",
  said <- heard \o OnTheirWay

TheyConverse == Conversation!Spec
=============================================================================
