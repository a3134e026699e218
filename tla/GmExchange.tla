----------------------------- MODULE GmExchange -----------------------------
(***************************************************************************)
(* The client of GMSSL_Client/gmclient.c and the server of                 *)
(* GMSSL_Server/main.c, each one thread, over one connection.              *)
(*                                                                         *)
(* Client and server shake hands; the client writes; the server asks for   *)
(* another handshake and answers; the client writes and the server answers *)
(* once more.  Each message is the last one received with a line added.    *)
(* The second handshake has no call of its own in the client: it happens   *)
(* inside the SSL_read that waits for the answer, and in the server inside *)
(* an SSL_read of zero bytes.                                              *)
(*                                                                         *)
(* TLS is external: a handshake is four flights, and an SSL_read in which  *)
(* a handshake was completed returns -1, since SSL_MODE_AUTO_RETRY is off  *)
(* in the OpenSSL 1.1.0 that GmSSL is built on.  The connection may be     *)
(* lost at any moment, and a handshake that fails loses it; a write on a   *)
(* broken connection may end the program (SIGPIPE).                        *)
(*                                                                         *)
(* Neither program installs a signal handler, so a call that waits is only *)
(* interrupted if a library of theirs installs one.  That is modelled for  *)
(* SSL_connect, which the client is written to repeat; an SSL_read or      *)
(* SSL_accept that a signal ends, which nobody repeats, is not.            *)
(***************************************************************************)
EXTENDS Naturals, Sequences

CONSTANT MaxRetry   \* 200 in the code

ASSUME GmAssumption == MaxRetry \in Nat

VARIABLES
  client, server,   \* where the two programs are
  listening,        \* the server has a socket that listens
  connected,        \* the client's connect succeeded
  lost,             \* the connection is gone
  to_server, to_client,   \* flights and messages on their way
  awaited,          \* of each side: the flight its handshake waits for, or "none"
  shaken,           \* of each side: the handshakes it has completed
  szBuffer,         \* of each side: the lines in its buffer
  retry,            \* calls of SSL_connect that an interruption may still cost
  heard             \* history: the messages that reached either program

wire == <<to_server, to_client>>
link == <<listening, connected, lost>>
tls == <<awaited, shaken>>
talk == <<szBuffer, heard, retry>>
vars == <<client, server, link, wire, tls, talk>>

(* The garbage that strcat finds in the uninitialised szBuffer. *)
Garbage == {<<>>, <<"garbage">>}
Line == {"garbage", "c1", "s1", "c2", "s2"}
Flight == {<<"hello request">>, <<"client hello">>, <<"server hello">>,
           <<"client finished">>, <<"server finished">>}

(* What comes next is a message. *)
Arrived(in) == in # <<>> /\ Head(in) \notin Flight

Init ==
  /\ client = "setup" /\ server = "listen"
  /\ listening = FALSE /\ connected = FALSE /\ lost = FALSE
  /\ to_server = <<>> /\ to_client = <<>>
  /\ awaited = [side \in {"client", "server"} |-> "none"]
  /\ shaken = [side \in {"client", "server"} |-> 0]
  /\ szBuffer = [side \in {"client", "server"} |-> <<>>]
  /\ heard = <<>> /\ retry = MaxRetry

Broken == lost \/ ~connected
(* The other side has closed its socket, and nothing is left of what it sent. *)
Ended(in, peer) == Broken \/ (in = <<>> /\ peer = "done")

(* SSL_write, SSL_set_fd on a bad socket included: what is written on a    *)
(* broken connection goes nowhere, and neither program minds, unless the   *)
(* write ends it (SIGPIPE).                                                *)
Send(channel, what) == IF Broken THEN channel ELSE Append(channel, what)

(* The connection goes, with everything on it. *)
Lose ==
  /\ connected /\ ~lost /\ lost' = TRUE
  /\ to_server' = <<>> /\ to_client' = <<>>
  /\ UNCHANGED <<client, server, listening, connected, tls, talk>>
-----------------------------------------------------------------------------
(* A flight of a handshake arrives and is answered.                        *)
ClientFlight(flight, answer, next) ==
  /\ ~Broken /\ to_client # <<>> /\ Head(to_client) = <<flight>>
  /\ to_client' = Tail(to_client)
  /\ to_server' = (IF answer = "" THEN to_server ELSE Append(to_server, <<answer>>))
  /\ awaited' = [awaited EXCEPT !["client"] = next]

ServerFlight(flight, answer, next) ==
  /\ ~Broken /\ to_server # <<>> /\ Head(to_server) = <<flight>>
  /\ to_server' = Tail(to_server)
  /\ to_client' = Append(to_client, <<answer>>)
  /\ awaited' = [awaited EXCEPT !["server"] = next]

(* The middle of a handshake, the same in SSL_connect and in SSL_read. *)
ClientShakes ==
  /\ awaited["client"] = "server hello"
  /\ ClientFlight("server hello", "client finished", "server finished")
  /\ UNCHANGED <<client, server, link, shaken, talk>>

(* Its end, after which the program goes on at "to". *)
ClientShaken(to) ==
  /\ awaited["client"] = "server finished"
  /\ ClientFlight("server finished", "", "none")
  /\ shaken' = [shaken EXCEPT !["client"] = @ + 1]
  /\ client' = to
  /\ UNCHANGED <<server, link, talk>>

ServerShakes ==
  /\ awaited["server"] = "none"
  /\ ServerFlight("client hello", "server hello", "client finished")
  /\ UNCHANGED <<client, server, link, shaken, talk>>

ServerShaken(to) ==
  /\ awaited["server"] = "client finished"
  /\ ServerFlight("client finished", "server finished", "none")
  /\ shaken' = [shaken EXCEPT !["server"] = @ + 1]
  /\ server' = to
  /\ UNCHANGED <<client, link, talk>>
-----------------------------------------------------------------------------
(* A step of one program that only moves it on. *)
ClientGoes(from, to) ==
  /\ client = from /\ client' = to
  /\ UNCHANGED <<server, link, wire, tls, talk>>
ServerGoes(from, to) ==
  /\ server = from /\ server' = to
  /\ UNCHANGED <<client, link, wire, tls, talk>>

(* The context, its certificates and its keys. *)
ClientSetup == \E to \in {"connect", "done"} : ClientGoes("setup", to)

ClientConnect ==
  \/ /\ client = "connect" /\ listening /\ server # "done"
     /\ connected' = TRUE /\ client' = "hello"
     /\ UNCHANGED <<server, listening, lost, wire, tls, talk>>
  \/ ClientGoes("connect", "done")

(* SSL_new, and SSL_connect sends its first flight. *)
ClientHello ==
  \/ /\ client = "hello" /\ client' = "handshake"
     /\ to_server' = Send(to_server, <<"client hello">>)
     /\ awaited' = [awaited EXCEPT !["client"] = "server hello"]
     /\ UNCHANGED <<server, link, to_client, shaken, talk>>
  \/ ClientGoes("hello", "done")

(* SSL_connect: it frees and closes everything when it fails. *)
ClientHandshake ==
  /\ client = "handshake"
  /\ \/ ClientShakes \/ ClientShaken("write 1")
     \/ Ended(to_client, server) /\ ClientGoes("handshake", "done")

Blocked == to_client = <<>> /\ ~Ended(to_client, server)

ClientSelectReturns ==
  /\ client = "select" /\ client' = "handshake" /\ retry' = MaxRetry
  /\ UNCHANGED <<server, link, wire, tls, szBuffer, heard>>

(* select has no timeout; SSL_connect is then called once more. *)
ClientSelects == ~Blocked /\ ClientSelectReturns

(* Faulty: the loop is left when the calls are used up, as if connected. *)
InterruptionGivesUp ==
  \/ /\ client = "handshake" /\ Blocked /\ retry > 0 /\ retry' = retry - 1
     /\ UNCHANGED <<client, server, link, wire, tls, szBuffer, heard>>
  \/ Blocked /\ retry = 0 /\ ClientGoes("handshake", "write 1")

(* A signal ends a call that waits: SSL_connect, which is then repeated,   *)
(* after so many times by way of select; or select, whose result nobody    *)
(* looks at.                                                               *)
Interruption ==
  \/ /\ client = "handshake" /\ Blocked /\ retry > 0 /\ retry' = retry - 1
     /\ UNCHANGED <<client, server, link, wire, tls, szBuffer, heard>>
  \/ Blocked /\ retry = 0 /\ ClientGoes("handshake", "select")
  \/ Blocked /\ ClientSelectReturns

ClientWrites(from, prefixes, line, to) ==
  /\ client = from /\ client' = to
  /\ \E text \in prefixes :
       /\ szBuffer' = [szBuffer EXCEPT !["client"] = text \o <<line>>]
       /\ to_server' = Send(to_server, text \o <<line>>)
  /\ UNCHANGED <<server, link, to_client, tls, heard, retry>>

(* SIGPIPE *)
ClientKilled == \E from \in {"write 1", "write 2"} : Broken /\ ClientGoes(from, "done")

(* SSL_read into a buffer that was set to zero: a message, the end of the  *)
(* connection, or a handshake, after which it returns with nothing.        *)
ClientReads(from, to, to_after_nothing) ==
  /\ client = from
  /\ \/ /\ awaited["client"] = "none" /\ Arrived(to_client)
        /\ to_client' = Tail(to_client)
        /\ szBuffer' = [szBuffer EXCEPT !["client"] = Head(to_client)]
        /\ heard' = Append(heard, Head(to_client))
        /\ client' = to
        /\ UNCHANGED <<server, link, to_server, tls, retry>>
     \/ /\ awaited["client"] = "none"
        /\ ClientFlight("hello request", "client hello", "server hello")
        /\ UNCHANGED <<client, server, link, shaken, talk>>
     \/ ClientShakes \/ ClientShaken(to_after_nothing)
     \/ /\ Ended(to_client, server)
        /\ client' = to_after_nothing
        /\ szBuffer' = [szBuffer EXCEPT !["client"] = <<>>]
        /\ UNCHANGED <<server, link, wire, tls, heard, retry>>

(* Faulty: what comes back first is taken for the answer. *)
ClientReadsAnswerOnce == ClientReads("read 1", "write 2", "write 2")

(* The first answer is asked for twice, for the handshake's sake. *)
ClientReadsAnswer ==
  \/ ClientReads("read 1", "write 2", "read 1 again")
  \/ ClientReads("read 1 again", "write 2", "write 2")

Client ==
  \/ ClientSetup \/ ClientConnect \/ ClientHello \/ ClientHandshake \/ ClientSelects
  \/ ClientWrites("write 1", Garbage, "c1", "clear")
  \/ /\ client = "clear" /\ client' = "read 1"
     /\ szBuffer' = [szBuffer EXCEPT !["client"] = <<>>]
     /\ UNCHANGED <<server, link, wire, tls, heard, retry>>
  \/ ClientReadsAnswer
  \/ ClientWrites("write 2", {szBuffer["client"]}, "c2", "read 2")
  \/ ClientReads("read 2", "done", "done")
  \/ ClientKilled
-----------------------------------------------------------------------------
(* TcpInit; when it fails the server goes on and fails in SSL_accept. *)
ServerListen ==
  /\ server = "listen" /\ server' = "setup"
  /\ listening' \in BOOLEAN
  /\ UNCHANGED <<client, connected, lost, wire, tls, talk>>

ServerSetup == \E to \in {"accept", "done"} : ServerGoes("setup", to)

ServerAccept == (connected \/ ~listening) /\ ServerGoes("accept", "handshake")

(* SSL_accept *)
ServerHandshake ==
  /\ server = "handshake"
  /\ \/ ServerShakes \/ ServerShaken("read 1")
     \/ Ended(to_server, client) /\ ServerGoes("handshake", "done")

ServerReads(from, to, to_after_nothing) ==
  /\ server = from
  /\ \/ /\ Arrived(to_server)
        /\ to_server' = Tail(to_server)
        /\ szBuffer' = [szBuffer EXCEPT !["server"] = Head(to_server)]
        /\ heard' = Append(heard, Head(to_server))
        /\ server' = to
        /\ UNCHANGED <<client, link, to_client, tls, retry>>
     \/ /\ Ended(to_server, client)
        /\ server' = to_after_nothing
        /\ szBuffer' = [szBuffer EXCEPT !["server"] = <<>>]
        /\ UNCHANGED <<client, link, wire, tls, heard, retry>>

(* SSL_renegotiate and SSL_do_handshake send the request and return; only  *)
(* when that succeeds is the buffer cleared.                               *)
ServerRenegotiate ==
  /\ server = "renegotiate"
  /\ to_client' = Send(to_client, <<"hello request">>)
  /\ IF Broken THEN server' = "write 1" /\ UNCHANGED szBuffer
               ELSE /\ server' = "read nothing"
                    /\ szBuffer' = [szBuffer EXCEPT !["server"] = <<>>]
  /\ UNCHANGED <<client, link, to_server, tls, heard, retry>>

(* Faulty: after the handshake the library goes on to wait for data, as it *)
(* does with SSL_MODE_AUTO_RETRY.                                          *)
ServerReadsNothingRetries ==
  /\ server = "read nothing"
  /\ \/ ServerShakes \/ ServerShaken("read nothing")
     \/ Arrived(to_server) /\ ServerGoes("read nothing", "write 1")
     \/ Ended(to_server, client) /\ ServerGoes("read nothing", "write 1")

(* Faulty: the handshake is left to the next read. *)
ServerReadsNothingLater == ServerGoes("read nothing", "write 1")

(* SSL_read of zero bytes: it returns after the handshake, or with the     *)
(* connection, and the SSL_do_handshake that follows has nothing to do.    *)
ServerReadsNothing ==
  /\ server = "read nothing"
  /\ \/ ServerShakes \/ ServerShaken("write 1")
     \/ Ended(to_server, client) /\ ServerGoes("read nothing", "write 1")

ServerWrites(from, line, to) ==
  /\ server = from /\ server' = to
  /\ szBuffer' = [szBuffer EXCEPT !["server"] = Append(@, line)]
  /\ to_client' = Send(to_client, Append(szBuffer["server"], line))
  /\ UNCHANGED <<client, link, to_server, tls, heard, retry>>

(* SIGPIPE *)
ServerKilled ==
  \E from \in {"renegotiate", "write 1", "write 2"} : Broken /\ ServerGoes(from, "done")

Server ==
  \/ ServerListen \/ ServerSetup \/ ServerAccept \/ ServerHandshake
  \/ ServerReads("read 1", "renegotiate", "done")
  \/ ServerRenegotiate \/ ServerReadsNothing
  \/ ServerWrites("write 1", "s1", "read 2")
  \/ ServerReads("read 2", "write 2", "write 2")
  \/ ServerWrites("write 2", "s2", "done")
  \/ ServerKilled

Next == Client \/ Server \/ Lose \/ Interruption

(* Two processes that keep running, and a network that delivers.  Nothing  *)
(* is assumed of losses and signals.                                       *)
Spec == Init /\ [][Next]_vars /\ WF_vars(Client) /\ WF_vars(Server)
-----------------------------------------------------------------------------
(* The type of every variable.  In each direction travels one flight or    *)
(* one message at most, or the first answer right behind the end of the    *)
(* second handshake: the two never talk past each other.                   *)
TypeOK ==
  /\ client \in {"setup", "connect", "hello", "handshake", "select", "write 1", "clear", "read 1",
                 "read 1 again", "write 2", "read 2", "done"}
  /\ server \in {"listen", "setup", "accept", "handshake", "read 1", "renegotiate",
                 "read nothing", "write 1", "read 2", "write 2", "done"}
  /\ listening \in BOOLEAN /\ connected \in BOOLEAN /\ lost \in BOOLEAN
  /\ to_server \in Seq(Seq(Line) \cup Flight) /\ Len(to_server) <= 1
  /\ to_client \in Seq(Seq(Line) \cup Flight) /\ Len(to_client) <= 2
  /\ awaited \in [{"client", "server"} -> {"none", "server hello", "client finished", "server finished"}]
  /\ shaken \in [{"client", "server"} -> 0..2]
  /\ szBuffer \in [{"client", "server"} -> Seq(Line)]
  /\ retry \in 0..MaxRetry
  /\ heard \in Seq(Seq(Line)) /\ Len(heard) <= 4

(* Once the client is connected both programs come to their end, wherever  *)
(* the connection is lost: neither waits for an answer the other is not    *)
(* going to give, in spite of the handshake that hides in their reads.     *)
BothEnd == connected ~> client = "done" /\ server = "done"

(* The two programs hold the conversation of Dialogue, which the handshake *)
(* in the middle of it must not show in: every message comes in its turn,  *)
(* each with all the lines since the renegotiation, nobody speaks before   *)
(* he has heard, and a connection that lasts sees the last answer arrive.  *)
Script == <<<<"c1">>, <<"s1">>, <<"s1", "c2">>, <<"s1", "c2", "s2">>>>
Message(m) == IF Head(m) = "garbage" THEN Tail(m) ELSE m
Messages(ms) == [k \in DOMAIN ms |-> Message(ms[k])]

(* On its way is what follows the flight at the head of a channel, if any. *)
Spoken(channel) == IF channel # <<>> /\ Head(channel) \in Flight THEN Tail(channel) ELSE channel
OnTheirWay == Spoken(to_server) \o Spoken(to_client)

Conversation == INSTANCE Dialogue WITH
  phase <- IF shaken["client"] = 0 THEN "closed" ELSE IF lost THEN "lost" ELSE "open",
  said <- Messages(heard \o OnTheirWay),
  heard <- Messages(heard)

TheyConverse == Conversation!Spec
=============================================================================
