----------------------------- MODULE TasslPeer ------------------------------
(***************************************************************************)
(* The older client of tasslclient.c, whose main is commented out and      *)
(* whose functions are there: it connects (create_tcp_connect), makes a    *)
(* context with a list of two CA certificates and shakes hands             *)
(* (create_ssl_conect, Cert_SSL_AddCACert), and reads the name of the      *)
(* peer's issuer (CertName).                                               *)
(*                                                                         *)
(* The list is kept without duplicates, found by subject: of two           *)
(* certificates with one subject the first added stays.  Each addition     *)
(* locks a lock it has just made, and returns without unlocking it when    *)
(* the subject is there already; as every addition has its own lock,       *)
(* nothing ever waits for one.                                             *)
(*                                                                         *)
(* TLS is external: the handshake succeeds or fails when the peer has      *)
(* answered, and with verification it fails unless the list has the CA of  *)
(* the peer.  A signal may interrupt it while it waits.                    *)
(***************************************************************************)
EXTENDS CertName, FiniteSets

CONSTANTS Subject, NoFile, MaxRetry   \* MaxRetry: 200 in the code

ASSUME TasslPeerAssumption ==
  MaxRetry \in Nat /\ NoFile \notin Subject \X {"first", "second"}

VARIABLES
  files,      \* the certificates in CA_CERT_FILE2 and CA_CERT_FILE, or NoFile
  peer,       \* the CA certificate of the peer
  flag,       \* the peer is to be verified
  arrived,    \* the peer has answered, or is gone
  open,       \* what the client has made and not released
  objs,       \* the certificates in the list
  held,       \* the locks that are held
  made,       \* how many locks were made
  retry       \* calls of SSL_connect that an interruption may still cost

lock == <<held, made>>
environment == <<files, peer, flag>>
vars == <<names, at, environment, arrived, open, objs, lock, retry>>

(* Files and peer are only looked at for verification; without it they are *)
(* left out.  A CA may have been issued a second certificate for the same  *)
(* subject.                                                                *)
Certificate == Subject \X {"first", "second"}
subject(cert) == cert[1]

Init ==
  /\ NamesInit /\ at = "tcp"
  /\ flag \in BOOLEAN
  /\ files \in [{"oca", "rca"} -> IF flag THEN Certificate \cup {NoFile} ELSE {NoFile}]
  /\ peer \in IF flag THEN Certificate ELSE {NoFile}
  /\ arrived = FALSE /\ open = {} /\ objs = {}
  /\ held = {} /\ made = 0 /\ retry = MaxRetry

(* A step that acquires or releases. *)
Goes(from, to, kept) ==
  /\ at = from /\ at' = to /\ open' = kept
  /\ UNCHANGED <<names, environment, arrived, objs, lock, retry>>

(* socket and connect; when connect fails the socket stays open. *)
TcpConnect == \/ Goes("tcp", "context", {"socket"})
              \/ \E left \in SUBSET {"socket"} : Goes("tcp", "refused", left)

CreateContext == \/ Goes("context", IF flag THEN "lock oca" ELSE "ssl", open \cup {"ctx"})
                 \/ Goes("context", "failed", open)
-----------------------------------------------------------------------------
(* A file that cannot be read adds nothing; otherwise a lock is made and   *)
(* taken, which nobody else can hold.                                      *)
AddCALock(file, from, to, next) ==
  /\ at = from
  /\ IF files[file] = NoFile THEN at' = next /\ UNCHANGED lock
     ELSE held' = held \cup {made + 1} /\ made' = made + 1 /\ at' = to
  /\ UNCHANGED <<names, environment, arrived, open, objs, retry>>

(* Faulty: the list is not searched. *)
AddCAUnsearched(file, from, next) ==
  /\ at = from /\ at' = next
  /\ objs' = objs \cup {files[file]} /\ held' = held \ {made}
  /\ UNCHANGED <<names, environment, arrived, open, made, retry>>

(* sk_find compares subjects.  Only after a push is the lock released. *)
AddCAFind(file, from, next) ==
  /\ at = from /\ at' = next
  /\ IF \E cert \in objs : subject(cert) = subject(files[file])
     THEN UNCHANGED <<objs, held>>
     ELSE objs' = objs \cup {files[file]} /\ held' = held \ {made}
  /\ UNCHANGED <<names, environment, arrived, open, made, retry>>

AddCACerts ==
  \/ AddCALock("oca", "lock oca", "find oca", "lock rca") \/ AddCAFind("oca", "find oca", "lock rca")
  \/ AddCALock("rca", "lock rca", "find rca", "ssl") \/ AddCAFind("rca", "find rca", "ssl")
-----------------------------------------------------------------------------
NewSsl == Goes("ssl", "connect", open \cup {"ssl"}) \/ Goes("ssl", "failed", open)

Answer ==
  /\ at \in {"connect", "select"} /\ ~arrived /\ arrived' = TRUE
  /\ UNCHANGED <<names, at, environment, open, objs, lock, retry>>

(* SSL_connect *)
Connected ==
  /\ at = "connect" /\ arrived /\ (flag => peer \in objs)
  /\ at' = "connected" /\ retry' = MaxRetry
  /\ UNCHANGED <<names, environment, arrived, open, objs, lock>>

(* A failure releases everything, the socket included. *)
ConnectFails == arrived /\ Goes("connect", "failed", open \ {"ssl", "ctx", "socket"})

SelectReturns ==
  /\ at = "select" /\ at' = "connect" /\ retry' = MaxRetry
  /\ UNCHANGED <<names, environment, arrived, open, objs, lock>>
Selects == arrived /\ SelectReturns

(* A signal while nothing has come: the call is repeated, the last time by *)
(* way of select.                                                          *)
Interruption ==
  /\ ~arrived
  /\ \/ /\ at = "connect" /\ retry > 0 /\ retry' = retry - 1
        /\ UNCHANGED <<names, at, environment, arrived, open, objs, lock>>
     \/ retry = 0 /\ Goes("connect", "select", open)
     \/ SelectReturns

(* NETC_Get_SSL_ServiceCertIssuerName, which does not look at how the      *)
(* connection was made: it is followed on one that was not verified.       *)
ReadIssuer ==
  /\ (~flag /\ GetNames("connected")) \/ ReadNames
  /\ UNCHANGED <<environment, arrived, open, objs, lock, retry>>

Next ==
  \/ TcpConnect \/ CreateContext \/ AddCACerts \/ NewSsl
  \/ Connected \/ ConnectFails \/ Selects \/ ReadIssuer
  \/ Answer \/ Interruption

Spec == Init /\ [][Next]_vars
-----------------------------------------------------------------------------
Place == {"tcp", "context", "lock oca", "find oca", "lock rca", "find rca", "ssl", "connect",
          "select", "connected", "commonName", "test", "organizationalUnitName", "done",
          "failed", "refused"}

(* The types of the variables. *)
TypeOK ==
  /\ at \in Place /\ failed \in BOOLEAN
  /\ \A i \in DOMAIN buffer : buffer[i] \in Character \cup {0, Junk}
  /\ open \subseteq {"socket", "ctx", "ssl"}
  /\ objs \subseteq Certificate /\ Cardinality(objs) <= 2
  /\ made \in 0..2 /\ held \subseteq 1..made /\ retry \in 0..MaxRetry

(* With verification the list is what it should be when the handshake      *)
(* begins: one certificate for every subject that either file has, of the  *)
(* first file where both have it, so that a peer can be refused for its CA *)
(* only if neither file has that CA or the first has another certificate   *)
(* of the same subject.  The additions that changed the list have released *)
(* their locks, the others have not.                                       *)
ListsBothFiles ==
  at = "connect" /\ flag =>
    /\ peer \in {files["oca"], files["rca"]} /\ peer \notin objs =>
         peer # files["oca"] /\ files["oca"] # NoFile /\ subject(files["oca"]) = subject(peer)
    /\ \A one, other \in objs : subject(one) = subject(other) => one = other
    /\ Cardinality(held) = made - Cardinality(objs)
=============================================================================
