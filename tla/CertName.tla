------------------------------ MODULE CertName ------------------------------
(***************************************************************************)
(* How tasslclient.c reads the name of the issuer of the last certificate  *)
(* the peer sent: the last common name of the issuer, and when that gives  *)
(* nothing its last organisational unit.                                   *)
(*                                                                         *)
(* The text of an entry is copied through a small buffer, brought to one   *)
(* byte per character and written to the caller's buffer.  A character is  *)
(* a nonzero number; the byte 0 ends a string.  The two conversions to GBK *)
(* are external and may fail; so may malloc and BIO_new.                   *)
(*                                                                         *)
(* The characters are those of one byte in UTF-8 and in GBK, so that       *)
(* VOS_Utf8toGBK gives back the bytes it gets.  What becomes of the length *)
(* of a text with characters of several bytes is not modelled.             *)
(***************************************************************************)
EXTENDS Naturals, Sequences, SequencesExt

CONSTANTS
  Character, Junk,   \* Junk: what an uninitialised buffer holds
  MaxText, MaxEntries, BufferLength,
  Chunk              \* the size of acbuf, 80

ASSUME CertNameAssumption ==
  /\ Character \subseteq Nat \ {0} /\ Junk \in Nat \ ({0} \cup Character)
  /\ MaxText \in Nat /\ MaxEntries \in Nat
  /\ BufferLength \subseteq Nat \ {0} /\ Chunk \in Nat \ {0}

VARIABLES
  issuer,     \* the entries of the name of the issuer of its last certificate
  cleared,    \* the caller set its buffer to zero
  at,         \* where the program is: what is to be extracted next
  buffer,     \* pcIssuerName
  failed      \* history: an extraction returned -1

names == <<issuer, cleared, buffer, failed>>

Field == {"commonName", "organizationalUnitName"}
Type == {"BMPSTRING", "UTF8STRING", "PRINTABLESTRING"}
Entry == [nid : Field, type : Type, text : BoundedSeq(Character, MaxText)]

(* Before the function is called. *)
NamesInit == issuer = <<>> /\ cleared = FALSE /\ buffer = <<>> /\ failed = FALSE

(* It is called with the chain the peer sent, unless that is empty, and a  *)
(* buffer of some length.                                                  *)
GetNames(from) ==
  /\ at = from
  /\ \/ at' = "done" /\ UNCHANGED names
     \/ /\ at' = "commonName"
        /\ issuer' \in BoundedSeq(Entry, MaxEntries)
        /\ cleared' \in BOOLEAN
        /\ \E n \in BufferLength : buffer' = [i \in 1..n |-> IF cleared' THEN 0 ELSE Junk]
        /\ UNCHANGED failed
-----------------------------------------------------------------------------
(* pASN1Str->data: a BMP string has two bytes for each character, the high *)
(* one first.                                                              *)
Data(entry) ==
  IF entry.type = "BMPSTRING"
  THEN [i \in 1..(2 * Len(entry.text)) |-> IF i % 2 = 1 THEN 0 ELSE entry.text[i \div 2]]
  ELSE entry.text

(* NETC_SSL_X509_ASN1_STRING_print: what the memory BIO gets, in chunks. *)
PrintByte(acc, byte) ==
  IF Len(acc.acbuf) + 1 >= Chunk
  THEN [bio |-> acc.bio \o Append(acc.acbuf, byte), acbuf |-> <<>>]
  ELSE [acc EXCEPT !.acbuf = Append(@, byte)]

StringPrint(data) ==
  LET end == FoldLeft(PrintByte, [bio |-> <<>>, acbuf |-> <<>>], data)
  IN end.bio \o end.acbuf

ChangeEndianOrder(bytes) ==
  [i \in DOMAIN bytes |->
     LET other == IF i % 2 = 1 THEN i + 1 ELSE i - 1
     IN IF other \in DOMAIN bytes THEN bytes[other] ELSE bytes[i]]

(* VOS_Unicode2GBK: little-endian pairs in; only characters of one byte    *)
(* are told apart here.                                                    *)
Unicode2GBK(bytes) == [i \in 1..(Len(bytes) \div 2) |-> bytes[2 * i - 1]]

(* Faulty: no room is kept for the NUL. *)
PutUnterminated(buf, text) ==
  IF Len(buf) < Len(text)
  THEN [i \in DOMAIN buf |-> IF i < Len(buf) THEN 0 ELSE buf[i]]
  ELSE [i \in DOMAIN buf |-> CASE i <= Len(text) -> text[i]
                               [] i = Len(text) + 1 -> 0
                               [] OTHER -> buf[i]]

(* A text that does not fit clears all but the last byte. *)
Put(buf, text) ==
  IF Len(buf) <= Len(text)
  THEN [i \in DOMAIN buf |-> IF i < Len(buf) THEN 0 ELSE buf[i]]
  ELSE [i \in DOMAIN buf |-> CASE i <= Len(text) -> text[i]
                               [] i = Len(text) + 1 -> 0
                               [] OTHER -> buf[i]]

Indices(nid) == {i \in DOMAIN issuer : issuer[i].nid = nid}

(* Faulty: the first entry of the kind. *)
FirstIndex(nid) == CHOOSE i \in Indices(nid) : \A j \in Indices(nid) : i <= j

(* The loop over X509_NAME_get_index_by_NID stops at the last one. *)
LastIndex(nid) == CHOOSE i \in Indices(nid) : \A j \in Indices(nid) : j <= i

(* The buffer after a successful NETC_SSL_X509ExtratTextByNID.  Converted  *)
(* text is put there only when there is some, other text always.           *)
ExtractText(nid, buf) ==
  IF Indices(nid) = {} THEN buf
  ELSE LET entry == issuer[LastIndex(nid)]
           bytes == StringPrint(Data(entry))
           gbk == IF entry.type = "BMPSTRING" THEN Unicode2GBK(ChangeEndianOrder(bytes)) ELSE bytes
       IN IF entry.type # "PRINTABLESTRING" /\ gbk = <<>> THEN buf ELSE Put(buf, gbk)

(* It fails only on an entry that is there, and then leaves the buffer.    *)
Extract(nid) ==
  \/ buffer' = ExtractText(nid, buffer) /\ UNCHANGED failed
  \/ Indices(nid) # {} /\ failed' = TRUE /\ UNCHANGED buffer

CommonName ==
  /\ at = "commonName" /\ at' = "test" /\ Extract("commonName")
  /\ UNCHANGED <<issuer, cleared>>

(* if (0 != strlen(pcIssuerName)), whatever the extraction returned *)
TestEmpty ==
  /\ at = "test" /\ at' = IF buffer[1] = 0 THEN "organizationalUnitName" ELSE "done"
  /\ UNCHANGED <<issuer, cleared, buffer, failed>>

OrganizationalUnit ==
  /\ at = "organizationalUnitName" /\ at' = "done" /\ Extract("organizationalUnitName")
  /\ UNCHANGED <<issuer, cleared>>

ReadNames == CommonName \/ TestEmpty \/ OrganizationalUnit
-----------------------------------------------------------------------------
(* The string in the buffer: the bytes before the first NUL. *)
Text == LET before == {n \in 0..Len(buffer) : \A i \in 1..n : buffer[i] # 0}
            n == CHOOSE n \in before : \A m \in before : m <= n
        IN SubSeq(buffer, 1, n)

(* Where the last entry of a kind is, if there is one. *)
LastOf(nid) ==
  {i \in DOMAIN issuer : issuer[i].nid = nid /\ \A j \in DOMAIN issuer : j > i => issuer[j].nid # nid}

(* Its text, if it fits with its NUL. *)
Fitting(nid) == {text \in {issuer[i].text : i \in LastOf(nid)} : Len(text) < Len(buffer)}
Stored(nid) == IF Fitting(nid) = {} THEN <<>> ELSE CHOOSE text \in Fitting(nid) : TRUE

(* The extraction of the common name leaves the buffer as the caller gave  *)
(* it: there is none, or none to convert, or it is too long to leave a     *)
(* byte to clear.                                                          *)
Untouched ==
  \A i \in LastOf("commonName") :
    \/ issuer[i].type # "PRINTABLESTRING" /\ issuer[i].text = <<>>
    \/ issuer[i].text # <<>> /\ Len(buffer) = 1

(* The reader of a certificate gets the last common name if there is one   *)
(* that fits, otherwise the last organisational unit if that fits, of any  *)
(* of the three types of string with characters of one byte, and in any    *)
(* length around that of the buffer and of the copying chunk, and nothing  *)
(* else.  A buffer nobody cleared makes a difference only where the first  *)
(* extraction wrote nothing into it: then what it held is taken for the    *)
(* name, and the unit is not looked at.                                    *)
IssuerIsTheLastName ==
  at = "done" /\ buffer # <<>> /\ ~failed =>
    IF ~cleared /\ Untouched THEN \A i \in DOMAIN buffer : buffer[i] = Junk
    ELSE Text = IF Stored("commonName") # <<>> THEN Stored("commonName")
                ELSE Stored("organizationalUnitName")

(* Nothing is written past the buffer, and the string in a cleared one is  *)
(* always terminated, after failures as well, and so are names of which    *)
(* the second was written over the first.                                  *)
Terminated ==
  buffer # <<>> =>
    /\ Len(buffer) \in BufferLength
    /\ cleared => \E i \in DOMAIN buffer : buffer[i] = 0
=============================================================================
