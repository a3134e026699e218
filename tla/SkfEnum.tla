------------------------------ MODULE SkfEnum ------------------------------
(***************************************************************************)
(* The enumeration of gmusbkeytest/main.c: devices, their applications,    *)
(* their containers, and the certificate of every container.               *)
(*                                                                         *)
(* GetDevHandles, GetAppHandles and GetContainerHandles have one shape:    *)
(* ask for the size of the list of names, ask for the list, allocate an    *)
(* array, open every name.  They differ in what they leave behind when     *)
(* something fails, and main differs in what it makes of that.             *)
(*                                                                         *)
(* Devices come and go at any moment; a handle of a device that left works *)
(* no more.  The SKF library is external and each of its calls may fail,   *)
(* with a NULL handle it fails always.                                     *)
(***************************************************************************)
EXTENDS Naturals, Sequences, SequencesExt, FiniteSets

CONSTANTS
  Device,      \* numbers, in the order in which the library lists devices
  MaxApps, MaxContainers,
  Null

(* A handle is the path of what it was opened for: <<device>>,             *)
(* <<device, application>> or <<device, application, container>>.          *)
Path ==
  LET D == {<<d>> : d \in Device}
      A == {<<d, a>> : d \in Device, a \in 1..MaxApps}
      C == {<<d, a, c>> : d \in Device, a \in 1..MaxApps, c \in 1..MaxContainers}
  IN D \cup A \cup C

ASSUME SkfEnumAssumption ==
  /\ Device \subseteq Nat /\ IsFiniteSet(Device)
  /\ MaxApps \in Nat /\ MaxContainers \in Nat
  /\ Null \notin Seq(Path)

(* What is on the devices: the containers of each application of each.     *)
Contents == [Device -> UNION {[1..n -> 0..MaxContainers] : n \in 0..MaxApps}]

Level == 1..3   \* devices, applications, containers

VARIABLES
  tree,        \* of each device: the number of containers of each application
  plugged, alive,   \* devices that are there; connected and never gone since
  api,         \* GetSKFAPI has loaded the library
  main,        \* where the program is
  level,       \* the level that is enumerated or walked
  room, names, \* names counted by the first call, names given by the second
  list, count, \* main's arrays (Null: no array) and their sizes
  index,       \* elements of each array that main has dealt with
  reported,    \* containers whose certificate was read, in order
  failed       \* history: what could not be enumerated or read

devices == <<tree, plugged>>
call == <<level, room, names>>
arrays == <<list, count, index>>
vars == <<devices, alive, api, main, call, arrays, reported, failed>>

Calling == {"load", "size", "names", "open"}
Testing == {"KeyPairTest", "ImportSM2KeyPair_Test", "ImportSessionKey_Test", "close"}

(* A local that main does not initialise: zero or something else. *)
Garbage == {0, 1}

(* What is being enumerated: the system, a device, or an application. *)
Parent == IF level = 1 THEN <<>> ELSE list[level - 1][index[level - 1]]

Reachable(p) == p # <<>> => p[1] \in alive

(* The devices in the order in which the library lists them.              *)
Listing ==
  CHOOSE s \in [1..Cardinality(plugged) -> plugged] : \A i, j \in DOMAIN s : i < j => s[i] < s[j]

Children(p) ==
  CASE p = <<>> -> [i \in DOMAIN Listing |-> <<Listing[i]>>]
    [] Len(p) = 1 -> [a \in DOMAIN tree[p[1]] |-> <<p[1], a>>]
    [] OTHER -> [c \in 1..tree[p[1]][p[2]] |-> <<p[1], p[2], c>>]

Init ==
  /\ tree \in Contents
  /\ plugged \in SUBSET Device
  /\ alive = {} /\ api = FALSE
  /\ main = "load" /\ level = 1 /\ room = 0 /\ names = <<>>
  /\ list = [l \in Level |-> Null]
  /\ count \in {[l \in Level |-> IF l = 1 THEN g ELSE 0] : g \in Garbage}
  /\ index = [l \in Level |-> 0]
  /\ reported = <<>> /\ failed = {}

Plug ==
  /\ plugged' \in SUBSET Device \ {plugged}
  /\ alive' = alive \cap plugged'
  /\ UNCHANGED <<tree, api, main, call, arrays, reported, failed>>
-----------------------------------------------------------------------------
(* The enumeration at the current level.  A failure leaves main's count as *)
(* it was, and no array unless the caller was given one already.           *)
Fail(array) ==
  /\ main' = "failed" /\ failed' = failed \cup {Parent}
  /\ list' = [list EXCEPT ![level] = array]
  /\ UNCHANGED <<devices, alive, api, call, count, index, reported>>

(* Without the library NULL is returned, which the caller takes for SAR_OK. *)
GetSKFAPI ==
  /\ main = "load"
  /\ \/ main' = "size" /\ api' = TRUE
     \/ ~api /\ main' = "succeeded" /\ UNCHANGED api
  /\ UNCHANGED <<devices, alive, call, arrays, reported, failed>>

(* The first call, and the buffer.  An empty list is one or two bytes.     *)
EnumSize ==
  /\ main = "size"
  /\ \/ /\ Reachable(Parent)
        /\ main' = "names" /\ room' = Len(Children(Parent))
        /\ UNCHANGED <<devices, alive, api, level, names, arrays, reported, failed>>
     \/ Fail(Null)

(* No array is made for no applications and for no containers.             *)
NoArray(found) == level > 1 /\ found = <<>>

(* The buffer has room in bytes: a later list of other names may fit in it *)
(* whatever their number, but none in the buffer of an empty list.         *)
Fits(found) == room = 0 => found = <<>>

(* The second call, and the array; to have nothing to open is a success.   *)
EnumNames ==
  /\ main = "names"
  /\ \/ /\ Reachable(Parent) /\ Fits(Children(Parent))
        /\ names' = Children(Parent)
        /\ IF NoArray(names')
           THEN main' = "succeeded" /\ UNCHANGED list
           ELSE main' = "open" /\ list' = [list EXCEPT ![level] = <<>>]
        /\ UNCHANGED <<devices, alive, api, level, room, count, index, reported, failed>>
     \/ Fail(Null)

(* A device must be there still, and what is on it can be opened while the *)
(* handle of its parent works.                                             *)
CanOpen(p) == IF level = 1 THEN p[1] \in plugged ELSE Reachable(Parent)

(* SKF_ConnectDev, SKF_OpenApplication or SKF_OpenContainer of one name.   *)
(* GetDevHandles leaves its array to the caller when one cannot be opened. *)
OpenNext ==
  LET p == names[Len(list[level]) + 1]
  IN /\ main = "open" /\ Len(list[level]) < Len(names)
     /\ \/ /\ CanOpen(p)
           /\ list' = [list EXCEPT ![level] = Append(@, p)]
           /\ alive' = alive \cup {p[1]}
           /\ UNCHANGED <<devices, api, main, call, count, index, reported, failed>>
        \/ Fail(IF level = 1 THEN list[level] ELSE Null)

(* Faulty: the size is that of the first call. *)
OpenedFirstSize ==
  /\ main = "open" /\ Len(list[level]) = Len(names)
  /\ main' = "succeeded" /\ count' = [count EXCEPT ![level] = room]
  /\ UNCHANGED <<devices, alive, api, call, list, index, reported, failed>>

Opened ==
  /\ main = "open" /\ Len(list[level]) = Len(names)
  /\ main' = "succeeded" /\ count' = [count EXCEPT ![level] = Len(names)]
  /\ UNCHANGED <<devices, alive, api, call, list, index, reported, failed>>
-----------------------------------------------------------------------------
(* main *)

(* Faulty: a device whose applications cannot be listed ends the loop. *)
ReturnedBreaks ==
  /\ \/ main = "succeeded" /\ main' = "walk" /\ UNCHANGED level
     \/ main = "failed" /\ level = 1 /\ main' = "end" /\ UNCHANGED level
     \/ main = "failed" /\ level = 2 /\ main' = "KeyPairTest" /\ level' = 1
     \/ main = "failed" /\ level = 3 /\ main' = "walk" /\ UNCHANGED level
  /\ UNCHANGED <<devices, alive, api, room, names, arrays, reported, failed>>

(* Faulty: what becomes of the applications is not looked at either.       *)
ReturnedUnchecked ==
  /\ \/ main = "succeeded" /\ main' = "walk" /\ UNCHANGED level
     \/ main = "failed" /\ level = 1 /\ main' = "end" /\ UNCHANGED level
     \/ main = "failed" /\ level > 1 /\ main' = "walk" /\ UNCHANGED level
  /\ UNCHANGED <<devices, alive, api, room, names, arrays, reported, failed>>

(* What becomes of the containers is not looked at: their count was zero.  *)
Returned ==
  /\ \/ main = "succeeded" /\ main' = "walk" /\ UNCHANGED level
     \/ main = "failed" /\ level = 1 /\ main' = "end" /\ UNCHANGED level
     \/ main = "failed" /\ level = 2 /\ main' = "walk" /\ level' = 1
     \/ main = "failed" /\ level = 3 /\ main' = "walk" /\ UNCHANGED level
  /\ UNCHANGED <<devices, alive, api, room, names, arrays, reported, failed>>

(* The next element of the array that is walked. *)
Walk ==
  /\ main = "walk" /\ index[level] < count[level] /\ list[level] # Null
  /\ IF level = 3
     THEN /\ index' = [index EXCEPT ![3] = @ + 1]
          /\ main' = "certificate" /\ UNCHANGED <<level, list, count>>
     ELSE /\ index' = [index EXCEPT ![level] = @ + 1, ![level + 1] = 0]
          /\ list' = [list EXCEPT ![level + 1] = Null]
          /\ \E g \in IF level = 1 THEN Garbage ELSE {0} :
               count' = [count EXCEPT ![level + 1] = g]
          /\ level' = level + 1 /\ main' = "load"
  /\ UNCHANGED <<devices, alive, api, room, names, reported, failed>>

(* A success without an array leaves count uninitialised. *)
Dereference ==
  /\ main = "walk" /\ index[level] < count[level] /\ list[level] = Null
  /\ main' = "crashed"
  /\ UNCHANGED <<devices, alive, api, call, arrays, reported, failed>>

Leave ==
  /\ main = "walk" /\ index[level] >= count[level]
  /\ IF level = 1 THEN main' = "KeyPairTest" /\ UNCHANGED level
                  ELSE level' = level - 1 /\ UNCHANGED main
  /\ UNCHANGED <<devices, alive, api, room, names, arrays, reported, failed>>

(* GetCertificateToX509 gives the certificate or NULL. *)
Certificate ==
  /\ main = "certificate" /\ main' = "walk"
  /\ LET p == list[3][index[3]]
     IN \/ Reachable(p) /\ reported' = Append(reported, p) /\ UNCHANGED failed
        \/ failed' = failed \cup {p} /\ UNCHANGED reported
  /\ UNCHANGED <<devices, alive, api, call, arrays>>

(* A key test is given the NULL device and application of main: it fails,  *)
(* or passes because the library is not there.                             *)
Test(from, to) ==
  /\ main = from
  /\ \/ ~api /\ main' = to /\ UNCHANGED api
     \/ main' = "end" /\ api' = TRUE
  /\ UNCHANGED <<devices, alive, call, arrays, reported, failed>>

Tests ==
  \/ Test("KeyPairTest", "ImportSM2KeyPair_Test")
  \/ Test("ImportSM2KeyPair_Test", "ImportSessionKey_Test")
  \/ Test("ImportSessionKey_Test", "close")
  \/ Test("close", "end")

Program ==
  \/ GetSKFAPI \/ EnumSize \/ EnumNames \/ OpenNext \/ Opened
  \/ Returned \/ Walk \/ Dereference \/ Leave \/ Certificate \/ Tests

Done == main \in {"end", "crashed"} /\ UNCHANGED vars

Next == Program \/ Plug \/ Done

Spec == Init /\ [][Next]_vars
-----------------------------------------------------------------------------
(* The variables have their types; an array holds handles. *)
TypeOK ==
  /\ tree \in Contents
  /\ alive \subseteq plugged /\ plugged \subseteq Device
  /\ api \in BOOLEAN
  /\ main \in Calling \cup Testing
       \cup {"succeeded", "failed", "walk", "certificate", "end", "crashed"}
  /\ level \in Level /\ room \in Nat /\ names \in Seq(Path)
  /\ list \in [Level -> Seq(Path) \cup {Null}]
  /\ count \in [Level -> Nat] /\ index \in [Level -> Nat]
  /\ reported \in Seq(Path) /\ failed \subseteq Path \cup {<<>>}

(* An array that main walks has a handle for each of the count it was      *)
(* given, in the order of the list and all of the thing it is walking,     *)
(* whatever came and went between the two calls for the list.              *)
ListsAreWhole ==
  main \in {"walk", "certificate"} =>
    \A l \in 1..level : list[l] # Null =>
      /\ Len(list[l]) = count[l]
      /\ \A i \in 1..(count[l] - 1) : list[l][i][l] < list[l][i + 1][l]
      /\ l > 1 => \A i \in 1..count[l] : Front(list[l][i]) = list[l - 1][index[l - 1]]

(* When main has walked everything, a container whose certificate was not  *)
(* reported was refused itself, or the enumeration of its application or   *)
(* device failed: a failure below one device or application takes nothing  *)
(* from the others.                                                        *)
SkippedForAReason ==
  main \in Testing /\ list[1] # Null =>
    \A i \in DOMAIN list[1] :
      LET d == list[1][i][1]
      IN <<d>> \in failed \/ \A a \in DOMAIN tree[d] :
           <<d, a>> \in failed \/ \A c \in 1..tree[d][a] :
             <<d, a, c>> \in failed \cup ToSet(reported)

(* main walks an array that is not there only where a call had nothing to  *)
(* give and said SAR_OK: without the library, or on a device without       *)
(* applications, main.c:237.  No failure and no device that left makes it  *)
(* do so, nor anything below an application.                               *)
CrashesOnlyOnNothing ==
  main = "crashed" => (level = 1 /\ ~api) \/ (level = 2 /\ names = <<>>)
=============================================================================
