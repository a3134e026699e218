--------------------------- MODULE SkfEnumProofs ----------------------------
(***************************************************************************)
(* Proofs about SkfEnum, for any number of devices, applications and       *)
(* containers: what main walks are whole lists, and what it passes over    *)
(* was refused.                                                            *)
(***************************************************************************)
EXTENDS SkfEnum, FiniteSetTheorems, SequenceTheorems, WellFoundedInduction, TLAPS

(* A step of the program that begins at the devices is at a path of it.    *)
At(l) == IF l = 1 THEN <<>> ELSE list[l - 1][index[l - 1]]

(* Handles of devices, in the order of their numbers.                      *)
Ascending(s) ==
  /\ \A i \in 1..Len(s) : \E d \in Device : s[i] = <<d>>
  /\ \A i, j \in 1..Len(s) : i < j => s[i][1] < s[j][1]

(* What a level may list: some devices, or all that is below a path.       *)
ListsLevel(s, l) == IF l = 1 THEN Ascending(s) ELSE s = Children(At(l))

(* A finished array of a level.                                            *)
Complete(l) == list[l] # Null => Len(list[l]) = count[l] /\ ListsLevel(list[l], l)

(* The levels above the current one are walked, each at one of its         *)
(* elements.                                                               *)
Above ==
  \A l \in 1..level - 1 :
    list[l] # Null /\ index[l] \in 1..count[l] /\ Complete(l)

(* While names are opened the array is the part of them that was.          *)
Opening ==
  main = "open" =>
    /\ list[level] # Null /\ ListsLevel(names, level)
    /\ Len(list[level]) <= Len(names)
    /\ \A i \in 1..Len(list[level]) : list[level][i] = names[i]

(* Where there is no array and why.                                        *)
Absent ==
  /\ main \in {"load", "size", "names"} => list[level] = Null
  /\ main = "failed" => Parent \in failed /\ (level > 1 => list[level] = Null)
  /\ level > 1 \/ list[1] # Null \/ main \in {"size", "names", "open", "failed"} => api
  /\ level = 3 /\ (list[3] = Null \/ main \in Calling) => count[3] = 0
  /\ main \in Calling \cup {"succeeded", "failed"} => index[level] = 0
  /\ main \in {"succeeded", "walk", "crashed"} /\ list[level] = Null =>
       \/ level = 1 /\ ~api
       \/ level = 2 /\ names = <<>> /\ Children(Parent) = <<>>
       \/ level = 3 /\ (Parent \in failed \/ Children(Parent) = <<>>)

Current ==
  /\ main \in {"succeeded", "walk", "certificate"} => Complete(level)
  /\ main = "certificate" => level = 3 /\ list[3] # Null /\ index[3] \in 1..count[3]
  /\ main \in Testing \cup {"end"} => level = 1
  /\ main = "crashed" => list[level] = Null /\ level # 3

Lists == TypeOK /\ Above /\ Opening /\ Absent /\ Current
-----------------------------------------------------------------------------
(* What was dealt with below a device and below an application.            *)
Read(p) == p \in failed \cup ToSet(reported)
AppDone(d, a) == <<d, a>> \in failed \/ \A c \in 1..tree[d][a] : Read(<<d, a, c>>)
DeviceDone(d) == <<d>> \in failed \/ \A a \in DOMAIN tree[d] : AppDone(d, a)

(* Elements of a level that are behind main: the one it stands on as well, *)
(* when it has come back from it.                                          *)
Behind(l) ==
  IF l = level /\ main # "certificate" THEN 1..index[l] ELSE 1..index[l] - 1

DevicesDealt ==
  list[1] # Null => \A i \in Behind(1) \cap DOMAIN list[1] : DeviceDone(list[1][i][1])
AppsDealt == level > 1 => \A a \in Behind(2) : AppDone(At(2)[1], a)
ContainersDealt == level > 2 => \A c \in Behind(3) : Read(<<At(3)[1], At(3)[2], c>>)

Dealt ==
  main \notin Testing \cup {"end", "crashed"} =>
    DevicesDealt /\ AppsDealt /\ ContainersDealt

EnumInv == Lists /\ Dealt /\ SkippedForAReason
-----------------------------------------------------------------------------
(* A set of numbers that is not empty has a least element; induction is    *)
(* the search for a least counterexample.                                  *)
LEMMA Least ==
  ASSUME NEW T \in SUBSET Nat, T # {}
  PROVE  \E m \in T : \A n \in T : m <= n
<1> DEFINE R == OpToRel(<, Nat)
<1>1. R = {ss \in Nat \X Nat : ss[1] < ss[2]}
  BY DEF OpToRel
<1>2. IsWellFoundedOn(R, Nat)
  BY NatLessThanWellFounded
<1> HIDE DEF R
<1>3. PICK x \in T : \A y \in T : ~(<<y, x>> \in R)
  BY <1>2, WFMin
<1>4. ASSUME NEW y \in T PROVE x <= y
  <2>1. y < x => <<y, x>> \in R
    BY <1>1
  <2> QED BY <2>1, <1>3
<1> QED BY <1>3, <1>4

LEMMA RemoveOne ==
  ASSUME NEW S, IsFiniteSet(S), NEW x \in S
  PROVE  Cardinality(S) \in Nat \ {0} /\ Cardinality(S \ {x}) = Cardinality(S) - 1
BY FS_CardinalityType, FS_EmptySet, FS_RemoveElement

Sorted(s) == \A i, j \in DOMAIN s : i < j => s[i] < s[j]
Sortable(S) == \E s \in [1..Cardinality(S) -> S] : Sorted(s)

(* What remains of a finite set of numbers when its largest is taken away  *)
(* is smaller, and the largest comes last.                                 *)
LEMMA SortableStep ==
  ASSUME NEW S \in SUBSET Nat, IsFiniteSet(S), NEW m \in S, \A n \in S : n <= m,
         Sortable(S \ {m})
  PROVE  Sortable(S)
<1> DEFINE n == Cardinality(S)
<1>1. n \in Nat /\ n # 0 /\ Cardinality(S \ {m}) = n - 1
  BY RemoveOne
<1>2. PICK s \in [1..n - 1 -> S \ {m}] : Sorted(s)
  BY <1>1 DEF Sortable
<1> DEFINE t == [i \in 1..n |-> IF i = n THEN m ELSE s[i]]
<1> HIDE DEF n
<1>3. \A i \in 1..n : i # n => i \in 1..n - 1
  BY <1>1
<1>4. t \in [1..n -> S]
  BY <1>1, <1>2, <1>3
<1>5. Sorted(t)
  <2> SUFFICES ASSUME NEW i \in 1..n, NEW j \in 1..n, i < j PROVE t[i] < t[j]
    BY DEF Sorted
  <2>1. i \in 1..n - 1 /\ t[i] = s[i] /\ s[i] \in S \ {m}
    BY <1>1, <1>2
  <2>2. CASE j = n
    <3>1. t[j] = m
      BY <2>2
    <3>2. s[i] <= m /\ s[i] # m /\ s[i] \in Nat /\ m \in Nat
      BY <2>1
    <3> HIDE DEF t
    <3> QED BY <2>1, <3>1, <3>2
  <2>3. CASE j # n
    BY <2>1, <2>3, <1>2, <1>3 DEF Sorted
  <2> QED BY <2>2, <2>3
<1> QED BY <1>4, <1>5 DEF n, Sortable

(* A finite set of numbers has a largest one.                              *)
LEMMA Largest ==
  ASSUME NEW S \in SUBSET Nat, IsFiniteSet(S), S # {}
  PROVE  \E m \in S : \A n \in S : n <= m
<1> DEFINE Sizes == {c \in Nat : \E T \in SUBSET S :
                       T # {} /\ Cardinality(T) = c /\ ~\E m \in T : \A n \in T : n <= m}
<1> SUFFICES Sizes = {}
  BY FS_CardinalityType
<1> SUFFICES ASSUME Sizes # {} PROVE FALSE
  OBVIOUS
<1>1. PICK c \in Sizes : \A d \in Sizes : c <= d
  BY Least
<1>2. PICK T \in SUBSET S :
        T # {} /\ Cardinality(T) = c /\ ~\E m \in T : \A n \in T : n <= m
  OBVIOUS
<1>3. PICK x \in T : TRUE
  BY <1>2
<1>4. Cardinality(T \ {x}) = c - 1 /\ c - 1 \in Nat /\ IsFiniteSet(T)
  <2>1. IsFiniteSet(T)
    BY FS_Subset
  <2>2. Cardinality(T) \in Nat \ {0} /\ Cardinality(T \ {x}) = Cardinality(T) - 1
    BY <2>1, <1>3, RemoveOne
  <2> QED BY <2>1, <2>2, <1>2
<1>5. c - 1 \notin Sizes
  BY <1>1, <1>4
<1>6. T \ {x} = {} \/ \E m \in T \ {x} : \A n \in T \ {x} : n <= m
  BY <1>4, <1>5
<1>7. CASE T \ {x} = {}
  BY <1>7, <1>2
<1>8. CASE \E m \in T \ {x} : \A n \in T \ {x} : n <= m
  <2>1. PICK m \in T \ {x} : \A n \in T \ {x} : n <= m
    BY <1>8
  <2>2. CASE x <= m
    BY <2>1, <2>2, <1>2
  <2>3. CASE m < x
    BY <2>1, <2>3, <1>2
  <2> QED BY <2>2, <2>3
<1> QED BY <1>6, <1>7, <1>8

(* Every finite set of numbers can be listed in order.                     *)
LEMMA SortedListing ==
  ASSUME NEW S \in SUBSET Nat, IsFiniteSet(S)
  PROVE  Sortable(S)
<1> DEFINE Sizes == {c \in Nat : \E T \in SUBSET S : Cardinality(T) = c /\ ~Sortable(T)}
<1> SUFFICES Sizes = {}
  BY FS_CardinalityType
<1> SUFFICES ASSUME Sizes # {} PROVE FALSE
  OBVIOUS
<1>1. PICK c \in Sizes : \A d \in Sizes : c <= d
  BY Least
<1>2. PICK T \in SUBSET S : Cardinality(T) = c /\ ~Sortable(T)
  OBVIOUS
<1>3. IsFiniteSet(T)
  BY FS_Subset
<1>4. T # {}
  <2>1. Sortable({})
    <3>1. <<>> \in [1..0 -> {}] /\ Sorted(<<>>)
      BY DEF Sorted
    <3> QED BY <3>1, FS_EmptySet DEF Sortable
  <2> QED BY <2>1, <1>2
<1>5. PICK m \in T : \A n \in T : n <= m
  BY <1>3, <1>4, Largest
<1>6. Cardinality(T \ {m}) = c - 1 /\ c - 1 \in Nat
  <2>1. Cardinality(T) \in Nat \ {0} /\ Cardinality(T \ {m}) = Cardinality(T) - 1
    BY <1>3, RemoveOne
  <2> QED BY <2>1, <1>2
<1>7. Sortable(T \ {m})
  BY <1>1, <1>6
<1> QED BY <1>2, <1>3, <1>5, <1>7, SortableStep
-----------------------------------------------------------------------------
(* The list of the devices, and what is below a path of the tree.          *)
LEMMA DevicePath == ASSUME NEW d \in Device PROVE <<d>> \in Path
BY DEF Path

LEMMA ListingAscends ==
  ASSUME plugged \subseteq Device
  PROVE  Children(<<>>) \in Seq(Path) /\ Ascending(Children(<<>>))
<1>1. plugged \in SUBSET Nat /\ IsFiniteSet(plugged) /\ Cardinality(plugged) \in Nat
  BY SkfEnumAssumption, FS_Subset, FS_CardinalityType
<1> DEFINE n == Cardinality(plugged)
<1>2. Listing \in [1..n -> plugged] /\ \A i, j \in 1..n : i < j => Listing[i] < Listing[j]
  <2>1. \E s \in [1..n -> plugged] : \A i, j \in DOMAIN s : i < j => s[i] < s[j]
    BY <1>1, SortedListing DEF Sortable, Sorted
  <2>2. /\ Listing \in [1..n -> plugged]
        /\ \A i, j \in DOMAIN Listing : i < j => Listing[i] < Listing[j]
    BY <2>1 DEF Listing
  <2> QED BY <2>2
<1> HIDE DEF n
<1>3. Children(<<>>) = [i \in 1..n |-> <<Listing[i]>>]
  BY <1>2 DEF Children
<1>4. \A i \in 1..n : Listing[i] \in Device
  BY <1>2
<1>5. Children(<<>>) \in Seq(Path) /\ Len(Children(<<>>)) = n
  <2>1. [i \in 1..n |-> <<Listing[i]>>] \in [1..n -> Path]
    BY <1>4, DevicePath
  <2>2. n \in Nat
    BY <1>1 DEF n
  <2> QED BY <1>3, <2>1, <2>2
<1> QED BY <1>2, <1>3, <1>4, <1>5 DEF Ascending

LEMMA TreeType ==
  ASSUME tree \in Contents, NEW d \in Device
  PROVE  \E n \in 0..MaxApps : tree[d] \in [1..n -> 0..MaxContainers]
<1>1. tree[d] \in UNION {[1..n -> 0..MaxContainers] : n \in 0..MaxApps}
  BY DEF Contents
<1> QED BY <1>1

(* The children of a device are its applications, in order.                *)
LEMMA Applications ==
  ASSUME tree \in Contents, NEW d \in Device
  PROVE  /\ Children(<<d>>) \in Seq(Path)
         /\ Len(Children(<<d>>)) = Len(tree[d]) /\ DOMAIN tree[d] = 1..Len(tree[d])
         /\ Len(tree[d]) \in 0..MaxApps
         /\ \A a \in 1..Len(tree[d]) : Children(<<d>>)[a] = <<d, a>>
<1>1. PICK n \in 0..MaxApps : tree[d] \in [1..n -> 0..MaxContainers]
  BY TreeType
<1>2. n \in Nat /\ Len(tree[d]) = n /\ DOMAIN tree[d] = 1..n
  BY <1>1, SkfEnumAssumption
<1>3. Children(<<d>>) = [a \in 1..n |-> <<d, a>>]
  <2>1. <<d>> # <<>> /\ Len(<<d>>) = 1 /\ <<d>>[1] = d
    OBVIOUS
  <2>2. Children(<<d>>) = [a \in DOMAIN tree[d] |-> <<d, a>>]
    BY <2>1 DEF Children
  <2> QED BY <1>2, <2>2
<1>4. \A a \in 1..n : <<d, a>> \in Path
  <2> TAKE a \in 1..n
  <2>1. a \in 1..MaxApps
    BY <1>1, SkfEnumAssumption
  <2> QED BY <2>1 DEF Path
<1>5. [a \in 1..n |-> <<d, a>>] \in [1..n -> Path]
  BY <1>4
<1>6. Children(<<d>>) \in Seq(Path) /\ Len(Children(<<d>>)) = n
  BY <1>2, <1>3, <1>5
<1>7. \A a \in 1..n : Children(<<d>>)[a] = <<d, a>>
  BY <1>3
<1> QED BY <1>1, <1>2, <1>6, <1>7

(* The children of an application are its containers, in order.            *)
LEMMA Containers ==
  ASSUME tree \in Contents, NEW d \in Device, NEW a \in DOMAIN tree[d]
  PROVE  /\ Children(<<d, a>>) \in Seq(Path)
         /\ Len(Children(<<d, a>>)) = tree[d][a] /\ tree[d][a] \in Nat
         /\ \A c \in 1..tree[d][a] : Children(<<d, a>>)[c] = <<d, a, c>>
<1>1. PICK m \in 0..MaxApps : tree[d] \in [1..m -> 0..MaxContainers]
  BY TreeType
<1> DEFINE n == tree[d][a]
<1>2. n \in 0..MaxContainers /\ n \in Nat /\ a \in 1..MaxApps
  BY <1>1, SkfEnumAssumption
<1>3. Children(<<d, a>>) = [c \in 1..n |-> <<d, a, c>>]
  <2>1. <<d, a>> # <<>> /\ Len(<<d, a>>) = 2 /\ <<d, a>>[1] = d /\ <<d, a>>[2] = a
    OBVIOUS
  <2> QED BY <2>1 DEF Children
<1> HIDE DEF n
<1>4. \A c \in 1..n : <<d, a, c>> \in Path
  <2> TAKE c \in 1..n
  <2>1. c \in 1..MaxContainers
    BY <1>2, SkfEnumAssumption
  <2> QED BY <1>2, <2>1 DEF Path
<1>5. [c \in 1..n |-> <<d, a, c>>] \in [1..n -> Path]
  BY <1>4
<1>6. Children(<<d, a>>) \in Seq(Path) /\ Len(Children(<<d, a>>)) = n
  BY <1>2, <1>3, <1>5
<1>7. \A c \in 1..n : Children(<<d, a>>)[c] = <<d, a, c>>
  BY <1>3
<1> QED BY <1>2, <1>6, <1>7 DEF n
-----------------------------------------------------------------------------
(* What is enumerated: the system, a device, an application of it.         *)
LEMMA Standing ==
  ASSUME Lists
  PROVE  /\ At(1) = <<>> /\ Parent = At(level)
         /\ level > 1 => \E d \in Device : At(2) = <<d>> /\ At(2) = list[1][index[1]]
         /\ level > 2 => At(2)[1] \in Device /\ index[2] \in DOMAIN tree[At(2)[1]]
                           /\ At(3) = <<At(2)[1], index[2]>>
<1>1. level \in 1..3 /\ At(1) = <<>> /\ Parent = At(level)
  BY DEF Lists, TypeOK, Level, At, Parent
<1>2. ASSUME level > 1 PROVE \E d \in Device : At(2) = <<d>> /\ At(2) = list[1][index[1]]
  <2>1. 1 \in 1..level - 1
    BY <1>1, <1>2
  <2>2. index[1] \in 1..Len(list[1]) /\ Ascending(list[1])
    BY <2>1 DEF Lists, Above, Complete, ListsLevel
  <2>3. At(2) = list[1][index[1]]
    BY DEF At
  <2> QED BY <2>2, <2>3 DEF Ascending
<1>3. ASSUME level > 2
      PROVE  At(2)[1] \in Device /\ index[2] \in DOMAIN tree[At(2)[1]]
               /\ At(3) = <<At(2)[1], index[2]>>
  <2>1. 2 \in 1..level - 1 /\ level > 1
    BY <1>1, <1>3
  <2>2. PICK d \in Device : At(2) = <<d>>
    BY <1>2, <2>1
  <2>3. At(2)[1] = d
    BY <2>2
  <2>4. index[2] \in 1..Len(list[2]) /\ list[2] = Children(At(2))
    BY <2>1 DEF Lists, Above, Complete, ListsLevel
  <2>5. At(3) = list[2][index[2]]
    BY DEF At
  <2>6. tree \in Contents
    BY DEF Lists, TypeOK
  <2>7. /\ DOMAIN tree[d] = 1..Len(tree[d]) /\ Len(list[2]) = Len(tree[d])
        /\ \A a \in 1..Len(tree[d]) : list[2][a] = <<d, a>>
    BY <2>2, <2>4, <2>6, Applications
  <2> QED BY <2>3, <2>4, <2>5, <2>7
<1> QED BY <1>1, <1>2, <1>3

(* What the second call of an enumeration gives.                           *)
LEMMA ChildrenList ==
  ASSUME Lists
  PROVE  /\ Children(Parent) \in Seq(Path) /\ ListsLevel(Children(Parent), level)
         /\ level > 1 => Parent \in Path /\ Parent # <<>>
<1>1. level \in 1..3 /\ tree \in Contents /\ plugged \subseteq Device
  BY DEF Lists, TypeOK, Level
<1>2. CASE level = 1
  BY <1>1, <1>2, Standing, ListingAscends DEF ListsLevel
<1>3. CASE level = 2
  BY <1>1, <1>3, Standing, Applications, DevicePath DEF ListsLevel
<1>4. CASE level = 3
  <2> DEFINE d == At(2)[1]
             a == index[2]
  <2>1. d \in Device /\ a \in DOMAIN tree[d] /\ Parent = <<d, a>>
    BY <1>4, Standing
  <2> HIDE DEF d, a
  <2>2. <<d, a>> \in Path /\ <<d, a>> # <<>>
    <3>1. /\ DOMAIN tree[d] = 1..Len(tree[d]) /\ Len(tree[d]) \in 0..MaxApps
      BY <1>1, <2>1, Applications
    <3>2. a \in 1..MaxApps
      BY <2>1, <3>1, SkfEnumAssumption
    <3> QED BY <2>1, <3>2 DEF Path
  <2>3. Children(<<d, a>>) \in Seq(Path)
    BY <1>1, <2>1, Containers
  <2> QED BY <1>4, <2>1, <2>2, <2>3, Standing DEF ListsLevel
<1> QED BY <1>1, <1>2, <1>3, <1>4
-----------------------------------------------------------------------------
(* What is below a path is where it was as long as the tree is.            *)
LEMMA SameChildren ==
  ASSUME UNCHANGED tree, NEW p, p # <<>>
  PROVE  Children(p)' = Children(p)
BY DEF Children

LEMMA CompleteStays ==
  ASSUME UNCHANGED tree, NEW l \in Level, l > 1 => At(l) # <<>>, At(l)' = At(l),
         list'[l] = list[l], count'[l] = count[l], Complete(l)
  PROVE  Complete(l)'
<1>1. ListsLevel(list[l], l) => ListsLevel(list[l], l)'
  <2>1. CASE l = 1
    BY <2>1 DEF ListsLevel
  <2>2. CASE l # 1
    <3>1. l > 1
      BY <2>2 DEF Level
    <3>2. Children(At(l))' = Children(At(l))
      BY <3>1, SameChildren DEF Children
    <3> QED BY <2>2, <3>2 DEF ListsLevel
  <2> QED BY <2>1, <2>2
<1> QED BY <1>1 DEF Complete

(* A step that leaves the levels above the one it is at as they are.       *)
LEMMA Frame ==
  ASSUME Lists, UNCHANGED tree, NEW k \in 1..level, level' = k,
         \A l \in 1..k - 1 :
           list'[l] = list[l] /\ index'[l] = index[l] /\ count'[l] = count[l]
  PROVE  /\ Above' /\ Parent' = At(k) /\ \A l \in 1..k : At(l)' = At(l)
         /\ \A l \in 1..k : l > 1 => At(l) # <<>>
<1>1. level \in 1..3 /\ k \in 1..3 /\ k <= level
  BY DEF Lists, TypeOK, Level
<1>2. ASSUME NEW l \in 1..k PROVE At(l)' = At(l)
  <2>1. CASE l = 1
    BY <2>1 DEF At
  <2>2. CASE l # 1
    <3>1. l - 1 \in 1..k - 1
      BY <1>1, <2>2
    <3>2. list'[l - 1] = list[l - 1] /\ index'[l - 1] = index[l - 1]
      BY <3>1
    <3> QED BY <2>2, <3>2 DEF At
  <2> QED BY <2>1, <2>2
<1>3. \A l \in 1..k : l > 1 => At(l) # <<>>
  BY <1>1, Standing
<1>4. Above'
  <2>1. ASSUME NEW l \in 1..k - 1
        PROVE  list'[l] # Null /\ index'[l] \in 1..count'[l] /\ Complete(l)'
    <3>1. l \in 1..level - 1 /\ l \in 1..k /\ l \in Level
      BY <1>1 DEF Level
    <3>2. list[l] # Null /\ index[l] \in 1..count[l] /\ Complete(l)
      BY <3>1 DEF Lists, Above
    <3> QED BY <3>1, <3>2, <1>2, <1>3, CompleteStays
  <2> QED BY <2>1 DEF Above
<1>5. Parent' = At(k)'
  BY <1>1 DEF Parent, At
<1> QED BY <1>1, <1>2, <1>3, <1>4, <1>5
-----------------------------------------------------------------------------
(* The arrays: one step of the program, action by action.                  *)
LEMMA InitLists == Init => Lists
<1> SUFFICES ASSUME Init PROVE Lists
  OBVIOUS
<1>1. TypeOK
  <2>1. list \in [Level -> Seq(Path) \cup {Null}] /\ index \in [Level -> Nat]
    BY DEF Init
  <2>2. count \in [Level -> Nat]
    BY DEF Init, Garbage
  <2>3. names \in Seq(Path) /\ reported \in Seq(Path) /\ failed \subseteq Path \cup {<<>>}
    BY DEF Init
  <2>4. level = 1 /\ room = 0 /\ api = FALSE /\ main = "load"
    BY DEF Init
  <2>5. tree \in Contents /\ alive \subseteq plugged /\ plugged \subseteq Device
    BY DEF Init
  <2>6. level \in Level /\ room \in Nat
    BY <2>4 DEF Level
  <2>8. api \in BOOLEAN
    BY <2>4
  <2>7. main \in Calling
    BY <2>4 DEF Calling
  <2> QED BY <2>1, <2>2, <2>3, <2>5, <2>6, <2>7, <2>8 DEF TypeOK
<1>2. list[1] = Null /\ index[1] = 0 /\ level = 1 /\ main = "load" /\ ~api
  BY DEF Init, Level
<1>3. Above /\ Opening /\ Current
  BY <1>2 DEF Above, Opening, Current, Testing
<1>4. Absent
  BY <1>2 DEF Absent, Calling
<1> QED BY <1>1, <1>3, <1>4 DEF Lists

(* A step that changes neither arrays nor level nor names.                 *)
LEMMA SameArrays ==
  ASSUME Lists, UNCHANGED <<tree, call, arrays>>
  PROVE  /\ Above' /\ Parent' = Parent
         /\ ListsLevel(names, level) => ListsLevel(names, level)'
         /\ Complete(level) => Complete(level)'
         /\ level > 1 => Children(Parent)' = Children(Parent)
<1>1. level \in 1..level /\ level \in Level
  BY DEF Lists, TypeOK, Level
<1>2. /\ Above' /\ Parent' = At(level) /\ At(level)' = At(level) /\ Parent = At(level)
      /\ level > 1 => At(level) # <<>>
  BY <1>1, Frame, Standing DEF call, arrays
<1>3. Complete(level) => Complete(level)'
  BY <1>1, <1>2, CompleteStays DEF call, arrays, Complete
<1>4. level > 1 => Children(At(level))' = Children(At(level))
  BY <1>2, SameChildren DEF Children
<1>5. ListsLevel(names, level) => ListsLevel(names, level)'
  BY <1>1, <1>4 DEF ListsLevel, call, Level
<1>6. level > 1 => Children(Parent)' = Children(Parent)
  BY <1>2, SameChildren DEF Children
<1> QED BY <1>2, <1>3, <1>5, <1>6

LEMMA PlugLists ==
  ASSUME Lists, Plug
  PROVE  Lists'
<1>1. /\ Above' /\ Parent' = Parent
      /\ ListsLevel(names, level) => ListsLevel(names, level)'
      /\ Complete(level) => Complete(level)'
      /\ level > 1 => Children(Parent)' = Children(Parent)
  BY SameArrays DEF Plug
<1>2. TypeOK'
  BY DEF Lists, TypeOK, Plug, call, arrays
<1>3. Opening'
  BY <1>1 DEF Lists, Opening, Plug, call, arrays
<1>4. Absent'
  BY <1>1 DEF Lists, Absent, Plug, call, arrays
<1>5. Current'
  BY <1>1 DEF Lists, Current, Plug, call, arrays
<1> QED BY <1>1, <1>2, <1>3, <1>4, <1>5 DEF Lists

LEMMA NotNull == ASSUME NEW s \in Seq(Path) PROVE s # Null
BY SkfEnumAssumption

(* The array of a level is set.                                            *)
LEMMA SetArray ==
  ASSUME Lists, NEW array \in Seq(Path) \cup {Null}, list' = [list EXCEPT ![level] = array]
  PROVE  /\ list' \in [Level -> Seq(Path) \cup {Null}] /\ list'[level] = array
         /\ \A l \in 1..level - 1 : list'[l] = list[l]
<1>1. level \in Level /\ list \in [Level -> Seq(Path) \cup {Null}]
  BY DEF Lists, TypeOK
<1>2. level \in 1..3 /\ \A l \in 1..level - 1 : l \in Level /\ l # level
  BY <1>1 DEF Level
<1> QED BY <1>1, <1>2

(* A call that fails: the arrays of the applications and the containers    *)
(* are gone, the one of the devices is what the caller had.                *)
LEMMA FailLists ==
  ASSUME Lists, NEW array \in Seq(Path) \cup {Null}, Fail(array),
         main \in {"size", "names", "open"}, level > 1 => array = Null
  PROVE  Lists'
<1>1. level \in Level /\ level \in 1..level /\ list \in [Level -> Seq(Path) \cup {Null}]
  BY DEF Lists, TypeOK, Level
<1>2. /\ list' = [list EXCEPT ![level] = array] /\ level' = level
      /\ \A l \in 1..level - 1 : list'[l] = list[l]
  BY <1>1 DEF Fail, call, Level
<1>3. Above' /\ Parent' = Parent
  BY <1>1, <1>2, Frame, Standing DEF Fail, devices, call, arrays
<1>4. Parent \in Path \cup {<<>>}
  BY <1>1, ChildrenList, Standing DEF Level
<1>5. TypeOK'
  BY <1>1, <1>2, <1>4 DEF Lists, TypeOK, Fail, devices, call, arrays
<1>6. Opening' /\ Current'
  BY DEF Opening, Current, Fail, Testing
<1>7. Absent'
  BY <1>1, <1>2, <1>3 DEF Lists, Absent, Fail, Calling, call, arrays
<1> QED BY <1>3, <1>5, <1>6, <1>7 DEF Lists

LEMMA GetSKFAPILists ==
  ASSUME Lists, GetSKFAPI
  PROVE  Lists'
<1>1. Above' /\ Parent' = Parent
  BY SameArrays DEF GetSKFAPI, devices
<1>2. level \in Level /\ list[level] = Null
  BY DEF Lists, TypeOK, Absent, GetSKFAPI
<1>3. TypeOK'
  BY DEF Lists, TypeOK, GetSKFAPI, devices, call, arrays, Calling
<1>4. Opening'
  BY DEF Opening, GetSKFAPI
<1>5. Absent'
  BY <1>2 DEF Lists, Absent, GetSKFAPI, call, arrays, Calling, Level
<1>6. Current'
  BY <1>2 DEF Current, Complete, GetSKFAPI, call, arrays, Testing
<1> QED BY <1>1, <1>3, <1>4, <1>5, <1>6 DEF Lists

LEMMA EnumSizeLists ==
  ASSUME Lists, EnumSize
  PROVE  Lists'
<1>1. CASE Fail(Null)
  BY <1>1, FailLists DEF EnumSize
<1>2. CASE /\ main' = "names" /\ room' = Len(Children(Parent))
           /\ UNCHANGED <<devices, alive, api, level, names, arrays, reported, failed>>
  <2>1. level \in 1..level /\ Children(Parent) \in Seq(Path)
    BY ChildrenList DEF Lists, TypeOK, Level
  <2>2. Above'
    BY <1>2, <2>1, Frame DEF devices, arrays
  <2>3. TypeOK'
    BY <1>2, <2>1 DEF Lists, TypeOK, devices, arrays, Calling
  <2>4. Opening' /\ Current'
    BY <1>2 DEF Opening, Current, Testing
  <2>5. Absent'
    BY <1>2 DEF Lists, Absent, EnumSize, Calling, arrays
  <2> QED BY <2>2, <2>3, <2>4, <2>5 DEF Lists
<1> QED BY <1>1, <1>2 DEF EnumSize

LEMMA EnumNamesLists ==
  ASSUME Lists, EnumNames
  PROVE  Lists'
<1>1. CASE Fail(Null)
  BY <1>1, FailLists DEF EnumNames
<1>2. CASE /\ names' = Children(Parent)
           /\ IF NoArray(names')
              THEN main' = "succeeded" /\ UNCHANGED list
              ELSE main' = "open" /\ list' = [list EXCEPT ![level] = <<>>]
           /\ UNCHANGED <<devices, alive, api, level, room, count, index, reported, failed>>
  <2>1. level \in 1..level /\ level \in Level /\ list[level] = Null /\ main = "names" /\ api
    BY DEF Lists, TypeOK, Level, EnumNames, Absent
  <2>2. /\ Children(Parent) \in Seq(Path) /\ ListsLevel(Children(Parent), level)
        /\ Parent = At(level)
        /\ level > 1 => At(level) # <<>>
    BY <2>1, ChildrenList, Standing DEF Level
  <2>3. list' \in [Level -> Seq(Path) \cup {Null}] /\ \A l \in 1..level - 1 : list'[l] = list[l]
    <3>1. CASE NoArray(names')
      BY <1>2, <2>1, <3>1 DEF Lists, TypeOK
    <3>2. CASE ~NoArray(names')
      <4>1. list' = [list EXCEPT ![level] = <<>>] /\ <<>> \in Seq(Path)
        BY <1>2, <3>2
      <4> QED BY <4>1, SetArray
    <3> QED BY <3>1, <3>2
  <2>4. Above' /\ At(level)' = At(level) /\ Parent' = At(level)
    BY <1>2, <2>1, <2>3, Frame DEF devices
  <2>5. TypeOK'
    BY <1>2, <2>2, <2>3 DEF Lists, TypeOK, devices, Calling
  <2>9. UNCHANGED tree
    BY <1>2 DEF devices
  <2>10. At(level)' = At(level)
    BY <2>4
  <2>6. level > 1 => Children(At(level))' = Children(At(level))
    BY <2>2, <2>9, <2>10, SameChildren DEF Children
  <2>7. CASE NoArray(names')
    <3>1. main' = "succeeded" /\ list'[level] = Null /\ level > 1 /\ names' = <<>>
      BY <1>2, <2>1, <2>7 DEF NoArray
    <3>2. Opening' /\ Current'
      BY <1>2, <3>1 DEF Opening, Current, Complete, Testing
    <3>3. Children(Parent)' = <<>>
      <4>1. Parent' = At(level) /\ Parent = At(level)
        BY <2>2, <2>4
      <4>2. Children(Parent)' = Children(Parent)
        BY <2>2, <2>9, <3>1, <4>1, SameChildren DEF Children
      <4> QED BY <1>2, <3>1, <4>2
    <3>4. Absent'
      BY <1>2, <2>1, <3>1, <3>3 DEF Lists, Absent, Calling, Level
    <3> QED BY <2>4, <2>5, <3>2, <3>4 DEF Lists
  <2>8. CASE ~NoArray(names')
    <3>1. main' = "open" /\ list'[level] = <<>> /\ list'[level] # Null
      <4>1. main' = "open" /\ list' = [list EXCEPT ![level] = <<>>] /\ <<>> \in Seq(Path)
        BY <1>2, <2>8
      <4> QED BY <4>1, SetArray, NotNull
    <3>2. Current' /\ Absent'
      BY <1>2, <2>1, <3>1 DEF Lists, Current, Absent, Calling, Testing
    <3>3. ListsLevel(names, level)'
      BY <1>2, <2>1, <2>2, <2>6 DEF ListsLevel, Level
    <3>4. Opening'
      BY <1>2, <3>1, <3>3, <2>2 DEF Opening
    <3> QED BY <2>4, <2>5, <3>2, <3>4 DEF Lists
  <2> QED BY <2>7, <2>8
<1> QED BY <1>1, <1>2 DEF EnumNames

(* What is below a device or an application is on that device.             *)
LEMMA OnTheDevice ==
  ASSUME Lists, level > 1, ListsLevel(names, level), NEW i \in 1..Len(names)
  PROVE  names[i][1] = Parent[1]
<1>1. level \in 1..3 /\ tree \in Contents /\ names = Children(Parent)
  BY Standing DEF Lists, TypeOK, Level, ListsLevel
<1>2. CASE level = 2
  <2>1. PICK d \in Device : Parent = <<d>>
    BY <1>2, Standing
  <2>2. names[i] = <<d, i>>
    BY <1>1, <2>1, Applications
  <2> QED BY <2>1, <2>2
<1>3. CASE level = 3
  <2> DEFINE d == At(2)[1]
             a == index[2]
  <2>1. d \in Device /\ a \in DOMAIN tree[d] /\ Parent = <<d, a>>
    BY <1>3, Standing
  <2> HIDE DEF d, a
  <2>2. names[i] = <<d, a, i>>
    BY <1>1, <2>1, Containers
  <2> QED BY <2>1, <2>2
<1> QED BY <1>1, <1>2, <1>3

LEMMA OpenNextLists ==
  ASSUME Lists, OpenNext
  PROVE  Lists'
<1> DEFINE n == Len(list[level])
           p == names[n + 1]
<1>1. /\ level \in 1..level /\ level \in Level /\ list[level] \in Seq(Path) /\ main = "open"
      /\ names \in Seq(Path) /\ n \in Nat /\ n < Len(names) /\ p \in Path
  BY SMTT(15) DEF Lists, TypeOK, Level, OpenNext, Opening
<1>2. CASE Fail(IF level = 1 THEN list[level] ELSE Null)
  BY <1>1, <1>2, FailLists
<1>3. CASE /\ CanOpen(p)
           /\ list' = [list EXCEPT ![level] = Append(@, p)]
           /\ alive' = alive \cup {p[1]}
           /\ UNCHANGED <<devices, api, main, call, count, index, reported, failed>>
  <2>1. /\ list' \in [Level -> Seq(Path) \cup {Null}]
        /\ list'[level] = Append(list[level], p)
        /\ \A l \in 1..level - 1 : list'[l] = list[l]
    <3>1. list' = [list EXCEPT ![level] = Append(list[level], p)]
      BY <1>1, <1>3 DEF Lists, TypeOK
    <3>2. Append(list[level], p) \in Seq(Path)
      BY <1>1
    <3> QED BY <3>1, <3>2, SetArray
  <2> HIDE DEF p
  <2>2. Above' /\ At(level)' = At(level) /\ (level > 1 => At(level) # <<>>)
    BY <1>1, <1>3, <2>1, Frame DEF devices, call
  <2>3. p[1] \in plugged
    <3>1. CASE level = 1
      BY <1>3, <3>1 DEF CanOpen
    <3>2. CASE level # 1
      <4>1. level > 1 /\ ListsLevel(names, level)
        BY <1>1, <3>2 DEF Lists, Opening, Level
      <4>2. p[1] = Parent[1]
        BY <1>1, <4>1, OnTheDevice DEF p
      <4>3. Parent[1] \in alive
        BY <1>3, <3>2, <4>1, ChildrenList DEF CanOpen, Reachable
      <4> QED BY <4>2, <4>3 DEF Lists, TypeOK
    <3> QED BY <3>1, <3>2
  <2>4. TypeOK'
    BY <1>3, <2>1, <2>3 DEF Lists, TypeOK, devices, call
  <2>5. list'[level] # Null
    <3>1. Append(list[level], p) \in Seq(Path)
      BY <1>1
    <3> QED BY <2>1, <3>1, NotNull
  <2>6. Current' /\ Absent'
    BY <1>1, <1>3, <2>5 DEF Lists, Current, Absent, Calling, Testing, call
  <2>7. ListsLevel(names, level)'
    <3>1. level > 1 => Children(At(level))' = Children(At(level))
      BY <1>3, <2>2, SameChildren DEF devices, Children
    <3> QED BY <1>1, <1>3, <3>1 DEF ListsLevel, Level, call, Lists, Opening
  <2>8. /\ Len(list'[level]) <= Len(names)
        /\ \A i \in 1..Len(list'[level]) : list'[level][i] = names[i]
    <3>1. \A i \in 1..n : list[level][i] = names[i]
      BY <1>1 DEF Lists, Opening
    <3> QED BY <1>1, <2>1, <3>1 DEF p
  <2>9. Opening'
    BY <1>3, <2>5, <2>7, <2>8 DEF Opening, call
  <2> QED BY <2>2, <2>4, <2>6, <2>9 DEF Lists
<1> QED BY <1>2, <1>3 DEF OpenNext

(* When every name is opened the array is the list of names.               *)
LEMMA OpenedLists ==
  ASSUME Lists, Opened
  PROVE  Lists'
<1>1. /\ level \in 1..level /\ level \in Level /\ list[level] \in Seq(Path) /\ main = "open"
      /\ names \in Seq(Path) /\ Len(list[level]) = Len(names) /\ list[level] # Null
  BY NotNull DEF Lists, TypeOK, Level, Opened, Opening
<1>2. list[level] = names /\ ListsLevel(names, level)
  <2>1. \A i \in 1..Len(list[level]) : list[level][i] = names[i]
    BY <1>1 DEF Lists, Opening
  <2>2. list[level] = names
    BY <1>1, <2>1, SeqEqual
  <2> QED BY <1>1, <2>2 DEF Lists, Opening
<1>3. count' \in [Level -> Nat] /\ count'[level] = Len(names)
  BY <1>1 DEF Lists, TypeOK, Opened
<1>4. /\ \A l \in 1..level - 1 : list'[l] = list[l] /\ index'[l] = index[l] /\ count'[l] = count[l]
      /\ UNCHANGED <<tree, level>>
  <2>1. \A l \in 1..level - 1 : l \in Level /\ l # level
    BY <1>1 DEF Level
  <2>2. UNCHANGED <<tree, level, list, index>>
    BY DEF Opened, devices, call
  <2>3. count \in [Level -> Nat] /\ count' = [count EXCEPT ![level] = Len(names)]
    BY DEF Lists, TypeOK, Opened
  <2> QED BY <2>1, <2>2, <2>3
<1>5. Above' /\ At(level)' = At(level) /\ Parent' = Parent
  BY <1>1, <1>4, Frame, Standing
<1>6. TypeOK'
  BY <1>3 DEF Lists, TypeOK, Opened, devices, call
<1>7. Complete(level)'
  <2>1. level > 1 => At(level) # <<>>
    BY Standing, <1>1 DEF Level
  <2>2. level > 1 => Children(At(level))' = Children(At(level))
    BY <2>1, <1>4, <1>5, SameChildren DEF Children
  <2>3. ListsLevel(list[level], level)'
    BY <1>1, <1>2, <2>2 DEF ListsLevel, Opened, call, Level
  <2> QED BY <1>1, <1>2, <1>3, <2>3 DEF Complete, Opened, call
<1>8. Opening' /\ Current'
  BY <1>7 DEF Opening, Current, Opened, Testing
<1>9. Absent'
  BY <1>1, <1>3, <1>5 DEF Lists, Absent, Opened, Calling, call
<1> QED BY <1>5, <1>6, <1>8, <1>9 DEF Lists

LEMMA ReturnedLists ==
  ASSUME Lists, Returned
  PROVE  Lists'
<1>1. /\ level \in 1..level /\ level \in Level /\ UNCHANGED <<tree, arrays>>
      /\ UNCHANGED <<list, index, count, names, api, failed>>
  BY DEF Lists, TypeOK, Level, Returned, devices, arrays
<1>2. TypeOK'
  BY DEF Lists, TypeOK, Returned, devices, arrays, Level, Testing
<1>3. CASE main = "failed" /\ level = 2 /\ main' = "walk" /\ level' = 1
  <2>1. Above' /\ At(1)' = At(1)
    BY <1>1, <1>3, Frame DEF arrays
  <2>2. list[1] # Null /\ Complete(1)
    BY <1>3 DEF Lists, Above
  <2>3. Complete(1)'
    BY <1>1, <2>1, <2>2, CompleteStays DEF arrays, Level
  <2>4. Opening' /\ Current'
    BY <1>3, <2>3 DEF Opening, Current, Testing
  <2>5. Absent'
    BY <1>1, <1>3, <2>2 DEF Lists, Absent, Calling
  <2> QED BY <1>2, <2>1, <2>4, <2>5 DEF Lists
<1>4. CASE UNCHANGED level
  <2>1. /\ Above' /\ At(level)' = At(level) /\ Parent' = Parent
        /\ level > 1 => At(level) # <<>>
    BY <1>1, <1>4, Frame, Standing DEF Level
  <2>2. Complete(level) => Complete(level)'
    BY <1>1, <1>4, <2>1, CompleteStays DEF Complete
  <2>3. level > 1 => Children(Parent)' = Children(Parent)
    <3>1. Parent = At(level)
      BY Standing
    <3> QED BY <1>1, <2>1, <3>1, SameChildren DEF Children
  <2>4. CASE main = "succeeded" /\ main' = "walk"
    <3>1. Opening' /\ Current'
      BY <2>4, <2>2, <1>4 DEF Lists, Opening, Current, Testing
    <3>2. Absent'
      BY <1>1, <1>4, <2>1, <2>3, <2>4 DEF Lists, Absent, Calling
    <3> QED BY <1>2, <2>1, <3>1, <3>2 DEF Lists
  <2>5. CASE main = "failed" /\ level = 1 /\ main' = "end"
    <3>1. Opening' /\ Current'
      BY <2>5, <1>4 DEF Opening, Current
    <3>2. Absent'
      BY <1>1, <1>4, <2>5 DEF Lists, Absent, Calling
    <3> QED BY <1>2, <2>1, <3>1, <3>2 DEF Lists
  <2>6. CASE main = "failed" /\ level = 3 /\ main' = "walk"
    <3>1. list[3] = Null /\ Parent \in failed
      BY <2>6 DEF Lists, Absent
    <3>2. Opening' /\ Current'
      BY <2>6, <3>1, <1>1, <1>4 DEF Opening, Current, Testing, Complete
    <3>3. Absent'
      BY <1>1, <1>4, <2>1, <2>6, <3>1 DEF Lists, Absent, Calling
    <3> QED BY <1>2, <2>1, <3>2, <3>3 DEF Lists
  <2> QED BY <2>4, <2>5, <2>6, <1>4 DEF Returned
<1> QED BY <1>3, <1>4 DEF Returned

LEMMA DereferenceLists ==
  ASSUME Lists, Dereference
  PROVE  Lists'
<1>1. Above' /\ Parent' = Parent /\ (level > 1 => Children(Parent)' = Children(Parent))
  BY SameArrays DEF Dereference, devices
<1>2. TypeOK'
  BY DEF Lists, TypeOK, Dereference, devices, call, arrays
<1>3. Opening' /\ Current'
  <2>1. index[level] \in Nat /\ index[level] < count[level] /\ list[level] = Null
    BY DEF Lists, TypeOK, Dereference
  <2>2. level # 3
    BY <2>1 DEF Lists, Absent
  <2> QED BY <2>1, <2>2 DEF Opening, Current, Dereference, Testing, call, arrays
<1>4. Absent'
  BY <1>1 DEF Lists, Absent, Dereference, Calling, call, arrays
<1> QED BY <1>1, <1>2, <1>3, <1>4 DEF Lists

LEMMA CertificateLists ==
  ASSUME Lists, Certificate
  PROVE  Lists'
<1>1. Above' /\ Parent' = Parent /\ (Complete(level) => Complete(level)')
  BY SameArrays DEF Certificate, devices
<1>2. level = 3 /\ list[3] # Null /\ index[3] \in 1..Len(list[3]) /\ Complete(level)
  BY DEF Lists, Current, Certificate, Complete
<1>3. list[3][index[3]] \in Path
  BY <1>2 DEF Lists, TypeOK, Level
<1>4. TypeOK'
  <2>1. reported \in Seq(Path) /\ failed \subseteq Path \cup {<<>>}
    BY DEF Lists, TypeOK
  <2>2. reported' \in Seq(Path) /\ failed' \subseteq Path \cup {<<>>}
    BY <1>3, <2>1 DEF Certificate
  <2> QED BY <2>2 DEF Lists, TypeOK, Certificate, devices, call, arrays
<1>5. Opening' /\ Current'
  BY <1>1, <1>2 DEF Opening, Current, Certificate, Testing
<1>6. Absent'
  BY <1>1, <1>2 DEF Lists, Absent, Certificate, Calling, call, arrays
<1> QED BY <1>1, <1>4, <1>5, <1>6 DEF Lists

LEMMA TestsLists ==
  ASSUME Lists, Tests
  PROVE  Lists'
<1>1. /\ main \in Testing /\ main' \in Testing \cup {"end"} /\ api' \in BOOLEAN /\ (api => api')
      /\ UNCHANGED <<devices, alive, call, arrays, reported, failed>>
  BY DEF Tests, Test, Testing, Lists, TypeOK
<1>2. Above' /\ level = 1
  BY <1>1, SameArrays DEF devices, Lists, Current
<1>3. TypeOK'
  BY <1>1 DEF Lists, TypeOK, devices, call, arrays
<1>4. Opening' /\ Current'
  BY <1>1, <1>2 DEF Opening, Current, Testing, call
<1>5. Absent'
  BY <1>1, <1>2 DEF Lists, Absent, Calling, Testing, call, arrays
<1> QED BY <1>2, <1>3, <1>4, <1>5 DEF Lists

LEMMA LeaveLists ==
  ASSUME Lists, Leave
  PROVE  Lists'
<1>1. level \in {1, 2, 3} /\ UNCHANGED <<tree, list, index, count, names, api, failed>>
  BY DEF Lists, TypeOK, Level, Leave, devices, arrays
<1>2. TypeOK'
  BY <1>1 DEF Lists, TypeOK, Leave, devices, arrays, Level, Testing
<1>3. CASE level = 1
  <2>1. level' = 1 /\ main' = "KeyPairTest" /\ list' = list
    BY <1>1, <1>3 DEF Leave
  <2>2. Above'
    BY <2>1 DEF Above
  <2>3. Opening' /\ Current'
    BY <2>1 DEF Opening, Current
  <2>4. Absent'
    BY <1>1, <2>1, <1>3 DEF Lists, Absent, Calling
  <2> QED BY <1>2, <2>2, <2>3, <2>4 DEF Lists
<1>4. CASE level > 1
  <2>1. PICK k \in Level :
          /\ k \in 1..level /\ level' = k /\ main' = "walk" /\ k \in 1..level - 1 /\ k # 3
    <3>1. level - 1 \in Level /\ level' = level - 1 /\ main' = "walk"
      BY <1>1, <1>4 DEF Leave, Level
    <3>2. level - 1 \in 1..level /\ level - 1 \in 1..level - 1 /\ level - 1 # 3
      BY <1>1, <1>4
    <3> QED BY <3>1, <3>2
  <2>2. Above' /\ At(k)' = At(k) /\ (k > 1 => At(k) # <<>>)
    BY <1>1, <2>1, Frame
  <2>3. list[k] # Null /\ Complete(k)
    BY <2>1 DEF Lists, Above
  <2>4. Complete(k)'
    BY <1>1, <2>1, <2>2, <2>3, CompleteStays
  <2>5. Opening' /\ Current'
    BY <2>1, <2>4 DEF Opening, Current, Testing
  <2>6. Absent'
    BY <1>1, <1>4, <2>1, <2>3 DEF Lists, Absent, Calling
  <2> QED BY <1>2, <2>2, <2>5, <2>6 DEF Lists
<1> QED BY <1>1, <1>3, <1>4

(* The next element of the array: the level below begins, or, at a         *)
(* container, its certificate is read.                                     *)
LEMMA WalkLists ==
  ASSUME Lists, Walk
  PROVE  Lists'
<1>1. /\ level \in 1..level /\ level \in Level /\ level \in {1, 2, 3}
      /\ UNCHANGED <<tree, names, api, failed>>
      /\ list \in [Level -> Seq(Path) \cup {Null}]
      /\ count \in [Level -> Nat] /\ index \in [Level -> Nat]
      /\ main = "walk" /\ list[level] # Null /\ Complete(level)
      /\ index[level] + 1 \in 1..count[level]
  BY SMTT(15) DEF Lists, TypeOK, Level, Current, Walk, devices
<1>2. CASE level = 3
  <2>1. /\ main' = "certificate" /\ UNCHANGED <<level, list, count>>
        /\ index' = [index EXCEPT ![3] = index[3] + 1]
    BY <1>2 DEF Walk
  <2>2. /\ index' \in [Level -> Nat] /\ index'[3] \in 1..count[3]
        /\ index'[1] = index[1] /\ index'[2] = index[2]
    BY <1>1, <1>2, <2>1 DEF Level
  <2>3. Above' /\ At(3)' = At(3) /\ At(3) # <<>>
    <3>1. \A l \in 1..2 : list'[l] = list[l] /\ index'[l] = index[l] /\ count'[l] = count[l]
      BY <2>1, <2>2
    <3> QED BY <1>1, <1>2, <2>1, <3>1, Frame
  <2>4. TypeOK'
    BY <2>1, <2>2 DEF Lists, TypeOK, Walk, devices
  <2>5. Complete(3)'
    BY <1>1, <1>2, <2>1, <2>3, CompleteStays
  <2>6. Opening' /\ Current'
    BY <1>1, <1>2, <2>1, <2>2, <2>5 DEF Opening, Current, Testing
  <2>7. Absent'
    BY <1>1, <1>2, <2>1 DEF Lists, Absent, Calling
  <2> QED BY <2>3, <2>4, <2>6, <2>7 DEF Lists
<1>3. CASE level # 3
  <2>1. PICK k \in {2, 3} :
          /\ k \in Level /\ k = level + 1 /\ level = k - 1 /\ level' = k /\ main' = "load"
    <3>1. level + 1 \in {2, 3} /\ level + 1 \in Level /\ level' = level + 1 /\ main' = "load"
      BY <1>1, <1>3 DEF Walk, Level
    <3>2. level = (level + 1) - 1
      BY <1>1
    <3> QED BY <3>1, <3>2
  <2>2. PICK g \in IF level = 1 THEN Garbage ELSE {0} : count' = [count EXCEPT ![k] = g]
    BY <1>3, <2>1 DEF Walk
  <2>3. /\ list' = [list EXCEPT ![k] = Null]
        /\ index' = [index EXCEPT ![level] = index[level] + 1, ![k] = 0]
    BY <1>3, <2>1 DEF Walk
  <2>4. g \in Nat /\ (k = 3 => g = 0)
    BY <2>1, <2>2 DEF Garbage
  <2>5. /\ list' \in [Level -> Seq(Path) \cup {Null}] /\ list'[k] = Null
        /\ count' \in [Level -> Nat] /\ count'[k] = g
        /\ index' \in [Level -> Nat] /\ index'[k] = 0 /\ index'[level] = index[level] + 1
    BY <1>1, <2>1, <2>2, <2>3, <2>4
  <2>6. /\ list'[level] = list[level] /\ count'[level] = count[level]
        /\ k = 3 => list'[1] = list[1] /\ count'[1] = count[1] /\ index'[1] = index[1]
    BY <1>1, <2>1, <2>2, <2>3 DEF Level
  <2>7. TypeOK'
    BY <2>1, <2>5 DEF Lists, TypeOK, Walk, devices, Calling
  <2>8. \A l \in 1..level : At(l)' = At(l)
    <3>1. At(1)' = At(1)
      BY DEF At
    <3>2. k = 3 => At(2)' = At(2)
      BY <2>6 DEF At
    <3> QED BY <1>1, <2>1, <3>1, <3>2
  <2>9. ASSUME NEW l \in 1..level PROVE Complete(l)'
    <3>1. l > 1 => At(l) # <<>>
      <4>1. level > 1 => At(2) # <<>>
        BY Standing
      <4>2. l > 1 => l = 2 /\ level > 1
        BY <1>1, <1>3
      <4> QED BY <4>1, <4>2
    <3>2. l \in Level /\ (l = level \/ (l = 1 /\ k = 3 /\ l \in 1..level - 1))
      BY <1>1, <2>1 DEF Level
    <3>3. Complete(l) /\ list'[l] = list[l] /\ count'[l] = count[l]
      <4>1. CASE l = level
        BY <1>1, <2>6, <4>1
      <4>2. CASE l = 1 /\ k = 3 /\ l \in 1..level - 1
        BY <2>6, <4>2 DEF Lists, Above
      <4> QED BY <3>2, <4>1, <4>2
    <3>4. UNCHANGED tree /\ At(l)' = At(l)
      BY <1>1, <2>8
    <3> QED BY <3>1, <3>2, <3>3, <3>4, CompleteStays
  <2>10. Above'
    <3>1. list'[level] # Null /\ index'[level] \in 1..count'[level]
      BY <1>1, <2>5, <2>6
    <3>2. ASSUME k = 3 PROVE list'[1] # Null /\ index'[1] \in 1..count'[1]
      <4>1. 1 \in 1..level - 1
        BY <1>1, <2>1, <3>2
      <4>2. list[1] # Null /\ index[1] \in 1..count[1]
        BY <4>1 DEF Lists, Above
      <4> QED BY <2>6, <3>2, <4>2
    <3>3. \A l \in 1..k - 1 : l \in 1..level /\ (l = level \/ (l = 1 /\ k = 3))
      BY <1>1, <2>1
    <3> QED BY <2>1, <2>9, <3>1, <3>2, <3>3 DEF Above
  <2>11. Opening' /\ Current'
    BY <2>1 DEF Opening, Current, Testing
  <2>12. Absent'
    <3>1. api
      BY <1>1, <2>1 DEF Lists, Absent
    <3> QED BY <1>1, <2>1, <2>4, <2>5, <3>1 DEF Absent, Calling
  <2> QED BY <2>7, <2>10, <2>11, <2>12 DEF Lists
<1> QED BY <1>2, <1>3

(* Every step leaves the arrays as they have to be.                        *)
LEMMA ListsStep ==
  ASSUME Lists, [Next]_vars
  PROVE  Lists'
<1>1. CASE UNCHANGED vars
  <2>1. UNCHANGED <<tree, call, arrays>> /\ UNCHANGED <<plugged, alive, api, main, reported, failed>>
    BY <1>1 DEF vars, devices
  <2>2. /\ Above' /\ Parent' = Parent
        /\ ListsLevel(names, level) => ListsLevel(names, level)'
        /\ Complete(level) => Complete(level)'
        /\ level > 1 => Children(Parent)' = Children(Parent)
    BY <2>1, SameArrays
  <2>3. TypeOK'
    BY <2>1 DEF Lists, TypeOK, call, arrays
  <2>4. Opening' /\ Absent' /\ Current'
    BY <2>1, <2>2 DEF Lists, Opening, Absent, Current, call, arrays
  <2> QED BY <2>2, <2>3, <2>4 DEF Lists
<1>2. CASE Program
  BY <1>2, GetSKFAPILists, EnumSizeLists, EnumNamesLists, OpenNextLists, OpenedLists,
     ReturnedLists, WalkLists, DereferenceLists, LeaveLists, CertificateLists, TestsLists
     DEF Program
<1>3. CASE Plug
  BY <1>3, PlugLists
<1> QED BY <1>1, <1>2, <1>3 DEF Next, Done
-----------------------------------------------------------------------------
(* Where main crashes there was nothing.                                   *)
LEMMA NothingThere == Lists => CrashesOnlyOnNothing
BY DEF Lists, Current, Absent, CrashesOnlyOnNothing

(* The path of a handle without its last number is what it was listed in.  *)
LEMMA FrontOfPath ==
  ASSUME NEW d, NEW a, NEW c
  PROVE  Front(<<d, a>>) = <<d>> /\ Front(<<d, a, c>>) = <<d, a>>
<1> DEFINE S == {d, a, c}
<1>1. Front(<<d, a>>) = <<d>>
  <2>1. <<d, a>> \in Seq(S) /\ Len(<<d, a>>) = 2 /\ <<d, a>>[1] = d
    OBVIOUS
  <2> DEFINE f == SubSeq(<<d, a>>, 1, 1)
  <2>2. f \in Seq(S) /\ Len(f) = 1 /\ f[1] = d
    BY <2>1, SubSeqProperties
  <2>3. <<d>> \in Seq(S) /\ Len(<<d>>) = 1 /\ <<d>>[1] = d
    OBVIOUS
  <2>4. Front(<<d, a>>) = f
    BY <2>1 DEF Front
  <2> HIDE DEF f
  <2>5. \A i \in 1..Len(f) : f[i] = <<d>>[i]
    BY <2>2, <2>3
  <2> QED BY <2>2, <2>3, <2>4, <2>5, SeqEqual
<1>2. Front(<<d, a, c>>) = <<d, a>>
  <2>1. <<d, a, c>> \in Seq(S) /\ Len(<<d, a, c>>) = 3 /\ <<d, a, c>>[1] = d /\ <<d, a, c>>[2] = a
    OBVIOUS
  <2> DEFINE f == SubSeq(<<d, a, c>>, 1, 2)
  <2>2. f \in Seq(S) /\ Len(f) = 2 /\ f[1] = d /\ f[2] = a
    BY <2>1, SubSeqProperties
  <2>3. <<d, a>> \in Seq(S) /\ Len(<<d, a>>) = 2 /\ <<d, a>>[1] = d /\ <<d, a>>[2] = a
    OBVIOUS
  <2>4. Front(<<d, a, c>>) = f
    BY <2>1 DEF Front
  <2> HIDE DEF f
  <2>5. \A i \in 1..Len(f) : f[i] = <<d, a>>[i]
    BY <2>2, <2>3
  <2> QED BY <2>2, <2>3, <2>4, <2>5, SeqEqual
<1> QED BY <1>1, <1>2

LEMMA WholeLists == Lists => ListsAreWhole
<1> SUFFICES ASSUME Lists, main \in {"walk", "certificate"}, NEW l \in 1..level, list[l] # Null
             PROVE  /\ Len(list[l]) = count[l]
                    /\ \A i \in 1..(count[l] - 1) : list[l][i][l] < list[l][i + 1][l]
                    /\ l > 1 => \A i \in 1..count[l] : Front(list[l][i]) = list[l - 1][index[l - 1]]
  BY DEF ListsAreWhole
<1>1. level \in 1..3 /\ tree \in Contents /\ count[l] \in Nat
  BY DEF Lists, TypeOK, Level
<1>2. Complete(l)
  <2>1. CASE l = level
    BY <2>1 DEF Lists, Current
  <2>2. CASE l # level
    <3>1. l \in 1..level - 1
      BY <1>1, <2>2
    <3> QED BY <3>1 DEF Lists, Above
  <2> QED BY <2>1, <2>2
<1>3. Len(list[l]) = count[l] /\ ListsLevel(list[l], l)
  BY <1>2 DEF Complete
<1>4. CASE l = 1
  BY <1>1, <1>3, <1>4 DEF ListsLevel, Ascending
<1>5. CASE l = 2
  <2>1. PICK d \in Device : At(2) = <<d>>
    BY <1>1, <1>5, Standing
  <2>2. \A i \in 1..count[2] : list[2][i] = <<d, i>>
    BY <1>1, <1>3, <1>5, <2>1, Applications DEF ListsLevel
  <2>3. list[1][index[1]] = <<d>>
    BY <2>1 DEF At
  <2>4. \A i \in 1..count[2] : Front(list[2][i]) = list[1][index[1]]
    BY <2>2, <2>3, FrontOfPath
  <2>5. \A i \in 1..(count[2] - 1) : list[2][i][2] < list[2][i + 1][2]
    BY <1>1, <1>5, <2>2
  <2> QED BY <1>3, <1>5, <2>4, <2>5
<1>6. CASE l = 3
  <2> DEFINE d == At(2)[1]
             a == index[2]
  <2>1. d \in Device /\ a \in DOMAIN tree[d] /\ At(3) = <<d, a>>
    BY <1>1, <1>6, Standing
  <2> HIDE DEF d, a
  <2>2. \A i \in 1..count[3] : list[3][i] = <<d, a, i>>
    BY <1>1, <1>3, <1>6, <2>1, Containers DEF ListsLevel
  <2>3. list[2][index[2]] = <<d, a>>
    BY <2>1 DEF At
  <2>4. \A i \in 1..count[3] : Front(list[3][i]) = list[2][index[2]]
    BY <2>2, <2>3, FrontOfPath
  <2>5. \A i \in 1..(count[3] - 1) : list[3][i][3] < list[3][i + 1][3]
    BY <1>1, <1>6, <2>2
  <2> QED BY <1>3, <1>6, <2>4, <2>5
<1> QED BY <1>1, <1>4, <1>5, <1>6
-----------------------------------------------------------------------------
(* What was dealt with stays so: certificates are only added, and so are   *)
(* the paths that failed.                                                  *)
LEMMA Grows ==
  ASSUME Lists, [Next]_vars
  PROVE  UNCHANGED tree /\ failed \subseteq failed' /\ ToSet(reported) \subseteq ToSet(reported')
<1>1. CASE Certificate
  <2>1. UNCHANGED tree /\ failed \subseteq failed'
    BY <1>1 DEF Certificate, devices
  <2>2. reported \in Seq(Path)
    BY DEF Lists, TypeOK
  <2>3. \A p : ToSet(reported) \subseteq ToSet(Append(reported, p))
    BY <2>2 DEF ToSet
  <2> QED BY <1>1, <2>1, <2>3 DEF Certificate
<1>2. CASE UNCHANGED reported /\ UNCHANGED tree /\ failed \subseteq failed'
  BY <1>2
<1>3. CASE Program /\ ~Certificate
  <2>1. UNCHANGED reported /\ UNCHANGED tree /\ failed \subseteq failed'
    BY <1>3 DEF Program, GetSKFAPI, EnumSize, EnumNames, OpenNext, Opened, Returned, Walk,
                Dereference, Leave, Tests, Test, Fail, devices
  <2> QED BY <2>1, <1>2
<1>4. CASE Plug
  BY <1>2, <1>4 DEF Plug
<1> QED BY <1>1, <1>2, <1>3, <1>4 DEF Next, Done, vars, devices

LEMMA StillDone ==
  ASSUME UNCHANGED tree, failed \subseteq failed', ToSet(reported) \subseteq ToSet(reported')
  PROVE  /\ \A p : Read(p) => Read(p)'
         /\ \A d, a : AppDone(d, a) => AppDone(d, a)'
         /\ \A d : DeviceDone(d) => DeviceDone(d)'
<1>1. \A p : Read(p) => Read(p)'
  BY DEF Read
<1>2. \A d, a : AppDone(d, a) => AppDone(d, a)'
  BY <1>1 DEF AppDone
<1>3. \A d : DeviceDone(d) => DeviceDone(d)'
  BY <1>2 DEF DeviceDone
<1> QED BY <1>1, <1>2, <1>3

(* A step that stays at its level and goes no further there.               *)
LEMMA DealtStays ==
  ASSUME Lists, Dealt, UNCHANGED tree, failed \subseteq failed',
         ToSet(reported) \subseteq ToSet(reported'), UNCHANGED <<level, index>>,
         (main = "certificate") = (main' = "certificate"),
         main \notin Testing \cup {"end", "crashed"},
         \A l \in 1..level - 1 : list'[l] = list[l] /\ count'[l] = count[l],
         list'[level] = list[level] \/ index[level] = 0
  PROVE  Dealt'
<1>1. level \in 1..3 /\ level \in 1..level
  BY DEF Lists, TypeOK, Level
<1>2. \A l \in 1..level : At(l)' = At(l)
  BY <1>1, Frame
<1>3. \A l : Behind(l)' = Behind(l)
  BY DEF Behind
<1>4. DevicesDealt'
  <2> SUFFICES ASSUME list'[1] # Null, NEW i \in Behind(1), i \in DOMAIN list'[1]
               PROVE  DeviceDone(list[1][i][1])'
    BY <1>3 DEF DevicesDealt
  <2>1. list'[1] = list[1]
    <3>1. CASE level = 1
      BY <3>1, <1>1 DEF Behind
    <3>2. CASE level # 1
      BY <3>2, <1>1
    <3> QED BY <3>1, <3>2
  <2>2. DeviceDone(list[1][i][1])
    BY <2>1 DEF Dealt, DevicesDealt
  <2> QED BY <2>1, <2>2, StillDone DEF DeviceDone
<1>5. AppsDealt'
  <2> SUFFICES ASSUME level > 1, NEW a \in Behind(2) PROVE AppDone(At(2)[1], a)'
    BY <1>3 DEF AppsDealt
  <2>1. At(2)' = At(2) /\ AppDone(At(2)[1], a)
    BY <1>1, <1>2 DEF Dealt, AppsDealt
  <2> QED BY <2>1, StillDone DEF AppDone
<1>6. ContainersDealt'
  <2> SUFFICES ASSUME level > 2, NEW c \in Behind(3)
               PROVE  Read(<<At(3)[1], At(3)[2], c>>)'
    BY <1>3 DEF ContainersDealt
  <2>1. At(3)' = At(3) /\ Read(<<At(3)[1], At(3)[2], c>>)
    BY <1>1, <1>2 DEF Dealt, ContainersDealt
  <2> QED BY <2>1, StillDone DEF Read
<1> QED BY <1>4, <1>5, <1>6 DEF Dealt

(* main goes on to what is below, or to the certificate of a container.    *)
LEMMA WalkDealt ==
  ASSUME Lists, Dealt, Walk
  PROVE  Dealt'
<1>1. /\ level \in {1, 2, 3} /\ level \in 1..level /\ main = "walk"
      /\ UNCHANGED <<tree, failed, reported>>
      /\ index \in [Level -> Nat] /\ list \in [Level -> Seq(Path) \cup {Null}]
      /\ DevicesDealt /\ AppsDealt /\ ContainersDealt
  BY DEF Lists, TypeOK, Level, Walk, devices, Dealt, Testing
<1>2. CASE level = 3
  <2>1. /\ main' = "certificate" /\ UNCHANGED <<level, list>>
        /\ index'[1] = index[1] /\ index'[2] = index[2] /\ index'[3] = index[3] + 1
    BY <1>1, <1>2 DEF Walk, Level
  <2>2. At(2)' = At(2) /\ At(3)' = At(3)
    BY <2>1 DEF At
  <2>3. Behind(1)' = Behind(1) /\ Behind(2)' = Behind(2)
    BY <1>1, <1>2, <2>1 DEF Behind
  <2>4. Behind(3)' = Behind(3)
    <3>1. index[3] \in Nat
      BY <1>1 DEF Level
    <3>2. Behind(3)' = 1..(index[3] + 1) - 1 /\ Behind(3) = 1..index[3]
      BY <1>1, <1>2, <2>1 DEF Behind
    <3> QED BY <3>1, <3>2
  <2>5. DevicesDealt'
    BY <1>1, <2>1, <2>3 DEF DevicesDealt, DeviceDone, AppDone, Read
  <2>6. AppsDealt'
    BY <1>1, <2>1, <2>2, <2>3 DEF AppsDealt, AppDone, Read
  <2>7. ContainersDealt'
    BY <1>1, <2>1, <2>2, <2>4 DEF ContainersDealt, Read
  <2> QED BY <2>5, <2>6, <2>7 DEF Dealt
<1>3. CASE level = 2
  <2>1. /\ main' = "load" /\ level' = 3 /\ index'[3] = 0 /\ index'[2] = index[2] + 1
        /\ index'[1] = index[1] /\ list'[1] = list[1] /\ index[2] \in Nat
    BY <1>1, <1>3 DEF Walk, Level
  <2>2. At(2)' = At(2)
    BY <2>1 DEF At
  <2>3. Behind(1)' = Behind(1) /\ Behind(3)' = {}
    BY <1>1, <1>3, <2>1 DEF Behind
  <2>4. Behind(2)' = Behind(2)
    <3>1. Behind(2)' = 1..(index[2] + 1) - 1 /\ Behind(2) = 1..index[2]
      BY <1>1, <1>3, <2>1 DEF Behind
    <3> QED BY <2>1, <3>1
  <2>5. DevicesDealt'
    BY <1>1, <2>1, <2>3 DEF DevicesDealt, DeviceDone, AppDone, Read
  <2>6. AppsDealt'
    BY <1>1, <1>3, <2>1, <2>2, <2>4 DEF AppsDealt, AppDone, Read
  <2>7. ContainersDealt'
    BY <2>3 DEF ContainersDealt
  <2> QED BY <2>5, <2>6, <2>7 DEF Dealt
<1>4. CASE level = 1
  <2>1. /\ main' = "load" /\ level' = 2 /\ index'[2] = 0 /\ index'[1] = index[1] + 1
        /\ list'[1] = list[1] /\ index[1] \in Nat
    BY <1>1, <1>4 DEF Walk, Level
  <2>2. Behind(2)' = {}
    BY <1>1, <1>4, <2>1 DEF Behind
  <2>3. Behind(1)' = Behind(1)
    <3>1. Behind(1)' = 1..(index[1] + 1) - 1 /\ Behind(1) = 1..index[1]
      BY <1>1, <1>4, <2>1 DEF Behind
    <3> QED BY <2>1, <3>1
  <2>4. DevicesDealt'
    BY <1>1, <2>1, <2>3 DEF DevicesDealt, DeviceDone, AppDone, Read
  <2>5. AppsDealt' /\ ContainersDealt'
    BY <2>1, <2>2 DEF AppsDealt, ContainersDealt
  <2> QED BY <2>4, <2>5 DEF Dealt
<1> QED BY <1>1, <1>2, <1>3, <1>4

LEMMA CertificateDealt ==
  ASSUME Lists, Dealt, Certificate
  PROVE  Dealt'
<1>1. /\ level = 3 /\ main = "certificate" /\ main' = "walk"
      /\ UNCHANGED <<tree, level, list, index, names>>
      /\ index[3] \in 1..Len(list[3]) /\ Complete(3) /\ list[3] # Null /\ tree \in Contents
      /\ index[3] \in Nat /\ reported \in Seq(Path)
      /\ DevicesDealt /\ AppsDealt /\ ContainersDealt
  BY DEF Lists, TypeOK, Level, Current, Complete, Certificate, devices, call, arrays, Dealt,
         Testing
<1>2. UNCHANGED tree /\ failed \subseteq failed' /\ ToSet(reported) \subseteq ToSet(reported')
  BY Grows DEF Next, Program
<1>3. At(2)' = At(2) /\ At(3)' = At(3)
  BY <1>1 DEF At
<1>4. Behind(1)' = Behind(1) /\ Behind(2)' = Behind(2)
  BY <1>1 DEF Behind
<1>5. Behind(3)' = 1..index[3] /\ Behind(3) = 1..index[3] - 1
  BY <1>1 DEF Behind
<1>6. DevicesDealt'
  <2> SUFFICES ASSUME list[1] # Null, NEW i \in Behind(1) \cap DOMAIN list[1]
               PROVE  DeviceDone(list[1][i][1])'
    BY <1>1, <1>4 DEF DevicesDealt
  <2>1. DeviceDone(list[1][i][1])
    BY <1>1 DEF DevicesDealt
  <2> QED BY <1>1, <1>2, <2>1, StillDone DEF DeviceDone
<1>7. AppsDealt'
  <2> SUFFICES ASSUME NEW a \in Behind(2) PROVE AppDone(At(2)[1], a)'
    BY <1>4 DEF AppsDealt
  <2>1. AppDone(At(2)[1], a)
    BY <1>1 DEF AppsDealt
  <2> QED BY <1>2, <1>3, <2>1, StillDone DEF AppDone
<1>8. ContainersDealt'
  <2> SUFFICES ASSUME NEW c \in 1..index[3]
               PROVE  Read(<<At(3)[1], At(3)[2], c>>)'
    BY <1>5 DEF ContainersDealt
  <2>1. CASE c = index[3]
    <3> DEFINE d == At(2)[1]
               a == index[2]
    <3>1. d \in Device /\ a \in DOMAIN tree[d] /\ At(3) = <<d, a>>
      BY <1>1, Standing
    <3> HIDE DEF d, a
    <3>2. list[3] = Children(<<d, a>>)
      BY <1>1, <3>1 DEF Complete, ListsLevel
    <3>3. list[3][c] = <<d, a, c>>
      <4>1. \A i \in 1..Len(list[3]) : list[3][i] = <<d, a, i>>
        BY <1>1, <3>1, <3>2, Containers
      <4> QED BY <1>1, <2>1, <4>1
    <3>4. list[3][index[3]] \in failed' \cup ToSet(reported')
      BY <1>1 DEF Certificate, ToSet
    <3>5. <<At(3)[1], At(3)[2], c>> = <<d, a, c>>
      BY <3>1
    <3> QED BY <1>3, <2>1, <3>3, <3>4, <3>5 DEF Read
  <2>2. CASE c # index[3]
    <3>1. c \in Behind(3)
      BY <1>1, <1>5, <2>2
    <3>2. Read(<<At(3)[1], At(3)[2], c>>)
      BY <1>1, <3>1 DEF ContainersDealt
    <3> QED BY <1>2, <1>3, <3>2, StillDone DEF Read
  <2> QED BY <2>1, <2>2
<1> QED BY <1>6, <1>7, <1>8 DEF Dealt

(* The applications of a device cannot be listed: main is back at the      *)
(* devices, and this one is among those that failed.                       *)
LEMMA ReturnedDealt ==
  ASSUME Lists, Dealt, Returned
  PROVE  Dealt'
<1>1. /\ level \in {1, 2, 3} /\ UNCHANGED <<tree, failed, reported, list, index, count>>
      /\ main \in {"succeeded", "failed"} /\ DevicesDealt /\ AppsDealt /\ ContainersDealt
  BY DEF Lists, TypeOK, Level, Returned, devices, arrays, Dealt, Testing
<1>2. CASE UNCHANGED level
  BY <1>1, <1>2, DealtStays DEF Returned, Testing
<1>3. CASE main = "failed" /\ level = 2 /\ main' = "walk" /\ level' = 1
  <2>1. AppsDealt' /\ ContainersDealt'
    BY <1>3 DEF AppsDealt, ContainersDealt
  <2>2. Behind(1)' = 1..index[1] /\ Behind(1) = 1..index[1] - 1
    BY <1>1, <1>3 DEF Behind
  <2>3. PICK d \in Device : list[1][index[1]] = <<d>> /\ <<d>> \in failed /\ index[1] \in Nat
    <3>1. Parent \in failed /\ Parent = At(2) /\ index[1] \in Nat
      BY <1>3, Standing DEF Lists, Absent, TypeOK, Level
    <3> QED BY <1>3, <3>1, Standing
  <2>4. DevicesDealt'
    <3> SUFFICES ASSUME list[1] # Null, NEW i \in 1..index[1], i \in DOMAIN list[1]
                 PROVE  DeviceDone(list[1][i][1])'
      BY <1>1, <2>2 DEF DevicesDealt
    <3>1. CASE i = index[1]
      BY <1>1, <2>3, <3>1 DEF DeviceDone
    <3>2. CASE i # index[1]
      <4>1. i \in Behind(1)
        BY <2>2, <2>3, <3>2
      <4>2. DeviceDone(list[1][i][1])
        BY <1>1, <4>1 DEF DevicesDealt
      <4> QED BY <1>1, <4>2 DEF DeviceDone, AppDone, Read
    <3> QED BY <3>1, <3>2
  <2> QED BY <2>1, <2>4 DEF Dealt
<1> QED BY <1>2, <1>3 DEF Returned

(* The array of the containers is walked to its end: its application is    *)
(* dealt with.                                                             *)
LEMMA AppWalked ==
  ASSUME Lists, Dealt, main = "walk", level = 3, index[3] >= count[3]
  PROVE  AppDone(At(2)[1], index[2])
<1> DEFINE d == At(2)[1]
           a == index[2]
<1>1. d \in Device /\ a \in DOMAIN tree[d] /\ At(3) = <<d, a>> /\ Parent = <<d, a>>
  BY Standing
<1>2. tree \in Contents /\ index[3] \in Nat /\ count[3] \in Nat /\ Complete(3)
  BY DEF Lists, TypeOK, Level, Current
<1>3. \A c \in 1..index[3] : Read(<<d, a, c>>)
  <2>1. Behind(3) = 1..index[3] /\ ContainersDealt
    BY DEF Behind, Dealt, Testing
  <2>2. At(3)[1] = d /\ At(3)[2] = a
    BY <1>1
  <2>3. \A c \in Behind(3) : Read(<<At(3)[1], At(3)[2], c>>)
    BY <2>1 DEF ContainersDealt
  <2> HIDE DEF d, a
  <2> QED BY <2>1, <2>2, <2>3
<1> HIDE DEF d, a
<1>4. tree[d][a] \in Nat /\ Len(Children(<<d, a>>)) = tree[d][a]
  BY <1>1, <1>2, Containers
<1>5. CASE list[3] # Null
  <2>1. count[3] = tree[d][a]
    BY <1>1, <1>2, <1>4, <1>5 DEF Complete, ListsLevel
  <2>2. \A c \in 1..tree[d][a] : c \in 1..index[3]
    BY <1>2, <2>1
  <2> QED BY <1>3, <2>2 DEF AppDone, d, a
<1>6. CASE list[3] = Null
  <2>1. Parent \in failed \/ Children(Parent) = <<>>
    BY <1>6 DEF Lists, Absent
  <2>2. CASE Parent \in failed
    BY <1>1, <2>2 DEF AppDone, d, a
  <2>3. CASE Children(Parent) = <<>>
    <3>1. tree[d][a] = 0
      BY <1>1, <1>4, <2>3
    <3> QED BY <3>1 DEF AppDone, d, a
  <2> QED BY <2>1, <2>2, <2>3
<1> QED BY <1>5, <1>6

LEMMA DeviceWalked ==
  ASSUME Lists, Dealt, main = "walk", level = 2, index[2] >= count[2]
  PROVE  DeviceDone(list[1][index[1]][1])
<1>1. PICK d \in Device : At(2) = <<d>> /\ list[1][index[1]] = <<d>> /\ Parent = <<d>>
  BY Standing
<1>2. tree \in Contents /\ index[2] \in Nat /\ count[2] \in Nat /\ Complete(2)
  BY DEF Lists, TypeOK, Level, Current
<1>3. \A a \in 1..index[2] : AppDone(d, a)
  <2>1. Behind(2) = 1..index[2] /\ AppsDealt
    BY DEF Behind, Dealt, Testing
  <2>2. At(2)[1] = d
    BY <1>1
  <2>3. \A a \in Behind(2) : AppDone(At(2)[1], a)
    BY <2>1 DEF AppsDealt
  <2> QED BY <2>1, <2>2, <2>3
<1>4. /\ Len(tree[d]) \in Nat /\ DOMAIN tree[d] = 1..Len(tree[d])
      /\ Len(Children(<<d>>)) = Len(tree[d])
  BY <1>2, SkfEnumAssumption, Applications
<1>5. DOMAIN tree[d] \subseteq 1..index[2]
  <2>1. CASE list[2] # Null
    <3>1. count[2] = Len(tree[d])
      BY <1>1, <1>2, <1>4, <2>1 DEF Complete, ListsLevel
    <3> QED BY <1>2, <1>4, <3>1
  <2>2. CASE list[2] = Null
    <3>1. Children(<<d>>) = <<>>
      BY <1>1, <2>2 DEF Lists, Absent
    <3>2. Len(tree[d]) = 0
      BY <1>4, <3>1
    <3> QED BY <1>4, <3>2
  <2> QED BY <2>1, <2>2
<1>6. DeviceDone(d)
  BY <1>3, <1>5 DEF DeviceDone
<1> QED BY <1>1, <1>6

LEMMA LeaveDealt ==
  ASSUME Lists, Dealt, Leave
  PROVE  Dealt'
<1>1. /\ level \in {1, 2, 3} /\ UNCHANGED <<tree, failed, reported, list, index, count>>
      /\ main = "walk" /\ DevicesDealt /\ AppsDealt /\ ContainersDealt
      /\ index[level] >= count[level] /\ index \in [Level -> Nat]
  BY DEF Lists, TypeOK, Level, Leave, devices, arrays, Dealt, Testing
<1>2. CASE level = 1
  BY <1>2 DEF Leave, Dealt, Testing
<1>3. CASE level = 2
  <2>1. level' = 1 /\ main' = "walk"
    BY <1>3 DEF Leave
  <2>2. Behind(1)' = 1..index[1] /\ Behind(1) = 1..index[1] - 1 /\ index[1] \in Nat
    BY <1>1, <1>3, <2>1 DEF Behind, Level
  <2>3. DeviceDone(list[1][index[1]][1])
    BY <1>1, <1>3, DeviceWalked
  <2>4. \A i \in 1..index[1] : i = index[1] \/ i \in Behind(1)
    BY <2>2
  <2>5. list[1] # Null => \A i \in 1..index[1] \cap DOMAIN list[1] : DeviceDone(list[1][i][1])
    BY <1>1, <2>3, <2>4 DEF DevicesDealt
  <2>6. DevicesDealt'
    BY <1>1, <2>2, <2>5 DEF DevicesDealt, DeviceDone, AppDone, Read
  <2> QED BY <2>1, <2>6 DEF Dealt, AppsDealt, ContainersDealt
<1>4. CASE level = 3
  <2>1. level' = 2 /\ main' = "walk"
    BY <1>4 DEF Leave
  <2>2. /\ Behind(1)' = Behind(1) /\ Behind(2)' = 1..index[2] /\ Behind(2) = 1..index[2] - 1
        /\ index[2] \in Nat /\ At(2)' = At(2)
    BY <1>1, <1>4, <2>1 DEF Behind, Level, At
  <2>3. AppDone(At(2)[1], index[2])
    BY <1>1, <1>4, AppWalked
  <2>4. \A a \in 1..index[2] : a = index[2] \/ a \in Behind(2)
    BY <2>2
  <2>5. \A a \in 1..index[2] : AppDone(At(2)[1], a)
    BY <1>1, <1>4, <2>3, <2>4 DEF AppsDealt
  <2>6. AppsDealt'
    BY <1>1, <2>2, <2>5 DEF AppsDealt, AppDone, Read
  <2>7. DevicesDealt'
    BY <1>1, <2>2 DEF DevicesDealt, DeviceDone, AppDone, Read
  <2> QED BY <2>1, <2>6, <2>7 DEF Dealt, ContainersDealt
<1> QED BY <1>1, <1>2, <1>3, <1>4

LEMMA DealtStep ==
  ASSUME Lists, Dealt, [Next]_vars
  PROVE  Dealt'
<1>1. UNCHANGED tree /\ failed \subseteq failed' /\ ToSet(reported) \subseteq ToSet(reported')
  BY Grows
<1>2. CASE Walk \/ Certificate \/ Returned \/ Leave
  BY <1>2, WalkDealt, CertificateDealt, ReturnedDealt, LeaveDealt
<1>3. CASE Tests \/ Dereference
  <2>1. main' \in Testing \cup {"end", "crashed"}
    BY <1>3 DEF Tests, Test, Dereference, Testing
  <2> QED BY <2>1 DEF Dealt
<1>4. CASE GetSKFAPI \/ EnumSize \/ EnumNames \/ OpenNext \/ Opened
  <2>1. /\ main \in Calling /\ main' \in Calling \cup {"succeeded", "failed"}
        /\ UNCHANGED <<level, index>>
    BY <1>4 DEF GetSKFAPI, EnumSize, EnumNames, OpenNext, Opened, Fail, Calling, call, arrays
  <2>2. index[level] = 0 /\ level \in 1..3
    BY <2>1 DEF Lists, Absent, TypeOK, Level
  <2>3. \A l \in 1..level - 1 : list'[l] = list[l] /\ count'[l] = count[l]
    <3>1. \A l \in 1..level - 1 : l # level /\ l \in Level
      BY <2>2 DEF Level
    <3>2. \A l \in Level : l # level => list'[l] = list[l] /\ count'[l] = count[l]
      BY <1>4 DEF GetSKFAPI, EnumSize, EnumNames, OpenNext, Opened, Fail, call, arrays,
                  Lists, TypeOK
    <3> QED BY <3>1, <3>2
  <2>4. /\ main \notin Testing \cup {"end", "crashed"} /\ main # "certificate"
        /\ main' # "certificate"
    BY <2>1 DEF Calling, Testing
  <2> QED BY <1>1, <2>1, <2>2, <2>3, <2>4, DealtStays
<1>5. CASE Plug \/ UNCHANGED vars
  <2>1. UNCHANGED <<main, level, index, list, count>>
    BY <1>5 DEF Plug, vars, call, arrays
  <2>2. CASE main \in Testing \cup {"end", "crashed"}
    BY <2>1, <2>2 DEF Dealt
  <2>3. CASE main \notin Testing \cup {"end", "crashed"}
    BY <1>1, <2>1, <2>3, DealtStays
  <2> QED BY <2>2, <2>3
<1> QED BY <1>2, <1>3, <1>4, <1>5 DEF Next, Program, Done

(* When main leaves the devices it has dealt with every one.               *)
LEMMA SkippedStep ==
  ASSUME Lists, Dealt, SkippedForAReason, [Next]_vars
  PROVE  SkippedForAReason'
<1>1. UNCHANGED tree /\ failed \subseteq failed' /\ ToSet(reported) \subseteq ToSet(reported')
  BY Grows
<1>2. SkippedForAReason =
        (main \in Testing /\ list[1] # Null => \A i \in DOMAIN list[1] : DeviceDone(list[1][i][1]))
  BY DEF SkippedForAReason, DeviceDone, AppDone, Read
<1>3. SkippedForAReason' =
        (main \in Testing /\ list[1] # Null => \A i \in DOMAIN list[1] : DeviceDone(list[1][i][1]))'
  BY DEF SkippedForAReason, DeviceDone, AppDone, Read
<1>4. CASE Leave /\ level = 1
  <2>1. /\ UNCHANGED list /\ index[1] >= count[1] /\ index[1] \in Nat /\ count[1] \in Nat
        /\ main = "walk" /\ Complete(1)
        /\ list[1] # Null => list[1] \in Seq(Path)
    BY <1>4 DEF Leave, arrays, Lists, Current, TypeOK, Level
  <2>2. Behind(1) = 1..index[1]
    BY <1>4, <2>1 DEF Behind
  <2>3. list[1] # Null => DOMAIN list[1] \subseteq Behind(1)
    BY <2>1, <2>2 DEF Complete
  <2>4. list[1] # Null => \A i \in DOMAIN list[1] : DeviceDone(list[1][i][1])
    BY <2>1, <2>3 DEF Dealt, DevicesDealt, Testing
  <2>5. list'[1] # Null => \A i \in DOMAIN list[1] : DeviceDone(list[1][i][1])'
    BY <1>1, <2>1, <2>4, StillDone DEF DeviceDone
  <2> QED BY <1>3, <2>1, <2>5
<1>5. CASE main \in Testing /\ UNCHANGED list
  <2>1. list[1] # Null => \A i \in DOMAIN list[1] : DeviceDone(list[1][i][1])'
    BY <1>1, <1>2, <1>5, StillDone DEF DeviceDone
  <2> QED BY <1>3, <1>5, <2>1
<1>6. CASE main' \notin Testing
  BY <1>3, <1>6
<1>7. (Leave /\ level = 1) \/ (main \in Testing /\ UNCHANGED list) \/ main' \notin Testing
  <2>1. CASE Tests \/ Plug \/ UNCHANGED vars
    BY <2>1 DEF Tests, Test, Plug, vars, arrays, Testing
  <2>2. CASE Leave /\ level # 1
    BY <2>2 DEF Leave, Testing
  <2>3. CASE Program /\ ~Tests /\ ~Leave
    BY <2>3 DEF Program, GetSKFAPI, EnumSize, EnumNames, OpenNext, Opened, Returned, Walk,
                Dereference, Certificate, Fail, Testing
  <2> QED BY <2>1, <2>2, <2>3 DEF Next, Program, Done
<1> QED BY <1>4, <1>5, <1>6, <1>7
-----------------------------------------------------------------------------
LEMMA InitEnum == Init => EnumInv
<1> SUFFICES ASSUME Init PROVE EnumInv
  OBVIOUS
<1>1. Lists
  BY InitLists
<1>2. level = 1 /\ main = "load" /\ list[1] = Null
  BY DEF Init, Level
<1>3. Dealt /\ SkippedForAReason
  BY <1>2 DEF Dealt, DevicesDealt, AppsDealt, ContainersDealt, SkippedForAReason, Testing
<1> QED BY <1>1, <1>3 DEF EnumInv

LEMMA EnumStep == EnumInv /\ [Next]_vars => EnumInv'
BY ListsStep, DealtStep, SkippedStep DEF EnumInv

LEMMA EnumInvariant == Spec => []EnumInv
<1>1. Init => EnumInv
  BY InitEnum
<1>2. EnumInv /\ [Next]_vars => EnumInv'
  BY EnumStep
<1> QED BY <1>1, <1>2, PTL DEF Spec

(* gmusbkeytest/main.c: an array that main walks is whole, in order and of *)
(* the thing it is walking, whatever was plugged and unplugged between the *)
(* calls, for any number of devices, applications and containers.          *)
THEOREM EnumListsAreWhole == Spec => []ListsAreWhole
<1>1. EnumInv => ListsAreWhole
  BY WholeLists DEF EnumInv
<1> QED BY <1>1, EnumInvariant, PTL

(* gmusbkeytest/main.c: when the walk is over, every container was read or *)
(* refused, or what holds it failed to be enumerated.                      *)
THEOREM EnumSkippedForAReason == Spec => []SkippedForAReason
<1>1. EnumInv => SkippedForAReason
  BY DEF EnumInv
<1> QED BY <1>1, EnumInvariant, PTL

(* gmusbkeytest/main.c:237: the walk of an array that is not there needs a *)
(* success with nothing to give.                                           *)
THEOREM EnumCrashesOnlyOnNothing == Spec => []CrashesOnlyOnNothing
<1>1. EnumInv => CrashesOnlyOnNothing
  BY NothingThere DEF EnumInv
<1> QED BY <1>1, EnumInvariant, PTL

(* The variables have their types, on any devices: every array holds       *)
(* handles, and what is open is on a device that is plugged in.            *)
THEOREM EnumTypes == Spec => []TypeOK
<1>1. EnumInv => TypeOK
  BY DEF EnumInv, Lists
<1> QED BY <1>1, EnumInvariant, PTL
=============================================================================
