----------------------------- MODULE FoldProofs -----------------------------
(***************************************************************************)
(* Proofs about the modules that compute with folds, for sequences of any  *)
(* length: the numbers that CngKeymgmt exports, and the names of the peer  *)
(* that CertName reads, together with the list of CA certificates that     *)
(* TasslPeer makes before.                                                 *)
(***************************************************************************)
EXTENDS CngKeymgmt, TasslPeer, FiniteSetTheorems, SequenceTheorems, WellFoundedInduction, TLAPS
-----------------------------------------------------------------------------
(* A set of numbers that is not empty has a least element; induction is    *)
(* the search for a least counterexample.                                  *)
LEMMA Least ==
  ASSUME NEW T \in SUBSET Nat, T # {}
  PROVE  \E m \in T : \A n \in T : m <= n
<1> DEFINE R == OpToRel(<, Nat)
<1>1. R = {ss \in Nat \X Nat : ss[1] < ss[2]}
  BY DEF OpToRel
<1>2. IsWellFoundedOn(R, Nat)
  BY NatLessThanWellFounded
<1> HIDE DEF R
<1>3. PICK x \in T : \A y \in T : ~(<<y, x>> \in R)
  BY <1>2, WFMin
<1>4. ASSUME NEW y \in T PROVE x <= y
  <2>1. y < x => <<y, x>> \in R
    BY <1>1
  <2> QED BY <2>1, <1>3
<1> QED BY <1>3, <1>4

(* A set of numbers up to a bound has a largest one: the one that is least *)
(* seen from the bound.                                                    *)
LEMMA Largest ==
  ASSUME NEW b \in Nat, NEW T \in SUBSET (0..b), T # {}
  PROVE  \E m \in T : \A n \in T : m >= n
<1> DEFINE U == {d \in Nat : b - d \in T}
<1>1. \A n \in T : b - n \in Nat /\ b - (b - n) = n
  OBVIOUS
<1>2. PICK x \in T : TRUE
  OBVIOUS
<1>3. b - x \in U
  BY <1>1, <1>2
<1>4. PICK d \in U : \A e \in U : d <= e
  BY <1>3, Least
<1>5. \A n \in T : b - d >= n
  <2> SUFFICES ASSUME NEW n \in T PROVE b - d >= n
    OBVIOUS
  <2>1. b - n \in U
    BY <1>1
  <2>2. d <= b - n
    BY <1>4, <2>1
  <2>3. d \in Nat /\ n \in Nat
    OBVIOUS
  <2> HIDE DEF U
  <2> QED BY <2>2, <2>3
<1> QED BY <1>4, <1>5

LEMMA MaxIs ==
  ASSUME NEW b \in Nat, NEW T \in SUBSET (0..b), T # {}
  PROVE  Max(T) \in T /\ \A n \in T : Max(T) >= n
BY Largest, Zenon DEF Max

LEMMA MinIs ==
  ASSUME NEW T \in SUBSET Nat, T # {}
  PROVE  Min(T) \in T /\ \A n \in T : Min(T) <= n
BY Least, Zenon DEF Min

(* A fold over a set that takes the chosen element of each part first.     *)
Chooses(choose, S) == \A s \in SUBSET S : s # {} => choose[s] \in s
IsFold(iter, S, base, choose, step) ==
  \A s \in SUBSET S :
    iter[s] = IF s = {} THEN base ELSE step[<<choose[s], iter[s \ {choose[s]}]>>]

(* There is one over every finite set. *)
LEMMA FoldExists ==
  ASSUME NEW S, IsFiniteSet(S), NEW V, NEW base \in V, NEW choose, Chooses(choose, S),
         NEW step \in [S \X V -> V]
  PROVE  \E iter \in [SUBSET S -> V] : IsFold(iter, S, base, choose, step)
<1> DEFINE Small(k) == {s \in SUBSET S : Cardinality(s) <= k}
           Next1(g, s) == IF s = {} THEN base ELSE step[<<choose[s], g[s \ {choose[s]}]>>]
           Good(k) == \E g \in [Small(k) -> V] : \A s \in Small(k) : g[s] = Next1(g, s)
           Bad == {k \in Nat : ~Good(k)}
<1>1. \A s \in SUBSET S : IsFiniteSet(s) /\ Cardinality(s) \in Nat
  BY FS_Subset, FS_CardinalityType
<1>2. Bad = {}
  <2> SUFFICES ASSUME Bad # {} PROVE FALSE
    OBVIOUS
  <2> HIDE DEF Good
  <2>1. PICK k \in Bad : \A j \in Bad : k <= j
    <3>1. Bad \in SUBSET Nat
      OBVIOUS
    <3> HIDE DEF Bad
    <3> QED BY <3>1, Least
  <2>2. k # 0
    <3> SUFFICES Good(0)
      BY <2>1
    <3> DEFINE g == [s \in Small(0) |-> base]
    <3>1. \A s \in Small(0) : s = {}
      <4> SUFFICES ASSUME NEW s \in Small(0) PROVE s = {}
        OBVIOUS
      <4>1. IsFiniteSet(s) /\ Cardinality(s) \in Nat /\ Cardinality(s) <= 0
        BY <1>1
      <4>2. Cardinality(s) = 0
        BY <4>1
      <4> QED BY <4>1, <4>2, FS_EmptySet
    <3>2. g \in [Small(0) -> V]
      OBVIOUS
    <3>3. \A s \in Small(0) : g[s] = Next1(g, s)
      BY <3>1
    <3> HIDE DEF g, Small, Next1
    <3> QED BY <3>2, <3>3 DEF Good
  <2>3. k - 1 \in Nat /\ Good(k - 1) /\ k \in Nat
    <3>1. k \in Nat /\ k - 1 \in Nat /\ ~(k <= k - 1)
      BY <2>1, <2>2
    <3>2. k - 1 \notin Bad
      BY <2>1, <3>1
    <3> QED BY <3>1, <3>2
  <2>4. PICK g \in [Small(k - 1) -> V] : \A s \in Small(k - 1) : g[s] = Next1(g, s)
    BY <2>3 DEF Good
  <2>5. \A s \in Small(k) : s # {} => choose[s] \in s /\ s \ {choose[s]} \in Small(k - 1)
    <3> SUFFICES ASSUME NEW s \in Small(k), s # {}
                 PROVE  choose[s] \in s /\ s \ {choose[s]} \in Small(k - 1)
      OBVIOUS
    <3>1. choose[s] \in s
      BY DEF Chooses
    <3>2. Cardinality(s \ {choose[s]}) = Cardinality(s) - 1
      BY <1>1, <3>1, FS_RemoveElement
    <3>3. Cardinality(s) \in Nat /\ Cardinality(s) <= k
      BY <1>1
    <3> QED BY <2>3, <3>1, <3>2, <3>3
  <2>6. Small(k - 1) \subseteq Small(k)
    <3> SUFFICES ASSUME NEW s \in Small(k - 1) PROVE s \in Small(k)
      OBVIOUS
    <3>1. Cardinality(s) \in Nat /\ Cardinality(s) <= k - 1
      BY <1>1
    <3> QED BY <2>3, <3>1
  <2>7. Small(k) \subseteq SUBSET S
    OBVIOUS
  <2> DEFINE h == [s \in Small(k) |-> Next1(g, s)]
  <2> HIDE DEF Small
  <2>8. \A s \in Small(k - 1) : h[s] = g[s]
    BY <2>4, <2>6
  <2>9. h \in [Small(k) -> V]
    BY <2>4, <2>5, <2>7
  <2>10. \A s \in Small(k) : h[s] = Next1(h, s)
    BY <2>5, <2>8
  <2>11. Good(k)
    <3> HIDE DEF h, Next1
    <3> QED BY <2>9, <2>10 DEF Good
  <2> QED BY <2>1, <2>11
<1>3. Good(Cardinality(S))
  <2>1. Cardinality(S) \in Nat
    BY FS_CardinalityType
  <2> HIDE DEF Good
  <2> QED BY <1>2, <2>1
<1>4. Small(Cardinality(S)) = SUBSET S
  BY FS_Subset
<1>5. PICK g \in [SUBSET S -> V] : \A s \in SUBSET S : g[s] = Next1(g, s)
  <2> HIDE DEF Small, Next1
  <2> QED BY <1>3, <1>4
<1>6. IsFold(g, S, base, choose, step)
  BY <1>5 DEF IsFold
<1> QED BY <1>6
-----------------------------------------------------------------------------
(* The bytes of a number, summed up in the order of a choice.              *)
IsSum(iter, S, bytes, choose) ==
  iter = [s \in SUBSET S |->
            IF s = {} THEN 0 ELSE iter[s \ {choose[s]}] * Base + bytes[choose[s]]]

LEMMA NumberFold ==
  ASSUME NEW S, IsFiniteSet(S), NEW bytes \in [S -> Nat], NEW choose,
         Chooses(choose, S)
  PROVE  \E iter : IsSum(iter, S, bytes, choose)
<1> DEFINE step == [p \in S \X Nat |-> p[2] * Base + bytes[p[1]]]
<1>1. Base \in Nat
  BY KeymgmtAssumption
<1>2. step \in [S \X Nat -> Nat]
  <2> SUFFICES ASSUME NEW p \in S \X Nat PROVE p[2] * Base + bytes[p[1]] \in Nat
    OBVIOUS
  <2>1. p[2] \in Nat /\ bytes[p[1]] \in Nat
    OBVIOUS
  <2> QED BY <1>1, <2>1
<1> HIDE DEF step
<1>3. 0 \in Nat
  OBVIOUS
<1>4. PICK iter \in [SUBSET S -> Nat] : IsFold(iter, S, 0, choose, step)
  BY <1>2, <1>3, FoldExists
<1>5. ASSUME NEW s \in SUBSET S
      PROVE  iter[s] = IF s = {} THEN 0 ELSE iter[s \ {choose[s]}] * Base + bytes[choose[s]]
  <2>1. s # {} => choose[s] \in S /\ iter[s \ {choose[s]}] \in Nat
    BY DEF Chooses
  <2> QED BY <1>4, <2>1 DEF step, IsFold
<1>6. iter = [s \in SUBSET S |-> iter[s]]
  OBVIOUS
<1>7. IsSum(iter, S, bytes, choose)
  BY <1>5, <1>6, Zenon DEF IsSum
<1> QED BY <1>7

(* Least significant last: each byte comes below what was read before it.  *)
LEMMA BigEndianFold ==
  ASSUME NEW n \in Nat, NEW bytes \in [1..n -> Nat]
  PROVE  \E value : /\ value[0] = 0
                    /\ \A k \in 1..n : value[k] = value[k - 1] * Base + bytes[k]
                    /\ BigEndian(bytes) = value[n]
<1> DEFINE choose == [s \in SUBSET (1..n) |-> Max(s)]
           Sums(iter) == iter = [s \in SUBSET (1..n) |->
             IF s = {} THEN 0 ELSE iter[s \ {Max(s)}] * Base + bytes[Max(s)]]
           total == CHOOSE iter : Sums(iter)
           value == [k \in 0..n |-> total[1..k]]
<1>1. Sums(total)
  <2>1. Chooses(choose, 1..n)
    <3>1. \A s \in SUBSET (1..n) : s \in SUBSET (0..n)
      OBVIOUS
    <3> QED BY <3>1, MaxIs DEF Chooses
  <2>2. PICK iter : IsSum(iter, 1..n, bytes, choose)
    <3>1. IsFiniteSet(1..n)
      BY FS_Interval
    <3> HIDE DEF choose
    <3> QED BY <2>1, <3>1, NumberFold
  <2>3. Sums(iter)
    BY <2>2, <2>1 DEF IsSum, Chooses
  <2> HIDE DEF Sums
  <2> QED BY <2>3, Zenon
<1>2. BigEndian(bytes) = total[1..n]
  <2>1. DOMAIN bytes = 1..n
    OBVIOUS
  <2>2. BigEndian(bytes) = (CHOOSE iter : iter = [s \in SUBSET DOMAIN bytes |->
           IF s = {} THEN 0 ELSE iter[s \ {Max(s)}] * Base + bytes[Max(s)]])[DOMAIN bytes]
    BY Zenon DEF BigEndian, FoldLeft, MapThenFoldSet, Max, Max
  <2> QED BY <2>1, <2>2, Zenon
<1>3. value[0] = 0
  <2>1. 1..0 = {} /\ 0 \in 0..n
    OBVIOUS
  <2>2. total[{}] = 0
    BY <1>1, Zenon
  <2> HIDE DEF total
  <2> QED BY <2>1, <2>2
<1>4. ASSUME NEW k \in 1..n PROVE value[k] = value[k - 1] * Base + bytes[k]
  <2>1. 1..k \in SUBSET (1..n) /\ 1..k # {} /\ 1..k \in SUBSET (0..n)
    OBVIOUS
  <2>2. Max(1..k) = k
    <3>1. Max(1..k) \in 1..k /\ \A m \in 1..k : Max(1..k) >= m
      BY <2>1, MaxIs
    <3> QED BY <3>1
  <2>3. (1..k) \ {k} = 1..k - 1
    OBVIOUS
  <2>4. total[1..k] = total[1..k - 1] * Base + bytes[k]
    BY <1>1, <2>1, <2>2, <2>3
  <2> QED BY <2>4
<1> HIDE DEF value
<1>5. value[n] = total[1..n]
  BY DEF value
<1> QED BY <1>2, <1>3, <1>4, <1>5
(* Least significant first: the fold begins with the last byte.            *)
LEMMA LittleEndianFold ==
  ASSUME NEW n \in Nat, NEW bytes \in [1..n -> Nat]
  PROVE  \E value : /\ value[0] = 0
                    /\ \A k \in 1..n : value[k] = value[k - 1] * Base + bytes[n - k + 1]
                    /\ LittleEndian(bytes) = value[n]
<1> DEFINE choose == [s \in SUBSET (1..n) |-> Min(s)]
           Sums(iter) == iter = [s \in SUBSET (1..n) |->
             IF s = {} THEN 0 ELSE iter[s \ {Min(s)}] * Base + bytes[Min(s)]]
           total == CHOOSE iter : Sums(iter)
           value == [k \in 0..n |-> total[n - k + 1..n]]
<1>1. Sums(total)
  <2>1. Chooses(choose, 1..n)
    <3>1. \A s \in SUBSET (1..n) : s \in SUBSET Nat
      OBVIOUS
    <3> QED BY <3>1, MinIs DEF Chooses
  <2>2. PICK iter : IsSum(iter, 1..n, bytes, choose)
    <3>1. IsFiniteSet(1..n)
      BY FS_Interval
    <3> HIDE DEF choose
    <3> QED BY <2>1, <3>1, NumberFold
  <2>3. Sums(iter)
    BY <2>2, <2>1 DEF IsSum, Chooses
  <2> HIDE DEF Sums
  <2> QED BY <2>3, Zenon
<1>2. LittleEndian(bytes) = total[1..n]
  <2>1. DOMAIN bytes = 1..n
    OBVIOUS
  <2>2. LittleEndian(bytes) = (CHOOSE iter : iter = [s \in SUBSET DOMAIN bytes |->
           IF s = {} THEN 0 ELSE iter[s \ {Min(s)}] * Base + bytes[Min(s)]])[DOMAIN bytes]
    BY Zenon DEF LittleEndian, FoldRight, MapThenFoldSet, Min, Min
  <2> QED BY <2>1, <2>2, Zenon
<1>3. value[0] = 0
  <2>1. n - 0 + 1..n = {} /\ 0 \in 0..n
    OBVIOUS
  <2>2. total[{}] = 0
    BY <1>1, Zenon
  <2> HIDE DEF total
  <2> QED BY <2>1, <2>2
<1>4. ASSUME NEW k \in 1..n PROVE value[k] = value[k - 1] * Base + bytes[n - k + 1]
  <2> DEFINE from == n - k + 1
  <2>1. from \in 1..n /\ k - 1 \in 0..n /\ k \in 0..n /\ n - (k - 1) + 1 = from + 1
    OBVIOUS
  <2> HIDE DEF from
  <2>2. from..n \in SUBSET (1..n) /\ from..n # {} /\ from..n \in SUBSET Nat
    BY <2>1
  <2>3. Min(from..n) = from
    <3>1. Min(from..n) \in from..n /\ \A m \in from..n : Min(from..n) <= m
      BY <2>2, MinIs
    <3> QED BY <2>1, <3>1
  <2>4. (from..n) \ {from} = from + 1..n
    BY <2>1
  <2>5. total[from..n] = total[from + 1..n] * Base + bytes[from]
    BY <1>1, <2>2, <2>3, <2>4
  <2>6. value[k] = total[from..n] /\ value[k - 1] = total[from + 1..n]
    <3> HIDE DEF total
    <3> QED BY <2>1 DEF from
  <2> HIDE DEF value
  <2> QED BY <2>5, <2>6 DEF from
<1> HIDE DEF value
<1>5. value[n] = total[1..n]
  <2>1. n \in 0..n /\ n - n + 1 = 1
    OBVIOUS
  <2> HIDE DEF total
  <2> QED BY <2>1 DEF value
<1> QED BY <1>2, <1>3, <1>4, <1>5
-----------------------------------------------------------------------------
(* duplicate_buffer_in_reverse keeps the number: what is read from either  *)
(* end of a buffer of any length, and in any base, is the same.            *)
LEMMA ReversalKeepsTheNumber ==
  ASSUME NEW number \in Number
  PROVE  LittleEndian(ReverseBuffer(number)) = BigEndian(number)
<1>1. PICK n \in Nat : number \in [1..n -> Nat]
  <2>1. PICK n \in 1..MaxBytes : number \in [1..n -> Byte]
    BY DEF Number
  <2>2. Byte \subseteq Nat /\ n \in Nat
    BY KeymgmtAssumption DEF Byte
  <2> QED BY <2>1, <2>2
<1> DEFINE bytes == ReverseBuffer(number)
<1>2. bytes \in [1..n -> Nat] /\ \A k \in 1..n : bytes[n - k + 1] = number[k]
  <2>1. Len(number) = n
    BY <1>1
  <2>2. bytes = [k \in 1..n |-> number[n - k + 1]]
    BY <2>1 DEF ReverseBuffer
  <2>3. \A k \in 1..n : n - k + 1 \in 1..n /\ n - (n - k + 1) + 1 = k
    OBVIOUS
  <2> HIDE DEF bytes
  <2> QED BY <1>1, <2>2, <2>3
<1> HIDE DEF bytes
<1>3. PICK up : /\ up[0] = 0 /\ \A k \in 1..n : up[k] = up[k - 1] * Base + number[k]
                /\ BigEndian(number) = up[n]
  BY <1>1, BigEndianFold, ZenonT(30)
<1>4. PICK down : /\ down[0] = 0
                  /\ \A k \in 1..n : down[k] = down[k - 1] * Base + bytes[n - k + 1]
                  /\ LittleEndian(bytes) = down[n]
  BY <1>2, LittleEndianFold, Zenon
<1> DEFINE Bad == {k \in 0..n : up[k] # down[k]}
<1>5. Bad = {}
  <2> SUFFICES ASSUME Bad # {} PROVE FALSE
    OBVIOUS
  <2>1. PICK k \in Bad : \A j \in Bad : k <= j
    <3>1. Bad \in SUBSET Nat
      OBVIOUS
    <3> HIDE DEF Bad
    <3> QED BY <3>1, Least
  <2>2. k \in 1..n /\ k - 1 \in 0..n /\ ~(k <= k - 1)
    BY <1>3, <1>4
  <2>3. up[k - 1] = down[k - 1]
    BY <2>1, <2>2
  <2>4. up[k] = down[k]
    BY <1>2, <1>3, <1>4, <2>2, <2>3
  <2> QED BY <2>4
<1>6. n \in 0..n
  OBVIOUS
<1>7. up[n] = down[n]
  BY <1>5, <1>6
<1> QED BY <1>3, <1>4, <1>7 DEF bytes

(* The key does not change. *)
KeyIsFixed == public_exp \in Number /\ modulus \in Number /\ key_length \in Bits

LEMMA KeymgmtInvariant == KeymgmtSpec => []KeyIsFixed
<1>1. KeymgmtInit => KeyIsFixed
  BY DEF KeymgmtInit, KeyIsFixed
<1>2. KeyIsFixed /\ [KeymgmtNext]_keyvars => KeyIsFixed'
  BY DEF KeyIsFixed, KeymgmtNext, GetParams, Export, keyvars
<1> QED BY <1>1, <1>2, PTL DEF KeymgmtSpec

(* What a call passes on, if anything, is of one of two kinds.             *)
LEMMA Passed ==
  ASSUME [KeymgmtNext]_keyvars
  PROVE  \/ UNCHANGED keyvars
         \/ params' = Nothing
         \/ params' = <<[bits |-> 512, max_size |-> 4096,
                        security_bits |-> rsaModulusSizeToStrengthBits(key_length)]>>
         \/ params' = <<[e |-> ReverseBuffer(public_exp), n |-> ReverseBuffer(modulus)]>>
BY DEF KeymgmtNext, GetParams, Export, Refuse, ExportFails, ExportPublic,
       ExportNothing

(* cng_keymgmt_export: what the callback gets are the numbers of the key's *)
(* public blob, whatever their length.                                     *)
THEOREM ExportsAgree == KeymgmtSpec => ExportedNumbersAgree
<1> DEFINE Agree == params' # Nothing /\ "e" \in DOMAIN params'[1] =>
              /\ LittleEndian(params'[1].e) = BigEndian(public_exp)
              /\ LittleEndian(params'[1].n) = BigEndian(modulus)
<1>1. ASSUME KeyIsFixed, [KeymgmtNext]_keyvars PROVE [Agree]_keyvars
  <2>1. CASE params' = <<[e |-> ReverseBuffer(public_exp), n |-> ReverseBuffer(modulus)]>>
    <3>1. params'[1].e = ReverseBuffer(public_exp) /\ params'[1].n = ReverseBuffer(modulus)
      BY <2>1
    <3> QED BY <1>1, <3>1, ReversalKeepsTheNumber DEF KeyIsFixed
  <2>2. CASE params' = <<[bits |-> 512, max_size |-> 4096,
                        security_bits |-> rsaModulusSizeToStrengthBits(key_length)]>>
    BY <2>2
  <2> QED BY <1>1, <2>1, <2>2, Passed
<1> QED BY <1>1, KeymgmtInvariant, PTL DEF KeymgmtSpec, ExportedNumbersAgree

(* The strength the code gives is among those whose least modulus the key  *)
(* has.                                                                    *)
LEMMA StrengthIsGranted ==
  ASSUME NEW bits \in Nat
  PROVE  rsaModulusSizeToStrengthBits(bits) <= SP80057(bits)
<1> DEFINE granted == {0} \cup {row[2] : row \in {r \in Comparable : r[1] <= bits}}
           given == rsaModulusSizeToStrengthBits(bits)
<1>1. granted \in SUBSET (0..256)
  BY DEF Comparable
<1>2. given \in granted
  <2>1. /\ bits > 15360 => 256 \in granted
        /\ bits > 7680 => 192 \in granted
        /\ bits > 3072 => 128 \in granted
        /\ bits > 2048 => 112 \in granted
        /\ bits > 1024 => 80 \in granted
        /\ 0 \in granted
    <3>1. \A r \in Comparable : r[1] <= bits => r[2] \in granted
      OBVIOUS
    <3>2. 0 \in granted
      OBVIOUS
    <3> HIDE DEF granted
    <3>3. \A x, y : <<x, y>>[1] = x /\ <<x, y>>[2] = y
      OBVIOUS
    <3>4. \A x, y \in Nat : <<x, y>> \in Comparable /\ x <= bits => y \in granted
      BY <3>1, <3>3
    <3>5. /\ <<15360, 256>> \in Comparable /\ <<7680, 192>> \in Comparable
          /\ <<3072, 128>> \in Comparable /\ <<2048, 112>> \in Comparable
          /\ <<1024, 80>> \in Comparable
      BY DEF Comparable
    <3>6. /\ bits > 15360 => 15360 <= bits
          /\ bits > 7680 => 7680 <= bits
          /\ bits > 3072 => 3072 <= bits
          /\ bits > 2048 => 2048 <= bits
          /\ bits > 1024 => 1024 <= bits
      OBVIOUS
    <3> QED BY <3>2, <3>4, <3>5, <3>6
  <2> HIDE DEF granted
  <2> QED BY <2>1 DEF rsaModulusSizeToStrengthBits
<1>3. SP80057(bits) = Max(granted)
  BY DEF SP80057, Max
<1> HIDE DEF granted, given
<1>4. Max(granted) \in granted /\ Max(granted) >= given
  BY <1>1, <1>2, MaxIs
<1>5. PICK most \in 0..256 : most = Max(granted)
  BY <1>1, <1>4
<1>6. given \in 0..256 /\ most >= given
  BY <1>1, <1>2, <1>4, <1>5
<1>7. given <= most
  BY <1>6
<1> QED BY <1>3, <1>5, <1>7 DEF given

(* cng_keymgmt_get_params: the security bits are at most those of          *)
(* SP 800-57, for a key of any length.                                     *)
THEOREM StrengthIsSafe == KeymgmtSpec => StrengthNeverOverstated
<1> DEFINE Safe == params' # Nothing /\ "security_bits" \in DOMAIN params'[1] =>
              params'[1].security_bits <= SP80057(key_length)
<1>1. ASSUME KeyIsFixed, [KeymgmtNext]_keyvars PROVE [Safe]_keyvars
  <2>1. CASE params' = <<[bits |-> 512, max_size |-> 4096,
                        security_bits |-> rsaModulusSizeToStrengthBits(key_length)]>>
    <3>1. params'[1].security_bits = rsaModulusSizeToStrengthBits(key_length)
      BY <2>1
    <3>2. key_length \in Nat
      BY <1>1, KeymgmtAssumption DEF KeyIsFixed
    <3> QED BY <3>1, <3>2, StrengthIsGranted
  <2>2. CASE params' = <<[e |-> ReverseBuffer(public_exp), n |-> ReverseBuffer(modulus)]>>
    BY <2>2
  <2> QED BY <1>1, <2>1, <2>2, Passed
<1> QED BY <1>1, KeymgmtInvariant, PTL DEF KeymgmtSpec, StrengthNeverOverstated

(* cng_keymgmt_export, cng_keymgmt_get_params: a call that gives nothing   *)
(* has freed what it allocated, after any number of calls.                 *)
THEOREM FailuresKeepNothing == KeymgmtSpec => FailuresLeakNothing
<1> DEFINE Counted == heap \in [Buffer -> Nat]
<1>1. KeymgmtInit => Counted
  BY DEF KeymgmtInit
<1>2. ASSUME Counted, [KeymgmtNext]_keyvars
      PROVE  Counted' /\ [params' = Nothing => heap' = heap]_keyvars
  <2>1. CASE UNCHANGED heap
    BY <1>2, <2>1
  <2>2. ASSUME NEW selection, ExportFails(selection) PROVE UNCHANGED heap
    <3>1. PICK out \in WayOut :
            heap' = [b \in Buffer |-> heap[b] + (IF b \in out.had \ out.freed THEN 1 ELSE 0)]
      BY <2>2 DEF ExportFails
    <3>2. out.had \ out.freed = {}
      BY DEF WayOut
    <3>3. heap' = [b \in Buffer |-> heap[b] + 0]
      BY <3>1, <3>2
    <3>4. \A b \in Buffer : heap[b] + 0 = heap[b]
      BY <1>2
    <3> QED BY <1>2, <3>3, <3>4
  <2>3. ASSUME NEW selection, ExportPublic(selection)
        PROVE  Counted' /\ params' # Nothing
    <3>1. heap' = [b \in Buffer |-> heap[b] + 1] /\ params' # Nothing
      BY <2>3 DEF ExportPublic, Nothing
    <3> QED BY <1>2, <3>1
  <2>4. UNCHANGED heap \/ \E selection : ExportFails(selection) \/ ExportPublic(selection)
    BY <1>2 DEF KeymgmtNext, GetParams, Export, Refuse, ExportNothing, keyvars
  <2> QED BY <2>1, <2>2, <2>3, <2>4
<1> QED BY <1>1, <1>2, PTL DEF KeymgmtSpec, FailuresLeakNothing

-----------------------------------------------------------------------------
(* The list of CA certificates, as far as it is made.                      *)
First == IF files["oca"] = NoFile THEN {} ELSE {files["oca"]}
Before == IF files["oca"] = NoFile THEN 0 ELSE 1
After == IF files["oca"] = NoFile THEN 1 ELSE 2
Twins == files["oca"] # NoFile /\ subject(files["oca"]) = subject(files["rca"])

CAs ==
  flag =>
    /\ at \in {"tcp", "context", "lock oca"} => objs = {} /\ held = {} /\ made = 0
    /\ at = "find oca" => files["oca"] # NoFile /\ objs = {} /\ held = {1} /\ made = 1
    /\ at = "lock rca" => objs = First /\ held = {} /\ made = Before
    /\ at = "find rca" => files["rca"] # NoFile /\ objs = First /\ held = {made} /\ made = After
    /\ at \in {"ssl", "connect", "select"} =>
         \/ files["rca"] = NoFile /\ objs = First /\ held = {} /\ made = Before
         \/ files["rca"] # NoFile /\ Twins /\ objs = First /\ held = {2} /\ made = 2
         \/ /\ files["rca"] # NoFile /\ ~Twins /\ objs = First \cup {files["rca"]}
            /\ held = {} /\ made = After

(* What is fixed at the start. *)
Settled == flag => peer \in Certificate

ListInv == CAs /\ Settled

LEMMA FirstIs ==
  /\ files["oca"] = NoFile => First = {} /\ Before = 0 /\ After = 1
  /\ files["oca"] # NoFile => First = {files["oca"]} /\ Before = 1 /\ After = 2
BY DEF First, Before, After

LEMMA InitList == Init => ListInv
BY DEF Init, ListInv, CAs, Settled

LEMMA ListStep == ListInv /\ [Next]_vars => ListInv'
<1> SUFFICES ASSUME ListInv, [Next]_vars PROVE ListInv'
  OBVIOUS
<1>1. UNCHANGED environment
  BY DEF Next, TcpConnect, CreateContext, AddCACerts, AddCALock, AddCAFind, NewSsl, Goes, Connected,
         ConnectFails, Selects, SelectReturns, ReadIssuer, Answer, Interruption, vars
<1>2. UNCHANGED <<files, peer, flag, First, Before, After, Twins>>
  BY <1>1 DEF environment, First, Before, After, Twins
<1>3. Settled'
  BY <1>2 DEF ListInv, Settled
<1>4. ASSUME AddCALock("oca", "lock oca", "find oca", "lock rca") PROVE CAs'
  <2>1. /\ at = "lock oca" /\ UNCHANGED objs
        /\ flag => objs = {} /\ held = {} /\ made = 0
    BY <1>4 DEF AddCALock, ListInv, CAs
  <2>2. CASE files["oca"] = NoFile /\ flag
    <3>1. at' = "lock rca" /\ UNCHANGED <<held, made>>
      BY <1>4, <2>2 DEF AddCALock, lock
    <3> QED BY <1>2, <2>1, <2>2, <3>1, FirstIs DEF CAs
  <2>3. CASE files["oca"] # NoFile /\ flag
    <3>1. at' = "find oca" /\ held' = {} \cup {0 + 1} /\ made' = 0 + 1
      BY <1>4, <2>1, <2>3 DEF AddCALock
    <3>2. 0 + 1 = 1
      OBVIOUS
    <3>3. held' = {1} /\ made' = 1
      BY <3>1, <3>2, Zenon
    <3> QED BY <1>2, <2>1, <2>3, <3>1, <3>3 DEF CAs
  <2> QED BY <1>2, <2>2, <2>3 DEF CAs
<1>5. ASSUME AddCAFind("oca", "find oca", "lock rca") PROVE CAs'
  BY <1>2, <1>5 DEF AddCAFind, ListInv, CAs, First, Before
<1>6. ASSUME AddCALock("rca", "lock rca", "find rca", "ssl") PROVE CAs'
  <2>1. /\ at = "lock rca" /\ UNCHANGED objs
        /\ flag => objs = First /\ held = {} /\ made = Before
    BY <1>6 DEF AddCALock, ListInv, CAs
  <2>2. CASE files["rca"] = NoFile /\ flag
    <3>1. at' = "ssl" /\ UNCHANGED <<held, made>>
      BY <1>6, <2>2 DEF AddCALock, lock
    <3> QED BY <1>2, <2>1, <2>2, <3>1 DEF CAs
  <2>3. CASE files["rca"] # NoFile /\ flag
    <3>1. at' = "find rca" /\ held' = {Before + 1} /\ made' = Before + 1
      BY <1>6, <2>1, <2>3 DEF AddCALock
    <3>2. Before + 1 = After
      BY DEF Before, After
    <3>3. held' = {After} /\ made' = After
      BY <3>1, <3>2, Zenon
    <3> QED BY <1>2, <2>1, <2>3, <3>1, <3>3 DEF CAs
  <2> QED BY <1>2, <2>2, <2>3 DEF CAs
<1>7. ASSUME AddCAFind("rca", "find rca", "ssl") PROVE CAs'
  <2>1. /\ at = "find rca" /\ at' = "ssl" /\ UNCHANGED made
        /\ flag => files["rca"] # NoFile /\ objs = First /\ held = {made} /\ made = After
    BY <1>7 DEF AddCAFind, ListInv, CAs
  <2>2. CASE Twins /\ flag
    <3>1. files["oca"] \in objs
      BY <2>1, <2>2 DEF First, Twins
    <3>2. UNCHANGED <<objs, held>>
      BY <1>7, <2>2, <3>1 DEF AddCAFind, Twins
    <3>3. made = 2
      BY <2>1, <2>2, FirstIs DEF Twins
    <3> QED BY <1>2, <2>1, <2>2, <3>2, <3>3 DEF CAs
  <2>3. CASE ~Twins /\ flag
    <3>1. ~\E cert \in objs : subject(cert) = subject(files["rca"])
      BY <2>1, <2>3 DEF First, Twins
    <3>2. objs' = objs \cup {files["rca"]} /\ held' = held \ {made}
      BY <1>7, <3>1 DEF AddCAFind
    <3> QED BY <1>2, <2>1, <2>3, <3>2 DEF CAs
  <2> QED BY <1>2, <2>2, <2>3 DEF CAs
<1>8. ASSUME TcpConnect \/ CreateContext \/ NewSsl \/ ConnectFails PROVE CAs'
  <2>1. UNCHANGED <<objs, held, made>>
    BY <1>8 DEF TcpConnect, CreateContext, NewSsl, ConnectFails, Goes, lock
  <2>2. \/ at = "tcp" /\ at' \in {"context", "refused"}
        \/ at = "context" /\ at' = IF flag THEN "lock oca" ELSE "ssl"
        \/ at = "ssl" /\ at' = "connect"
        \/ at' = "failed"
    BY <1>8 DEF TcpConnect, CreateContext, NewSsl, ConnectFails, Goes
  <2> QED BY <1>2, <2>1, <2>2 DEF ListInv, CAs
<1>9. ASSUME Connected \/ Selects \/ Answer \/ Interruption \/ UNCHANGED vars PROVE CAs'
  <2>1. UNCHANGED <<objs, held, made>>
    BY <1>9 DEF Connected, Selects, SelectReturns, Answer, Interruption, Goes, lock, vars
  <2>2. \/ UNCHANGED at
        \/ at \in {"connect", "select"} /\ at' \in {"connect", "select"}
        \/ at' = "connected"
    BY <1>9 DEF Connected, Selects, SelectReturns, Answer, Interruption, Goes, vars
  <2>3. UNCHANGED <<Before, After, First, Twins, files, flag>>
    BY <1>2
  <2>4. CASE UNCHANGED at
    BY <2>1, <2>3, <2>4, Zenon DEF ListInv, CAs
  <2>5. CASE at \in {"connect", "select"} /\ at' \in {"connect", "select"}
    BY <2>1, <2>3, <2>5 DEF ListInv, CAs
  <2>6. CASE at' = "connected"
    BY <2>6 DEF CAs
  <2> QED BY <2>2, <2>4, <2>5, <2>6
<1>10. ASSUME ReadIssuer PROVE CAs'
  <2>1. at' \in {"commonName", "test", "organizationalUnitName", "done"}
    BY <1>10 DEF ReadIssuer, GetNames, ReadNames, CommonName, TestEmpty, OrganizationalUnit
  <2> QED BY <2>1 DEF CAs
<1> QED BY <1>3, <1>4, <1>5, <1>6, <1>7, <1>8, <1>9, <1>10 DEF Next, AddCACerts, ListInv

LEMMA ListIsWhole == ListInv => ListsBothFiles
<1> SUFFICES ASSUME ListInv, at = "connect", flag
             PROVE  /\ peer \in {files["oca"], files["rca"]} /\ peer \notin objs =>
                         peer # files["oca"] /\ files["oca"] # NoFile
                           /\ subject(files["oca"]) = subject(peer)
                    /\ \A one, other \in objs : subject(one) = subject(other) => one = other
                    /\ Cardinality(held) = made - Cardinality(objs)
  BY DEF ListsBothFiles
<1>1. peer # NoFile
  BY TasslPeerAssumption DEF ListInv, Settled, Certificate
<1>2. Cardinality({}) = 0 /\ \A x : Cardinality({x}) = 1
  BY FS_EmptySet, FS_Singleton
<1>3. \A x, y : x # y => Cardinality({x} \cup {y}) = 2
  <2> SUFFICES ASSUME NEW x, NEW y, x # y PROVE Cardinality({x} \cup {y}) = 2
    OBVIOUS
  <2>1. IsFiniteSet({x}) /\ Cardinality({x}) = 1
    BY FS_Singleton
  <2> QED BY <2>1, FS_AddElement
<1>4. 0 = 0 - 0 /\ 0 = 1 - 1 /\ 0 = 2 - 2 /\ 1 = 2 - 1
  OBVIOUS
<1>5. CASE files["rca"] = NoFile /\ objs = First /\ held = {} /\ made = Before
  <2>1. CASE files["oca"] = NoFile
    BY <1>1, <1>2, <1>5, <2>1, FirstIs
  <2>2. CASE files["oca"] # NoFile
    <3>1. objs = {files["oca"]} /\ held = {} /\ made = 1
      BY <1>5, <2>2, FirstIs
    <3>2. Cardinality(held) = made - Cardinality(objs)
      BY <1>2, <1>4, <3>1, Zenon
    <3> QED BY <1>1, <1>5, <3>1, <3>2, Zenon
  <2> QED BY <2>1, <2>2
<1>6. CASE files["rca"] # NoFile /\ Twins /\ objs = First /\ held = {2} /\ made = 2
  <2>1. objs = {files["oca"]} /\ held = {2} /\ made = 2
    BY <1>6, FirstIs DEF Twins
  <2>2. Cardinality(held) = made - Cardinality(objs)
    BY <1>2, <1>4, <2>1, Zenon
  <2> QED BY <1>1, <1>6, <2>1, <2>2, Zenon DEF Twins
<1>7. CASE /\ files["rca"] # NoFile /\ ~Twins /\ objs = First \cup {files["rca"]}
           /\ held = {} /\ made = After
  <2>1. CASE files["oca"] = NoFile
    <3>1. objs = {files["rca"]} /\ held = {} /\ made = 1
      BY <1>7, <2>1, FirstIs
    <3>2. Cardinality(held) = made - Cardinality(objs)
      BY <1>2, <1>4, <3>1, Zenon
    <3> QED BY <1>1, <2>1, <3>1, <3>2, Zenon
  <2>2. CASE files["oca"] # NoFile
    <3>1. subject(files["oca"]) # subject(files["rca"]) /\ files["oca"] # files["rca"]
      BY <1>7, <2>2 DEF Twins
    <3>2. objs = {files["oca"]} \cup {files["rca"]} /\ made = 2
      BY <1>7, <2>2, FirstIs
    <3>3. Cardinality(objs) = 2 /\ Cardinality(held) = 0 /\ made = 2
      <4>1. Cardinality({files["oca"]} \cup {files["rca"]}) = 2
        BY <1>3, <3>1, Zenon
      <4> QED BY <1>2, <1>7, <3>2, <4>1, Zenon
    <3>4. Cardinality(held) = made - Cardinality(objs)
      BY <1>4, <3>3, Zenon
    <3>5. \A one, other \in objs : subject(one) = subject(other) => one = other
      BY <3>1, <3>2, Zenon
    <3> QED BY <1>1, <3>2, <3>5, <3>4, Zenon
  <2> QED BY <2>1, <2>2
<1> QED BY <1>5, <1>6, <1>7 DEF ListInv, CAs

LEMMA ListInvariant == Spec => []ListInv
<1>1. Init => ListInv
  BY InitList
<1>2. ListInv /\ [Next]_vars => ListInv'
  BY ListStep
<1> QED BY <1>1, <1>2, PTL DEF Spec

(* tasslclient.c, Cert_SSL_AddCACert: with verification the list holds one *)
(* certificate for every subject of either file when the handshake begins, *)
(* for any certificates; the addition of a subject that was there already  *)
(* keeps the lock it made, and only that one does.                         *)
THEOREM PeerListsBothFiles == Spec => []ListsBothFiles
<1>1. ListInv => ListsBothFiles
  BY ListIsWhole
<1> QED BY <1>1, ListInvariant, PTL
-----------------------------------------------------------------------------
(* NETC_SSL_X509_ASN1_STRING_print: what comes out of the memory BIO and   *)
(* the copying buffer is the data, in chunks of any size.                  *)
Printed == [bio : Seq(Nat), acbuf : Seq(Nat)]

LEMMA PrintedIs ==
  ASSUME NEW bio, NEW acbuf, NEW acc, acc = [bio |-> bio, acbuf |-> acbuf]
  PROVE  acc.bio = bio /\ acc.acbuf = acbuf
OBVIOUS

LEMMA IsPrinted ==
  ASSUME NEW bio \in Seq(Nat), NEW acbuf \in Seq(Nat)
  PROVE  [bio |-> bio, acbuf |-> acbuf] \in Printed
BY DEF Printed

LEMMA PrintByteIs ==
  ASSUME NEW acc \in Printed, NEW byte \in Nat
  PROVE  /\ PrintByte(acc, byte) \in Printed
         /\ PrintByte(acc, byte).bio \o PrintByte(acc, byte).acbuf
              = Append(acc.bio \o acc.acbuf, byte)
<1>1. PICK bio \in Seq(Nat), acbuf \in Seq(Nat) : acc = [bio |-> bio, acbuf |-> acbuf]
  BY DEF Printed
<1>2. Append(acbuf, byte) \in Seq(Nat) /\ bio \o Append(acbuf, byte) \in Seq(Nat)
  BY AppendProperties, ConcatProperties
<1>3. bio \o Append(acbuf, byte) = Append(bio \o acbuf, byte)
  <2> DEFINE whole == Append(bio \o acbuf, byte)
             parts == bio \o Append(acbuf, byte)
  <2>1. bio \o acbuf \in Seq(Nat) /\ Len(bio \o acbuf) = Len(bio) + Len(acbuf)
    BY ConcatProperties
  <2>2. whole \in Seq(Nat) /\ Len(whole) = Len(bio) + Len(acbuf) + 1
    BY <2>1, AppendProperties
  <2>3. parts \in Seq(Nat) /\ Len(parts) = Len(bio) + (Len(acbuf) + 1)
    BY <1>2, AppendProperties, ConcatProperties
  <2>4. Len(bio) \in Nat /\ Len(acbuf) \in Nat
    BY LenProperties
  <2>5. ASSUME NEW i \in 1..Len(parts) PROVE whole[i] = parts[i]
    <3> DEFINE b == Len(bio)
               a == Len(acbuf)
    <3>1. i \in 1..b + (a + 1) /\ b \in Nat /\ a \in Nat
      BY <2>3, <2>4
    <3>2. parts[i] = IF i <= b THEN bio[i] ELSE Append(acbuf, byte)[i - b]
      BY <1>2, <2>3, ConcatProperties
    <3>3. CASE i = b + (a + 1)
      <4>1. whole[i] = byte
        BY <2>1, <3>1, <3>3, AppendProperties
      <4>2. Append(acbuf, byte)[i - b] = byte
        BY <3>1, <3>3, AppendProperties
      <4> QED BY <3>1, <3>2, <3>3, <4>1, <4>2
    <3>4. CASE i # b + (a + 1)
      <4>1. i \in 1..b + a
        BY <3>1, <3>4
      <4>2. whole[i] = (bio \o acbuf)[i]
        BY <2>1, <4>1, AppendProperties
      <4>3. (bio \o acbuf)[i] = IF i <= b THEN bio[i] ELSE acbuf[i - b]
        BY <4>1, ConcatProperties
      <4>4. ~(i <= b) => i - b \in 1..a
        BY <3>1, <4>1
      <4>5. ~(i <= b) => Append(acbuf, byte)[i - b] = acbuf[i - b]
        BY <4>4, AppendProperties
      <4> QED BY <3>2, <4>2, <4>3, <4>5, Zenon
    <3> QED BY <3>3, <3>4
  <2>6. Len(whole) = Len(parts)
    BY <2>2, <2>3, <2>4
  <2> HIDE DEF whole, parts
  <2>7. parts = whole
    BY <2>2, <2>3, <2>5, <2>6, SeqEqual
  <2> QED BY <2>7 DEF whole, parts
<1>4. acc.bio = bio /\ acc.acbuf = acbuf
  BY <1>1, PrintedIs
<1>5. CASE Len(acbuf) + 1 >= Chunk
  <2>1. PrintByte(acc, byte) = [bio |-> bio \o Append(acbuf, byte), acbuf |-> <<>>]
    BY <1>1, <1>5 DEF PrintByte
  <2>2. <<>> \in Seq(Nat) /\ (bio \o Append(acbuf, byte)) \o <<>> = bio \o Append(acbuf, byte)
    BY <1>2, EmptySeq, ConcatEmptySeq
  <2>3. /\ PrintByte(acc, byte).bio = bio \o Append(acbuf, byte)
        /\ PrintByte(acc, byte).acbuf = <<>>
    <3> DEFINE filled == bio \o Append(acbuf, byte)
    <3>1. PrintByte(acc, byte) = [bio |-> filled, acbuf |-> <<>>]
      BY <2>1
    <3> HIDE DEF filled
    <3>2. PrintByte(acc, byte).bio = filled /\ PrintByte(acc, byte).acbuf = <<>>
      BY <3>1
    <3> QED BY <3>2 DEF filled
  <2>4. PrintByte(acc, byte) \in Printed
    BY <1>2, <2>1, <2>2, IsPrinted, Zenon
  <2>5. PrintByte(acc, byte).bio \o PrintByte(acc, byte).acbuf = bio \o Append(acbuf, byte)
    BY <2>2, <2>3, Zenon
  <2> QED BY <1>3, <1>4, <2>4, <2>5, Zenon
<1>6. CASE ~(Len(acbuf) + 1 >= Chunk)
  <2>1. PrintByte(acc, byte) = [bio |-> bio, acbuf |-> Append(acbuf, byte)]
    BY <1>1, <1>6 DEF PrintByte
  <2>2. /\ PrintByte(acc, byte).bio = bio
        /\ PrintByte(acc, byte).acbuf = Append(acbuf, byte)
    BY <2>1
  <2>3. PrintByte(acc, byte) \in Printed
    BY <1>2, <2>1, IsPrinted, Zenon
  <2> QED BY <1>3, <1>4, <2>2, <2>3, Zenon
<1> QED BY <1>5, <1>6

LEMMA StringPrintIs ==
  ASSUME NEW data \in Seq(Nat)
  PROVE  StringPrint(data) = data
<1> DEFINE S == DOMAIN data
           n == Len(data)
           empty == [bio |-> <<>>, acbuf |-> <<>>]
           choose == [s \in SUBSET S |-> Max(s)]
           step == [p \in S \X Printed |-> PrintByte(p[2], data[p[1]])]
           Prints(iter) == iter = [s \in SUBSET S |->
             IF s = {} THEN empty ELSE PrintByte(iter[s \ {Max(s)}], data[Max(s)])]
           total == CHOOSE iter : Prints(iter)
<1>1. n \in Nat /\ S = 1..n /\ IsFiniteSet(S) /\ data \in [S -> Nat]
  <2>1. n \in Nat /\ S = 1..n /\ data \in [1..n -> Nat]
    BY LenProperties
  <2>2. \A m \in Nat : IsFiniteSet(1..m)
    BY FS_Interval
  <2> HIDE DEF S, n
  <2> QED BY <2>1, <2>2
<1>2. \A s \in SUBSET S : s # {} => Max(s) \in s
  <2>1. \A s \in SUBSET S : s \in SUBSET (0..n)
    BY <1>1
  <2> QED BY <1>1, <2>1, MaxIs
<1>3. empty \in Printed /\ empty.bio = <<>> /\ empty.acbuf = <<>>
  BY EmptySeq, IsPrinted, PrintedIs
<1>4. step \in [S \X Printed -> Printed]
  <2> SUFFICES ASSUME NEW p \in S \X Printed PROVE PrintByte(p[2], data[p[1]]) \in Printed
    OBVIOUS
  <2>1. p[2] \in Printed /\ data[p[1]] \in Nat
    BY <1>1
  <2> QED BY <2>1, PrintByteIs
<1>5. StringPrint(data) = total[S].bio \o total[S].acbuf
  BY Zenon DEF StringPrint, FoldLeft, MapThenFoldSet
<1> HIDE DEF empty, S, n
<1>6. Chooses(choose, S)
  BY <1>2 DEF Chooses
<1> HIDE DEF step
<1>7. PICK iter \in [SUBSET S -> Printed] : IsFold(iter, S, empty, choose, step)
  <2> HIDE DEF choose
  <2> QED BY <1>1, <1>3, <1>4, <1>6, FoldExists
<1>8. Prints(iter)
  <2>1. ASSUME NEW s \in SUBSET S
        PROVE  iter[s] = IF s = {} THEN empty ELSE PrintByte(iter[s \ {Max(s)}], data[Max(s)])
    <3>1. s # {} => Max(s) \in S /\ iter[s \ {Max(s)}] \in Printed
      BY <1>2
    <3> QED BY <1>7, <3>1 DEF IsFold, step
  <2>2. iter = [s \in SUBSET S |-> iter[s]]
    OBVIOUS
  <2> QED BY <2>1, <2>2, Zenon
<1>9. Prints(total)
  <2> HIDE DEF Prints
  <2> QED BY <1>8, Zenon
<1> HIDE DEF total
<1> DEFINE Right(k) == /\ total[1..k] \in Printed
                       /\ total[1..k].bio \o total[1..k].acbuf = SubSeq(data, 1, k)
           Bad == {k \in 0..n : ~Right(k)}
<1>10. SubSeq(data, 1, n) = data /\ SubSeq(data, 1, 0) = <<>>
  BY <1>1 DEF n
<1>11. Right(0)
  <2>1. 1..0 = {} /\ {} \in SUBSET S
    OBVIOUS
  <2>2. total[{}] = empty
    BY <1>9, <2>1, Zenon
  <2>3. <<>> \o <<>> = <<>>
    BY EmptySeq, ConcatEmptySeq
  <2> QED BY <1>3, <1>10, <2>1, <2>2, <2>3, Zenon
<1>12. ASSUME NEW k \in 1..n, Right(k - 1) PROVE Right(k)
  <2>1. 1..k \in SUBSET S /\ 1..k # {} /\ 1..k \in SUBSET (0..n)
    <3>1. n \in Nat /\ k \in Nat /\ 1 <= k /\ k <= n
      BY <1>1
    <3>2. \A m \in 1..k : m \in 1..n /\ m \in 0..n
      BY <3>1
    <3>3. 1 \in 1..k
      BY <3>1
    <3> QED BY <1>1, <3>2, <3>3, Zenon
  <2>2. Max(1..k) = k
    <3>1. Max(1..k) \in 1..k /\ \A m \in 1..k : Max(1..k) >= m
      BY <1>1, <2>1, MaxIs
    <3> QED BY <3>1
  <2>3. (1..k) \ {k} = 1..k - 1
    OBVIOUS
  <2>4. total[1..k] = PrintByte(total[1..k - 1], data[k])
    BY <1>9, <2>1, <2>2, <2>3, Zenon
  <2>5. data[k] \in Nat
    BY <1>1
  <2>6. Append(SubSeq(data, 1, k - 1), data[k]) = SubSeq(data, 1, k)
    BY <1>1 DEF n
  <2> QED BY <1>12, <2>4, <2>5, <2>6, PrintByteIs, Zenon
<1> HIDE DEF Right
<1>13. Bad = {}
  <2> SUFFICES ASSUME Bad # {} PROVE FALSE
    OBVIOUS
  <2>1. PICK k \in Bad : \A j \in Bad : k <= j
    <3>1. Bad \in SUBSET Nat
      BY <1>1
    <3> HIDE DEF Bad
    <3> QED BY <3>1, Least
  <2>2. k \in 1..n /\ k - 1 \in 0..n /\ ~(k <= k - 1)
    BY <1>1, <1>11
  <2>3. Right(k - 1)
    BY <2>1, <2>2
  <2> QED BY <1>12, <2>2, <2>3
<1>14. Right(n)
  BY <1>1, <1>13
<1> QED BY <1>1, <1>5, <1>10, <1>14 DEF Right
-----------------------------------------------------------------------------
(* Two bytes for a character, turned round and converted, or one byte for  *)
(* each: what is put into the caller's buffer is the text of the entry.    *)
Converted(entry) ==
  LET bytes == StringPrint(Data(entry))
  IN IF entry.type = "BMPSTRING" THEN Unicode2GBK(ChangeEndianOrder(bytes)) ELSE bytes

LEMMA EntryIs ==
  ASSUME NEW entry \in Entry
  PROVE  \E m \in Nat : entry.text \in [1..m -> Character] /\ Len(entry.text) = m
<1>1. entry.text \in BoundedSeq(Character, MaxText)
  BY DEF Entry
<1>2. PICK m \in 0..MaxText : entry.text \in [1..m -> Character]
  BY <1>1 DEF BoundedSeq, SeqOf
<1>3. m \in Nat
  BY CertNameAssumption
<1>4. Len(entry.text) = m
  BY <1>2, <1>3
<1> QED BY <1>2, <1>3, <1>4

LEMMA ConvertedIs ==
  ASSUME NEW entry \in Entry
  PROVE  Converted(entry) = entry.text
<1>1. PICK m \in Nat : entry.text \in [1..m -> Character] /\ Len(entry.text) = m
  BY EntryIs
<1>2. Character \subseteq Nat
  BY CertNameAssumption
<1>3. CASE entry.type = "BMPSTRING"
  <2> DEFINE data == [i \in 1..(2 * m) |-> IF i % 2 = 1 THEN 0 ELSE entry.text[i \div 2]]
  <2>1. \A i \in 1..(2 * m) : i % 2 # 1 => i \div 2 \in 1..m
    OBVIOUS
  <2>2. data \in [1..(2 * m) -> Nat] /\ 2 * m \in Nat
    <3>1. ASSUME NEW i \in 1..(2 * m)
          PROVE  (IF i % 2 = 1 THEN 0 ELSE entry.text[i \div 2]) \in Nat
      <4>1. CASE i % 2 = 1
        BY <4>1
      <4>2. CASE i % 2 # 1
        <5>1. PICK j \in 1..m : i \div 2 = j
          BY <2>1, <4>2
        <5>2. entry.text[j] \in Nat
          BY <1>1, <1>2
        <5> QED BY <4>2, <5>1, <5>2, Zenon
      <4> QED BY <4>1, <4>2
    <3>2. 2 * m \in Nat
      OBVIOUS
    <3> QED BY <3>1, <3>2, Zenon
  <2>3. Data(entry) = data
    BY <1>1, <1>3 DEF Data
  <2>4. \A j \in 1..m : 2 * j \in 1..(2 * m) /\ data[2 * j] = entry.text[j]
    <3> SUFFICES ASSUME NEW j \in 1..m
                 PROVE  2 * j \in 1..(2 * m) /\ data[2 * j] = entry.text[j]
      OBVIOUS
    <3>1. 2 * j \in 1..(2 * m) /\ (2 * j) % 2 # 1 /\ (2 * j) \div 2 = j
      OBVIOUS
    <3> QED BY <3>1
  <2> HIDE DEF data
  <2>5. StringPrint(data) = data /\ DOMAIN data = 1..(2 * m)
    <3>1. data \in Seq(Nat)
      BY <2>2
    <3> QED BY <2>2, <3>1, StringPrintIs
  <2> DEFINE turned == ChangeEndianOrder(data)
  <2>6. /\ Len(turned) = 2 * m
        /\ \A j \in 1..m : turned[2 * j - 1] = data[2 * j]
    <3>1. turned = [i \in 1..(2 * m) |->
                     LET other == IF i % 2 = 1 THEN i + 1 ELSE i - 1
                     IN IF other \in 1..(2 * m) THEN data[other] ELSE data[i]]
      BY <2>5 DEF ChangeEndianOrder
    <3>2. ASSUME NEW j \in 1..m PROVE turned[2 * j - 1] = data[2 * j]
      <4>1. 2 * j - 1 \in 1..(2 * m) /\ (2 * j - 1) % 2 = 1 /\ (2 * j - 1) + 1 = 2 * j
        OBVIOUS
      <4>2. 2 * j \in 1..(2 * m)
        BY <2>4
      <4> QED BY <3>1, <4>1, <4>2
    <3>3. Len(turned) = 2 * m
      BY <2>2, <3>1
    <3> QED BY <3>2, <3>3
  <2> HIDE DEF turned
  <2>7. (2 * m) \div 2 = m
    OBVIOUS
  <2>8. Unicode2GBK(turned) = [i \in 1..m |-> turned[2 * i - 1]]
    BY <2>6, <2>7 DEF Unicode2GBK
  <2>9. Unicode2GBK(turned) = [i \in 1..m |-> entry.text[i]]
    BY <2>4, <2>6, <2>8
  <2>10. Converted(entry) = Unicode2GBK(turned)
    BY <1>3, <2>3, <2>5 DEF Converted, turned
  <2> QED BY <1>1, <2>9, <2>10
<1>4. CASE entry.type # "BMPSTRING"
  <2>1. Data(entry) = entry.text
    BY <1>4 DEF Data
  <2>2. entry.text \in Seq(Nat)
    <3>1. entry.text \in [1..m -> Nat]
      BY <1>1, <1>2
    <3> QED BY <3>1
  <2> QED BY <1>4, <2>1, <2>2, StringPrintIs DEF Converted
<1> QED BY <1>3, <1>4

(* The loop that looks for the last entry of a kind finds it.              *)
LEMMA LastIs ==
  ASSUME issuer \in Seq(Entry), NEW nid
  PROVE  /\ Indices(nid) = {} => LastOf(nid) = {}
         /\ Indices(nid) # {} =>
              LastIndex(nid) \in DOMAIN issuer /\ LastOf(nid) = {LastIndex(nid)}
<1>1. DOMAIN issuer = 1..Len(issuer) /\ Len(issuer) \in Nat
  BY LenProperties
<1>2. Indices(nid) \in SUBSET (0..Len(issuer)) /\ Indices(nid) \subseteq DOMAIN issuer
  BY <1>1 DEF Indices
<1>3. ASSUME Indices(nid) # {}
      PROVE  LastIndex(nid) \in DOMAIN issuer /\ LastOf(nid) = {LastIndex(nid)}
  <2>1. \E i \in Indices(nid) : \A j \in Indices(nid) : i >= j
    BY <1>1, <1>2, <1>3, Largest
  <2>2. \A i, j \in Indices(nid) : i \in Nat /\ j \in Nat /\ (i >= j <=> j <= i)
    BY <1>1, <1>2
  <2>3. \E i \in Indices(nid) : \A j \in Indices(nid) : j <= i
    BY <2>1, <2>2
  <2>4. LastIndex(nid) \in Indices(nid) /\ \A j \in Indices(nid) : j <= LastIndex(nid)
    BY <2>3, Zenon DEF LastIndex
  <2>5. PICK last \in Indices(nid) : last = LastIndex(nid) /\ \A j \in Indices(nid) : j <= last
    BY <2>4
  <2>6. LastOf(nid) = {last}
    BY <1>1, <1>2, <2>5 DEF LastOf, Indices
  <2> QED BY <1>2, <2>5, <2>6
<1>4. Indices(nid) = {} => LastOf(nid) = {}
  BY DEF LastOf, Indices
<1> QED BY <1>3, <1>4

(* What an extraction does to a buffer, in terms of the last entry.        *)
LEMMA ExtractTextIs ==
  ASSUME issuer \in Seq(Entry), NEW nid, NEW buf
  PROVE  /\ LastOf(nid) = {} => ExtractText(nid, buf) = buf
         /\ \A i \in LastOf(nid) :
              /\ issuer[i] \in Entry /\ LastOf(nid) = {i}
              /\ ExtractText(nid, buf) =
                   IF issuer[i].type # "PRINTABLESTRING" /\ issuer[i].text = <<>> THEN buf
                   ELSE Put(buf, issuer[i].text)
<1>1. CASE Indices(nid) = {}
  BY <1>1, LastIs DEF ExtractText
<1>2. CASE Indices(nid) # {}
  <2>1. LastIndex(nid) \in DOMAIN issuer /\ LastOf(nid) = {LastIndex(nid)}
    BY <1>2, LastIs
  <2> DEFINE entry == issuer[LastIndex(nid)]
  <2>2. entry \in Entry
    BY <2>1, LenProperties
  <2>3. Converted(entry) = entry.text
    BY <2>2, ConvertedIs
  <2>4. ExtractText(nid, buf) =
          IF entry.type # "PRINTABLESTRING" /\ Converted(entry) = <<>> THEN buf
          ELSE Put(buf, Converted(entry))
    BY <1>2, Zenon DEF ExtractText, Converted
  <2>5. \A i \in LastOf(nid) : i = LastIndex(nid)
    BY <2>1
  <2> QED BY <2>1, <2>2, <2>3, <2>4, <2>5, Zenon
<1> QED BY <1>1, <1>2
-----------------------------------------------------------------------------
(* The buffer keeps its length, whatever is put into it.                   *)
Holds(n, buf) == n \in Nat \ {0} /\ buf \in [1..n -> Nat] /\ Len(buf) = n

LEMMA PutIs ==
  ASSUME NEW n, NEW buf, Holds(n, buf), NEW m \in Nat, NEW text \in [1..m -> Character]
  PROVE  /\ Holds(n, Put(buf, text))
         /\ n <= m /\ n = 1 => Put(buf, text) = buf
         /\ n <= m /\ n # 1 => Put(buf, text)[1] = 0
         /\ m < n => Put(buf, text)[m + 1] = 0 /\ \A i \in 1..m : Put(buf, text)[i] = text[i]
<1>1. n \in Nat \ {0} /\ buf \in [1..n -> Nat] /\ Len(buf) = n /\ Len(text) = m
      /\ DOMAIN buf = 1..n /\ Character \subseteq Nat
  BY CertNameAssumption DEF Holds
<1>2. CASE n <= m
  <2>1. Put(buf, text) = [i \in 1..n |-> IF i < n THEN 0 ELSE buf[i]]
    BY <1>1, <1>2 DEF Put
  <2>2. Holds(n, Put(buf, text))
    BY <1>1, <2>1 DEF Holds
  <2>3. n = 1 => Put(buf, text) = buf
    <3> SUFFICES ASSUME n = 1 PROVE Put(buf, text) = buf
      OBVIOUS
    <3>1. \A i \in 1..n : ~(i < n)
      BY <1>1
    <3> QED BY <1>1, <2>1, <3>1
  <2>4. n # 1 => Put(buf, text)[1] = 0
    BY <1>1, <2>1
  <2> QED BY <1>1, <1>2, <2>2, <2>3, <2>4
<1>3. CASE ~(n <= m)
  <2>1. Put(buf, text) = [i \in 1..n |-> CASE i <= m -> text[i]
                                         [] i = m + 1 -> 0
                                         [] OTHER -> buf[i]]
    BY <1>1, <1>3 DEF Put
  <2>2. \A i \in 1..n : i <= m => i \in 1..m
    BY <1>1
  <2>3. \A i \in 1..m : i \in 1..n /\ i <= m
    BY <1>1, <1>3
  <2>4. m + 1 \in 1..n /\ ~(m + 1 <= m)
    BY <1>1, <1>3
  <2>5. ASSUME NEW i \in 1..n PROVE Put(buf, text)[i] \in Nat
    <3>1. CASE i <= m
      BY <1>1, <2>1, <2>2, <3>1
    <3>2. CASE ~(i <= m)
      BY <1>1, <2>1, <3>2
    <3> QED BY <3>1, <3>2
  <2>6. Holds(n, Put(buf, text))
    <3>1. Put(buf, text) \in [1..n -> Nat]
      BY <2>1, <2>5
    <3> QED BY <1>1, <3>1 DEF Holds
  <2>7. Put(buf, text)[m + 1] = 0
    BY <2>1, <2>4
  <2>8. \A i \in 1..m : Put(buf, text)[i] = text[i]
    BY <2>1, <2>3
  <2> QED BY <1>1, <1>3, <2>6, <2>7, <2>8
<1> QED BY <1>2, <1>3

(* The string in a buffer. *)
TextIn(buf) ==
  LET before == {n \in 0..Len(buf) : \A i \in 1..n : buf[i] # 0}
      n == CHOOSE n \in before : \A m \in before : m <= n
  IN SubSeq(buf, 1, n)

LEMMA TextIs ==
  ASSUME NEW n, NEW buf, Holds(n, buf), NEW m \in Nat, NEW text \in [1..m -> Character],
         m < n, buf[m + 1] = 0, \A i \in 1..m : buf[i] = text[i]
  PROVE  TextIn(buf) = text
<1> DEFINE before == {k \in 0..Len(buf) : \A i \in 1..k : buf[i] # 0}
           end == CHOOSE k \in before : \A j \in before : j <= k
<1>1. n \in Nat /\ Len(buf) = n /\ buf \in [1..n -> Nat] /\ \A c \in Character : c # 0
  BY CertNameAssumption DEF Holds
<1>2. before = 0..m
  <2>1. ASSUME NEW k \in 0..m PROVE k \in before
    <3>1. k \in 0..Len(buf) /\ \A i \in 1..k : i \in 1..m
      BY <1>1
    <3>2. \A i \in 1..m : buf[i] # 0
      BY <1>1
    <3> QED BY <3>1, <3>2
  <2>2. ASSUME NEW k \in before PROVE k \in 0..m
    <3>1. k \in 0..n /\ ~(m + 1 \in 1..k)
      BY <1>1
    <3> QED BY <1>1, <3>1
  <2> HIDE DEF before
  <2> QED BY <2>1, <2>2
<1> HIDE DEF before
<1>3. end = m
  <2>1. m \in before /\ \A j \in before : j <= m
    BY <1>2
  <2>2. end \in before /\ \A j \in before : j <= end
    BY <2>1, Zenon
  <2> HIDE DEF end
  <2> QED BY <1>2, <2>1, <2>2
<1>4. TextIn(buf) = SubSeq(buf, 1, end)
  BY Zenon DEF TextIn, end, before
<1>5. SubSeq(buf, 1, m) = text
  <2>1. SubSeq(buf, 1, m) = [i \in 1..m |-> buf[i]]
    BY <1>1
  <2>2. text = [i \in 1..m |-> text[i]]
    OBVIOUS
  <2> QED BY <2>1, <2>2
<1> QED BY <1>3, <1>4, <1>5, Zenon

LEMMA NoText ==
  ASSUME NEW n, NEW buf, Holds(n, buf), buf[1] = 0
  PROVE  TextIn(buf) = <<>>
<1> DEFINE none == [i \in 1..0 |-> 0]
<1>1. none \in [1..0 -> Character] /\ none = <<>> /\ 0 \in Nat /\ 0 + 1 = 1
  OBVIOUS
<1>2. 0 < n
  BY DEF Holds
<1>3. \A i \in 1..0 : buf[i] = none[i]
  OBVIOUS
<1> HIDE DEF none
<1>4. TextIn(buf) = none
  BY <1>1, <1>2, <1>3, TextIs
<1> QED BY <1>1, <1>4

LEMMA TextBegins ==
  ASSUME NEW n, NEW buf, Holds(n, buf), buf[1] # 0
  PROVE  TextIn(buf) # <<>>
<1> DEFINE before == {k \in 0..Len(buf) : \A i \in 1..k : buf[i] # 0}
           end == CHOOSE k \in before : \A j \in before : j <= k
<1>1. n \in Nat \ {0} /\ Len(buf) = n /\ buf \in [1..n -> Nat]
  BY DEF Holds
<1>2. 1 \in before /\ before \in SUBSET (0..n)
  BY <1>1
<1> HIDE DEF before
<1>3. PICK k \in before : \A j \in before : k >= j
  BY <1>1, <1>2, Largest
<1>4. \A j \in before : j <= k
  BY <1>1, <1>2, <1>3
<1>5. end \in before /\ \A j \in before : j <= end
  BY <1>4, Zenon
<1>6. TextIn(buf) = SubSeq(buf, 1, end)
  BY Zenon DEF TextIn, end, before
<1> HIDE DEF end
<1>7. end \in 1..n
  BY <1>1, <1>2, <1>5
<1>8. Len(SubSeq(buf, 1, end)) = end
  BY <1>1, <1>7
<1>9. TextIn(buf) = <<>> => end = 0
  <2>1. Len(<<>>) = 0
    OBVIOUS
  <2> QED BY <1>6, <1>8, <2>1, Zenon
<1> QED BY <1>7, <1>9

(* The text stored is that of the last entry, if it fits.                  *)
LEMMA StoredIs ==
  ASSUME issuer \in Seq(Entry), NEW nid
  PROVE  /\ LastOf(nid) = {} => Stored(nid) = <<>>
         /\ \A i \in LastOf(nid) :
              Stored(nid) = IF Len(issuer[i].text) < Len(buffer) THEN issuer[i].text ELSE <<>>
<1>1. LastOf(nid) = {} => Fitting(nid) = {}
  BY DEF Fitting
<1>2. ASSUME NEW i \in LastOf(nid)
      PROVE  Fitting(nid) = IF Len(issuer[i].text) < Len(buffer) THEN {issuer[i].text} ELSE {}
  <2>1. LastOf(nid) = {i}
    BY ExtractTextIs
  <2>2. {issuer[k].text : k \in LastOf(nid)} = {issuer[i].text}
    BY <2>1
  <2> QED BY <2>2 DEF Fitting
<1>3. LastOf(nid) = {} => Stored(nid) = <<>>
  BY <1>1 DEF Stored
<1>4. ASSUME NEW i \in LastOf(nid)
      PROVE  Stored(nid) = IF Len(issuer[i].text) < Len(buffer) THEN issuer[i].text ELSE <<>>
  <2>1. CASE Len(issuer[i].text) < Len(buffer)
    <3>1. Fitting(nid) = {issuer[i].text}
      BY <1>2, <2>1
    <3>2. (CHOOSE text \in {issuer[i].text} : TRUE) = issuer[i].text
      OBVIOUS
    <3> QED BY <2>1, <3>1, <3>2, Zenon DEF Stored
  <2>2. CASE ~(Len(issuer[i].text) < Len(buffer))
    BY <1>2, <2>2, Zenon DEF Stored
  <2> QED BY <2>1, <2>2
<1> QED BY <1>3, <1>4

(* An extraction into a buffer whose string is empty leaves the text there *)
(* that is stored, if any.                                                 *)
LEMMA ExtractedInto ==
  ASSUME issuer \in Seq(Entry), NEW n, Holds(n, buffer), NEW nid,
         buffer[1] = 0
  PROVE  TextIn(ExtractText(nid, buffer)) = Stored(nid)
<1>1. TextIn(buffer) = <<>> /\ Len(buffer) = n /\ n \in Nat
  BY NoText DEF Holds
<1>2. CASE LastOf(nid) = {}
  BY <1>1, <1>2, ExtractTextIs, StoredIs
<1>3. ASSUME NEW i \in LastOf(nid) PROVE TextIn(ExtractText(nid, buffer)) = Stored(nid)
  <2> DEFINE text == issuer[i].text
             put == Put(buffer, text)
  <2>1. PICK m \in Nat : text \in [1..m -> Character] /\ Len(text) = m
    BY <1>3, ExtractTextIs, EntryIs
  <2>2. Stored(nid) = IF m < n THEN text ELSE <<>>
    BY <1>1, <1>3, <2>1, StoredIs
  <2>3. (ExtractText(nid, buffer) = buffer /\ text = <<>>) \/ ExtractText(nid, buffer) = put
    BY <1>3, ExtractTextIs
  <2> HIDE DEF text, put
  <2>4. CASE ExtractText(nid, buffer) = buffer /\ text = <<>>
    BY <1>1, <2>2, <2>4
  <2>5. CASE ExtractText(nid, buffer) = put
    <3>1. /\ Holds(n, put)
          /\ n <= m /\ n = 1 => put = buffer
          /\ n <= m /\ n # 1 => put[1] = 0
          /\ m < n => put[m + 1] = 0 /\ \A k \in 1..m : put[k] = text[k]
      BY <2>1, PutIs DEF put
    <3>2. CASE m < n
      <4>1. TextIn(put) = text
        BY <2>1, <3>1, <3>2, TextIs
      <4> QED BY <2>2, <2>5, <3>2, <4>1
    <3>3. CASE ~(m < n)
      <4>1. n <= m
        BY <1>1, <3>3
      <4>2. put[1] = 0
        BY <3>1, <4>1
      <4>3. TextIn(put) = <<>>
        BY <3>1, <4>2, NoText
      <4> QED BY <2>2, <2>5, <3>3, <4>3
    <3> QED BY <3>2, <3>3
  <2> QED BY <2>3, <2>4, <2>5
<1> QED BY <1>2, <1>3

(* Into a buffer nobody has written to: it stays as it is, or the string   *)
(* in it is what is stored.                                                *)
LEMMA ExtractedFirst ==
  ASSUME issuer \in Seq(Entry), NEW n, Holds(n, buffer)
  PROVE  LET after == ExtractText("commonName", buffer)
         IN IF Untouched THEN after = buffer /\ Stored("commonName") = <<>>
            ELSE TextIn(after) = Stored("commonName")
<1> DEFINE cn == "commonName"
           after == ExtractText(cn, buffer)
<1>1. n \in Nat \ {0} /\ Len(buffer) = n
  BY DEF Holds
<1>2. CASE LastOf(cn) = {}
  BY <1>2, ExtractTextIs, StoredIs DEF Untouched
<1>3. ASSUME NEW i \in LastOf(cn)
      PROVE  IF Untouched THEN after = buffer /\ Stored(cn) = <<>> ELSE TextIn(after) = Stored(cn)
  <2> DEFINE text == issuer[i].text
             put == Put(buffer, text)
             kept == issuer[i].type # "PRINTABLESTRING" /\ text = <<>>
  <2>1. PICK m \in Nat : text \in [1..m -> Character] /\ Len(text) = m
    BY <1>3, ExtractTextIs, EntryIs
  <2>2. Stored(cn) = IF m < n THEN text ELSE <<>>
    BY <1>1, <1>3, <2>1, StoredIs
  <2>3. after = IF kept THEN buffer ELSE put
    BY <1>3, ExtractTextIs
  <2>4. Untouched <=> kept \/ (text # <<>> /\ n = 1)
    <3>1. LastOf(cn) = {i}
      BY <1>3, ExtractTextIs
    <3> QED BY <1>1, <3>1 DEF Untouched
  <2>5. text = <<>> <=> m = 0
    BY <2>1
  <2>6. kept => text = <<>>
    OBVIOUS
  <2>7. /\ Holds(n, put)
        /\ n <= m /\ n = 1 => put = buffer
        /\ n <= m /\ n # 1 => put[1] = 0
        /\ m < n => put[m + 1] = 0 /\ \A k \in 1..m : put[k] = text[k]
    BY <2>1, PutIs
  <2> HIDE DEF cn, after, text, put, kept
  <2>8. CASE kept
    BY <2>2, <2>3, <2>4, <2>6, <2>8
  <2>9. CASE ~kept /\ text # <<>> /\ n = 1
    <3>1. n <= m /\ ~(m < n)
      BY <2>1, <2>5, <2>9
    <3> QED BY <2>2, <2>3, <2>4, <2>7, <2>9, <3>1
  <2>10. CASE ~kept /\ ~(text # <<>> /\ n = 1)
    <3>1. CASE m < n
      <4>1. TextIn(put) = text
        BY <2>1, <2>7, <3>1, TextIs
      <4> QED BY <2>2, <2>3, <2>4, <2>10, <3>1, <4>1
    <3>2. CASE ~(m < n)
      <4>1. n <= m /\ n # 1
        BY <1>1, <2>1, <2>5, <2>10, <3>2
      <4>2. TextIn(put) = <<>>
        BY <2>7, <4>1, NoText
      <4> QED BY <2>2, <2>3, <2>4, <2>10, <3>2, <4>2
    <3> QED BY <3>1, <3>2
  <2> QED BY <2>8, <2>9, <2>10
<1> QED BY <1>2, <1>3
-----------------------------------------------------------------------------
(* The invariant of the names. *)
Reading == {"commonName", "test", "organizationalUnitName", "done"}
Written == \E n \in BufferLength : Holds(n, buffer)
Ended == cleared => \E i \in DOMAIN buffer : buffer[i] = 0

Shape ==
  /\ issuer \in Seq(Entry) /\ cleared \in BOOLEAN
  /\ (buffer = <<>> /\ at \notin Reading \ {"done"}) \/ (Written /\ Ended /\ at \in Reading)

Filled == \A i \in DOMAIN buffer : buffer[i] = IF cleared THEN 0 ELSE Junk

(* What is known of the buffer where the program is.                       *)
Naming ==
  /\ at = "commonName" => Filled
  /\ at = "test" /\ ~failed =>
       IF Untouched THEN Filled /\ Stored("commonName") = <<>>
       ELSE TextIn(buffer) = Stored("commonName")
  /\ at = "organizationalUnitName" => buffer[1] = 0
  /\ at = "organizationalUnitName" /\ ~failed =>
       Stored("commonName") = <<>> /\ (cleared \/ ~Untouched)
  /\ IssuerIsTheLastName

NameInv == Shape /\ Naming

LEMMA WrittenBuffer ==
  ASSUME Shape, at \in Reading, at # "done"
  PROVE  buffer # <<>> /\ Written
<1>1. Written
  BY DEF Shape
<1>2. PICK n \in BufferLength : Holds(n, buffer)
  BY <1>1 DEF Written
<1>3. Len(<<>>) = 0
  OBVIOUS
<1>4. Len(buffer) # 0
  BY <1>2 DEF Holds
<1> QED BY <1>1, <1>3, <1>4, Zenon

LEMMA InitNames == Init => NameInv
<1> SUFFICES ASSUME Init PROVE NameInv
  OBVIOUS
<1>1. issuer = <<>> /\ cleared = FALSE /\ buffer = <<>> /\ at = "tcp"
  BY DEF Init, NamesInit
<1>2. <<>> \in Seq(Entry)
  BY EmptySeq
<1> QED BY <1>1, <1>2 DEF NameInv, Shape, Naming, Reading, IssuerIsTheLastName

(* What depends on the issuer and the length of the buffer alone.          *)
LEMMA SameNames ==
  ASSUME UNCHANGED issuer, Len(buffer') = Len(buffer)
  PROVE  /\ \A nid : Stored(nid)' = Stored(nid) /\ LastOf(nid)' = LastOf(nid)
         /\ Untouched' = Untouched
<1>1. \A nid : LastOf(nid)' = LastOf(nid)
  BY DEF LastOf
<1>2. \A nid : Fitting(nid)' = Fitting(nid)
  BY <1>1 DEF Fitting
<1>3. ASSUME NEW nid PROVE Stored(nid)' = Stored(nid)
  <2>1. Fitting(nid)' = Fitting(nid)
    BY <1>2
  <2> QED BY <2>1 DEF Stored
<1>4. Untouched' = Untouched
  BY <1>1 DEF Untouched
<1> QED BY <1>1, <1>3, <1>4

LEMMA TextInBuffer == Text = TextIn(buffer) /\ Text' = TextIn(buffer')
BY DEF Text, TextIn

(* An extraction keeps the length, and a NUL that is there.                *)
LEMMA ExtractKeeps ==
  ASSUME issuer \in Seq(Entry), NEW nid, NEW n, Holds(n, buffer)
  PROVE  LET after == ExtractText(nid, buffer)
         IN /\ Holds(n, after)
            /\ (\E i \in 1..n : buffer[i] = 0) => \E i \in 1..n : after[i] = 0
<1> DEFINE after == ExtractText(nid, buffer)
<1>1. CASE after = buffer
  BY <1>1
<1>2. ASSUME NEW i \in LastOf(nid), after = Put(buffer, issuer[i].text)
      PROVE  /\ Holds(n, after)
             /\ (\E k \in 1..n : buffer[k] = 0) => \E k \in 1..n : after[k] = 0
  <2>1. PICK m \in Nat : issuer[i].text \in [1..m -> Character]
    BY <1>2, ExtractTextIs, EntryIs
  <2>2. /\ Holds(n, after)
        /\ n <= m /\ n = 1 => after = buffer
        /\ n <= m /\ n # 1 => after[1] = 0
        /\ m < n => after[m + 1] = 0
    BY <1>2, <2>1, PutIs
  <2>3. n \in Nat \ {0} /\ 1 \in 1..n /\ (m < n => m + 1 \in 1..n) /\ (m < n \/ n <= m)
    BY <2>1 DEF Holds
  <2> HIDE DEF after
  <2> QED BY <2>2, <2>3, Zenon
<1>3. after = buffer \/ \E i \in LastOf(nid) : after = Put(buffer, issuer[i].text)
  BY ExtractTextIs
<1> QED BY <1>1, <1>2, <1>3

(* Whichever way it ends, the buffer is as long as before and ended.       *)
LEMMA ExtractStep ==
  ASSUME Shape, buffer # <<>>, at' \in Reading, NEW nid, Extract(nid), UNCHANGED <<issuer, cleared>>
  PROVE  /\ Shape' /\ buffer' # <<>> /\ Len(buffer') = Len(buffer)
         /\ \E n : Holds(n, buffer) /\ Holds(n, buffer')
         /\ issuer \in Seq(Entry)
         /\ \/ buffer' = ExtractText(nid, buffer) /\ failed' = failed
            \/ buffer' = buffer /\ failed' = TRUE
<1>1. issuer \in Seq(Entry) /\ cleared \in BOOLEAN /\ Written /\ Ended
  BY DEF Shape
<1>2. PICK n \in BufferLength : Holds(n, buffer)
  BY <1>1 DEF Written
<1>3. \/ buffer' = ExtractText(nid, buffer) /\ failed' = failed
      \/ buffer' = buffer /\ failed' = TRUE
  BY DEF Extract
<1>4. /\ Holds(n, buffer')
      /\ (\E i \in 1..n : buffer[i] = 0) => \E i \in 1..n : buffer'[i] = 0
  BY <1>1, <1>2, <1>3, ExtractKeeps
<1>5. DOMAIN buffer = 1..n /\ DOMAIN buffer' = 1..n /\ Len(buffer) = n /\ Len(buffer') = n
      /\ n \in Nat \ {0}
  BY <1>2, <1>4 DEF Holds
<1>6. Written' /\ Ended'
  BY <1>1, <1>2, <1>4, <1>5 DEF Written, Ended
<1>7. buffer' # <<>>
  BY <1>5
<1>8. Shape'
  BY <1>1, <1>6 DEF Shape
<1> QED BY <1>1, <1>2, <1>3, <1>4, <1>5, <1>7, <1>8
-----------------------------------------------------------------------------
LEMMA NamesGiven == NameInv /\ GetNames("connected") => NameInv'
<1> SUFFICES ASSUME NameInv, GetNames("connected") PROVE NameInv'
  OBVIOUS
<1>1. issuer \in Seq(Entry) /\ cleared \in BOOLEAN /\ buffer = <<>>
  BY DEF NameInv, Shape, GetNames, Reading
<1>2. CASE at' = "done" /\ UNCHANGED names
  BY <1>1, <1>2 DEF NameInv, Shape, Naming, names, Reading, IssuerIsTheLastName
<1>3. ASSUME at' = "commonName", issuer' \in BoundedSeq(Entry, MaxEntries), cleared' \in BOOLEAN,
             NEW n \in BufferLength, buffer' = [i \in 1..n |-> IF cleared' THEN 0 ELSE Junk]
      PROVE  NameInv'
  <2>1. issuer' \in Seq(Entry)
    BY <1>3 DEF BoundedSeq, SeqOf
  <2>2. n \in Nat \ {0} /\ Junk \in Nat
    BY CertNameAssumption
  <2>3. Holds(n, buffer') /\ DOMAIN buffer' = 1..n /\ 1 \in 1..n /\ buffer' # <<>>
    BY <1>3, <2>2 DEF Holds
  <2>4. Filled'
    BY <1>3, <2>3 DEF Filled
  <2>5. Written' /\ Ended'
    BY <1>3, <2>3 DEF Written, Ended
  <2>6. Shape'
    BY <1>3, <2>1, <2>5 DEF Shape, Reading
  <2>7. Naming'
    BY <1>3, <2>4 DEF Naming, IssuerIsTheLastName
  <2> QED BY <2>6, <2>7 DEF NameInv
<1> QED BY <1>2, <1>3 DEF GetNames

LEMMA NamesFirst == NameInv /\ CommonName => NameInv'
<1> SUFFICES ASSUME NameInv, CommonName PROVE NameInv'
  OBVIOUS
<1>1. /\ at = "commonName" /\ at' = "test" /\ Extract("commonName")
      /\ UNCHANGED <<issuer, cleared>>
  BY DEF CommonName
<1>2. Shape /\ buffer # <<>> /\ Filled
  BY <1>1, WrittenBuffer DEF NameInv, Naming, Reading
<1>3. /\ Shape' /\ Len(buffer') = Len(buffer) /\ issuer \in Seq(Entry)
      /\ \E n : Holds(n, buffer)
      /\ buffer' = ExtractText("commonName", buffer) \/ failed' = TRUE
  BY <1>1, <1>2, ExtractStep DEF Reading
<1>4. Stored("commonName")' = Stored("commonName") /\ Untouched' = Untouched
  BY <1>1, <1>3, SameNames
<1>5. ASSUME ~failed'
      PROVE  IF Untouched THEN Filled' /\ Stored("commonName")' = <<>>
             ELSE TextIn(buffer') = Stored("commonName")'
  <2>1. IF Untouched THEN buffer' = buffer /\ Stored("commonName") = <<>>
        ELSE TextIn(buffer') = Stored("commonName")
    BY <1>3, <1>5, ExtractedFirst
  <2>2. buffer' = buffer => Filled'
    BY <1>1, <1>2 DEF Filled
  <2> QED BY <1>4, <2>1, <2>2
<1>6. (TextIn(buffer))' = TextIn(buffer')
  BY DEF TextIn
<1>7. Naming'
  BY <1>1, <1>4, <1>5, <1>6 DEF Naming, IssuerIsTheLastName
<1> QED BY <1>3, <1>7 DEF NameInv

LEMMA NamesTested == NameInv /\ TestEmpty => NameInv'
<1> SUFFICES ASSUME NameInv, TestEmpty PROVE NameInv'
  OBVIOUS
<1>1. /\ at = "test" /\ at' = IF buffer[1] = 0 THEN "organizationalUnitName" ELSE "done"
      /\ UNCHANGED <<issuer, cleared, buffer, failed>>
  BY DEF TestEmpty
<1>2. Shape /\ Written /\ buffer # <<>>
  BY <1>1, WrittenBuffer DEF NameInv, Reading
<1>3. PICK n : Holds(n, buffer)
  BY <1>2 DEF Written
<1>4. 1 \in DOMAIN buffer /\ Junk # 0
  BY <1>3, CertNameAssumption DEF Holds
<1>5. ~failed => IF Untouched THEN Filled /\ Stored("commonName") = <<>>
                 ELSE TextIn(buffer) = Stored("commonName")
  BY <1>1 DEF NameInv, Naming
<1>6. /\ \A nid : Stored(nid)' = Stored(nid)
      /\ Untouched' = Untouched
  BY <1>1, SameNames
<1>7. Shape'
  BY <1>1, <1>2 DEF Shape, Written, Ended, Reading
<1>8. CASE buffer[1] = 0
  <2>1. TextIn(buffer) = <<>>
    BY <1>3, <1>8, NoText
  <2>2. ~failed => Stored("commonName") = <<>> /\ (cleared \/ ~Untouched)
    BY <1>4, <1>5, <1>8, <2>1 DEF Filled
  <2> QED BY <1>1, <1>6, <1>7, <1>8, <2>2 DEF NameInv, Naming, IssuerIsTheLastName
<1>9. CASE buffer[1] # 0
  <2>1. TextIn(buffer) # <<>>
    BY <1>3, <1>9, TextBegins
  <2>2. ~failed =>
          IF ~cleared /\ Untouched THEN \A i \in DOMAIN buffer : buffer[i] = Junk
          ELSE Text = IF Stored("commonName") # <<>> THEN Stored("commonName")
                      ELSE Stored("organizationalUnitName")
    BY <1>4, <1>5, <1>9, <2>1, TextInBuffer DEF Filled
  <2>3. Text' = Text
    BY <1>1, TextInBuffer
  <2>4. IssuerIsTheLastName'
    BY <1>1, <1>6, <2>2, <2>3 DEF IssuerIsTheLastName
  <2> QED BY <1>1, <1>7, <1>9, <2>4 DEF NameInv, Naming
<1> QED BY <1>8, <1>9

LEMMA NamesSecond == NameInv /\ OrganizationalUnit => NameInv'
<1> SUFFICES ASSUME NameInv, OrganizationalUnit PROVE NameInv'
  OBVIOUS
<1> DEFINE ou == "organizationalUnitName"
<1>1. at = ou /\ at' = "done" /\ Extract(ou) /\ UNCHANGED <<issuer, cleared>>
  BY DEF OrganizationalUnit
<1>2. /\ Shape /\ buffer # <<>> /\ buffer[1] = 0
      /\ ~failed => Stored("commonName") = <<>> /\ (cleared \/ ~Untouched)
  BY <1>1, WrittenBuffer DEF NameInv, Naming, Reading
<1>3. /\ Shape' /\ Len(buffer') = Len(buffer) /\ issuer \in Seq(Entry)
      /\ \E n : Holds(n, buffer)
      /\ \/ buffer' = ExtractText(ou, buffer) /\ failed' = failed
         \/ failed' = TRUE
  BY <1>1, <1>2, ExtractStep DEF Reading
<1>4. /\ \A nid : Stored(nid)' = Stored(nid)
      /\ Untouched' = Untouched
  BY <1>1, <1>3, SameNames
<1>5. ASSUME ~failed'
      PROVE  Text' = Stored(ou)' /\ Stored("commonName")' = <<>> /\ (cleared' \/ ~Untouched')
  <2>1. TextIn(buffer') = Stored(ou)
    BY <1>2, <1>3, <1>5, ExtractedInto
  <2>2. ~failed
    BY <1>3, <1>5
  <2> QED BY <1>1, <1>2, <1>4, <2>1, <2>2, TextInBuffer
<1>6. IssuerIsTheLastName'
  BY <1>5 DEF IssuerIsTheLastName
<1>7. Naming'
  BY <1>1, <1>6 DEF Naming
<1> QED BY <1>3, <1>7 DEF NameInv

LEMMA NameStep == NameInv /\ [Next]_vars => NameInv'
<1> SUFFICES ASSUME NameInv, [Next]_vars PROVE NameInv'
  OBVIOUS
<1>1. ASSUME UNCHANGED names, UNCHANGED at \/ (at \notin Reading /\ at' \notin Reading)
      PROVE  NameInv'
  <2>1. /\ \A nid : Stored(nid)' = Stored(nid)
        /\ Untouched' = Untouched /\ Text' = Text
        /\ UNCHANGED <<issuer, cleared, buffer, failed>>
    BY <1>1, SameNames, TextInBuffer DEF names
  <2>2. Shape'
    BY <1>1, <2>1 DEF NameInv, Shape, Written, Ended, Reading
  <2>3. Naming'
    BY <1>1, <2>1 DEF NameInv, Naming, IssuerIsTheLastName, Filled, Reading
  <2> QED BY <2>2, <2>3 DEF NameInv
<1>2. ASSUME TcpConnect \/ CreateContext \/ AddCACerts \/ NewSsl \/ Connected \/ ConnectFails
               \/ Selects \/ Answer \/ Interruption \/ UNCHANGED vars
      PROVE  NameInv'
  <2>1. UNCHANGED names
    BY <1>2 DEF TcpConnect, CreateContext, AddCACerts, AddCALock, AddCAFind, NewSsl, Goes, Connected,
                ConnectFails, Selects, SelectReturns, Answer, Interruption, vars
  <2>2. UNCHANGED at \/ (at \notin Reading /\ at' \notin Reading)
    BY <1>2 DEF TcpConnect, CreateContext, AddCACerts, AddCALock, AddCAFind, NewSsl, Goes, Connected,
                ConnectFails, Selects, SelectReturns, Answer, Interruption, vars, Reading
  <2> QED BY <1>1, <2>1, <2>2
<1>3. ASSUME ReadIssuer PROVE NameInv'
  BY <1>3, NamesGiven, NamesFirst, NamesTested, NamesSecond DEF ReadIssuer, ReadNames
<1> QED BY <1>2, <1>3 DEF Next

LEMMA NameInvariant == Spec => []NameInv
<1>1. Init => NameInv
  BY InitNames
<1>2. NameInv /\ [Next]_vars => NameInv'
  BY NameStep
<1> QED BY <1>1, <1>2, PTL DEF Spec

(* tasslclient.c, NETC_SSL_X509ExtratTextByNID: whatever the issuer of the *)
(* peer's certificate is called and however long the caller's buffer is,   *)
(* nothing is written past it, and in one the caller cleared the string is *)
(* terminated, after the extractions that fail as well.                    *)
THEOREM NamesAreTerminated == Spec => []Terminated
<1>1. NameInv => Terminated
  <2> SUFFICES ASSUME NameInv, buffer # <<>>
               PROVE  Len(buffer) \in BufferLength /\ (cleared => \E i \in DOMAIN buffer : buffer[i] = 0)
    BY DEF Terminated
  <2> QED BY DEF NameInv, Shape, Written, Holds, Ended
<1> QED BY <1>1, NameInvariant, PTL

(* tasslclient.c, NETC_Get_SSL_ServiceCertIssuerName: the caller gets the  *)
(* last common name that fits, otherwise the last organisational unit that *)
(* does, for names of any number of entries of all three types of string,  *)
(* texts of any length in characters of one byte, and buffers and copying  *)
(* chunks of any size; what an uncleared buffer held is taken for the name *)
(* exactly when nothing was written.                                       *)
THEOREM IssuerIsRead == Spec => []IssuerIsTheLastName
<1>1. NameInv => IssuerIsTheLastName
  BY DEF NameInv, Naming
<1> QED BY <1>1, NameInvariant, PTL
-----------------------------------------------------------------------------
(* The types of the variables of TasslPeer, the buffer apart.              *)
CAFiles == {"oca", "rca"}

Listed ==
  /\ files \in [CAFiles -> Certificate \cup {NoFile}] /\ flag \in BOOLEAN
  /\ ~flag => at \notin {"lock oca", "find oca", "lock rca", "find rca"}
  /\ objs \subseteq Certificate /\ objs \subseteq {files["oca"], files["rca"]}
  /\ made \in 0..2 /\ held \subseteq 1..made

Running ==
  /\ at \in Place /\ failed \in BOOLEAN /\ retry \in 0..MaxRetry
  /\ open \subseteq {"socket", "ctx", "ssl"}

Characters == \A i \in DOMAIN buffer : buffer[i] \in Character \cup {0, Junk}

PeerTyped == Listed /\ Running /\ Characters

LEMMA AtMostTwo == ASSUME NEW a, NEW b, NEW S \in SUBSET {a, b} PROVE Cardinality(S) <= 2
<1>1. IsFiniteSet({a}) /\ Cardinality({a}) = 1
  BY FS_Singleton
<1>2. IsFiniteSet({a} \cup {b}) /\ Cardinality({a} \cup {b}) \in {1, 1 + 1}
  BY <1>1, FS_AddElement
<1>3. {a} \cup {b} = {a, b}
  OBVIOUS
<1>4. IsFiniteSet({a, b}) /\ Cardinality({a, b}) <= 2
  BY <1>2, <1>3
<1>5. Cardinality(S) \in Nat /\ Cardinality(S) <= Cardinality({a, b})
  BY <1>4, FS_Subset, FS_CardinalityType
<1>6. Cardinality({a, b}) \in Nat
  BY <1>4, FS_CardinalityType
<1> QED BY <1>4, <1>5, <1>6

LEMMA SmallIntervals == 1..0 = {} /\ 1..1 = {1} /\ 1..2 = {1, 2} /\ 0..2 = {0, 1, 2}
OBVIOUS

LEMMA InitTyped == Init => PeerTyped
<1> SUFFICES ASSUME Init PROVE PeerTyped
  OBVIOUS
<1>1. files \in [CAFiles -> Certificate \cup {NoFile}] /\ flag \in BOOLEAN
  BY DEF Init, CAFiles
<1>2. objs = {} /\ held = {} /\ made = 0 /\ at = "tcp"
  BY DEF Init
<1>3. Listed
  BY <1>1, <1>2, SmallIntervals DEF Listed
<1>4. Running
  <2>1. retry = MaxRetry /\ MaxRetry \in Nat
    BY TasslPeerAssumption DEF Init
  <2>2. retry \in 0..MaxRetry
    BY <2>1
  <2>3. failed = FALSE /\ open = {}
    BY DEF Init, NamesInit
  <2> QED BY <1>2, <2>2, <2>3 DEF Running, Place
<1>5. Characters
  BY DEF Init, NamesInit, Characters
<1> QED BY <1>3, <1>4, <1>5 DEF PeerTyped

(* Nothing but the list changes when it is made.                           *)
LEMMA ListedStep == ASSUME Listed, CAs, [Next]_vars PROVE Listed'
<1>1. UNCHANGED <<files, flag>>
  BY DEF Next, TcpConnect, CreateContext, AddCACerts, AddCALock, AddCAFind, NewSsl, Goes, Connected,
         ConnectFails, Selects, SelectReturns, ReadIssuer, Answer, Interruption, vars, environment
<1>2. ASSUME AddCACerts PROVE Listed'
  <2>1. flag = TRUE
    BY <1>2 DEF AddCACerts, AddCALock, AddCAFind, Listed
  <2>2. ASSUME NEW file \in CAFiles, NEW from, NEW to, NEW next, AddCALock(file, from, to, next),
               from \in {"lock oca", "lock rca"}
        PROVE  Listed'
    <3>1. objs' = objs
      BY <2>2 DEF AddCALock
    <3>2. CASE UNCHANGED lock
      BY <1>1, <2>1, <3>1, <3>2 DEF Listed, lock
    <3>3. CASE held' = held \cup {made + 1} /\ made' = made + 1
      <4>1. held = {} /\ made \in {0, 1}
        BY <2>1, <2>2 DEF CAs, AddCALock, Before
      <4>2. (held' = {1} /\ made' = 1) \/ (held' = {2} /\ made' = 2)
        BY <3>3, <4>1
      <4>3. made' \in 0..2 /\ held' \subseteq 1..made'
        BY <4>2, SmallIntervals
      <4> QED BY <1>1, <2>1, <3>1, <4>3 DEF Listed
    <3> QED BY <2>2, <3>2, <3>3 DEF AddCALock
  <2>3. ASSUME NEW file \in CAFiles, NEW from, NEW next, AddCAFind(file, from, next),
               files[file] # NoFile
        PROVE  Listed'
    <3>1. files[file] \in Certificate /\ files[file] \in {files["oca"], files["rca"]}
      BY <2>3 DEF Listed, CAFiles
    <3>2. made' = made /\ objs' \subseteq objs \cup {files[file]} /\ held' \subseteq held
      BY <2>3 DEF AddCAFind
    <3>3. made' \in 0..2 /\ held' \subseteq 1..made'
      BY <3>2 DEF Listed
    <3>4. objs' \subseteq Certificate /\ objs' \subseteq {files["oca"], files["rca"]}
      BY <3>1, <3>2 DEF Listed
    <3> QED BY <1>1, <2>1, <3>3, <3>4 DEF Listed
  <2>4. AddCAFind("oca", "find oca", "lock rca") => files["oca"] # NoFile
    BY <2>1 DEF AddCAFind, CAs
  <2>5. AddCAFind("rca", "find rca", "ssl") => files["rca"] # NoFile
    BY <2>1 DEF AddCAFind, CAs
  <2> QED BY <1>2, <2>2, <2>3, <2>4, <2>5 DEF AddCACerts, CAFiles
<1>3. ASSUME ~AddCACerts PROVE Listed'
  <2>1. UNCHANGED <<objs, held, made>>
    BY <1>3 DEF Next, TcpConnect, CreateContext, NewSsl, Goes, Connected, ConnectFails, Selects,
       SelectReturns, ReadIssuer, Answer, Interruption, vars, lock
  <2>2. \/ at' = at
        \/ ~flag => at' \notin {"lock oca", "find oca", "lock rca", "find rca"}
    BY <1>3 DEF Next, TcpConnect, CreateContext, NewSsl, Goes, Connected, ConnectFails, Selects,
       SelectReturns, ReadIssuer, GetNames, ReadNames, CommonName, TestEmpty, OrganizationalUnit,
       Answer, Interruption, vars
  <2> QED BY <1>1, <2>1, <2>2 DEF Listed
<1> QED BY <1>2, <1>3

LEMMA RunningStep == ASSUME Running, [Next]_vars PROVE Running'
<1>1. MaxRetry \in 0..MaxRetry
  BY TasslPeerAssumption
<1>2. CASE TcpConnect \/ CreateContext \/ AddCACerts \/ NewSsl \/ ConnectFails \/ Answer
  <2>1. UNCHANGED <<retry, failed>>
    BY <1>2 DEF TcpConnect, CreateContext, AddCACerts, AddCALock, AddCAFind, NewSsl, ConnectFails,
       Answer, Goes, names
  <2>2. at' \in Place /\ open' \subseteq {"socket", "ctx", "ssl"}
    BY <1>2 DEF TcpConnect, CreateContext, AddCACerts, AddCALock, AddCAFind, NewSsl, ConnectFails,
       Answer, Goes, Running, Place
  <2> QED BY <2>1, <2>2 DEF Running
<1>3. CASE Connected \/ Selects \/ Interruption
  <2>1. UNCHANGED <<open, failed>> /\ at' \in Place
    BY <1>3 DEF Connected, Selects, SelectReturns, Interruption, Goes, names, Running, Place
  <2>2. retry' \in {retry, MaxRetry} \/ (retry > 0 /\ retry' = retry - 1)
    BY <1>3 DEF Connected, Selects, SelectReturns, Interruption, Goes
  <2>3. retry' \in 0..MaxRetry
    <3>1. retry \in 0..MaxRetry /\ MaxRetry \in Nat
      BY TasslPeerAssumption DEF Running
    <3> QED BY <1>1, <2>2, <3>1
  <2> QED BY <2>1, <2>3 DEF Running
<1>4. CASE ReadIssuer
  <2>1. UNCHANGED <<retry, open>> /\ at' \in Place /\ failed' \in {failed, TRUE}
    BY <1>4 DEF ReadIssuer, GetNames, ReadNames, CommonName, TestEmpty, OrganizationalUnit, Extract,
       names, Place
  <2> QED BY <2>1 DEF Running
<1>5. CASE UNCHANGED vars
  BY <1>5 DEF vars, names, Running
<1> QED BY <1>2, <1>3, <1>4, <1>5 DEF Next

(* What is put into the buffer is text of the certificate, or zero.        *)
LEMMA PutsCharacters ==
  ASSUME Characters, Shape, buffer # <<>>, NEW nid,
         Extract(nid)
  PROVE  Characters'
<1>1. CASE buffer' = buffer
  BY <1>1 DEF Characters
<1>2. CASE buffer' = ExtractText(nid, buffer) /\ buffer' # buffer
  <2>1. issuer \in Seq(Entry)
    BY DEF Shape
  <2>2. PICK i \in LastOf(nid) : buffer' = Put(buffer, issuer[i].text) /\ issuer[i] \in Entry
    BY <1>2, <2>1, ExtractTextIs
  <2> DEFINE text == issuer[i].text
  <2>3. PICK m \in Nat : text \in [1..m -> Character] /\ Len(text) = m
    BY <2>2, EntryIs
  <2>4. \A k \in DOMAIN buffer : k <= Len(text) /\ k \in 1..m => text[k] \in Character
    BY <2>3
  <2>5. PICK n : n \in Nat /\ DOMAIN buffer = 1..n
    BY DEF Shape, Written, Holds
  <2>6. ASSUME NEW k \in DOMAIN buffer PROVE Put(buffer, text)[k] \in Character \cup {0, Junk}
    <3>1. buffer[k] \in Character \cup {0, Junk} /\ k \in 1..n
      BY <2>5, <2>6 DEF Characters
    <3>2. k <= Len(text) => text[k] \in Character
      BY <2>3, <2>5, <3>1
    <3> HIDE DEF text
    <3> QED BY <2>6, <3>1, <3>2 DEF Put
  <2>7. DOMAIN buffer' = DOMAIN buffer
    BY <2>2 DEF Put
  <2> QED BY <2>2, <2>6, <2>7 DEF Characters
<1> QED BY <1>1, <1>2 DEF Extract

LEMMA CharactersStep == ASSUME Characters, Shape, [Next]_vars PROVE Characters'
<1>1. CASE UNCHANGED buffer
  BY <1>1 DEF Characters
<1>2. ASSUME NEW n, buffer' = [i \in 1..n |-> IF cleared' THEN 0 ELSE Junk]
      PROVE  Characters'
  BY <1>2 DEF Characters
<1>3. CASE CommonName \/ OrganizationalUnit
  <2>1. buffer # <<>>
    BY <1>3, WrittenBuffer DEF CommonName, OrganizationalUnit, Reading
  <2> QED BY <1>3, <2>1, PutsCharacters DEF CommonName, OrganizationalUnit
<1>4. UNCHANGED buffer \/ GetNames("connected") \/ CommonName \/ OrganizationalUnit
  BY DEF Next, TcpConnect, CreateContext, AddCACerts, AddCALock, AddCAFind, NewSsl, Goes, Connected,
     ConnectFails, Selects, SelectReturns, ReadIssuer, ReadNames, TestEmpty, Answer, Interruption,
     vars, names
<1> QED BY <1>1, <1>2, <1>3, <1>4 DEF GetNames, names

(* The variables have their types: two certificates at most are in the     *)
(* list, two locks were made and no other is held, and the buffer never    *)
(* has anything in it but what it was given and text of the certificate.   *)
THEOREM PeerTypes == Spec => []TypeOK
<1>1. PeerTyped => TypeOK
  <2> SUFFICES ASSUME PeerTyped PROVE TypeOK
    OBVIOUS
  <2>1. Cardinality(objs) <= 2
    BY AtMostTwo DEF PeerTyped, Listed
  <2> QED BY <2>1 DEF PeerTyped, Listed, Running, Characters, TypeOK
<1>2. PeerTyped /\ ListInv /\ NameInv /\ [Next]_vars => PeerTyped'
  BY ListedStep, RunningStep, CharactersStep DEF PeerTyped, ListInv, NameInv
<1> QED BY <1>1, <1>2, InitTyped, ListInvariant, NameInvariant, PTL DEF Spec
=============================================================================
