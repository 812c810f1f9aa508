--------------------------- MODULE WireProtocolProofs ---------------------------
(***************************************************************************)
(* Proofs about WireProtocol for every message a program may ask for.      *)
(* A datagram is read where it was written because both sides derive the   *)
(* offsets from the widths of the fields: Pack puts field i at Offset(i)   *)
(* (PackCarries), FieldOf takes it from there (FieldIsRead), and a helper  *)
(* that writes the same fields at the same offsets writes the same bytes   *)
(* (WrittenIsPack).  The layouts of the code give the numbers, the bytes   *)
(* of a size give it back (ByteBack, WordBack), and so the spans the       *)
(* parsers compute are where the texts were put.                           *)
(***************************************************************************)
EXTENDS WireProtocol, WellFoundedInduction, TLAPS

-----------------------------------------------------------------------------
(* Induction and recursive functions *)

Less == {p \in Nat \X Nat : p[1] < p[2]}

\* The order of the naturals as a relation, for WFMin.
LEMMA LessFounded == IsWellFoundedOn(Less, Nat)
<1>1. OpToRel(<, Nat) = Less
  <2>1. OpToRel(<, Nat) = {p \in Nat \X Nat : p[1] < p[2]}
    BY Zenon DEF OpToRel
  <2> QED BY <2>1, Zenon DEF Less
<1> QED BY <1>1, NatLessThanWellFounded, Zenon

LEMMA Smallest ==
  ASSUME NEW T, T \subseteq Nat, T # {}
  PROVE  \E n \in T : \A m \in T : n <= m
<1>1. PICK x \in T : \A y \in T : ~(<<y, x>> \in Less)
  BY WFMin, LessFounded, Zenon
<1>2. \A y \in T : ~(y < x)
  <2> SUFFICES ASSUME NEW y \in T, y < x PROVE FALSE
    OBVIOUS
  <2>1. <<y, x>> \in Less
    BY DEF Less
  <2> QED BY <1>1, <2>1
<1>3. x \in Nat /\ \A y \in T : y \in Nat
  OBVIOUS
<1> QED BY <1>2, <1>3

\* Induction up to a bound, over a set.
LEMMA UpTo ==
  ASSUME NEW n \in Nat, NEW G, 0 \in G, \A k \in 0..(n - 1) : k \in G => k + 1 \in G
  PROVE  \A k \in 0..n : k \in G
<1> DEFINE T == {k \in 0..n : k \notin G}
<1> SUFFICES ASSUME T # {} PROVE FALSE
  OBVIOUS
<1>1. T \subseteq Nat
  OBVIOUS
<1> HIDE DEF T
<1>2. PICK m \in T : \A k \in T : m <= k
  BY <1>1, Smallest
<1>3. m # 0 /\ m - 1 \in 0..(n - 1) /\ m - 1 \in 0..n /\ ~(m <= m - 1)
  BY <1>2 DEF T
<1>4. m - 1 \in G
  BY <1>2, <1>3 DEF T
<1> QED BY <1>3, <1>4 DEF T

\* A recursive function on 0..n whose step is F.
IsIterate(g, n, F, base) ==
  g = [k \in 0..n |-> IF k = 0 THEN base ELSE F[<<g[k - 1], k>>]]

\* There is one for every step on the values: the CHOOSE of a recursive
\* definition has something to choose.
LEMMA IterateExists ==
  ASSUME NEW n \in Nat, NEW V, NEW base \in V, NEW F \in [V \X (1..n) -> V]
  PROVE  \E g \in [0..n -> V] : IsIterate(g, n, F, base)
<1> DEFINE Exists(k) == \E g \in [0..k -> V] : IsIterate(g, k, F, base)
           G == {k \in 0..n : Exists(k)}
<1>1. 0 \in G
  <2> DEFINE g == [k \in 0..0 |-> base]
  <2>1. g \in [0..0 -> V]
    OBVIOUS
  <2>2. IsIterate(g, 0, F, base)
    BY DEF IsIterate
  <2> HIDE DEF g
  <2>3. Exists(0)
    BY <2>1, <2>2
  <2> HIDE DEF Exists
  <2> QED BY <2>3
<1>2. ASSUME NEW k \in 0..(n - 1), k \in G
      PROVE  k + 1 \in G
  <2>1. PICK g \in [0..k -> V] : IsIterate(g, k, F, base)
    BY <1>2
  <2> DEFINE value(j) == IF j = k + 1 THEN F[<<g[k], k + 1>>] ELSE g[j]
             h == [j \in 0..(k + 1) |-> value(j)]
  <2>2. h \in [0..(k + 1) -> V]
    <3>1. F[<<g[k], k + 1>>] \in V
      OBVIOUS
    <3>2. \A j \in 0..(k + 1) : value(j) \in V
      BY <3>1
    <3> QED BY <3>2
  <2>3. ASSUME NEW j \in 0..(k + 1)
        PROVE  h[j] = IF j = 0 THEN base ELSE F[<<h[j - 1], j>>]
    <3>1. CASE j = k + 1
      <4>1. h[j] = F[<<g[k], k + 1>>] /\ h[j - 1] = g[k] /\ j # 0
        BY <3>1
      <4> QED BY <3>1, <4>1
    <3>2. CASE j # k + 1
      <4>1. h[j] = g[j] /\ (j # 0 => h[j - 1] = g[j - 1]) /\ j \in 0..k
        BY <3>2
      <4>2. g[j] = IF j = 0 THEN base ELSE F[<<g[j - 1], j>>]
        BY <2>1, <4>1 DEF IsIterate
      <4> QED BY <4>1, <4>2
    <3> QED BY <3>1, <3>2
  <2>4. h = [j \in 0..(k + 1) |-> h[j]]
    OBVIOUS
  <2> HIDE DEF h
  <2>5. IsIterate(h, k + 1, F, base)
    BY <2>3, <2>4 DEF IsIterate
  <2>6. Exists(k + 1) /\ k + 1 \in 0..n
    BY <2>2, <2>5
  <2> HIDE DEF Exists
  <2> QED BY <2>6
<1>3. n \in G
  <2> HIDE DEF G
  <2> QED BY <1>1, <1>2, UpTo
<1> QED BY <1>3

-----------------------------------------------------------------------------
(* Numbers *)

LEMMA DigitIsByte ==
  ASSUME NEW value \in Nat
  PROVE  value % 256 \in Byte /\ value \div 256 \in Nat
BY DEF Byte

LEMMA Digits ==
  ASSUME NEW value \in Nat
  PROVE  (value % 256) + 256 * (value \div 256) = value
OBVIOUS

LEMMA ByteIsDigit ==
  ASSUME NEW value \in Byte
  PROVE  value \in Nat /\ value % 256 = value
BY DEF Byte

LEMMA HighByte ==
  ASSUME NEW value \in Nat, NEW high \in Nat, NEW low \in 0..255,
         value < 65536, low + 256 * high = value
  PROVE  high \in Byte
BY DEF Byte

\* A number of two bytes.
IsWord(x) == x \in Nat /\ x < 65536

LEMMA WordHasTwoBytes ==
  ASSUME NEW value, IsWord(value)
  PROVE  value \div 256 \in Byte
<1>1. value \in Nat /\ value < 65536
  BY DEF IsWord
<1>2. value % 256 \in 0..255 /\ value \div 256 \in Nat
  BY <1>1, DigitIsByte DEF Byte
<1>3. (value % 256) + 256 * (value \div 256) = value
  BY <1>1, Digits
<1> DEFINE high == value \div 256
           low == value % 256
<1>4. low \in 0..255 /\ high \in Nat /\ low + 256 * high = value
  BY <1>2, <1>3
<1> HIDE DEF high, low
<1>5. high \in Byte
  BY <1>1, <1>4, HighByte, SMTT(30)
<1> QED BY <1>5 DEF high

\* What is left of a number before each of its bytes.
IsRest(rest, value, width) ==
  /\ rest[0] = value
  /\ \A i \in 1..width : rest[i] = rest[i - 1] \div 256
  /\ LittleEndian(value, width) = [i \in 1..width |-> rest[i - 1] % 256]

LEMMA RestOfNumber ==
  ASSUME NEW value \in Nat, NEW width \in Nat
  PROVE  \E rest \in [0..width -> Nat] : IsRest(rest, value, width)
<1> DEFINE rest == CHOOSE g : g = [i \in 0..width |-> IF i = 0 THEN value ELSE g[i - 1] \div 256]
           F == [p \in Nat \X (1..width) |-> p[1] \div 256]
<1>1. F \in [Nat \X (1..width) -> Nat]
  OBVIOUS
<1>2. PICK g \in [0..width -> Nat] : IsIterate(g, width, F, value)
  <2> HIDE DEF F
  <2> QED BY <1>1, IterateExists
<1>3. g = [i \in 0..width |-> IF i = 0 THEN value ELSE g[i - 1] \div 256]
  <2>1. ASSUME NEW i \in 0..width, i # 0
        PROVE  F[<<g[i - 1], i>>] = g[i - 1] \div 256
    <3>1. i - 1 \in 0..width /\ i \in 1..width
      BY <2>1
    <3>2. PICK x \in Nat : x = g[i - 1]
      BY <3>1
    <3>3. F[<<x, i>>] = x \div 256
      BY <3>1
    <3> QED BY <3>2, <3>3, Zenon
  <2> HIDE DEF F
  <2>2. \A i \in 0..width : g[i] = IF i = 0 THEN value ELSE g[i - 1] \div 256
    BY <1>2, <2>1 DEF IsIterate
  <2> QED BY <2>2
<1>4. rest = [i \in 0..width |-> IF i = 0 THEN value ELSE rest[i - 1] \div 256]
  BY <1>3, ZenonT(60)
<1>5. LittleEndian(value, width) = [i \in 1..width |-> rest[i - 1] % 256]
  BY Zenon DEF LittleEndian
<1> HIDE DEF rest
<1>6. \A i \in 0..width : rest[i] = IF i = 0 THEN value ELSE rest[i - 1] \div 256
  BY <1>4
<1>7. \A i \in 0..width : rest[i] \in Nat
  <2> DEFINE G == {i \in 0..width : rest[i] \in Nat}
  <2>1. 0 \in G
    BY <1>6
  <2>2. ASSUME NEW k \in 0..(width - 1), k \in G PROVE k + 1 \in G
    <3>1. k + 1 \in 0..width /\ k + 1 # 0 /\ (k + 1) - 1 = k /\ rest[k] \in Nat
      BY <2>2
    <3>2. rest[k + 1] = rest[k] \div 256
      BY <1>6, <3>1
    <3>3. rest[k] \div 256 \in Nat
      BY <3>1, DigitIsByte
    <3> QED BY <3>1, <3>2, <3>3
  <2> HIDE DEF G
  <2>3. \A k \in 0..width : k \in G
    BY <2>1, <2>2, UpTo
  <2> QED BY <2>3 DEF G
<1>8. rest \in [0..width -> Nat]
  BY <1>4, <1>7
<1>9. rest[0] = value /\ \A i \in 1..width : rest[i] = rest[i - 1] \div 256
  BY <1>6
<1>10. IsRest(rest, value, width)
  BY <1>5, <1>9, Zenon DEF IsRest
<1> QED BY <1>8, <1>10

LEMMA BytesOfNumber ==
  ASSUME NEW value \in Nat, NEW width \in Nat
  PROVE  LittleEndian(value, width) \in Seq(Byte) /\ Len(LittleEndian(value, width)) = width
<1>1. PICK rest \in [0..width -> Nat] : IsRest(rest, value, width)
  BY RestOfNumber
<1>2. \A i \in 1..width : rest[i - 1] \in Nat
  OBVIOUS
<1>3. \A i \in 1..width : rest[i - 1] % 256 \in Byte
  BY <1>2, DigitIsByte
<1> QED BY <1>1, <1>3 DEF IsRest

\* A byte is its own representation, and two bytes give the number back.
LEMMA ByteBack ==
  ASSUME NEW value \in Byte
  PROVE  LittleEndian(value, 1) = <<value>> /\ Number(<<value>>) = value
<1>1. value \in Nat /\ value % 256 = value
  BY ByteIsDigit
<1>2. PICK rest \in [0..1 -> Nat] : IsRest(rest, value, 1)
  BY <1>1, RestOfNumber, Zenon
<1>3. LittleEndian(value, 1)[1] = value
  BY <1>1, <1>2 DEF IsRest
<1>4. LittleEndian(value, 1) \in Seq(Byte) /\ Len(LittleEndian(value, 1)) = 1
  BY <1>1, BytesOfNumber
<1>5. LittleEndian(value, 1) = <<value>>
  BY <1>3, <1>4
<1>6. Len(<<value>>) # 2 /\ <<value>>[1] = value
  OBVIOUS
<1> QED BY <1>1, <1>5, <1>6 DEF Number

LEMMA WordBack ==
  ASSUME NEW value, IsWord(value)
  PROVE  Number(LittleEndian(value, 2)) = value
<1>1. value \in Nat /\ (value % 256) + 256 * (value \div 256) = value
  BY Digits DEF IsWord
<1>2. (value \div 256) % 256 = value \div 256
  BY WordHasTwoBytes, ByteIsDigit
<1>3. PICK rest \in [0..2 -> Nat] : IsRest(rest, value, 2)
  BY <1>1, RestOfNumber
<1>4. /\ LittleEndian(value, 2)[1] = value % 256
      /\ LittleEndian(value, 2)[2] = (value \div 256) % 256
  BY <1>3 DEF IsRest
<1>5. Len(LittleEndian(value, 2)) = 2
  BY <1>1, BytesOfNumber
<1>6. Number(LittleEndian(value, 2)) = (value % 256) + 256 * (value \div 256)
  BY <1>2, <1>4, <1>5 DEF Number
<1> QED BY <1>1, <1>6

-----------------------------------------------------------------------------
(* Structs *)

IsStruct(struct) ==
  /\ Len(struct) \in Nat /\ DOMAIN struct = 1..Len(struct)
  /\ \A i \in 1..Len(struct) : struct[i][2] \in Nat

Steps(g, n, V, F, base) ==
  /\ g[0] = base
  /\ \A k \in 1..n : <<g[k - 1], k>> \in V \X (1..n) /\ g[k] = F[<<g[k - 1], k>>]

LEMMA IterateSteps ==
  ASSUME NEW n \in Nat, NEW V, NEW base \in V, NEW F, NEW g \in [0..n -> V],
         IsIterate(g, n, F, base)
  PROVE  Steps(g, n, V, F, base)
<1>1. \A k \in 0..n : g[k] = IF k = 0 THEN base ELSE F[<<g[k - 1], k>>]
  BY DEF IsIterate
<1>2. ASSUME NEW k \in 1..n
      PROVE  <<g[k - 1], k>> \in V \X (1..n) /\ g[k] = F[<<g[k - 1], k>>]
  <2>1. k \in 0..n /\ k # 0 /\ k - 1 \in 0..n
    OBVIOUS
  <2> QED BY <1>1, <2>1
<1>3. 0 \in 0..n
  OBVIOUS
<1> QED BY <1>1, <1>2, <1>3 DEF Steps

\* Where the fields of the given widths end.
IsEnds(end, n, width) ==
  end = [k \in 0..n |-> IF k = 0 THEN 0 ELSE end[k - 1] + width[k]]

LEMMA EndsExist ==
  ASSUME NEW n \in Nat, NEW width \in [1..n -> Nat]
  PROVE  \E end \in [0..n -> Nat] : IsEnds(end, n, width)
<1> DEFINE F == [p \in Nat \X (1..n) |-> p[1] + width[p[2]]]
<1>1. F \in [Nat \X (1..n) -> Nat]
  OBVIOUS
<1>2. \A p \in Nat \X (1..n) : F[p] = p[1] + width[p[2]]
  OBVIOUS
<1> HIDE DEF F
<1>3. PICK g \in [0..n -> Nat] : IsIterate(g, n, F, 0)
  BY <1>1, IterateExists
<1>4. g[0] = 0 /\ \A k \in 1..n : <<g[k - 1], k>> \in Nat \X (1..n) /\ g[k] = F[<<g[k - 1], k>>]
  <2>1. Steps(g, n, Nat, F, 0)
    BY <1>3, IterateSteps
  <2> QED BY <2>1, Zenon DEF Steps
<1>5. \A k \in 1..n : g[k] = g[k - 1] + width[k]
  BY <1>2, <1>4
<1>6. \A k \in 0..n : g[k] = IF k = 0 THEN 0 ELSE g[k - 1] + width[k]
  BY <1>4, <1>5
<1>7. g = [k \in 0..n |-> g[k]]
  OBVIOUS
<1>8. g = [k \in 0..n |-> IF k = 0 THEN 0 ELSE g[k - 1] + width[k]]
  BY <1>6, <1>7
<1>9. IsEnds(g, n, width)
  BY <1>8, Zenon DEF IsEnds
<1> QED BY <1>9

LEMMA EndsFollow ==
  ASSUME NEW n \in Nat, NEW width \in [1..n -> Nat], NEW end, IsEnds(end, n, width)
  PROVE  /\ end[0] = 0 /\ \A k \in 0..n : end[k] \in Nat
         /\ \A k \in 1..n : end[k] = end[k - 1] + width[k]
<1>1. \A k \in 0..n : end[k] = IF k = 0 THEN 0 ELSE end[k - 1] + width[k]
  BY DEF IsEnds
<1>2. end[0] = 0 /\ \A k \in 1..n : end[k] = end[k - 1] + width[k]
  BY <1>1
<1> DEFINE G == {k \in 0..n : end[k] \in Nat}
<1>3. 0 \in G
  BY <1>2
<1>4. ASSUME NEW k \in 0..(n - 1), k \in G
      PROVE  k + 1 \in G
  <2>1. k + 1 \in 1..n /\ k + 1 \in 0..n /\ k + 1 - 1 = k /\ width[k + 1] \in Nat
    OBVIOUS
  <2>2. end[k + 1] = end[k] + width[k + 1]
    BY <1>2, <2>1
  <2> QED BY <1>4, <2>1, <2>2
<1> HIDE DEF G
<1>5. \A k \in 0..n : k \in G
  BY <1>3, <1>4, UpTo
<1> QED BY <1>2, <1>5 DEF G

\* Each field begins where the one before ends.
LEMMA FieldsFollow ==
  ASSUME NEW struct, IsStruct(struct)
  PROVE  /\ Offset(struct, 1) = 0
         /\ \A i \in 1..Len(struct) :
              Offset(struct, i) \in Nat /\ Offset(struct, i + 1) = Offset(struct, i) + struct[i][2]
         /\ SizeOf(struct) \in Nat
<1> DEFINE n == Len(struct)
           width == [k \in 1..n |-> struct[k][2]]
           end == CHOOSE g : g = [k \in 0..Len(struct) |-> IF k = 0 THEN 0 ELSE g[k - 1] + struct[k][2]]
<1>1. n \in Nat /\ width \in [1..n -> Nat]
  <2>1. n \in Nat /\ \A k \in 1..n : struct[k][2] \in Nat
    BY DEF IsStruct
  <2> QED BY <2>1
<1>2. \A g : IsEnds(g, n, width) <=>
        g = [k \in 0..n |-> IF k = 0 THEN 0 ELSE g[k - 1] + struct[k][2]]
  <2>1. \A k \in 0..n : k # 0 => width[k] = struct[k][2]
    BY <1>1
  <2> HIDE DEF width, n
  <2>2. \A g : [k \in 0..n |-> IF k = 0 THEN 0 ELSE g[k - 1] + width[k]] =
               [k \in 0..n |-> IF k = 0 THEN 0 ELSE g[k - 1] + struct[k][2]]
    BY <2>1
  <2> QED BY <2>2, Zenon DEF IsEnds
<1>3. PICK g : IsEnds(g, n, width)
  <2> HIDE DEF n, width
  <2> QED BY <1>1, EndsExist
<1>4. IsEnds(end, n, width)
  <2>1. g = [k \in 0..n |-> IF k = 0 THEN 0 ELSE g[k - 1] + struct[k][2]]
    BY <1>2, <1>3, Zenon
  <2>2. end = [k \in 0..n |-> IF k = 0 THEN 0 ELSE end[k - 1] + struct[k][2]]
    BY <2>1, Zenon
  <2> HIDE DEF end, n, width
  <2> QED BY <1>2, <2>2, Zenon
<1>5. \A i : Offset(struct, i) = end[i - 1]
  BY Zenon DEF Offset
<1>6. \A k \in 1..n : width[k] = struct[k][2]
  BY <1>1
<1> HIDE DEF end, n, width
<1>7. /\ end[0] = 0 /\ \A k \in 0..n : end[k] \in Nat
      /\ \A k \in 1..n : end[k] = end[k - 1] + width[k]
  BY <1>1, <1>4, EndsFollow
<1>8. Offset(struct, 1) = 0
  <2>1. Offset(struct, 1) = end[1 - 1] /\ 1 - 1 = 0
    BY <1>5
  <2> QED BY <1>7, <2>1
<1>9. ASSUME NEW i \in 1..n
      PROVE  Offset(struct, i) \in Nat /\ Offset(struct, i + 1) = Offset(struct, i) + struct[i][2]
  <2>1. i - 1 \in 0..n /\ i + 1 - 1 = i
    BY <1>1
  <2>2. Offset(struct, i) = end[i - 1] /\ Offset(struct, i + 1) = end[i]
    BY <1>5, <2>1
  <2> QED BY <1>6, <1>7, <2>1, <2>2
<1>10. SizeOf(struct) \in Nat
  <2>1. SizeOf(struct) = end[n + 1 - 1] /\ n + 1 - 1 = n /\ n \in 0..n
    BY <1>1, <1>5 DEF SizeOf, n
  <2> QED BY <1>7, <2>1
<1> QED BY <1>8, <1>9, <1>10 DEF n

\* A field of a struct whose names differ.
LEMMA FieldByPosition ==
  ASSUME NEW struct, NEW i \in DOMAIN struct, NEW bytes,
         \A j \in DOMAIN struct : struct[j][1] = struct[i][1] => j = i
  PROVE  FieldOf(struct, struct[i][1], bytes) =
           SubSeq(bytes, Offset(struct, i) + 1, Offset(struct, i) + struct[i][2])
<1> DEFINE k == CHOOSE j \in DOMAIN struct : struct[j][1] = struct[i][1]
<1>1. k = i
  OBVIOUS
<1>2. FieldOf(struct, struct[i][1], bytes) =
        SubSeq(bytes, Offset(struct, k) + 1, Offset(struct, k) + struct[k][2])
  BY Zenon DEF FieldOf
<1> QED BY <1>1, <1>2, Zenon

FieldsFit(struct, values) ==
  \A i \in 1..Len(struct) : /\ FieldBytes(struct[i], values) \in Seq(Byte)
                            /\ Len(FieldBytes(struct[i], values)) = struct[i][2]

\* The bytes of a struct, in memory or written by a helper.
Carries(struct, bytes, values) ==
  /\ bytes \in Seq(Byte) /\ Len(bytes) = SizeOf(struct)
  /\ \A i \in 1..Len(struct) :
       /\ Offset(struct, i) + struct[i][2] <= SizeOf(struct)
       /\ SubSeq(bytes, Offset(struct, i) + 1, Offset(struct, i) + struct[i][2]) =
            FieldBytes(struct[i], values)

\* The fields of a struct written one after the other.
IsJoin(g, n, B) == g = [k \in 0..n |-> IF k = 0 THEN <<>> ELSE g[k - 1] \o B[k]]

LEMMA JoinExists ==
  ASSUME NEW n \in Nat, NEW B \in [1..n -> Seq(Byte)]
  PROVE  \E g \in [0..n -> Seq(Byte)] : IsJoin(g, n, B)
<1> DEFINE F == [p \in Seq(Byte) \X (1..n) |-> p[1] \o B[p[2]]]
<1>1. F \in [Seq(Byte) \X (1..n) -> Seq(Byte)]
  <2>1. ASSUME NEW p \in Seq(Byte) \X (1..n)
        PROVE  p[1] \o B[p[2]] \in Seq(Byte)
    <3>1. p[1] \in Seq(Byte) /\ B[p[2]] \in Seq(Byte)
      OBVIOUS
    <3> QED BY <3>1
  <2> QED BY <2>1
<1>2. \A p \in Seq(Byte) \X (1..n) : F[p] = p[1] \o B[p[2]]
  OBVIOUS
<1> HIDE DEF F
<1>3. <<>> \in Seq(Byte)
  OBVIOUS
<1>4. PICK g \in [0..n -> Seq(Byte)] : IsIterate(g, n, F, <<>>)
  BY <1>1, <1>3, IterateExists
<1>5. /\ g[0] = <<>>
      /\ \A k \in 1..n : <<g[k - 1], k>> \in Seq(Byte) \X (1..n) /\ g[k] = F[<<g[k - 1], k>>]
  <2>1. Steps(g, n, Seq(Byte), F, <<>>)
    BY <1>3, <1>4, IterateSteps
  <2> QED BY <2>1, Zenon DEF Steps
<1>6. ASSUME NEW k \in 1..n
      PROVE  g[k] = g[k - 1] \o B[k]
  <2>1. F[<<g[k - 1], k>>] = <<g[k - 1], k>>[1] \o B[<<g[k - 1], k>>[2]]
    BY <1>2, <1>5
  <2> QED BY <1>5, <2>1
<1>7. \A k \in 0..n : g[k] = IF k = 0 THEN <<>> ELSE g[k - 1] \o B[k]
  <2>1. \A k \in 0..n : k = 0 \/ k \in 1..n
    OBVIOUS
  <2> QED BY <1>5, <1>6, <2>1
<1>8. g = [k \in 0..n |-> g[k]]
  OBVIOUS
<1>9. g = [k \in 0..n |-> IF k = 0 THEN <<>> ELSE g[k - 1] \o B[k]]
  BY <1>7, <1>8
<1>10. IsJoin(g, n, B)
  BY <1>9, Zenon DEF IsJoin
<1> QED BY <1>10

LEMMA JoinedBefore ==
  ASSUME NEW s \in Seq(Byte), NEW t \in Seq(Byte), NEW a \in Nat, NEW b \in Nat,
         a + b <= Len(s)
  PROVE  SubSeq(s \o t, a + 1, a + b) = SubSeq(s, a + 1, a + b)
OBVIOUS

LEMMA JoinedLast ==
  ASSUME NEW s \in Seq(Byte), NEW t \in Seq(Byte)
  PROVE  SubSeq(s \o t, Len(s) + 1, Len(s) + Len(t)) = t
OBVIOUS

\* Each of them is found between the ends of the widths.
HoldsAt(bytes, n, B, at) ==
  /\ bytes \in Seq(Byte) /\ Len(bytes) = at[n + 1]
  /\ \A i \in 1..n : /\ at[i + 1] <= at[n + 1]
                     /\ SubSeq(bytes, at[i] + 1, at[i] + Len(B[i])) = B[i]

LEMMA JoinHolds ==
  ASSUME NEW n \in Nat, NEW B \in [1..n -> Seq(Byte)], NEW g, IsJoin(g, n, B),
         NEW at, at[1] = 0,
         \A i \in 1..n : at[i] \in Nat /\ at[i + 1] = at[i] + Len(B[i])
  PROVE  HoldsAt(g[n], n, B, at)
<1>1. g[0] = <<>> /\ \A k \in 1..n : g[k] = g[k - 1] \o B[k]
  <2>1. \A k \in 0..n : g[k] = IF k = 0 THEN <<>> ELSE g[k - 1] \o B[k]
    BY DEF IsJoin
  <2>2. 0 \in 0..n /\ \A k \in 1..n : k \in 0..n /\ k # 0
    OBVIOUS
  <2> QED BY <2>1, <2>2
<1> DEFINE sub(k, i) == SubSeq(g[k], at[i] + 1, at[i] + Len(B[i]))
           Good(k) == /\ g[k] \in Seq(Byte) /\ Len(g[k]) = at[k + 1]
                      /\ \A i \in 1..k : at[i + 1] <= at[k + 1] /\ sub(k, i) = B[i]
           G == {k \in 0..n : Good(k)}
<1>2. 0 \in G
  <2>1. 0 + 1 = 1 /\ 0 \in 0..n /\ 1..0 = {}
    OBVIOUS
  <2>2. <<>> \in Seq(Byte) /\ Len(<<>>) = 0
    OBVIOUS
  <2>3. g[0] \in Seq(Byte) /\ Len(g[0]) = at[0 + 1]
    BY <1>1, <2>1, <2>2
  <2> HIDE DEF sub
  <2>4. Good(0)
    BY <2>1, <2>3
  <2> HIDE DEF Good
  <2> QED BY <2>1, <2>4
<1>3. ASSUME NEW k \in 0..(n - 1), k \in G
      PROVE  k + 1 \in G
  <2>1. Good(k)
    BY <1>3
  <2>2. k + 1 \in 1..n /\ k + 1 \in 0..n /\ k + 1 - 1 = k /\ (k + 1) + 1 = k + 2
    OBVIOUS
  <2>3. PICK s \in Seq(Byte) : s = g[k]
    BY <2>1
  <2>4. PICK t \in Seq(Byte) : t = B[k + 1]
    BY <2>2
  <2>5. Len(s) \in Nat /\ Len(t) \in Nat /\ s \o t \in Seq(Byte) /\ Len(s \o t) = Len(s) + Len(t)
    OBVIOUS
  <2>6. g[k + 1] = s \o t
    <3>1. PICK j \in 1..n : j = k + 1 /\ j - 1 = k
      BY <2>2
    <3>2. g[j] = g[j - 1] \o B[j]
      BY <1>1, Zenon
    <3> QED BY <2>3, <2>4, <3>1, <3>2
  <2>7. at[k + 1] = Len(s)
    BY <2>1, <2>3
  <2>8. at[k + 2] = Len(s) + Len(t)
    BY <2>2, <2>4, <2>7
  <2>9. ASSUME NEW i \in 1..(k + 1)
        PROVE  at[i + 1] <= at[k + 2] /\ sub(k + 1, i) = B[i]
    <3>1. CASE i = k + 1
      <4>1. SubSeq(s \o t, Len(s) + 1, Len(s) + Len(t)) = t
        BY JoinedLast
      <4>2. sub(k + 1, i) = SubSeq(s \o t, Len(s) + 1, Len(s) + Len(t))
        BY <2>4, <2>6, <2>7, <3>1
      <4>3. at[i + 1] = at[k + 2] /\ at[k + 2] <= at[k + 2]
        BY <2>2, <2>5, <2>8, <3>1
      <4> QED BY <2>4, <3>1, <4>1, <4>2, <4>3, Zenon
    <3>2. CASE i # k + 1
      <4>1. i \in 1..k /\ i \in 1..n
        BY <3>2
      <4>2. /\ at[i + 1] <= at[k + 1] /\ sub(k, i) = B[i]
            /\ at[i] \in Nat /\ at[i + 1] = at[i] + Len(B[i]) /\ Len(B[i]) \in Nat
        <5> HIDE DEF sub
        <5>1. at[i + 1] <= at[k + 1] /\ sub(k, i) = B[i]
          BY <2>1, <4>1
        <5> QED BY <4>1, <5>1
      <4>3. PICK a \in Nat : a = at[i]
        BY <4>2
      <4>4. PICK b \in Nat : b = Len(B[i])
        BY <4>2
      <4>5. a + b <= Len(s)
        BY <2>7, <4>2, <4>3, <4>4
      <4>6. SubSeq(s \o t, a + 1, a + b) = SubSeq(s, a + 1, a + b)
        BY <4>5, JoinedBefore
      <4>7. sub(k + 1, i) = SubSeq(s \o t, a + 1, a + b) /\ sub(k, i) = SubSeq(s, a + 1, a + b)
        BY <2>3, <2>6, <4>3, <4>4, Zenon
      <4>8. at[i + 1] <= at[k + 2]
        <5>1. at[i + 1] = a + b
          BY <4>2, <4>3, <4>4
        <5>2. a + b <= Len(s) + Len(t)
          BY <2>5, <4>5
        <5> QED BY <2>8, <5>1, <5>2
      <4> QED BY <4>2, <4>6, <4>7, <4>8, Zenon
    <3> QED BY <3>1, <3>2
  <2> HIDE DEF sub
  <2>10. Good(k + 1)
    BY <2>2, <2>5, <2>6, <2>8, <2>9
  <2> HIDE DEF Good
  <2> QED BY <2>2, <2>10
<1>4. Good(n)
  <2> HIDE DEF Good
  <2>1. \A k \in 0..(n - 1) : k \in G => k + 1 \in G
    BY <1>3
  <2> HIDE DEF G
  <2>2. \A k \in 0..n : k \in G
    BY <1>2, <2>1, UpTo
  <2> QED BY <2>2 DEF G
<1> QED BY <1>4 DEF HoldsAt

LEMMA PackCarries ==
  ASSUME NEW struct, IsStruct(struct), NEW values, FieldsFit(struct, values)
  PROVE  Carries(struct, Pack(struct, values), values)
<1> DEFINE n == Len(struct)
           B == [i \in 1..n |-> FieldBytes(struct[i], values)]
           at == [i \in 1..(n + 1) |-> Offset(struct, i)]
           bytes == CHOOSE g : g = [k \in 0..Len(struct) |->
                                      IF k = 0 THEN <<>> ELSE g[k - 1] \o FieldBytes(struct[k], values)]
<1>1. /\ n \in Nat /\ B \in [1..n -> Seq(Byte)]
      /\ \A k \in 1..n : B[k] = FieldBytes(struct[k], values) /\ Len(B[k]) = struct[k][2]
  BY DEF IsStruct, FieldsFit
<1>2. \A g : IsJoin(g, n, B) <=>
        g = [k \in 0..n |-> IF k = 0 THEN <<>> ELSE g[k - 1] \o FieldBytes(struct[k], values)]
  <2>1. \A k \in 0..n : k # 0 => B[k] = FieldBytes(struct[k], values)
    BY <1>1
  <2> HIDE DEF B, n
  <2>2. \A g : [k \in 0..n |-> IF k = 0 THEN <<>> ELSE g[k - 1] \o B[k]] =
               [k \in 0..n |-> IF k = 0 THEN <<>> ELSE g[k - 1] \o FieldBytes(struct[k], values)]
    BY <2>1
  <2> QED BY <2>2, Zenon DEF IsJoin
<1>3. PICK g : IsJoin(g, n, B)
  <2> HIDE DEF n, B
  <2> QED BY <1>1, JoinExists
<1>4. IsJoin(bytes, n, B)
  <2>1. g = [k \in 0..n |-> IF k = 0 THEN <<>> ELSE g[k - 1] \o FieldBytes(struct[k], values)]
    BY <1>2, <1>3, Zenon
  <2>2. bytes = [k \in 0..n |-> IF k = 0 THEN <<>> ELSE bytes[k - 1] \o FieldBytes(struct[k], values)]
    BY <2>1, Zenon
  <2> HIDE DEF bytes, n, B
  <2> QED BY <1>2, <2>2, Zenon
<1>5. Pack(struct, values) = bytes[n]
  BY Zenon DEF Pack
<1>6. /\ at[1] = 0
      /\ \A i \in 1..n : at[i] \in Nat /\ at[i + 1] = at[i] + struct[i][2]
      /\ \A i \in 1..n : at[i] = Offset(struct, i)
      /\ at[n + 1] = SizeOf(struct)
  <2>1. 1 \in 1..(n + 1) /\ n + 1 \in 1..(n + 1) /\ \A i \in 1..n : i \in 1..(n + 1) /\ i + 1 \in 1..(n + 1)
    BY <1>1
  <2> QED BY <2>1, FieldsFollow DEF SizeOf
<1> HIDE DEF bytes, n, B, at
<1>7. \A i \in 1..n : at[i] \in Nat /\ at[i + 1] = at[i] + Len(B[i])
  BY <1>1, <1>6
<1>8. /\ bytes[n] \in Seq(Byte) /\ Len(bytes[n]) = at[n + 1]
      /\ \A i \in 1..n : /\ at[i + 1] <= at[n + 1]
                         /\ SubSeq(bytes[n], at[i] + 1, at[i] + Len(B[i])) = B[i]
  <2>1. at[1] = 0
    BY <1>6
  <2>2. HoldsAt(bytes[n], n, B, at)
    BY <1>1, <1>4, <1>7, <2>1, JoinHolds
  <2> QED BY <2>2, Zenon DEF HoldsAt
<1>9. \A i \in 1..n :
        /\ Offset(struct, i) + struct[i][2] <= SizeOf(struct)
        /\ SubSeq(bytes[n], Offset(struct, i) + 1, Offset(struct, i) + struct[i][2]) =
             FieldBytes(struct[i], values)
  BY <1>1, <1>6, <1>8
<1> QED BY <1>5, <1>6, <1>8, <1>9 DEF Carries, n

-----------------------------------------------------------------------------
(* The layouts of the code *)

\* The fields of a struct, and that no two have a name.
IsLayout(struct, n) ==
  /\ IsStruct(struct) /\ Len(struct) = n /\ DOMAIN struct = 1..n
  /\ \A i, j \in 1..n : struct[j][1] = struct[i][1] => j = i

LEMMA MessageHeaderLayout ==
  /\ IsLayout(MessageHeader, 8) /\ SizeOf(MessageHeader) = 28
  /\ MessageHeader[1] = <<"magic", 4>> /\ Offset(MessageHeader, 1) = 0
  /\ MessageHeader[2] = <<"version", 1>> /\ Offset(MessageHeader, 2) = 4
  /\ MessageHeader[3] = <<"type", 1>> /\ Offset(MessageHeader, 3) = 5
  /\ MessageHeader[4] = <<"flags", 2>> /\ Offset(MessageHeader, 4) = 6
  /\ MessageHeader[5] = <<"payload_size", 4>> /\ Offset(MessageHeader, 5) = 8
  /\ MessageHeader[6] = <<"device_id", 4>> /\ Offset(MessageHeader, 6) = 12
  /\ MessageHeader[7] = <<"sequence", 4>> /\ Offset(MessageHeader, 7) = 16
  /\ MessageHeader[8] = <<"timestamp_us", 8>> /\ Offset(MessageHeader, 8) = 20
<1>2. /\ MessageHeader[1] = <<"magic", 4>>
      /\ MessageHeader[2] = <<"version", 1>>
      /\ MessageHeader[3] = <<"type", 1>>
      /\ MessageHeader[4] = <<"flags", 2>>
      /\ MessageHeader[5] = <<"payload_size", 4>>
      /\ MessageHeader[6] = <<"device_id", 4>>
      /\ MessageHeader[7] = <<"sequence", 4>>
      /\ MessageHeader[8] = <<"timestamp_us", 8>>
  BY DEF MessageHeader
<1>1. IsStruct(MessageHeader) /\ Len(MessageHeader) = 8 /\ DOMAIN MessageHeader = 1..8
  <2>1. Len(MessageHeader) = 8 /\ DOMAIN MessageHeader = 1..8
    BY DEF MessageHeader
  <2>2. \A i \in 1..8 : MessageHeader[i][2] \in Nat
    BY <1>2
  <2> QED BY <2>1, <2>2 DEF IsStruct
<1>3. \A i, j \in 1..8 : MessageHeader[j][1] = MessageHeader[i][1] => j = i
  BY <1>2
<1>4. /\ Offset(MessageHeader, 1) = 0
      /\ \A i \in 1..8 : Offset(MessageHeader, i + 1) = Offset(MessageHeader, i) + MessageHeader[i][2]
  BY <1>1, FieldsFollow
<1>5. /\ Offset(MessageHeader, 2) = Offset(MessageHeader, 1) + 4
      /\ Offset(MessageHeader, 3) = Offset(MessageHeader, 2) + 1
      /\ Offset(MessageHeader, 4) = Offset(MessageHeader, 3) + 1
      /\ Offset(MessageHeader, 5) = Offset(MessageHeader, 4) + 2
      /\ Offset(MessageHeader, 6) = Offset(MessageHeader, 5) + 4
      /\ Offset(MessageHeader, 7) = Offset(MessageHeader, 6) + 4
      /\ Offset(MessageHeader, 8) = Offset(MessageHeader, 7) + 4
      /\ Offset(MessageHeader, 9) = Offset(MessageHeader, 8) + 8
  <2>1. Offset(MessageHeader, 2) = Offset(MessageHeader, 1) + 4
    BY <1>2, <1>4, 1 \in 1..8, 1 + 1 = 2
  <2>2. Offset(MessageHeader, 3) = Offset(MessageHeader, 2) + 1
    BY <1>2, <1>4, 2 \in 1..8, 2 + 1 = 3
  <2>3. Offset(MessageHeader, 4) = Offset(MessageHeader, 3) + 1
    BY <1>2, <1>4, 3 \in 1..8, 3 + 1 = 4
  <2>4. Offset(MessageHeader, 5) = Offset(MessageHeader, 4) + 2
    BY <1>2, <1>4, 4 \in 1..8, 4 + 1 = 5
  <2>5. Offset(MessageHeader, 6) = Offset(MessageHeader, 5) + 4
    BY <1>2, <1>4, 5 \in 1..8, 5 + 1 = 6
  <2>6. Offset(MessageHeader, 7) = Offset(MessageHeader, 6) + 4
    BY <1>2, <1>4, 6 \in 1..8, 6 + 1 = 7
  <2>7. Offset(MessageHeader, 8) = Offset(MessageHeader, 7) + 4
    BY <1>2, <1>4, 7 \in 1..8, 7 + 1 = 8
  <2>8. Offset(MessageHeader, 9) = Offset(MessageHeader, 8) + 8
    BY <1>2, <1>4, 8 \in 1..8, 8 + 1 = 9
  <2> QED BY <2>1, <2>2, <2>3, <2>4, <2>5, <2>6, <2>7, <2>8
<1>6. SizeOf(MessageHeader) = Offset(MessageHeader, 9)
  BY <1>1 DEF SizeOf
<1> QED BY <1>1, <1>2, <1>3, <1>4, <1>5, <1>6 DEF IsLayout

LEMMA SessionPayloadLayout ==
  /\ IsLayout(SessionPayload, 6) /\ SizeOf(SessionPayload) = 52
  /\ SessionPayload[1] = <<"session_id", 4>> /\ Offset(SessionPayload, 1) = 0
  /\ SessionPayload[2] = <<"peer_id", 4>> /\ Offset(SessionPayload, 2) = 4
  /\ SessionPayload[3] = <<"capabilities", 4>> /\ Offset(SessionPayload, 3) = 8
  /\ SessionPayload[4] = <<"keepalive_interval_us", 4>> /\ Offset(SessionPayload, 4) = 12
  /\ SessionPayload[5] = <<"timeout_us", 4>> /\ Offset(SessionPayload, 5) = 16
  /\ SessionPayload[6] = <<"name", 32>> /\ Offset(SessionPayload, 6) = 20
<1>2. /\ SessionPayload[1] = <<"session_id", 4>>
      /\ SessionPayload[2] = <<"peer_id", 4>>
      /\ SessionPayload[3] = <<"capabilities", 4>>
      /\ SessionPayload[4] = <<"keepalive_interval_us", 4>>
      /\ SessionPayload[5] = <<"timeout_us", 4>>
      /\ SessionPayload[6] = <<"name", 32>>
  BY DEF SessionPayload
<1>1. IsStruct(SessionPayload) /\ Len(SessionPayload) = 6 /\ DOMAIN SessionPayload = 1..6
  <2>1. Len(SessionPayload) = 6 /\ DOMAIN SessionPayload = 1..6
    BY DEF SessionPayload
  <2>2. \A i \in 1..6 : SessionPayload[i][2] \in Nat
    BY <1>2
  <2> QED BY <2>1, <2>2 DEF IsStruct
<1>3. \A i, j \in 1..6 : SessionPayload[j][1] = SessionPayload[i][1] => j = i
  BY <1>2
<1>4. /\ Offset(SessionPayload, 1) = 0
      /\ \A i \in 1..6 : Offset(SessionPayload, i + 1) = Offset(SessionPayload, i) + SessionPayload[i][2]
  BY <1>1, FieldsFollow
<1>5. /\ Offset(SessionPayload, 2) = Offset(SessionPayload, 1) + 4
      /\ Offset(SessionPayload, 3) = Offset(SessionPayload, 2) + 4
      /\ Offset(SessionPayload, 4) = Offset(SessionPayload, 3) + 4
      /\ Offset(SessionPayload, 5) = Offset(SessionPayload, 4) + 4
      /\ Offset(SessionPayload, 6) = Offset(SessionPayload, 5) + 4
      /\ Offset(SessionPayload, 7) = Offset(SessionPayload, 6) + 32
  <2>1. Offset(SessionPayload, 2) = Offset(SessionPayload, 1) + 4
    BY <1>2, <1>4, 1 \in 1..6, 1 + 1 = 2
  <2>2. Offset(SessionPayload, 3) = Offset(SessionPayload, 2) + 4
    BY <1>2, <1>4, 2 \in 1..6, 2 + 1 = 3
  <2>3. Offset(SessionPayload, 4) = Offset(SessionPayload, 3) + 4
    BY <1>2, <1>4, 3 \in 1..6, 3 + 1 = 4
  <2>4. Offset(SessionPayload, 5) = Offset(SessionPayload, 4) + 4
    BY <1>2, <1>4, 4 \in 1..6, 4 + 1 = 5
  <2>5. Offset(SessionPayload, 6) = Offset(SessionPayload, 5) + 4
    BY <1>2, <1>4, 5 \in 1..6, 5 + 1 = 6
  <2>6. Offset(SessionPayload, 7) = Offset(SessionPayload, 6) + 32
    BY <1>2, <1>4, 6 \in 1..6, 6 + 1 = 7
  <2> QED BY <2>1, <2>2, <2>3, <2>4, <2>5, <2>6
<1>6. SizeOf(SessionPayload) = Offset(SessionPayload, 7)
  BY <1>1 DEF SizeOf
<1> QED BY <1>1, <1>2, <1>3, <1>4, <1>5, <1>6 DEF IsLayout

LEMMA HidDeviceAddHeaderLayout ==
  /\ IsLayout(HidDeviceAddHeader, 12) /\ SizeOf(HidDeviceAddHeader) = 16
  /\ HidDeviceAddHeader[1] = <<"vendor_id", 2>> /\ Offset(HidDeviceAddHeader, 1) = 0
  /\ HidDeviceAddHeader[2] = <<"product_id", 2>> /\ Offset(HidDeviceAddHeader, 2) = 2
  /\ HidDeviceAddHeader[3] = <<"version_number", 2>> /\ Offset(HidDeviceAddHeader, 3) = 4
  /\ HidDeviceAddHeader[4] = <<"transport", 1>> /\ Offset(HidDeviceAddHeader, 4) = 6
  /\ HidDeviceAddHeader[5] = <<"flags", 1>> /\ Offset(HidDeviceAddHeader, 5) = 7
  /\ HidDeviceAddHeader[6] = <<"descriptor_size", 2>> /\ Offset(HidDeviceAddHeader, 6) = 8
  /\ HidDeviceAddHeader[7] = <<"product_size", 1>> /\ Offset(HidDeviceAddHeader, 7) = 10
  /\ HidDeviceAddHeader[8] = <<"manufacturer_size", 1>> /\ Offset(HidDeviceAddHeader, 8) = 11
  /\ HidDeviceAddHeader[9] = <<"serial_size", 1>> /\ Offset(HidDeviceAddHeader, 9) = 12
  /\ HidDeviceAddHeader[10] = <<"source_input_profile", 1>> /\ Offset(HidDeviceAddHeader, 10) = 13
  /\ HidDeviceAddHeader[11] = <<"source_output_profile", 1>> /\ Offset(HidDeviceAddHeader, 11) = 14
  /\ HidDeviceAddHeader[12] = <<"reserved", 1>> /\ Offset(HidDeviceAddHeader, 12) = 15
<1>2. /\ HidDeviceAddHeader[1] = <<"vendor_id", 2>>
      /\ HidDeviceAddHeader[2] = <<"product_id", 2>>
      /\ HidDeviceAddHeader[3] = <<"version_number", 2>>
      /\ HidDeviceAddHeader[4] = <<"transport", 1>>
      /\ HidDeviceAddHeader[5] = <<"flags", 1>>
      /\ HidDeviceAddHeader[6] = <<"descriptor_size", 2>>
      /\ HidDeviceAddHeader[7] = <<"product_size", 1>>
      /\ HidDeviceAddHeader[8] = <<"manufacturer_size", 1>>
      /\ HidDeviceAddHeader[9] = <<"serial_size", 1>>
      /\ HidDeviceAddHeader[10] = <<"source_input_profile", 1>>
      /\ HidDeviceAddHeader[11] = <<"source_output_profile", 1>>
      /\ HidDeviceAddHeader[12] = <<"reserved", 1>>
  BY DEF HidDeviceAddHeader
<1>1. IsStruct(HidDeviceAddHeader) /\ Len(HidDeviceAddHeader) = 12 /\ DOMAIN HidDeviceAddHeader = 1..12
  <2>1. Len(HidDeviceAddHeader) = 12 /\ DOMAIN HidDeviceAddHeader = 1..12
    BY DEF HidDeviceAddHeader
  <2>2. \A i \in 1..12 : HidDeviceAddHeader[i][2] \in Nat
    BY <1>2
  <2> QED BY <2>1, <2>2 DEF IsStruct
<1>3. \A i, j \in 1..12 : HidDeviceAddHeader[j][1] = HidDeviceAddHeader[i][1] => j = i
  BY <1>2
<1>4. /\ Offset(HidDeviceAddHeader, 1) = 0
      /\ \A i \in 1..12 : Offset(HidDeviceAddHeader, i + 1) = Offset(HidDeviceAddHeader, i) + HidDeviceAddHeader[i][2]
  BY <1>1, FieldsFollow
<1>5. /\ Offset(HidDeviceAddHeader, 2) = Offset(HidDeviceAddHeader, 1) + 2
      /\ Offset(HidDeviceAddHeader, 3) = Offset(HidDeviceAddHeader, 2) + 2
      /\ Offset(HidDeviceAddHeader, 4) = Offset(HidDeviceAddHeader, 3) + 2
      /\ Offset(HidDeviceAddHeader, 5) = Offset(HidDeviceAddHeader, 4) + 1
      /\ Offset(HidDeviceAddHeader, 6) = Offset(HidDeviceAddHeader, 5) + 1
      /\ Offset(HidDeviceAddHeader, 7) = Offset(HidDeviceAddHeader, 6) + 2
      /\ Offset(HidDeviceAddHeader, 8) = Offset(HidDeviceAddHeader, 7) + 1
      /\ Offset(HidDeviceAddHeader, 9) = Offset(HidDeviceAddHeader, 8) + 1
      /\ Offset(HidDeviceAddHeader, 10) = Offset(HidDeviceAddHeader, 9) + 1
      /\ Offset(HidDeviceAddHeader, 11) = Offset(HidDeviceAddHeader, 10) + 1
      /\ Offset(HidDeviceAddHeader, 12) = Offset(HidDeviceAddHeader, 11) + 1
      /\ Offset(HidDeviceAddHeader, 13) = Offset(HidDeviceAddHeader, 12) + 1
  <2>1. Offset(HidDeviceAddHeader, 2) = Offset(HidDeviceAddHeader, 1) + 2
    BY <1>2, <1>4, 1 \in 1..12, 1 + 1 = 2
  <2>2. Offset(HidDeviceAddHeader, 3) = Offset(HidDeviceAddHeader, 2) + 2
    BY <1>2, <1>4, 2 \in 1..12, 2 + 1 = 3
  <2>3. Offset(HidDeviceAddHeader, 4) = Offset(HidDeviceAddHeader, 3) + 2
    BY <1>2, <1>4, 3 \in 1..12, 3 + 1 = 4
  <2>4. Offset(HidDeviceAddHeader, 5) = Offset(HidDeviceAddHeader, 4) + 1
    BY <1>2, <1>4, 4 \in 1..12, 4 + 1 = 5
  <2>5. Offset(HidDeviceAddHeader, 6) = Offset(HidDeviceAddHeader, 5) + 1
    BY <1>2, <1>4, 5 \in 1..12, 5 + 1 = 6
  <2>6. Offset(HidDeviceAddHeader, 7) = Offset(HidDeviceAddHeader, 6) + 2
    BY <1>2, <1>4, 6 \in 1..12, 6 + 1 = 7
  <2>7. Offset(HidDeviceAddHeader, 8) = Offset(HidDeviceAddHeader, 7) + 1
    BY <1>2, <1>4, 7 \in 1..12, 7 + 1 = 8
  <2>8. Offset(HidDeviceAddHeader, 9) = Offset(HidDeviceAddHeader, 8) + 1
    BY <1>2, <1>4, 8 \in 1..12, 8 + 1 = 9
  <2>9. Offset(HidDeviceAddHeader, 10) = Offset(HidDeviceAddHeader, 9) + 1
    BY <1>2, <1>4, 9 \in 1..12, 9 + 1 = 10
  <2>10. Offset(HidDeviceAddHeader, 11) = Offset(HidDeviceAddHeader, 10) + 1
    BY <1>2, <1>4, 10 \in 1..12, 10 + 1 = 11
  <2>11. Offset(HidDeviceAddHeader, 12) = Offset(HidDeviceAddHeader, 11) + 1
    BY <1>2, <1>4, 11 \in 1..12, 11 + 1 = 12
  <2>12. Offset(HidDeviceAddHeader, 13) = Offset(HidDeviceAddHeader, 12) + 1
    BY <1>2, <1>4, 12 \in 1..12, 12 + 1 = 13
  <2> QED BY <2>1, <2>2, <2>3, <2>4, <2>5, <2>6, <2>7, <2>8, <2>9, <2>10, <2>11, <2>12
<1>6. SizeOf(HidDeviceAddHeader) = Offset(HidDeviceAddHeader, 13)
  BY <1>1 DEF SizeOf
<1> QED BY <1>1, <1>2, <1>3, <1>4, <1>5, <1>6 DEF IsLayout

LEMMA HidReportHeaderLayout ==
  /\ IsLayout(HidReportHeader, 3) /\ SizeOf(HidReportHeader) = 4
  /\ HidReportHeader[1] = <<"report_type", 1>> /\ Offset(HidReportHeader, 1) = 0
  /\ HidReportHeader[2] = <<"report_id", 1>> /\ Offset(HidReportHeader, 2) = 1
  /\ HidReportHeader[3] = <<"data_size", 2>> /\ Offset(HidReportHeader, 3) = 2
<1>2. /\ HidReportHeader[1] = <<"report_type", 1>>
      /\ HidReportHeader[2] = <<"report_id", 1>>
      /\ HidReportHeader[3] = <<"data_size", 2>>
  BY DEF HidReportHeader
<1>1. IsStruct(HidReportHeader) /\ Len(HidReportHeader) = 3 /\ DOMAIN HidReportHeader = 1..3
  <2>1. Len(HidReportHeader) = 3 /\ DOMAIN HidReportHeader = 1..3
    BY DEF HidReportHeader
  <2>2. \A i \in 1..3 : HidReportHeader[i][2] \in Nat
    BY <1>2
  <2> QED BY <2>1, <2>2 DEF IsStruct
<1>3. \A i, j \in 1..3 : HidReportHeader[j][1] = HidReportHeader[i][1] => j = i
  BY <1>2
<1>4. /\ Offset(HidReportHeader, 1) = 0
      /\ \A i \in 1..3 : Offset(HidReportHeader, i + 1) = Offset(HidReportHeader, i) + HidReportHeader[i][2]
  BY <1>1, FieldsFollow
<1>5. /\ Offset(HidReportHeader, 2) = Offset(HidReportHeader, 1) + 1
      /\ Offset(HidReportHeader, 3) = Offset(HidReportHeader, 2) + 1
      /\ Offset(HidReportHeader, 4) = Offset(HidReportHeader, 3) + 2
  <2>1. Offset(HidReportHeader, 2) = Offset(HidReportHeader, 1) + 1
    BY <1>2, <1>4, 1 \in 1..3, 1 + 1 = 2
  <2>2. Offset(HidReportHeader, 3) = Offset(HidReportHeader, 2) + 1
    BY <1>2, <1>4, 2 \in 1..3, 2 + 1 = 3
  <2>3. Offset(HidReportHeader, 4) = Offset(HidReportHeader, 3) + 2
    BY <1>2, <1>4, 3 \in 1..3, 3 + 1 = 4
  <2> QED BY <2>1, <2>2, <2>3
<1>6. SizeOf(HidReportHeader) = Offset(HidReportHeader, 4)
  BY <1>1 DEF SizeOf
<1> QED BY <1>1, <1>2, <1>3, <1>4, <1>5, <1>6 DEF IsLayout

LEMMA DeviceDescriptionLayout ==
  /\ IsLayout(DeviceDescription, 13) /\ SizeOf(DeviceDescription) = 396
  /\ DeviceDescription[1] = <<"requested_profile", 1>> /\ Offset(DeviceDescription, 1) = 0
  /\ DeviceDescription[2] = <<"device_flags", 1>> /\ Offset(DeviceDescription, 2) = 1
  /\ DeviceDescription[3] = <<"button_count", 1>> /\ Offset(DeviceDescription, 3) = 2
  /\ DeviceDescription[4] = <<"hat_count", 1>> /\ Offset(DeviceDescription, 4) = 3
  /\ DeviceDescription[5] = <<"axis_count", 1>> /\ Offset(DeviceDescription, 5) = 4
  /\ DeviceDescription[6] = <<"motion_flags", 1>> /\ Offset(DeviceDescription, 6) = 5
  /\ DeviceDescription[7] = <<"vendor_id", 2>> /\ Offset(DeviceDescription, 7) = 6
  /\ DeviceDescription[8] = <<"product_id", 2>> /\ Offset(DeviceDescription, 8) = 8
  /\ DeviceDescription[9] = <<"version_number", 2>> /\ Offset(DeviceDescription, 9) = 10
  /\ DeviceDescription[10] = <<"product", 64>> /\ Offset(DeviceDescription, 10) = 12
  /\ DeviceDescription[11] = <<"manufacturer", 32>> /\ Offset(DeviceDescription, 11) = 76
  /\ DeviceDescription[12] = <<"serial", 32>> /\ Offset(DeviceDescription, 12) = 108
  /\ DeviceDescription[13] = <<"axes", 256>> /\ Offset(DeviceDescription, 13) = 140
<1>2. /\ DeviceDescription[1] = <<"requested_profile", 1>>
      /\ DeviceDescription[2] = <<"device_flags", 1>>
      /\ DeviceDescription[3] = <<"button_count", 1>>
      /\ DeviceDescription[4] = <<"hat_count", 1>>
      /\ DeviceDescription[5] = <<"axis_count", 1>>
      /\ DeviceDescription[6] = <<"motion_flags", 1>>
      /\ DeviceDescription[7] = <<"vendor_id", 2>>
      /\ DeviceDescription[8] = <<"product_id", 2>>
      /\ DeviceDescription[9] = <<"version_number", 2>>
      /\ DeviceDescription[10] = <<"product", 64>>
      /\ DeviceDescription[11] = <<"manufacturer", 32>>
      /\ DeviceDescription[12] = <<"serial", 32>>
      /\ DeviceDescription[13] = <<"axes", 256>>
  BY DEF DeviceDescription
<1>1. IsStruct(DeviceDescription) /\ Len(DeviceDescription) = 13 /\ DOMAIN DeviceDescription = 1..13
  <2>1. Len(DeviceDescription) = 13 /\ DOMAIN DeviceDescription = 1..13
    BY DEF DeviceDescription
  <2>2. \A i \in 1..13 : DeviceDescription[i][2] \in Nat
    BY <1>2
  <2> QED BY <2>1, <2>2 DEF IsStruct
<1>3. \A i, j \in 1..13 : DeviceDescription[j][1] = DeviceDescription[i][1] => j = i
  BY <1>2
<1>4. /\ Offset(DeviceDescription, 1) = 0
      /\ \A i \in 1..13 : Offset(DeviceDescription, i + 1) = Offset(DeviceDescription, i) + DeviceDescription[i][2]
  BY <1>1, FieldsFollow
<1>5. /\ Offset(DeviceDescription, 2) = Offset(DeviceDescription, 1) + 1
      /\ Offset(DeviceDescription, 3) = Offset(DeviceDescription, 2) + 1
      /\ Offset(DeviceDescription, 4) = Offset(DeviceDescription, 3) + 1
      /\ Offset(DeviceDescription, 5) = Offset(DeviceDescription, 4) + 1
      /\ Offset(DeviceDescription, 6) = Offset(DeviceDescription, 5) + 1
      /\ Offset(DeviceDescription, 7) = Offset(DeviceDescription, 6) + 1
      /\ Offset(DeviceDescription, 8) = Offset(DeviceDescription, 7) + 2
      /\ Offset(DeviceDescription, 9) = Offset(DeviceDescription, 8) + 2
      /\ Offset(DeviceDescription, 10) = Offset(DeviceDescription, 9) + 2
      /\ Offset(DeviceDescription, 11) = Offset(DeviceDescription, 10) + 64
      /\ Offset(DeviceDescription, 12) = Offset(DeviceDescription, 11) + 32
      /\ Offset(DeviceDescription, 13) = Offset(DeviceDescription, 12) + 32
      /\ Offset(DeviceDescription, 14) = Offset(DeviceDescription, 13) + 256
  <2>1. Offset(DeviceDescription, 2) = Offset(DeviceDescription, 1) + 1
    BY <1>2, <1>4, 1 \in 1..13, 1 + 1 = 2
  <2>2. Offset(DeviceDescription, 3) = Offset(DeviceDescription, 2) + 1
    BY <1>2, <1>4, 2 \in 1..13, 2 + 1 = 3
  <2>3. Offset(DeviceDescription, 4) = Offset(DeviceDescription, 3) + 1
    BY <1>2, <1>4, 3 \in 1..13, 3 + 1 = 4
  <2>4. Offset(DeviceDescription, 5) = Offset(DeviceDescription, 4) + 1
    BY <1>2, <1>4, 4 \in 1..13, 4 + 1 = 5
  <2>5. Offset(DeviceDescription, 6) = Offset(DeviceDescription, 5) + 1
    BY <1>2, <1>4, 5 \in 1..13, 5 + 1 = 6
  <2>6. Offset(DeviceDescription, 7) = Offset(DeviceDescription, 6) + 1
    BY <1>2, <1>4, 6 \in 1..13, 6 + 1 = 7
  <2>7. Offset(DeviceDescription, 8) = Offset(DeviceDescription, 7) + 2
    BY <1>2, <1>4, 7 \in 1..13, 7 + 1 = 8
  <2>8. Offset(DeviceDescription, 9) = Offset(DeviceDescription, 8) + 2
    BY <1>2, <1>4, 8 \in 1..13, 8 + 1 = 9
  <2>9. Offset(DeviceDescription, 10) = Offset(DeviceDescription, 9) + 2
    BY <1>2, <1>4, 9 \in 1..13, 9 + 1 = 10
  <2>10. Offset(DeviceDescription, 11) = Offset(DeviceDescription, 10) + 64
    BY <1>2, <1>4, 10 \in 1..13, 10 + 1 = 11
  <2>11. Offset(DeviceDescription, 12) = Offset(DeviceDescription, 11) + 32
    BY <1>2, <1>4, 11 \in 1..13, 11 + 1 = 12
  <2>12. Offset(DeviceDescription, 13) = Offset(DeviceDescription, 12) + 32
    BY <1>2, <1>4, 12 \in 1..13, 12 + 1 = 13
  <2>13. Offset(DeviceDescription, 14) = Offset(DeviceDescription, 13) + 256
    BY <1>2, <1>4, 13 \in 1..13, 13 + 1 = 14
  <2> QED BY <2>1, <2>2, <2>3, <2>4, <2>5, <2>6, <2>7, <2>8, <2>9, <2>10, <2>11, <2>12, <2>13
<1>6. SizeOf(DeviceDescription) = Offset(DeviceDescription, 14)
  BY <1>1 DEF SizeOf
<1> QED BY <1>1, <1>2, <1>3, <1>4, <1>5, <1>6 DEF IsLayout

LEMMA InputStateLayout ==
  /\ IsLayout(InputState, 6) /\ SizeOf(InputState) = 88
  /\ InputState[1] = <<"buttons", 8>> /\ Offset(InputState, 1) = 0
  /\ InputState[2] = <<"hats", 4>> /\ Offset(InputState, 2) = 8
  /\ InputState[3] = <<"axes", 32>> /\ Offset(InputState, 3) = 12
  /\ InputState[4] = <<"motion", 40>> /\ Offset(InputState, 4) = 44
  /\ InputState[5] = <<"battery_percent", 1>> /\ Offset(InputState, 5) = 84
  /\ InputState[6] = <<"reserved", 3>> /\ Offset(InputState, 6) = 85
<1>2. /\ InputState[1] = <<"buttons", 8>>
      /\ InputState[2] = <<"hats", 4>>
      /\ InputState[3] = <<"axes", 32>>
      /\ InputState[4] = <<"motion", 40>>
      /\ InputState[5] = <<"battery_percent", 1>>
      /\ InputState[6] = <<"reserved", 3>>
  BY DEF InputState
<1>1. IsStruct(InputState) /\ Len(InputState) = 6 /\ DOMAIN InputState = 1..6
  <2>1. Len(InputState) = 6 /\ DOMAIN InputState = 1..6
    BY DEF InputState
  <2>2. \A i \in 1..6 : InputState[i][2] \in Nat
    BY <1>2
  <2> QED BY <2>1, <2>2 DEF IsStruct
<1>3. \A i, j \in 1..6 : InputState[j][1] = InputState[i][1] => j = i
  BY <1>2
<1>4. /\ Offset(InputState, 1) = 0
      /\ \A i \in 1..6 : Offset(InputState, i + 1) = Offset(InputState, i) + InputState[i][2]
  BY <1>1, FieldsFollow
<1>5. /\ Offset(InputState, 2) = Offset(InputState, 1) + 8
      /\ Offset(InputState, 3) = Offset(InputState, 2) + 4
      /\ Offset(InputState, 4) = Offset(InputState, 3) + 32
      /\ Offset(InputState, 5) = Offset(InputState, 4) + 40
      /\ Offset(InputState, 6) = Offset(InputState, 5) + 1
      /\ Offset(InputState, 7) = Offset(InputState, 6) + 3
  <2>1. Offset(InputState, 2) = Offset(InputState, 1) + 8
    BY <1>2, <1>4, 1 \in 1..6, 1 + 1 = 2
  <2>2. Offset(InputState, 3) = Offset(InputState, 2) + 4
    BY <1>2, <1>4, 2 \in 1..6, 2 + 1 = 3
  <2>3. Offset(InputState, 4) = Offset(InputState, 3) + 32
    BY <1>2, <1>4, 3 \in 1..6, 3 + 1 = 4
  <2>4. Offset(InputState, 5) = Offset(InputState, 4) + 40
    BY <1>2, <1>4, 4 \in 1..6, 4 + 1 = 5
  <2>5. Offset(InputState, 6) = Offset(InputState, 5) + 1
    BY <1>2, <1>4, 5 \in 1..6, 5 + 1 = 6
  <2>6. Offset(InputState, 7) = Offset(InputState, 6) + 3
    BY <1>2, <1>4, 6 \in 1..6, 6 + 1 = 7
  <2> QED BY <2>1, <2>2, <2>3, <2>4, <2>5, <2>6
<1>6. SizeOf(InputState) = Offset(InputState, 7)
  BY <1>1 DEF SizeOf
<1> QED BY <1>1, <1>2, <1>3, <1>4, <1>5, <1>6 DEF IsLayout

-----------------------------------------------------------------------------
(* What is read of a payload *)

\* Where span k ends; the payload begins where span 0 would end.
EndOf(spans, k) == IF k = 0 THEN 0 ELSE spans[k].from + spans[k].size

ReadOnce(spans, payload) ==
  /\ \A k \in DOMAIN spans : spans[k].from = EndOf(spans, k - 1)
  /\ EndOf(spans, Len(spans)) = Len(payload)

\* What parse_message has found of a message it accepts.
LEMMA AcceptedMessage ==
  ASSUME NEW bytes \in Seq(Byte), ParseMessage(bytes).ok
  PROVE  LET message == ParseMessage(bytes)
             payload == message.payload
         IN /\ payload \in Seq(Byte) /\ Len(payload) \in Nat
            /\ Len(payload) = ExpectedSize(message.type, Len(payload))
            /\ message.type = 16 => ParseHidDeviceAdd(payload).ok
            /\ message.type \in 32..35 => ParseHidReport(payload).ok
<1> DEFINE type == FieldOf(MessageHeader, "type", bytes)[1]
           payload == SubSeq(bytes, 29, Len(bytes))
           good == /\ Len(bytes) \in 28..MaxDatagram
                   /\ FieldOf(MessageHeader, "magic", bytes) = LittleEndian(Magic, 4)
                   /\ FieldOf(MessageHeader, "version", bytes)[1] = Version
                   /\ FieldOf(MessageHeader, "payload_size", bytes) = LittleEndian(Len(payload), 4)
                   /\ Len(payload) = ExpectedSize(type, Len(payload))
                   /\ type = 16 => ParseHidDeviceAdd(payload).ok
                   /\ type \in 32..35 => ParseHidReport(payload).ok
                   /\ type = 48 => ValidDeviceDescription(payload)
           message == [ok |-> TRUE, type |-> type, payload |-> payload,
                       device_id |-> FieldOf(MessageHeader, "device_id", bytes),
                       sequence |-> FieldOf(MessageHeader, "sequence", bytes)]
<1>1. ParseMessage(bytes) = IF good THEN message ELSE Refused
  BY Zenon DEF ParseMessage
<1>2. ~Refused.ok
  BY DEF Refused
<1>3. good /\ ParseMessage(bytes) = message
  <2> HIDE DEF good, message
  <2> QED BY <1>1, <1>2
<1>4. message.type = type /\ message.payload = payload
  <2> HIDE DEF type, payload
  <2> QED OBVIOUS
<1>5. payload \in Seq(Byte) /\ Len(payload) \in Nat
  OBVIOUS
<1> HIDE DEF type, payload
<1>6. /\ Len(payload) = ExpectedSize(type, Len(payload))
      /\ type = 16 => ParseHidDeviceAdd(payload).ok
      /\ type \in 32..35 => ParseHidReport(payload).ok
  BY <1>3
<1> HIDE DEF good, message
<1> QED BY <1>3, <1>4, <1>5, <1>6

LEMMA AddIsReadOnce ==
  ASSUME NEW payload, Len(payload) \in Nat, ParseHidDeviceAdd(payload).ok,
         NEW add, add = ParseHidDeviceAdd(payload)
  PROVE  ReadOnce(<<Span(0, 16), add.descriptor, add.product, add.manufacturer, add.serial>>,
                  payload)
<1> DEFINE value(name) == Number(FieldOf(HidDeviceAddHeader, name, payload))
           product == 16 + value("descriptor_size")
           manufacturer == product + value("product_size")
           serial == manufacturer + value("manufacturer_size")
           good == /\ Len(payload) >= 16
                   /\ value("descriptor_size") # 0 /\ value("transport") <= 4
                   /\ value("source_output_profile") \in 0..6 \cup {255}
                   /\ value("reserved") = 0
                   /\ Len(payload) = serial + value("serial_size")
           parsed == [ok |-> TRUE, descriptor |-> Span(16, value("descriptor_size")),
                      product |-> Span(product, value("product_size")),
                      manufacturer |-> Span(manufacturer, value("manufacturer_size")),
                      serial |-> Span(serial, value("serial_size"))]
<1>1. add = IF good THEN parsed ELSE Refused
  BY Zenon DEF ParseHidDeviceAdd
<1>2. ~Refused.ok
  BY DEF Refused
<1>3. good /\ add = parsed
  <2> HIDE DEF good, parsed
  <2> QED BY <1>1, <1>2
<1> HIDE DEF value
<1>4. /\ add.descriptor = Span(16, value("descriptor_size"))
      /\ add.product = Span(product, value("product_size"))
      /\ add.manufacturer = Span(manufacturer, value("manufacturer_size"))
      /\ add.serial = Span(serial, value("serial_size"))
      /\ Len(payload) = serial + value("serial_size")
  BY <1>3
<1> HIDE DEF good, parsed
<1> DEFINE spans == <<Span(0, 16), add.descriptor, add.product, add.manufacturer, add.serial>>
<1>5. /\ DOMAIN spans = 1..5 /\ Len(spans) = 5
      /\ spans[1] = Span(0, 16) /\ spans[2] = add.descriptor /\ spans[3] = add.product
      /\ spans[4] = add.manufacturer /\ spans[5] = add.serial
  OBVIOUS
<1> HIDE DEF spans
<1>6. /\ spans[1].from = 0 /\ spans[1].size = 16
      /\ spans[2].from = 16 /\ spans[2].size = value("descriptor_size")
      /\ spans[3].from = product /\ spans[3].size = value("product_size")
      /\ spans[4].from = manufacturer /\ spans[4].size = value("manufacturer_size")
      /\ spans[5].from = serial /\ spans[5].size = value("serial_size")
  BY <1>4, <1>5 DEF Span
<1>7. ReadOnce(spans, payload)
  BY <1>4, <1>5, <1>6 DEF ReadOnce, EndOf
<1> QED BY <1>7 DEF spans

LEMMA ReportIsReadOnce ==
  ASSUME NEW payload, Len(payload) \in Nat, ParseHidReport(payload).ok
  PROVE  ReadOnce(<<Span(0, 4), ParseHidReport(payload).data>>, payload)
<1> DEFINE size == Number(FieldOf(HidReportHeader, "data_size", payload))
           good == /\ Len(payload) >= 4
                   /\ Number(FieldOf(HidReportHeader, "report_type", payload)) <= 2
                   /\ Len(payload) = 4 + size
           parsed == [ok |-> TRUE, data |-> Span(4, size)]
<1>1. ParseHidReport(payload) = IF good THEN parsed ELSE Refused
  BY Zenon DEF ParseHidReport
<1>2. ~Refused.ok
  BY DEF Refused
<1>3. good /\ ParseHidReport(payload) = parsed
  <2> HIDE DEF good, parsed
  <2> QED BY <1>1, <1>2
<1> HIDE DEF size
<1>4. ParseHidReport(payload).data = Span(4, size) /\ Len(payload) = 4 + size
  BY <1>3
<1> HIDE DEF good, parsed
<1> DEFINE spans == <<Span(0, 4), ParseHidReport(payload).data>>
<1>5. DOMAIN spans = 1..2 /\ Len(spans) = 2 /\ spans[1] = Span(0, 4) /\ spans[2] = Span(4, size)
  BY <1>4
<1> HIDE DEF spans
<1>6. spans[1].from = 0 /\ spans[1].size = 4 /\ spans[2].from = 4 /\ spans[2].size = size
  BY <1>5 DEF Span
<1>7. ReadOnce(spans, payload)
  BY <1>4, <1>5, <1>6 DEF ReadOnce, EndOf
<1> QED BY <1>7 DEF spans

LEMMA StructIsReadOnce ==
  ASSUME NEW payload, NEW size, Len(payload) \in Nat, Len(payload) = size
  PROVE  ReadOnce(<<Span(0, size)>>, payload)
<1> DEFINE spans == <<Span(0, size)>>
<1>1. DOMAIN spans = 1..1 /\ Len(spans) = 1 /\ spans[1] = Span(0, size)
  OBVIOUS
<1> HIDE DEF spans
<1>2. spans[1].from = 0 /\ spans[1].size = size
  BY <1>1 DEF Span
<1>3. ReadOnce(spans, payload)
  BY <1>1, <1>2 DEF ReadOnce, EndOf
<1> QED BY <1>3 DEF spans

LEMMA SessionTypes ==
  ASSUME NEW type \in {1, 2}
  PROVE  /\ type \in Int /\ type # 16 /\ type \notin 32..35 /\ type # 48 /\ type # 49
         /\ type \notin {3, 4, 5, 17} /\ type \notin {16} \cup 32..35
<1>1. CASE type = 1
  BY <1>1
<1>2. CASE type = 2
  BY <1>2
<1> QED BY <1>1, <1>2

LEMMA EmptyTypes ==
  ASSUME NEW type \in {3, 4, 5, 17}
  PROVE  /\ type \in Int /\ type # 16 /\ type \notin 32..35 /\ type # 48 /\ type # 49
         /\ type \notin {1, 2} /\ type \notin {16} \cup 32..35
<1>1. CASE type = 3
  BY <1>1
<1>2. CASE type = 4
  BY <1>2
<1>3. CASE type = 5
  BY <1>3
<1>4. CASE type = 17
  BY <1>4
<1> QED BY <1>1, <1>2, <1>3, <1>4

LEMMA AcceptedIsReadOnce ==
  ASSUME NEW bytes \in Seq(Byte), ParseMessage(bytes).ok
  PROVE  ReadOnce(Reads(ParseMessage(bytes)), ParseMessage(bytes).payload)
<1> DEFINE message == ParseMessage(bytes)
           payload == message.payload
           type == message.type
<1>1. /\ Len(payload) \in Nat /\ Len(payload) = ExpectedSize(type, Len(payload))
      /\ type = 16 => ParseHidDeviceAdd(payload).ok
      /\ type \in 32..35 => ParseHidReport(payload).ok
  BY AcceptedMessage, Zenon
<1> HIDE DEF message
<1>2. CASE type \in {1, 2}
  <2>0. type \in Int /\ type # 16 /\ type \notin 32..35 /\ type # 48 /\ type # 49
        /\ type \notin {3, 4, 5, 17} /\ type \notin {16} \cup 32..35
    BY <1>2, SessionTypes
  <2>1. Reads(message) = <<Span(0, SizeOf(SessionPayload))>>
    BY <1>2, <2>0, Zenon DEF Reads
  <2>2. Len(payload) = SizeOf(SessionPayload)
    BY <1>1, <1>2, <2>0, Zenon DEF ExpectedSize
  <2> QED BY <1>1, <2>1, <2>2, StructIsReadOnce DEF message
<1>3. CASE type \in {3, 4, 5, 17}
  <2>0. type \in Int /\ type # 16 /\ type \notin 32..35 /\ type # 48 /\ type # 49
        /\ type \notin {1, 2} /\ type \notin {16} \cup 32..35
    BY <1>3, EmptyTypes
  <2>1. Reads(message) = << >>
    BY <1>3, <2>0, Zenon DEF Reads
  <2>2. Len(payload) = 0
    BY <1>1, <1>3, <2>0, Zenon DEF ExpectedSize
  <2>3. ReadOnce(<< >>, payload)
    BY <2>2 DEF ReadOnce, EndOf
  <2> QED BY <2>1, <2>3 DEF message
<1>4. CASE type = 16
  <2> DEFINE add == ParseHidDeviceAdd(payload)
  <2>1. Reads(message) = <<Span(0, 16), add.descriptor, add.product, add.manufacturer, add.serial>>
    BY <1>4 DEF Reads
  <2> QED BY <1>1, <1>4, <2>1, AddIsReadOnce DEF message
<1>5. CASE type \in 32..35
  <2>1. Reads(message) = <<Span(0, 4), ParseHidReport(payload).data>>
    BY <1>5 DEF Reads
  <2> QED BY <1>1, <1>5, <2>1, ReportIsReadOnce DEF message
<1>6. CASE type = 48
  <2>1. Reads(message) = <<Span(0, SizeOf(DeviceDescription))>>
    BY <1>6 DEF Reads
  <2>2. Len(payload) = SizeOf(DeviceDescription)
    BY <1>1, <1>6 DEF ExpectedSize
  <2> QED BY <1>1, <2>1, <2>2, StructIsReadOnce DEF message
<1>7. CASE type = 49
  <2>1. Reads(message) = <<Span(0, SizeOf(InputState))>>
    BY <1>7 DEF Reads
  <2>2. Len(payload) = SizeOf(InputState)
    BY <1>1, <1>7 DEF ExpectedSize
  <2> QED BY <1>1, <2>1, <2>2, StructIsReadOnce DEF message
<1>8. CASE type \notin {1, 2, 3, 4, 5, 16, 17, 48, 49} \cup 32..35
  <2>1. ExpectedSize(type, Len(payload)) = -1
    BY <1>8 DEF ExpectedSize
  <2> QED BY <1>1, <2>1
<1> QED BY <1>2, <1>3, <1>4, <1>5, <1>6, <1>7, <1>8

\* Whatever datagram arrives, what consume_udp reads of an accepted payload
\* covers it once, from its first byte to its last.
LEMMA PayloadOfAnyDatagram ==
  ASSUME datagram \in Seq(Byte)
  PROVE  PayloadIsReadOnce
<1> SUFFICES ASSUME ParseMessage(datagram).ok
             PROVE  LET spans == Reads(ParseMessage(datagram))
                        end(k) == IF k = 0 THEN 0 ELSE spans[k].from + spans[k].size
                    IN /\ \A k \in DOMAIN spans : spans[k].from = end(k - 1)
                       /\ end(Len(spans)) = Len(ParseMessage(datagram).payload)
  BY Zenon DEF PayloadIsReadOnce
<1>1. ReadOnce(Reads(ParseMessage(datagram)), ParseMessage(datagram).payload)
  BY AcceptedIsReadOnce
<1> QED BY <1>1, Zenon DEF ReadOnce, EndOf

-----------------------------------------------------------------------------
(* What the C helpers write is the struct *)

\* Every byte of a struct belongs to a field.
LEMMA FieldsCover ==
  ASSUME NEW struct, IsStruct(struct)
  PROVE  \A p \in 1..SizeOf(struct) : \E i \in 1..Len(struct) :
           Offset(struct, i) < p /\ p <= Offset(struct, i) + struct[i][2]
<1> DEFINE n == Len(struct)
           at == [i \in 1..(n + 1) |-> Offset(struct, i)]
           In(p, i) == at[i] < p /\ p <= at[i] + struct[i][2]
           Good(k) == at[k + 1] \in Nat /\ \A p \in 1..at[k + 1] : \E i \in 1..k : In(p, i)
           G == {k \in 0..n : Good(k)}
<1>1. /\ n \in Nat /\ at[1] = 0 /\ at[n + 1] = SizeOf(struct)
      /\ \A i \in 1..n : /\ at[i] \in Nat /\ at[i + 1] = at[i] + struct[i][2]
                         /\ struct[i][2] \in Nat /\ at[i] = Offset(struct, i)
  <2>1. n \in Nat
    BY DEF IsStruct
  <2>2. 1 \in 1..(n + 1) /\ n + 1 \in 1..(n + 1) /\ \A i \in 1..n : i \in 1..(n + 1) /\ i + 1 \in 1..(n + 1)
    BY <2>1
  <2> QED BY <2>1, <2>2, FieldsFollow DEF SizeOf, IsStruct
<1> HIDE DEF n, at
<1>2. 0 \in G
  BY <1>1
<1>3. ASSUME NEW k \in 0..(n - 1), k \in G
      PROVE  k + 1 \in G
  <2>1. Good(k)
    BY <1>3
  <2>2. PICK j \in 1..n : j = k + 1 /\ k + 1 \in 0..n
    BY <1>1
  <2>3. at[j] \in Nat /\ at[j + 1] = at[j] + struct[j][2] /\ struct[j][2] \in Nat
    BY <1>1
  <2>4. ASSUME NEW p \in 1..at[j + 1]
        PROVE  \E i \in 1..j : In(p, i)
    <3>1. CASE p <= at[j]
      <4>1. p \in 1..at[k + 1]
        BY <2>2, <2>3, <3>1
      <4>2. PICK i \in 1..k : In(p, i)
        BY <2>1, <4>1
      <4>3. i \in 1..j
        BY <2>2
      <4> HIDE DEF In
      <4> QED BY <4>2, <4>3
    <3>2. CASE ~(p <= at[j])
      <4>1. In(p, j)
        BY <2>3, <3>2
      <4>2. j \in 1..j
        BY <1>1
      <4> HIDE DEF In
      <4> QED BY <4>1, <4>2
    <3> QED BY <3>1, <3>2
  <2> HIDE DEF In
  <2>5. Good(j)
    BY <2>3, <2>4
  <2> HIDE DEF Good
  <2> QED BY <2>2, <2>5
<1>4. Good(n)
  <2> HIDE DEF Good
  <2>1. \A k \in 0..(n - 1) : k \in G => k + 1 \in G
    BY <1>3
  <2> HIDE DEF G
  <2>2. \A k \in 0..n : k \in G
    BY <1>1, <1>2, <2>1, UpTo
  <2> QED BY <1>1, <2>2 DEF G
<1> QED BY <1>1, <1>4 DEF n

\* A helper that writes the fields at their places writes the struct: the byte
\* chosen of a write that covers it is that of the struct.
LEMMA WrittenIsPack ==
  ASSUME NEW struct, IsStruct(struct), NEW values, FieldsFit(struct, values), NEW writes,
         writes = {<<Offset(struct, i), FieldBytes(struct[i], values)>> : i \in 1..Len(struct)}
  PROVE  Written(SizeOf(struct), writes) = Pack(struct, values)
<1> DEFINE size == SizeOf(struct)
           bytes == Pack(struct, values)
           write(i) == CHOOSE w \in writes : w[1] < i /\ i <= w[1] + Len(w[2])
<1>1. bytes \in Seq(Byte) /\ Len(bytes) = size
  BY PackCarries DEF Carries
<1>2. \A i \in 1..Len(struct) :
        SubSeq(bytes, Offset(struct, i) + 1, Offset(struct, i) + struct[i][2]) =
          FieldBytes(struct[i], values)
  BY PackCarries DEF Carries
<1>3. Written(size, writes) = [i \in 1..size |-> write(i)[2][i - write(i)[1]]]
  BY Zenon DEF Written
<1> HIDE DEF bytes, size
<1>4. ASSUME NEW i \in 1..size
      PROVE  write(i)[2][i - write(i)[1]] = bytes[i]
  <2>1. PICK j \in 1..Len(struct) : Offset(struct, j) < i /\ i <= Offset(struct, j) + struct[j][2]
    BY FieldsCover DEF size
  <2> DEFINE covers(w) == w[1] < i /\ i <= w[1] + Len(w[2])
  <2>2. PICK v : v = <<Offset(struct, j), FieldBytes(struct[j], values)>>
    OBVIOUS
  <2>3. v \in writes /\ covers(v)
    BY <2>1, <2>2 DEF FieldsFit
  <2>4. PICK w : w = write(i)
    OBVIOUS
  <2>5. w \in writes /\ covers(w)
    BY <2>3, <2>4, Zenon
  <2>6. PICK k \in 1..Len(struct) : w = <<Offset(struct, k), FieldBytes(struct[k], values)>>
    BY <2>5
  <2>7. /\ Offset(struct, k) \in Nat
        /\ FieldBytes(struct[k], values) \in Seq(Byte)
        /\ Len(FieldBytes(struct[k], values)) = struct[k][2]
    BY FieldsFollow DEF FieldsFit
  <2>8. PICK o \in Nat : o = Offset(struct, k)
    BY <2>7
  <2>9. PICK b \in Seq(Byte) : b = FieldBytes(struct[k], values)
    BY <2>7
  <2>10. w[1] = o /\ w[2] = b /\ o < i /\ i <= o + Len(b)
    BY <2>5, <2>6, <2>8, <2>9
  <2>11. SubSeq(bytes, o + 1, o + Len(b)) = b
    BY <1>2, <2>7, <2>8, <2>9
  <2>12. i \in Nat /\ i - o \in 1..Len(b) /\ (o + 1) + (i - o) - 1 = i
    <3>1. i \in Nat
      <4>1. size \in Nat
        BY <1>1
      <4> QED BY <4>1
    <3>2. PICK l \in Nat : l = Len(b)
      OBVIOUS
    <3>3. o < i /\ i <= o + l
      BY <2>10, <3>2, Zenon
    <3>4. i - o \in 1..l /\ (o + 1) + (i - o) - 1 = i
      BY <3>1, <3>3
    <3> QED BY <3>1, <3>2, <3>4
  <2>13. b[i - o] = bytes[i]
    <3>1. PICK d \in 1..Len(b) : d = i - o
      BY <2>12
    <3>2. SubSeq(bytes, o + 1, o + Len(b))[d] = bytes[o + d]
      BY <1>1, <2>11, <3>1
    <3>3. o + d = i
      BY <2>12, <3>1
    <3> QED BY <2>11, <3>1, <3>2, <3>3, Zenon
  <2> QED BY <2>4, <2>10, <2>13, Zenon
<1> HIDE DEF write
<1>5. bytes = [i \in 1..size |-> bytes[i]]
  BY <1>1
<1>6. [i \in 1..size |-> write(i)[2][i - write(i)[1]]] = [i \in 1..size |-> bytes[i]]
  BY <1>4
<1>7. Written(size, writes) = bytes
  BY <1>3, <1>5, <1>6, Zenon DEF write
<1> QED BY <1>7 DEF size, bytes

-----------------------------------------------------------------------------
(* The values of a struct *)

\* Field i of a struct has a value of its kind.
HasValue(struct, i, values) ==
  IF struct[i][1] \in Arrays
  THEN values[struct[i][1]] \in [1..struct[i][2] -> Byte]
  ELSE values[struct[i][1]] \in Nat

LEMMA ValuesFit ==
  ASSUME NEW struct, IsStruct(struct), NEW values,
         \A i \in 1..Len(struct) : HasValue(struct, i, values)
  PROVE  FieldsFit(struct, values)
<1> SUFFICES ASSUME NEW i \in 1..Len(struct)
             PROVE  /\ FieldBytes(struct[i], values) \in Seq(Byte)
                    /\ Len(FieldBytes(struct[i], values)) = struct[i][2]
  BY DEF FieldsFit
<1>1. struct[i][2] \in Nat /\ HasValue(struct, i, values)
  BY DEF IsStruct
<1>2. CASE struct[i][1] \in Arrays
  <2>1. PICK bytes : bytes = values[struct[i][1]]
    OBVIOUS
  <2>2. PICK width \in Nat : width = struct[i][2]
    BY <1>1
  <2>3. bytes \in [1..width -> Byte] /\ FieldBytes(struct[i], values) = bytes
    BY <1>1, <1>2, <2>1, <2>2 DEF HasValue, FieldBytes
  <2>4. bytes \in Seq(Byte) /\ Len(bytes) = width
    BY <2>3
  <2> QED BY <2>2, <2>3, <2>4
<1>3. CASE struct[i][1] \notin Arrays
  <2>1. values[struct[i][1]] \in Nat
    BY <1>1, <1>3 DEF HasValue
  <2>2. FieldBytes(struct[i], values) = LittleEndian(values[struct[i][1]], struct[i][2])
    BY <1>3 DEF FieldBytes
  <2> QED BY <1>1, <2>1, <2>2, BytesOfNumber
<1> QED BY <1>2, <1>3

\* A field is read as it was written, whatever follows the struct.
LEMMA FieldIsRead ==
  ASSUME NEW struct, NEW n, IsLayout(struct, n), NEW values,
         \A i \in 1..n : HasValue(struct, i, values),
         NEW rest \in Seq(Byte), NEW i \in 1..n
  PROVE  FieldOf(struct, struct[i][1], Pack(struct, values) \o rest) = FieldBytes(struct[i], values)
<1>1. /\ IsStruct(struct) /\ Len(struct) = n /\ DOMAIN struct = 1..n
      /\ \A j \in DOMAIN struct : struct[j][1] = struct[i][1] => j = i
  BY DEF IsLayout
<1>2. FieldsFit(struct, values)
  BY <1>1, ValuesFit
<1>3. Carries(struct, Pack(struct, values), values)
  BY <1>1, <1>2, PackCarries
<1>4. PICK bytes \in Seq(Byte) : bytes = Pack(struct, values)
  BY <1>3 DEF Carries
<1>5. /\ Len(bytes) = SizeOf(struct)
      /\ Offset(struct, i) + struct[i][2] <= SizeOf(struct)
      /\ SubSeq(bytes, Offset(struct, i) + 1, Offset(struct, i) + struct[i][2]) =
           FieldBytes(struct[i], values)
  BY <1>1, <1>3, <1>4 DEF Carries
<1>6. PICK a \in Nat : a = Offset(struct, i)
  BY <1>1, FieldsFollow
<1>7. PICK b \in Nat : b = struct[i][2]
  BY <1>1 DEF IsStruct
<1>8. a + b <= Len(bytes)
  BY <1>5, <1>6, <1>7
<1>9. SubSeq(bytes \o rest, a + 1, a + b) = SubSeq(bytes, a + 1, a + b)
  BY <1>8, JoinedBefore
<1>10. FieldOf(struct, struct[i][1], bytes \o rest) = SubSeq(bytes \o rest, a + 1, a + b)
  BY <1>1, <1>6, <1>7, FieldByPosition
<1> QED BY <1>4, <1>5, <1>6, <1>7, <1>9, <1>10

-----------------------------------------------------------------------------
(* The values of each struct *)

LEMMA NumberValue ==
  ASSUME NEW struct, NEW i, NEW name, NEW width, NEW values,
         struct[i] = <<name, width>>, name \notin Arrays, values[name] \in Nat
  PROVE  HasValue(struct, i, values)
BY DEF HasValue

LEMMA ArrayValue ==
  ASSUME NEW struct, NEW i, NEW name, NEW width, NEW values,
         struct[i] = <<name, width>>, name \in Arrays, values[name] \in [1..width -> Byte]
  PROVE  HasValue(struct, i, values)
BY DEF HasValue

HeaderValues(device_id, type, size) ==
  [magic |-> Magic, version |-> Version, type |-> type, flags |-> 0,
   payload_size |-> size, device_id |-> device_id,
   sequence |-> next_sequence, timestamp_us |-> Timestamp]

ReportValues(r) ==
  [report_type |-> r.report_type, report_id |-> r.report_id, data_size |-> Len(r.data)]

AddValues(r) ==
  [field \in {f[1] : f \in ToSet(HidDeviceAddHeader)} |->
     CASE field = "descriptor_size"   -> Len(r.descriptor)
       [] field = "product_size"      -> Len(r.product)
       [] field = "manufacturer_size" -> Len(r.manufacturer)
       [] field = "serial_size"       -> Len(r.serial)
       [] field = "reserved"          -> 0
       [] OTHER -> r[field]]

LEMMA HeaderHasValues ==
  ASSUME NEW device_id \in Nat, NEW type \in Byte, NEW size \in Nat, next_sequence \in Nat
  PROVE  \A i \in 1..8 : HasValue(MessageHeader, i, HeaderValues(device_id, type, size))
<1>1. HasValue(MessageHeader, 1, HeaderValues(device_id, type, size))
  BY MessageHeaderLayout DEF HasValue, Arrays, HeaderValues, Magic, Version, Timestamp, Byte
<1>2. HasValue(MessageHeader, 2, HeaderValues(device_id, type, size))
  BY MessageHeaderLayout DEF HasValue, Arrays, HeaderValues, Magic, Version, Timestamp, Byte
<1>3. HasValue(MessageHeader, 3, HeaderValues(device_id, type, size))
  BY MessageHeaderLayout DEF HasValue, Arrays, HeaderValues, Magic, Version, Timestamp, Byte
<1>4. HasValue(MessageHeader, 4, HeaderValues(device_id, type, size))
  BY MessageHeaderLayout DEF HasValue, Arrays, HeaderValues, Magic, Version, Timestamp, Byte
<1>5. HasValue(MessageHeader, 5, HeaderValues(device_id, type, size))
  BY MessageHeaderLayout DEF HasValue, Arrays, HeaderValues, Magic, Version, Timestamp, Byte
<1>6. HasValue(MessageHeader, 6, HeaderValues(device_id, type, size))
  BY MessageHeaderLayout DEF HasValue, Arrays, HeaderValues, Magic, Version, Timestamp, Byte
<1>7. HasValue(MessageHeader, 7, HeaderValues(device_id, type, size))
  BY MessageHeaderLayout DEF HasValue, Arrays, HeaderValues, Magic, Version, Timestamp, Byte
<1>8. HasValue(MessageHeader, 8, HeaderValues(device_id, type, size))
  BY MessageHeaderLayout DEF HasValue, Arrays, HeaderValues, Magic, Version, Timestamp, Byte
<1> QED BY <1>1, <1>2, <1>3, <1>4, <1>5, <1>6, <1>7, <1>8

LEMMA SessionHasValues ==
  ASSUME NEW r \in SessionMessages
  PROVE  \A i \in 1..6 : HasValue(SessionPayload, i, r)
<1>0. /\ r.session_id \in Nat /\ r.peer_id \in Nat /\ r.capabilities \in Nat
      /\ r.keepalive_interval_us \in Nat /\ r.timeout_us \in Nat
      /\ r.name \in [1..32 -> Byte]
  BY DEF SessionMessages
<1>1. HasValue(SessionPayload, 1, r)
  BY <1>0, SessionPayloadLayout, NumberValue DEF Arrays
<1>2. HasValue(SessionPayload, 2, r)
  BY <1>0, SessionPayloadLayout, NumberValue DEF Arrays
<1>3. HasValue(SessionPayload, 3, r)
  BY <1>0, SessionPayloadLayout, NumberValue DEF Arrays
<1>4. HasValue(SessionPayload, 4, r)
  BY <1>0, SessionPayloadLayout, NumberValue DEF Arrays
<1>5. HasValue(SessionPayload, 5, r)
  BY <1>0, SessionPayloadLayout, NumberValue DEF Arrays
<1>6. HasValue(SessionPayload, 6, r)
  <2>1. SessionPayload[6] = <<"name", 32>> /\ "name" \in Arrays
    BY SessionPayloadLayout, Zenon DEF Arrays
  <2>2. r["name"] \in [1..32 -> Byte]
    BY <1>0
  <2> QED BY <2>1, <2>2, ArrayValue
<1> QED BY <1>1, <1>2, <1>3, <1>4, <1>5, <1>6

LEMMA DescriptionHasValues ==
  ASSUME NEW r \in DescriptionMessages
  PROVE  \A i \in 1..13 : HasValue(DeviceDescription, i, r)
<1>0. /\ r.requested_profile \in Nat /\ r.device_flags \in Nat /\ r.button_count \in Nat
      /\ r.hat_count \in Nat /\ r.axis_count \in Nat /\ r.motion_flags \in Nat
      /\ r.vendor_id \in Nat /\ r.product_id \in Nat /\ r.version_number \in Nat
      /\ r.product \in [1..64 -> Byte] /\ r.manufacturer \in [1..32 -> Byte]
      /\ r.serial \in [1..32 -> Byte] /\ r.axes \in [1..256 -> Byte]
  <2>1. Byte \subseteq Nat /\ Word \subseteq Nat
    BY DEF Byte, Word
  <2> QED BY <2>1, ZenonT(60) DEF DescriptionMessages
<1>1. HasValue(DeviceDescription, 1, r)
  BY <1>0, DeviceDescriptionLayout, NumberValue DEF Arrays
<1>2. HasValue(DeviceDescription, 2, r)
  BY <1>0, DeviceDescriptionLayout, NumberValue DEF Arrays
<1>3. HasValue(DeviceDescription, 3, r)
  BY <1>0, DeviceDescriptionLayout, NumberValue DEF Arrays
<1>4. HasValue(DeviceDescription, 4, r)
  BY <1>0, DeviceDescriptionLayout, NumberValue DEF Arrays
<1>5. HasValue(DeviceDescription, 5, r)
  BY <1>0, DeviceDescriptionLayout, NumberValue DEF Arrays
<1>6. HasValue(DeviceDescription, 6, r)
  BY <1>0, DeviceDescriptionLayout, NumberValue DEF Arrays
<1>7. HasValue(DeviceDescription, 7, r)
  BY <1>0, DeviceDescriptionLayout, NumberValue DEF Arrays
<1>8. HasValue(DeviceDescription, 8, r)
  BY <1>0, DeviceDescriptionLayout, NumberValue DEF Arrays
<1>9. HasValue(DeviceDescription, 9, r)
  BY <1>0, DeviceDescriptionLayout, NumberValue DEF Arrays
<1>10. HasValue(DeviceDescription, 10, r)
  <2>1. DeviceDescription[10] = <<"product", 64>> /\ "product" \in Arrays
    BY DeviceDescriptionLayout DEF Arrays
  <2>2. r["product"] \in [1..64 -> Byte]
    BY <1>0
  <2> QED BY <2>1, <2>2, ArrayValue, Zenon
<1>11. HasValue(DeviceDescription, 11, r)
  <2>1. DeviceDescription[11] = <<"manufacturer", 32>> /\ "manufacturer" \in Arrays
    BY DeviceDescriptionLayout DEF Arrays
  <2>2. r["manufacturer"] \in [1..32 -> Byte]
    BY <1>0
  <2> QED BY <2>1, <2>2, ArrayValue, Zenon
<1>12. HasValue(DeviceDescription, 12, r)
  <2>1. DeviceDescription[12] = <<"serial", 32>> /\ "serial" \in Arrays
    BY DeviceDescriptionLayout DEF Arrays
  <2>2. r["serial"] \in [1..32 -> Byte]
    BY <1>0
  <2> QED BY <2>1, <2>2, ArrayValue, Zenon
<1>13. HasValue(DeviceDescription, 13, r)
  <2>1. DeviceDescription[13] = <<"axes", 256>> /\ "axes" \in Arrays
    BY DeviceDescriptionLayout DEF Arrays
  <2>2. r["axes"] \in [1..256 -> Byte]
    BY <1>0
  <2> QED BY <2>1, <2>2, ArrayValue, ZenonT(60)
<1> QED BY <1>1, <1>2, <1>3, <1>4, <1>5, <1>6, <1>7, <1>8, <1>9, <1>10, <1>11, <1>12, <1>13

LEMMA StateHasValues ==
  ASSUME NEW r \in StateMessages
  PROVE  \A i \in 1..6 : HasValue(InputState, i, r)
<1>0. /\ r.buttons \in Nat /\ r.battery_percent \in Nat /\ r.reserved \in Nat
      /\ r.hats \in [1..4 -> Byte] /\ r.axes \in [1..32 -> Byte]
      /\ r.motion \in [1..40 -> Byte]
  <2>1. Byte \subseteq Nat
    BY DEF Byte
  <2> QED BY <2>1 DEF StateMessages
<1>1. HasValue(InputState, 1, r)
  BY <1>0, InputStateLayout, NumberValue DEF Arrays
<1>2. HasValue(InputState, 2, r)
  <2>1. InputState[2] = <<"hats", 4>> /\ "hats" \in Arrays
    BY InputStateLayout DEF Arrays
  <2>2. r["hats"] \in [1..4 -> Byte]
    BY <1>0
  <2> QED BY <2>1, <2>2, ArrayValue, Zenon
<1>3. HasValue(InputState, 3, r)
  <2>1. InputState[3] = <<"axes", 32>> /\ "axes" \in Arrays
    BY InputStateLayout DEF Arrays
  <2>2. r["axes"] \in [1..32 -> Byte]
    BY <1>0
  <2> QED BY <2>1, <2>2, ArrayValue, Zenon
<1>4. HasValue(InputState, 4, r)
  <2>1. InputState[4] = <<"motion", 40>> /\ "motion" \in Arrays
    BY InputStateLayout DEF Arrays
  <2>2. r["motion"] \in [1..40 -> Byte]
    BY <1>0
  <2> QED BY <2>1, <2>2, ArrayValue, Zenon
<1>5. HasValue(InputState, 5, r)
  BY <1>0, InputStateLayout, NumberValue DEF Arrays
<1>6. HasValue(InputState, 6, r)
  BY <1>0, InputStateLayout, NumberValue DEF Arrays
<1> QED BY <1>1, <1>2, <1>3, <1>4, <1>5, <1>6

LEMMA ReportHasValues ==
  ASSUME NEW r \in ReportMessages
  PROVE  \A i \in 1..3 : HasValue(HidReportHeader, i, ReportValues(r))
<1>0. /\ ReportValues(r)["report_type"] \in Nat /\ ReportValues(r)["report_id"] \in Nat
      /\ ReportValues(r)["data_size"] \in Nat
  <2>1. Byte \subseteq Nat
    BY DEF Byte
  <2>2. r.report_type \in Nat /\ r.report_id \in Nat /\ Len(r.data) \in Nat
    <3>1. r.report_type \in Byte /\ r.report_id \in Byte /\ r.data \in Seq(Byte)
      BY DEF ReportMessages
    <3>2. Len(r.data) \in Nat
      BY <3>1
    <3> QED BY <2>1, <3>1, <3>2
  <2> QED BY <2>2 DEF ReportValues
<1>1. HasValue(HidReportHeader, 1, ReportValues(r))
  BY <1>0, HidReportHeaderLayout, NumberValue DEF Arrays
<1>2. HasValue(HidReportHeader, 2, ReportValues(r))
  BY <1>0, HidReportHeaderLayout, NumberValue DEF Arrays
<1>3. HasValue(HidReportHeader, 3, ReportValues(r))
  BY <1>0, HidReportHeaderLayout, NumberValue DEF Arrays
<1> QED BY <1>1, <1>2, <1>3

\* The values of the struct by the name of the field.
LEMMA AddValuesOf ==
  ASSUME NEW r
  PROVE  LET v == AddValues(r) IN
    /\ v["vendor_id"] = r.vendor_id
    /\ v["product_id"] = r.product_id
    /\ v["version_number"] = r.version_number
    /\ v["transport"] = r.transport
    /\ v["flags"] = r.flags
    /\ v["descriptor_size"] = Len(r.descriptor)
    /\ v["product_size"] = Len(r.product)
    /\ v["manufacturer_size"] = Len(r.manufacturer)
    /\ v["serial_size"] = Len(r.serial)
    /\ v["source_input_profile"] = r.source_input_profile
    /\ v["source_output_profile"] = r.source_output_profile
    /\ v["reserved"] = 0
<1>1. {f[1] : f \in ToSet(HidDeviceAddHeader)} = {HidDeviceAddHeader[i][1] : i \in 1..12}
  BY HidDeviceAddHeaderLayout DEF IsLayout, ToSet
<1>2. AddValues(r)["vendor_id"] = r.vendor_id
  <2>1. "vendor_id" \in {f[1] : f \in ToSet(HidDeviceAddHeader)}
    <3>1. HidDeviceAddHeader[1][1] = "vendor_id" /\ 1 \in 1..12
      BY HidDeviceAddHeaderLayout
    <3> QED BY <1>1, <3>1
  <2> QED BY <2>1 DEF AddValues
<1>3. AddValues(r)["product_id"] = r.product_id
  <2>1. "product_id" \in {f[1] : f \in ToSet(HidDeviceAddHeader)}
    <3>1. HidDeviceAddHeader[2][1] = "product_id" /\ 2 \in 1..12
      BY HidDeviceAddHeaderLayout
    <3> QED BY <1>1, <3>1
  <2> QED BY <2>1 DEF AddValues
<1>4. AddValues(r)["version_number"] = r.version_number
  <2>1. "version_number" \in {f[1] : f \in ToSet(HidDeviceAddHeader)}
    <3>1. HidDeviceAddHeader[3][1] = "version_number" /\ 3 \in 1..12
      BY HidDeviceAddHeaderLayout
    <3> QED BY <1>1, <3>1
  <2> QED BY <2>1 DEF AddValues
<1>5. AddValues(r)["transport"] = r.transport
  <2>1. "transport" \in {f[1] : f \in ToSet(HidDeviceAddHeader)}
    <3>1. HidDeviceAddHeader[4][1] = "transport" /\ 4 \in 1..12
      BY HidDeviceAddHeaderLayout
    <3> QED BY <1>1, <3>1
  <2> QED BY <2>1 DEF AddValues
<1>6. AddValues(r)["flags"] = r.flags
  <2>1. "flags" \in {f[1] : f \in ToSet(HidDeviceAddHeader)}
    <3>1. HidDeviceAddHeader[5][1] = "flags" /\ 5 \in 1..12
      BY HidDeviceAddHeaderLayout
    <3> QED BY <1>1, <3>1
  <2> QED BY <2>1 DEF AddValues
<1>7. AddValues(r)["descriptor_size"] = Len(r.descriptor)
  <2>1. "descriptor_size" \in {f[1] : f \in ToSet(HidDeviceAddHeader)}
    <3>1. HidDeviceAddHeader[6][1] = "descriptor_size" /\ 6 \in 1..12
      BY HidDeviceAddHeaderLayout
    <3> QED BY <1>1, <3>1
  <2> QED BY <2>1 DEF AddValues
<1>8. AddValues(r)["product_size"] = Len(r.product)
  <2>1. "product_size" \in {f[1] : f \in ToSet(HidDeviceAddHeader)}
    <3>1. HidDeviceAddHeader[7][1] = "product_size" /\ 7 \in 1..12
      BY HidDeviceAddHeaderLayout
    <3> QED BY <1>1, <3>1
  <2> QED BY <2>1 DEF AddValues
<1>9. AddValues(r)["manufacturer_size"] = Len(r.manufacturer)
  <2>1. "manufacturer_size" \in {f[1] : f \in ToSet(HidDeviceAddHeader)}
    <3>1. HidDeviceAddHeader[8][1] = "manufacturer_size" /\ 8 \in 1..12
      BY HidDeviceAddHeaderLayout
    <3> QED BY <1>1, <3>1
  <2> QED BY <2>1 DEF AddValues
<1>10. AddValues(r)["serial_size"] = Len(r.serial)
  <2>1. "serial_size" \in {f[1] : f \in ToSet(HidDeviceAddHeader)}
    <3>1. HidDeviceAddHeader[9][1] = "serial_size" /\ 9 \in 1..12
      BY HidDeviceAddHeaderLayout
    <3> QED BY <1>1, <3>1
  <2> QED BY <2>1 DEF AddValues
<1>11. AddValues(r)["source_input_profile"] = r.source_input_profile
  <2>1. "source_input_profile" \in {f[1] : f \in ToSet(HidDeviceAddHeader)}
    <3>1. HidDeviceAddHeader[10][1] = "source_input_profile" /\ 10 \in 1..12
      BY HidDeviceAddHeaderLayout
    <3> QED BY <1>1, <3>1
  <2> QED BY <2>1 DEF AddValues
<1>12. AddValues(r)["source_output_profile"] = r.source_output_profile
  <2>1. "source_output_profile" \in {f[1] : f \in ToSet(HidDeviceAddHeader)}
    <3>1. HidDeviceAddHeader[11][1] = "source_output_profile" /\ 11 \in 1..12
      BY HidDeviceAddHeaderLayout
    <3> QED BY <1>1, <3>1
  <2> QED BY <2>1 DEF AddValues
<1>13. AddValues(r)["reserved"] = 0
  <2>1. "reserved" \in {f[1] : f \in ToSet(HidDeviceAddHeader)}
    <3>1. HidDeviceAddHeader[12][1] = "reserved" /\ 12 \in 1..12
      BY HidDeviceAddHeaderLayout
    <3> QED BY <1>1, <3>1
  <2> QED BY <2>1 DEF AddValues
<1> QED BY <1>2, <1>3, <1>4, <1>5, <1>6, <1>7, <1>8, <1>9, <1>10, <1>11, <1>12, <1>13

LEMMA AddHasValues ==
  ASSUME NEW r \in AddMessages
  PROVE  \A i \in 1..12 : HasValue(HidDeviceAddHeader, i, AddValues(r))
<1>0. /\ Len(r.descriptor) \in Nat /\ Len(r.product) \in Nat /\ Len(r.manufacturer) \in Nat
      /\ Len(r.serial) \in Nat /\ r.vendor_id \in Nat /\ r.product_id \in Nat
      /\ r.version_number \in Nat /\ r.transport \in Nat /\ r.flags \in Nat
      /\ r.source_input_profile \in Nat /\ r.source_output_profile \in Nat
  <2>1. Byte \subseteq Nat /\ Word \subseteq Nat
    BY DEF Byte, Word
  <2>2. /\ r.descriptor \in Seq(Byte) /\ r.product \in Seq(Byte)
        /\ r.manufacturer \in Seq(Byte) /\ r.serial \in Seq(Byte)
    BY DEF AddMessages
  <2>3. /\ r.vendor_id \in Word /\ r.product_id \in Word /\ r.version_number \in Word
        /\ r.transport \in Byte /\ r.flags \in Byte
        /\ r.source_input_profile \in Byte /\ r.source_output_profile \in Byte
    BY DEF AddMessages
  <2>4. /\ Len(r.descriptor) \in Nat /\ Len(r.product) \in Nat
        /\ Len(r.manufacturer) \in Nat /\ Len(r.serial) \in Nat
    BY <2>2
  <2> QED BY <2>1, <2>3, <2>4
<1>1. HasValue(HidDeviceAddHeader, 1, AddValues(r))
  <2>1. AddValues(r)["vendor_id"] \in Nat
    BY <1>0, AddValuesOf
  <2>2. HidDeviceAddHeader[1] = <<"vendor_id", 2>>
    BY HidDeviceAddHeaderLayout
  <2>3. "vendor_id" \notin Arrays
    BY DEF Arrays
  <2> QED BY <2>1, <2>2, <2>3, NumberValue, Zenon
<1>2. HasValue(HidDeviceAddHeader, 2, AddValues(r))
  <2>1. AddValues(r)["product_id"] \in Nat
    BY <1>0, AddValuesOf
  <2>2. HidDeviceAddHeader[2] = <<"product_id", 2>>
    BY HidDeviceAddHeaderLayout
  <2>3. "product_id" \notin Arrays
    BY DEF Arrays
  <2> QED BY <2>1, <2>2, <2>3, NumberValue, Zenon
<1>3. HasValue(HidDeviceAddHeader, 3, AddValues(r))
  <2>1. AddValues(r)["version_number"] \in Nat
    BY <1>0, AddValuesOf
  <2>2. HidDeviceAddHeader[3] = <<"version_number", 2>>
    BY HidDeviceAddHeaderLayout
  <2>3. "version_number" \notin Arrays
    BY DEF Arrays
  <2> QED BY <2>1, <2>2, <2>3, NumberValue, Zenon
<1>4. HasValue(HidDeviceAddHeader, 4, AddValues(r))
  <2>1. AddValues(r)["transport"] \in Nat
    BY <1>0, AddValuesOf
  <2>2. HidDeviceAddHeader[4] = <<"transport", 1>>
    BY HidDeviceAddHeaderLayout
  <2>3. "transport" \notin Arrays
    BY DEF Arrays
  <2> QED BY <2>1, <2>2, <2>3, NumberValue, Zenon
<1>5. HasValue(HidDeviceAddHeader, 5, AddValues(r))
  <2>1. AddValues(r)["flags"] \in Nat
    BY <1>0, AddValuesOf
  <2>2. HidDeviceAddHeader[5] = <<"flags", 1>>
    BY HidDeviceAddHeaderLayout
  <2>3. "flags" \notin Arrays
    BY DEF Arrays
  <2> QED BY <2>1, <2>2, <2>3, NumberValue, Zenon
<1>6. HasValue(HidDeviceAddHeader, 6, AddValues(r))
  <2>1. AddValues(r)["descriptor_size"] \in Nat
    BY <1>0, AddValuesOf
  <2>2. HidDeviceAddHeader[6] = <<"descriptor_size", 2>>
    BY HidDeviceAddHeaderLayout
  <2>3. "descriptor_size" \notin Arrays
    BY DEF Arrays
  <2> QED BY <2>1, <2>2, <2>3, NumberValue, Zenon
<1>7. HasValue(HidDeviceAddHeader, 7, AddValues(r))
  <2>1. AddValues(r)["product_size"] \in Nat
    BY <1>0, AddValuesOf
  <2>2. HidDeviceAddHeader[7] = <<"product_size", 1>>
    BY HidDeviceAddHeaderLayout
  <2>3. "product_size" \notin Arrays
    BY DEF Arrays
  <2> QED BY <2>1, <2>2, <2>3, NumberValue, Zenon
<1>8. HasValue(HidDeviceAddHeader, 8, AddValues(r))
  <2>1. AddValues(r)["manufacturer_size"] \in Nat
    BY <1>0, AddValuesOf
  <2>2. HidDeviceAddHeader[8] = <<"manufacturer_size", 1>>
    BY HidDeviceAddHeaderLayout
  <2>3. "manufacturer_size" \notin Arrays
    BY DEF Arrays
  <2> QED BY <2>1, <2>2, <2>3, NumberValue, Zenon
<1>9. HasValue(HidDeviceAddHeader, 9, AddValues(r))
  <2>1. AddValues(r)["serial_size"] \in Nat
    BY <1>0, AddValuesOf
  <2>2. HidDeviceAddHeader[9] = <<"serial_size", 1>>
    BY HidDeviceAddHeaderLayout
  <2>3. "serial_size" \notin Arrays
    BY DEF Arrays
  <2> QED BY <2>1, <2>2, <2>3, NumberValue, Zenon
<1>10. HasValue(HidDeviceAddHeader, 10, AddValues(r))
  <2>1. AddValues(r)["source_input_profile"] \in Nat
    BY <1>0, AddValuesOf
  <2>2. HidDeviceAddHeader[10] = <<"source_input_profile", 1>>
    BY HidDeviceAddHeaderLayout
  <2>3. "source_input_profile" \notin Arrays
    BY DEF Arrays
  <2> QED BY <2>1, <2>2, <2>3, NumberValue, Zenon
<1>11. HasValue(HidDeviceAddHeader, 11, AddValues(r))
  <2>1. AddValues(r)["source_output_profile"] \in Nat
    BY <1>0, AddValuesOf
  <2>2. HidDeviceAddHeader[11] = <<"source_output_profile", 1>>
    BY HidDeviceAddHeaderLayout
  <2>3. "source_output_profile" \notin Arrays
    BY DEF Arrays
  <2> QED BY <2>1, <2>2, <2>3, NumberValue, Zenon
<1>12. HasValue(HidDeviceAddHeader, 12, AddValues(r))
  <2>1. AddValues(r)["reserved"] \in Nat
    BY <1>0, AddValuesOf
  <2>2. HidDeviceAddHeader[12] = <<"reserved", 1>>
    BY HidDeviceAddHeaderLayout
  <2>3. "reserved" \notin Arrays
    BY DEF Arrays
  <2> QED BY <2>1, <2>2, <2>3, NumberValue, Zenon
<1> QED BY <1>1, <1>2, <1>3, <1>4, <1>5, <1>6, <1>7, <1>8, <1>9, <1>10, <1>11, <1>12

-----------------------------------------------------------------------------
(* Reading what was written *)

LEMMA NumberIsRead ==
  ASSUME NEW struct, NEW n, IsLayout(struct, n), NEW values,
         \A i \in 1..n : HasValue(struct, i, values),
         NEW rest \in Seq(Byte), NEW i \in 1..n, NEW name, NEW width,
         struct[i] = <<name, width>>, name \notin Arrays
  PROVE  FieldOf(struct, name, Pack(struct, values) \o rest) = LittleEndian(values[name], width)
<1>1. struct[i][1] = name /\ struct[i][2] = width
  OBVIOUS
<1>2. FieldOf(struct, name, Pack(struct, values) \o rest) = FieldBytes(struct[i], values)
  BY <1>1, FieldIsRead
<1>3. FieldBytes(struct[i], values) = LittleEndian(values[name], width)
  BY <1>1 DEF FieldBytes
<1> QED BY <1>2, <1>3

\* A struct on its own.
LEMMA PackIsBytes ==
  ASSUME NEW struct, NEW n, IsLayout(struct, n), NEW values,
         \A i \in 1..n : HasValue(struct, i, values)
  PROVE  /\ Pack(struct, values) \in Seq(Byte) /\ Len(Pack(struct, values)) = SizeOf(struct)
         /\ \A i \in 1..n :
              FieldOf(struct, struct[i][1], Pack(struct, values)) = FieldBytes(struct[i], values)
<1>1. IsStruct(struct) /\ Len(struct) = n
  BY DEF IsLayout
<1>2. FieldsFit(struct, values)
  BY <1>1, ValuesFit
<1>3. Pack(struct, values) \in Seq(Byte) /\ Len(Pack(struct, values)) = SizeOf(struct)
  BY <1>1, <1>2, PackCarries DEF Carries
<1>4. <<>> \in Seq(Byte) /\ Pack(struct, values) \o <<>> = Pack(struct, values)
  BY <1>3
<1>5. ASSUME NEW i \in 1..n
      PROVE  FieldOf(struct, struct[i][1], Pack(struct, values)) = FieldBytes(struct[i], values)
  <2>1. FieldOf(struct, struct[i][1], Pack(struct, values) \o <<>>) = FieldBytes(struct[i], values)
    BY <1>4, FieldIsRead
  <2> QED BY <1>4, <2>1
<1> QED BY <1>3, <1>5

\* The header of a message comes out of it, and the payload behind it.
LEMMA HeaderIsRead ==
  ASSUME NEW type \in Byte, NEW device_id \in Nat, NEW size \in Nat, next_sequence \in Nat,
         NEW payload \in Seq(Byte),
         NEW header, header = Pack(MessageHeader, HeaderValues(device_id, type, size))
  PROVE  /\ header \in Seq(Byte) /\ Len(header) = 28
         /\ FieldOf(MessageHeader, "magic", header \o payload) = LittleEndian(Magic, 4)
         /\ FieldOf(MessageHeader, "version", header \o payload) = <<Version>>
         /\ FieldOf(MessageHeader, "type", header \o payload) = <<type>>
         /\ FieldOf(MessageHeader, "payload_size", header \o payload) = LittleEndian(size, 4)
         /\ FieldOf(MessageHeader, "device_id", header \o payload) = LittleEndian(device_id, 4)
         /\ FieldOf(MessageHeader, "sequence", header \o payload) = LittleEndian(next_sequence, 4)
<1> DEFINE v == HeaderValues(device_id, type, size)
<1>1. \A i \in 1..8 : HasValue(MessageHeader, i, v)
  BY HeaderHasValues
<1>2. IsLayout(MessageHeader, 8) /\ SizeOf(MessageHeader) = 28
  BY MessageHeaderLayout
<1>3. header \in Seq(Byte) /\ Len(header) = 28
  BY <1>1, <1>2, PackIsBytes
<1>4. /\ v["magic"] = Magic /\ v["version"] = Version /\ v["type"] = type
      /\ v["payload_size"] = size /\ v["device_id"] = device_id /\ v["sequence"] = next_sequence
  BY DEF HeaderValues
<1> HIDE DEF v
<1>5. /\ "magic" \notin Arrays /\ "version" \notin Arrays /\ "type" \notin Arrays
      /\ "payload_size" \notin Arrays /\ "device_id" \notin Arrays /\ "sequence" \notin Arrays
  BY DEF Arrays
<1>6. /\ MessageHeader[1] = <<"magic", 4>> /\ MessageHeader[2] = <<"version", 1>>
      /\ MessageHeader[3] = <<"type", 1>> /\ MessageHeader[5] = <<"payload_size", 4>>
      /\ MessageHeader[6] = <<"device_id", 4>> /\ MessageHeader[7] = <<"sequence", 4>>
  BY MessageHeaderLayout
<1>7. header = Pack(MessageHeader, v)
  BY DEF v
<1>8. FieldOf(MessageHeader, "magic", header \o payload) = LittleEndian(v["magic"], 4)
  <2>1. 1 \in 1..8 /\ MessageHeader[1] = <<"magic", 4>> /\ "magic" \notin Arrays
    BY <1>5, <1>6
  <2> QED BY <1>1, <1>2, <1>7, <2>1, NumberIsRead
<1>9. FieldOf(MessageHeader, "version", header \o payload) = LittleEndian(v["version"], 1)
  <2>1. 2 \in 1..8 /\ MessageHeader[2] = <<"version", 1>> /\ "version" \notin Arrays
    BY <1>5, <1>6
  <2> QED BY <1>1, <1>2, <1>7, <2>1, NumberIsRead, SMTT(30)
<1>10. FieldOf(MessageHeader, "type", header \o payload) = LittleEndian(v["type"], 1)
  <2>1. 3 \in 1..8 /\ MessageHeader[3] = <<"type", 1>> /\ "type" \notin Arrays
    BY <1>5, <1>6
  <2> QED BY <1>1, <1>2, <1>7, <2>1, NumberIsRead
<1>11. FieldOf(MessageHeader, "payload_size", header \o payload) = LittleEndian(v["payload_size"], 4)
  <2>1. 5 \in 1..8 /\ MessageHeader[5] = <<"payload_size", 4>> /\ "payload_size" \notin Arrays
    BY <1>5, <1>6
  <2> QED BY <1>1, <1>2, <1>7, <2>1, NumberIsRead
<1>12. FieldOf(MessageHeader, "device_id", header \o payload) = LittleEndian(v["device_id"], 4)
  <2>1. 6 \in 1..8 /\ MessageHeader[6] = <<"device_id", 4>> /\ "device_id" \notin Arrays
    BY <1>5, <1>6
  <2> QED BY <1>1, <1>2, <1>7, <2>1, NumberIsRead
<1>13. FieldOf(MessageHeader, "sequence", header \o payload) = LittleEndian(v["sequence"], 4)
  <2>1. 7 \in 1..8 /\ MessageHeader[7] = <<"sequence", 4>> /\ "sequence" \notin Arrays
    BY <1>5, <1>6
  <2> QED BY <1>1, <1>2, <1>7, <2>1, NumberIsRead
<1>14. LittleEndian(Version, 1) = <<Version>> /\ LittleEndian(type, 1) = <<type>>
  <2>1. Version \in Byte
    BY DEF Version, Byte
  <2> QED BY <2>1, ByteBack
<1> QED BY <1>3, <1>4, <1>8, <1>9, <1>10, <1>11, <1>12, <1>13, <1>14

\* What parse_message asks of a payload.
IsPayload(type, payload) ==
  /\ payload \in Seq(Byte)
  /\ Len(payload) = ExpectedSize(type, Len(payload))
  /\ type = 16 => ParseHidDeviceAdd(payload).ok
  /\ type \in 32..35 => ParseHidReport(payload).ok
  /\ type = 48 => ValidDeviceDescription(payload)

LEMMA MessageIsParsed ==
  ASSUME NEW type \in Byte, NEW device_id \in Nat, next_sequence \in Nat,
         NEW payload, IsPayload(type, payload), Fits(payload),
         NEW bytes,
         bytes = Pack(MessageHeader, HeaderValues(device_id, type, Len(payload))) \o payload
  PROVE  /\ bytes \in Seq(Byte) /\ bytes # <<>>
         /\ ParseMessage(bytes) =
              [ok |-> TRUE, type |-> type, payload |-> payload,
               device_id |-> LittleEndian(device_id, 4),
               sequence |-> LittleEndian(next_sequence, 4)]
<1> DEFINE good(t, p) == /\ Len(bytes) \in 28..MaxDatagram
                         /\ FieldOf(MessageHeader, "magic", bytes) = LittleEndian(Magic, 4)
                         /\ FieldOf(MessageHeader, "version", bytes)[1] = Version
                         /\ FieldOf(MessageHeader, "payload_size", bytes) = LittleEndian(Len(p), 4)
                         /\ Len(p) = ExpectedSize(t, Len(p))
                         /\ t = 16 => ParseHidDeviceAdd(p).ok
                         /\ t \in 32..35 => ParseHidReport(p).ok
                         /\ t = 48 => ValidDeviceDescription(p)
           message(t, p) == [ok |-> TRUE, type |-> t, payload |-> p,
                             device_id |-> FieldOf(MessageHeader, "device_id", bytes),
                             sequence |-> FieldOf(MessageHeader, "sequence", bytes)]
           t0 == FieldOf(MessageHeader, "type", bytes)[1]
           p0 == SubSeq(bytes, 29, Len(bytes))
<1>1. ParseMessage(bytes) = IF good(t0, p0) THEN message(t0, p0) ELSE Refused
  BY Zenon DEF ParseMessage
<1>2. PICK header : header = Pack(MessageHeader, HeaderValues(device_id, type, Len(payload)))
  OBVIOUS
<1>3. payload \in Seq(Byte) /\ Len(payload) \in Nat
  BY DEF IsPayload
<1>4. /\ header \in Seq(Byte) /\ Len(header) = 28
      /\ FieldOf(MessageHeader, "magic", bytes) = LittleEndian(Magic, 4)
      /\ FieldOf(MessageHeader, "version", bytes) = <<Version>>
      /\ FieldOf(MessageHeader, "type", bytes) = <<type>>
      /\ FieldOf(MessageHeader, "payload_size", bytes) = LittleEndian(Len(payload), 4)
      /\ FieldOf(MessageHeader, "device_id", bytes) = LittleEndian(device_id, 4)
      /\ FieldOf(MessageHeader, "sequence", bytes) = LittleEndian(next_sequence, 4)
  BY <1>2, <1>3, HeaderIsRead
<1>5. bytes = header \o payload
  BY <1>2
<1>6. /\ bytes \in Seq(Byte) /\ bytes # <<>> /\ Len(bytes) = 28 + Len(payload)
  <2>1. header \in Seq(Byte) /\ payload \in Seq(Byte)
    BY <1>3, <1>4
  <2>2. /\ header \o payload \in Seq(Byte)
        /\ Len(header \o payload) = Len(header) + Len(payload)
    BY <2>1
  <2>3. Len(bytes) = 28 + Len(payload) /\ Len(bytes) # 0
    BY <1>3, <1>4, <1>5, <2>2
  <2> QED BY <1>5, <2>2, <2>3
<1>7. p0 = payload
  <2>1. SubSeq(header \o payload, Len(header) + 1, Len(header) + Len(payload)) = payload
    BY <1>3, <1>4, JoinedLast
  <2> QED BY <1>4, <1>5, <1>6, <2>1
<1>8. t0 = type
  BY <1>4
<1> HIDE DEF t0, p0
<1>9. good(type, payload)
  <2>1. Len(bytes) \in 28..MaxDatagram
    <3>1. PICK size \in Nat : size = Len(payload)
      BY <1>3
    <3>2. 28 + size <= MaxDatagram
      BY <3>1 DEF Fits
    <3>3. 28 + size \in 28..MaxDatagram
      BY <3>2 DEF MaxDatagram
    <3> QED BY <1>6, <3>1, <3>3
  <2>2. FieldOf(MessageHeader, "version", bytes)[1] = Version
    BY <1>4
  <2> QED BY <1>4, <2>1, <2>2 DEF IsPayload
<1> HIDE DEF good
<1>10. ParseMessage(bytes) = message(type, payload)
  BY <1>1, <1>7, <1>8, <1>9
<1> QED BY <1>4, <1>6, <1>10

-----------------------------------------------------------------------------
(* The payload of each message *)

LEMMA ExpectedSizes ==
  ASSUME NEW type \in Byte, NEW size
  PROVE  /\ type \in {1, 2} => ExpectedSize(type, size) = SizeOf(SessionPayload)
         /\ type \in {3, 4, 5, 17} => ExpectedSize(type, size) = 0
         /\ type = 16 => ExpectedSize(type, size) = size
         /\ type \in 32..35 => ExpectedSize(type, size) = size
         /\ type = 48 => ExpectedSize(type, size) = SizeOf(DeviceDescription)
         /\ type = 49 => ExpectedSize(type, size) = SizeOf(InputState)
<1>1. CASE type \in {1, 2}
  <2>1. /\ type \notin {3, 4, 5, 17} /\ type \notin {16} \cup 32..35
        /\ type # 16 /\ type \notin 32..35 /\ type # 48 /\ type # 49
    <3>1. type = 1 \/ type = 2
      BY <1>1
    <3> QED BY <3>1
  <2>2. ExpectedSize(type, size) = SizeOf(SessionPayload)
    BY <1>1, <2>1, Zenon DEF ExpectedSize
  <2> QED BY <2>1, <2>2, Zenon
<1>2. CASE type \in {3, 4, 5, 17}
  <2>1. /\ type \notin {1, 2} /\ type \notin {16} \cup 32..35
        /\ type # 16 /\ type \notin 32..35 /\ type # 48 /\ type # 49
    <3>1. type = 3 \/ type = 4 \/ type = 5 \/ type = 17
      BY <1>2
    <3> QED BY <3>1
  <2>2. ExpectedSize(type, size) = 0
    BY <1>2, <2>1, Zenon DEF ExpectedSize
  <2> QED BY <2>1, <2>2, Zenon
<1>3. type = 16 => ExpectedSize(type, size) = size
  BY DEF ExpectedSize
<1>4. type \in 32..35 => ExpectedSize(type, size) = size
  BY DEF ExpectedSize
<1>5. type = 48 => ExpectedSize(type, size) = SizeOf(DeviceDescription)
  BY DEF ExpectedSize
<1>6. type = 49 => ExpectedSize(type, size) = SizeOf(InputState)
  BY DEF ExpectedSize
<1> QED BY <1>1, <1>2, <1>3, <1>4, <1>5, <1>6, Zenon

\* A part of a sequence of bytes, behind its first a.
HasPart(all, a, part) ==
  a + Len(part) <= Len(all) /\ SubSeq(all, a + 1, a + Len(part)) = part

LEMMA JoinIsBytes ==
  ASSUME NEW s \in Seq(Byte), NEW t \in Seq(Byte)
  PROVE  s \o t \in Seq(Byte) /\ Len(s \o t) = Len(s) + Len(t)
OBVIOUS

LEMMA SameBytes ==
  ASSUME NEW s \in Seq(Byte), NEW t \in Seq(Byte), Len(s) = Len(t),
         \A i \in 1..Len(s) : s[i] = t[i]
  PROVE  s = t
OBVIOUS

LEMMA JoinElement ==
  ASSUME NEW s \in Seq(Byte), NEW t \in Seq(Byte), NEW a \in Nat, a = Len(s)
  PROVE  /\ \A i \in 1..a : (s \o t)[i] = s[i]
         /\ \A i \in 1..Len(t) : (s \o t)[a + i] = t[i]
OBVIOUS

Associates(s, t, u) == (s \o t) \o u = s \o (t \o u)

LEMMA JoinAssociates ==
  ASSUME NEW s \in Seq(Byte), NEW t \in Seq(Byte), NEW u \in Seq(Byte)
  PROVE  Associates(s, t, u)
<1>1. PICK a \in Nat, b \in Nat, c \in Nat : a = Len(s) /\ b = Len(t) /\ c = Len(u)
  OBVIOUS
<1>2. PICK st \in Seq(Byte) : st = s \o t /\ Len(st) = a + b
  BY <1>1, JoinIsBytes
<1>3. PICK tu \in Seq(Byte) : tu = t \o u /\ Len(tu) = b + c
  BY <1>1, JoinIsBytes
<1>4. PICK l \in Seq(Byte) : l = st \o u /\ Len(l) = (a + b) + c
  <2>1. st \o u \in Seq(Byte) /\ Len(st \o u) = Len(st) + Len(u)
    BY JoinIsBytes
  <2> QED BY <1>1, <1>2, <2>1
<1>5. PICK r \in Seq(Byte) : r = s \o tu /\ Len(r) = a + (b + c)
  <2>1. s \o tu \in Seq(Byte) /\ Len(s \o tu) = Len(s) + Len(tu)
    BY JoinIsBytes
  <2> QED BY <1>1, <1>3, <2>1
<1>6. /\ \A i \in 1..a : st[i] = s[i]
      /\ \A i \in 1..b : st[a + i] = t[i]
  BY <1>1, <1>2, JoinElement
<1>7. /\ \A i \in 1..b : tu[i] = t[i]
      /\ \A i \in 1..c : tu[b + i] = u[i]
  BY <1>1, <1>3, JoinElement
<1>8. /\ \A i \in 1..(a + b) : l[i] = st[i]
      /\ \A i \in 1..c : l[a + b + i] = u[i]
  BY <1>1, <1>2, <1>4, JoinElement, SMTT(30)
<1>9. /\ \A i \in 1..a : r[i] = s[i]
      /\ \A i \in 1..(b + c) : r[a + i] = tu[i]
  BY <1>1, <1>3, <1>5, JoinElement, SMTT(30)
<1>10. ASSUME NEW i \in 1..(a + b + c)
       PROVE  l[i] = r[i]
  <2>1. CASE i \in 1..a
    <3>1. i \in 1..(a + b)
      BY <2>1
    <3> QED BY <1>6, <1>8, <1>9, <2>1, <3>1
  <2>2. CASE i > a /\ i <= a + b
    <3>1. PICK j \in Nat : j = i - a
      BY <2>2
    <3>2. j \in 1..b /\ j \in 1..(b + c) /\ i \in 1..(a + b) /\ i = a + j
      BY <2>2, <3>1
    <3>3. l[i] = st[i] /\ st[a + j] = t[j] /\ tu[j] = t[j] /\ r[a + j] = tu[j]
      BY <1>6, <1>7, <1>8, <1>9, <3>2
    <3> QED BY <3>2, <3>3
  <2>3. CASE i > a + b
    <3>1. PICK j \in Nat : j = i - (a + b)
      BY <2>3
    <3>2. j \in 1..c /\ i = a + b + j
      BY <2>3, <3>1
    <3>3. PICK k \in 1..(b + c) : k = b + j /\ i = a + k
      BY <3>2
    <3>4. l[a + b + j] = u[j] /\ tu[b + j] = u[j] /\ r[a + k] = tu[k]
      BY <1>7, <1>8, <1>9, <3>2, <3>3
    <3> QED BY <3>2, <3>3, <3>4
  <2>4. i \in 1..a \/ (i > a /\ i <= a + b) \/ i > a + b
    OBVIOUS
  <2> QED BY <2>1, <2>2, <2>3, <2>4, Zenon
<1>11. Len(l) = a + b + c /\ Len(r) = a + b + c
  BY <1>4, <1>5
<1>12. l = r
  <2>1. PICK n \in Nat : n = a + b + c
    OBVIOUS
  <2>2. l \in Seq(Byte) /\ r \in Seq(Byte) /\ Len(l) = n /\ Len(r) = n
    BY <1>4, <1>5, <1>11, <2>1
  <2>3. \A i \in 1..n : l[i] = r[i]
    BY <1>10, <2>1
  <2> QED BY <2>2, <2>3, SameBytes
<1> QED BY <1>2, <1>3, <1>4, <1>5, <1>12, Zenon DEF Associates

LEMMA LastPart ==
  ASSUME NEW s \in Seq(Byte), NEW t \in Seq(Byte), NEW a \in Nat, a = Len(s)
  PROVE  HasPart(s \o t, a, t)
<1>1. Len(s \o t) = Len(s) + Len(t) /\ Len(t) \in Nat
  BY JoinIsBytes
<1> QED BY <1>1, JoinedLast DEF HasPart

LEMMA EarlierPart ==
  ASSUME NEW s \in Seq(Byte), NEW t \in Seq(Byte), NEW part \in Seq(Byte), NEW a \in Nat,
         HasPart(s, a, part)
  PROVE  HasPart(s \o t, a, part)
<1>1. /\ Len(s \o t) = Len(s) + Len(t) /\ Len(t) \in Nat
      /\ Len(s) \in Nat /\ Len(part) \in Nat
  BY JoinIsBytes
<1>2. a + Len(part) <= Len(s) /\ SubSeq(s, a + 1, a + Len(part)) = part
  BY DEF HasPart
<1>3. SubSeq(s \o t, a + 1, a + Len(part)) = SubSeq(s, a + 1, a + Len(part))
  BY <1>1, <1>2, JoinedBefore
<1>4. a + Len(part) <= Len(s \o t)
  BY <1>1, <1>2
<1> QED BY <1>2, <1>3, <1>4, Zenon DEF HasPart

AreFourParts(all, h, d, p, m, s, D, P, M, S) ==
  /\ all \in Seq(Byte) /\ Len(all) = S + Len(s)
  /\ HasPart(all, D, d) /\ HasPart(all, P, p) /\ HasPart(all, M, m) /\ HasPart(all, S, s)
  /\ \E rest \in Seq(Byte) : all = h \o rest

\* Four parts behind a header are found one after the other.
LEMMA FourParts ==
  ASSUME NEW h \in Seq(Byte), NEW d \in Seq(Byte), NEW p \in Seq(Byte),
         NEW m \in Seq(Byte), NEW s \in Seq(Byte),
         NEW D \in Nat, D = Len(h), NEW P \in Nat, P = D + Len(d),
         NEW M \in Nat, M = P + Len(p), NEW S \in Nat, S = M + Len(m)
  PROVE  AreFourParts(h \o d \o p \o m \o s, h, d, p, m, s, D, P, M, S)
<1> DEFINE hd == h \o d
           hp == hd \o p
           hm == hp \o m
           all == hm \o s
<1>1. hd \in Seq(Byte) /\ Len(hd) = P
  BY JoinIsBytes
<1>2. HasPart(hd, D, d)
  BY LastPart
<1> DEFINE after_d == d \o p
           after_p == after_d \o m
           rest == after_p \o s
<1>3. after_d \in Seq(Byte) /\ hd \o p = h \o after_d
  <2>1. Associates(h, d, p)
    BY JoinAssociates
  <2>2. d \o p \in Seq(Byte)
    BY JoinIsBytes
  <2> QED BY <2>1, <2>2, Zenon DEF Associates
<1> HIDE DEF hd, after_d
<1>4. hp \in Seq(Byte) /\ Len(hp) = M /\ hp = h \o after_d
  BY <1>1, <1>3, JoinIsBytes
<1>5. HasPart(hp, D, d) /\ HasPart(hp, P, p)
  BY <1>1, <1>2, LastPart, EarlierPart
<1> HIDE DEF hp
<1>6. hm \in Seq(Byte) /\ Len(hm) = S
  BY <1>4, JoinIsBytes
<1>7. after_p \in Seq(Byte) /\ hm = h \o after_p
  <2>1. after_p \in Seq(Byte)
    BY <1>3, JoinIsBytes
  <2>2. Associates(h, after_d, m)
    BY <1>3, JoinAssociates
  <2> QED BY <1>4, <2>1, <2>2, Zenon DEF Associates
<1>8. HasPart(hm, D, d) /\ HasPart(hm, P, p) /\ HasPart(hm, M, m)
  BY <1>4, <1>5, LastPart, EarlierPart
<1> HIDE DEF hm, after_p
<1>9. all \in Seq(Byte) /\ Len(all) = S + Len(s)
  BY <1>6, JoinIsBytes
<1>10. rest \in Seq(Byte) /\ all = h \o rest
  <2>1. rest \in Seq(Byte)
    BY <1>7, JoinIsBytes
  <2>2. Associates(h, after_p, s)
    BY <1>7, JoinAssociates
  <2> QED BY <1>7, <2>1, <2>2, Zenon DEF Associates
<1>11. HasPart(all, D, d) /\ HasPart(all, P, p) /\ HasPart(all, M, m) /\ HasPart(all, S, s)
  BY <1>6, <1>8, LastPart, EarlierPart
<1> HIDE DEF all, rest
<1>12. h \o d \o p \o m \o s = all
  BY Zenon DEF hd, hp, hm, all
<1>13. AreFourParts(all, h, d, p, m, s, D, P, M, S)
  BY <1>9, <1>10, <1>11, Zenon DEF AreFourParts
<1> QED BY <1>12, <1>13, Zenon

\* A number field of a struct, as the code reads it.
ReadsAs(struct, name, bytes, x) == Number(FieldOf(struct, name, bytes)) = x

\* A number comes out of a struct as it went in when its bytes say it.
LEMMA NumberReadsAs ==
  ASSUME NEW struct, NEW n, IsLayout(struct, n), NEW values,
         \A i \in 1..n : HasValue(struct, i, values),
         NEW rest \in Seq(Byte), NEW bytes, bytes = Pack(struct, values) \o rest,
         NEW i \in 1..n, NEW name, NEW width, struct[i] = <<name, width>>, name \notin Arrays,
         NEW x, values[name] = x, Number(LittleEndian(x, width)) = x
  PROVE  ReadsAs(struct, name, bytes, x)
<1>1. FieldOf(struct, name, Pack(struct, values) \o rest) = LittleEndian(values[name], width)
  BY NumberIsRead, SMTT(30)
<1> QED BY <1>1, Zenon DEF ReadsAs

\* So for one byte and for two.
LEMMA NumberBack ==
  /\ \A x \in Byte : Number(LittleEndian(x, 1)) = x
  /\ \A x : IsWord(x) => Number(LittleEndian(x, 2)) = x
<1>1. ASSUME NEW x \in Byte PROVE Number(LittleEndian(x, 1)) = x
  BY ByteBack
<1>2. ASSUME NEW x, IsWord(x) PROVE Number(LittleEndian(x, 2)) = x
  BY <1>2, WordBack
<1> QED BY <1>1, <1>2

\* What parse_hid_device_add looks at before it makes the spans.
SizesOf(r) ==
  /\ IsWord(Len(r.descriptor)) /\ Len(r.descriptor) # 0
  /\ Len(r.product) \in Byte
  /\ Len(r.manufacturer) \in Byte /\ Len(r.serial) \in Byte

AddNumbers(r, payload) ==
  /\ ReadsAs(HidDeviceAddHeader, "transport", payload, r.transport)
  /\ ReadsAs(HidDeviceAddHeader, "descriptor_size", payload, Len(r.descriptor))
  /\ ReadsAs(HidDeviceAddHeader, "product_size", payload, Len(r.product))
  /\ ReadsAs(HidDeviceAddHeader, "manufacturer_size", payload, Len(r.manufacturer))
  /\ ReadsAs(HidDeviceAddHeader, "serial_size", payload, Len(r.serial))
  /\ ReadsAs(HidDeviceAddHeader, "source_output_profile", payload, r.source_output_profile)
  /\ ReadsAs(HidDeviceAddHeader, "reserved", payload, 0)

LEMMA AddNumbersAreRead ==
  ASSUME NEW r \in AddMessages, SizesOf(r), NEW rest \in Seq(Byte), NEW payload,
         payload = Pack(HidDeviceAddHeader, AddValues(r)) \o rest
  PROVE  AddNumbers(r, payload)
<1>1. /\ IsLayout(HidDeviceAddHeader, 12)
      /\ \A j \in 1..12 : HasValue(HidDeviceAddHeader, j, AddValues(r))
  BY AddHasValues, HidDeviceAddHeaderLayout, Zenon
<1>2. PICK v : v = AddValues(r)
  OBVIOUS
<1>3. /\ \A j \in 1..12 : HasValue(HidDeviceAddHeader, j, v)
      /\ payload = Pack(HidDeviceAddHeader, v) \o rest
  BY <1>1, <1>2
<1>4. ReadsAs(HidDeviceAddHeader, "transport", payload, r.transport)
  <2>1. 4 \in 1..12 /\ HidDeviceAddHeader[4] = <<"transport", 1>> /\ "transport" \notin Arrays
    BY HidDeviceAddHeaderLayout DEF Arrays
  <2>2. v["transport"] = r.transport
    BY <1>2, AddValuesOf
  <2>3. r.transport \in Byte
    BY DEF AddMessages
  <2>4. Number(LittleEndian(r.transport, 1)) = r.transport
    BY <2>3, NumberBack
  <2> QED BY <1>1, <1>3, <2>1, <2>2, <2>4, NumberReadsAs
<1>5. ReadsAs(HidDeviceAddHeader, "descriptor_size", payload, Len(r.descriptor))
  <2>1. 6 \in 1..12 /\ HidDeviceAddHeader[6] = <<"descriptor_size", 2>> /\ "descriptor_size" \notin Arrays
    BY HidDeviceAddHeaderLayout DEF Arrays
  <2>2. v["descriptor_size"] = Len(r.descriptor)
    BY <1>2, AddValuesOf
  <2>3. IsWord(Len(r.descriptor))
    BY DEF SizesOf
  <2>4. Number(LittleEndian(Len(r.descriptor), 2)) = Len(r.descriptor)
    BY <2>3, NumberBack
  <2> QED BY <1>1, <1>3, <2>1, <2>2, <2>4, NumberReadsAs
<1>6. ReadsAs(HidDeviceAddHeader, "product_size", payload, Len(r.product))
  <2>1. 7 \in 1..12 /\ HidDeviceAddHeader[7] = <<"product_size", 1>> /\ "product_size" \notin Arrays
    BY HidDeviceAddHeaderLayout DEF Arrays
  <2>2. v["product_size"] = Len(r.product)
    BY <1>2, AddValuesOf
  <2>3. Len(r.product) \in Byte
    BY DEF SizesOf
  <2>4. Number(LittleEndian(Len(r.product), 1)) = Len(r.product)
    BY <2>3, NumberBack
  <2> QED BY <1>1, <1>3, <2>1, <2>2, <2>4, NumberReadsAs
<1>7. ReadsAs(HidDeviceAddHeader, "manufacturer_size", payload, Len(r.manufacturer))
  <2>1. 8 \in 1..12 /\ HidDeviceAddHeader[8] = <<"manufacturer_size", 1>> /\ "manufacturer_size" \notin Arrays
    BY HidDeviceAddHeaderLayout DEF Arrays
  <2>2. v["manufacturer_size"] = Len(r.manufacturer)
    BY <1>2, AddValuesOf
  <2>3. Len(r.manufacturer) \in Byte
    BY DEF SizesOf
  <2>4. Number(LittleEndian(Len(r.manufacturer), 1)) = Len(r.manufacturer)
    BY <2>3, NumberBack
  <2> QED BY <1>1, <1>3, <2>1, <2>2, <2>4, NumberReadsAs
<1>8. ReadsAs(HidDeviceAddHeader, "serial_size", payload, Len(r.serial))
  <2>1. 9 \in 1..12 /\ HidDeviceAddHeader[9] = <<"serial_size", 1>> /\ "serial_size" \notin Arrays
    BY HidDeviceAddHeaderLayout DEF Arrays
  <2>2. v["serial_size"] = Len(r.serial)
    BY <1>2, AddValuesOf
  <2>3. Len(r.serial) \in Byte
    BY DEF SizesOf
  <2>4. Number(LittleEndian(Len(r.serial), 1)) = Len(r.serial)
    BY <2>3, NumberBack
  <2> QED BY <1>1, <1>3, <2>1, <2>2, <2>4, NumberReadsAs
<1>9. ReadsAs(HidDeviceAddHeader, "source_output_profile", payload, r.source_output_profile)
  <2>1. 11 \in 1..12 /\ HidDeviceAddHeader[11] = <<"source_output_profile", 1>> /\ "source_output_profile" \notin Arrays
    BY HidDeviceAddHeaderLayout DEF Arrays
  <2>2. v["source_output_profile"] = r.source_output_profile
    BY <1>2, AddValuesOf
  <2>3. r.source_output_profile \in Byte
    BY DEF AddMessages
  <2>4. Number(LittleEndian(r.source_output_profile, 1)) = r.source_output_profile
    BY <2>3, NumberBack
  <2> QED BY <1>1, <1>3, <2>1, <2>2, <2>4, NumberReadsAs
<1>10. ReadsAs(HidDeviceAddHeader, "reserved", payload, 0)
  <2>1. 12 \in 1..12 /\ HidDeviceAddHeader[12] = <<"reserved", 1>> /\ "reserved" \notin Arrays
    BY HidDeviceAddHeaderLayout DEF Arrays
  <2>2. v["reserved"] = 0
    BY <1>2, AddValuesOf
  <2>3. 0 \in Byte
    BY DEF Byte
  <2>4. Number(LittleEndian(0, 1)) = 0
    BY <2>3, NumberBack
  <2> QED BY <1>1, <1>3, <2>1, <2>2, <2>4, NumberReadsAs
<1> QED BY <1>4, <1>5, <1>6, <1>7, <1>8, <1>9, <1>10, Zenon DEF AddNumbers

\* An add of the protocol, its payload, and where the texts begin.
IsAdd(r, payload, P, M, S) ==
  /\ SizesOf(r)
  /\ r.transport <= 4 /\ r.source_output_profile \in 0..6 \cup {255}
  /\ payload = Pack(HidDeviceAddHeader, AddValues(r))
                 \o r.descriptor \o r.product \o r.manufacturer \o r.serial
  /\ P = 16 + Len(r.descriptor) /\ M = P + Len(r.product) /\ S = M + Len(r.manufacturer)

LEMMA AddIsParsed ==
  ASSUME NEW r \in AddMessages, NEW payload, NEW P \in Nat, NEW M \in Nat, NEW S \in Nat,
         IsAdd(r, payload, P, M, S)
  PROVE  /\ ParseHidDeviceAdd(payload) =
              [ok |-> TRUE, descriptor |-> Span(16, Len(r.descriptor)),
               product |-> Span(P, Len(r.product)),
               manufacturer |-> Span(M, Len(r.manufacturer)),
               serial |-> Span(S, Len(r.serial))]
         /\ HasPart(payload, 16, r.descriptor) /\ HasPart(payload, P, r.product)
         /\ HasPart(payload, M, r.manufacturer) /\ HasPart(payload, S, r.serial)
         /\ \E rest \in Seq(Byte) : payload = Pack(HidDeviceAddHeader, AddValues(r)) \o rest
<1> DEFINE value(name) == Number(FieldOf(HidDeviceAddHeader, name, payload))
           parsed(d, p, m, s) ==
             IF /\ Len(payload) >= 16
                /\ d # 0 /\ value("transport") <= 4
                /\ value("source_output_profile") \in 0..6 \cup {255}
                /\ value("reserved") = 0
                /\ Len(payload) = 16 + d + p + m + s
             THEN [ok |-> TRUE, descriptor |-> Span(16, d), product |-> Span(16 + d, p),
                   manufacturer |-> Span(16 + d + p, m), serial |-> Span(16 + d + p + m, s)]
             ELSE Refused
           v == AddValues(r)
<1>1. PICK header : header = Pack(HidDeviceAddHeader, AddValues(r))
  OBVIOUS
<1>2. header \in Seq(Byte) /\ Len(header) = 16
  <2>1. /\ IsLayout(HidDeviceAddHeader, 12)
        /\ \A j \in 1..12 : HasValue(HidDeviceAddHeader, j, AddValues(r))
    BY AddHasValues, HidDeviceAddHeaderLayout, Zenon
  <2>2. SizeOf(HidDeviceAddHeader) = 16
    BY HidDeviceAddHeaderLayout, Zenon
  <2>3. Pack(HidDeviceAddHeader, AddValues(r)) \in Seq(Byte)
    BY <2>1, PackIsBytes
  <2>4. Len(Pack(HidDeviceAddHeader, AddValues(r))) = SizeOf(HidDeviceAddHeader)
    BY <2>1, PackIsBytes
  <2> QED BY <1>1, <2>2, <2>3, <2>4
<1>3. /\ r.descriptor \in Seq(Byte) /\ r.product \in Seq(Byte)
      /\ r.manufacturer \in Seq(Byte) /\ r.serial \in Seq(Byte)
      /\ r.transport \in Byte /\ r.source_output_profile \in Byte
  BY DEF AddMessages
<1>4. /\ payload \in Seq(Byte) /\ Len(payload) = S + Len(r.serial)
      /\ HasPart(payload, 16, r.descriptor) /\ HasPart(payload, P, r.product)
      /\ HasPart(payload, M, r.manufacturer) /\ HasPart(payload, S, r.serial)
      /\ \E rest \in Seq(Byte) : payload = header \o rest
  <2>1. payload = header \o r.descriptor \o r.product \o r.manufacturer \o r.serial
    BY <1>1, Zenon DEF IsAdd
  <2>2. 16 \in Nat /\ 16 = Len(header)
    BY <1>2
  <2>3. AreFourParts(header \o r.descriptor \o r.product \o r.manufacturer \o r.serial,
                     header, r.descriptor, r.product, r.manufacturer, r.serial, 16, P, M, S)
    <3>1. 16 \in Nat /\ P = 16 + Len(r.descriptor) /\ M = P + Len(r.product) /\ S = M + Len(r.manufacturer)
      BY Zenon DEF IsAdd
    <3> QED BY <1>2, <1>3, <2>2, <3>1, FourParts
  <2> QED BY <2>1, <2>3, Zenon DEF AreFourParts
<1>5. PICK rest \in Seq(Byte) : payload = header \o rest
  BY <1>4
<1>6. AddNumbers(r, payload)
  BY <1>1, <1>5, AddNumbersAreRead DEF IsAdd
<1>7. ParseHidDeviceAdd(payload) =
        parsed(value("descriptor_size"), value("product_size"),
               value("manufacturer_size"), value("serial_size"))
  BY Zenon DEF ParseHidDeviceAdd
<1>8. /\ value("descriptor_size") = Len(r.descriptor) /\ value("product_size") = Len(r.product)
      /\ value("manufacturer_size") = Len(r.manufacturer) /\ value("serial_size") = Len(r.serial)
      /\ value("transport") = r.transport
      /\ value("source_output_profile") = r.source_output_profile /\ value("reserved") = 0
  BY <1>6, Zenon DEF AddNumbers, ReadsAs
<1> HIDE DEF value
<1>9. PICK d \in Nat : d = Len(r.descriptor)
  BY <1>3
<1>10. PICK p \in Nat : p = Len(r.product)
  BY <1>3
<1>11. PICK m \in Nat : m = Len(r.manufacturer)
  BY <1>3
<1>12. PICK s \in Nat : s = Len(r.serial)
  BY <1>3
<1>13. d # 0 /\ 16 + d = P /\ P + p = M /\ M + m = S /\ S + s >= 16
  <2>1. d # 0
    BY <1>9 DEF SizesOf, IsAdd
  <2>2. 16 + d = P /\ P + p = M /\ M + m = S
    BY <1>9, <1>10, <1>11 DEF IsAdd
  <2> QED BY <2>1, <2>2
<1>14. Len(payload) = S + s
  BY <1>4, <1>12
<1>15. parsed(d, p, m, s) =
         [ok |-> TRUE, descriptor |-> Span(16, d), product |-> Span(P, p),
          manufacturer |-> Span(M, m), serial |-> Span(S, s)]
  <2>1. 16 + d + p = M /\ 16 + d + p + m = S /\ 16 + d + p + m + s = S + s
    BY <1>13
  <2>2. /\ Len(payload) >= 16 /\ d # 0 /\ value("transport") <= 4
        /\ value("source_output_profile") \in 0..6 \cup {255}
        /\ value("reserved") = 0 /\ Len(payload) = 16 + d + p + m + s
    <3>1. r.transport <= 4 /\ r.source_output_profile \in 0..6 \cup {255}
      BY DEF IsAdd
    <3>2. Len(payload) >= 16
      BY <1>13, <1>14
    <3> QED BY <1>8, <1>13, <1>14, <2>1, <3>1, <3>2, ZenonT(60)
  <2> QED BY <1>13, <2>1, <2>2, ZenonT(60)
<1> HIDE DEF parsed
<1>16. ParseHidDeviceAdd(payload) = parsed(d, p, m, s)
  BY <1>7, <1>8, <1>9, <1>10, <1>11, <1>12
<1> QED BY <1>1, <1>4, <1>9, <1>10, <1>11, <1>12, <1>15, <1>16

ReportNumbers(r, payload) ==
  /\ ReadsAs(HidReportHeader, "report_type", payload, r.report_type)
  /\ ReadsAs(HidReportHeader, "data_size", payload, Len(r.data))

LEMMA ReportNumbersAreRead ==
  ASSUME NEW r \in ReportMessages, IsWord(Len(r.data)), NEW rest \in Seq(Byte), NEW payload,
         payload = Pack(HidReportHeader, ReportValues(r)) \o rest
  PROVE  ReportNumbers(r, payload)
<1>1. IsLayout(HidReportHeader, 3) /\ \A j \in 1..3 : HasValue(HidReportHeader, j, ReportValues(r))
  BY ReportHasValues, HidReportHeaderLayout, Zenon
<1>2. PICK v : v = ReportValues(r)
  OBVIOUS
<1>3. /\ \A j \in 1..3 : HasValue(HidReportHeader, j, v)
      /\ payload = Pack(HidReportHeader, v) \o rest
  BY <1>1, <1>2
<1>4. ReadsAs(HidReportHeader, "report_type", payload, r.report_type)
  <2>1. 1 \in 1..3 /\ HidReportHeader[1] = <<"report_type", 1>> /\ "report_type" \notin Arrays
    BY HidReportHeaderLayout DEF Arrays
  <2>2. v["report_type"] = r.report_type
    BY <1>2 DEF ReportValues
  <2>3. r.report_type \in Byte
    BY DEF ReportMessages
  <2>4. Number(LittleEndian(r.report_type, 1)) = r.report_type
    BY <2>3, NumberBack
  <2> QED BY <1>1, <1>3, <2>1, <2>2, <2>4, NumberReadsAs
<1>5. ReadsAs(HidReportHeader, "data_size", payload, Len(r.data))
  <2>1. 3 \in 1..3 /\ HidReportHeader[3] = <<"data_size", 2>> /\ "data_size" \notin Arrays
    BY HidReportHeaderLayout DEF Arrays
  <2>2. v["data_size"] = Len(r.data)
    BY <1>2 DEF ReportValues
  <2>4. Number(LittleEndian(Len(r.data), 2)) = Len(r.data)
    BY NumberBack
  <2> QED BY <1>1, <1>3, <2>1, <2>2, <2>4, NumberReadsAs
<1> QED BY <1>4, <1>5, Zenon DEF ReportNumbers

LEMMA ReportIsParsed ==
  ASSUME NEW r \in ReportMessages, IsWord(Len(r.data)), r.report_type <= 2,
         NEW payload, payload = Pack(HidReportHeader, ReportValues(r)) \o r.data
  PROVE  /\ ParseHidReport(payload) = [ok |-> TRUE, data |-> Span(4, Len(r.data))]
         /\ HasPart(payload, 4, r.data)
<1> DEFINE value(name) == Number(FieldOf(HidReportHeader, name, payload))
           parsed(d) == IF /\ Len(payload) >= 4 /\ value("report_type") <= 2
                           /\ Len(payload) = 4 + d
                        THEN [ok |-> TRUE, data |-> Span(4, d)] ELSE Refused
<1>1. PICK header : header = Pack(HidReportHeader, ReportValues(r))
  OBVIOUS
<1>2. header \in Seq(Byte) /\ Len(header) = 4
  <2>1. /\ IsLayout(HidReportHeader, 3)
        /\ \A j \in 1..3 : HasValue(HidReportHeader, j, ReportValues(r))
    BY ReportHasValues, HidReportHeaderLayout, Zenon
  <2>2. SizeOf(HidReportHeader) = 4
    BY HidReportHeaderLayout, Zenon
  <2> QED BY <1>1, <2>1, <2>2, PackIsBytes
<1>3. r.data \in Seq(Byte) /\ r.report_type \in Byte
  BY DEF ReportMessages
<1>4. PICK d \in Nat : d = Len(r.data)
  BY <1>3
<1>5. payload = header \o r.data
  BY <1>1
<1>6. Len(payload) = 4 + d /\ HasPart(payload, 4, r.data)
  <2>1. Len(header \o r.data) = Len(header) + Len(r.data)
    BY <1>2, <1>3, JoinIsBytes
  <2>2. 4 \in Nat /\ 4 = Len(header)
    BY <1>2
  <2>3. HasPart(header \o r.data, 4, r.data)
    BY <1>2, <1>3, <2>2, LastPart
  <2> QED BY <1>2, <1>4, <1>5, <2>1, <2>3
<1>7. ParseHidReport(payload) = parsed(value("data_size"))
  BY Zenon DEF ParseHidReport
<1>8. value("data_size") = d /\ value("report_type") = r.report_type
  <2>1. ReportNumbers(r, payload)
    BY <1>3, ReportNumbersAreRead
  <2> QED BY <1>4, <2>1, Zenon DEF ReportNumbers, ReadsAs
<1> HIDE DEF value
<1>9. parsed(d) = [ok |-> TRUE, data |-> Span(4, d)]
  BY <1>6, <1>8
<1> HIDE DEF parsed
<1> QED BY <1>4, <1>6, <1>7, <1>8, <1>9

-----------------------------------------------------------------------------
(* Both sides write the same structs *)

\* What the C++ side writes behind the header.
MadePayload(r) ==
  CASE r.kind = "session"     -> Pack(SessionPayload, r)
    [] r.kind = "empty"       -> <<>>
    [] r.kind = "description" -> Pack(DeviceDescription, r)
    [] r.kind = "state"       -> Pack(InputState, r)
    [] r.kind = "report"      -> Pack(HidReportHeader, ReportValues(r)) \o r.data
    [] r.kind = "add"         -> Pack(HidDeviceAddHeader, AddValues(r))
                                   \o r.descriptor \o r.product \o r.manufacturer \o r.serial

LEMMA MadeIs ==
  ASSUME NEW r
  PROVE  Made(r) = IF Accepted(r) /\ Fits(MadePayload(r))
                   THEN Pack(MessageHeader, HeaderValues(DeviceOf(r), r.type, Len(MadePayload(r))))
                          \o MadePayload(r)
                   ELSE <<>>
  BY Zenon DEF Made, MadePayload, HeaderValues, ReportValues, AddValues

\* The write of one field.
FieldWrite(struct, values, i) == <<Offset(struct, i), FieldBytes(struct[i], values)>>

LEMMA ThreeWrites ==
  ASSUME NEW struct, NEW values
  PROVE  {FieldWrite(struct, values, i) : i \in 1..3} =
           {FieldWrite(struct, values, 1), FieldWrite(struct, values, 2),
            FieldWrite(struct, values, 3)}
<1>1. 1..3 = {1, 2, 3}
  OBVIOUS
<1> QED BY <1>1, Zenon

LEMMA SixWrites ==
  ASSUME NEW struct, NEW values
  PROVE  {FieldWrite(struct, values, i) : i \in 1..6} =
           {FieldWrite(struct, values, 1), FieldWrite(struct, values, 2),
            FieldWrite(struct, values, 3), FieldWrite(struct, values, 4),
            FieldWrite(struct, values, 5), FieldWrite(struct, values, 6)}
<1>1. 1..6 = {1, 2, 3, 4, 5, 6}
  OBVIOUS
<1> QED BY <1>1, Zenon

LEMMA EightWrites ==
  ASSUME NEW struct, NEW values
  PROVE  {FieldWrite(struct, values, i) : i \in 1..8} =
           {FieldWrite(struct, values, 1), FieldWrite(struct, values, 2),
            FieldWrite(struct, values, 3), FieldWrite(struct, values, 4),
            FieldWrite(struct, values, 5), FieldWrite(struct, values, 6),
            FieldWrite(struct, values, 7), FieldWrite(struct, values, 8)}
<1>1. 1..8 = {1, 2, 3, 4, 5, 6, 7, 8}
  OBVIOUS
<1> QED BY <1>1, Zenon

LEMMA TwelveWrites ==
  ASSUME NEW struct, NEW values
  PROVE  {FieldWrite(struct, values, i) : i \in 1..12} =
           {FieldWrite(struct, values, 1), FieldWrite(struct, values, 2),
            FieldWrite(struct, values, 3), FieldWrite(struct, values, 4),
            FieldWrite(struct, values, 5), FieldWrite(struct, values, 6),
            FieldWrite(struct, values, 7), FieldWrite(struct, values, 8),
            FieldWrite(struct, values, 9), FieldWrite(struct, values, 10),
            FieldWrite(struct, values, 11), FieldWrite(struct, values, 12)}
<1>1. 1..12 = {1, 2, 3, 4, 5, 6, 7, 8, 9, 10, 11, 12}
  OBVIOUS
<1> QED BY <1>1, Zenon

LEMMA NumberWrite ==
  ASSUME NEW struct, NEW values, NEW i, NEW name, NEW width, NEW at, NEW x,
         struct[i] = <<name, width>>, Offset(struct, i) = at, name \notin Arrays, values[name] = x
  PROVE  FieldWrite(struct, values, i) = <<at, LittleEndian(x, width)>>
  BY DEF FieldWrite, FieldBytes

LEMMA ByteWrite ==
  ASSUME NEW struct, NEW values, NEW i, NEW name, NEW at, NEW x \in Byte,
         struct[i] = <<name, 1>>, Offset(struct, i) = at, name \notin Arrays, values[name] = x
  PROVE  FieldWrite(struct, values, i) = <<at, <<x>>>>
<1>1. FieldWrite(struct, values, i) = <<at, LittleEndian(x, 1)>>
  BY NumberWrite
<1>2. LittleEndian(x, 1) = <<x>>
  BY ByteBack
<1> QED BY <1>1, <1>2

LEMMA ArrayWrite ==
  ASSUME NEW struct, NEW values, NEW i, NEW name, NEW width, NEW at, NEW x,
         struct[i] = <<name, width>>, Offset(struct, i) = at, name \in Arrays, values[name] = x
  PROVE  FieldWrite(struct, values, i) = <<at, x>>
  BY DEF FieldWrite, FieldBytes

LEMMA ZeroWord == LittleEndian(0, 2) = <<0, 0>>
<1>1. PICK rest \in [0..2 -> Nat] : IsRest(rest, 0, 2)
  BY RestOfNumber
<1>2. rest[0] = 0 /\ rest[1] = rest[0] \div 256 /\ LittleEndian(0, 2) = [i \in 1..2 |-> rest[i - 1] % 256]
  BY <1>1 DEF IsRest
<1>3. rest[1] = 0 /\ 0 % 256 = 0
  BY <1>2
<1>4. LittleEndian(0, 2) = [i \in 1..2 |-> 0]
  BY <1>2, <1>3
<1> QED BY <1>4

\* A helper that writes the fields of a struct at their offsets writes the struct.
LEMMA HelperWrites ==
  ASSUME NEW struct, NEW n, IsLayout(struct, n), NEW values,
         \A i \in 1..n : HasValue(struct, i, values),
         NEW writes, writes = {FieldWrite(struct, values, i) : i \in 1..n},
         NEW size, size = SizeOf(struct)
  PROVE  Written(size, writes) = Pack(struct, values)
<1>1. IsStruct(struct) /\ Len(struct) = n
  BY DEF IsLayout
<1>2. FieldsFit(struct, values)
  BY <1>1, ValuesFit
<1>3. writes = {<<Offset(struct, i), FieldBytes(struct[i], values)>> : i \in 1..Len(struct)}
  BY <1>1, Zenon DEF FieldWrite
<1> QED BY <1>1, <1>2, <1>3, WrittenIsPack

\* vhid_wire_begin_message_for_device writes the header make_message packs.
LEMMA BeginWrites ==
  ASSUME NEW device_id \in Nat, NEW type \in Byte, NEW size \in Nat, next_sequence \in Nat
  PROVE  Begin(device_id, type, size) = Pack(MessageHeader, HeaderValues(device_id, type, size))
<1>1. /\ IsLayout(MessageHeader, 8)
      /\ \A j \in 1..8 : HasValue(MessageHeader, j, HeaderValues(device_id, type, size))
  BY HeaderHasValues, MessageHeaderLayout, Zenon
<1>2. PICK v : v = HeaderValues(device_id, type, size)
  OBVIOUS
<1>3. FieldWrite(MessageHeader, v, 1) = <<0, LittleEndian(Magic, 4)>>
  <2>1. /\ MessageHeader[1] = <<"magic", 4>> /\ Offset(MessageHeader, 1) = 0
        /\ "magic" \notin Arrays
    BY MessageHeaderLayout DEF Arrays
  <2>2. v["magic"] = Magic
    BY <1>2 DEF HeaderValues
  <2> QED BY <2>1, <2>2, NumberWrite
<1>4. FieldWrite(MessageHeader, v, 2) = <<4, <<Version>>>>
  <2>1. /\ MessageHeader[2] = <<"version", 1>> /\ Offset(MessageHeader, 2) = 4
        /\ "version" \notin Arrays
    BY MessageHeaderLayout DEF Arrays
  <2>2. v["version"] = Version
    BY <1>2 DEF HeaderValues
  <2>3. Version \in Byte
    BY DEF Version, Byte
  <2> QED BY <2>1, <2>2, <2>3, ByteWrite
<1>5. FieldWrite(MessageHeader, v, 3) = <<5, <<type>>>>
  <2>1. /\ MessageHeader[3] = <<"type", 1>> /\ Offset(MessageHeader, 3) = 5
        /\ "type" \notin Arrays
    BY MessageHeaderLayout DEF Arrays
  <2>2. v["type"] = type
    BY <1>2 DEF HeaderValues
  <2>3. type \in Byte
    BY Zenon
  <2> QED BY <2>1, <2>2, <2>3, ByteWrite
<1>6. FieldWrite(MessageHeader, v, 4) = <<6, <<0, 0>>>>
  <2>1. /\ MessageHeader[4] = <<"flags", 2>> /\ Offset(MessageHeader, 4) = 6
        /\ "flags" \notin Arrays
    BY MessageHeaderLayout DEF Arrays
  <2>2. v["flags"] = 0
    BY <1>2 DEF HeaderValues
  <2>3. FieldWrite(MessageHeader, v, 4) = <<6, LittleEndian(0, 2)>>
    BY <2>1, <2>2, NumberWrite
  <2> QED BY <2>3, ZeroWord
<1>7. FieldWrite(MessageHeader, v, 5) = <<8, LittleEndian(size, 4)>>
  <2>1. /\ MessageHeader[5] = <<"payload_size", 4>> /\ Offset(MessageHeader, 5) = 8
        /\ "payload_size" \notin Arrays
    BY MessageHeaderLayout DEF Arrays
  <2>2. v["payload_size"] = size
    BY <1>2 DEF HeaderValues
  <2> QED BY <2>1, <2>2, NumberWrite
<1>8. FieldWrite(MessageHeader, v, 6) = <<12, LittleEndian(device_id, 4)>>
  <2>1. /\ MessageHeader[6] = <<"device_id", 4>> /\ Offset(MessageHeader, 6) = 12
        /\ "device_id" \notin Arrays
    BY MessageHeaderLayout DEF Arrays
  <2>2. v["device_id"] = device_id
    BY <1>2 DEF HeaderValues
  <2> QED BY <2>1, <2>2, NumberWrite
<1>9. FieldWrite(MessageHeader, v, 7) = <<16, LittleEndian(next_sequence, 4)>>
  <2>1. /\ MessageHeader[7] = <<"sequence", 4>> /\ Offset(MessageHeader, 7) = 16
        /\ "sequence" \notin Arrays
    BY MessageHeaderLayout DEF Arrays
  <2>2. v["sequence"] = next_sequence
    BY <1>2 DEF HeaderValues
  <2> QED BY <2>1, <2>2, NumberWrite
<1>10. FieldWrite(MessageHeader, v, 8) = <<20, LittleEndian(Timestamp, 8)>>
  <2>1. /\ MessageHeader[8] = <<"timestamp_us", 8>> /\ Offset(MessageHeader, 8) = 20
        /\ "timestamp_us" \notin Arrays
    BY MessageHeaderLayout DEF Arrays
  <2>2. v["timestamp_us"] = Timestamp
    BY <1>2 DEF HeaderValues
  <2> QED BY <2>1, <2>2, NumberWrite
<1>11. Begin(device_id, type, size) = Written(28, {FieldWrite(MessageHeader, v, i) : i \in 1..8})
  <2>1. {FieldWrite(MessageHeader, v, i) : i \in 1..8} =
          {FieldWrite(MessageHeader, v, 1), FieldWrite(MessageHeader, v, 2),
           FieldWrite(MessageHeader, v, 3), FieldWrite(MessageHeader, v, 4),
           FieldWrite(MessageHeader, v, 5), FieldWrite(MessageHeader, v, 6),
           FieldWrite(MessageHeader, v, 7), FieldWrite(MessageHeader, v, 8)}
    BY EightWrites, Zenon
  <2> QED BY <1>3, <1>4, <1>5, <1>6, <1>7, <1>8, <1>9, <1>10, <2>1, Zenon DEF Begin
<1>12. SizeOf(MessageHeader) = 28
  BY MessageHeaderLayout, Zenon
<1> QED BY <1>1, <1>2, <1>11, <1>12, HelperWrites

\* vhid_make_session_message writes the SessionPayload the C++ side packs.
LEMMA SessionWrites ==
  ASSUME NEW r \in SessionMessages
  PROVE  SessionBytes(r) = Pack(SessionPayload, r)
<1>1. IsLayout(SessionPayload, 6) /\ \A j \in 1..6 : HasValue(SessionPayload, j, r)
  BY SessionHasValues, SessionPayloadLayout, Zenon
<1>2. PICK v : v = r
  OBVIOUS
<1>3. FieldWrite(SessionPayload, v, 1) = <<0, LittleEndian(r.session_id, 4)>>
  <2>1. /\ SessionPayload[1] = <<"session_id", 4>> /\ Offset(SessionPayload, 1) = 0
        /\ "session_id" \notin Arrays
    BY SessionPayloadLayout DEF Arrays
  <2>2. v["session_id"] = r.session_id
    BY <1>2
  <2> QED BY <2>1, <2>2, NumberWrite
<1>4. FieldWrite(SessionPayload, v, 2) = <<4, LittleEndian(r.peer_id, 4)>>
  <2>1. /\ SessionPayload[2] = <<"peer_id", 4>> /\ Offset(SessionPayload, 2) = 4
        /\ "peer_id" \notin Arrays
    BY SessionPayloadLayout DEF Arrays
  <2>2. v["peer_id"] = r.peer_id
    BY <1>2
  <2> QED BY <2>1, <2>2, NumberWrite
<1>5. FieldWrite(SessionPayload, v, 3) = <<8, LittleEndian(r.capabilities, 4)>>
  <2>1. /\ SessionPayload[3] = <<"capabilities", 4>> /\ Offset(SessionPayload, 3) = 8
        /\ "capabilities" \notin Arrays
    BY SessionPayloadLayout DEF Arrays
  <2>2. v["capabilities"] = r.capabilities
    BY <1>2
  <2> QED BY <2>1, <2>2, NumberWrite
<1>6. FieldWrite(SessionPayload, v, 4) = <<12, LittleEndian(r.keepalive_interval_us, 4)>>
  <2>1. /\ SessionPayload[4] = <<"keepalive_interval_us", 4>> /\ Offset(SessionPayload, 4) = 12
        /\ "keepalive_interval_us" \notin Arrays
    BY SessionPayloadLayout DEF Arrays
  <2>2. v["keepalive_interval_us"] = r.keepalive_interval_us
    BY <1>2
  <2> QED BY <2>1, <2>2, NumberWrite
<1>7. FieldWrite(SessionPayload, v, 5) = <<16, LittleEndian(r.timeout_us, 4)>>
  <2>1. /\ SessionPayload[5] = <<"timeout_us", 4>> /\ Offset(SessionPayload, 5) = 16
        /\ "timeout_us" \notin Arrays
    BY SessionPayloadLayout DEF Arrays
  <2>2. v["timeout_us"] = r.timeout_us
    BY <1>2
  <2> QED BY <2>1, <2>2, NumberWrite
<1>8. FieldWrite(SessionPayload, v, 6) = <<20, r.name>>
  <2>1. /\ SessionPayload[6] = <<"name", 32>> /\ Offset(SessionPayload, 6) = 20
        /\ "name" \in Arrays
    BY SessionPayloadLayout DEF Arrays
  <2>2. v["name"] = r.name
    BY <1>2
  <2> QED BY <2>1, <2>2, ArrayWrite
<1>9. SessionBytes(r) = Written(52, {FieldWrite(SessionPayload, v, i) : i \in 1..6})
  <2>1. {FieldWrite(SessionPayload, v, i) : i \in 1..6} =
          {FieldWrite(SessionPayload, v, 1), FieldWrite(SessionPayload, v, 2),
           FieldWrite(SessionPayload, v, 3), FieldWrite(SessionPayload, v, 4),
           FieldWrite(SessionPayload, v, 5), FieldWrite(SessionPayload, v, 6)}
    BY SixWrites, Zenon
  <2> QED BY <1>3, <1>4, <1>5, <1>6, <1>7, <1>8, <2>1, Zenon DEF SessionBytes
<1>10. SizeOf(SessionPayload) = 52
  BY SessionPayloadLayout, Zenon
<1> QED BY <1>1, <1>2, <1>9, <1>10, HelperWrites

\* So does vhid_make_hid_report its header.
ReportHeader(r) ==
  Written(4, {<<0, <<r.report_type>>>>, <<1, <<r.report_id>>>>,
              <<2, LittleEndian(Len(r.data), 2)>>})

LEMMA ReportWrites ==
  ASSUME NEW r \in ReportMessages
  PROVE  ReportHeader(r) = Pack(HidReportHeader, ReportValues(r))
<1>1. IsLayout(HidReportHeader, 3) /\ \A j \in 1..3 : HasValue(HidReportHeader, j, ReportValues(r))
  BY ReportHasValues, HidReportHeaderLayout, Zenon
<1>2. PICK v : v = ReportValues(r)
  OBVIOUS
<1>3. FieldWrite(HidReportHeader, v, 1) = <<0, <<r.report_type>>>>
  <2>1. /\ HidReportHeader[1] = <<"report_type", 1>> /\ Offset(HidReportHeader, 1) = 0
        /\ "report_type" \notin Arrays
    BY HidReportHeaderLayout DEF Arrays
  <2>2. v["report_type"] = r.report_type
    BY <1>2 DEF ReportValues
  <2>3. r.report_type \in Byte
    BY DEF ReportMessages
  <2> QED BY <2>1, <2>2, <2>3, ByteWrite
<1>4. FieldWrite(HidReportHeader, v, 2) = <<1, <<r.report_id>>>>
  <2>1. /\ HidReportHeader[2] = <<"report_id", 1>> /\ Offset(HidReportHeader, 2) = 1
        /\ "report_id" \notin Arrays
    BY HidReportHeaderLayout DEF Arrays
  <2>2. v["report_id"] = r.report_id
    BY <1>2 DEF ReportValues
  <2>3. r.report_id \in Byte
    BY DEF ReportMessages
  <2> QED BY <2>1, <2>2, <2>3, ByteWrite
<1>5. FieldWrite(HidReportHeader, v, 3) = <<2, LittleEndian(Len(r.data), 2)>>
  <2>1. /\ HidReportHeader[3] = <<"data_size", 2>> /\ Offset(HidReportHeader, 3) = 2
        /\ "data_size" \notin Arrays
    BY HidReportHeaderLayout DEF Arrays
  <2>2. v["data_size"] = Len(r.data)
    BY <1>2 DEF ReportValues
  <2> QED BY <2>1, <2>2, NumberWrite
<1>6. ReportHeader(r) = Written(4, {FieldWrite(HidReportHeader, v, i) : i \in 1..3})
  <2>1. {FieldWrite(HidReportHeader, v, i) : i \in 1..3} =
          {FieldWrite(HidReportHeader, v, 1), FieldWrite(HidReportHeader, v, 2),
           FieldWrite(HidReportHeader, v, 3)}
    BY ThreeWrites, Zenon
  <2> QED BY <1>3, <1>4, <1>5, <2>1, Zenon DEF ReportHeader
<1>7. SizeOf(HidReportHeader) = 4
  BY HidReportHeaderLayout, Zenon
<1> QED BY <1>1, <1>2, <1>6, <1>7, HelperWrites

\* And vhid_make_hid_device_add.
AddHeader(r) ==
  Written(16,
    {<<0, LittleEndian(r.vendor_id, 2)>>, <<2, LittleEndian(r.product_id, 2)>>,
     <<4, LittleEndian(r.version_number, 2)>>, <<6, <<r.transport>>>>,
     <<7, <<r.flags>>>>, <<8, LittleEndian(Len(r.descriptor), 2)>>,
     <<10, <<Len(r.product)>>>>, <<11, <<Len(r.manufacturer)>>>>,
     <<12, <<Len(r.serial)>>>>, <<13, <<r.source_input_profile>>>>,
     <<14, <<r.source_output_profile>>>>, <<15, <<0>>>>})

TextSizes(r) == Len(r.product) \in Byte /\ Len(r.manufacturer) \in Byte /\ Len(r.serial) \in Byte

LEMMA AddWrites ==
  ASSUME NEW r \in AddMessages, TextSizes(r)
  PROVE  AddHeader(r) = Pack(HidDeviceAddHeader, AddValues(r))
<1>1. /\ IsLayout(HidDeviceAddHeader, 12)
      /\ \A j \in 1..12 : HasValue(HidDeviceAddHeader, j, AddValues(r))
  BY AddHasValues, HidDeviceAddHeaderLayout, Zenon
<1>2. PICK v : v = AddValues(r)
  OBVIOUS
<1>3. FieldWrite(HidDeviceAddHeader, v, 1) = <<0, LittleEndian(r.vendor_id, 2)>>
  <2>1. /\ HidDeviceAddHeader[1] = <<"vendor_id", 2>> /\ Offset(HidDeviceAddHeader, 1) = 0
        /\ "vendor_id" \notin Arrays
    BY HidDeviceAddHeaderLayout DEF Arrays
  <2>2. v["vendor_id"] = r.vendor_id
    BY <1>2, AddValuesOf
  <2> QED BY <2>1, <2>2, NumberWrite
<1>4. FieldWrite(HidDeviceAddHeader, v, 2) = <<2, LittleEndian(r.product_id, 2)>>
  <2>1. /\ HidDeviceAddHeader[2] = <<"product_id", 2>> /\ Offset(HidDeviceAddHeader, 2) = 2
        /\ "product_id" \notin Arrays
    BY HidDeviceAddHeaderLayout DEF Arrays
  <2>2. v["product_id"] = r.product_id
    BY <1>2, AddValuesOf
  <2> QED BY <2>1, <2>2, NumberWrite
<1>5. FieldWrite(HidDeviceAddHeader, v, 3) = <<4, LittleEndian(r.version_number, 2)>>
  <2>1. /\ HidDeviceAddHeader[3] = <<"version_number", 2>> /\ Offset(HidDeviceAddHeader, 3) = 4
        /\ "version_number" \notin Arrays
    BY HidDeviceAddHeaderLayout DEF Arrays
  <2>2. v["version_number"] = r.version_number
    BY <1>2, AddValuesOf
  <2> QED BY <2>1, <2>2, NumberWrite
<1>6. FieldWrite(HidDeviceAddHeader, v, 4) = <<6, <<r.transport>>>>
  <2>1. /\ HidDeviceAddHeader[4] = <<"transport", 1>> /\ Offset(HidDeviceAddHeader, 4) = 6
        /\ "transport" \notin Arrays
    BY HidDeviceAddHeaderLayout DEF Arrays
  <2>2. v["transport"] = r.transport
    BY <1>2, AddValuesOf
  <2>3. r.transport \in Byte
    BY DEF AddMessages
  <2> QED BY <2>1, <2>2, <2>3, ByteWrite
<1>7. FieldWrite(HidDeviceAddHeader, v, 5) = <<7, <<r.flags>>>>
  <2>1. /\ HidDeviceAddHeader[5] = <<"flags", 1>> /\ Offset(HidDeviceAddHeader, 5) = 7
        /\ "flags" \notin Arrays
    BY HidDeviceAddHeaderLayout DEF Arrays
  <2>2. v["flags"] = r.flags
    BY <1>2, AddValuesOf
  <2>3. r.flags \in Byte
    BY DEF AddMessages
  <2> QED BY <2>1, <2>2, <2>3, ByteWrite
<1>8. FieldWrite(HidDeviceAddHeader, v, 6) = <<8, LittleEndian(Len(r.descriptor), 2)>>
  <2>1. /\ HidDeviceAddHeader[6] = <<"descriptor_size", 2>> /\ Offset(HidDeviceAddHeader, 6) = 8
        /\ "descriptor_size" \notin Arrays
    BY HidDeviceAddHeaderLayout DEF Arrays
  <2>2. v["descriptor_size"] = Len(r.descriptor)
    BY <1>2, AddValuesOf
  <2> QED BY <2>1, <2>2, NumberWrite
<1>9. FieldWrite(HidDeviceAddHeader, v, 7) = <<10, <<Len(r.product)>>>>
  <2>1. /\ HidDeviceAddHeader[7] = <<"product_size", 1>> /\ Offset(HidDeviceAddHeader, 7) = 10
        /\ "product_size" \notin Arrays
    BY HidDeviceAddHeaderLayout DEF Arrays
  <2>2. v["product_size"] = Len(r.product)
    BY <1>2, AddValuesOf
  <2>3. Len(r.product) \in Byte
    BY DEF TextSizes
  <2> QED BY <2>1, <2>2, <2>3, ByteWrite
<1>10. FieldWrite(HidDeviceAddHeader, v, 8) = <<11, <<Len(r.manufacturer)>>>>
  <2>1. /\ HidDeviceAddHeader[8] = <<"manufacturer_size", 1>> /\ Offset(HidDeviceAddHeader, 8) = 11
        /\ "manufacturer_size" \notin Arrays
    BY HidDeviceAddHeaderLayout DEF Arrays
  <2>2. v["manufacturer_size"] = Len(r.manufacturer)
    BY <1>2, AddValuesOf
  <2>3. Len(r.manufacturer) \in Byte
    BY DEF TextSizes
  <2> QED BY <2>1, <2>2, <2>3, ByteWrite
<1>11. FieldWrite(HidDeviceAddHeader, v, 9) = <<12, <<Len(r.serial)>>>>
  <2>1. /\ HidDeviceAddHeader[9] = <<"serial_size", 1>> /\ Offset(HidDeviceAddHeader, 9) = 12
        /\ "serial_size" \notin Arrays
    BY HidDeviceAddHeaderLayout DEF Arrays
  <2>2. v["serial_size"] = Len(r.serial)
    BY <1>2, AddValuesOf
  <2>3. Len(r.serial) \in Byte
    BY DEF TextSizes
  <2> QED BY <2>1, <2>2, <2>3, ByteWrite
<1>12. FieldWrite(HidDeviceAddHeader, v, 10) = <<13, <<r.source_input_profile>>>>
  <2>1. /\ HidDeviceAddHeader[10] = <<"source_input_profile", 1>> /\ Offset(HidDeviceAddHeader, 10) = 13
        /\ "source_input_profile" \notin Arrays
    BY HidDeviceAddHeaderLayout DEF Arrays
  <2>2. v["source_input_profile"] = r.source_input_profile
    BY <1>2, AddValuesOf
  <2>3. r.source_input_profile \in Byte
    BY DEF AddMessages
  <2> QED BY <2>1, <2>2, <2>3, ByteWrite
<1>13. FieldWrite(HidDeviceAddHeader, v, 11) = <<14, <<r.source_output_profile>>>>
  <2>1. /\ HidDeviceAddHeader[11] = <<"source_output_profile", 1>> /\ Offset(HidDeviceAddHeader, 11) = 14
        /\ "source_output_profile" \notin Arrays
    BY HidDeviceAddHeaderLayout DEF Arrays
  <2>2. v["source_output_profile"] = r.source_output_profile
    BY <1>2, AddValuesOf
  <2>3. r.source_output_profile \in Byte
    BY DEF AddMessages
  <2> QED BY <2>1, <2>2, <2>3, ByteWrite
<1>14. FieldWrite(HidDeviceAddHeader, v, 12) = <<15, <<0>>>>
  <2>1. /\ HidDeviceAddHeader[12] = <<"reserved", 1>> /\ Offset(HidDeviceAddHeader, 12) = 15
        /\ "reserved" \notin Arrays
    BY HidDeviceAddHeaderLayout DEF Arrays
  <2>2. v["reserved"] = 0
    BY <1>2, AddValuesOf
  <2>3. 0 \in Byte
    BY DEF Byte
  <2> QED BY <2>1, <2>2, <2>3, ByteWrite
<1>15. AddHeader(r) = Written(16, {FieldWrite(HidDeviceAddHeader, v, i) : i \in 1..12})
  <2>1. {FieldWrite(HidDeviceAddHeader, v, i) : i \in 1..12} =
          {FieldWrite(HidDeviceAddHeader, v, 1), FieldWrite(HidDeviceAddHeader, v, 2),
           FieldWrite(HidDeviceAddHeader, v, 3), FieldWrite(HidDeviceAddHeader, v, 4),
           FieldWrite(HidDeviceAddHeader, v, 5), FieldWrite(HidDeviceAddHeader, v, 6),
           FieldWrite(HidDeviceAddHeader, v, 7), FieldWrite(HidDeviceAddHeader, v, 8),
           FieldWrite(HidDeviceAddHeader, v, 9), FieldWrite(HidDeviceAddHeader, v, 10),
           FieldWrite(HidDeviceAddHeader, v, 11), FieldWrite(HidDeviceAddHeader, v, 12)}
    BY TwelveWrites, Zenon
  <2> QED BY <1>3, <1>4, <1>5, <1>6, <1>7, <1>8, <1>9, <1>10, <1>11, <1>12, <1>13, <1>14, <2>1, Zenon DEF AddHeader
<1>16. SizeOf(HidDeviceAddHeader) = 16
  BY HidDeviceAddHeaderLayout, Zenon
<1> QED BY <1>1, <1>2, <1>15, <1>16, HelperWrites

-----------------------------------------------------------------------------
(* Each message is accepted and read back *)

\* What a payload has to be for the datagram to be accepted and read back.
Good(r, payload) == IsPayload(r.type, payload) /\ ReadBack(r, payload)

\* The payloads that are one struct.
LEMMA StructIsGood ==
  ASSUME NEW struct, NEW n, IsLayout(struct, n), NEW r,
         \A i \in 1..n : HasValue(struct, i, r), NEW payload, payload = Pack(struct, r)
  PROVE  /\ payload \in Seq(Byte) /\ Len(payload) = SizeOf(struct)
         /\ \A i \in DOMAIN struct : struct[i][1] \in {struct[j][1] : j \in DOMAIN struct} =>
              FieldOf(struct, struct[i][1], payload) = FieldBytes(struct[i], r)
<1>1. DOMAIN struct = 1..n
  BY DEF IsLayout
<1> QED BY <1>1, PackIsBytes

LEMMA SessionIsGood ==
  ASSUME NEW r \in SessionMessages, Accepted(r)
  PROVE  Good(r, Pack(SessionPayload, r))
<1>1. PICK payload : payload = Pack(SessionPayload, r)
  OBVIOUS
<1>2. r.kind = "session" /\ r.type \in Byte
  BY DEF SessionMessages
<1>3. r.type \in {1, 2}
  BY <1>2, Zenon DEF Accepted
<1>4. /\ payload \in Seq(Byte) /\ Len(payload) = SizeOf(SessionPayload)
      /\ \A i \in DOMAIN SessionPayload :
           SessionPayload[i][1] \in {SessionPayload[j][1] : j \in DOMAIN SessionPayload} =>
             FieldOf(SessionPayload, SessionPayload[i][1], payload) = FieldBytes(SessionPayload[i], r)
  <2>1. IsLayout(SessionPayload, 6) /\ \A i \in 1..6 : HasValue(SessionPayload, i, r)
    BY SessionHasValues, SessionPayloadLayout, Zenon
  <2> QED BY <1>1, <2>1, StructIsGood
<1>5. IsPayload(r.type, payload)
  <2>1. ~(r.type = 16) /\ ~(r.type \in 32..35) /\ ~(r.type = 48)
    BY <1>3
  <2>2. ExpectedSize(r.type, Len(payload)) = SizeOf(SessionPayload)
    BY <1>2, <1>3, ExpectedSizes
  <2> QED BY <1>4, <2>1, <2>2, Zenon DEF IsPayload
<1>6. ReadBack(r, payload)
  BY <1>2, <1>4, Zenon DEF ReadBack
<1> QED BY <1>1, <1>5, <1>6 DEF Good

LEMMA EmptyIsGood ==
  ASSUME NEW r \in EmptyMessages, Accepted(r)
  PROVE  Good(r, <<>>)
<1>1. r.kind = "empty" /\ r.type \in Byte
  BY DEF EmptyMessages
<1>2. r.type \in {3, 4, 5, 17}
  BY <1>1, Zenon DEF Accepted
<1>3. IsPayload(r.type, <<>>)
  <2>1. ~(r.type = 16) /\ ~(r.type \in 32..35) /\ ~(r.type = 48)
    BY <1>2
  <2>2. ExpectedSize(r.type, Len(<<>>)) = 0
    BY <1>1, <1>2, ExpectedSizes
  <2>3. <<>> \in Seq(Byte) /\ Len(<<>>) = 0
    OBVIOUS
  <2> QED BY <2>1, <2>2, <2>3, Zenon DEF IsPayload
<1>4. ReadBack(r, <<>>)
  BY <1>1, Zenon DEF ReadBack
<1> QED BY <1>3, <1>4 DEF Good

LEMMA DescriptionIsGood ==
  ASSUME NEW r \in DescriptionMessages, InProtocol(r)
  PROVE  Good(r, Pack(DeviceDescription, r))
<1>1. PICK payload : payload = Pack(DeviceDescription, r)
  OBVIOUS
<1>2. r.kind = "description" /\ r.type = 48 /\ r.type \in Byte
  <2>1. r.kind \in {"description"} /\ r.type \in {48}
    BY Zenon DEF DescriptionMessages
  <2>2. 48 \in Byte
    BY DEF Byte
  <2> QED BY <2>1, <2>2, Zenon
<1>3. ValidDeviceDescription(payload)
  BY <1>1, <1>2, Zenon DEF InProtocol
<1>4. /\ payload \in Seq(Byte) /\ Len(payload) = SizeOf(DeviceDescription)
      /\ \A i \in DOMAIN DeviceDescription :
           DeviceDescription[i][1] \in {DeviceDescription[j][1] : j \in DOMAIN DeviceDescription} =>
             FieldOf(DeviceDescription, DeviceDescription[i][1], payload) = FieldBytes(DeviceDescription[i], r)
  <2>1. IsLayout(DeviceDescription, 13) /\ \A i \in 1..13 : HasValue(DeviceDescription, i, r)
    BY DescriptionHasValues, DeviceDescriptionLayout, Zenon
  <2> QED BY <1>1, <2>1, StructIsGood
<1>5. IsPayload(r.type, payload)
  <2>1. ~(r.type = 16) /\ ~(r.type \in 32..35)
    BY <1>2
  <2>2. ExpectedSize(r.type, Len(payload)) = SizeOf(DeviceDescription)
    BY <1>2, ExpectedSizes
  <2> QED BY <1>3, <1>4, <2>1, <2>2, Zenon DEF IsPayload
<1>6. ReadBack(r, payload)
  BY <1>2, <1>4, Zenon DEF ReadBack
<1> QED BY <1>1, <1>5, <1>6 DEF Good

LEMMA StateIsGood ==
  ASSUME NEW r \in StateMessages
  PROVE  Good(r, Pack(InputState, r))
<1>1. PICK payload : payload = Pack(InputState, r)
  OBVIOUS
<1>2. r.kind = "state" /\ r.type = 49 /\ r.type \in Byte
  <2>1. r.kind \in {"state"} /\ r.type \in {49}
    BY Zenon DEF StateMessages
  <2>2. 49 \in Byte
    BY DEF Byte
  <2> QED BY <2>1, <2>2, Zenon
<1>3. /\ payload \in Seq(Byte) /\ Len(payload) = SizeOf(InputState)
      /\ \A i \in DOMAIN InputState :
           InputState[i][1] \in {InputState[j][1] : j \in DOMAIN InputState} =>
             FieldOf(InputState, InputState[i][1], payload) = FieldBytes(InputState[i], r)
  <2>1. IsLayout(InputState, 6) /\ \A i \in 1..6 : HasValue(InputState, i, r)
    BY StateHasValues, InputStateLayout, Zenon
  <2> QED BY <1>1, <2>1, StructIsGood
<1>4. IsPayload(r.type, payload)
  <2>1. ~(r.type = 16) /\ ~(r.type \in 32..35) /\ ~(r.type = 48)
    BY <1>2
  <2>2. ExpectedSize(r.type, Len(payload)) = SizeOf(InputState)
    BY <1>2, ExpectedSizes
  <2> QED BY <1>3, <2>1, <2>2, Zenon DEF IsPayload
<1>5. ReadBack(r, payload)
  BY <1>2, <1>3, Zenon DEF ReadBack
<1> QED BY <1>1, <1>4, <1>5 DEF Good

SameRead(struct, names, payload, r) ==
  \A i \in DOMAIN struct : struct[i][1] \in names =>
    FieldOf(struct, struct[i][1], payload) = FieldBytes(struct[i], r)

Agree(values, r, names) == \A name \in names : values[name] = r[name]
IsValued(struct, n, values) ==
  IsLayout(struct, n) /\ \A i \in 1..n : HasValue(struct, i, values)

\* Fields a helper's caller gives come out as they went in, whatever the values
\* of the struct are called.
LEMMA FieldsAreRead ==
  ASSUME NEW struct, NEW n, NEW values, IsValued(struct, n, values),
         NEW rest \in Seq(Byte), NEW payload, payload = Pack(struct, values) \o rest,
         NEW r, NEW names, Agree(values, r, names)
  PROVE  SameRead(struct, names, payload, r)
<1>1. IsLayout(struct, n) /\ DOMAIN struct = 1..n
  BY DEF IsLayout, IsValued
<1> SUFFICES ASSUME NEW i \in 1..n, struct[i][1] \in names
             PROVE  FieldOf(struct, struct[i][1], payload) = FieldBytes(struct[i], r)
  BY <1>1 DEF SameRead
<1>2. FieldOf(struct, struct[i][1], payload) = FieldBytes(struct[i], values)
  BY <1>1, FieldIsRead DEF IsValued
<1>3. FieldBytes(struct[i], values) = FieldBytes(struct[i], r)
  BY DEF FieldBytes, Agree
<1> QED BY <1>2, <1>3

LEMMA PartIsBytes ==
  ASSUME NEW payload, NEW a \in Nat, NEW part \in Seq(Byte), HasPart(payload, a, part)
  PROVE  Bytes(payload, Span(a, Len(part))) = part
<1>1. Span(a, Len(part)).from = a /\ Span(a, Len(part)).size = Len(part)
  BY DEF Span
<1> QED BY <1>1, Zenon DEF Bytes, HasPart

\* What fits behind the header has a size of two bytes; a text that may be
\* written, of one.
LEMMA FittingSize ==
  ASSUME NEW m \in Nat, NEW n \in Nat, NEW l, l = m + n, 28 + l <= 1400
  PROVE  IsWord(n)
  BY DEF IsWord

LEMMA InByte ==
  ASSUME NEW n \in Nat, n <= 255
  PROVE  n \in Byte
  BY DEF Byte

LEMMA ShortText ==
  ASSUME NEW text \in Seq(Byte), Len(text) <= MaxText
  PROVE  Len(text) \in Byte
<1>1. Len(text) \in Nat /\ Len(text) <= 255
  BY DEF MaxText
<1> QED BY <1>1, InByte

LEMMA ReportFits ==
  ASSUME NEW r \in ReportMessages, Fits(Pack(HidReportHeader, ReportValues(r)) \o r.data)
  PROVE  IsWord(Len(r.data))
<1>1. PICK header : header = Pack(HidReportHeader, ReportValues(r))
  OBVIOUS
<1>2. header \in Seq(Byte)
  <2>1. /\ IsLayout(HidReportHeader, 3)
        /\ \A j \in 1..3 : HasValue(HidReportHeader, j, ReportValues(r))
    BY ReportHasValues, HidReportHeaderLayout, Zenon
  <2> QED BY <1>1, <2>1, PackIsBytes
<1>3. r.data \in Seq(Byte)
  BY DEF ReportMessages
<1>4. Len(header \o r.data) = Len(header) + Len(r.data) /\ Len(header) \in Nat /\ Len(r.data) \in Nat
  BY <1>2, <1>3, JoinIsBytes
<1>5. 28 + Len(header \o r.data) <= 1400
  BY <1>1 DEF Fits, MaxDatagram
<1> QED BY <1>4, <1>5, FittingSize

LEMMA ReportIsGood ==
  ASSUME NEW r \in ReportMessages, Accepted(r), InProtocol(r),
         Fits(Pack(HidReportHeader, ReportValues(r)) \o r.data)
  PROVE  Good(r, Pack(HidReportHeader, ReportValues(r)) \o r.data)
<1>1. PICK payload : payload = Pack(HidReportHeader, ReportValues(r)) \o r.data
  OBVIOUS
<1>2. r.kind = "report" /\ r.type \in Byte /\ r.data \in Seq(Byte)
  BY DEF ReportMessages
<1>3. r.type \in 32..35 /\ r.report_type <= 2
  <2>1. r.type \in 32..35
    BY <1>2, Zenon DEF Accepted
  <2>2. r.report_type <= 2
    BY <1>2, Zenon DEF InProtocol
  <2> QED BY <2>1, <2>2
<1>4. IsWord(Len(r.data))
  BY ReportFits
<1>5. /\ ParseHidReport(payload) = [ok |-> TRUE, data |-> Span(4, Len(r.data))]
      /\ HasPart(payload, 4, r.data)
  BY <1>1, <1>3, <1>4, ReportIsParsed
<1>6. IsLayout(HidReportHeader, 3) /\ \A j \in 1..3 : HasValue(HidReportHeader, j, ReportValues(r))
  BY ReportHasValues, HidReportHeaderLayout, Zenon
<1>7. payload \in Seq(Byte)
  <2>1. Pack(HidReportHeader, ReportValues(r)) \in Seq(Byte)
    BY <1>6, PackIsBytes
  <2> QED BY <1>1, <1>2, <2>1, JoinIsBytes
<1>8. IsPayload(r.type, payload)
  <2>1. ~(r.type = 16) /\ ~(r.type = 48)
    BY <1>3
  <2>2. ExpectedSize(r.type, Len(payload)) = Len(payload)
    BY <1>2, <1>3, ExpectedSizes
  <2>3. ParseHidReport(payload).ok
    BY <1>5
  <2> QED BY <1>7, <2>1, <2>2, <2>3, Zenon DEF IsPayload
<1>9. ReadBack(r, payload)
  <2>1. SameRead(HidReportHeader, {"report_type", "report_id"}, payload, r)
    <3>1. Agree(ReportValues(r), r, {"report_type", "report_id"})
      BY DEF ReportValues, Agree
    <3>2. IsValued(HidReportHeader, 3, ReportValues(r))
      BY <1>6 DEF IsValued
    <3> QED BY <1>1, <1>2, <3>1, <3>2, FieldsAreRead
  <2>2. Bytes(payload, ParseHidReport(payload).data) = r.data
    <3>1. ParseHidReport(payload).data = Span(4, Len(r.data))
      BY <1>5
    <3> QED BY <1>2, <1>5, <3>1, PartIsBytes
  <2> QED BY <1>2, <2>1, <2>2, Zenon DEF ReadBack, SameRead
<1> QED BY <1>1, <1>8, <1>9 DEF Good

LEMMA TextsAreShort ==
  ASSUME NEW r \in AddMessages, Accepted(r)
  PROVE  TextSizes(r) /\ r.descriptor # <<>>
<1>1. r.kind = "add"
  BY DEF AddMessages
<1>2. /\ r.descriptor # <<>>
      /\ \A text \in {r.product, r.manufacturer, r.serial} : Len(text) <= MaxText
  BY <1>1, Zenon DEF Accepted
<1>3. /\ r.product \in Seq(Byte) /\ r.manufacturer \in Seq(Byte) /\ r.serial \in Seq(Byte)
  BY DEF AddMessages
<1>4. /\ Len(r.product) \in Byte /\ Len(r.manufacturer) \in Byte /\ Len(r.serial) \in Byte
  BY <1>2, <1>3, ShortText
<1> QED BY <1>2, <1>4 DEF TextSizes

AddPayload(r) ==
  Pack(HidDeviceAddHeader, AddValues(r)) \o r.descriptor \o r.product \o r.manufacturer \o r.serial

LEMMA AddIsBytes ==
  ASSUME NEW r \in AddMessages, NEW P \in Nat, NEW M \in Nat, NEW S \in Nat,
         P = 16 + Len(r.descriptor), M = P + Len(r.product), S = M + Len(r.manufacturer),
         NEW payload, payload = AddPayload(r)
  PROVE  payload \in Seq(Byte) /\ Len(payload) = S + Len(r.serial)
<1>1. PICK header : header = Pack(HidDeviceAddHeader, AddValues(r))
  OBVIOUS
<1>2. header \in Seq(Byte) /\ 16 = Len(header)
  <2>1. /\ IsLayout(HidDeviceAddHeader, 12)
        /\ \A j \in 1..12 : HasValue(HidDeviceAddHeader, j, AddValues(r))
    BY AddHasValues, HidDeviceAddHeaderLayout, Zenon
  <2>2. SizeOf(HidDeviceAddHeader) = 16
    BY HidDeviceAddHeaderLayout, Zenon
  <2>3. /\ Pack(HidDeviceAddHeader, AddValues(r)) \in Seq(Byte)
        /\ Len(Pack(HidDeviceAddHeader, AddValues(r))) = SizeOf(HidDeviceAddHeader)
    BY <2>1, PackIsBytes
  <2> QED BY <1>1, <2>2, <2>3
<1>3. /\ r.descriptor \in Seq(Byte) /\ r.product \in Seq(Byte)
      /\ r.manufacturer \in Seq(Byte) /\ r.serial \in Seq(Byte)
  BY DEF AddMessages
<1>4. AreFourParts(header \o r.descriptor \o r.product \o r.manufacturer \o r.serial,
                   header, r.descriptor, r.product, r.manufacturer, r.serial, 16, P, M, S)
  <2>1. 16 \in Nat
    OBVIOUS
  <2> QED BY <1>2, <1>3, <2>1, FourParts
<1>5. payload = header \o r.descriptor \o r.product \o r.manufacturer \o r.serial
  BY <1>1, Zenon DEF AddPayload
<1> QED BY <1>4, <1>5, Zenon DEF AreFourParts

LEMMA AddLength ==
  ASSUME NEW r \in AddMessages
  PROVE  /\ AddPayload(r) \in Seq(Byte)
         /\ Len(AddPayload(r)) =
              16 + Len(r.descriptor) + Len(r.product) + Len(r.manufacturer) + Len(r.serial)
<1>1. /\ Len(r.descriptor) \in Nat /\ Len(r.product) \in Nat
      /\ Len(r.manufacturer) \in Nat /\ Len(r.serial) \in Nat
  BY DEF AddMessages
<1>2. PICK P \in Nat : P = 16 + Len(r.descriptor)
  BY <1>1
<1>3. PICK M \in Nat : M = P + Len(r.product)
  BY <1>1
<1>4. PICK S \in Nat : S = M + Len(r.manufacturer)
  BY <1>1
<1>5. AddPayload(r) \in Seq(Byte) /\ Len(AddPayload(r)) = S + Len(r.serial)
  BY <1>2, <1>3, <1>4, AddIsBytes, ZenonT(60)
<1>6. S + Len(r.serial) =
        16 + Len(r.descriptor) + Len(r.product) + Len(r.manufacturer) + Len(r.serial)
  BY <1>2, <1>3, <1>4
<1> QED BY <1>5, <1>6, Zenon

LEMMA AddFits ==
  ASSUME NEW r \in AddMessages, Accepted(r), Fits(AddPayload(r))
  PROVE  SizesOf(r)
<1>1. TextSizes(r) /\ r.descriptor # <<>>
  BY TextsAreShort
<1>2. /\ r.descriptor \in Seq(Byte) /\ r.product \in Seq(Byte)
      /\ r.manufacturer \in Seq(Byte) /\ r.serial \in Seq(Byte)
  BY DEF AddMessages
<1>3. PICK d \in Nat : d = Len(r.descriptor)
  BY <1>2
<1>4. PICK p \in Nat : p = Len(r.product)
  BY <1>2
<1>5. PICK m \in Nat : m = Len(r.manufacturer)
  BY <1>2
<1>6. PICK s \in Nat : s = Len(r.serial)
  BY <1>2
<1>7. Len(AddPayload(r)) = 16 + d + p + m + s
  <2>1. Len(AddPayload(r)) =
          16 + Len(r.descriptor) + Len(r.product) + Len(r.manufacturer) + Len(r.serial)
    BY AddLength, Zenon
  <2> QED BY <1>3, <1>4, <1>5, <1>6, <2>1
<1>8. 28 + Len(AddPayload(r)) <= 1400
  BY DEF Fits, MaxDatagram
<1>9. IsWord(d)
  <2>1. PICK rest \in Nat : rest = 16 + p + m + s
    OBVIOUS
  <2>2. PICK l : l = Len(AddPayload(r))
    OBVIOUS
  <2>3. l = rest + d /\ 28 + l <= 1400
    BY <1>7, <1>8, <2>1, <2>2
  <2> QED BY <2>3, FittingSize
<1>10. d # 0
  BY <1>1, <1>2, <1>3
<1> QED BY <1>1, <1>3, <1>9, <1>10 DEF SizesOf, TextSizes

AddNames == {"vendor_id", "product_id", "version_number", "transport", "flags",
             "source_input_profile", "source_output_profile"}

LEMMA AddFieldsAreRead ==
  ASSUME NEW r \in AddMessages, NEW rest \in Seq(Byte), NEW payload,
         payload = Pack(HidDeviceAddHeader, AddValues(r)) \o rest
  PROVE  SameRead(HidDeviceAddHeader, AddNames, payload, r)
<1>1. Agree(AddValues(r), r, AddNames)
  BY AddValuesOf DEF AddNames, Agree
<1>2. IsValued(HidDeviceAddHeader, 12, AddValues(r))
  BY AddHasValues, HidDeviceAddHeaderLayout, Zenon DEF IsValued
<1> QED BY <1>1, <1>2, FieldsAreRead

LEMMA AddIsGood ==
  ASSUME NEW r \in AddMessages, Accepted(r), InProtocol(r), Fits(AddPayload(r))
  PROVE  Good(r, AddPayload(r))
<1>1. PICK payload : payload = AddPayload(r)
  OBVIOUS
<1>2. r.kind = "add" /\ r.type = 16 /\ r.type \in Byte
  BY DEF AddMessages, Byte
<1>3. r.transport <= 4 /\ r.source_output_profile \in 0..6 \cup {255}
  BY <1>2, Zenon DEF InProtocol
<1>4. /\ r.descriptor \in Seq(Byte) /\ r.product \in Seq(Byte)
      /\ r.manufacturer \in Seq(Byte) /\ r.serial \in Seq(Byte)
  BY DEF AddMessages
<1>5. PICK P \in Nat : P = 16 + Len(r.descriptor)
  BY <1>4
<1>6. PICK M \in Nat : M = P + Len(r.product)
  BY <1>4
<1>7. PICK S \in Nat : S = M + Len(r.manufacturer)
  BY <1>4
<1>8. payload = Pack(HidDeviceAddHeader, AddValues(r))
                  \o r.descriptor \o r.product \o r.manufacturer \o r.serial
  BY <1>1, Zenon DEF AddPayload
<1>9. payload \in Seq(Byte)
  BY <1>1, AddLength
<1>10. IsAdd(r, payload, P, M, S)
  <2>1. SizesOf(r)
    BY <1>1, AddFits
  <2> QED BY <1>3, <1>5, <1>6, <1>7, <1>8, <2>1, Zenon DEF IsAdd
<1>11. PICK parsed : parsed =
         [ok |-> TRUE, descriptor |-> Span(16, Len(r.descriptor)),
          product |-> Span(P, Len(r.product)), manufacturer |-> Span(M, Len(r.manufacturer)),
          serial |-> Span(S, Len(r.serial))]
  OBVIOUS
<1>12. /\ ParseHidDeviceAdd(payload) = parsed
       /\ HasPart(payload, 16, r.descriptor) /\ HasPart(payload, P, r.product)
       /\ HasPart(payload, M, r.manufacturer) /\ HasPart(payload, S, r.serial)
       /\ \E rest \in Seq(Byte) : payload = Pack(HidDeviceAddHeader, AddValues(r)) \o rest
  BY <1>10, <1>11, AddIsParsed
<1>13. IsPayload(r.type, payload)
  <2>1. ~(r.type \in 32..35) /\ ~(r.type = 48)
    BY <1>2
  <2>2. ExpectedSize(r.type, Len(payload)) = Len(payload)
    BY <1>2, ExpectedSizes
  <2>3. ParseHidDeviceAdd(payload).ok
    BY <1>11, <1>12
  <2> QED BY <1>9, <2>1, <2>2, <2>3, Zenon DEF IsPayload
<1>14. SameRead(HidDeviceAddHeader, AddNames, payload, r)
  BY <1>12, AddFieldsAreRead
<1>15. \A part \in {"descriptor", "product", "manufacturer", "serial"} :
         Bytes(payload, parsed[part]) = r[part]
  <2>1. Bytes(payload, parsed["descriptor"]) = r["descriptor"]
    <3>1. Bytes(payload, Span(16, Len(r.descriptor))) = r.descriptor
      BY <1>4, <1>12, PartIsBytes
    <3> QED BY <1>11, <3>1
  <2>2. Bytes(payload, parsed["product"]) = r["product"]
    <3>1. Bytes(payload, Span(P, Len(r.product))) = r.product
      BY <1>4, <1>12, PartIsBytes
    <3> QED BY <1>11, <3>1
  <2>3. Bytes(payload, parsed["manufacturer"]) = r["manufacturer"]
    <3>1. Bytes(payload, Span(M, Len(r.manufacturer))) = r.manufacturer
      BY <1>4, <1>12, PartIsBytes
    <3> QED BY <1>11, <3>1
  <2>4. Bytes(payload, parsed["serial"]) = r["serial"]
    <3>1. Bytes(payload, Span(S, Len(r.serial))) = r.serial
      BY <1>4, <1>12, PartIsBytes
    <3> QED BY <1>11, <3>1
  <2> QED BY <2>1, <2>2, <2>3, <2>4
<1>16. ReadBack(r, payload)
  BY <1>2, <1>12, <1>14, <1>15, Zenon DEF ReadBack, SameRead, AddNames
<1> QED BY <1>1, <1>13, <1>16 DEF Good

-----------------------------------------------------------------------------
(* All messages *)

Typed(r) ==
  \/ r \in SessionMessages \/ r \in EmptyMessages \/ r \in AddMessages
  \/ r \in ReportMessages \/ r \in DescriptionMessages \/ r \in StateMessages

\* The payload of a message of each kind.
LEMMA PayloadOfKind ==
  ASSUME NEW r
  PROVE  /\ r \in SessionMessages => r.kind = "session" /\ MadePayload(r) = Pack(SessionPayload, r)
         /\ r \in EmptyMessages => r.kind = "empty" /\ MadePayload(r) = <<>>
         /\ r \in AddMessages => r.kind = "add" /\ MadePayload(r) = AddPayload(r)
         /\ r \in ReportMessages => r.kind = "report" /\ MadePayload(r) = Pack(HidReportHeader, ReportValues(r)) \o r.data
         /\ r \in DescriptionMessages => r.kind = "description" /\ MadePayload(r) = Pack(DeviceDescription, r)
         /\ r \in StateMessages => r.kind = "state" /\ MadePayload(r) = Pack(InputState, r)
<1>1. ASSUME r \in SessionMessages PROVE r.kind = "session" /\ MadePayload(r) = Pack(SessionPayload, r)
  <2>1. r.kind \in {"session"}
    BY <1>1, Zenon DEF SessionMessages
  <2>2. r.kind = "session"
    BY <2>1
  <2> QED BY <2>2, Zenon DEF MadePayload
<1>2. ASSUME r \in EmptyMessages PROVE r.kind = "empty" /\ MadePayload(r) = <<>>
  <2>1. r.kind \in {"empty"}
    BY <1>2, Zenon DEF EmptyMessages
  <2>2. r.kind = "empty"
    BY <2>1
  <2> QED BY <2>2, Zenon DEF MadePayload
<1>3. ASSUME r \in AddMessages PROVE r.kind = "add" /\ MadePayload(r) = AddPayload(r)
  <2>1. r.kind \in {"add"}
    BY <1>3, Zenon DEF AddMessages
  <2>2. r.kind = "add"
    BY <2>1
  <2> QED BY <2>2, Zenon DEF MadePayload, AddPayload
<1>4. ASSUME r \in ReportMessages PROVE r.kind = "report" /\ MadePayload(r) = Pack(HidReportHeader, ReportValues(r)) \o r.data
  <2>1. r.kind \in {"report"}
    BY <1>4, Zenon DEF ReportMessages
  <2>2. r.kind = "report"
    BY <2>1
  <2> QED BY <2>2, Zenon DEF MadePayload
<1>5. ASSUME r \in DescriptionMessages PROVE r.kind = "description" /\ MadePayload(r) = Pack(DeviceDescription, r)
  <2>1. r.kind \in {"description"}
    BY <1>5, Zenon DEF DescriptionMessages
  <2>2. r.kind = "description"
    BY <2>1
  <2> QED BY <2>2, Zenon DEF MadePayload
<1>6. ASSUME r \in StateMessages PROVE r.kind = "state" /\ MadePayload(r) = Pack(InputState, r)
  <2>1. r.kind \in {"state"}
    BY <1>6, Zenon DEF StateMessages
  <2>2. r.kind = "state"
    BY <2>1
  <2> QED BY <2>2, Zenon DEF MadePayload
<1> QED BY <1>1, <1>2, <1>3, <1>4, <1>5, <1>6, Zenon

LEMMA TypeIsByte ==
  ASSUME NEW r, Typed(r)
  PROVE  r.type \in Byte
<1>1. 16 \in Byte /\ 48 \in Byte /\ 49 \in Byte
  BY DEF Byte
<1>2. CASE r \in SessionMessages
  BY <1>1, <1>2 DEF SessionMessages
<1>3. CASE r \in EmptyMessages
  BY <1>1, <1>3 DEF EmptyMessages
<1>4. CASE r \in AddMessages
  BY <1>1, <1>4 DEF AddMessages
<1>5. CASE r \in ReportMessages
  BY <1>1, <1>5 DEF ReportMessages
<1>6. CASE r \in DescriptionMessages
  BY <1>1, <1>6 DEF DescriptionMessages
<1>7. CASE r \in StateMessages
  BY <1>1, <1>7 DEF StateMessages
<1> QED BY <1>2, <1>3, <1>4, <1>5, <1>6, <1>7, Zenon DEF Typed

LEMMA MadePayloadIsBytes ==
  ASSUME NEW r, Typed(r)
  PROVE  MadePayload(r) \in Seq(Byte)
<1>1. CASE r \in SessionMessages
  <2>1. MadePayload(r) = Pack(SessionPayload, r)
    BY <1>1, PayloadOfKind, Zenon
  <2>2. IsLayout(SessionPayload, 6) /\ \A i \in 1..6 : HasValue(SessionPayload, i, r)
    BY <1>1, SessionHasValues, SessionPayloadLayout, Zenon
  <2>3. Pack(SessionPayload, r) \in Seq(Byte)
    BY <2>2, PackIsBytes
  <2> QED BY <2>1, <2>3, Zenon
<1>2. CASE r \in EmptyMessages
  <2>1. MadePayload(r) = <<>>
    BY <1>2, PayloadOfKind, Zenon
  <2> QED BY <2>1
<1>3. CASE r \in AddMessages
  <2>1. MadePayload(r) = AddPayload(r)
    BY <1>3, PayloadOfKind, Zenon
  <2>2. AddPayload(r) \in Seq(Byte)
    BY <1>3, AddLength, Zenon
  <2> QED BY <2>1, <2>2, Zenon
<1>4. CASE r \in ReportMessages
  <2>1. MadePayload(r) = Pack(HidReportHeader, ReportValues(r)) \o r.data
    BY <1>4, PayloadOfKind, Zenon
  <2>2. /\ IsLayout(HidReportHeader, 3)
        /\ \A i \in 1..3 : HasValue(HidReportHeader, i, ReportValues(r))
    BY <1>4, ReportHasValues, HidReportHeaderLayout, Zenon
  <2>3. Pack(HidReportHeader, ReportValues(r)) \in Seq(Byte)
    BY <2>2, PackIsBytes
  <2>4. r.data \in Seq(Byte)
    BY <1>4 DEF ReportMessages
  <2>5. Pack(HidReportHeader, ReportValues(r)) \o r.data \in Seq(Byte)
    BY <2>3, <2>4, JoinIsBytes
  <2> QED BY <2>1, <2>5, Zenon
<1>5. CASE r \in DescriptionMessages
  <2>1. MadePayload(r) = Pack(DeviceDescription, r)
    BY <1>5, PayloadOfKind, Zenon
  <2>2. IsLayout(DeviceDescription, 13) /\ \A i \in 1..13 : HasValue(DeviceDescription, i, r)
    BY <1>5, DescriptionHasValues, DeviceDescriptionLayout, Zenon
  <2>3. Pack(DeviceDescription, r) \in Seq(Byte)
    BY <2>2, PackIsBytes
  <2> QED BY <2>1, <2>3, Zenon
<1>6. CASE r \in StateMessages
  <2>1. MadePayload(r) = Pack(InputState, r)
    BY <1>6, PayloadOfKind, Zenon
  <2>2. IsLayout(InputState, 6) /\ \A i \in 1..6 : HasValue(InputState, i, r)
    BY <1>6, StateHasValues, InputStateLayout, Zenon
  <2>3. Pack(InputState, r) \in Seq(Byte)
    BY <2>2, PackIsBytes
  <2> QED BY <2>1, <2>3, Zenon
<1> QED BY <1>1, <1>2, <1>3, <1>4, <1>5, <1>6, Zenon DEF Typed

\* What either side writes from arguments the protocol allows is accepted and read back.
LEMMA MadeIsGood ==
  ASSUME NEW r, Typed(r), Accepted(r), InProtocol(r), Fits(MadePayload(r))
  PROVE  Good(r, MadePayload(r))
<1>1. CASE r \in SessionMessages
  <2>1. MadePayload(r) = Pack(SessionPayload, r)
    BY <1>1, PayloadOfKind, Zenon
  <2>2. Good(r, Pack(SessionPayload, r))
    BY <1>1, SessionIsGood, Zenon
  <2> QED BY <2>1, <2>2, Zenon
<1>2. CASE r \in EmptyMessages
  <2>1. MadePayload(r) = <<>>
    BY <1>2, PayloadOfKind, Zenon
  <2>2. Good(r, <<>>)
    BY <1>2, EmptyIsGood, Zenon
  <2> QED BY <2>1, <2>2, Zenon
<1>3. CASE r \in AddMessages
  <2>1. MadePayload(r) = AddPayload(r)
    BY <1>3, PayloadOfKind, Zenon
  <2>2. Fits(AddPayload(r))
    BY <2>1, Zenon
  <2>3. Good(r, AddPayload(r))
    BY <1>3, <2>2, AddIsGood, Zenon
  <2> QED BY <2>1, <2>3, Zenon
<1>4. CASE r \in ReportMessages
  <2>1. MadePayload(r) = Pack(HidReportHeader, ReportValues(r)) \o r.data
    BY <1>4, PayloadOfKind, Zenon
  <2>2. Fits(Pack(HidReportHeader, ReportValues(r)) \o r.data)
    BY <2>1, Zenon
  <2>3. Good(r, Pack(HidReportHeader, ReportValues(r)) \o r.data)
    BY <1>4, <2>2, ReportIsGood, Zenon
  <2> QED BY <2>1, <2>3, Zenon
<1>5. CASE r \in DescriptionMessages
  <2>1. MadePayload(r) = Pack(DeviceDescription, r)
    BY <1>5, PayloadOfKind, Zenon
  <2>2. Good(r, Pack(DeviceDescription, r))
    BY <1>5, DescriptionIsGood, Zenon
  <2> QED BY <2>1, <2>2, Zenon
<1>6. CASE r \in StateMessages
  <2>1. MadePayload(r) = Pack(InputState, r)
    BY <1>6, PayloadOfKind, Zenon
  <2>2. Good(r, Pack(InputState, r))
    BY <1>6, StateIsGood, Zenon
  <2> QED BY <2>1, <2>2, Zenon
<1> QED BY <1>1, <1>2, <1>3, <1>4, <1>5, <1>6, Zenon DEF Typed

LEMMA DeviceIsNumber ==
  ASSUME NEW r
  PROVE  DeviceOf(r) \in Nat
  BY WireAssumption DEF WireAssumption, DeviceOf

\* What WhatIsSentIsRead says of a datagram and the message it was written for.
IsRead(r, bytes, number) ==
  \E message \in {ParseMessage(bytes)} :
    /\ message.ok /\ message.type = r.type
    /\ message.sequence = LittleEndian(number, 4)
    /\ message.device_id = LittleEndian(DeviceOf(r), 4)
    /\ ReadBack(r, message.payload)

LEMMA MadeIsRead ==
  ASSUME NEW r, Typed(r), next_sequence \in Nat
  PROVE  /\ Made(r) \in Seq(Byte)
         /\ Made(r) # <<>> /\ InProtocol(r) => IsRead(r, Made(r), next_sequence)
<1>1. PICK payload : payload = MadePayload(r)
  OBVIOUS
<1>2. r.type \in Byte /\ DeviceOf(r) \in Nat /\ payload \in Seq(Byte)
  BY <1>1, TypeIsByte, DeviceIsNumber, MadePayloadIsBytes
<1>3. PICK header : header = Pack(MessageHeader, HeaderValues(DeviceOf(r), r.type, Len(payload)))
  OBVIOUS
<1>4. Made(r) = IF Accepted(r) /\ Fits(payload) THEN header \o payload ELSE <<>>
  BY <1>1, <1>3, MadeIs, Zenon
<1>5. Made(r) \in Seq(Byte)
  <2>1. header \in Seq(Byte)
    <3>1. Len(payload) \in Nat
      BY <1>2
    <3> QED BY <1>2, <1>3, <3>1, HeaderIsRead
  <2>2. header \o payload \in Seq(Byte) /\ <<>> \in Seq(Byte)
    BY <1>2, <2>1, JoinIsBytes
  <2> QED BY <1>4, <2>2, Zenon
<1>6. ASSUME Made(r) # <<>>, InProtocol(r)
      PROVE  IsRead(r, Made(r), next_sequence)
  <2>1. Accepted(r) /\ Fits(payload) /\ Made(r) = header \o payload
    BY <1>4, <1>6, Zenon
  <2>2. IsPayload(r.type, payload) /\ ReadBack(r, payload)
    BY <1>1, <1>6, <2>1, MadeIsGood, Zenon DEF Good
  <2>3. PICK bytes : bytes = Pack(MessageHeader, HeaderValues(DeviceOf(r), r.type, Len(payload))) \o payload
    OBVIOUS
  <2>4. ParseMessage(bytes) =
          [ok |-> TRUE, type |-> r.type, payload |-> payload,
           device_id |-> LittleEndian(DeviceOf(r), 4),
           sequence |-> LittleEndian(next_sequence, 4)]
    BY <1>2, <2>1, <2>2, <2>3, MessageIsParsed
  <2>5. IsRead(r, bytes, next_sequence)
    BY <2>2, <2>4 DEF IsRead
  <2> QED BY <1>3, <2>1, <2>3, <2>5, Zenon
<1> QED BY <1>5, <1>6

HelperPayload(r) ==
  CASE r.kind = "session" -> SessionBytes(r)
    [] r.kind = "add"     -> AddBytes(r)
    [] r.kind = "report"  -> ReportBytes(r)
    [] r.kind = "empty"   -> <<>>

HasHelper(r) ==
  r \in SessionMessages \/ r \in EmptyMessages \/ r \in AddMessages \/ r \in ReportMessages

LEMMA HelperPayloadIsMade ==
  ASSUME NEW r, HasHelper(r), Accepted(r)
  PROVE  HelperPayload(r) = MadePayload(r)
<1>1. CASE r \in SessionMessages
  <2>1. r.kind = "session" /\ MadePayload(r) = Pack(SessionPayload, r)
    BY <1>1, PayloadOfKind, Zenon
  <2>2. HelperPayload(r) = SessionBytes(r)
    BY <2>1, Zenon DEF HelperPayload
  <2> QED BY <1>1, <2>1, <2>2, SessionWrites, Zenon
<1>2. CASE r \in EmptyMessages
  <2>1. r.kind = "empty" /\ MadePayload(r) = <<>>
    BY <1>2, PayloadOfKind, Zenon
  <2> QED BY <2>1, Zenon DEF HelperPayload
<1>3. CASE r \in ReportMessages
  <2>1. r.kind = "report" /\ MadePayload(r) = Pack(HidReportHeader, ReportValues(r)) \o r.data
    BY <1>3, PayloadOfKind, Zenon
  <2>2. HelperPayload(r) = ReportBytes(r)
    BY <2>1, Zenon DEF HelperPayload
  <2>3. ReportBytes(r) = ReportHeader(r) \o r.data
    BY Zenon DEF ReportBytes, ReportHeader
  <2>4. ReportHeader(r) = Pack(HidReportHeader, ReportValues(r))
    BY <1>3, ReportWrites, Zenon
  <2> QED BY <2>1, <2>2, <2>3, <2>4, Zenon
<1>4. CASE r \in AddMessages
  <2>1. r.kind = "add" /\ MadePayload(r) = AddPayload(r)
    BY <1>4, PayloadOfKind, Zenon
  <2>2. HelperPayload(r) = AddBytes(r)
    BY <2>1, Zenon DEF HelperPayload
  <2>3. AddBytes(r) = AddHeader(r) \o r.descriptor \o r.product \o r.manufacturer \o r.serial
    BY Zenon DEF AddBytes, AddHeader
  <2>4. TextSizes(r)
    BY <1>4, TextsAreShort, Zenon
  <2>5. AddHeader(r) = Pack(HidDeviceAddHeader, AddValues(r))
    BY <1>4, <2>4, AddWrites, Zenon
  <2> QED BY <2>1, <2>2, <2>3, <2>5, Zenon DEF AddPayload
<1> QED BY <1>1, <1>2, <1>3, <1>4, Zenon DEF HasHelper

\* The C helper for a message and the C++ function write the same bytes, or both
\* refuse.
LEMMA HelperIsMade ==
  ASSUME NEW r, HasHelper(r), next_sequence \in Nat
  PROVE  Helper(r) = Made(r)
<1>1. PICK payload : payload = HelperPayload(r)
  OBVIOUS
<1>2. Helper(r) = IF Accepted(r) /\ Fits(payload)
                  THEN Begin(DeviceOf(r), r.type, Len(payload)) \o payload ELSE <<>>
  <2>1. r.kind = "session" \/ r.kind = "empty" \/ r.kind = "add" \/ r.kind = "report"
    BY PayloadOfKind, Zenon DEF HasHelper
  <2>2. CASE r.kind = "session"
    BY <1>1, <2>2, Zenon DEF Helper, HelperPayload
  <2>3. CASE r.kind = "empty"
    BY <1>1, <2>3, Zenon DEF Helper, HelperPayload
  <2>4. CASE r.kind = "add"
    BY <1>1, <2>4, Zenon DEF Helper, HelperPayload
  <2>5. CASE r.kind = "report"
    BY <1>1, <2>5, Zenon DEF Helper, HelperPayload
  <2> QED BY <2>1, <2>2, <2>3, <2>4, <2>5, Zenon
<1>3. CASE ~Accepted(r)
  BY <1>2, <1>3, MadeIs, Zenon
<1>4. CASE Accepted(r)
  <2>1. payload = MadePayload(r)
    BY <1>1, <1>4, HelperPayloadIsMade, Zenon
  <2>2. Typed(r)
    BY Zenon DEF HasHelper, Typed
  <2>3. r.type \in Byte /\ DeviceOf(r) \in Nat /\ payload \in Seq(Byte)
    BY <2>1, <2>2, TypeIsByte, DeviceIsNumber, MadePayloadIsBytes, Zenon
  <2>4. Len(payload) \in Nat
    BY <2>3
  <2>5. Begin(DeviceOf(r), r.type, Len(payload)) =
          Pack(MessageHeader, HeaderValues(DeviceOf(r), r.type, Len(payload)))
    BY <2>3, <2>4, BeginWrites, Zenon
  <2> QED BY <1>2, <2>1, <2>5, MadeIs, Zenon
<1> QED BY <1>3, <1>4, Zenon

-----------------------------------------------------------------------------
(* The theorems *)

\* What the wire carries is bytes, and senders count.
WireTypeOK == next_sequence \in Nat /\ datagram \in Seq(Byte)

WireInv == WireTypeOK /\ WhatIsSentIsRead

\* The C helper and the C++ function of a message write the same.
SidesAgree == \A r \in Requests : HasHelper(r) => Helper(r) = Made(r)

LEMMA RequestsAreTyped ==
  ASSUME NEW r \in Requests
  PROVE  /\ Typed(r)
         /\ ~(r.kind \in {"description", "state"}) => HasHelper(r)
<1>1. Typed(r)
  BY WireAssumption, Zenon DEF WireAssumption, Typed
<1>2. ASSUME ~(r.kind \in {"description", "state"}) PROVE HasHelper(r)
  BY <1>1, <1>2, PayloadOfKind, Zenon DEF Typed, HasHelper
<1> QED BY <1>1, <1>2

\* A program's datagram is what make_message makes of its message.
LEMMA WrittenIsMade ==
  ASSUME NEW r \in Requests, next_sequence \in Nat, Write(r)
  PROVE  datagram' = Made(r)
<1>1. CASE r.kind \in {"description", "state"}
  BY <1>1, Zenon DEF Write
<1>2. CASE ~(r.kind \in {"description", "state"})
  <2>1. HasHelper(r)
    BY <1>2, RequestsAreTyped, Zenon
  <2>2. Helper(r) = Made(r)
    BY <2>1, HelperIsMade, Zenon
  <2>3. datagram' = Helper(r) \/ datagram' = Made(r)
    BY <1>2, Zenon DEF Write
  <2> QED BY <2>2, <2>3
<1> QED BY <1>1, <1>2

LEMMA ForeignIsBytes ==
  ASSUME datagram \in Seq(Byte), Foreign
  PROVE  datagram' \in Seq(Byte)
<1>1. ForeignBytes \subseteq Byte
  BY WireAssumption DEF WireAssumption
<1>2. CASE \E i \in DOMAIN datagram, b \in ForeignBytes : datagram' = [datagram EXCEPT ![i] = b]
  BY <1>1, <1>2
<1>3. CASE \E i \in 1..(Len(datagram) - 1) : datagram' = SubSeq(datagram, 1, i)
  BY <1>3
<1>4. CASE \E b \in ForeignBytes : datagram' = Append(datagram, b)
  BY <1>1, <1>4
<1> QED BY <1>2, <1>3, <1>4, Zenon DEF Foreign

LEMMA WireInvInit == WireInit => WireInv
<1> SUFFICES ASSUME WireInit PROVE WireInv
  OBVIOUS
<1>1. next_sequence = 0 /\ datagram = <<>>
  BY DEF WireInit
<1>2. WhatIsSentIsRead
  BY <1>1, Zenon DEF WhatIsSentIsRead
<1> QED BY <1>1, <1>2 DEF WireInv, WireTypeOK

LEMMA WireInvStep == WireInv /\ [WireNext]_wireVars => WireInv'
<1> SUFFICES ASSUME WireInv, [WireNext]_wireVars PROVE WireInv'
  OBVIOUS
<1>1. next_sequence \in Nat /\ datagram \in Seq(Byte)
  BY DEF WireInv, WireTypeOK
<1>2. ASSUME NEW r \in Requests, Write(r) PROVE WireInv'
  <2>1. Typed(r)
    BY RequestsAreTyped
  <2>2. datagram' = Made(r)
    BY <1>1, <1>2, WrittenIsMade
  <2>3. /\ Made(r) \in Seq(Byte)
        /\ Made(r) # <<>> /\ InProtocol(r) => IsRead(r, Made(r), next_sequence)
    BY <1>1, <2>1, MadeIsRead
  <2>4. /\ request' = r
        /\ next_sequence' = IF datagram' = <<>> THEN next_sequence ELSE next_sequence + 1
    BY <1>2, Zenon DEF Write
  <2>5. WireTypeOK'
    BY <1>1, <2>2, <2>3, <2>4 DEF WireTypeOK
  <2>6. WhatIsSentIsRead'
    <3>1. CASE datagram' = <<>>
      BY <3>1, Zenon DEF WhatIsSentIsRead
    <3>2. CASE datagram' # <<>>
      <4>1. next_sequence' - 1 = next_sequence
        BY <1>1, <2>4, <3>2
      <4>2. InProtocol(r) => IsRead(request', datagram', next_sequence' - 1)
        BY <2>2, <2>3, <2>4, <3>2, <4>1, Zenon
      <4> QED BY <2>4, <4>2, Zenon DEF WhatIsSentIsRead, IsRead
    <3> QED BY <3>1, <3>2
  <2> QED BY <2>5, <2>6 DEF WireInv
<1>3. ASSUME Foreign PROVE WireInv'
  <2>1. foreign' = TRUE /\ next_sequence' = next_sequence
    BY <1>3, Zenon DEF Foreign
  <2>2. WireTypeOK'
    BY <1>1, <1>3, <2>1, ForeignIsBytes DEF WireTypeOK
  <2>3. WhatIsSentIsRead'
    BY <2>1, Zenon DEF WhatIsSentIsRead
  <2> QED BY <2>2, <2>3 DEF WireInv
<1>4. CASE UNCHANGED wireVars
  <2>1. /\ next_sequence' = next_sequence /\ request' = request
        /\ datagram' = datagram /\ foreign' = foreign
    BY <1>4 DEF wireVars
  <2>2. WireTypeOK'
    BY <1>1, <2>1 DEF WireTypeOK
  <2>3. WhatIsSentIsRead'
    BY <2>1, Zenon DEF WireInv, WhatIsSentIsRead
  <2> QED BY <2>2, <2>3 DEF WireInv
<1> QED BY <1>2, <1>3, <1>4 DEF WireNext

\* The inductive invariant: what arrived is bytes, and of what arrived unchanged
\* the bridge reads what the program asked for.
THEOREM WireInvariant == WireSpec => []WireInv
  BY WireInvInit, WireInvStep, PTL DEF WireSpec

\* What a program sends from arguments the protocol allows is accepted by
\* parse_message and every field, text and report of it comes out as it went in,
\* under the next number of the sender, whatever the arguments are: every
\* vendor, every descriptor and text that fits, every name and state.
THEOREM WhatIsSentIsReadAlways == WireSpec => []WhatIsSentIsRead
<1>1. WireInv => WhatIsSentIsRead
  BY DEF WireInv
<1> QED BY <1>1, WireInvariant, PTL

\* Whatever sequence of bytes arrives, consume_udp reads the payload of an
\* accepted message from its first byte to its last, each once.
THEOREM PayloadIsReadOnceAlways == WireSpec => []PayloadIsReadOnce
<1>1. WireInv => PayloadIsReadOnce
  BY PayloadOfAnyDatagram DEF WireInv, WireTypeOK
<1> QED BY <1>1, WireInvariant, PTL

\* The helpers of wire.h, which write every field at an offset of their own, and
\* the functions of protocol.cpp, which write packed structs, produce the same
\* datagram for the same message, or refuse it alike.
THEOREM SidesAgreeAlways == WireSpec => []SidesAgree
<1>1. WireInv => SidesAgree
  <2>1. ASSUME WireInv, NEW r \in Requests, HasHelper(r) PROVE Helper(r) = Made(r)
    BY <2>1, HelperIsMade DEF WireInv, WireTypeOK
  <2> QED BY <2>1 DEF SidesAgree
<1> QED BY <1>1, WireInvariant, PTL

=============================================================================
