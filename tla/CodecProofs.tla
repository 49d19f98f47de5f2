----------------------------- MODULE CodecProofs -----------------------------
(***************************************************************************)
(* Proofs about Codec, for packages of any length, sizes of up to 64 bits  *)
(* and varints of up to one byte, and about Archive, for values of any     *)
(* type: the leaves first, then what each kind of container adds, and the  *)
(* types themselves by induction on how deep they are nested.              *)
(***************************************************************************)
EXTENDS Archive, SequenceTheorems, FiniteSetTheorems, WellFoundedInduction, TLAPS

-----------------------------------------------------------------------------
\* Taking a byte off a number, and putting it back.
LEMMA SplitByte ==
  ASSUME NEW n \in Nat
  PROVE  n \div 256 \in Nat /\ n % 256 \in Byte /\ n = (n % 256) + 256 * (n \div 256)
BY DEF Byte

Joins(b, n, sum) == sum \in Nat /\ sum % 256 = b /\ sum \div 256 = n

LEMMA JoinByte ==
  ASSUME NEW b \in Byte, NEW n \in Nat
  PROVE  Joins(b, n, b + 256 * n)
BY DEF Byte, Joins

\* Each byte of a register is what its shift leaves over.
LEMMA ShiftsSplit ==
  ASSUME NEW n \in Nat
  PROVE  /\ Shifts(n)[1] = n
         /\ \A i \in 1 .. 9 : Shifts(n)[i] \in Nat
         /\ \A i \in 1 .. 8 :
              /\ Register(n)[i] \in Byte
              /\ Shifts(n)[i + 1] = Shifts(n)[i] \div 256
              /\ Shifts(n)[i] = Register(n)[i] + 256 * Shifts(n)[i + 1]
<1> DEFINE s == Shifts(n)
<1>1. s[1] = n
  BY DEF Shifts
<1>2. s[2] = s[1] \div 256
  BY DEF Shifts
<1>3. s[3] = s[2] \div 256
  BY DEF Shifts
<1>4. s[4] = s[3] \div 256
  BY DEF Shifts
<1>5. s[5] = s[4] \div 256
  BY DEF Shifts
<1>6. s[6] = s[5] \div 256
  BY DEF Shifts
<1>7. s[7] = s[6] \div 256
  BY DEF Shifts
<1>8. s[8] = s[7] \div 256
  BY DEF Shifts
<1>9. s[9] = s[8] \div 256
  BY DEF Shifts
<1> HIDE DEF s
<1>10. s[1] \in Nat
  BY <1>1
<1>11. s[2] \in Nat
  BY <1>2, <1>10, SplitByte
<1>12. s[3] \in Nat
  BY <1>3, <1>11, SplitByte
<1>13. s[4] \in Nat
  BY <1>4, <1>12, SplitByte
<1>14. s[5] \in Nat
  BY <1>5, <1>13, SplitByte
<1>15. s[6] \in Nat
  BY <1>6, <1>14, SplitByte
<1>16. s[7] \in Nat
  BY <1>7, <1>15, SplitByte
<1>17. s[8] \in Nat
  BY <1>8, <1>16, SplitByte
<1>18. s[9] \in Nat
  BY <1>9, <1>17, SplitByte
<1>19. \A i \in 1 .. 9 : s[i] \in Nat
  BY <1>10, <1>11, <1>12, <1>13, <1>14, <1>15, <1>16, <1>17, <1>18
<1>20. ASSUME NEW i \in 1 .. 8
       PROVE  /\ Register(n)[i] \in Byte /\ s[i + 1] = s[i] \div 256
              /\ s[i] = Register(n)[i] + 256 * s[i + 1]
  <2>1. s[i + 1] = s[i] \div 256
    <3>1. CASE i = 1
      BY <1>2, <3>1
    <3>2. CASE i = 2
      BY <1>3, <3>2
    <3>3. CASE i = 3
      BY <1>4, <3>3
    <3>4. CASE i = 4
      BY <1>5, <3>4
    <3>5. CASE i = 5
      BY <1>6, <3>5
    <3>6. CASE i = 6
      BY <1>7, <3>6
    <3>7. CASE i = 7
      BY <1>8, <3>7
    <3>8. CASE i = 8
      BY <1>9, <3>8
    <3> QED BY <3>1, <3>2, <3>3, <3>4, <3>5, <3>6, <3>7, <3>8
  <2>2. Register(n)[i] = s[i] % 256
    BY DEF Register, s
  <2>3. s[i] \in Nat
    BY <1>19
  <2> QED BY <2>1, <2>2, <2>3, SplitByte
<1> QED BY <1>1, <1>19, <1>20 DEF s

\* What is written into a register is read back, if the bytes left out are zero.
LEMMA RegisterRead ==
  ASSUME NEW n \in Nat, FitsIn(n, 8), NEW width \in 0 .. 8,
         \A i \in width + 1 .. 8 : Register(n)[i] = 0
  PROVE  /\ LittleEndian(n, width) \in Seq(Byte)
         /\ Len(LittleEndian(n, width)) = width
         /\ \A i \in 1 .. width : LittleEndian(n, width)[i] = Register(n)[i]
         /\ FromLittleEndian(LittleEndian(n, width)) = n
<1> DEFINE r == Register(n)
           b == LittleEndian(n, width)
           s == Shifts(n)
<1>1. /\ \A i \in 1 .. 8 : r[i] \in Byte
      /\ \A i \in 1 .. 9 : s[i] \in Nat
      /\ \A i \in 1 .. 8 : s[i] = r[i] + 256 * s[i + 1]
      /\ s[1] = n /\ s[9] = 0
  BY ShiftsSplit DEF FitsIn
<1> HIDE DEF r, s
<1>2. b \in Seq(Byte) /\ Len(b) = width /\ \A i \in 1 .. width : b[i] = r[i]
  <2>1. \A i \in 1 .. width : r[i] \in Byte
    BY <1>1
  <2>2. b = SubSeq(r, 1, width)
    BY DEF LittleEndian, r
  <2>3. /\ SubSeq(r, 1, width) \in Seq(Byte)
        /\ Len(SubSeq(r, 1, width)) = IF 1 <= width THEN width - 1 + 1 ELSE 0
        /\ \A i \in 1 .. width - 1 + 1 : SubSeq(r, 1, width)[i] = r[1 + i - 1]
    BY <2>1, SubSeqProperties
  <2> QED BY <2>2, <2>3
<1> HIDE DEF b
<1>3. ASSUME NEW i \in 1 .. 8
      PROVE  r[i] = IF i <= Len(b) THEN b[i] ELSE 0
  <2>1. i <= width => b[i] = r[i]
    BY <1>2
  <2>2. ~(i <= width) => r[i] = 0
    BY DEF r
  <2> QED BY <1>2, <2>1, <2>2
<1>4. FromLittleEndian(b) =
        r[1] + 256 * (r[2] + 256 * (r[3] + 256 * (r[4] + 256 *
       (r[5] + 256 * (r[6] + 256 * (r[7] + 256 * r[8]))))))
  BY <1>3 DEF FromLittleEndian
<1>5. /\ s[8] = r[8] /\ s[7] = r[7] + 256 * s[8]
      /\ s[6] = r[6] + 256 * s[7] /\ s[5] = r[5] + 256 * s[6]
      /\ s[4] = r[4] + 256 * s[5] /\ s[3] = r[3] + 256 * s[4]
      /\ s[2] = r[2] + 256 * s[3] /\ s[1] = r[1] + 256 * s[2]
  <2>1. s[8] = r[8] + 256 * 0
    BY <1>1
  <2>2. r[8] \in Nat
    BY <1>1 DEF Byte
  <2> QED BY <1>1, <2>1, <2>2
<1>6. FromLittleEndian(b) = s[1]
  BY <1>4, <1>5
<1> QED BY <1>1, <1>2, <1>6 DEF b, r

\* The bytes above the width an integer fits in are zero.
LEMMA ZerosAbove ==
  ASSUME NEW n, NEW width \in 0 .. 8, FitsIn(n, width)
  PROVE  /\ n \in Nat /\ FitsIn(n, 8)
         /\ \A i \in width + 1 .. 8 : Register(n)[i] = 0
<1> DEFINE s == Shifts(n)
           r == Register(n)
<1>1. n \in Nat /\ s[width + 1] = 0
  BY DEF FitsIn
<1>2. \A i \in 1 .. 8 : /\ s[i + 1] = s[i] \div 256 /\ s[i] \in Nat /\ r[i] \in Byte
                        /\ s[i] = r[i] + 256 * s[i + 1] /\ s[i + 1] \in Nat
  BY <1>1, ShiftsSplit
<1> HIDE DEF s, r
<1>3. ASSUME NEW i \in 1 .. 8, s[i] = 0
      PROVE  r[i] = 0 /\ s[i + 1] = 0
  <2>1. PICK low \in Byte : low = r[i]
    BY <1>2
  <2>2. PICK high \in Nat : high = s[i + 1]
    BY <1>2
  <2>3. 0 = low + 256 * high
    BY <1>2, <1>3, <2>1, <2>2
  <2>4. low = 0 /\ high = 0
    BY <2>3 DEF Byte
  <2> QED BY <2>1, <2>2, <2>4
<1>4. \A i \in width + 1 .. 9 : s[i] = 0
  <2>1. ASSUME NEW i \in 1 .. 8 PROVE s[i] = 0 => s[i + 1] = 0
    BY <1>3
  <2>2. /\ s[1] = 0 => s[2] = 0
        /\ s[2] = 0 => s[3] = 0
        /\ s[3] = 0 => s[4] = 0
        /\ s[4] = 0 => s[5] = 0
        /\ s[5] = 0 => s[6] = 0
        /\ s[6] = 0 => s[7] = 0
        /\ s[7] = 0 => s[8] = 0
        /\ s[8] = 0 => s[9] = 0
    BY <2>1
  <2> DEFINE k == width + 1
  <2>3. k \in 1 .. 9 /\ s[k] = 0
    BY <1>1
  <2> HIDE DEF k
  <2>4. \A i \in k .. 9 : s[i] = 0
    <3>1. CASE k = 1
      BY <2>2, <2>3, <3>1
    <3>2. CASE k = 2
      BY <2>2, <2>3, <3>2
    <3>3. CASE k = 3
      BY <2>2, <2>3, <3>3
    <3>4. CASE k = 4
      BY <2>2, <2>3, <3>4
    <3>5. CASE k = 5
      BY <2>2, <2>3, <3>5
    <3>6. CASE k = 6
      BY <2>2, <2>3, <3>6
    <3>7. CASE k = 7
      BY <2>2, <2>3, <3>7
    <3>8. CASE k = 8
      BY <2>2, <2>3, <3>8
    <3>9. CASE k = 9
      BY <2>2, <2>3, <3>9
    <3> QED BY <2>3, <3>1, <3>2, <3>3, <3>4, <3>5, <3>6, <3>7, <3>8, <3>9
  <2> QED BY <2>4 DEF k
<1>5. \A i \in width + 1 .. 8 : r[i] = 0
  BY <1>3, <1>4
<1>6. s[9] = 0
  BY <1>4
<1> QED BY <1>1, <1>5, <1>6 DEF FitsIn, s, r

LEMMA WriteRead ==
  ASSUME NEW width \in 0 .. 8, NEW n, FitsIn(n, width)
  PROVE  /\ n \in Nat
         /\ LittleEndian(n, width) \in Seq(Byte)
         /\ Len(LittleEndian(n, width)) = width
         /\ FromLittleEndian(LittleEndian(n, width)) = n
BY ZerosAbove, RegisterRead

\* What is read from bytes is written as the same bytes.
LEMMA ReadWrite ==
  ASSUME NEW b \in Seq(Byte), Len(b) <= 8
  PROVE  /\ FitsIn(FromLittleEndian(b), Len(b))
         /\ LittleEndian(FromLittleEndian(b), Len(b)) = b
<1> DEFINE a == [i \in 1 .. 8 |-> IF i <= Len(b) THEN b[i] ELSE 0]
<1>1. PICK len \in 0 .. 8 : len = Len(b)
  <2>1. PICK len \in Nat : len = Len(b)
    BY LenProperties
  <2>2. len <= 8
    BY <2>1
  <2>3. len \in 0 .. 8
    BY <2>2
  <2> QED BY <2>1, <2>3
<1>2. a \in [1 .. 8 -> Byte]
  <2>1. ASSUME NEW i \in 1 .. 8 PROVE (IF i <= Len(b) THEN b[i] ELSE 0) \in Byte
    <3>1. CASE i <= len
      <4>1. i \in 1 .. Len(b)
        BY <1>1, <3>1
      <4>2. b[i] \in Byte
        BY <4>1, ElementOfSeq
      <4> QED BY <1>1, <3>1, <4>2
    <3>2. CASE ~(i <= len)
      BY <1>1, <3>2 DEF Byte
    <3> QED BY <3>1, <3>2
  <2> QED BY <2>1
<1>3. \A i \in 1 .. 8 : i > len => a[i] = 0
  <2>1. \A i \in 1 .. 8 : i > len => ~(i <= len)
    OBVIOUS
  <2> QED BY <1>1, <2>1
<1>4. \A i \in 1 .. len : a[i] = b[i]
  BY <1>1
<1>4a. PICK a8 \in Byte : a8 = a[8]
  BY <1>2
<1> DEFINE v8 == a8
           v7 == a[7] + 256 * v8
           v6 == a[6] + 256 * v7
           v5 == a[5] + 256 * v6
           v4 == a[4] + 256 * v5
           v3 == a[3] + 256 * v4
           v2 == a[2] + 256 * v3
           v1 == a[1] + 256 * v2
<1>5. FromLittleEndian(b) = v1
  BY <1>4a DEF FromLittleEndian
<1> HIDE DEF a
<1>6. v8 \in Nat /\ v8 % 256 = a[8] /\ v8 \div 256 = 0
  <2>1. a8 \in Nat /\ a8 % 256 = a8 /\ a8 \div 256 = 0
    BY DEF Byte
  <2> QED BY <1>4a, <2>1
<1> HIDE DEF v8
<1>7. v7 \in Nat /\ v7 % 256 = a[7] /\ v7 \div 256 = v8
  <2>1. PICK low \in Byte : low = a[7]
    BY <1>2
  <2>2. Joins(low, v8, low + 256 * v8)
    BY <1>6, JoinByte, Zenon
  <2> QED BY <2>1, <2>2, Zenon DEF v7, Joins
<1> HIDE DEF v7
<1>8. v6 \in Nat /\ v6 % 256 = a[6] /\ v6 \div 256 = v7
  <2>1. PICK low \in Byte : low = a[6]
    BY <1>2
  <2>2. Joins(low, v7, low + 256 * v7)
    BY <1>7, JoinByte, Zenon
  <2> QED BY <2>1, <2>2, Zenon DEF v6, Joins
<1> HIDE DEF v6
<1>9. v5 \in Nat /\ v5 % 256 = a[5] /\ v5 \div 256 = v6
  <2>1. PICK low \in Byte : low = a[5]
    BY <1>2
  <2>2. Joins(low, v6, low + 256 * v6)
    BY <1>8, JoinByte, Zenon
  <2> QED BY <2>1, <2>2, Zenon DEF v5, Joins
<1> HIDE DEF v5
<1>10. v4 \in Nat /\ v4 % 256 = a[4] /\ v4 \div 256 = v5
  <2>1. PICK low \in Byte : low = a[4]
    BY <1>2
  <2>2. Joins(low, v5, low + 256 * v5)
    BY <1>9, JoinByte, Zenon
  <2> QED BY <2>1, <2>2, Zenon DEF v4, Joins
<1> HIDE DEF v4
<1>11. v3 \in Nat /\ v3 % 256 = a[3] /\ v3 \div 256 = v4
  <2>1. PICK low \in Byte : low = a[3]
    BY <1>2
  <2>2. Joins(low, v4, low + 256 * v4)
    BY <1>10, JoinByte, Zenon
  <2> QED BY <2>1, <2>2, Zenon DEF v3, Joins
<1> HIDE DEF v3
<1>12. v2 \in Nat /\ v2 % 256 = a[2] /\ v2 \div 256 = v3
  <2>1. PICK low \in Byte : low = a[2]
    BY <1>2
  <2>2. Joins(low, v3, low + 256 * v3)
    BY <1>11, JoinByte, Zenon
  <2> QED BY <2>1, <2>2, Zenon DEF v2, Joins
<1> HIDE DEF v2
<1>13. v1 \in Nat /\ v1 % 256 = a[1] /\ v1 \div 256 = v2
  <2>1. PICK low \in Byte : low = a[1]
    BY <1>2
  <2>2. Joins(low, v2, low + 256 * v2)
    BY <1>12, JoinByte, Zenon
  <2> QED BY <2>1, <2>2, Zenon DEF v1, Joins
<1> HIDE DEF v1
<1>14. Shifts(v1) = <<v1, v2, v3, v4, v5, v6, v7, v8, 0>>
  BY <1>6, <1>7, <1>8, <1>9, <1>10, <1>11, <1>12, <1>13 DEF Shifts
<1>15. \A i \in 1 .. 8 : Register(v1)[i] = a[i]
  <2>1. ASSUME NEW i \in 1 .. 8 PROVE Shifts(v1)[i] % 256 = a[i]
    <3>1. CASE i = 1
      BY <1>13, <1>14, <3>1
    <3>2. CASE i = 2
      BY <1>12, <1>14, <3>2
    <3>3. CASE i = 3
      BY <1>11, <1>14, <3>3
    <3>4. CASE i = 4
      BY <1>10, <1>14, <3>4
    <3>5. CASE i = 5
      BY <1>9, <1>14, <3>5
    <3>6. CASE i = 6
      BY <1>8, <1>14, <3>6
    <3>7. CASE i = 7
      BY <1>7, <1>14, <3>7
    <3>8. CASE i = 8
      BY <1>6, <1>14, <3>8
    <3> QED BY <3>1, <3>2, <3>3, <3>4, <3>5, <3>6, <3>7, <3>8
  <2> QED BY <2>1 DEF Register
<1>16. Shifts(v1)[9] = 0
  BY <1>14
<1>17. \A i \in len + 1 .. 8 : Register(v1)[i] = 0
  <2>1. \A i \in len + 1 .. 8 : i \in 1 .. 8 /\ i > len
    OBVIOUS
  <2> QED BY <1>3, <1>15, <2>1
<1>18. /\ LittleEndian(v1, len) \in Seq(Byte)
       /\ Len(LittleEndian(v1, len)) = len
       /\ \A i \in 1 .. len : LittleEndian(v1, len)[i] = Register(v1)[i]
  <2>1. FitsIn(v1, 8)
    BY <1>13, <1>16 DEF FitsIn
  <2> QED BY <1>13, <1>17, <2>1, RegisterRead
<1>19. LittleEndian(v1, len) = b
  <2>1. \A i \in 1 .. len : LittleEndian(v1, len)[i] = b[i]
    BY <1>4, <1>15, <1>18
  <2> QED BY <1>1, <1>18, <2>1, SeqEqual
<1>21. Shifts(v1)[len + 1] = 0
  <2>1. 8 > len => v8 = 0
    <3>1. 8 > len => a[8] = 0
      BY <1>3
    <3> QED BY <1>4a, <3>1 DEF v8
  <2>2. 7 > len => v7 = 0
    <3>1. 7 > len => a[7] = 0 /\ 8 > len
      BY <1>3
    <3> QED BY <3>1, <2>1 DEF v7
  <2>3. 6 > len => v6 = 0
    <3>1. 6 > len => a[6] = 0 /\ 7 > len
      BY <1>3
    <3> QED BY <3>1, <2>2 DEF v6
  <2>4. 5 > len => v5 = 0
    <3>1. 5 > len => a[5] = 0 /\ 6 > len
      BY <1>3
    <3> QED BY <3>1, <2>3 DEF v5
  <2>5. 4 > len => v4 = 0
    <3>1. 4 > len => a[4] = 0 /\ 5 > len
      BY <1>3
    <3> QED BY <3>1, <2>4 DEF v4
  <2>6. 3 > len => v3 = 0
    <3>1. 3 > len => a[3] = 0 /\ 4 > len
      BY <1>3
    <3> QED BY <3>1, <2>5 DEF v3
  <2>7. 2 > len => v2 = 0
    <3>1. 2 > len => a[2] = 0 /\ 3 > len
      BY <1>3
    <3> QED BY <3>1, <2>6 DEF v2
  <2>8. 1 > len => v1 = 0
    <3>1. 1 > len => a[1] = 0 /\ 2 > len
      BY <1>3
    <3> QED BY <3>1, <2>7 DEF v1
  <2>9. CASE len = 0
    BY <1>14, <2>9, <2>8
  <2>10. CASE len = 1
    BY <1>14, <2>10, <2>7
  <2>11. CASE len = 2
    BY <1>14, <2>11, <2>6
  <2>12. CASE len = 3
    BY <1>14, <2>12, <2>5
  <2>13. CASE len = 4
    BY <1>14, <2>13, <2>4
  <2>14. CASE len = 5
    BY <1>14, <2>14, <2>3
  <2>15. CASE len = 6
    BY <1>14, <2>15, <2>2
  <2>16. CASE len = 7
    BY <1>14, <2>16, <2>1
  <2>17. CASE len = 8
    BY <1>14, <2>17
  <2> QED BY <2>9, <2>10, <2>11, <2>12, <2>13, <2>14, <2>15, <2>16, <2>17
<1> QED BY <1>1, <1>5, <1>13, <1>19, <1>21 DEF FitsIn

LEMMA BytesAssociative ==
  ASSUME NEW s \in Seq(Byte), NEW t \in Seq(Byte), NEW u \in Seq(Byte)
  PROVE  (s \o t) \o u = s \o (t \o u)
BY ConcatAssociative

Cat(s, t) == s \o t

LEMMA CatAssociative ==
  ASSUME NEW s \in Seq(Byte), NEW t \in Seq(Byte), NEW u \in Seq(Byte)
  PROVE  Cat(s, t) \in Seq(Byte) /\ Cat(Cat(s, t), u) = Cat(s, Cat(t, u))
BY BytesAssociative, ConcatProperties, Zenon DEF Cat

Regroups(A, B, C, T, D) ==
  /\ A \o B \o C \o T \o D = (A \o B) \o (C \o T \o D)
  /\ (A \o B) \o (C \o T \o D) = A \o (B \o (C \o T \o D))

LEMMA Regrouped ==
  ASSUME NEW A \in Seq(Byte), NEW B \in Seq(Byte), NEW C \in Seq(Byte),
         NEW T \in Seq(Byte), NEW D \in Seq(Byte)
  PROVE  Regroups(A, B, C, T, D)
<1>1. PICK ab \in Seq(Byte) : ab = Cat(A, B)
  BY CatAssociative
<1>2. PICK ct \in Seq(Byte) : ct = Cat(C, T)
  BY CatAssociative
<1>3. PICK rest \in Seq(Byte) : rest = Cat(ct, D)
  BY CatAssociative
<1>4. Cat(Cat(ab, C), T) = Cat(ab, ct)
  BY <1>2, CatAssociative
<1>5. Cat(Cat(ab, ct), D) = Cat(ab, rest)
  BY <1>3, CatAssociative
<1>6. Cat(Cat(A, B), rest) = Cat(A, Cat(B, rest))
  BY CatAssociative
<1> QED BY <1>1, <1>2, <1>3, <1>4, <1>5, <1>6, Zenon DEF Cat, Regroups

-----------------------------------------------------------------------------
\* What was put first, and what was put last, is found again.
LEMMA FirstPart ==
  ASSUME NEW s \in Seq(Byte), NEW t \in Seq(Byte), NEW len \in Nat, len = Len(s),
         NEW m \in 1 .. len + 1, NEW n \in m - 1 .. len
  PROVE  SubSeq(s \o t, m, n) = SubSeq(s, m, n)
<1>1. CASE n < m
  BY <1>1, SubSeqEmpty
<1>2. CASE ~(n < m)
  <2>1. m \in 1 .. len /\ n \in 1 .. len
    BY <1>2
  <2>2. m \in 1 .. Len(s) /\ n \in 1 .. Len(s)
    BY <2>1
  <2> QED BY <2>2, SubSeqOfConcat1
<1> QED BY <1>1, <1>2

LEMMA LastPart ==
  ASSUME NEW s \in Seq(Byte), NEW t \in Seq(Byte),
         NEW len \in Nat, len = Len(s), NEW more \in Nat, more = Len(t)
  PROVE  SubSeq(s \o t, Len(s) + 1, Len(s) + Len(t)) = t
<1>1. CASE more = 0
  <2>1. SubSeq(s \o t, len + 1, len + more) = <<>>
    <3>1. len + 1 \in Int /\ len + more \in Int /\ len + more < len + 1
      BY <1>1
    <3> QED BY <3>1, SubSeqEmpty
  <2>2. t = <<>>
    <3>1. Len(t) = 0
      BY <1>1
    <3> QED BY <3>1, EmptySeq
  <2> QED BY <2>1, <2>2
<1>2. CASE more # 0
  <2>1. len + 1 \in len + 1 .. len + more /\ len + more \in len + 1 .. len + more
    BY <1>2
  <2>2. /\ len + 1 \in Len(s) + 1 .. Len(s) + Len(t)
        /\ len + more \in Len(s) + 1 .. Len(s) + Len(t)
    BY <2>1
  <2>3. SubSeq(s \o t, len + 1, len + more)
          = SubSeq(t, (len + 1) - Len(s), (len + more) - Len(s))
    BY <2>2, SubSeqOfConcat2
  <2>4. (len + 1) - len = 1 /\ (len + more) - len = more
    OBVIOUS
  <2>5. SubSeq(s \o t, len + 1, len + more) = SubSeq(t, 1, Len(t))
    BY <2>3, <2>4
  <2> QED BY <2>5, SubSeqFull
<1> QED BY <1>1, <1>2

\* Five fields one after the other, and what it means that they are found in p again.
Joined(A, B, C, type, D) == A \o B \o C \o <<type>> \o D

Found(p, A, B, C, type, D) ==
  LET a == Len(A)  b == Len(B)  c == Len(C)  d == Len(D)
  IN /\ p \in Seq(Byte) /\ Len(p) = a + b + c + 1 + d
     /\ SubSeq(p, 1, a) = A
     /\ SubSeq(p, a + 1, a + b) = B
     /\ SubSeq(p, a + b + 1, a + b + c) = C
     /\ p[a + b + c + 1] = type
     /\ SubSeq(p, a + b + c + 2, a + b + c + 1 + d) = D

LEMMA FiveParts ==
  ASSUME NEW A \in Seq(Byte), NEW B \in Seq(Byte), NEW C \in Seq(Byte),
         NEW type \in Byte, NEW D \in Seq(Byte)
  PROVE  Found(Joined(A, B, C, type, D), A, B, C, type, D)
<1>a. PICK a \in Nat : a = Len(A)
  BY LenProperties
<1>b. PICK b \in Nat : b = Len(B)
  BY LenProperties
<1>c. PICK c \in Nat : c = Len(C)
  BY LenProperties
<1>d. PICK d \in Nat : d = Len(D)
  BY LenProperties
<1> USE <1>a, <1>b, <1>c, <1>d
<1> DEFINE p == A \o B \o C \o <<type>> \o D
           p2 == A \o B
           p3 == p2 \o C
           p4 == p3 \o <<type>>
<1>0. p = p4 \o D
  OBVIOUS
<1> HIDE DEF p
<1>1. p2 \in Seq(Byte) /\ Len(p2) = a + b /\ SubSeq(p2, 1, a) = A
      /\ SubSeq(p2, a + 1, a + b) = B
  <2>1. SubSeq(A \o B, 1, a) = SubSeq(A, 1, a)
    <3>1. 1 \in 1 .. a + 1 /\ a \in 1 - 1 .. a
      OBVIOUS
    <3> QED BY <3>1, FirstPart
  <2>2. SubSeq(A, 1, a) = A
    BY SubSeqFull
  <2>3. SubSeq(A \o B, a + 1, a + b) = B
    <3>1. SubSeq(A \o B, Len(A) + 1, Len(A) + Len(B)) = B
      BY LastPart
    <3> QED BY <3>1
  <2> QED BY <2>1, <2>2, <2>3, ConcatProperties
<1> DEFINE l2 == a + b
           l3 == a + b + c
           l4 == a + b + c + 1
<1> HIDE DEF p2
<1>2. p3 \in Seq(Byte) /\ Len(p3) = l3
      /\ SubSeq(p3, 1, a) = A /\ SubSeq(p3, a + 1, l2) = B
      /\ SubSeq(p3, l2 + 1, l3) = C
  <2>1. l2 \in Nat /\ l2 = Len(p2)
    BY <1>1
  <2>2. SubSeq(p3, 1, a) = SubSeq(p2, 1, a)
    <3>1. 1 \in 1 .. l2 + 1 /\ a \in 1 - 1 .. l2
      OBVIOUS
    <3> HIDE DEF l2
    <3> QED BY <1>1, <2>1, <3>1, FirstPart
  <2>3. SubSeq(p3, a + 1, l2) = SubSeq(p2, a + 1, l2)
    <3>1. a + 1 \in 1 .. l2 + 1 /\ l2 \in (a + 1) - 1 .. l2
      OBVIOUS
    <3> HIDE DEF l2
    <3> QED BY <1>1, <2>1, <3>1, FirstPart
  <2>4. SubSeq(p3, l2 + 1, l3) = C
    <3>1. l3 = l2 + c
      OBVIOUS
    <3> HIDE DEF l2, l3
    <3>2. SubSeq(p3, Len(p2) + 1, Len(p2) + Len(C)) = C
      BY <1>1, <2>1, LastPart
    <3> QED BY <2>1, <3>1, <3>2
  <2>5. p3 \in Seq(Byte) /\ Len(p3) = Len(p2) + Len(C)
    BY <1>1, ConcatProperties
  <2> QED BY <1>1, <2>1, <2>2, <2>3, <2>4, <2>5
<1> HIDE DEF p3
<1>3. <<type>> \in Seq(Byte) /\ Len(<<type>>) = 1
  OBVIOUS
<1>4. p4 \in Seq(Byte) /\ Len(p4) = l4
      /\ SubSeq(p4, 1, a) = A /\ SubSeq(p4, a + 1, l2) = B
      /\ SubSeq(p4, l2 + 1, l3) = C /\ p4[l4] = type
  <2>1. l3 \in Nat /\ l3 = Len(p3) /\ l4 = l3 + 1 /\ l2 \in Nat
    BY <1>2
  <2>2. SubSeq(p4, 1, a) = SubSeq(p3, 1, a)
    <3>1. 1 \in 1 .. l3 + 1 /\ a \in 1 - 1 .. l3
      OBVIOUS
    <3> HIDE DEF l3
    <3> QED BY <1>2, <1>3, <2>1, <3>1, FirstPart
  <2>3. SubSeq(p4, a + 1, l2) = SubSeq(p3, a + 1, l2)
    <3>1. a + 1 \in 1 .. l3 + 1 /\ l2 \in (a + 1) - 1 .. l3
      OBVIOUS
    <3> HIDE DEF l2, l3
    <3> QED BY <1>2, <1>3, <2>1, <3>1, FirstPart
  <2>4. SubSeq(p4, l2 + 1, l3) = SubSeq(p3, l2 + 1, l3)
    <3>1. l2 + 1 \in 1 .. l3 + 1 /\ l3 \in (l2 + 1) - 1 .. l3
      OBVIOUS
    <3> HIDE DEF l2, l3
    <3> QED BY <1>2, <1>3, <2>1, <3>1, FirstPart
  <2> HIDE DEF l2, l3, l4
  <2>5. p4 \in Seq(Byte) /\ Len(p4) = Len(p3) + 1
        /\ \A i \in 1 .. Len(p3) + 1 :
             p4[i] = IF i <= Len(p3) THEN p3[i] ELSE <<type>>[i - Len(p3)]
    BY <1>2, <1>3, ConcatProperties
  <2>6. p4[l3 + 1] = <<type>>[(l3 + 1) - l3]
    BY <2>1, <2>5
  <2>7. (l3 + 1) - l3 = 1
    BY <2>1
  <2>8. p4[l3 + 1] = type
    <3>1. <<type>>[1] = type
      OBVIOUS
    <3> QED BY <2>6, <2>7, <3>1
  <2> QED BY <1>2, <2>1, <2>2, <2>3, <2>4, <2>5, <2>8
<1> HIDE DEF p4
<1>5. l4 \in Nat /\ l4 = Len(p4) /\ l3 \in Nat /\ l2 \in Nat
  BY <1>4
<1>6. SubSeq(p, 1, a) = A
  <2>1. 1 \in 1 .. l4 + 1 /\ a \in 1 - 1 .. l4
    OBVIOUS
  <2> HIDE DEF l2, l3, l4
  <2>2. SubSeq(p4 \o D, 1, a) = SubSeq(p4, 1, a)
    BY <1>4, <1>5, <2>1, FirstPart
  <2> QED BY <1>0, <1>4, <2>2
<1>7. SubSeq(p, a + 1, l2) = B
  <2>1. a + 1 \in 1 .. l4 + 1 /\ l2 \in (a + 1) - 1 .. l4
    OBVIOUS
  <2> HIDE DEF l2, l3, l4
  <2>2. SubSeq(p4 \o D, a + 1, l2) = SubSeq(p4, a + 1, l2)
    BY <1>4, <1>5, <2>1, FirstPart
  <2> QED BY <1>0, <1>4, <2>2
<1>8. SubSeq(p, l2 + 1, l3) = C
  <2>1. l2 + 1 \in 1 .. l4 + 1 /\ l3 \in (l2 + 1) - 1 .. l4
    OBVIOUS
  <2> HIDE DEF l2, l3, l4
  <2>2. SubSeq(p4 \o D, l2 + 1, l3) = SubSeq(p4, l2 + 1, l3)
    BY <1>4, <1>5, <2>1, FirstPart
  <2> QED BY <1>0, <1>4, <2>2
<1>9. SubSeq(p, l4 + 1, l4 + d) = D
  <2> HIDE DEF l4
  <2>1. SubSeq(p4 \o D, Len(p4) + 1, Len(p4) + Len(D)) = D
    BY <1>4, <1>5, LastPart
  <2> QED BY <1>0, <1>5, <2>1
<1>10. p \in Seq(Byte) /\ Len(p) = l4 + d /\ p[l4] = type
  <2> HIDE DEF l4
  <2>1. p \in Seq(Byte) /\ Len(p) = Len(p4) + Len(D)
        /\ \A i \in 1 .. Len(p4) + Len(D) :
             p[i] = IF i <= Len(p4) THEN p4[i] ELSE D[i - Len(p4)]
    BY <1>0, <1>4, ConcatProperties
  <2>2. l4 \in 1 .. Len(p4) + Len(D) /\ l4 <= Len(p4)
    BY <1>5 DEF l4
  <2>3. p[l4] = p4[l4]
    BY <2>1, <2>2
  <2> QED BY <1>4, <1>5, <2>1, <2>3
<1>11. l4 + 1 = a + b + c + 2
  OBVIOUS
<1>12. /\ p \in Seq(Byte) /\ Len(p) = a + b + c + 1 + d
       /\ SubSeq(p, 1, a) = A
       /\ SubSeq(p, a + 1, a + b) = B
       /\ SubSeq(p, a + b + 1, a + b + c) = C
       /\ p[a + b + c + 1] = type
       /\ SubSeq(p, a + b + c + 2, a + b + c + 1 + d) = D
  BY <1>6, <1>7, <1>8, <1>9, <1>10, <1>11
<1> QED BY <1>12, Zenon DEF p, Found, Joined

-----------------------------------------------------------------------------
\* What 16 bits leave whole fits two bytes.
LEMMA FitsTwo ==
  ASSUME NEW n \in Nat
  PROVE  FitsIn(n, 2) <=> UInt16(n) = n
<1>1. Shifts(n)[2 + 1] = (n \div 256) \div 256
  BY DEF Shifts
<1>2. (n \div 256) \div 256 = 0 <=> n % 65536 = n
  OBVIOUS
<1> QED BY <1>1, <1>2 DEF FitsIn, UInt16

\* A package whose command is not cut is read back as it was written.
LEMMA FieldsRead ==
  ASSUME NEW seq, FitsIn(seq, 4), NEW cmd \in Seq(Byte), UInt16(Len(cmd)) = Len(cmd),
         NEW type \in Byte, NEW data \in Seq(Byte)
  PROVE  Deserialize(LittleEndian(seq, 4) \o LittleEndian(Len(cmd), 2) \o cmd
                       \o <<type>> \o data)
           = [ok |-> TRUE,
              msg |-> [seq |-> seq, cmd |-> cmd, type |-> type, data |-> data]]
<1>1. PICK c \in Nat : c = Len(cmd)
  BY LenProperties
<1>2. PICK d \in Nat : d = Len(data)
  BY LenProperties
<1> DEFINE A == LittleEndian(seq, 4)
           B == LittleEndian(Len(cmd), 2)
           p == Joined(A, B, cmd, type, data)
<1>3. A \in Seq(Byte) /\ Len(A) = 4 /\ FromLittleEndian(A) = seq
  BY WriteRead
<1>4. B \in Seq(Byte) /\ Len(B) = 2 /\ FromLittleEndian(B) = Len(cmd)
  <2>1. Len(cmd) \in Nat
    BY LenProperties
  <2>2. FitsIn(Len(cmd), 2)
    BY <2>1, FitsTwo
  <2> QED BY <2>2, WriteRead
<1> HIDE DEF A, B
<1>5. Found(p, A, B, cmd, type, data)
  BY <1>3, <1>4, FiveParts, Zenon
<1> HIDE DEF p
<1>6. /\ Len(p) = 7 + c + d
      /\ SubSeq(p, 1, 4) = A /\ SubSeq(p, 5, 6) = B /\ SubSeq(p, 7, 6 + c) = cmd
      /\ p[7 + c] = type /\ SubSeq(p, 8 + c, 7 + c + d) = data
  <2>1. /\ Len(p) = 4 + 2 + c + 1 + d
        /\ SubSeq(p, 1, 4) = A
        /\ SubSeq(p, 4 + 1, 4 + 2) = B
        /\ SubSeq(p, 4 + 2 + 1, 4 + 2 + c) = cmd
        /\ p[4 + 2 + c + 1] = type
        /\ SubSeq(p, 4 + 2 + c + 2, 4 + 2 + c + 1 + d) = data
    BY <1>1, <1>2, <1>3, <1>4, <1>5, Zenon DEF Found
  <2>2. /\ 4 + 2 + c + 1 + d = 7 + c + d /\ 4 + 1 = 5 /\ 4 + 2 = 6 /\ 4 + 2 + 1 = 7
        /\ 4 + 2 + c = 6 + c /\ 4 + 2 + c + 1 = 7 + c /\ 4 + 2 + c + 2 = 8 + c
    OBVIOUS
  <2> QED BY <2>1, <2>2, Zenon
<1>7. ~(Len(p) < 7 \/ Len(p) < 6 + c + 1)
  <2>1. ~(7 + c + d < 7 \/ 7 + c + d < 6 + c + 1)
    OBVIOUS
  <2> QED BY <1>6, <2>1, Zenon
<1>8. /\ FromLittleEndian(SubSeq(p, 5, 6)) = c
      /\ FromLittleEndian(SubSeq(p, 1, 4)) = seq
      /\ SubSeq(p, 8 + c, Len(p)) = data
  BY <1>1, <1>3, <1>4, <1>6, Zenon
<1>9. Deserialize(p) = [ok |-> TRUE,
                        msg |-> [seq |-> seq, cmd |-> cmd, type |-> type, data |-> data]]
  BY <1>6, <1>7, <1>8, Zenon DEF Deserialize
<1> QED BY <1>9, Zenon DEF p, A, B, Joined

LEMMA PackageRead ==
  ASSUME NEW m, FitsIn(m.seq, 4), m.cmd \in Seq(Byte), UInt16(Len(m.cmd)) = Len(m.cmd),
         m.type \in Byte, m.data \in Seq(Byte)
  PROVE  Deserialize(Serialize(m)) =
           [ok |-> TRUE,
            msg |-> [seq |-> m.seq, cmd |-> m.cmd, type |-> m.type, data |-> m.data]]
<1>1. SubSeq(m.cmd, 1, Len(m.cmd)) = m.cmd
  BY SubSeqFull
<1>2. Serialize(m) = LittleEndian(m.seq, 4) \o LittleEndian(Len(m.cmd), 2) \o m.cmd
                       \o <<m.type>> \o m.data
  BY <1>1, Zenon DEF Serialize
<1> QED BY <1>2, FieldsRead, ZenonT(40)

\* Whatever is accepted as a package is what the package read from it is written as.
LEMMA PackageWritten ==
  ASSUME NEW p \in Seq(Byte), Deserialize(p).ok
  PROVE  Serialize(Deserialize(p).msg) = p
<1>1. PICK n \in Nat : n = Len(p)
  BY LenProperties
<1> DEFINE A == SubSeq(p, 1, 4)
           B == SubSeq(p, 5, 6)
           c == FromLittleEndian(B)
           C == SubSeq(p, 7, 6 + c)
           D == SubSeq(p, 8 + c, n)
<1>2. n >= 7
  <2>1. Len(p) < 7 => Deserialize(p) = [ok |-> FALSE]
    BY Zenon DEF Deserialize
  <2>2. ~(Len(p) < 7)
    BY <2>1
  <2> QED BY <1>1, <2>2
<1>3. \A i \in 1 .. n : p[i] \in Byte
  BY <1>1, ElementOfSeq
<1>4. A \in Seq(Byte) /\ Len(A) = 4 /\ B \in Seq(Byte) /\ Len(B) = 2
  <2>1. (\A i \in 1 .. 4 : p[i] \in Byte) /\ (\A i \in 5 .. 6 : p[i] \in Byte)
    BY <1>2, <1>3
  <2>2. A \in Seq(Byte) /\ Len(A) = IF 1 <= 4 THEN 4 - 1 + 1 ELSE 0
    BY <2>1, SubSeqProperties
  <2>3. B \in Seq(Byte) /\ Len(B) = IF 5 <= 6 THEN 6 - 5 + 1 ELSE 0
    BY <2>1, SubSeqProperties
  <2> QED BY <2>2, <2>3
<1> HIDE DEF A, B
<1>5. LittleEndian(FromLittleEndian(A), 4) = A
  <2>1. Len(A) <= 8
    BY <1>4
  <2> QED BY <1>4, <2>1, ReadWrite, Zenon
<1>6. LittleEndian(c, 2) = B /\ c \in Nat /\ UInt16(c) = c
  <2>1. FitsIn(c, 2) /\ LittleEndian(c, 2) = B
    <3>1. Len(B) <= 8
      BY <1>4
    <3> QED BY <1>4, <3>1, ReadWrite, Zenon
  <2>2. c \in Nat
    BY <2>1 DEF FitsIn
  <2> QED BY <2>1, <2>2, FitsTwo
<1> HIDE DEF c
<1>7. n >= 7 + c
  <2>1. Len(p) < 6 + c + 1 => Deserialize(p) = [ok |-> FALSE]
    BY Zenon DEF Deserialize, c, B
  <2>2. ~(Len(p) < 6 + c + 1)
    BY <2>1
  <2> QED BY <1>1, <1>6, <2>2
<1>8. C \in Seq(Byte) /\ Len(C) = c
  <2>1. 7 \in Int /\ 6 + c \in Int /\ \A i \in 7 .. 6 + c : p[i] \in Byte
    BY <1>3, <1>6, <1>7
  <2>2. C \in Seq(Byte) /\ Len(C) = IF 7 <= 6 + c THEN (6 + c) - 7 + 1 ELSE 0
    BY <2>1, SubSeqProperties
  <2> QED BY <1>6, <2>2
<1> DEFINE m == Deserialize(p).msg
<1>9. m = [seq |-> FromLittleEndian(A), cmd |-> C, type |-> p[7 + c], data |-> D]
  <2>1. ~(Len(p) < 7 \/ Len(p) < 6 + c + 1)
    <3>1. ~(n < 7 \/ n < 6 + c + 1)
      BY <1>2, <1>6, <1>7
    <3> QED BY <1>1, <3>1, Zenon
  <2>2. Deserialize(p) =
          [ok |-> TRUE, msg |-> [seq |-> FromLittleEndian(A), cmd |-> C,
                                 type |-> p[7 + c], data |-> D]]
    BY <1>1, <2>1, Zenon DEF Deserialize, c, A, B
  <2> HIDE DEF C, D
  <2> QED BY <2>2
<1> HIDE DEF C, D
<1>9a. m.seq = FromLittleEndian(A) /\ m.cmd = C /\ m.type = p[7 + c] /\ m.data = D
  BY <1>9
<1> HIDE DEF m
<1>10. Serialize(m) = A \o B \o C \o <<p[7 + c]>> \o D
  <2>1. SubSeq(C, 1, c) = C
    BY <1>8, SubSeqFull
  <2>2. UInt16(Len(m.cmd)) = c
    BY <1>6, <1>8, <1>9a, Zenon
  <2> QED BY <1>5, <1>6, <1>9a, <2>1, <2>2, Zenon DEF Serialize
<1>11. A \o B = SubSeq(p, 1, 6)
  <2>1. 1 \in 1 .. Len(p) + 1 /\ 4 \in 1 - 1 .. Len(p) /\ 6 \in 4 .. Len(p)
    BY <1>1, <1>2
  <2>2. SubSeq(p, 1, 4) \o SubSeq(p, 4 + 1, 6) = SubSeq(p, 1, 6)
    BY <2>1, ConcatAdjacentSubSeq
  <2>3. 4 + 1 = 5
    OBVIOUS
  <2> QED BY <2>2, <2>3, Zenon DEF A, B
<1>12. SubSeq(p, 1, 6) \o C = SubSeq(p, 1, 6 + c)
  <2>1. 1 \in 1 .. Len(p) + 1 /\ 6 \in 1 - 1 .. Len(p) /\ 6 + c \in 6 .. Len(p)
    BY <1>1, <1>6, <1>7
  <2>2. SubSeq(p, 1, 6) \o SubSeq(p, 6 + 1, 6 + c) = SubSeq(p, 1, 6 + c)
    BY <2>1, ConcatAdjacentSubSeq
  <2>3. 6 + 1 = 7
    OBVIOUS
  <2> QED BY <2>2, <2>3, Zenon DEF C
<1>13. SubSeq(p, 1, 6 + c) \o <<p[7 + c]>> = SubSeq(p, 1, 7 + c)
  <2>1. 1 \in 1 .. Len(p) /\ 7 + c \in 1 .. Len(p)
    BY <1>1, <1>6, <1>7
  <2>2. SubSeq(p, 1, 7 + c) = SubSeq(p, 1, (7 + c) - 1) \o <<p[7 + c]>>
    BY <2>1, SubSeqRecursiveSecond
  <2>3. (7 + c) - 1 = 6 + c
    BY <1>6
  <2> QED BY <2>2, <2>3, Zenon
<1>14. SubSeq(p, 1, 7 + c) \o D = SubSeq(p, 1, n)
  <2>1. /\ 1 \in 1 .. Len(p) + 1 /\ 7 + c \in 1 - 1 .. Len(p)
        /\ n \in 7 + c .. Len(p)
    BY <1>1, <1>6, <1>7
  <2>2. SubSeq(p, 1, 7 + c) \o SubSeq(p, (7 + c) + 1, n) = SubSeq(p, 1, n)
    BY <2>1, ConcatAdjacentSubSeq
  <2>3. (7 + c) + 1 = 8 + c
    BY <1>6
  <2> QED BY <2>2, <2>3, Zenon DEF D
<1>15. SubSeq(p, 1, n) = p
  BY <1>1, SubSeqFull
<1> QED BY <1>10, <1>11, <1>12, <1>13, <1>14, <1>15, Zenon DEF m

-----------------------------------------------------------------------------
\* The effective bytes of a number end with the highest that is not zero.
LEMMA EffectiveWidth ==
  ASSUME NEW n \in Nat
  PROVE  LET k == EffectiveBytes(n) IN
         /\ k \in 0 .. 8
         /\ k > 0 => Register(n)[k] # 0
         /\ \A i \in k + 1 .. 8 : Register(n)[i] = 0
<1> DEFINE r == Register(n)
           Ends(k) == /\ k > 0 => r[k] # 0
                      /\ \A i \in k + 1 .. 8 : r[i] = 0
<1> HIDE DEF r
<1>1. \E k \in 0 .. 8 : Ends(k)
  <2>1. CASE r[8] # 0
    <3>1. Ends(8)
      BY <2>1
    <3> QED BY <3>1
  <2>2. CASE r[7] # 0 /\ r[8] = 0
    <3>1. Ends(7)
      BY <2>2
    <3> QED BY <3>1
  <2>3. CASE r[6] # 0 /\ r[7] = 0 /\ r[8] = 0
    <3>1. Ends(6)
      BY <2>3
    <3> QED BY <3>1
  <2>4. CASE r[5] # 0 /\ r[6] = 0 /\ r[7] = 0 /\ r[8] = 0
    <3>1. Ends(5)
      BY <2>4
    <3> QED BY <3>1
  <2>5. CASE r[4] # 0 /\ r[5] = 0 /\ r[6] = 0 /\ r[7] = 0 /\ r[8] = 0
    <3>1. Ends(4)
      BY <2>5
    <3> QED BY <3>1
  <2>6. CASE r[3] # 0 /\ r[4] = 0 /\ r[5] = 0 /\ r[6] = 0 /\ r[7] = 0 /\ r[8] = 0
    <3>1. Ends(3)
      BY <2>6
    <3> QED BY <3>1
  <2>7. CASE r[2] # 0 /\ r[3] = 0 /\ r[4] = 0 /\ r[5] = 0 /\ r[6] = 0 /\ r[7] = 0 /\ r[8] = 0
    <3>1. Ends(2)
      BY <2>7
    <3> QED BY <3>1
  <2>8. CASE r[1] # 0 /\ r[2] = 0 /\ r[3] = 0 /\ r[4] = 0 /\ r[5] = 0 /\ r[6] = 0 /\ r[7] = 0 /\ r[8] = 0
    <3>1. Ends(1)
      BY <2>8
    <3> QED BY <3>1
  <2>9. CASE r[1] = 0 /\ r[2] = 0 /\ r[3] = 0 /\ r[4] = 0 /\ r[5] = 0 /\ r[6] = 0 /\ r[7] = 0 /\ r[8] = 0
    <3>1. Ends(0)
      BY <2>9
    <3> QED BY <3>1
  <2> HIDE DEF Ends
  <2> QED BY <2>1, <2>2, <2>3, <2>4, <2>5, <2>6, <2>7, <2>8, <2>9
<1>2. EffectiveBytes(n) = CHOOSE k \in 0 .. 8 : Ends(k)
  BY Zenon DEF EffectiveBytes, r
<1> HIDE DEF Ends
<1>3. EffectiveBytes(n) \in 0 .. 8 /\ Ends(EffectiveBytes(n))
  BY <1>1, <1>2, Zenon
<1> QED BY <1>3, Zenon DEF Ends, r

\* A size is read back as it was written, whatever follows it, and its last byte is
\* not zero unless it is the first.
LEMMA SizeRead ==
  ASSUME NEW n \in Int, FitsIn(IF n < 0 THEN -n ELSE n, 8), NEW rest \in Seq(Byte)
  PROVE  LET b == AutoSize(n) IN
         /\ b \in Seq(Byte)
         /\ FromAutoSize(b \o rest) = [value |-> n, cost |-> Len(b)]
         /\ Len(b) > 1 => b[Len(b)] # 0
<1> DEFINE size == IF n < 0 THEN -n ELSE n
<1>1. size \in Nat
  BY DEF FitsIn
<1>2. FitsIn(size, 8)
  OBVIOUS
<1>3. n = IF n < 0 THEN -size ELSE size
  OBVIOUS
<1> HIDE DEF size
<1>4. PICK width \in 0 .. 8 : width = EffectiveBytes(size)
  BY <1>1, EffectiveWidth, Zenon
<1>5. (width > 0 => Register(size)[width] # 0)
      /\ \A i \in width + 1 .. 8 : Register(size)[i] = 0
  BY <1>1, <1>4, EffectiveWidth, Zenon
<1> DEFINE head == IF n < 0 THEN width + 128 ELSE width
           L == LittleEndian(size, width)
           b == <<head>> \o L
           x == b \o rest
<1>6. head \in Byte /\ head % 128 = width /\ (head >= 128 <=> n < 0)
  BY DEF Byte
<1>7. AutoSize(n) = b
  BY <1>4, Zenon DEF AutoSize, size
<1> HIDE DEF head
<1>8. /\ L \in Seq(Byte) /\ Len(L) = width /\ FromLittleEndian(L) = size
      /\ \A i \in 1 .. width : L[i] = Register(size)[i]
  BY <1>1, <1>2, <1>5, RegisterRead
<1> HIDE DEF L
<1>9. <<head>> \in Seq(Byte) /\ Len(<<head>>) = 1 /\ <<head>>[1] = head
  BY <1>6
<1>10. PICK more \in Nat : more = Len(rest)
  BY LenProperties
<1>11. b \in Seq(Byte) /\ Len(b) = 1 + width /\ b[1] = head
       /\ \A i \in 1 .. width : b[1 + i] = L[i]
  <2>1. b \in Seq(Byte) /\ Len(b) = 1 + width
        /\ \A i \in 1 .. 1 + width : b[i] = IF i <= 1 THEN <<head>>[i] ELSE L[i - 1]
    BY <1>8, <1>9, ConcatProperties
  <2>2. b[1] = <<head>>[1]
    BY <2>1
  <2>3. ASSUME NEW i \in 1 .. width PROVE b[1 + i] = L[i]
    <3>1. 1 + i \in 1 .. 1 + width /\ ~(1 + i <= 1) /\ (1 + i) - 1 = i
      OBVIOUS
    <3> HIDE DEF b
    <3> QED BY <2>1, <3>1
  <2> QED BY <1>9, <2>1, <2>2, <2>3
<1>12. SubSeq(b, 2, 1 + width) = L
  <2>1. SubSeq(<<head>> \o L, Len(<<head>>) + 1, Len(<<head>>) + Len(L)) = L
    BY <1>8, <1>9, LastPart
  <2>2. 1 + 1 = 2
    OBVIOUS
  <2> QED BY <1>8, <1>9, <2>1, <2>2
<1> HIDE DEF b
<1>13. SubSeq(x, 2, 1 + width) = SubSeq(b, 2, 1 + width)
  <2>1. PICK len \in Nat : len = 1 + width /\ len = Len(b)
    BY <1>11
  <2>2. 2 \in 1 .. len + 1 /\ len \in 2 - 1 .. len
    BY <2>1
  <2> QED BY <1>11, <2>1, <2>2, FirstPart
<1>14. x[1] = head
  <2>1. \A i \in 1 .. Len(b) + Len(rest) :
          x[i] = IF i <= Len(b) THEN b[i] ELSE rest[i - Len(b)]
    BY <1>11, ConcatProperties
  <2>2. 1 \in 1 .. Len(b) + Len(rest) /\ 1 <= Len(b)
    BY <1>10, <1>11
  <2> HIDE DEF x
  <2> QED BY <1>11, <2>1, <2>2
<1> HIDE DEF x
<1>15. FromAutoSize(x) = [value |-> n, cost |-> Len(b)]
  <2>1. FromLittleEndian(SubSeq(x, 2, 1 + (x[1] % 128))) = size
    BY <1>6, <1>8, <1>12, <1>13, <1>14, Zenon
  <2>2. (IF x[1] >= 128 THEN -size ELSE size) = n
    BY <1>3, <1>6, <1>14
  <2>3. 1 + (x[1] % 128) = Len(b)
    BY <1>6, <1>11, <1>14, Zenon
  <2> QED BY <2>1, <2>2, <2>3, Zenon DEF FromAutoSize
<1>16. Len(b) > 1 => b[Len(b)] # 0
  <2>1. Len(b) > 1 => width \in 1 .. width /\ width > 0
    BY <1>11
  <2> QED BY <1>5, <1>8, <1>11, <2>1, Zenon
<1> QED BY <1>7, <1>11, <1>15, <1>16, Zenon DEF x

-----------------------------------------------------------------------------
\* The varint of a number of one byte: one group, or two.
LEMMA VarintBytes ==
  ASSUME NEW n \in Byte
  PROVE  VarintEncode(n) = IF n < 128 THEN <<n>> ELSE <<(n % 128) + 128, 1>>
<1> DEFINE n1 == n \div 128   n2 == n1 \div 128
           n3 == n2 \div 128  n4 == n3 \div 128
           groups == <<n, n1, n2, n3, n4>>
           Ends == {i \in 1 .. Len(groups) : (groups[i] \div 128) % 2 = 0}
           last == SelectInSeq(groups, LAMBDA group : (group \div 128) % 2 = 0)
<1>1. last = IF Ends # {} THEN Min(Ends) ELSE 0
  BY DEF SelectInSeq
<1>2. VarintEncode(n) = [i \in 1 .. last |->
                           IF i < last THEN VarintGroup(groups[i]) ELSE groups[i] % 256]
  BY DEF VarintEncode
<1>3. Len(groups) = 5 /\ groups[1] = n /\ groups[2] = n1
  OBVIOUS
<1> HIDE DEF last
<1>4. CASE n < 128
  <2>1. (n \div 128) % 2 = 0
    BY <1>4 DEF Byte
  <2> HIDE DEF groups, n1
  <2>2. 1 \in Ends /\ \A i \in Ends : 1 <= i /\ i \in Int
    BY <1>3, <2>1
  <2>3. Min(Ends) = 1
    BY <2>2 DEF Min
  <2>4. last = 1
    BY <1>1, <2>2, <2>3
  <2>5. n % 256 = n
    BY <1>4 DEF Byte
  <2>6. VarintEncode(n) = [i \in 1 .. 1 |-> n]
    BY <1>2, <1>3, <2>4, <2>5
  <2> QED BY <1>4, <2>6
<1>5. CASE ~(n < 128)
  <2>1. (n \div 128) % 2 = 1 /\ n1 = 1 /\ (n1 \div 128) % 2 = 0
    BY <1>5 DEF Byte
  <2> HIDE DEF groups, n1
  <2>2. 1 \notin Ends /\ 2 \in Ends /\ \A i \in Ends : i \in 1 .. 5
    BY <1>3, <2>1
  <2>3. \A i \in Ends : 2 <= i /\ i \in Int
    BY <2>2
  <2>4. Min(Ends) = 2
    BY <2>2, <2>3 DEF Min
  <2>5. last = 2
    BY <1>1, <2>2, <2>4
  <2>6. VarintEncode(n) = [i \in 1 .. 2 |-> IF i < 2 THEN (n % 128) + 128 ELSE 1]
    BY <1>2, <1>3, <2>1, <2>5 DEF VarintGroup
  <2> QED BY <1>5, <2>6
<1> QED BY <1>4, <1>5

\* What a byte of a varint says without its continuation bit.
LEMMA LowBits ==
  ASSUME NEW x \in Byte
  PROVE  x % 128 = IF x < 128 THEN x ELSE x - 128
BY DEF Byte

\* What is read where the first byte ends a varint, and where the second does.
LEMMA VarintOne ==
  ASSUME NEW b \in Seq(Byte), NEW x \in Byte, Len(b) >= 1, b[1] = x, x < 128
  PROVE  VarintDecode(b) = [value |-> x, bytes |-> 1]
<1> DEFINE Ends == {i \in 1 .. Len(b) : b[i] < 128}
           last == SelectInSeq(b, LAMBDA byte : byte < 128)
           group(i) == IF i <= last THEN b[i] % 128 ELSE 0
<1>1. last = IF Ends # {} THEN Min(Ends) ELSE 0
  BY DEF SelectInSeq
<1>2. VarintDecode(b) =
        [value |-> IF last > 10 THEN Overlong(SubSeq(b, 1, last))
                   ELSE group(1) + 128 * (group(2) + 128 * (group(3) + 128 *
                          (group(4) + 128 * (group(5) % 16)))),
         bytes |-> last % 256]
  BY DEF VarintDecode
<1> HIDE DEF last
<1>3. PICK len \in Nat : len = Len(b)
  BY LenProperties
<1>4. 1 \in Ends /\ \A i \in Ends : 1 <= i /\ i \in Int
  BY <1>3
<1>5. last = 1
  <2>1. Min(Ends) = 1
    BY <1>4 DEF Min
  <2> QED BY <1>1, <1>4, <2>1
<1>6. x % 128 = x
  BY LowBits, Zenon
<1>7. group(1) = x /\ group(2) = 0 /\ group(3) = 0 /\ group(4) = 0 /\ group(5) = 0
  <2>1. 1 <= 1 /\ ~(2 <= 1) /\ ~(3 <= 1) /\ ~(4 <= 1) /\ ~(5 <= 1)
    OBVIOUS
  <2> QED BY <1>5, <1>6, <2>1, Zenon
<1> HIDE DEF group
<1>8. x + 128 * (0 + 128 * (0 + 128 * (0 + 128 * (0 % 16)))) = x
  BY DEF Byte
<1>9. ~(last > 10) /\ last % 256 = 1
  BY <1>5
<1> QED BY <1>2, <1>7, <1>8, <1>9, Zenon

LEMMA VarintTwo ==
  ASSUME NEW b \in Seq(Byte), NEW x \in Byte, NEW y \in Byte,
         Len(b) >= 2, b[1] = x, b[2] = y, ~(x < 128), y < 128
  PROVE  VarintDecode(b) = [value |-> x - 128 + 128 * y, bytes |-> 2]
<1> DEFINE Ends == {i \in 1 .. Len(b) : b[i] < 128}
           last == SelectInSeq(b, LAMBDA byte : byte < 128)
           group(i) == IF i <= last THEN b[i] % 128 ELSE 0
<1>1. last = IF Ends # {} THEN Min(Ends) ELSE 0
  BY DEF SelectInSeq
<1>2. VarintDecode(b) =
        [value |-> IF last > 10 THEN Overlong(SubSeq(b, 1, last))
                   ELSE group(1) + 128 * (group(2) + 128 * (group(3) + 128 *
                          (group(4) + 128 * (group(5) % 16)))),
         bytes |-> last % 256]
  BY DEF VarintDecode
<1> HIDE DEF last
<1>3. PICK len \in Nat : len = Len(b)
  BY LenProperties
<1>4. 2 \in Ends /\ \A i \in Ends : 2 <= i /\ i \in Int
  <2>1. 2 \in Ends /\ \A i \in Ends : i \in 1 .. len
    BY <1>3
  <2>2. 1 \notin Ends
    BY Zenon
  <2>3. \A i \in 1 .. len : i = 1 \/ (2 <= i /\ i \in Int)
    OBVIOUS
  <2> HIDE DEF Ends
  <2> QED BY <2>1, <2>2, <2>3, Zenon
<1>5. last = 2
  <2>1. Min(Ends) = 2
    BY <1>4 DEF Min
  <2> QED BY <1>1, <1>4, <2>1
<1>6. x % 128 = x - 128 /\ y % 128 = y
  BY LowBits, Zenon
<1>7. group(1) = x - 128 /\ group(2) = y /\ group(3) = 0 /\ group(4) = 0 /\ group(5) = 0
  <2>1. 1 <= 2 /\ 2 <= 2 /\ ~(3 <= 2) /\ ~(4 <= 2) /\ ~(5 <= 2)
    OBVIOUS
  <2> QED BY <1>5, <1>6, <2>1, Zenon
<1> HIDE DEF group
<1>8. x - 128 + 128 * (y + 128 * (0 + 128 * (0 + 128 * (0 % 16)))) = x - 128 + 128 * y
  <2>1. PICK u \in Int : u = x - 128
    BY DEF Byte
  <2>2. y \in Int
    BY DEF Byte
  <2>3. u + 128 * (y + 128 * (0 + 128 * (0 + 128 * (0 % 16)))) = u + 128 * y
    BY ONLY <2>2, u \in Int
  <2> QED BY <2>1, <2>3, Zenon
<1>9. ~(last > 10) /\ last % 256 = 2
  BY <1>5
<1> QED BY <1>2, <1>7, <1>8, <1>9, Zenon

\* A number of one byte is read back as it was written, whatever follows it.
LEMMA VarintRead ==
  ASSUME NEW n \in Byte, NEW rest \in Seq(Byte)
  PROVE  /\ VarintEncode(n) \in Seq(Byte)
         /\ VarintDecode(VarintEncode(n) \o rest) =
              [value |-> n, bytes |-> Len(VarintEncode(n))]
<1> DEFINE e == VarintEncode(n)
           b == e \o rest
<1>1. e = IF n < 128 THEN <<n>> ELSE <<(n % 128) + 128, 1>>
  BY VarintBytes
<1> HIDE DEF e
<1>2. PICK more \in Nat : more = Len(rest)
  BY LenProperties
<1>3. CASE n < 128
  <2>1. e \in Seq(Byte) /\ Len(e) = 1 /\ e[1] = n
    BY <1>1, <1>3
  <2>2. b \in Seq(Byte) /\ Len(b) = 1 + Len(rest) /\ b[1] = n
    BY <1>2, <2>1, ConcatProperties
  <2> HIDE DEF b
  <2>3. VarintDecode(b) = [value |-> n, bytes |-> 1]
    <3>1. Len(b) >= 1
      BY <1>2, <2>2
    <3> QED BY <1>3, <2>2, <3>1, VarintOne, Zenon
  <2> QED BY <2>1, <2>3, Zenon DEF b, e
<1>4. CASE ~(n < 128)
  <2>1. (n % 128) + 128 = n /\ n \in Byte /\ 1 \in Byte /\ n - 128 + 128 * 1 = n
    BY <1>4 DEF Byte
  <2>2. e \in Seq(Byte) /\ Len(e) = 2 /\ e[1] = n /\ e[2] = 1
    BY <1>1, <1>4, <2>1
  <2>3. b \in Seq(Byte) /\ Len(b) = 2 + Len(rest) /\ b[1] = n /\ b[2] = 1
    <3>1. /\ b \in Seq(Byte) /\ Len(b) = Len(e) + Len(rest)
          /\ \A i \in 1 .. Len(e) + Len(rest) :
               b[i] = IF i <= Len(e) THEN e[i] ELSE rest[i - Len(e)]
      BY <2>2, ConcatProperties, ZenonT(40)
    <3> HIDE DEF b
    <3>2. \A i \in 1 .. 2 : b[i] = e[i]
      BY <1>2, <2>2, <3>1
    <3> QED BY <2>2, <3>1, <3>2
  <2> HIDE DEF b
  <2>4. Len(b) >= 2 /\ 1 < 128
    BY <1>2, <2>3
  <2>5. VarintDecode(b) = [value |-> n - 128 + 128 * 1, bytes |-> 2]
    BY <1>4, <2>1, <2>3, <2>4, VarintTwo, Zenon
  <2> QED BY <2>1, <2>2, <2>5, Zenon DEF b, e
<1> QED BY <1>3, <1>4

\* Where a varint of one byte's number is cut short, the zero byte behind it ends it.
LEMMA VarintCut ==
  ASSUME NEW n \in Byte, NEW j \in 0 .. Len(VarintEncode(n)) - 1
  PROVE  LET cut == SubSeq(VarintEncode(n), 1, j) IN
         /\ cut \in Seq(Byte) /\ Len(cut) = j
         /\ VarintDecode(Memory(cut)).value \in Byte
         /\ VarintDecode(Memory(cut)).bytes = j + 1
<1> DEFINE e == VarintEncode(n)
           cut == SubSeq(e, 1, j)
           m == Memory(cut)
<1>1. e = IF n < 128 THEN <<n>> ELSE <<(n % 128) + 128, 1>>
  BY VarintBytes
<1> HIDE DEF e
<1>2. (n % 128) + 128 \in Byte /\ (n % 128) + 128 >= 128 /\ 0 \in Byte /\ 1 \in Byte
      /\ (n % 128) + 128 - 128 + 128 * 0 \in Byte
  BY DEF Byte
<1>3. j = 0 \/ (j = 1 /\ e = <<(n % 128) + 128, 1>>)
  <2>1. j \in 0 .. Len(e) - 1
    BY DEF e
  <2>2. CASE n < 128
    <3>1. Len(e) = 1
      BY <1>1, <2>2
    <3> QED BY <2>1, <3>1
  <2>3. CASE ~(n < 128)
    <3>1. e = <<(n % 128) + 128, 1>> /\ Len(e) = 2
      BY <1>1, <2>3
    <3> QED BY <2>1, <3>1
  <2> QED BY <2>2, <2>3
<1>4. m = cut \o <<0>> /\ <<0>> \in Seq(Byte) /\ Len(<<0>>) = 1 /\ <<0>>[1] = 0
  BY <1>2 DEF Memory
<1> HIDE DEF m
<1>5. CASE j = 0
  <2>1. cut = <<>>
    BY <1>5, SubSeqEmpty
  <2>2. cut \in Seq(Byte) /\ Len(cut) = 0
    <3>1. <<>> \in Seq(Byte) /\ Len(<<>>) = 0
      OBVIOUS
    <3> QED BY <2>1, <3>1, Zenon
  <2>3. m = <<0>>
    <3>1. <<>> \o <<0>> = <<0>>
      BY <1>4, ConcatEmptySeq, Zenon
    <3> QED BY <1>4, <2>1, <3>1, Zenon
  <2>4. m \in Seq(Byte) /\ Len(m) = 1 /\ m[1] = 0
    BY <1>4, <2>3
  <2>5. VarintDecode(m) = [value |-> 0, bytes |-> 1]
    <3>1. Len(m) >= 1 /\ 0 < 128
      BY <2>4
    <3> QED BY <1>2, <2>4, <3>1, VarintOne, Zenon
  <2> QED BY <1>2, <1>5, <2>2, <2>5 DEF m, cut, e
<1>6. CASE j = 1 /\ e = <<(n % 128) + 128, 1>>
  <2> DEFINE x == (n % 128) + 128
  <2>1. x \in Byte /\ x >= 128 /\ x - 128 + 128 * 0 \in Byte /\ e = <<x, 1>>
    <3>1. x \in Byte /\ x >= 128 /\ x - 128 + 128 * 0 \in Byte
      BY DEF Byte
    <3>2. e = <<x, 1>>
      BY <1>6
    <3> QED BY <3>1, <3>2, Zenon
  <2> HIDE DEF x
  <2>2. e \in Seq(Byte) /\ Len(e) = 2 /\ e[1] = x
    BY <1>2, <2>1
  <2>3. cut \in Seq(Byte) /\ Len(cut) = 1 /\ cut[1] = x
    <3>1. \A i \in 1 .. 1 : e[i] \in Byte
      BY <2>2
    <3>2. /\ SubSeq(e, 1, 1) \in Seq(Byte)
          /\ Len(SubSeq(e, 1, 1)) = IF 1 <= 1 THEN 1 - 1 + 1 ELSE 0
          /\ \A i \in 1 .. 1 - 1 + 1 : SubSeq(e, 1, 1)[i] = e[1 + i - 1]
      BY <3>1, SubSeqProperties
    <3>3. cut = SubSeq(e, 1, 1)
      BY <1>6
    <3> HIDE DEF cut
    <3> QED BY <2>2, <3>2, <3>3
  <2> HIDE DEF cut
  <2>4. m \in Seq(Byte) /\ Len(m) = 2 /\ m[1] = x /\ m[2] = 0
    <3> DEFINE z == <<0>>
    <3>1. z \in Seq(Byte) /\ Len(z) = 1 /\ z[1] = 0 /\ m = cut \o z
      BY <1>4
    <3> HIDE DEF z
    <3>2. /\ m \in Seq(Byte) /\ Len(m) = Len(cut) + Len(z)
          /\ \A i \in 1 .. Len(cut) + Len(z) :
               m[i] = IF i <= Len(cut) THEN cut[i] ELSE z[i - Len(cut)]
      BY <2>3, <3>1, ConcatProperties, ZenonT(40)
    <3> QED BY <2>3, <3>1, <3>2
  <2>5. VarintDecode(m) = [value |-> x - 128 + 128 * 0, bytes |-> 2]
    <3>1. Len(m) >= 2 /\ ~(x < 128) /\ 0 < 128
      BY <2>1, <2>4 DEF Byte
    <3> QED BY <1>2, <2>1, <2>4, <3>1, VarintTwo, Zenon
  <2> QED BY <1>6, <2>1, <2>3, <2>5 DEF m, cut, e
<1> QED BY <1>3, <1>5, <1>6

\* A number and a length of one byte each are read, whatever follows them in the
\* package: it is refused where that has no room for the command and the type.
LEMMA VarintHead ==
  ASSUME NEW seq \in Byte, NEW c \in Byte, NEW rest \in Seq(Byte)
  PROVE  DeserializeVarint(VarintEncode(seq) \o (VarintEncode(c) \o rest))
           = IF Len(rest) < c + 1 THEN [ok |-> FALSE]
             ELSE [ok |-> TRUE,
                   msg |-> [seq |-> seq, cmd |-> SubSeq(rest, 1, c), type |-> rest[c + 1],
                            data |-> SubSeq(rest, c + 2, Len(rest))]]
<1> DEFINE A == VarintEncode(seq)
           B == VarintEncode(c)
           Z == <<0>>
           after == B \o rest
           p == A \o after
           tail == B \o (rest \o Z)
<1>1. A \in Seq(Byte) /\ B \in Seq(Byte) /\ Z \in Seq(Byte) /\ Len(Z) = 1
  <2>1. Z \in Seq(Byte) /\ Len(Z) = 1
    BY DEF Byte
  <2> QED BY <2>1, VarintRead, Zenon
<1> HIDE DEF A, B, Z
<1>2. rest \o Z \in Seq(Byte) /\ after \in Seq(Byte)
  BY <1>1, ConcatProperties, Zenon
<1>3. p \in Seq(Byte) /\ tail \in Seq(Byte) /\ A \o B \in Seq(Byte)
  BY <1>1, <1>2, ConcatProperties, Zenon
<1>4. Memory(p) = A \o tail /\ p = (A \o B) \o rest
  <2>1. Memory(p) = (A \o after) \o Z
    BY Zenon DEF Memory, Z
  <2>2. (A \o after) \o Z = A \o (after \o Z)
    BY <1>1, <1>2, BytesAssociative, Zenon
  <2>3. after \o Z = tail
    BY <1>1, BytesAssociative, Zenon
  <2>4. (A \o B) \o rest = p
    BY <1>1, BytesAssociative, Zenon
  <2> QED BY <2>1, <2>2, <2>3, <2>4, Zenon
<1>5. PICK a \in Nat : a = Len(A)
  BY <1>1, LenProperties
<1>6. PICK b \in Nat : b = Len(B)
  BY <1>1, LenProperties
<1>7. PICK r \in Nat : r = Len(rest)
  BY LenProperties
<1>8. Len(p) = a + b + r /\ Len(A \o B) = a + b /\ Len(tail) = b + (r + 1)
  <2>1. Len(A \o B) = Len(A) + Len(B) /\ Len(p) = Len(A \o B) + Len(rest)
    BY <1>1, <1>3, <1>4, ConcatProperties, Zenon
  <2>2. Len(rest \o Z) = Len(rest) + Len(Z) /\ Len(tail) = Len(B) + Len(rest \o Z)
    BY <1>1, <1>2, ConcatProperties, Zenon
  <2> HIDE DEF p, tail
  <2> QED BY <1>1, <1>5, <1>6, <1>7, <2>1, <2>2
<1>9. VarintDecode(Memory(p)) = [value |-> seq, bytes |-> a]
  BY <1>3, <1>4, <1>5, VarintRead, Zenon DEF A
<1>10. VarintDecode(tail) = [value |-> c, bytes |-> b]
  BY <1>2, <1>6, VarintRead, Zenon DEF B
<1> HIDE DEF p, tail, after
<1>11. SubSeq(Memory(p), a + 1, Len(p) + 1) = tail
  <2>1. Len(tail) \in Nat /\ a + Len(tail) = Len(p) + 1
    BY <1>8
  <2>2. SubSeq(A \o tail, Len(A) + 1, Len(A) + Len(tail)) = tail
    BY <1>1, <1>3, <1>5, <2>1, LastPart, Zenon
  <2> QED BY <1>4, <1>5, <2>1, <2>2, Zenon
<1>12. SubSeq(p, a + b + 1, Len(p)) = rest
  <2>1. SubSeq((A \o B) \o rest, Len(A \o B) + 1, Len(A \o B) + Len(rest)) = rest
    <3>1. Len(A \o B) \in Nat
      BY <1>8
    <3> QED BY <1>3, <1>7, <3>1, LastPart, Zenon
  <2> QED BY <1>4, <1>7, <1>8, <2>1, Zenon
<1>13. UInt16(c) = c
  BY SMTT(30) DEF UInt16, Byte
<1> DEFINE first == VarintDecode(Memory(p))
           len == VarintDecode(SubSeq(Memory(p), first.bytes + 1, Len(p) + 1))
<1>14. DeserializeVarint(p) =
         LET cmdLen == UInt16(len.value)
             start == first.bytes + len.bytes
             left == SubSeq(p, start + 1, Len(p))
         IN IF Len(p) < start + cmdLen + 1 THEN [ok |-> FALSE]
            ELSE [ok |-> TRUE,
                  msg |-> [seq |-> first.value,
                           cmd |-> SubSeq(left, 1, cmdLen),
                           type |-> left[cmdLen + 1],
                           data |-> SubSeq(left, cmdLen + 2, Len(left))]]
  BY Zenon DEF DeserializeVarint
<1>15. first.value = seq /\ first.bytes = a
  BY <1>9
<1>16. len = VarintDecode(tail)
  BY <1>11, <1>15, Zenon
<1> HIDE DEF first, len
<1>17. len.value = c /\ len.bytes = b
  BY <1>10, <1>16
<1>18. Len(p) < a + b + c + 1 <=> Len(rest) < c + 1
  BY <1>7, <1>8 DEF Byte
<1>19. DeserializeVarint(p) =
         IF Len(p) < a + b + c + 1 THEN [ok |-> FALSE]
         ELSE [ok |-> TRUE,
               msg |-> [seq |-> seq, cmd |-> SubSeq(rest, 1, c), type |-> rest[c + 1],
                        data |-> SubSeq(rest, c + 2, Len(rest))]]
  BY <1>12, <1>13, <1>14, <1>15, <1>17, Zenon
<1> QED BY <1>18, <1>19, Zenon DEF p, after, A, B

\* The fields of a package lie behind its two varints, and are found there.
ReadBack(seq, cmd, type, data) ==
  /\ cmd \o <<type>> \o data \in Seq(Byte)
  /\ Len(cmd \o <<type>> \o data) = Len(cmd) + 1 + Len(data)
  /\ VarintEncode(seq) \o VarintEncode(Len(cmd)) \o cmd \o <<type>> \o data
       = VarintEncode(seq) \o (VarintEncode(Len(cmd)) \o (cmd \o <<type>> \o data))
  /\ DeserializeVarint(VarintEncode(seq) \o VarintEncode(Len(cmd)) \o cmd
                         \o <<type>> \o data)
       = [ok |-> TRUE,
          msg |-> [seq |-> seq, cmd |-> cmd, type |-> type, data |-> data]]

\* Of every package whose number and command length fit a byte.
LEMMA VarintFieldsRead ==
  ASSUME NEW seq \in Byte, NEW cmd \in Seq(Byte), Len(cmd) \in Byte,
         NEW type \in Byte, NEW data \in Seq(Byte)
  PROVE  ReadBack(seq, cmd, type, data)
<1>1. PICK c \in Nat : c = Len(cmd)
  BY LenProperties
<1>2. PICK d \in Nat : d = Len(data)
  BY LenProperties
<1> DEFINE A == VarintEncode(seq)
           B == VarintEncode(Len(cmd))
           T == <<type>>
           rest == cmd \o T \o data
           p == A \o B \o cmd \o T \o data
<1>4. A \in Seq(Byte) /\ B \in Seq(Byte)
  BY <<>> \in Seq(Byte), VarintRead
<1>5. T \in Seq(Byte)
  OBVIOUS
<1> HIDE DEF A, B, T
<1>6. cmd \o T \in Seq(Byte) /\ rest \in Seq(Byte)
  <2>1. cmd \o T \in Seq(Byte)
    BY <1>5, ConcatProperties, Zenon
  <2> QED BY <2>1, ConcatProperties, Zenon
<1>7. p = A \o (B \o rest)
  <2>1. Regroups(A, B, cmd, T, data)
    BY <1>4, <1>5, Regrouped, Zenon
  <2> QED BY <2>1, Zenon DEF Regroups
<1> HIDE DEF p
<1>10. Found(rest, <<>>, <<>>, cmd, type, data)
  <2>1. <<>> \in Seq(Byte)
    OBVIOUS
  <2>2. Joined(<<>>, <<>>, cmd, type, data) = rest
    <3>1. <<>> \o <<>> = <<>> /\ <<>> \o cmd = cmd
      BY <2>1, ConcatEmptySeq, Zenon
    <3> QED BY <3>1, Zenon DEF Joined, T
  <2> QED BY <2>1, <2>2, FiveParts, Zenon
<1> HIDE DEF rest
<1>11. /\ Len(rest) = c + 1 + d /\ SubSeq(rest, 1, c) = cmd
       /\ rest[c + 1] = type /\ SubSeq(rest, c + 2, c + 1 + d) = data
  <2>1. /\ Len(rest) = 0 + 0 + c + 1 + d
        /\ SubSeq(rest, 0 + 0 + 1, 0 + 0 + c) = cmd
        /\ rest[0 + 0 + c + 1] = type
        /\ SubSeq(rest, 0 + 0 + c + 2, 0 + 0 + c + 1 + d) = data
    <3>1. Len(<<>>) = 0
      OBVIOUS
    <3> QED BY <1>1, <1>2, <1>10, <3>1, Zenon DEF Found
  <2>2. /\ 0 + 0 + c + 1 + d = c + 1 + d /\ 0 + 0 + 1 = 1 /\ 0 + 0 + c = c
        /\ 0 + 0 + c + 1 = c + 1 /\ 0 + 0 + c + 2 = c + 2
    OBVIOUS
  <2> QED BY <2>1, <2>2, Zenon
<1>12. DeserializeVarint(p)
         = IF Len(rest) < c + 1 THEN [ok |-> FALSE]
           ELSE [ok |-> TRUE,
                 msg |-> [seq |-> seq, cmd |-> SubSeq(rest, 1, c), type |-> rest[c + 1],
                          data |-> SubSeq(rest, c + 2, Len(rest))]]
  BY <1>1, <1>6, <1>7, VarintHead, Zenon DEF A, B
<1>13. ~(Len(rest) < c + 1)
  <2>1. ~(c + 1 + d < c + 1)
    OBVIOUS
  <2> QED BY <1>11, <2>1, Zenon
<1>14. DeserializeVarint(p) =
         [ok |-> TRUE, msg |-> [seq |-> seq, cmd |-> cmd, type |-> type, data |-> data]]
  BY <1>11, <1>12, <1>13, Zenon
<1> QED BY <1>1, <1>2, <1>6, <1>7, <1>11, <1>14, Zenon DEF ReadBack, p, rest, A, B, T

-----------------------------------------------------------------------------
\* Packages cut short before the type byte.
LEMMA VarintNone == VarintDecode(<<>>) = [value |-> 0, bytes |-> 0]
<1> DEFINE b == <<>>
           Ends == {i \in 1 .. Len(b) : b[i] < 128}
           last == SelectInSeq(b, LAMBDA byte : byte < 128)
           group(i) == IF i <= last THEN b[i] % 128 ELSE 0
<1>1. last = IF Ends # {} THEN Min(Ends) ELSE 0
  BY DEF SelectInSeq
<1>2. VarintDecode(b) =
        [value |-> IF last > 10 THEN Overlong(SubSeq(b, 1, last))
                   ELSE group(1) + 128 * (group(2) + 128 * (group(3) + 128 *
                          (group(4) + 128 * (group(5) % 16)))),
         bytes |-> last % 256]
  BY DEF VarintDecode
<1>3. Ends = {}
  OBVIOUS
<1> HIDE DEF last
<1>4. last = 0
  BY <1>1, <1>3
<1>5. group(1) = 0 /\ group(2) = 0 /\ group(3) = 0 /\ group(4) = 0 /\ group(5) = 0
  BY <1>4
<1> HIDE DEF group
<1>6. group(1) + 128 * (group(2) + 128 * (group(3) + 128 *
                          (group(4) + 128 * (group(5) % 16)))) = 0
  BY <1>5
<1>7. ~(last > 10) /\ last % 256 = 0
  BY <1>4
<1> QED BY <1>2, <1>6, <1>7

LEMMA VarintRefuses ==
  ASSUME NEW q, NEW first, NEW len,
         first = VarintDecode(Memory(q)),
         len = VarintDecode(SubSeq(Memory(q), first.bytes + 1, Len(q) + 1)),
         Len(q) < first.bytes + len.bytes + UInt16(len.value) + 1
  PROVE  ~DeserializeVarint(q).ok
<1>1. DeserializeVarint(q) = [ok |-> FALSE]
  BY Zenon DEF DeserializeVarint
<1> QED BY <1>1

LEMMA FrontOfConcat ==
  ASSUME NEW s \in Seq(Byte), NEW t \in Seq(Byte), NEW j \in 0 .. Len(t)
  PROVE  /\ SubSeq(t, 1, j) \in Seq(Byte) /\ Len(SubSeq(t, 1, j)) = j
         /\ SubSeq(s \o t, 1, Len(s) + j) = s \o SubSeq(t, 1, j)
<1>1. PICK a \in Nat : a = Len(s)
  BY LenProperties
<1>2. PICK b \in Nat : b = Len(t)
  BY LenProperties
<1> DEFINE st == s \o t
           front == SubSeq(t, 1, j)
           left == SubSeq(st, 1, a + j)
           right == s \o front
<1>3. \A i \in 1 .. b : t[i] \in Byte
  BY <1>2
<1>4. front \in Seq(Byte) /\ Len(front) = j /\ \A i \in 1 .. j : front[i] = t[i]
  BY <1>2, <1>3, SubSeqProperties
<1>5. st \in Seq(Byte) /\ Len(st) = a + b
      /\ \A i \in 1 .. a + b : st[i] = IF i <= a THEN s[i] ELSE t[i - a]
  BY <1>1, <1>2, ConcatProperties, ZenonT(40)
<1> HIDE DEF front, st
<1>6. right \in Seq(Byte) /\ Len(right) = a + j
      /\ \A i \in 1 .. a + j : right[i] = IF i <= a THEN s[i] ELSE front[i - a]
  BY <1>1, <1>4, ConcatProperties, ZenonT(40)
<1>7. \A i \in 1 .. a + j : st[i] \in Byte
  BY <1>2, <1>5
<1>8. left \in Seq(Byte) /\ Len(left) = a + j /\ \A i \in 1 .. a + j : left[i] = st[i]
  BY <1>2, <1>7, SubSeqProperties
<1> HIDE DEF left, right
<1>9. \A i \in 1 .. a + j : left[i] = right[i]
  <2> SUFFICES ASSUME NEW i \in 1 .. a + j PROVE left[i] = right[i]
    OBVIOUS
  <2>1. left[i] = st[i] /\ i \in 1 .. a + b
    BY <1>2, <1>8
  <2>2. CASE i <= a
    BY <1>5, <1>6, <2>1, <2>2
  <2>3. CASE ~(i <= a)
    <3>1. i - a \in 1 .. j
      BY <2>3
    <3>2. front[i - a] = t[i - a]
      BY <1>4, <3>1
    <3> QED BY <1>5, <1>6, <2>1, <2>3, <3>2
  <2> QED BY <2>2, <2>3
<1>10. left = right
  <2>1. Len(left) = Len(right)
    BY <1>6, <1>8, Zenon
  <2>2. \A i \in 1 .. Len(left) : left[i] = right[i]
    BY <1>8, <1>9, Zenon
  <2> QED BY <1>6, <1>8, <2>1, <2>2, SeqEqual, Zenon
<1> QED BY <1>1, <1>4, <1>10, Zenon DEF left, right, st, front

\* The package ends inside the number.
LEMMA NumberCut ==
  ASSUME NEW n \in Byte, NEW rest \in Seq(Byte),
         NEW k \in 0 .. Len(VarintEncode(n)) - 1
  PROVE  ~DeserializeVarint(SubSeq(VarintEncode(n) \o rest, 1, k)).ok
<1> DEFINE A == VarintEncode(n)
           q == SubSeq(A, 1, k)
           first == VarintDecode(Memory(q))
<1>1. A \in Seq(Byte)
  BY VarintRead
<1>2. q \in Seq(Byte) /\ Len(q) = k /\ first.bytes = k + 1
  BY VarintCut, Zenon
<1>3. PICK a \in Nat : a = Len(A)
  BY <1>1, LenProperties
<1>4. SubSeq(A \o rest, 1, k) = q
  <2>1. 1 \in 1 .. a + 1 /\ k \in 1 - 1 .. a
    BY <1>3
  <2> QED BY <1>1, <1>3, <2>1, FirstPart
<1> HIDE DEF first, q
<1>5. SubSeq(Memory(q), first.bytes + 1, Len(q) + 1) = <<>>
  BY <1>2, SubSeqEmpty
<1>6. Len(q) < first.bytes + 0 + UInt16(0) + 1
  BY <1>2 DEF UInt16
<1>7. ~DeserializeVarint(q).ok
  <2> DEFINE len == VarintDecode(<<>>)
  <2>1. len.bytes = 0 /\ len.value = 0
    BY VarintNone
  <2>2. len = VarintDecode(SubSeq(Memory(q), first.bytes + 1, Len(q) + 1))
    BY <1>5, Zenon
  <2> HIDE DEF len
  <2>3. Len(q) < first.bytes + len.bytes + UInt16(len.value) + 1
    BY <1>6, <2>1, Zenon
  <2> QED BY <2>2, <2>3, VarintRefuses, Zenon DEF first
<1> QED BY <1>4, <1>7, Zenon

\* The package ends inside the length of the command.
LEMMA LengthCut ==
  ASSUME NEW n \in Byte, NEW c \in Byte,
         NEW j \in 0 .. Len(VarintEncode(c)) - 1
  PROVE  ~DeserializeVarint(VarintEncode(n) \o SubSeq(VarintEncode(c), 1, j)).ok
<1> DEFINE A == VarintEncode(n)
           cut == SubSeq(VarintEncode(c), 1, j)
           q == A \o cut
           first == VarintDecode(Memory(q))
           len == VarintDecode(Memory(cut))
           Z == <<0>>
<1>1. A \in Seq(Byte) /\ Z \in Seq(Byte) /\ Len(Z) = 1
  <2>1. Z \in Seq(Byte) /\ Len(Z) = 1
    BY DEF Byte
  <2> QED BY <2>1, VarintRead, Zenon
<1>2. cut \in Seq(Byte) /\ Len(cut) = j /\ len.value \in Byte /\ len.bytes = j + 1
  BY VarintCut, Zenon
<1>3. PICK a \in Nat : a = Len(A)
  BY <1>1, LenProperties
<1> HIDE DEF cut, len, Z
<1>4. /\ q \in Seq(Byte) /\ Len(q) = Len(A) + Len(cut)
      /\ cut \o Z \in Seq(Byte) /\ Len(cut \o Z) = Len(cut) + Len(Z)
  BY <1>1, <1>2, ConcatProperties, Zenon
<1>5. Memory(q) = A \o (cut \o Z)
  BY <1>1, <1>2, BytesAssociative, Zenon DEF Memory, Z
<1>6. first.bytes = a
  <2>1. first = [value |-> n, bytes |-> a]
    BY <1>3, <1>4, <1>5, VarintRead, Zenon
  <2> QED BY <2>1
<1> HIDE DEF first, q
<1>7. SubSeq(Memory(q), first.bytes + 1, Len(q) + 1) = Memory(cut)
  <2>1. Len(cut \o Z) \in Nat /\ a + Len(cut \o Z) = Len(q) + 1
    BY <1>1, <1>2, <1>3, <1>4
  <2>2. SubSeq(A \o (cut \o Z), Len(A) + 1, Len(A) + Len(cut \o Z)) = cut \o Z
    BY <1>1, <1>3, <1>4, <2>1, LastPart, Zenon
  <2> QED BY <1>3, <1>5, <1>6, <2>1, <2>2, Zenon DEF Memory, Z
<1>8. Len(q) < first.bytes + len.bytes + UInt16(len.value) + 1
  <2>1. PICK v \in Byte : v = len.value
    BY <1>2
  <2>2. UInt16(v) \in Nat
    BY DEF UInt16, Byte
  <2>3. Len(q) = a + j /\ first.bytes + len.bytes = a + j + 1
    BY <1>2, <1>3, <1>4, <1>6
  <2>4. Len(q) < first.bytes + len.bytes + UInt16(v) + 1
    BY <2>2, <2>3
  <2> QED BY <2>1, <2>4, Zenon
<1>9. len = VarintDecode(SubSeq(Memory(q), first.bytes + 1, Len(q) + 1))
  BY <1>7, Zenon DEF len
<1> QED BY <1>8, <1>9, VarintRefuses, Zenon DEF first, q, cut

\* The places before the type byte.
LEMMA BeforeType ==
  ASSUME NEW a \in Nat, NEW b \in Nat, NEW c \in Nat, NEW d \in Nat,
         NEW k \in 0 .. (a + (b + (c + 1 + d))) - d - 1
  PROVE  k \in Nat /\ k <= a + b + c
OBVIOUS

\* Wherever it ends before its type byte, it is refused.
LEMMA VarintShort ==
  ASSUME NEW n \in Byte, NEW c \in Byte, NEW rest \in Seq(Byte), Len(rest) > c,
         NEW k \in Nat, k <= Len(VarintEncode(n)) + Len(VarintEncode(c)) + c
  PROVE  ~DeserializeVarint(
            SubSeq(VarintEncode(n) \o (VarintEncode(c) \o rest), 1, k)).ok
<1> DEFINE A == VarintEncode(n)
           B == VarintEncode(c)
           after == B \o rest
<1>1. A \in Seq(Byte) /\ B \in Seq(Byte)
  BY VarintRead
<1>2. PICK a \in Nat : a = Len(A)
  BY <1>1, LenProperties
<1>3. PICK b \in Nat : b = Len(B)
  BY <1>1, LenProperties
<1>4. PICK r \in Nat : r = Len(rest)
  BY LenProperties
<1> HIDE DEF A, B
<1>5. after \in Seq(Byte) /\ Len(after) = b + r
  BY <1>1, <1>3, <1>4, ConcatProperties
<1> HIDE DEF after
<1>6. c \in Nat /\ r > c /\ k <= a + b + c
  BY <1>2, <1>3, <1>4 DEF Byte, A, B
<1>7. CASE k < a
  <2>1. k \in 0 .. Len(A) - 1
    BY <1>2, <1>7
  <2> QED BY <1>5, <2>1, NumberCut, Zenon DEF A, B, after
<1>8. CASE ~(k < a) /\ k < a + b
  <2>1. PICK j \in Nat : k = a + j /\ j < b
    BY <1>8
  <2>2. j \in 0 .. Len(after) /\ j \in 0 .. Len(B) - 1 /\ Len(A) + j = k
    BY <1>2, <1>3, <1>5, <2>1
  <2>3. SubSeq(A \o after, 1, k) = A \o SubSeq(after, 1, j)
    BY <1>1, <1>5, <2>2, FrontOfConcat, Zenon
  <2>4. SubSeq(after, 1, j) = SubSeq(B, 1, j)
    <3>1. 1 \in 1 .. b + 1 /\ j \in 1 - 1 .. b
      BY <2>1
    <3> QED BY <1>1, <1>3, <3>1, FirstPart DEF after
  <2> QED BY <2>2, <2>3, <2>4, LengthCut, Zenon DEF A, B, after
<1>9. CASE ~(k < a + b)
  <2>1. PICK j \in Nat : k = a + (b + j) /\ j <= c
    BY <1>6, <1>9
  <2>2. /\ b + j \in 0 .. Len(after) /\ j \in 0 .. Len(rest)
        /\ Len(A) + (b + j) = k /\ Len(B) + j = b + j
    BY <1>2, <1>3, <1>4, <1>5, <1>6, <2>1
  <2>3. SubSeq(A \o after, 1, k) = A \o SubSeq(after, 1, b + j)
    BY <1>1, <1>5, <2>2, FrontOfConcat, Zenon
  <2> DEFINE short == SubSeq(rest, 1, j)
  <2>4. short \in Seq(Byte) /\ Len(short) = j
        /\ SubSeq(after, 1, b + j) = B \o short
    <3>1. SubSeq(B \o rest, 1, Len(B) + j) = B \o short
      BY <1>1, <2>2, FrontOfConcat, Zenon
    <3>2. short \in Seq(Byte) /\ Len(short) = j
      BY <2>2, FrontOfConcat, Zenon
    <3>3. SubSeq(after, 1, b + j) = B \o short
      BY <2>2, <3>1, Zenon DEF after
    <3> QED BY <3>2, <3>3, Zenon
  <2> HIDE DEF short
  <2>5. Len(short) < c + 1
    BY <1>6, <2>1, <2>4
  <2>6. DeserializeVarint(A \o (B \o short)) = [ok |-> FALSE]
    BY <2>4, <2>5, VarintHead, Zenon DEF A, B
  <2>7. ~DeserializeVarint(A \o (B \o short)).ok
    BY <2>6
  <2> QED BY <2>3, <2>4, <2>7, Zenon DEF A, B, after
<1> QED BY <1>7, <1>8, <1>9
-----------------------------------------------------------------------------
\* What a state is: one number, one package and one payload within the constants.
LEMMA Inputs ==
  ASSUME CodecInit
  PROVE  /\ number \in Numbers
         /\ package \in Packages
         /\ payload \in Seq(Byte)
<1>1. OnePackage \in Packages
  <2>1. PICK type \in Types : TRUE
    BY CodecAssumption
  <2> DEFINE m == [seq |-> 0, cmd |-> <<>>, type |-> type, data |-> <<>>]
  <2>2. m \in Packages /\ m.seq = 0 /\ m.cmd = <<>> /\ m.data = <<>>
    BY CodecAssumption DEF Packages
  <2> HIDE DEF m
  <2>3. \E q \in Packages : q.seq = 0 /\ q.cmd = <<>> /\ q.data = <<>>
    BY <2>2
  <2> QED BY <2>3, Zenon DEF OnePackage
<1>2. 0 \in Numbers /\ <<>> \in Seq(Byte)
  BY CodecAssumption
<1>3. payload \in Payloads => payload \in Seq(Byte)
  BY CodecAssumption
<1> QED BY <1>1, <1>2, <1>3, Zenon DEF CodecInit

LEMMA PackageFields ==
  ASSUME NEW m \in Packages
  PROVE  /\ FitsIn(m.seq, 4) /\ m.cmd \in Seq(Byte) /\ m.type \in Byte
         /\ m.data \in Seq(Byte)
         /\ m = [seq |-> m.seq, cmd |-> m.cmd, type |-> m.type, data |-> m.data]
<1>1. m.seq \in SeqNos /\ m.cmd \in Texts /\ m.type \in Types /\ m.data \in Texts
      /\ m = [seq |-> m.seq, cmd |-> m.cmd, type |-> m.type, data |-> m.data]
  BY DEF Packages
<1> QED BY <1>1, CodecAssumption, Zenon

\* For every number of four bytes, every command and every body: a package whose
\* command is not cut is read back as it was written, and any bytes that are accepted
\* as a package are what the package read from them is written as (coder::serialize
\* and deserialize).
THEOREM CodecExact == CodecSpec => []CoderExact
<1>1. ASSUME CodecInit PROVE CoderExact
  <2>1. ASSUME UInt16(Len(package.cmd)) = Len(package.cmd)
        PROVE  Deserialize(Serialize(package)) = [ok |-> TRUE, msg |-> package]
    BY <1>1, <2>1, Inputs, PackageFields, PackageRead, Zenon
  <2>2. ASSUME Deserialize(payload).ok
        PROVE  Serialize(Deserialize(payload).msg) = payload
    BY <1>1, <2>2, Inputs, PackageWritten, Zenon
  <2> QED BY <2>1, <2>2, Zenon DEF CoderExact
<1>2. CoderExact /\ [UNCHANGED codecVars]_codecVars => CoderExact'
  BY Zenon DEF CoderExact, codecVars
<1> QED BY <1>1, <1>2, PTL DEF CodecSpec

\* For every number of up to 64 bits, negative or not: the size is read back as it was
\* written, whatever follows it, in as few bytes as will do (auto_size_type).
THEOREM SizesExact == CodecSpec => []AutoSizeExact
<1>1. ASSUME CodecInit PROVE AutoSizeExact
  <2>1. number \in Int /\ FitsIn(IF number < 0 THEN -number ELSE number, 8)
    BY <1>1, Inputs, CodecAssumption, Zenon
  <2>2. <<255>> \in Seq(Byte)
    BY DEF Byte
  <2> QED BY <2>1, <2>2, SizeRead, Zenon DEF AutoSizeExact
<1>2. AutoSizeExact /\ [UNCHANGED codecVars]_codecVars => AutoSizeExact'
  BY Zenon DEF AutoSizeExact, codecVars
<1> QED BY <1>1, <1>2, PTL DEF CodecSpec

\* As long as its number and the length of its command fit a byte, a package of the
\* varint coder is read back as it was written, and one that ends anywhere before its
\* type byte is refused (coder_varint.hpp).
THEOREM VarintExact == CodecSpec => []VarintCoderExact
<1>1. ASSUME CodecInit PROVE VarintCoderExact
  <2> SUFFICES ASSUME package.seq \in Byte, Len(package.cmd) \in Byte
               PROVE  /\ DeserializeVarint(SerializeVarint(package)) =
                           [ok |-> TRUE, msg |-> package]
                      /\ \A k \in 0 .. Len(SerializeVarint(package))
                                         - Len(package.data) - 1 :
                           ~DeserializeVarint(
                              SubSeq(SerializeVarint(package), 1, k)).ok
    BY Zenon DEF VarintCoderExact
  <2> DEFINE A == VarintEncode(package.seq)
             B == VarintEncode(Len(package.cmd))
             rest == package.cmd \o <<package.type>> \o package.data
             p == SerializeVarint(package)
  <2>1. /\ package.cmd \in Seq(Byte) /\ package.type \in Byte
        /\ package.data \in Seq(Byte)
        /\ package = [seq |-> package.seq, cmd |-> package.cmd,
                      type |-> package.type, data |-> package.data]
    BY <1>1, Inputs, PackageFields, Zenon
  <2>2. p = VarintEncode(package.seq) \o VarintEncode(Len(package.cmd))
              \o package.cmd \o <<package.type>> \o package.data
    BY Zenon DEF SerializeVarint
  <2>3. /\ package.cmd \in Seq(Byte) /\ package.type \in Byte
        /\ package.data \in Seq(Byte)
    BY <2>1, Zenon
  <2> HIDE DEF p
  <2>4. /\ rest \in Seq(Byte)
        /\ Len(rest) = Len(package.cmd) + 1 + Len(package.data)
        /\ p = A \o (B \o rest)
        /\ DeserializeVarint(p) =
             [ok |-> TRUE, msg |-> [seq |-> package.seq, cmd |-> package.cmd,
                                    type |-> package.type, data |-> package.data]]
    <3>1. ReadBack(package.seq, package.cmd, package.type, package.data)
      BY <2>3, VarintFieldsRead, Zenon
    <3> QED BY <2>2, <3>1, Zenon DEF ReadBack
  <2>5. A \in Seq(Byte) /\ B \in Seq(Byte)
    BY <2>3, VarintRead, Zenon
  <2> HIDE DEF A, B, rest
  <2>6. PICK a \in Nat : a = Len(A)
    BY <2>5, LenProperties
  <2>7. PICK b \in Nat : b = Len(B)
    BY <2>5, LenProperties
  <2>8. PICK c \in Nat : c = Len(package.cmd)
    BY <2>3, LenProperties
  <2>9. PICK d \in Nat : d = Len(package.data)
    BY <2>3, LenProperties
  <2>10. Len(p) = a + (b + (c + 1 + d)) /\ Len(rest) > Len(package.cmd)
    <3>1. B \o rest \in Seq(Byte) /\ Len(B \o rest) = Len(B) + Len(rest)
      BY <2>4, <2>5, ConcatProperties, Zenon
    <3>2. Len(p) = Len(A) + Len(B \o rest)
      BY <2>4, <2>5, <3>1, ConcatProperties, Zenon
    <3>3. PICK r \in Nat : r = Len(rest)
      BY <2>4, LenProperties
    <3>4. r = c + 1 + d
      BY <2>4, <2>8, <2>9, <3>3, Zenon
    <3>5. r > c
      BY ONLY <3>4, c \in Nat, d \in Nat, r \in Nat
    <3>6. Len(p) = a + (b + r) /\ Len(rest) > Len(package.cmd)
      BY <2>6, <2>7, <2>8, <3>1, <3>2, <3>3, <3>5, Zenon
    <3> QED BY <3>4, <3>6, Zenon
  <2>11. ASSUME NEW k \in 0 .. Len(p) - Len(package.data) - 1
         PROVE  ~DeserializeVarint(SubSeq(p, 1, k)).ok
    <3>1. k \in Nat /\ k <= Len(A) + Len(B) + Len(package.cmd)
      <4>1. k \in 0 .. (a + (b + (c + 1 + d))) - d - 1
        BY <2>9, <2>10, Zenon
      <4>2. k \in Nat /\ k <= a + b + c
        BY <4>1, BeforeType, Zenon
      <4> QED BY <2>6, <2>7, <2>8, <4>2, Zenon
    <3> QED BY <2>4, <2>10, <3>1, VarintShort, Zenon DEF A, B
  <2> QED BY <2>1, <2>4, <2>11, Zenon DEF p
<1>2. VarintCoderExact /\ [UNCHANGED codecVars]_codecVars => VarintCoderExact'
  BY Zenon DEF VarintCoderExact, codecVars
<1> QED BY <1>1, <1>2, PTL DEF CodecSpec
-----------------------------------------------------------------------------
\* Archives.  What an archive is, and what is left of it when bytes are taken.
Input(data, size, error) == [data |-> data, size |-> size, error |-> error]

LEMMA FrontTaken ==
  ASSUME NEW s \in Seq(Byte), NEW t \in Seq(Byte)
  PROVE  /\ SubSeq(s \o t, 1, Len(s)) = s
         /\ SubSeq(s \o t, Len(s) + 1, Len(s \o t)) = t
<1>1. PICK len \in Nat : len = Len(s)
  BY LenProperties
<1>2. PICK more \in Nat : more = Len(t)
  BY LenProperties
<1>3. Len(s \o t) = Len(s) + Len(t)
  BY ConcatProperties
<1>4. SubSeq(s \o t, Len(s) + 1, Len(s) + Len(t)) = t
  BY <1>1, <1>2, LastPart, Zenon
<1>5. SubSeq(s \o t, 1, len) = SubSeq(s, 1, len)
  <2>1. 1 \in 1 .. len + 1 /\ len \in 1 - 1 .. len
    BY <1>1
  <2> QED BY <1>1, <2>1, FirstPart
<1>6. SubSeq(s, 1, Len(s)) = s
  BY SubSeqFull
<1> QED BY <1>1, <1>3, <1>4, <1>5, <1>6, Zenon

\* s is skipped, or read as a number, in front of rest.
Skips(s, rest, size, error) ==
  Skip(Len(s), Input(s \o rest, size, error)) = Input(rest, size - Len(s), error)
Reads(n, s, rest) == FromAutoSize(s \o rest) = [value |-> n, cost |-> Len(s)]

LEMMA Skipped ==
  ASSUME NEW s \in Seq(Byte), NEW rest \in Seq(Byte), NEW size, NEW error
  PROVE  Skips(s, rest, size, error)
<1> DEFINE ia == Input(s \o rest, size, error)
<1>1. ia.data = s \o rest /\ ia.size = size /\ ia.error = error
  BY DEF Input
<1> HIDE DEF ia
<1>2. Skip(Len(s), ia) = Input(SubSeq(s \o rest, Len(s) + 1, Len(s \o rest)),
                               size - Len(s), error)
  BY <1>1, Zenon DEF Skip, Input
<1> QED BY <1>2, FrontTaken, Zenon DEF ia, Skips

FrontRead(s, rest, size, error) ==
  Take(Len(s), Input(s \o rest, size, error)) =
    [val |-> s, ia |-> Input(rest, size - Len(s), error)]

LEMMA BytesTaken ==
  ASSUME NEW s \in Seq(Byte), NEW rest \in Seq(Byte), NEW size, NEW error
  PROVE  FrontRead(s, rest, size, error)
<1>1. Input(s \o rest, size, error).data = s \o rest
  BY DEF Input
<1>2. Skips(s, rest, size, error)
  BY Skipped, Zenon
<1> QED BY <1>1, <1>2, FrontTaken, Zenon DEF FrontRead, Take, Skips

LEMMA SizeRest ==
  ASSUME NEW n \in Int, FitsIn(IF n < 0 THEN -n ELSE n, 8), NEW rest \in Seq(Byte)
  PROVE  AutoSize(n) \in Seq(Byte) /\ Reads(n, AutoSize(n), rest)
BY SizeRead, Zenon DEF Reads

\* A number is read back from an archive, which goes on after it.
LEMMA NumberTaken ==
  ASSUME NEW n \in Int, FitsIn(IF n < 0 THEN -n ELSE n, 8), NEW rest \in Seq(Byte),
         NEW size, NEW error
  PROVE  ReadAutoSize(Input(AutoSize(n) \o rest, size, error)) =
           [val |-> n, ia |-> Input(rest, size - Len(AutoSize(n)), error)]
<1> DEFINE s == AutoSize(n)
           ia == Input(s \o rest, size, error)
<1>1. ia.data = s \o rest
  BY DEF Input
<1>2. s \in Seq(Byte) /\ Reads(n, s, rest)
  BY SizeRest, Zenon
<1> HIDE DEF s
<1>3. Skip(Len(s), ia) = Input(rest, size - Len(s), error)
  <2>1. Skips(s, rest, size, error)
    BY <1>2, Skipped, Zenon
  <2> QED BY <2>1, Zenon DEF Skips
<1>4. FromAutoSize(ia.data) = [value |-> n, cost |-> Len(s)]
  BY <1>1, <1>2, Zenon DEF Reads
<1> HIDE DEF ia
<1>5. ReadAutoSize(ia) = [val |-> n, ia |-> Skip(Len(s), ia)]
  BY <1>4 DEF ReadAutoSize
<1> QED BY <1>3, <1>5, Zenon DEF ia, s

\* The lengths that can be written: a size_t.
IsLength(n) == n \in Nat /\ FitsIn(n, 8)

LEMMA LengthFits ==
  ASSUME NEW n, IsLength(n)
  PROVE  n \in Int /\ FitsIn(IF n < 0 THEN -n ELSE n, 8)
<1>1. n \in Int /\ ~(n < 0)
  BY DEF IsLength
<1> QED BY <1>1, Zenon DEF IsLength

\* An archive put inside another is cut out of it with its own size, and what
\* follows is left as it was, whatever either of them holds.
THEOREM NestedFound ==
  ASSUME NEW data \in Seq(Byte), IsLength(Len(data)), NEW rest \in Seq(Byte),
         NEW size \in Int, NEW error
  PROVE  OpenArchive(Input(Nest(data) \o rest, size, error)) =
           [inner |-> Input(data \o rest, Len(data), FALSE),
            ia |-> Input(rest, size - Len(Nest(data)), error)]
<1> DEFINE head == AutoSize(Len(data))
           after == data \o rest
           ia == Input(head \o after, size, error)
<1>1. after \in Seq(Byte)
  BY ConcatProperties
<1>2. head \in Seq(Byte) /\ Reads(Len(data), head, after)
  <2> HIDE DEF after
  <2>1. Len(data) \in Int
        /\ FitsIn(IF Len(data) < 0 THEN -Len(data) ELSE Len(data), 8)
    BY LengthFits, Zenon
  <2> QED BY <1>1, <2>1, SizeRest, Zenon
<1>3. Nest(data) \o rest = head \o after
  BY <1>2, BytesAssociative, Zenon DEF Nest
<1>4. Len(Nest(data)) = Len(head) + Len(data)
  BY <1>2, ConcatProperties, Zenon DEF Nest
<1> HIDE DEF head
<1>5. (size - Len(head)) - Len(data) = size - Len(Nest(data))
  <2>1. Len(head) \in Nat /\ Len(data) \in Nat
    BY <1>2, LenProperties
  <2> QED BY <1>4, <2>1
<1>6. Skips(data, rest, size - Len(head), error)
  BY Skipped, Zenon
<1>7. Skip(Len(data), Input(after, size - Len(head), error))
        = Input(rest, size - Len(Nest(data)), error)
  BY <1>5, <1>6, Zenon DEF Skips
<1> HIDE DEF after
<1>8. Skips(head, after, size, error)
  BY <1>1, <1>2, Skipped, Zenon
<1>9. FromAutoSize(ia.data) = [value |-> Len(data), cost |-> Len(head)]
  <2>1. ia.data = head \o after
    BY DEF Input
  <2> QED BY <1>2, <2>1, Zenon DEF Reads
<1>10. Skip(Len(head), ia) = Input(after, size - Len(head), error)
  BY <1>8, Zenon DEF Skips
<1>11. Input(after, size - Len(head), error).data = after
  BY DEF Input
<1> HIDE DEF ia
<1> DEFINE n == Len(data)
           left == Input(after, size - Len(head), error)
<1>12. OpenArchive(ia) =
         [inner |-> [data |-> left.data, size |-> n, error |-> FALSE],
          ia |-> Skip(n, left)]
  <2> HIDE DEF n, left
  <2> QED BY <1>9, <1>10 DEF OpenArchive, n, left
<1> QED BY <1>3, <1>7, <1>11, <1>12, Zenon DEF ia, Input, after
-----------------------------------------------------------------------------
\* A string is read back character by character.
StringBack(T, v, b, rest, error) ==
  LET ia == Input(b \o rest, Len(b), error)
      r == ReadString(T, ia)
  IN b \in Seq(Byte) /\ r.val = v /\ r.ia = ia

IsString(T, v) == T.charSize \in {1, 2, 4} /\ v \in Seq([1 .. T.charSize -> Byte])

LEMMA StringRead ==
  ASSUME NEW T, NEW v, IsString(T, v),
         NEW rest \in Seq(Byte), NEW error
  PROVE  StringBack(T, v, WriteString(T, v), rest, error)
<1> DEFINE b == WriteString(T, v)
           ia == Input(b \o rest, Len(b), error)
<1>1. PICK c \in {1, 2, 4} : c = T.charSize /\ v \in Seq([1 .. c -> Byte])
  BY DEF IsString
<1>2. PICK len \in Nat : len = Len(v)
  BY <1>1, LenProperties
<1> DEFINE place(i) == ((i - 1) \div c) + 1
           digit(i) == ((i - 1) % c) + 1
<1>3. c * len \in Nat
  BY <1>1
<1>4. ASSUME NEW i \in 1 .. c * len
      PROVE  place(i) \in 1 .. len /\ digit(i) \in 1 .. c
  <2>1. CASE c = 1
    BY <2>1, <1>4
  <2>2. CASE c = 2
    BY <2>2, <1>4
  <2>3. CASE c = 4
    BY <2>3, <1>4
  <2> QED BY <1>1, <2>1, <2>2, <2>3
<1>5. \A k \in 1 .. len : v[k] \in [1 .. c -> Byte]
  BY <1>1, <1>2
<1>6. b = [i \in 1 .. c * len |-> v[place(i)][digit(i)]]
  BY <1>1, <1>2, Zenon DEF WriteString
<1> HIDE DEF b
<1>7. b \in Seq(Byte) /\ Len(b) = c * len
  <2>1. ASSUME NEW i \in 1 .. c * len PROVE v[place(i)][digit(i)] \in Byte
    BY <1>4, <1>5
  <2> HIDE DEF place, digit
  <2>2. b \in [1 .. c * len -> Byte]
    BY <1>6, <2>1
  <2> QED BY <1>3, <2>2, SeqDef, LenProperties
<1> HIDE DEF place, digit
<1>8. (c * len) \div c = len
  <2>1. CASE c = 1
    BY <2>1
  <2>2. CASE c = 2
    BY <2>2
  <2>3. CASE c = 4
    BY <2>3
  <2> QED BY <1>1, <2>1, <2>2, <2>3
<1>9. ASSUME NEW k \in 1 .. len
      PROVE  SubSeq(b \o rest, (k - 1) * c + 1, k * c) = v[k]
  <2>1. PICK m \in Nat, n \in Nat : m = (k - 1) * c + 1 /\ n = k * c
    <3>1. CASE c = 1
      BY <3>1
    <3>2. CASE c = 2
      BY <3>2
    <3>3. CASE c = 4
      BY <3>3
    <3> QED BY <1>1, <3>1, <3>2, <3>3
  <2>2. PICK all \in Nat : all = c * len /\ all = Len(b)
    BY <1>3, <1>7
  <2>3. m \in 1 .. all /\ n \in m .. all /\ n - m + 1 = c
    <3>1. CASE c = 1
      BY <2>1, <2>2, <3>1
    <3>2. CASE c = 2
      BY <2>1, <2>2, <3>2
    <3>3. CASE c = 4
      BY <2>1, <2>2, <3>3
    <3> QED BY <1>1, <3>1, <3>2, <3>3
  <2>4. SubSeq(b \o rest, m, n) = SubSeq(b, m, n)
    BY <1>7, <2>2, <2>3, FirstPart
  <2>5. SubSeq(b, m, n) = [i \in 1 .. c |-> b[i + m - 1]]
    <3>1. n - m + 1 = c
      BY <2>3
    <3> QED BY <3>1
  <2>6. ASSUME NEW i \in 1 .. c PROVE b[i + m - 1] = v[k][i]
    <3>1. i + m - 1 \in 1 .. c * len
      BY <1>1, <2>2, <2>3
    <3>2. place(i + m - 1) = k /\ digit(i + m - 1) = i
      <4>1. CASE c = 1
        BY <2>1, <4>1 DEF place, digit
      <4>2. CASE c = 2
        BY <2>1, <4>2 DEF place, digit
      <4>3. CASE c = 4
        BY <2>1, <4>3 DEF place, digit
      <4> QED BY <1>1, <4>1, <4>2, <4>3
    <3> QED BY <1>6, <3>1, <3>2
  <2>7. v[k] = [i \in 1 .. c |-> v[k][i]]
    BY <1>5
  <2>8. [i \in 1 .. c |-> b[i + m - 1]] = [i \in 1 .. c |-> v[k][i]]
    BY <2>6
  <2> QED BY <2>1, <2>4, <2>5, <2>7, <2>8, Zenon
<1>10. ia.size = c * len /\ ia.data = b \o rest
  BY <1>7 DEF Input
<1> HIDE DEF ia
<1> DEFINE read == [k \in 1 .. len |-> SubSeq(b \o rest, (k - 1) * c + 1, k * c)]
<1>11. ReadString(T, ia) = [val |-> read, ia |-> ia]
  <2> HIDE DEF b
  <2>1. ia.size \div T.charSize = len
    BY <1>1, <1>8, <1>10
  <2> QED BY <1>1, <1>10, <2>1, Zenon DEF ReadString
<1>12. read = v
  <2>1. read = [k \in 1 .. len |-> v[k]]
    BY <1>9, Zenon
  <2>2. v = [k \in 1 .. len |-> v[k]]
    BY <1>1, <1>2, LenProperties
  <2> QED BY <2>1, <2>2, Zenon
<1>13. ReadString(T, ia).val = v /\ ReadString(T, ia).ia = ia
  <2> HIDE DEF read
  <2> QED BY <1>11, <1>12
<1> QED BY <1>7, <1>13, Zenon DEF ia, b, StringBack

\* The digits of a bitset, read back as the characters of a string.
BitsBack(v, b, rest, error) ==
  LET ia == Input(b \o rest, Len(b), error)
      r == ReadBitset(ia)
  IN b \in Seq(Byte) /\ r.val = v /\ r.ia = ia

LEMMA BitsetRead ==
  ASSUME NEW v \in Seq(BOOLEAN), NEW rest \in Seq(Byte), NEW error
  PROVE  BitsBack(v, WriteBitset(v), rest, error)
<1> DEFINE T == String(1)
           b == WriteBitset(v)
           chars == [i \in DOMAIN v |-> [j \in 1 .. 1 |-> b[i]]]
           ia == Input(b \o rest, Len(b), error)
<1>1. PICK len \in Nat : len = Len(v) /\ DOMAIN v = 1 .. len
  BY LenProperties
<1>2. T.charSize = 1
  BY DEF String
<1>3. b \in [1 .. len -> Byte] /\ \A i \in 1 .. len : b[i] = IF v[i] THEN 49 ELSE 48
  BY <1>1 DEF WriteBitset, Byte
<1> HIDE DEF b
<1>4. chars \in Seq([1 .. 1 -> Byte]) /\ Len(chars) = len
  <2>1. chars \in [1 .. len -> [1 .. 1 -> Byte]]
    BY <1>1, <1>3
  <2> QED BY <2>1, SeqDef, LenProperties
<1>5. WriteString(T, chars) = b
  <2>1. WriteString(T, chars) = [i \in 1 .. len |-> chars[i][1]]
    <3>1. 1 * Len(chars) = len
      BY <1>4
    <3>2. \A i \in 1 .. len : ((i - 1) \div 1) + 1 = i /\ ((i - 1) % 1) + 1 = 1
      OBVIOUS
    <3> HIDE DEF T, chars
    <3> QED BY <1>2, <3>1, <3>2 DEF WriteString
  <2>2. \A i \in 1 .. len : chars[i][1] = b[i]
    BY <1>1
  <2> HIDE DEF chars
  <2> QED BY <1>3, <2>1, <2>2
<1> HIDE DEF T
<1>6. ReadString(T, ia).val = chars
  <2>1. IsString(T, chars)
    BY <1>2, <1>4 DEF IsString
  <2> HIDE DEF chars
  <2>2. StringBack(T, chars, WriteString(T, chars), rest, error)
    BY <2>1, StringRead, Zenon
  <2> QED BY <1>5, <2>2, Zenon DEF StringBack
<1> HIDE DEF ia
<1>7. ReadBitset(ia) = [val |-> [i \in DOMAIN chars |-> chars[i] = <<49>>], ia |-> ia]
  <2> HIDE DEF chars
  <2> QED BY <1>6, Zenon DEF ReadBitset, T
<1>8. [i \in DOMAIN chars |-> chars[i] = <<49>>] = v
  <2>1. ASSUME NEW i \in 1 .. len PROVE (chars[i] = <<49>>) = v[i]
    <3>1. chars[i] = [j \in 1 .. 1 |-> b[i]] /\ v[i] \in BOOLEAN
      BY <1>1
    <3>2. CASE v[i]
      <4>1. [j \in 1 .. 1 |-> 49] = <<49>>
        OBVIOUS
      <4>2. b[i] = 49
        BY <1>3, <3>2
      <4> HIDE DEF chars
      <4> QED BY <3>1, <3>2, <4>1, <4>2
    <3>3. CASE ~v[i]
      BY <1>3, <3>1, <3>3
    <3> QED BY <3>1, <3>2, <3>3
  <2>2. DOMAIN chars = 1 .. len
    BY <1>1
  <2>3. v = [i \in 1 .. len |-> v[i]]
    BY <1>1
  <2> HIDE DEF chars
  <2> QED BY <2>1, <2>2, <2>3, Zenon
<1>9. ReadBitset(ia).val = v /\ ReadBitset(ia).ia = ia
  BY <1>7, <1>8
<1>10. b \in Seq(Byte)
  BY <1>3, SeqDef
<1> QED BY <1>9, <1>10, Zenon DEF ia, b, BitsBack

\* A value of a leaf type is read back, and an error is set exactly by what cannot be.
LeafExact(T, v, rest) ==
  LET b == WriteLeaf(T, v)
      r == ReadLeaf(T, Input(b \o rest, Len(b), FALSE))
  IN /\ b \in Seq(Byte)
     /\ r.ia.error = BrokenLeaf(T, v)
     /\ ~BrokenLeaf(T, v) => r.val = v

\* Every type that is made of no others: its value is read back, whatever follows in
\* memory, and an error is set exactly by what cannot be read (operator>> and operator<<
\* of serialize/).
THEOREM LeavesExact ==
  ASSUME NEW T, NEW v, IsLeafValue(T, v), NEW rest \in Seq(Byte)
  PROVE  LeafExact(T, v, rest)
<1> DEFINE b == WriteLeaf(T, v)
           ia == Input(b \o rest, Len(b), FALSE)
           r == ReadLeaf(T, ia)
           broken == BrokenLeaf(T, v)
<1>a. \A x, y : Input(x, y, FALSE).error = FALSE
  BY DEF Input
<1>b. ASSUME b \in Seq(Byte), broken = FALSE, r.val = v, r.ia.error = FALSE
      PROVE  LeafExact(T, v, rest)
  BY <1>b, Zenon DEF LeafExact
<1>c. ia.error = FALSE
  BY <1>a, Zenon
<1>1. CASE T.kind = "raw" /\ v \in Seq(Byte) /\ T.size = Len(v)
  <2>1. b = v /\ broken = FALSE /\ v \in Seq(Byte)
    BY <1>1 DEF WriteLeaf, BrokenLeaf
  <2>2. r = Take(Len(v), ia)
    BY <1>1 DEF ReadLeaf, ReadFundamental, Fundamental
  <2>3. Take(Len(v), Input(v \o rest, Len(v), FALSE)) =
          [val |-> v, ia |-> Input(rest, Len(v) - Len(v), FALSE)]
    <3>1. v \in Seq(Byte)
      BY <2>1, Zenon
    <3>2. FrontRead(v, rest, Len(v), FALSE)
      BY <3>1, BytesTaken, Zenon
    <3> QED BY <3>2, Zenon DEF FrontRead
  <2>4. r = [val |-> v, ia |-> Input(rest, Len(v) - Len(v), FALSE)]
    BY <2>1, <2>2, <2>3, Zenon
  <2> HIDE DEF r, b, broken
  <2>5. r.val = v /\ r.ia = Input(rest, Len(v) - Len(v), FALSE)
    BY <2>4
  <2>6. r.ia.error = FALSE
    BY <1>a, <2>5, Zenon
  <2> QED BY <1>b, <2>1, <2>5, <2>6, Zenon
<1>2. CASE /\ T.kind \in {"int", "enum", "pointer", "duration"}
           /\ v \in Int /\ FitsIn(IF v < 0 THEN -v ELSE v, 8)
  <2>1. b = AutoSize(v) /\ broken = FALSE
    BY <1>2 DEF WriteLeaf, BrokenLeaf
  <2>2. r = ReadAutoSize(ia)
    BY <1>2 DEF ReadLeaf, ReadFundamental, Fundamental
  <2>3. ReadAutoSize(Input(AutoSize(v) \o rest, Len(b), FALSE)) =
          [val |-> v, ia |-> Input(rest, Len(b) - Len(AutoSize(v)), FALSE)]
    BY <1>2, NumberTaken, Zenon
  <2>4. r = [val |-> v, ia |-> Input(rest, Len(b) - Len(AutoSize(v)), FALSE)]
    BY <2>1, <2>2, <2>3, Zenon
  <2>5. b \in Seq(Byte)
    BY <1>2, <2>1, SizeRest, Zenon
  <2> HIDE DEF r, b, broken
  <2>6. r.val = v /\ r.ia = Input(rest, Len(b) - Len(AutoSize(v)), FALSE)
    BY <2>4
  <2>7. r.ia.error = FALSE
    BY <1>a, <2>6, Zenon
  <2> QED BY <1>b, <2>1, <2>5, <2>6, <2>7, Zenon
<1>3. CASE T.kind = "void" /\ v = <<>>
  <2>1. b = <<>> /\ broken = FALSE /\ b \in Seq(Byte)
    BY <1>3 DEF WriteLeaf, BrokenLeaf
  <2> HIDE DEF b, ia, broken
  <2>2. r = [val |-> <<>>, ia |-> ia]
    BY <1>3 DEF ReadLeaf, Fundamental
  <2> HIDE DEF r
  <2>3. r.val = v /\ r.ia = ia
    BY <1>3, <2>2
  <2>4. r.ia.error = FALSE
    BY <1>c, <2>3, Zenon
  <2> QED BY <1>b, <2>1, <2>3, <2>4, Zenon
<1>4. CASE /\ T.kind = "string" /\ T.charSize \in {1, 2, 4}
           /\ v \in Seq([1 .. T.charSize -> Byte])
  <2>1. b = WriteString(T, v) /\ broken = FALSE
    BY <1>4 DEF WriteLeaf, BrokenLeaf
  <2>2. StringBack(T, v, WriteString(T, v), rest, FALSE)
    <3>1. IsString(T, v)
      BY <1>4, Zenon DEF IsString
    <3> QED BY <3>1, StringRead, Zenon
  <2> HIDE DEF b, broken
  <2>3. r = ReadString(T, ia)
    BY <1>4 DEF ReadLeaf, Fundamental
  <2>4. b \in Seq(Byte) /\ r.val = v /\ r.ia = ia
    BY <2>1, <2>2, <2>3, Zenon DEF StringBack
  <2> HIDE DEF r, ia
  <2>5. r.ia.error = FALSE
    BY <1>c, <2>4, Zenon
  <2> QED BY <1>b, <2>1, <2>4, <2>5, Zenon
<1>5. CASE T.kind = "bitset" /\ v \in Seq(BOOLEAN)
  <2>1. b = WriteBitset(v) /\ broken = FALSE
    BY <1>5 DEF WriteLeaf, BrokenLeaf
  <2>2. BitsBack(v, WriteBitset(v), rest, FALSE)
    BY <1>5, BitsetRead, Zenon
  <2> HIDE DEF b, broken
  <2>3. r = ReadBitset(ia)
    BY <1>5 DEF ReadLeaf, Fundamental
  <2>4. b \in Seq(Byte) /\ r.val = v /\ r.ia = ia
    BY <2>1, <2>2, <2>3, Zenon DEF BitsBack
  <2> HIDE DEF r, ia
  <2>5. r.ia.error = FALSE
    BY <1>c, <2>4, Zenon
  <2> QED BY <1>b, <2>1, <2>4, <2>5, Zenon
<1>6. CASE T.kind = "binary" /\ v \in Seq(Byte) /\ FitsIn(Len(v), 8)
  <2>1. b = AutoSize(Len(v)) \o v /\ broken = FALSE
    BY <1>6 DEF WriteLeaf, WriteBinary, BrokenLeaf
  <2> DEFINE head == AutoSize(Len(v))
             size == Len(b)
  <2>2. Len(v) \in Int /\ FitsIn(IF Len(v) < 0 THEN -Len(v) ELSE Len(v), 8)
    <3>1. Len(v) \in Nat
      BY <1>6, LenProperties
    <3> QED BY <1>6, <3>1, LengthFits, Zenon DEF IsLength
  <2>3. v \o rest \in Seq(Byte)
    BY <1>6, ConcatProperties
  <2>4. head \in Seq(Byte) /\ b \in Seq(Byte)
    <3>1. head \in Seq(Byte)
      BY <2>2, <2>3, SizeRest, Zenon
    <3> QED BY <1>6, <2>1, <3>1, ConcatProperties, Zenon
  <2>5. b \o rest = head \o (v \o rest)
    <3>1. b = head \o v /\ head \in Seq(Byte) /\ v \in Seq(Byte)
      BY <1>6, <2>1, <2>4, Zenon
    <3> HIDE DEF b, head
    <3>2. (head \o v) \o rest = head \o (v \o rest)
      BY <3>1, BytesAssociative, Zenon
    <3> QED BY <3>1, <3>2, Zenon
  <2>6. r = ReadBinary(ia)
    BY <1>6 DEF ReadLeaf, Fundamental
  <2> HIDE DEF b, size, broken
  <2>7. ReadAutoSize(Input(head \o (v \o rest), size, FALSE)) =
          [val |-> Len(v), ia |-> Input(v \o rest, size - Len(head), FALSE)]
    BY <2>2, <2>3, NumberTaken, Zenon
  <2> DEFINE inner == Input(v \o rest, size - Len(head), FALSE)
  <2>8. ReadAutoSize(ia) = [val |-> Len(v), ia |-> inner]
    BY <2>5, <2>7, Zenon DEF size
  <2>9. Take(Len(v), inner) =
          [val |-> v, ia |-> Input(rest, (size - Len(head)) - Len(v), FALSE)]
    <3>1. FrontRead(v, rest, size - Len(head), FALSE)
      BY <1>6, BytesTaken, Zenon
    <3> QED BY <3>1, Zenon DEF FrontRead
  <2> HIDE DEF ia, inner
  <2>10. ReadBinary(ia) = Take(Len(v), inner)
    BY <2>8 DEF ReadBinary
  <2> HIDE DEF r
  <2>11. r.val = v /\ r.ia = Input(rest, (size - Len(head)) - Len(v), FALSE)
    BY <2>6, <2>9, <2>10
  <2>12. r.ia.error = FALSE
    BY <1>a, <2>11, Zenon
  <2> QED BY <1>b, <2>1, <2>4, <2>11, <2>12, Zenon
<1>7. CASE T.kind = "json" /\ v \in Seq(Byte)
  <2>1. b = v /\ v \in Seq(Byte)
    BY <1>7 DEF WriteLeaf
  <2>2. r = ReadJson(ia)
    BY <1>7 DEF ReadLeaf, Fundamental
  <2>3. SubSeq(ia.data, 1, ia.size) = v
    <3>1. ia.data = b \o rest /\ ia.size = Len(b)
      BY DEF Input
    <3>2. SubSeq(v \o rest, 1, Len(v)) = v
      BY <2>1, FrontTaken
    <3> HIDE DEF ia, b
    <3> QED BY <2>1, <3>1, <3>2, Zenon
  <2>4. broken = ~Accepted(v)
    BY <1>7 DEF BrokenLeaf, Accepted
  <2> HIDE DEF ia, b, broken
  <2>5. CASE Accepted(v)
    <3>1. r = [val |-> v, ia |-> ia]
      BY <2>2, <2>3, <2>5, Zenon DEF ReadJson
    <3> HIDE DEF r
    <3>2. r.val = v /\ r.ia = ia
      BY <3>1
    <3>3. r.ia.error = FALSE
      BY <1>c, <3>2, Zenon
    <3>4. broken = FALSE /\ b \in Seq(Byte)
      BY <2>1, <2>4, <2>5
    <3> QED BY <1>b, <3>2, <3>3, <3>4, Zenon
  <2>6. CASE ~Accepted(v)
    <3>1. r = [val |-> JsonNull, ia |-> [ia EXCEPT !.error = TRUE]]
      BY <2>2, <2>3, <2>6, Zenon DEF ReadJson
    <3> HIDE DEF r
    <3>2. r.ia = [ia EXCEPT !.error = TRUE]
      BY <3>1
    <3>3. [ia EXCEPT !.error = TRUE].error = TRUE
      BY DEF ia, Input
    <3>4. broken = TRUE /\ b \in Seq(Byte) /\ r.ia.error = TRUE
      <4>1. b \in Seq(Byte)
        BY <2>1, Zenon
      <4>2. r.ia.error = TRUE
        BY <3>2, <3>3, Zenon
      <4> QED BY <2>4, <2>6, <4>1, <4>2
    <3> QED BY <3>4, Zenon DEF LeafExact, ia, b, r, broken
  <2> QED BY <2>5, <2>6, Zenon
<1> QED BY <1>1, <1>2, <1>3, <1>4, <1>5, <1>6, <1>7, Zenon DEF IsLeafValue
-----------------------------------------------------------------------------
\* Induction, for what can be said as membership in a set.
LEMMA LeastNumber ==
  ASSUME NEW S \in SUBSET Nat, S # {}
  PROVE  \E m \in S : \A n \in S : m <= n
<1> DEFINE R == OpToRel(<, Nat)
<1>1. IsWellFoundedOn(R, Nat)
  BY NatLessThanWellFounded, Zenon
<1>2. \A m, n \in Nat : n < m => <<n, m>> \in R
  BY DEF OpToRel
<1> HIDE DEF R
<1>3. PICK m \in S : \A n \in S : ~ (<<n, m>> \in R)
  BY <1>1, WFMin, Zenon
<1>4. \A n \in S : ~ (n < m)
  BY <1>2, <1>3
<1>5. \A n \in S : m <= n
  BY <1>4
<1> QED BY <1>5

LEMMA EveryNumber ==
  ASSUME NEW S, 0 \in S, \A n \in Nat : n \in S => n + 1 \in S
  PROVE  \A n \in Nat : n \in S
<1>1. SUFFICES ASSUME NEW n \in Nat, n \notin S PROVE FALSE
  OBVIOUS
<1>2. Nat \ S # {}
  BY <1>1
<1>3. PICK m \in Nat \ S : \A k \in Nat \ S : m <= k
  BY <1>2, LeastNumber
<1>4. m - 1 \in Nat /\ m - 1 \in S
  BY <1>3
<1> QED BY <1>4

LEMMA UpToLast ==
  ASSUME NEW last \in Nat, NEW S, 0 \in S, \A i \in 0 .. last - 1 : i \in S => i + 1 \in S
  PROVE  \A i \in 0 .. last : i \in S
<1> DEFINE T == {i \in Nat : i <= last => i \in S}
<1>1. 0 \in T
  OBVIOUS
<1>2. ASSUME NEW n \in Nat, n \in T PROVE n + 1 \in T
  BY <1>2
<1> HIDE DEF T
<1>3. \A n \in Nat : n \in T
  BY <1>1, <1>2, EveryNumber
<1> QED BY <1>3 DEF T
-----------------------------------------------------------------------------
\* The loops of Archive: what each has made after so many rounds.

ItemsLoop(T, size) ==
  CHOOSE upTo : upTo =
    [i \in 0 .. size.val |->
       IF i = 0 THEN [items |-> <<>>, ia |-> size.ia] ELSE ReadItem(T, upTo[i - 1])]

ItemsLoops(T, size) ==
  /\ ReadItemsOf(T, size) = ItemsLoop(T, size)[size.val]
  /\ ItemsLoop(T, size)[0] = [items |-> <<>>, ia |-> size.ia]
  /\ \A i \in 1 .. size.val :
       ItemsLoop(T, size)[i] = ReadItem(T, ItemsLoop(T, size)[i - 1])

LEMMA ItemsLoopRuns ==
  ASSUME NEW T, NEW size, size.val \in Nat
  PROVE  ItemsLoops(T, size)
<1> DEFINE start == [items |-> <<>>, ia |-> size.ia]
           Runs(f, n) ==
             f = [i \in 0 .. n |-> IF i = 0 THEN start ELSE ReadItem(T, f[i - 1])]
           S == {n \in Nat : \E f : Runs(f, n)}
<1> HIDE DEF start
<1>1. 0 \in S
  <2>1. Runs([i \in 0 .. 0 |-> start], 0)
    OBVIOUS
  <2> QED BY <2>1, Zenon
<1>2. ASSUME NEW n \in Nat, n \in S PROVE n + 1 \in S
  <2>1. PICK f : Runs(f, n)
    BY <1>2, Zenon
  <2> DEFINE g == [i \in 0 .. n + 1 |-> IF i = n + 1 THEN ReadItem(T, f[n])
                                     ELSE f[i]]
  <2>2. \A i \in 0 .. n : g[i] = f[i]
    OBVIOUS
  <2>3. ASSUME NEW i \in 0 .. n + 1
        PROVE  g[i] = IF i = 0 THEN start ELSE ReadItem(T, g[i - 1])
    <3>1. CASE i = n + 1
      BY <2>2, <3>1
    <3>2. CASE i # n + 1
      BY <2>1, <2>2, <3>2
    <3> QED BY <3>1, <3>2
  <2>4. Runs(g, n + 1)
    BY <2>3
  <2> HIDE DEF g, Runs
  <2> QED BY <2>4
<1>3. \E f : Runs(f, size.val)
  <2> HIDE DEF Runs
  <2>1. size.val \in S
    <3> HIDE DEF S
    <3> QED BY <1>1, <1>2, EveryNumber
  <2> QED BY <2>1
<1>4. Runs(ItemsLoop(T, size), size.val)
  BY <1>3, Zenon DEF ItemsLoop, start
<1>5. ReadItemsOf(T, size) = ItemsLoop(T, size)[size.val]
  BY Zenon DEF ReadItemsOf, ItemsLoop
<1> DEFINE f == ItemsLoop(T, size)
<1> HIDE DEF f
<1>6. f[0] = start /\ \A i \in 1 .. size.val : f[i] = ReadItem(T, f[i - 1])
  <2>1. PICK last \in Nat : last = size.val
    OBVIOUS
  <2>2. f = [i \in 0 .. last |-> IF i = 0 THEN start ELSE ReadItem(T, f[i - 1])]
    BY <1>4, <2>1, Zenon DEF f
  <2>3. f[0] = start /\ \A i \in 1 .. last : f[i] = ReadItem(T, f[i - 1])
    BY <2>2
  <2> QED BY <2>1, <2>3, Zenon
<1> QED BY <1>5, <1>6, Zenon DEF f, start, ItemsLoops

\* One round of the loop over the elements of a tuple.
ElementRound(T, acc, i) ==
  LET r == ReadElement(T.of[i], acc.ia) IN
  [val |-> Append(acc.val, r.val), ia |-> r.ia]

ElementsLoop(T, ia) ==
  CHOOSE upTo : upTo =
    [i \in 0 .. Len(T.of) |->
       IF i = 0 THEN [val |-> <<>>, ia |-> ia] ELSE ElementRound(T, upTo[i - 1], i)]

ElementsLoops(T, ia) ==
  /\ ReadTuple(T, ia) = ElementsLoop(T, ia)[Len(T.of)]
  /\ ElementsLoop(T, ia)[0] = [val |-> <<>>, ia |-> ia]
  /\ \A i \in 1 .. Len(T.of) :
       ElementsLoop(T, ia)[i] = ElementRound(T, ElementsLoop(T, ia)[i - 1], i)

LEMMA ElementsLoopRuns ==
  ASSUME NEW T, NEW ia, Len(T.of) \in Nat
  PROVE  ElementsLoops(T, ia)
<1> DEFINE start == [val |-> <<>>, ia |-> ia]
           Runs(f, n) ==
             f = [i \in 0 .. n |-> IF i = 0 THEN start ELSE ElementRound(T, f[i - 1], i)]
           S == {n \in Nat : \E f : Runs(f, n)}
<1> HIDE DEF start
<1>1. 0 \in S
  <2>1. Runs([i \in 0 .. 0 |-> start], 0)
    OBVIOUS
  <2> QED BY <2>1, Zenon
<1>2. ASSUME NEW n \in Nat, n \in S PROVE n + 1 \in S
  <2>1. PICK f : Runs(f, n)
    BY <1>2, Zenon
  <2> DEFINE g == [i \in 0 .. n + 1 |-> IF i = n + 1 THEN ElementRound(T, f[n], n + 1)
                                     ELSE f[i]]
  <2>2. \A i \in 0 .. n : g[i] = f[i]
    OBVIOUS
  <2>3. ASSUME NEW i \in 0 .. n + 1
        PROVE  g[i] = IF i = 0 THEN start ELSE ElementRound(T, g[i - 1], i)
    <3>1. CASE i = n + 1
      BY <2>2, <3>1
    <3>2. CASE i # n + 1
      BY <2>1, <2>2, <3>2
    <3> QED BY <3>1, <3>2
  <2>4. Runs(g, n + 1)
    BY <2>3
  <2> HIDE DEF g, Runs
  <2> QED BY <2>4
<1>3. \E f : Runs(f, Len(T.of))
  <2> HIDE DEF Runs
  <2>1. Len(T.of) \in S
    <3> HIDE DEF S
    <3> QED BY <1>1, <1>2, EveryNumber
  <2> QED BY <2>1
<1>4. Runs(ElementsLoop(T, ia), Len(T.of))
  BY <1>3, Zenon DEF ElementsLoop, start
<1>5. ReadTuple(T, ia) = ElementsLoop(T, ia)[Len(T.of)]
  BY Zenon DEF ReadTuple, ElementsLoop, ElementRound
<1> DEFINE f == ElementsLoop(T, ia)
<1> HIDE DEF f
<1>6. f[0] = start /\ \A i \in 1 .. Len(T.of) : f[i] = ElementRound(T, f[i - 1], i)
  <2>1. PICK last \in Nat : last = Len(T.of)
    OBVIOUS
  <2>2. f = [i \in 0 .. last |-> IF i = 0 THEN start ELSE ElementRound(T, f[i - 1], i)]
    BY <1>4, <2>1, Zenon DEF f
  <2>3. f[0] = start /\ \A i \in 1 .. last : f[i] = ElementRound(T, f[i - 1], i)
    BY <2>2
  <2> QED BY <2>1, <2>3, Zenon
<1> QED BY <1>5, <1>6, Zenon DEF f, start, ElementsLoops

\* One round of the loop over the fields of a struct.
FieldRound(T, acc, i) ==
  LET r == ReadField(T.of[i], acc.ia) IN
  IF acc.ia.error THEN [acc EXCEPT !.val = Append(@, T.blank[i])]
  ELSE [val |-> Append(acc.val, r.val), ia |-> r.ia]

FieldsLoop(T, ia) ==
  CHOOSE upTo : upTo =
    [i \in 0 .. Len(T.of) |->
       IF i = 0 THEN [val |-> <<>>, ia |-> ia] ELSE FieldRound(T, upTo[i - 1], i)]

FieldsLoops(T, ia) ==
  /\ ReadStruct(T, ia) = FieldsLoop(T, ia)[Len(T.of)]
  /\ FieldsLoop(T, ia)[0] = [val |-> <<>>, ia |-> ia]
  /\ \A i \in 1 .. Len(T.of) :
       FieldsLoop(T, ia)[i] = FieldRound(T, FieldsLoop(T, ia)[i - 1], i)

LEMMA FieldsLoopRuns ==
  ASSUME NEW T, NEW ia, Len(T.of) \in Nat
  PROVE  FieldsLoops(T, ia)
<1> DEFINE start == [val |-> <<>>, ia |-> ia]
           Runs(f, n) ==
             f = [i \in 0 .. n |-> IF i = 0 THEN start ELSE FieldRound(T, f[i - 1], i)]
           S == {n \in Nat : \E f : Runs(f, n)}
<1> HIDE DEF start
<1>1. 0 \in S
  <2>1. Runs([i \in 0 .. 0 |-> start], 0)
    OBVIOUS
  <2> QED BY <2>1, Zenon
<1>2. ASSUME NEW n \in Nat, n \in S PROVE n + 1 \in S
  <2>1. PICK f : Runs(f, n)
    BY <1>2, Zenon
  <2> DEFINE g == [i \in 0 .. n + 1 |-> IF i = n + 1 THEN FieldRound(T, f[n], n + 1)
                                     ELSE f[i]]
  <2>2. \A i \in 0 .. n : g[i] = f[i]
    OBVIOUS
  <2>3. ASSUME NEW i \in 0 .. n + 1
        PROVE  g[i] = IF i = 0 THEN start ELSE FieldRound(T, g[i - 1], i)
    <3>1. CASE i = n + 1
      BY <2>2, <3>1
    <3>2. CASE i # n + 1
      BY <2>1, <2>2, <3>2
    <3> QED BY <3>1, <3>2
  <2>4. Runs(g, n + 1)
    BY <2>3
  <2> HIDE DEF g, Runs
  <2> QED BY <2>4
<1>3. \E f : Runs(f, Len(T.of))
  <2> HIDE DEF Runs
  <2>1. Len(T.of) \in S
    <3> HIDE DEF S
    <3> QED BY <1>1, <1>2, EveryNumber
  <2> QED BY <2>1
<1>4. Runs(FieldsLoop(T, ia), Len(T.of))
  BY <1>3, Zenon DEF FieldsLoop, start
<1>5. ReadStruct(T, ia) = FieldsLoop(T, ia)[Len(T.of)]
  BY Zenon DEF ReadStruct, FieldsLoop, FieldRound
<1> DEFINE f == FieldsLoop(T, ia)
<1> HIDE DEF f
<1>6. f[0] = start /\ \A i \in 1 .. Len(T.of) : f[i] = FieldRound(T, f[i - 1], i)
  <2>1. PICK last \in Nat : last = Len(T.of)
    OBVIOUS
  <2>2. f = [i \in 0 .. last |-> IF i = 0 THEN start ELSE FieldRound(T, f[i - 1], i)]
    BY <1>4, <2>1, Zenon DEF f
  <2>3. f[0] = start /\ \A i \in 1 .. last : f[i] = FieldRound(T, f[i - 1], i)
    BY <2>2
  <2> QED BY <2>1, <2>3, Zenon
<1> QED BY <1>5, <1>6, Zenon DEF f, start, FieldsLoops

\* The items of a forward_list, each put in front of those before.
FrontRound(items, front, i) == <<items[i]>> \o front

FrontLoop(items) ==
  CHOOSE upTo : upTo =
    [i \in 0 .. Len(items) |->
       IF i = 0 THEN <<>> ELSE FrontRound(items, upTo[i - 1], i)]

FrontLoops(items) ==
  /\ ForwardListOf(items) = Reverse(FrontLoop(items)[Len(items)])
  /\ FrontLoop(items)[0] = <<>>
  /\ \A i \in 1 .. Len(items) :
       FrontLoop(items)[i] = FrontRound(items, FrontLoop(items)[i - 1], i)

LEMMA FrontLoopRuns ==
  ASSUME NEW items, Len(items) \in Nat
  PROVE  FrontLoops(items)
<1> DEFINE start == <<>>
           Runs(f, n) ==
             f = [i \in 0 .. n |-> IF i = 0 THEN start ELSE FrontRound(items, f[i - 1], i)]
           S == {n \in Nat : \E f : Runs(f, n)}
<1> HIDE DEF start
<1>1. 0 \in S
  <2>1. Runs([i \in 0 .. 0 |-> start], 0)
    OBVIOUS
  <2> QED BY <2>1, Zenon
<1>2. ASSUME NEW n \in Nat, n \in S PROVE n + 1 \in S
  <2>1. PICK f : Runs(f, n)
    BY <1>2, Zenon
  <2> DEFINE g == [i \in 0 .. n + 1 |-> IF i = n + 1 THEN FrontRound(items, f[n], n + 1)
                                     ELSE f[i]]
  <2>2. \A i \in 0 .. n : g[i] = f[i]
    OBVIOUS
  <2>3. ASSUME NEW i \in 0 .. n + 1
        PROVE  g[i] = IF i = 0 THEN start ELSE FrontRound(items, g[i - 1], i)
    <3>1. CASE i = n + 1
      BY <2>2, <3>1
    <3>2. CASE i # n + 1
      BY <2>1, <2>2, <3>2
    <3> QED BY <3>1, <3>2
  <2>4. Runs(g, n + 1)
    BY <2>3
  <2> HIDE DEF g, Runs
  <2> QED BY <2>4
<1>3. \E f : Runs(f, Len(items))
  <2> HIDE DEF Runs
  <2>1. Len(items) \in S
    <3> HIDE DEF S
    <3> QED BY <1>1, <1>2, EveryNumber
  <2> QED BY <2>1
<1>4. Runs(FrontLoop(items), Len(items))
  BY <1>3, Zenon DEF FrontLoop, start
<1>5. ForwardListOf(items) = Reverse(FrontLoop(items)[Len(items)])
  BY Zenon DEF ForwardListOf, FrontLoop, FrontRound
<1> DEFINE f == FrontLoop(items)
<1> HIDE DEF f
<1>6. f[0] = start /\ \A i \in 1 .. Len(items) : f[i] = FrontRound(items, f[i - 1], i)
  <2>1. PICK last \in Nat : last = Len(items)
    OBVIOUS
  <2>2. f = [i \in 0 .. last |-> IF i = 0 THEN start ELSE FrontRound(items, f[i - 1], i)]
    BY <1>4, <2>1, Zenon DEF f
  <2>3. f[0] = start /\ \A i \in 1 .. last : f[i] = FrontRound(items, f[i - 1], i)
    BY <2>2
  <2> QED BY <2>1, <2>3, Zenon
<1> QED BY <1>5, <1>6, Zenon DEF f, start, FrontLoops

-----------------------------------------------------------------------------
\* The parts of a value, one after the other (FlattenSeq), as the parts joined so far.
JoinLoop(parts) ==
  CHOOSE flatten : flatten =
    [i \in 1 .. Len(parts) |->
       IF i = 1 THEN parts[i] ELSE flatten[i - 1] \o parts[i]]
JoinedTo(parts, i) == IF i = 0 THEN <<>> ELSE JoinLoop(parts)[i]
JoinRound(parts, joined, i) == IF i = 1 THEN parts[i] ELSE joined \o parts[i]

LEMMA JoinLoopRuns ==
  ASSUME NEW parts \in Seq(Seq(Byte))
  PROVE  /\ FlattenSeq(parts) = JoinedTo(parts, Len(parts))
         /\ JoinedTo(parts, 0) = <<>>
         /\ \A i \in 1 .. Len(parts) : JoinedTo(parts, i) = JoinedTo(parts, i - 1) \o parts[i]
<1>1. PICK last \in Nat : last = Len(parts) /\ DOMAIN parts = 1 .. last
  BY LenProperties
<1> DEFINE Runs(f, n) ==
             f = [i \in 1 .. n |-> JoinRound(parts, f[i - 1], i)]
           S == {n \in Nat : \E f : Runs(f, n)}
<1>2. 0 \in S
  <2>1. Runs([i \in 1 .. 0 |-> 0], 0)
    OBVIOUS
  <2> QED BY <2>1, Zenon
<1>3. ASSUME NEW n \in Nat, n \in S PROVE n + 1 \in S
  <2>1. PICK f : Runs(f, n)
    BY <1>3, Zenon
  <2> DEFINE g == [i \in 1 .. n + 1 |-> IF i = n + 1 THEN JoinRound(parts, f[n], n + 1)
                                        ELSE f[i]]
  <2>2. \A i \in 1 .. n : g[i] = f[i]
    OBVIOUS
  <2>3. ASSUME NEW i \in 1 .. n + 1
        PROVE  g[i] = JoinRound(parts, g[i - 1], i)
    <3>1. CASE i = 1
      <4>1. \A x, y : JoinRound(parts, x, i) = JoinRound(parts, y, i)
        BY <3>1, Zenon DEF JoinRound
      <4>2. \E x : g[i] = JoinRound(parts, x, i)
        <5>1. CASE n = 0
          BY <3>1, <5>1
        <5>2. CASE n # 0
          BY <2>1, <3>1, <5>2
        <5> QED BY <5>1, <5>2
      <4> HIDE DEF g
      <4> QED BY <4>1, <4>2, Zenon
    <3>2. CASE i # 1 /\ i = n + 1
      BY <2>2, <3>2
    <3>3. CASE i # 1 /\ i # n + 1
      BY <2>1, <2>2, <3>3
    <3> QED BY <3>1, <3>2, <3>3
  <2>4. Runs(g, n + 1)
    BY <2>3
  <2> HIDE DEF g, Runs
  <2> QED BY <2>4
<1>4. \E f : Runs(f, last)
  <2> HIDE DEF Runs
  <2>1. last \in S
    <3> HIDE DEF S
    <3> QED BY <1>2, <1>3, EveryNumber
  <2> QED BY <2>1
<1>5. Runs(JoinLoop(parts), last)
  BY <1>1, <1>4, Zenon DEF JoinLoop, JoinRound
<1> DEFINE f == JoinLoop(parts)
<1> HIDE DEF f
<1>6. \A i \in 1 .. last : f[i] = JoinRound(parts, f[i - 1], i)
  BY <1>5 DEF f
<1>7. JoinedTo(parts, 0) = <<>>
  BY Zenon DEF JoinedTo
<1>8. ASSUME NEW i \in 1 .. last
      PROVE  JoinedTo(parts, i) = JoinedTo(parts, i - 1) \o parts[i]
  <2>1. i # 0 /\ JoinedTo(parts, i) = f[i] /\ parts[i] \in Seq(Byte)
    BY <1>1 DEF JoinedTo, f
  <2>2. CASE i = 1
    <3>1. <<>> \o parts[i] = parts[i]
      BY <2>1
    <3>2. i - 1 = 0
      BY <2>2
    <3> QED BY <1>6, <1>7, <2>1, <2>2, <3>1, <3>2, Zenon DEF JoinRound
  <2>3. CASE i # 1
    <3>1. i - 1 # 0
      BY <2>3
    <3> QED BY <1>6, <2>1, <2>3, <3>1, Zenon DEF JoinRound, JoinedTo, f
  <2> QED BY <2>2, <2>3
<1>9. FlattenSeq(parts) = JoinedTo(parts, last)
  <2>1. CASE last = 0
    <3>1. parts = <<>>
      BY <1>1, <2>1, EmptySeq
    <3>2. FlattenSeq(parts) = parts
      BY <1>1, <2>1, Zenon DEF FlattenSeq
    <3> QED BY <1>7, <2>1, <3>1, <3>2, Zenon
  <2>2. CASE last # 0
    <3>1. Len(parts) # 0 /\ last # 0
      BY <1>1, <2>2
    <3>2. FlattenSeq(parts) = JoinLoop(parts)[Len(parts)]
      BY <3>1, Zenon DEF FlattenSeq, JoinLoop
    <3>3. JoinedTo(parts, last) = JoinLoop(parts)[last]
      BY <3>1, Zenon DEF JoinedTo
    <3> QED BY <1>1, <3>2, <3>3, Zenon
  <2> QED BY <2>1, <2>2
<1> QED BY <1>1, <1>7, <1>8, <1>9, Zenon

\* What lies in memory from each of the parts on.
LaidOut(parts, n, after, all, rest) ==
  /\ after \in [0 .. n -> Seq(Byte)]
  /\ after[0] = all
  /\ after[n] = rest
  /\ \A k \in 1 .. n : after[k - 1] = parts[k] \o after[k]

LEMMA PartsLaidOut ==
  ASSUME NEW parts \in Seq(Seq(Byte)), NEW end \in Seq(Byte)
  PROVE  /\ FlattenSeq(parts) \in Seq(Byte)
         /\ \E after : LaidOut(parts, Len(parts), after, FlattenSeq(parts) \o end, end)
<1>1. PICK last \in Nat : last = Len(parts) /\ DOMAIN parts = 1 .. last
  BY LenProperties
<1> DEFINE joined(i) == JoinedTo(parts, i)
           Laid(i) == /\ joined(i) \in Seq(Byte)
                      /\ \A rest \in Seq(Byte) :
                           \E after : LaidOut(parts, i, after, joined(i) \o rest, rest)
           S == {i \in Nat : i <= last /\ Laid(i)}
<1>2. 0 \in S
  <2>1. joined(0) = <<>> /\ <<>> \in Seq(Byte)
    <3>1. joined(0) = <<>>
      BY JoinLoopRuns, Zenon
    <3> QED BY <3>1
  <2>2. ASSUME NEW rest \in Seq(Byte)
        PROVE  LaidOut(parts, 0, [i \in 0 .. 0 |-> rest], <<>> \o rest, rest)
    BY DEF LaidOut
  <2> HIDE DEF joined
  <2>3. Laid(0)
    BY <2>1, <2>2, Zenon
  <2> HIDE DEF Laid
  <2> QED BY <2>3
<1>3. ASSUME NEW i \in 0 .. last - 1, i \in S PROVE i + 1 \in S
  <2>1. Laid(i)
    BY <1>3, Zenon
  <2>2. i + 1 \in 1 .. last /\ (i + 1) - 1 = i
    OBVIOUS
  <2>3. parts[i + 1] \in Seq(Byte)
    BY <1>1, <2>2
  <2>4. joined(i + 1) = joined(i) \o parts[i + 1]
    BY <1>1, <2>2, JoinLoopRuns, Zenon
  <2> HIDE DEF joined
  <2>5. joined(i + 1) \in Seq(Byte)
    BY <2>1, <2>3, <2>4, ConcatProperties
  <2>6. ASSUME NEW rest \in Seq(Byte)
        PROVE  \E after : LaidOut(parts, i + 1, after, joined(i + 1) \o rest, rest)
    <3>1. parts[i + 1] \o rest \in Seq(Byte)
      BY <2>3, ConcatProperties
    <3>2. joined(i) \o (parts[i + 1] \o rest) = joined(i + 1) \o rest
      <4>1. PICK s \in Seq(Byte), t \in Seq(Byte) : s = joined(i) /\ t = parts[i + 1]
        BY <2>1, <2>3, Zenon
      <4>2. (s \o t) \o rest = s \o (t \o rest)
        BY BytesAssociative, Zenon
      <4> QED BY <2>4, <4>1, <4>2, Zenon
    <3>3. PICK before :
            LaidOut(parts, i, before, joined(i + 1) \o rest, parts[i + 1] \o rest)
      BY <2>1, <3>1, <3>2, Zenon
    <3> DEFINE all == joined(i + 1) \o rest
               tail == parts[i + 1] \o rest
               after == [k \in 0 .. i + 1 |-> IF k = i + 1 THEN rest ELSE before[k]]
    <3>4. /\ before \in [0 .. i -> Seq(Byte)] /\ before[0] = all /\ before[i] = tail
          /\ \A k \in 1 .. i : before[k - 1] = parts[k] \o before[k]
      BY <3>3, Zenon DEF LaidOut
    <3> HIDE DEF all
    <3>5. after \in [0 .. i + 1 -> Seq(Byte)] /\ after[0] = all /\ after[i + 1] = rest
      BY <3>4
    <3>6. ASSUME NEW k \in 1 .. i + 1 PROVE after[k - 1] = parts[k] \o after[k]
      <4>1. CASE k = i + 1
        <5>1. after[k - 1] = before[i] /\ after[k] = rest
          BY <4>1
        <5> HIDE DEF after
        <5> QED BY <3>4, <4>1, <5>1, Zenon
      <4>2. CASE k # i + 1
        <5>1. k \in 1 .. i /\ after[k - 1] = before[k - 1] /\ after[k] = before[k]
          BY <4>2
        <5> HIDE DEF after
        <5> QED BY <3>4, <5>1, Zenon
      <4> QED BY <4>1, <4>2
    <3> HIDE DEF after
    <3> QED BY <3>5, <3>6, Zenon DEF LaidOut, all
  <2>7. Laid(i + 1)
    BY <2>5, <2>6, Zenon
  <2> HIDE DEF Laid
  <2> QED BY <2>2, <2>7
<1>4. Laid(last)
  <2> HIDE DEF Laid
  <2>1. last \in S
    <3> HIDE DEF S
    <3>1. \A i \in 0 .. last : i \in S
      BY <1>2, <1>3, UpToLast, Zenon
    <3> QED BY <3>1
  <2> QED BY <2>1
<1>5. FlattenSeq(parts) = joined(last)
  BY <1>1, JoinLoopRuns, Zenon
<1> HIDE DEF joined
<1> QED BY <1>1, <1>4, <1>5, Zenon
-----------------------------------------------------------------------------
\* What the loops keep.

\* A sequence that grows by one for each value that is read: what is at the places ok
\* is what was written there.
Kept(val, i, v, ok) ==
  /\ val = [k \in 1 .. i |-> val[k]]
  /\ \A k \in 1 .. i : k \in ok => val[k] = v[k]

LEMMA KeptGrows ==
  ASSUME NEW val, NEW i \in Nat, NEW v, NEW ok, Kept(val, i, v, ok),
         NEW x, i + 1 \in ok => x = v[i + 1]
  PROVE  Kept(Append(val, x), i + 1, v, ok)
<1> DEFINE S == {val[k] : k \in 1 .. i} \cup {x}
           new == Append(val, x)
<1>1. val \in Seq(S) /\ Len(val) = i /\ x \in S
  <2>1. val \in [1 .. i -> S]
    <3>1. [k \in 1 .. i |-> val[k]] \in [1 .. i -> S]
      OBVIOUS
    <3> HIDE DEF S
    <3> QED BY <3>1, Zenon DEF Kept
  <2> HIDE DEF S
  <2>2. val \in Seq(S) /\ Len(val) = i
    BY <2>1, SeqDef, LenProperties
  <2>3. x \in S
    BY DEF S
  <2> QED BY <2>2, <2>3
<1> HIDE DEF S
<1>2. /\ new \in Seq(S) /\ Len(new) = i + 1 /\ new[i + 1] = x
      /\ \A k \in 1 .. i : new[k] = val[k]
  BY <1>1, AppendProperties
<1> HIDE DEF new
<1>3. new = [k \in 1 .. i + 1 |-> new[k]]
  <2>1. DOMAIN new = 1 .. i + 1 /\ new \in [1 .. i + 1 -> S]
    BY <1>2, LenProperties
  <2> QED BY <2>1
<1>4. ASSUME NEW k \in 1 .. i + 1, k \in ok PROVE new[k] = v[k]
  <2>1. CASE k = i + 1
    BY <1>2, <1>4, <2>1
  <2>2. CASE k # i + 1
    <3>1. k \in 1 .. i
      BY <2>2
    <3>2. val[k] = v[k]
      BY <1>4, <3>1, Zenon DEF Kept
    <3> QED BY <1>2, <3>1, <3>2
  <2> QED BY <2>1, <2>2
<1> QED BY <1>3, <1>4, Zenon DEF Kept, new

LEMMA KeptStarts ==
  ASSUME NEW v, NEW ok
  PROVE  Kept(<<>>, 0, v, ok)
BY DEF Kept

LEMMA KeptAll ==
  ASSUME NEW val, NEW n, NEW v, NEW ok, Kept(val, n, v, ok),
         v = [k \in 1 .. n |-> v[k]], \A k \in 1 .. n : k \in ok
  PROVE  val = v
<1>1. [k \in 1 .. n |-> val[k]] = [k \in 1 .. n |-> v[k]]
  BY Zenon DEF Kept
<1> QED BY <1>1, Zenon DEF Kept
-----------------------------------------------------------------------------
\* A value that is read back, whatever follows it in memory: an error is set exactly if
\* it is reported, and what can be read is what was written.
Answers(T, v, r) ==
  /\ r.ia.error = Reported(T, v)
  /\ Broken(T, v) \/ r.val = v

Exact(T, v) ==
  /\ Write(T, v) \in Seq(Byte)
  /\ Broken(T, v) \in BOOLEAN
  /\ Reported(T, v) \in BOOLEAN
  /\ Reported(T, v) => Broken(T, v)
  /\ \A rest \in Seq(Byte) :
       Answers(T, v, Read(T, Input(Write(T, v) \o rest, Len(Write(T, v)), FALSE)))

\* One that can be part of another.
ExactPart(T, v) ==
  /\ Exact(T, v)
  /\ IF Fundamental(T)
     THEN IsLeafValue(T, v) /\ Write(T, v) = WriteLeaf(T, v) /\ Broken(T, v) = FALSE
     ELSE IsLength(Len(Write(T, v)))

TakenAsIs(T, v, rest, size, error) ==
  \E s \in Int :
    ReadFundamental(T, Input(Write(T, v) \o rest, size, error)) =
      [val |-> v, ia |-> Input(rest, s, error)]

LEMMA FundamentalTaken ==
  ASSUME NEW T, NEW v, ExactPart(T, v), Fundamental(T), NEW rest \in Seq(Byte),
         NEW size \in Int, NEW error
  PROVE  TakenAsIs(T, v, rest, size, error)
<1>1. /\ IsLeafValue(T, v) /\ Write(T, v) = WriteLeaf(T, v)
      /\ Write(T, v) \in Seq(Byte)
  BY Zenon DEF ExactPart, Exact
<1>2. PICK len \in Nat : len = Len(Write(T, v))
  BY <1>1, LenProperties
<1>3. size - len \in Int
  OBVIOUS
<1>4. CASE T.kind = "raw"
  <2>1. v \in Seq(Byte) /\ T.size = Len(v) /\ WriteLeaf(T, v) = v
    BY <1>1, <1>4 DEF IsLeafValue, WriteLeaf
  <2>2. Take(Len(v), Input(v \o rest, size, error)) =
          [val |-> v, ia |-> Input(rest, size - Len(v), error)]
    <3>1. FrontRead(v, rest, size, error)
      BY <2>1, BytesTaken, Zenon
    <3> QED BY <3>1, Zenon DEF FrontRead
  <2>3. \A ia : ReadFundamental(T, ia) = Take(Len(v), ia)
    BY <1>4, <2>1, Zenon DEF ReadFundamental
  <2> QED BY <1>1, <1>2, <1>3, <2>1, <2>2, <2>3, Zenon DEF TakenAsIs
<1>5. CASE T.kind # "raw"
  <2>1. T.kind = "int"
    BY <1>5 DEF Fundamental
  <2>2. /\ v \in Int /\ FitsIn(IF v < 0 THEN -v ELSE v, 8)
        /\ WriteLeaf(T, v) = AutoSize(v)
    BY <1>1, <2>1 DEF IsLeafValue, WriteLeaf
  <2>3. ReadAutoSize(Input(AutoSize(v) \o rest, size, error)) =
          [val |-> v, ia |-> Input(rest, size - Len(AutoSize(v)), error)]
    BY <2>2, NumberTaken, Zenon
  <2>4. \A ia : ReadFundamental(T, ia) = ReadAutoSize(ia)
    BY <1>5, Zenon DEF ReadFundamental
  <2> QED BY <1>1, <1>2, <1>3, <2>2, <2>3, <2>4, Zenon DEF TakenAsIs
<1> QED BY <1>4, <1>5, Zenon

\* What a part leaves: its value, the archive from its end on, and an error.
GoesOn(T, v, rest, error, r) ==
  /\ Broken(T, v) \/ r.val = v
  /\ \E s \in Int : r = [val |-> r.val, ia |-> Input(rest, s, error)]

TakenOut(T, v, rest, size, error) ==
  \E s \in Int :
    OpenArchive(Input(WriteItem(T, v) \o rest, size, error)) =
      [inner |-> Input(Write(T, v) \o rest, Len(Write(T, v)), FALSE),
       ia |-> Input(rest, s, error)]

LEMMA NestedTaken ==
  ASSUME NEW T, NEW v, ExactPart(T, v), ~Fundamental(T), NEW rest \in Seq(Byte),
         NEW size \in Int, NEW error
  PROVE  TakenOut(T, v, rest, size, error)
<1> DEFINE b == Write(T, v)
<1>1. b \in Seq(Byte) /\ IsLength(Len(b)) /\ WriteItem(T, v) = Nest(b)
  BY Zenon DEF ExactPart, Exact, WriteItem
<1> HIDE DEF b
<1>2. OpenArchive(Input(Nest(b) \o rest, size, error)) =
        [inner |-> Input(b \o rest, Len(b), FALSE),
         ia |-> Input(rest, size - Len(Nest(b)), error)]
  BY <1>1, NestedFound, Zenon
<1>3. size - Len(Nest(b)) \in Int
  <2>1. Nest(b) \in Seq(Byte)
    <3>1. AutoSize(Len(b)) \in Seq(Byte)
      <4>1. Len(b) \in Int /\ FitsIn(IF Len(b) < 0 THEN -Len(b) ELSE Len(b), 8)
        BY <1>1, LengthFits, Zenon
      <4> QED BY <4>1, SizeRest, Zenon
    <3> QED BY <1>1, <3>1, ConcatProperties, Zenon DEF Nest
  <2>2. PICK len \in Nat : len = Len(Nest(b))
    BY <2>1, LenProperties
  <2> QED BY <2>2
<1> QED BY <1>1, <1>2, <1>3, Zenon DEF b, TakenOut

LEMMA ItemWritten ==
  ASSUME NEW T, NEW v, ExactPart(T, v)
  PROVE  WriteItem(T, v) \in Seq(Byte)
<1> DEFINE b == Write(T, v)
<1>1. b \in Seq(Byte)
  BY Zenon DEF ExactPart, Exact
<1>2. CASE Fundamental(T)
  BY <1>1, <1>2, Zenon DEF WriteItem
<1>3. CASE ~Fundamental(T)
  <2>1. IsLength(Len(b)) /\ WriteItem(T, v) = Nest(b)
    BY <1>3, Zenon DEF WriteItem, ExactPart
  <2> HIDE DEF b
  <2>2. AutoSize(Len(b)) \in Seq(Byte)
    <3>1. Len(b) \in Int /\ FitsIn(IF Len(b) < 0 THEN -Len(b) ELSE Len(b), 8)
      BY <2>1, LengthFits, Zenon
    <3> QED BY <3>1, <1>1, SizeRest, Zenon
  <2> QED BY <1>1, <2>1, <2>2, ConcatProperties, Zenon DEF Nest
<1> QED BY <1>2, <1>3, Zenon
-----------------------------------------------------------------------------
\* One round of each loop.

\* An element of a tuple: no error is left, and std::ignore is passed over.
ElementBack(T, v, rest, r) ==
  /\ GoesOn(T, v, rest, FALSE, r)
  /\ T.kind = "ignore" => r.val = v

LEMMA ElementTaken ==
  ASSUME NEW T, NEW v, IF T.kind = "ignore" THEN v = <<>> ELSE ExactPart(T, v),
         NEW rest \in Seq(Byte), NEW size \in Int
  PROVE  ElementBack(T, v, rest,
                     ReadElement(T, Input(WriteElement(T, v) \o rest, size, FALSE)))
<1> DEFINE ia == Input(WriteElement(T, v) \o rest, size, FALSE)
           r == ReadElement(T, ia)
<1>1. CASE T.kind = "ignore"
  <2>1. WriteElement(T, v) \o rest = rest
    <3>1. WriteElement(T, v) = <<>>
      BY <1>1, Zenon DEF WriteElement
    <3>2. <<>> \o rest = rest
      OBVIOUS
    <3> QED BY <3>1, <3>2, Zenon
  <2>2. r = [val |-> <<>>, ia |-> Input(rest, size, FALSE)]
    BY <1>1, <2>1, Zenon DEF ReadElement
  <2> HIDE DEF r
  <2>3. r.val = v /\ r = [val |-> r.val, ia |-> Input(rest, size, FALSE)]
    BY <1>1, <2>2
  <2> QED BY <1>1, <2>3, Zenon DEF ElementBack, GoesOn, r, ia
<1>2. CASE T.kind # "ignore"
  <2>1. ExactPart(T, v) /\ WriteElement(T, v) = WriteItem(T, v)
    BY <1>2, Zenon DEF WriteElement
  <2>2. CASE Fundamental(T)
    <3>1. WriteItem(T, v) = Write(T, v)
      BY <2>2, Zenon DEF WriteItem
    <3>2. r = ReadFundamental(T, ia)
      BY <1>2, <2>2, Zenon DEF ReadElement
    <3>3. PICK s \in Int :
            ReadFundamental(T, Input(Write(T, v) \o rest, size, FALSE)) =
              [val |-> v, ia |-> Input(rest, s, FALSE)]
      <4>1. TakenAsIs(T, v, rest, size, FALSE)
        BY <2>1, <2>2, FundamentalTaken, Zenon
      <4> QED BY <4>1, Zenon DEF TakenAsIs
    <3>4. r = [val |-> v, ia |-> Input(rest, s, FALSE)]
      BY <2>1, <3>1, <3>2, <3>3, Zenon
    <3> HIDE DEF r
    <3>5. r.val = v /\ r = [val |-> r.val, ia |-> Input(rest, s, FALSE)]
      BY <3>4
    <3> QED BY <1>2, <3>5, Zenon DEF ElementBack, GoesOn, r, ia
  <2>3. CASE ~Fundamental(T)
    <3>1. PICK s \in Int :
            OpenArchive(Input(WriteItem(T, v) \o rest, size, FALSE)) =
              [inner |-> Input(Write(T, v) \o rest, Len(Write(T, v)), FALSE),
               ia |-> Input(rest, s, FALSE)]
      <4>1. TakenOut(T, v, rest, size, FALSE)
        BY <2>1, <2>3, NestedTaken, Zenon
      <4> QED BY <4>1, Zenon DEF TakenOut
    <3> DEFINE nested == OpenArchive(ia)
               inner == Input(Write(T, v) \o rest, Len(Write(T, v)), FALSE)
    <3>2. r = [val |-> Read(T, nested.inner).val, ia |-> nested.ia]
      BY <1>2, <2>3, Zenon DEF ReadElement
    <3>3. nested = [inner |-> inner, ia |-> Input(rest, s, FALSE)]
      BY <2>1, <3>1, Zenon
    <3>4. Answers(T, v, Read(T, inner))
      BY <2>1, Zenon DEF ExactPart, Exact
    <3> HIDE DEF nested, inner
    <3>5. nested.inner = inner /\ nested.ia = Input(rest, s, FALSE)
      BY <3>3
    <3> HIDE DEF r
    <3>6. r.val = Read(T, inner).val /\ r.ia = Input(rest, s, FALSE)
          /\ r = [val |-> r.val, ia |-> r.ia]
      BY <3>2, <3>5
    <3>7. Broken(T, v) \/ r.val = v
      BY <3>4, <3>6, Zenon DEF Answers
    <3> QED BY <1>2, <3>6, <3>7, Zenon DEF ElementBack, GoesOn, r, ia
  <2> QED BY <2>2, <2>3, Zenon
<1> QED BY <1>1, <1>2, Zenon

\* A length is read back from the archive it was put into.
LengthBack(n, rest, size) ==
  /\ AutoSize(n) \in Seq(Byte)
  /\ ReadAutoSize(Input(AutoSize(n) \o rest, size, FALSE)) =
       [val |-> n, ia |-> Input(rest, size - Len(AutoSize(n)), FALSE)]

LEMMA LengthTaken ==
  ASSUME NEW n, IsLength(n), NEW rest \in Seq(Byte), NEW size
  PROVE  LengthBack(n, rest, size)
<1>1. n \in Int /\ FitsIn(IF n < 0 THEN -n ELSE n, 8)
  BY LengthFits, Zenon
<1>2. AutoSize(n) \in Seq(Byte)
  BY <1>1, SizeRest, Zenon
<1> QED BY <1>1, <1>2, NumberTaken, Zenon DEF LengthBack

LEMMA NotReported ==
  ASSUME NEW T, NEW v, ExactPart(T, v), Fundamental(T)
  PROVE  Reported(T, v) = FALSE /\ Broken(T, v) = FALSE
<1>1. Broken(T, v) = FALSE /\ (Reported(T, v) => Broken(T, v)) /\ Reported(T, v) \in BOOLEAN
  BY Zenon DEF ExactPart, Exact
<1> QED BY <1>1

WithData(ia, data) == [ia EXCEPT !.data = data]
WithError(ia, error) == [ia EXCEPT !.error = error]

Changes(d, size, f, rest, e) ==
  WithError(WithData(Input(d, size, f), rest), e) = Input(rest, size, e)

LEMMA InputChanged ==
  ASSUME NEW d, NEW size, NEW f, NEW rest, NEW e
  PROVE  Changes(d, size, f, rest, e)
<1>1. WithData(Input(d, size, f), rest) = Input(rest, size, f)
  BY DEF Input, WithData
<1>2. WithError(Input(rest, size, f), e) = Input(rest, size, e)
  BY DEF Input, WithError
<1> QED BY <1>1, <1>2, Zenon DEF Changes

LEMMA FieldTaken ==
  ASSUME NEW T, NEW v, ExactPart(T, v), NEW rest \in Seq(Byte), NEW size \in Int
  PROVE  GoesOn(T, v, rest, Reported(T, v),
                ReadField(T, Input(WriteItem(T, v) \o rest, size, FALSE)))
<1> DEFINE ia == Input(WriteItem(T, v) \o rest, size, FALSE)
           r == ReadField(T, ia)
<1>1. CASE Fundamental(T)
  <2>1. WriteItem(T, v) = Write(T, v)
    BY <1>1, Zenon DEF WriteItem
  <2>2. r = ReadFundamental(T, ia)
    BY <1>1, Zenon DEF ReadField
  <2>3. PICK s \in Int :
          ReadFundamental(T, Input(Write(T, v) \o rest, size, FALSE)) =
            [val |-> v, ia |-> Input(rest, s, FALSE)]
    <3>1. TakenAsIs(T, v, rest, size, FALSE)
      BY <1>1, FundamentalTaken, Zenon
    <3> QED BY <3>1, Zenon DEF TakenAsIs
  <2>4. r = [val |-> v, ia |-> Input(rest, s, FALSE)] /\ Reported(T, v) = FALSE
    BY <1>1, <2>1, <2>2, <2>3, NotReported, Zenon
  <2> HIDE DEF r
  <2>5. r.val = v /\ r = [val |-> r.val, ia |-> Input(rest, s, Reported(T, v))]
    BY <2>4
  <2> QED BY <2>5, Zenon DEF GoesOn, r, ia
<1>2. CASE ~Fundamental(T)
  <2> DEFINE b == Write(T, v)
             head == AutoSize(Len(b))
             after == b \o rest
             inner == Input(b \o rest, Len(b), FALSE)
             x == Read(T, inner)
  <2>1. b \in Seq(Byte) /\ IsLength(Len(b)) /\ Answers(T, v, x)
    BY <1>2, Zenon DEF ExactPart, Exact
  <2>2. WriteItem(T, v) = head \o b
    BY <1>2, Zenon DEF WriteItem, Nest
  <2> HIDE DEF b, x
  <2>3. after \in Seq(Byte)
    BY <2>1, ConcatProperties
  <2>4. head \in Seq(Byte) /\ Reads(Len(b), head, after)
    <3> HIDE DEF after
    <3>1. Len(b) \in Int /\ FitsIn(IF Len(b) < 0 THEN -Len(b) ELSE Len(b), 8)
      BY <2>1, LengthFits, Zenon
    <3> QED BY <2>3, <3>1, SizeRest, Zenon
  <2> HIDE DEF head
  <2>5. (head \o b) \o rest = head \o after
    BY <2>1, <2>4, BytesAssociative, Zenon
  <2> HIDE DEF after
  <2>6. /\ ia.data = head \o after /\ ia.size = size /\ ia.error = FALSE
        /\ ia = Input(ia.data, ia.size, ia.error)
    <3>1. ia = Input(head \o after, size, FALSE)
      BY <2>2, <2>5, Zenon
    <3>2. PICK all : all = head \o after
      OBVIOUS
    <3> HIDE DEF ia
    <3>3. ia = Input(all, size, FALSE)
      BY <3>1, <3>2, Zenon
    <3>4. /\ ia.data = all /\ ia.size = size /\ ia.error = FALSE
          /\ ia = Input(ia.data, ia.size, ia.error)
      BY <3>3 DEF Input
    <3> QED BY <3>2, <3>4, Zenon
  <2> HIDE DEF ia
  <2>7. FromAutoSize(ia.data) = [value |-> Len(b), cost |-> Len(head)]
    BY <2>4, <2>6, Zenon DEF Reads
  <2>8. FromAutoSize(ia.data).value = Len(b) /\ FromAutoSize(ia.data).cost = Len(head)
    BY <2>7
  <2>9. SubSeq(ia.data, Len(head) + 1, Len(ia.data)) = after
    BY <2>3, <2>4, <2>6, FrontTaken, Zenon
  <2>10. SubSeq(after, Len(b) + 1, Len(after)) = rest
    BY <2>1, FrontTaken, Zenon DEF after
  <2>11. [data |-> after, size |-> Len(b), error |-> FALSE] = inner
    BY Zenon DEF Input, after
  <2> HIDE DEF inner
  <2>12. r = [val |-> Read(T, inner).val,
              ia |-> [ia EXCEPT !.data = rest, !.error = Read(T, inner).ia.error]]
    BY <1>2, <2>8, <2>9, <2>10, <2>11, Zenon DEF ReadField
  <2>13. [ia EXCEPT !.data = rest, !.error = x.ia.error] = Input(rest, size, x.ia.error)
    <3>1. PICK d, e : d = ia.data /\ e = x.ia.error
      OBVIOUS
    <3>2. WithError(WithData(Input(d, size, FALSE), rest), e) = Input(rest, size, e)
      <4>1. Changes(d, size, FALSE, rest, e)
        BY InputChanged, Zenon
      <4> QED BY <4>1, Zenon DEF Changes
    <3>3. ia = Input(d, size, FALSE)
      BY <2>6, <3>1, Zenon
    <3>4. WithError(WithData(ia, rest), e) = Input(rest, size, e)
      BY <3>2, <3>3, Zenon
    <3> QED BY <3>1, <3>4, Zenon DEF WithData, WithError
  <2>14. x.ia.error = Reported(T, v) /\ (Broken(T, v) \/ x.val = v)
    BY <2>1, Zenon DEF Answers
  <2>15. r = [val |-> x.val, ia |-> Input(rest, size, Reported(T, v))]
    BY <2>12, <2>13, <2>14, Zenon DEF x
  <2> HIDE DEF r
  <2>16. r.val = x.val /\ r = [val |-> r.val, ia |-> Input(rest, size, Reported(T, v))]
    BY <2>15
  <2>17. Broken(T, v) \/ r.val = v
    BY <2>14, <2>16, Zenon
  <2> QED BY <2>16, <2>17, Zenon DEF GoesOn, r, ia
<1> QED BY <1>1, <1>2, Zenon

\* An item is added to those before it, or the container has the error of the item.
Added(T, v, rest, items, next) ==
  IF Reported(T, v) THEN next.ia.error = TRUE
  ELSE \E got : \E s \in Int :
         /\ Broken(T, v) \/ got = v
         /\ next = [items |-> Append(items, got), ia |-> Input(rest, s, FALSE)]

AddedBy(T, v, rest, acc, next) ==
  \E r : \E s \in Int :
    /\ r.ia.error = Reported(T, v)
    /\ Broken(T, v) \/ r.val = v
    /\ next = AddItem(acc, Input(rest, s, FALSE), r)

LEMMA AddedNext ==
  ASSUME NEW T, NEW v, NEW rest, NEW acc, NEW next, AddedBy(T, v, rest, acc, next),
         Reported(T, v) \in BOOLEAN
  PROVE  Added(T, v, rest, acc.items, next)
<1>1. PICK r : \E s \in Int :
        /\ r.ia.error = Reported(T, v)
        /\ Broken(T, v) \/ r.val = v
        /\ next = AddItem(acc, Input(rest, s, FALSE), r)
  BY Zenon DEF AddedBy
<1>2. PICK s \in Int :
        /\ r.ia.error = Reported(T, v)
        /\ Broken(T, v) \/ r.val = v
        /\ next = AddItem(acc, Input(rest, s, FALSE), r)
  BY <1>1, Zenon
<1>3. CASE Reported(T, v) = TRUE
  <2>1. next = [items |-> acc.items, ia |-> [Input(rest, s, FALSE) EXCEPT !.error = TRUE]]
    <3>1. r.ia.error = TRUE
      BY <1>2, <1>3
    <3> QED BY <1>2, <3>1, Zenon DEF AddItem
  <2>2. next.ia.error = TRUE
    BY <2>1 DEF Input
  <2> QED BY <1>3, <2>2, Zenon DEF Added
<1>4. CASE Reported(T, v) = FALSE
  <2>1. next = [items |-> Append(acc.items, r.val), ia |-> Input(rest, s, FALSE)]
    <3>1. r.ia.error = FALSE
      BY <1>2, <1>4
    <3> QED BY <1>2, <3>1, Zenon DEF AddItem
  <2> QED BY <1>2, <1>4, <2>1, Zenon DEF Added
<1> QED BY <1>3, <1>4

LEMMA ItemTaken ==
  ASSUME NEW T, NEW v, ExactPart(T, v), NEW rest \in Seq(Byte), NEW size \in Int,
         NEW acc, acc.ia = Input(WriteItem(T, v) \o rest, size, FALSE)
  PROVE  Added(T, v, rest, acc.items, ReadItem(T, acc))
<1> DEFINE ia == Input(WriteItem(T, v) \o rest, size, FALSE)
           next == ReadItem(T, acc)
<1>1. acc.ia.error = FALSE
  BY DEF Input
<1>3. CASE Fundamental(T)
  <2>1. WriteItem(T, v) = Write(T, v)
    BY <1>3, Zenon DEF WriteItem
  <2>2. PICK s \in Int :
          ReadFundamental(T, Input(Write(T, v) \o rest, size, FALSE)) =
            [val |-> v, ia |-> Input(rest, s, FALSE)]
    <3>1. TakenAsIs(T, v, rest, size, FALSE)
      BY <1>3, FundamentalTaken, Zenon
    <3> QED BY <3>1, Zenon DEF TakenAsIs
  <2>3. PICK r : r = [val |-> v, ia |-> Input(rest, s, FALSE)]
    OBVIOUS
  <2>4. r.val = v /\ r.ia = Input(rest, s, FALSE) /\ r.ia.error = FALSE
    BY <2>3 DEF Input
  <2>5. ReadFundamental(T, acc.ia) = r
    BY <2>1, <2>2, <2>3, Zenon
  <2>6. next = AddItem(acc, Input(rest, s, FALSE), r)
    BY <1>1, <1>3, <2>4, <2>5, Zenon DEF ReadItem, AddFundamental
  <2>7. r.ia.error = Reported(T, v) /\ (Broken(T, v) \/ r.val = v)
    <3>1. Reported(T, v) = FALSE
      BY <1>3, NotReported, Zenon
    <3> QED BY <2>4, <3>1, Zenon
  <2> HIDE DEF next
  <2>8. AddedBy(T, v, rest, acc, next)
    BY <2>6, <2>7, Zenon DEF AddedBy
  <2>9. Added(T, v, rest, acc.items, next)
    BY <2>8, AddedNext, Zenon DEF ExactPart, Exact
  <2> QED BY <2>9, Zenon DEF next
<1>4. CASE ~Fundamental(T)
  <2> DEFINE inner == Input(Write(T, v) \o rest, Len(Write(T, v)), FALSE)
             nested == OpenArchive(acc.ia)
             r == Read(T, inner)
  <2>1. PICK s \in Int :
          OpenArchive(Input(WriteItem(T, v) \o rest, size, FALSE)) =
            [inner |-> inner, ia |-> Input(rest, s, FALSE)]
    <3>1. TakenOut(T, v, rest, size, FALSE)
      BY <1>4, NestedTaken, Zenon
    <3> QED BY <3>1, Zenon DEF TakenOut
  <2>2. Answers(T, v, r)
    BY Zenon DEF ExactPart, Exact
  <2> HIDE DEF inner
  <2>3. nested = [inner |-> inner, ia |-> Input(rest, s, FALSE)]
    BY <2>1, Zenon
  <2>4. next = AddItem(acc, nested.ia, Read(T, nested.inner))
    BY <1>1, <1>4, Zenon DEF ReadItem, AddNested
  <2> HIDE DEF nested
  <2>5. nested.inner = inner /\ nested.ia = Input(rest, s, FALSE)
    BY <2>3
  <2> HIDE DEF next
  <2>6. next = AddItem(acc, Input(rest, s, FALSE), r)
    BY <2>4, <2>5, Zenon
  <2>7. r.ia.error = Reported(T, v) /\ (Broken(T, v) \/ r.val = v)
    BY <2>2, Zenon DEF Answers
  <2> HIDE DEF r
  <2>8. AddedBy(T, v, rest, acc, next)
    BY <2>6, <2>7, Zenon DEF AddedBy
  <2>9. Added(T, v, rest, acc.items, next)
    BY <2>8, AddedNext, Zenon DEF ExactPart, Exact
  <2> QED BY <2>9, Zenon DEF next
<1> QED BY <1>3, <1>4, Zenon
-----------------------------------------------------------------------------
\* Containers (operator<< of std_list_like.hpp).

\* The places whose values can be read, and whether some value cannot be.
Sound(T, items) == {k \in 1 .. Len(items) : Broken(T, items[k]) = FALSE}
SomeReported(T, items, i) == \E k \in 1 .. i : Reported(T, items[k])
SomeBroken(T, items) == \E k \in 1 .. Len(items) : Broken(T, items[k])

\* A container after i of its items: nothing is added after an error.
ItemsState(T, items, after, acc, i) ==
  IF SomeReported(T, items, i) THEN acc.ia.error = TRUE
  ELSE /\ \E s \in Int : acc.ia = Input(after[i], s, FALSE)
       /\ Kept(acc.items, i, items, Sound(T, items))

LEMMA ItemsStep ==
  ASSUME NEW T, NEW items, NEW after, NEW acc, Len(items) \in Nat,
         NEW i \in 0 .. Len(items) - 1,
         ExactPart(T, items[i + 1]), after[i + 1] \in Seq(Byte),
         after[i] = WriteItem(T, items[i + 1]) \o after[i + 1],
         ItemsState(T, items, after, acc, i)
  PROVE  ItemsState(T, items, after, ReadItem(T, acc), i + 1)
<1> DEFINE next == ReadItem(T, acc)
           v == items[i + 1]
<1>1. i + 1 \in 1 .. i + 1 /\ 1 .. i \subseteq 1 .. i + 1 /\ i \in Nat
      /\ i + 1 \in 1 .. Len(items)
  OBVIOUS
<1>2. CASE SomeReported(T, items, i)
  <2>1. acc.ia.error = TRUE
    BY <1>2, Zenon DEF ItemsState
  <2>2. next = acc
    BY <2>1, Zenon DEF ReadItem
  <2>3. SomeReported(T, items, i + 1)
    BY <1>1, <1>2, Zenon DEF SomeReported
  <2> QED BY <2>1, <2>2, <2>3, Zenon DEF ItemsState
<1>3. CASE ~SomeReported(T, items, i)
  <2>1. PICK s \in Int : acc.ia = Input(after[i], s, FALSE)
    BY <1>3, Zenon DEF ItemsState
  <2>2. Kept(acc.items, i, items, Sound(T, items))
    BY <1>3, Zenon DEF ItemsState
  <2>3. Added(T, v, after[i + 1], acc.items, next)
    <3>1. acc.ia = Input(WriteItem(T, v) \o after[i + 1], s, FALSE)
      BY <2>1, Zenon
    <3> QED BY <3>1, ItemTaken, Zenon
  <2> HIDE DEF next
  <2>4. CASE Reported(T, v)
    <3>1. SomeReported(T, items, i + 1)
      BY <1>1, <2>4, Zenon DEF SomeReported
    <3>2. next.ia.error = TRUE
      BY <2>3, <2>4, Zenon DEF Added
    <3> QED BY <3>1, <3>2, Zenon DEF ItemsState, next
  <2>5. CASE ~Reported(T, v)
    <3>1. ~SomeReported(T, items, i + 1)
      <4>1. \A k \in 1 .. i + 1 : k = i + 1 \/ k \in 1 .. i
        OBVIOUS
      <4> QED BY <1>3, <2>5, <4>1, Zenon DEF SomeReported
    <3>2. PICK got : \E t \in Int :
            /\ Broken(T, v) \/ got = v
            /\ next = [items |-> Append(acc.items, got),
                       ia |-> Input(after[i + 1], t, FALSE)]
      BY <2>3, <2>5, Zenon DEF Added
    <3>3. PICK t \in Int :
            /\ Broken(T, v) \/ got = v
            /\ next = [items |-> Append(acc.items, got),
                       ia |-> Input(after[i + 1], t, FALSE)]
      BY <3>2, Zenon
    <3>4. next.items = Append(acc.items, got) /\ next.ia = Input(after[i + 1], t, FALSE)
      BY <3>3
    <3>5. i + 1 \in Sound(T, items) => got = items[i + 1]
      <4>1. Broken(T, v) = FALSE => ~Broken(T, v)
        OBVIOUS
      <4> QED BY <3>3, <4>1, Zenon DEF Sound, v
    <3>6. Kept(Append(acc.items, got), i + 1, items, Sound(T, items))
      BY <1>1, <2>2, <3>5, KeptGrows, Zenon
    <3> QED BY <3>1, <3>4, <3>6, Zenon DEF ItemsState, next
  <2> QED BY <2>4, <2>5
<1> QED BY <1>2, <1>3

\* What is read of a container, where rest follows it in memory.
ItemsBack(T, items, rest) ==
  LET b == WriteItems(T, items)
      r == ReadItems(T, Input(b \o rest, Len(b), FALSE))
  IN /\ b \in Seq(Byte)
     /\ IF SomeReported(T, items, Len(items)) THEN r.ia.error = TRUE
        ELSE r.ia.error = FALSE
     /\ SomeBroken(T, items) \/ SomeReported(T, items, Len(items)) \/ r.items = items

LEMMA ItemsRead ==
  ASSUME NEW T, NEW items, IsSeq(items), IsLength(Len(items)),
         \A k \in 1 .. Len(items) : ExactPart(T, items[k]), NEW rest \in Seq(Byte)
  PROVE  ItemsBack(T, items, rest)
<1>1. PICK n \in Nat : n = Len(items) /\ items = [k \in 1 .. n |-> items[k]]
  BY Zenon DEF IsSeq
<1> DEFINE parts == [k \in DOMAIN items |-> WriteItem(T, items[k])]
           flat == FlattenSeq(parts)
           head == AutoSize(n)
           b == WriteItems(T, items)
           ia == Input(b \o rest, Len(b), FALSE)
           r == ReadItems(T, ia)
<1>2. /\ parts \in Seq(Seq(Byte)) /\ Len(parts) = n
      /\ \A k \in 1 .. n : parts[k] = WriteItem(T, items[k])
  <2>1. DOMAIN items = 1 .. n
    BY <1>1
  <2>2. \A k \in 1 .. n : WriteItem(T, items[k]) \in Seq(Byte)
    BY <1>1, ItemWritten
  <2>3. parts \in [1 .. n -> Seq(Byte)]
    BY <2>1, <2>2
  <2>4. \A k \in 1 .. n : parts[k] = WriteItem(T, items[k])
    BY <2>1
  <2> HIDE DEF parts
  <2> QED BY <2>3, <2>4, SeqDef, LenProperties
<1>3. b = head \o flat
  BY <1>1, Zenon DEF WriteItems
<1> HIDE DEF parts
<1>4. flat \in Seq(Byte) /\ \E after : LaidOut(parts, n, after, flat \o rest, rest)
  BY <1>2, PartsLaidOut, Zenon
<1> HIDE DEF flat
<1>5. PICK after : LaidOut(parts, n, after, flat \o rest, rest)
  BY <1>4, Zenon
<1>6. flat \o rest \in Seq(Byte)
  BY <1>4, ConcatProperties
<1>7. LengthBack(n, flat \o rest, Len(b))
  BY <1>1, <1>6, LengthTaken, Zenon
<1>8. head \in Seq(Byte)
  BY <1>7, Zenon DEF LengthBack
<1> HIDE DEF b
<1>9. b \in Seq(Byte) /\ b \o rest = head \o (flat \o rest)
  <2> HIDE DEF head
  <2>1. (head \o flat) \o rest = head \o (flat \o rest)
    BY <1>4, <1>8, BytesAssociative, Zenon
  <2>2. head \o flat \in Seq(Byte)
    BY <1>4, <1>8, ConcatProperties
  <2> QED BY <1>3, <2>1, <2>2, Zenon
<1>10. PICK t \in Int : t = Len(b) - Len(head)
  <2>1. PICK x \in Nat, y \in Nat : x = Len(b) /\ y = Len(head)
    BY <1>8, <1>9, LenProperties
  <2>2. x - y \in Int
    OBVIOUS
  <2> QED BY <2>1, <2>2, Zenon
<1>11. PICK size : size = [val |-> n, ia |-> Input(flat \o rest, t, FALSE)]
  OBVIOUS
<1>12. r = ReadItemsOf(T, size)
  BY <1>7, <1>9, <1>10, <1>11, Zenon DEF ReadItems, LengthBack
<1>13. size.val = n /\ size.ia = Input(flat \o rest, t, FALSE)
  BY <1>11
<1> DEFINE loop == ItemsLoop(T, size)
<1>14. /\ r = loop[n]
       /\ loop[0] = [items |-> <<>>, ia |-> Input(flat \o rest, t, FALSE)]
       /\ \A i \in 1 .. n : loop[i] = ReadItem(T, loop[i - 1])
  <2>1. size.val \in Nat
    BY <1>13
  <2>2. ItemsLoops(T, size)
    BY <2>1, ItemsLoopRuns, Zenon
  <2> HIDE DEF r
  <2> QED BY <1>12, <1>13, <2>2, Zenon DEF ItemsLoops
<1> HIDE DEF loop, r
<1> DEFINE S == {i \in 0 .. n : ItemsState(T, items, after, loop[i], i)}
<1>15. 0 \in S
  <2>1. loop[0].items = <<>> /\ loop[0].ia = Input(flat \o rest, t, FALSE)
    BY <1>14
  <2>2. after[0] = flat \o rest
    BY <1>5, Zenon DEF LaidOut
  <2>3. ~SomeReported(T, items, 0)
    BY DEF SomeReported
  <2>4. ItemsState(T, items, after, loop[0], 0)
    BY <2>1, <2>2, <2>3, KeptStarts, Zenon DEF ItemsState
  <2> QED BY <2>4
<1>16. ASSUME NEW i \in 0 .. n - 1, i \in S PROVE i + 1 \in S
  <2>1. i + 1 \in 1 .. n /\ i + 1 \in 0 .. n /\ (i + 1) - 1 = i /\ i \in 0 .. Len(items) - 1
    BY <1>1
  <2>2. after[i] = WriteItem(T, items[i + 1]) \o after[i + 1]
        /\ after[i + 1] \in Seq(Byte)
    <3>1. after \in [0 .. n -> Seq(Byte)]
          /\ \A k \in 1 .. n : after[k - 1] = parts[k] \o after[k]
      BY <1>5, Zenon DEF LaidOut
    <3>2. after[i + 1] \in Seq(Byte)
      BY <2>1, <3>1
    <3> QED BY <1>2, <2>1, <3>1, <3>2, Zenon
  <2>3. loop[i + 1] = ReadItem(T, loop[i])
    BY <1>14, <2>1, Zenon
  <2>4. ItemsState(T, items, after, loop[i], i)
    BY <1>16
  <2>5. ExactPart(T, items[i + 1]) /\ Len(items) \in Nat
    BY <1>1, <2>1, Zenon
  <2>6. ItemsState(T, items, after, ReadItem(T, loop[i]), i + 1)
    BY <2>1, <2>2, <2>4, <2>5, ItemsStep, Zenon
  <2> QED BY <2>1, <2>3, <2>6
<1>17. ItemsState(T, items, after, r, n)
  <2>1. n \in S
    <3> HIDE DEF S
    <3>1. \A i \in 0 .. n : i \in S
      BY <1>15, <1>16, UpToLast, Zenon
    <3> QED BY <3>1
  <2> QED BY <1>14, <2>1
<1>18. IF SomeReported(T, items, n) THEN r.ia.error = TRUE ELSE r.ia.error = FALSE
  <2>1. CASE SomeReported(T, items, n)
    BY <1>17, <2>1, Zenon DEF ItemsState
  <2>2. CASE ~SomeReported(T, items, n)
    <3>1. PICK s \in Int : r.ia = Input(after[n], s, FALSE)
      BY <1>17, <2>2, Zenon DEF ItemsState
    <3>2. r.ia.error = FALSE
      BY <3>1 DEF Input
    <3> QED BY <2>2, <3>2, Zenon
  <2> QED BY <2>1, <2>2, Zenon
<1>19. ASSUME ~SomeBroken(T, items), ~SomeReported(T, items, n) PROVE r.items = items
  <2>1. Kept(r.items, n, items, Sound(T, items))
    BY <1>17, <1>19, Zenon DEF ItemsState
  <2>2. \A k \in 1 .. n : k \in Sound(T, items)
    <3>1. \A k \in 1 .. n : Broken(T, items[k]) \in BOOLEAN /\ ~Broken(T, items[k])
      BY <1>1, <1>19, Zenon DEF SomeBroken, ExactPart, Exact
    <3>2. \A k \in 1 .. n : Broken(T, items[k]) = FALSE
      BY <3>1
    <3> QED BY <1>1, <3>2, Zenon DEF Sound
  <2> QED BY <1>1, <2>1, <2>2, KeptAll, Zenon
<1> QED BY <1>1, <1>9, <1>18, <1>19, Zenon DEF ItemsBack, r, ia, b
-----------------------------------------------------------------------------
\* Tuples and structs (std_tuple.hpp, type_struct.hpp).

\* The elements or fields that can be read.
SoundParts(Ts, v) ==
  {k \in 1 .. Len(v) : Ts[k].kind = "ignore" \/ Broken(Ts[k], v[k]) = FALSE}

\* A tuple after i of its elements.
ElementsState(T, v, after, acc, i) ==
  /\ \E s \in Int : acc.ia = Input(after[i], s, FALSE)
  /\ Kept(acc.val, i, v, SoundParts(T.of, v))

ExactElement(T, v) == IF T.kind = "ignore" THEN v = <<>> ELSE ExactPart(T, v)

LEMMA ElementsStep ==
  ASSUME NEW T, NEW v, NEW after, NEW acc, Len(v) \in Nat, NEW i \in 0 .. Len(v) - 1,
         ExactElement(T.of[i + 1], v[i + 1]), after[i + 1] \in Seq(Byte),
         after[i] = WriteElement(T.of[i + 1], v[i + 1]) \o after[i + 1],
         ElementsState(T, v, after, acc, i)
  PROVE  ElementsState(T, v, after, ElementRound(T, acc, i + 1), i + 1)
<1> DEFINE P == T.of[i + 1]
           next == ElementRound(T, acc, i + 1)
           r == ReadElement(P, acc.ia)
<1>1. i \in Nat /\ i + 1 \in 1 .. Len(v)
  OBVIOUS
<1>2. PICK s \in Int : acc.ia = Input(after[i], s, FALSE)
  BY Zenon DEF ElementsState
<1>3. ElementBack(P, v[i + 1], after[i + 1], r)
  <2>1. acc.ia = Input(WriteElement(P, v[i + 1]) \o after[i + 1], s, FALSE)
    BY <1>2, Zenon
  <2>2. IF P.kind = "ignore" THEN v[i + 1] = <<>> ELSE ExactPart(P, v[i + 1])
    BY Zenon DEF ExactElement
  <2> HIDE DEF P
  <2> QED BY <2>1, <2>2, ElementTaken, Zenon
<1>4. next = [val |-> Append(acc.val, r.val), ia |-> r.ia]
  BY Zenon DEF ElementRound
<1> HIDE DEF r, next
<1>5. next.val = Append(acc.val, r.val) /\ next.ia = r.ia
  BY <1>4
<1>6. PICK t \in Int : r = [val |-> r.val, ia |-> Input(after[i + 1], t, FALSE)]
  BY <1>3, Zenon DEF ElementBack, GoesOn
<1>7. r.ia = Input(after[i + 1], t, FALSE)
  <2>1. PICK x, y : x = r.val /\ y = Input(after[i + 1], t, FALSE)
    OBVIOUS
  <2>2. r = [val |-> x, ia |-> y]
    BY <1>6, <2>1, Zenon
  <2>3. r.ia = y
    BY <2>2
  <2> QED BY <2>1, <2>3, Zenon
<1>8. i + 1 \in SoundParts(T.of, v) => r.val = v[i + 1]
  <2>1. Broken(P, v[i + 1]) = FALSE => ~Broken(P, v[i + 1])
    OBVIOUS
  <2> QED BY <1>3, <2>1, Zenon DEF SoundParts, ElementBack, GoesOn, P
<1>9. Kept(Append(acc.val, r.val), i + 1, v, SoundParts(T.of, v))
  <2>1. Kept(acc.val, i, v, SoundParts(T.of, v))
    BY Zenon DEF ElementsState
  <2> QED BY <1>1, <1>8, <2>1, KeptGrows, Zenon
<1> QED BY <1>5, <1>7, <1>9, Zenon DEF ElementsState, next

\* What is read of a tuple, where rest follows it in memory.
TupleBack(T, v, rest) ==
  LET b == WriteTuple(T, v)
      r == ReadTuple(T, Input(b \o rest, Len(b), FALSE))
  IN /\ b \in Seq(Byte)
     /\ r.ia.error = FALSE
     /\ Kept(r.val, Len(v), v, SoundParts(T.of, v))

LEMMA TupleRead ==
  ASSUME NEW T, NEW v, IsSeq(v), Len(T.of) = Len(v),
         \A k \in 1 .. Len(v) : ExactElement(T.of[k], v[k]), NEW rest \in Seq(Byte)
  PROVE  TupleBack(T, v, rest)
<1>1. PICK n \in Nat : n = Len(v) /\ v = [k \in 1 .. n |-> v[k]]
  BY Zenon DEF IsSeq
<1> DEFINE parts == [k \in DOMAIN v |-> WriteElement(T.of[k], v[k])]
           b == FlattenSeq(parts)
           ia == Input(b \o rest, Len(b), FALSE)
           r == ReadTuple(T, ia)
           loop == ElementsLoop(T, ia)
<1>2. /\ parts \in Seq(Seq(Byte)) /\ Len(parts) = n
      /\ \A k \in 1 .. n : parts[k] = WriteElement(T.of[k], v[k])
  <2>1. DOMAIN v = 1 .. n
    BY <1>1
  <2>2. ASSUME NEW k \in 1 .. n PROVE WriteElement(T.of[k], v[k]) \in Seq(Byte)
    <3>1. ExactElement(T.of[k], v[k])
      BY <1>1
    <3>2. CASE T.of[k].kind = "ignore"
      <4>1. WriteElement(T.of[k], v[k]) = <<>>
        BY <3>2, Zenon DEF WriteElement
      <4> QED BY <4>1
    <3>3. CASE T.of[k].kind # "ignore"
      BY <3>1, <3>3, ItemWritten, Zenon DEF WriteElement, ExactElement
    <3> QED BY <3>2, <3>3
  <2>3. parts \in [1 .. n -> Seq(Byte)]
    BY <2>1, <2>2
  <2>4. \A k \in 1 .. n : parts[k] = WriteElement(T.of[k], v[k])
    BY <2>1
  <2> HIDE DEF parts
  <2> QED BY <2>3, <2>4, SeqDef, LenProperties
<1>3. b = WriteTuple(T, v)
  BY Zenon DEF WriteTuple
<1> HIDE DEF parts
<1>4. b \in Seq(Byte) /\ \E after : LaidOut(parts, n, after, b \o rest, rest)
  BY <1>2, PartsLaidOut, Zenon
<1> HIDE DEF b
<1>5. PICK after : LaidOut(parts, n, after, b \o rest, rest)
  BY <1>4, Zenon
<1>6. Len(b) \in Int
  <2>1. Len(b) \in Nat
    BY <1>4, LenProperties
  <2> QED BY <2>1
<1>7. /\ r = loop[n]
      /\ loop[0] = [val |-> <<>>, ia |-> ia]
      /\ \A i \in 1 .. n : loop[i] = ElementRound(T, loop[i - 1], i)
  <2>1. ElementsLoops(T, ia)
    BY <1>1, ElementsLoopRuns, Zenon
  <2> QED BY <1>1, <2>1, Zenon DEF ElementsLoops
<1> HIDE DEF loop, r
<1> DEFINE S == {i \in 0 .. n : ElementsState(T, v, after, loop[i], i)}
<1>8. 0 \in S
  <2> HIDE DEF ia
  <2>1. loop[0].val = <<>> /\ loop[0].ia = ia
    BY <1>7
  <2>2. after[0] = b \o rest
    BY <1>5, Zenon DEF LaidOut
  <2>3. ElementsState(T, v, after, loop[0], 0)
    BY <1>6, <2>1, <2>2, KeptStarts, Zenon DEF ElementsState, ia
  <2> QED BY <2>3
<1>9. ASSUME NEW i \in 0 .. n - 1, i \in S PROVE i + 1 \in S
  <2>1. i + 1 \in 1 .. n /\ i + 1 \in 0 .. n /\ (i + 1) - 1 = i /\ i \in 0 .. Len(v) - 1
    BY <1>1
  <2>2. after[i] = WriteElement(T.of[i + 1], v[i + 1]) \o after[i + 1]
        /\ after[i + 1] \in Seq(Byte)
    <3>1. after \in [0 .. n -> Seq(Byte)]
          /\ \A k \in 1 .. n : after[k - 1] = parts[k] \o after[k]
      BY <1>5, Zenon DEF LaidOut
    <3>2. after[i + 1] \in Seq(Byte)
      BY <2>1, <3>1
    <3> QED BY <1>2, <2>1, <3>1, <3>2, Zenon
  <2>3. loop[i + 1] = ElementRound(T, loop[i], i + 1)
    BY <1>7, <2>1, Zenon
  <2>4. ElementsState(T, v, after, loop[i], i)
    BY <1>9
  <2>5. ExactElement(T.of[i + 1], v[i + 1]) /\ Len(v) \in Nat
    BY <1>1, <2>1, Zenon
  <2>6. ElementsState(T, v, after, ElementRound(T, loop[i], i + 1), i + 1)
    BY <2>1, <2>2, <2>4, <2>5, ElementsStep, Zenon
  <2> QED BY <2>1, <2>3, <2>6
<1>10. ElementsState(T, v, after, r, n)
  <2>1. n \in S
    <3> HIDE DEF S
    <3>1. \A i \in 0 .. n : i \in S
      BY <1>8, <1>9, UpToLast, Zenon
    <3> QED BY <3>1
  <2> QED BY <1>7, <2>1
<1>11. r.ia.error = FALSE
  <2>1. PICK s \in Int : r.ia = Input(after[n], s, FALSE)
    BY <1>10, Zenon DEF ElementsState
  <2> QED BY <2>1 DEF Input
<1>12. Kept(r.val, n, v, SoundParts(T.of, v))
  BY <1>10, Zenon DEF ElementsState
<1> QED BY <1>1, <1>3, <1>4, <1>11, <1>12, Zenon DEF TupleBack, r, ia

\* A struct after i of its fields: after an error the others keep their blank.
ReportedField(T, v, i) == \E k \in 1 .. i : Reported(T.of[k], v[k])

FieldsState(T, v, after, acc, i) ==
  /\ acc = [val |-> acc.val, ia |-> acc.ia]
  /\ IF ReportedField(T, v, i) THEN acc.ia.error = TRUE
     ELSE /\ \E s \in Int : acc.ia = Input(after[i], s, FALSE)
          /\ Kept(acc.val, i, v, SoundParts(T.of, v))

LEMMA FieldsStep ==
  ASSUME NEW T, NEW v, NEW after, NEW acc, Len(v) \in Nat, NEW i \in 0 .. Len(v) - 1,
         T.of[i + 1].kind # "ignore",
         ExactPart(T.of[i + 1], v[i + 1]), after[i + 1] \in Seq(Byte),
         after[i] = WriteItem(T.of[i + 1], v[i + 1]) \o after[i + 1],
         FieldsState(T, v, after, acc, i)
  PROVE  FieldsState(T, v, after, FieldRound(T, acc, i + 1), i + 1)
<1> DEFINE P == T.of[i + 1]
           w == v[i + 1]
           next == FieldRound(T, acc, i + 1)
           r == ReadField(P, acc.ia)
<1>1. i + 1 \in 1 .. i + 1 /\ 1 .. i \subseteq 1 .. i + 1 /\ i \in Nat
      /\ i + 1 \in 1 .. Len(v)
  OBVIOUS
<1>2. CASE ReportedField(T, v, i)
  <2>1. acc.ia.error = TRUE /\ acc = [val |-> acc.val, ia |-> acc.ia]
    BY <1>2, Zenon DEF FieldsState
  <2>2. PICK x : x = Append(acc.val, T.blank[i + 1])
    OBVIOUS
  <2>3. next = [acc EXCEPT !.val = x]
    BY <2>1, <2>2, Zenon DEF FieldRound
  <2> HIDE DEF next
  <2>4. PICK a, c : a = acc.val /\ c = acc.ia
    OBVIOUS
  <2>5. acc = [val |-> a, ia |-> c]
    BY <2>1, <2>4, Zenon
  <2>6. next = [val |-> x, ia |-> c]
    BY <2>3, <2>5
  <2>7. next.ia = acc.ia /\ next = [val |-> next.val, ia |-> next.ia]
    BY <2>4, <2>6
  <2>8. ReportedField(T, v, i + 1)
    BY <1>1, <1>2, Zenon DEF ReportedField
  <2> QED BY <2>1, <2>7, <2>8, Zenon DEF FieldsState, next
<1>3. CASE ~ReportedField(T, v, i)
  <2>1. PICK s \in Int : acc.ia = Input(after[i], s, FALSE)
    BY <1>3, Zenon DEF FieldsState
  <2>2. Kept(acc.val, i, v, SoundParts(T.of, v))
    BY <1>3, Zenon DEF FieldsState
  <2>3. GoesOn(P, w, after[i + 1], Reported(P, w), r)
    <3>1. acc.ia = Input(WriteItem(P, w) \o after[i + 1], s, FALSE)
      BY <2>1, Zenon
    <3> HIDE DEF P, w
    <3>2. ExactPart(P, w)
      BY Zenon DEF P, w
    <3> QED BY <3>1, <3>2, FieldTaken, Zenon
  <2>4. acc.ia.error = FALSE
    BY <2>1 DEF Input
  <2>5. next = [val |-> Append(acc.val, r.val), ia |-> r.ia]
    BY <2>4, Zenon DEF FieldRound
  <2>6. PICK t \in Int : r = [val |-> r.val, ia |-> Input(after[i + 1], t, Reported(P, w))]
    BY <2>3, Zenon DEF GoesOn
  <2> HIDE DEF r, next
  <2>7. r.ia = Input(after[i + 1], t, Reported(P, w))
    BY <2>6
  <2>8. /\ next.val = Append(acc.val, r.val) /\ next.ia = r.ia
        /\ next = [val |-> next.val, ia |-> next.ia]
    BY <2>5
  <2>9. Reported(P, w) \in BOOLEAN
    BY Zenon DEF ExactPart, Exact
  <2>10. CASE Reported(P, w) = TRUE
    <3>1. ReportedField(T, v, i + 1)
      <4>1. Reported(P, w)
        BY <2>10
      <4> QED BY <1>1, <4>1, Zenon DEF ReportedField, P, w
    <3>2. next.ia = Input(after[i + 1], t, TRUE)
      BY <2>7, <2>8, <2>10
    <3>3. next.ia.error = TRUE
      BY <3>2 DEF Input
    <3> QED BY <2>8, <3>1, <3>3, Zenon DEF FieldsState, next
  <2>11. CASE Reported(P, w) = FALSE
    <3>1. ~ReportedField(T, v, i + 1)
      <4>1. \A k \in 1 .. i + 1 : k = i + 1 \/ k \in 1 .. i
        OBVIOUS
      <4>2. ~Reported(P, w)
        BY <2>11
      <4> QED BY <1>3, <4>1, <4>2, Zenon DEF ReportedField, P, w
    <3>2. next.ia = Input(after[i + 1], t, FALSE)
      BY <2>7, <2>8, <2>11
    <3>3. i + 1 \in SoundParts(T.of, v) => r.val = v[i + 1]
      <4>1. Broken(P, w) = FALSE => ~Broken(P, w)
        OBVIOUS
      <4> QED BY <2>3, <4>1, Zenon DEF SoundParts, GoesOn, P, w
    <3>4. Kept(Append(acc.val, r.val), i + 1, v, SoundParts(T.of, v))
      BY <1>1, <2>2, <3>3, KeptGrows, Zenon
    <3> QED BY <2>8, <3>1, <3>2, <3>4, Zenon DEF FieldsState, next
  <2> QED BY <2>9, <2>10, <2>11
<1> QED BY <1>2, <1>3

\* What is read of a struct, where rest follows it in memory.
StructBack(T, v, rest) ==
  LET b == WriteStruct(T, v)
      r == ReadStruct(T, Input(b \o rest, Len(b), FALSE))
  IN /\ b \in Seq(Byte)
     /\ IF ReportedField(T, v, Len(v)) THEN r.ia.error = TRUE
        ELSE r.ia.error = FALSE /\ Kept(r.val, Len(v), v, SoundParts(T.of, v))

ExactField(T, v) == T.kind # "ignore" /\ ExactPart(T, v)

LEMMA StructRead ==
  ASSUME NEW T, NEW v, IsSeq(v), Len(T.of) = Len(v),
         \A k \in 1 .. Len(v) : ExactField(T.of[k], v[k]), NEW rest \in Seq(Byte)
  PROVE  StructBack(T, v, rest)
<1>1. PICK n \in Nat : n = Len(v) /\ v = [k \in 1 .. n |-> v[k]]
  BY Zenon DEF IsSeq
<1> DEFINE parts == [k \in DOMAIN v |-> WriteItem(T.of[k], v[k])]
           b == FlattenSeq(parts)
           ia == Input(b \o rest, Len(b), FALSE)
           r == ReadStruct(T, ia)
           loop == FieldsLoop(T, ia)
<1>2. /\ parts \in Seq(Seq(Byte)) /\ Len(parts) = n
      /\ \A k \in 1 .. n : parts[k] = WriteItem(T.of[k], v[k])
  <2>1. DOMAIN v = 1 .. n
    BY <1>1
  <2>2. ASSUME NEW k \in 1 .. n PROVE WriteItem(T.of[k], v[k]) \in Seq(Byte)
    <3>1. ExactPart(T.of[k], v[k])
      BY <1>1, Zenon DEF ExactField
    <3> QED BY <3>1, ItemWritten
  <2>3. parts \in [1 .. n -> Seq(Byte)]
    BY <2>1, <2>2
  <2>4. \A k \in 1 .. n : parts[k] = WriteItem(T.of[k], v[k])
    BY <2>1
  <2> HIDE DEF parts
  <2> QED BY <2>3, <2>4, SeqDef, LenProperties
<1>3. b = WriteStruct(T, v)
  BY Zenon DEF WriteStruct
<1> HIDE DEF parts
<1>4. b \in Seq(Byte) /\ \E after : LaidOut(parts, n, after, b \o rest, rest)
  BY <1>2, PartsLaidOut, Zenon
<1> HIDE DEF b
<1>5. PICK after : LaidOut(parts, n, after, b \o rest, rest)
  BY <1>4, Zenon
<1>6. Len(b) \in Int
  <2>1. Len(b) \in Nat
    BY <1>4, LenProperties
  <2> QED BY <2>1
<1>7. /\ r = loop[n]
      /\ loop[0] = [val |-> <<>>, ia |-> ia]
      /\ \A i \in 1 .. n : loop[i] = FieldRound(T, loop[i - 1], i)
  <2>1. FieldsLoops(T, ia)
    BY <1>1, FieldsLoopRuns, Zenon
  <2> QED BY <1>1, <2>1, Zenon DEF FieldsLoops
<1> HIDE DEF loop, r
<1> DEFINE S == {i \in 0 .. n : FieldsState(T, v, after, loop[i], i)}
<1>8. 0 \in S
  <2> HIDE DEF ia
  <2>1. /\ loop[0].val = <<>> /\ loop[0].ia = ia
        /\ loop[0] = [val |-> loop[0].val, ia |-> loop[0].ia]
    BY <1>7
  <2>2. after[0] = b \o rest
    BY <1>5, Zenon DEF LaidOut
  <2>3. ~ReportedField(T, v, 0)
    BY DEF ReportedField
  <2>4. FieldsState(T, v, after, loop[0], 0)
    BY <1>6, <2>1, <2>2, <2>3, KeptStarts, Zenon DEF FieldsState, ia
  <2> QED BY <2>4
<1>9. ASSUME NEW i \in 0 .. n - 1, i \in S PROVE i + 1 \in S
  <2>1. i + 1 \in 1 .. n /\ i + 1 \in 0 .. n /\ (i + 1) - 1 = i /\ i \in 0 .. Len(v) - 1
    BY <1>1
  <2>2. after[i] = WriteItem(T.of[i + 1], v[i + 1]) \o after[i + 1]
        /\ after[i + 1] \in Seq(Byte)
    <3>1. after \in [0 .. n -> Seq(Byte)]
          /\ \A k \in 1 .. n : after[k - 1] = parts[k] \o after[k]
      BY <1>5, Zenon DEF LaidOut
    <3>2. after[i + 1] \in Seq(Byte)
      BY <2>1, <3>1
    <3> QED BY <1>2, <2>1, <3>1, <3>2, Zenon
  <2>3. loop[i + 1] = FieldRound(T, loop[i], i + 1)
    BY <1>7, <2>1, Zenon
  <2>4. FieldsState(T, v, after, loop[i], i)
    BY <1>9
  <2>5. /\ T.of[i + 1].kind # "ignore" /\ ExactPart(T.of[i + 1], v[i + 1])
        /\ Len(v) \in Nat
    BY <1>1, <2>1, Zenon DEF ExactField
  <2>6. FieldsState(T, v, after, FieldRound(T, loop[i], i + 1), i + 1)
    BY <2>1, <2>2, <2>4, <2>5, FieldsStep, Zenon
  <2> QED BY <2>1, <2>3, <2>6
<1>10. FieldsState(T, v, after, r, n)
  <2>1. n \in S
    <3> HIDE DEF S
    <3>1. \A i \in 0 .. n : i \in S
      BY <1>8, <1>9, UpToLast, Zenon
    <3> QED BY <3>1
  <2> QED BY <1>7, <2>1
<1>11. IF ReportedField(T, v, n) THEN r.ia.error = TRUE
       ELSE r.ia.error = FALSE /\ Kept(r.val, n, v, SoundParts(T.of, v))
  <2>1. CASE ReportedField(T, v, n)
    BY <1>10, <2>1, Zenon DEF FieldsState
  <2>2. CASE ~ReportedField(T, v, n)
    <3>1. PICK s \in Int : r.ia = Input(after[n], s, FALSE)
      BY <1>10, <2>2, Zenon DEF FieldsState
    <3>2. r.ia.error = FALSE
      BY <3>1 DEF Input
    <3> QED BY <1>10, <2>2, <3>2, Zenon DEF FieldsState
  <2> QED BY <2>1, <2>2, Zenon
<1> QED BY <1>1, <1>3, <1>4, <1>11, Zenon DEF StructBack, r, ia
-----------------------------------------------------------------------------
\* What each kind of container makes of its items.

LEMMA SequenceIs ==
  ASSUME NEW items, IsSeq(items)
  PROVE  \E n \in Nat : /\ n = Len(items) /\ DOMAIN items = 1 .. n
                        /\ items = [k \in 1 .. n |-> items[k]]
<1>1. PICK n \in Nat : n = Len(items) /\ items = [k \in 1 .. n |-> items[k]]
  BY Zenon DEF IsSeq
<1>2. DOMAIN items = 1 .. n
  BY <1>1
<1> QED BY <1>1, <1>2

\* The items of an array, when none is missing.
LEMMA ArrayFilled ==
  ASSUME NEW T, NEW items, IsSeq(items), Len(items) = T.n
  PROVE  ArrayOf(T, items) = items
<1>1. PICK n \in Nat : /\ n = Len(items) /\ DOMAIN items = 1 .. n
                       /\ items = [k \in 1 .. n |-> items[k]]
  BY SequenceIs, Zenon
<1>2. ArrayOf(T, items) =
        [k \in 1 .. n |-> IF k \in 1 .. n THEN items[k] ELSE T.blank]
  BY <1>1, Zenon DEF ArrayOf
<1>3. [k \in 1 .. n |-> IF k \in 1 .. n THEN items[k] ELSE T.blank] =
        [k \in 1 .. n |-> items[k]]
  BY Zenon
<1> QED BY <1>1, <1>2, <1>3, Zenon

\* The items of a forward_list: put in front one by one, then reversed.
LEMMA ForwardListFilled ==
  ASSUME NEW items, IsSeq(items)
  PROVE  ForwardListOf(items) = items
<1>1. PICK n \in Nat : /\ n = Len(items) /\ DOMAIN items = 1 .. n
                       /\ items = [k \in 1 .. n |-> items[k]]
  BY SequenceIs, Zenon
<1> DEFINE loop == FrontLoop(items)
           A == {items[k] : k \in 1 .. n}
           Turned(i) == [k \in 1 .. i |-> items[(i - k) + 1]]
           S == {i \in 0 .. n : loop[i] = Turned(i)}
<1>2. /\ ForwardListOf(items) = Reverse(loop[n]) /\ loop[0] = <<>>
      /\ \A i \in 1 .. n : loop[i] = FrontRound(items, loop[i - 1], i)
  <2>1. FrontLoops(items)
    BY <1>1, FrontLoopRuns, Zenon
  <2> QED BY <1>1, <2>1, Zenon DEF FrontLoops
<1> HIDE DEF loop
<1>3. 0 \in S
  <2>1. Turned(0) = <<>>
    OBVIOUS
  <2> QED BY <1>2, <2>1
<1>4. ASSUME NEW i \in 0 .. n - 1, i \in S PROVE i + 1 \in S
  <2> DEFINE x == items[i + 1]
             t == Turned(i)
             u == <<x>> \o t
  <2>1. i \in Nat /\ i + 1 \in 1 .. n /\ i + 1 \in 0 .. n /\ (i + 1) - 1 = i
    OBVIOUS
  <2>2. loop[i + 1] = u
    <3>1. loop[i] = t
      BY <1>4
    <3> HIDE DEF t
    <3> QED BY <1>2, <2>1, <3>1, Zenon DEF FrontRound
  <2>3. /\ t \in Seq(A) /\ Len(t) = i
        /\ \A k \in 1 .. i : t[k] = items[(i - k) + 1]
    <3>1. \A k \in 1 .. i : (i - k) + 1 \in 1 .. n
      BY <2>1
    <3>2. t \in [1 .. i -> A]
      BY <3>1
    <3>3. \A k \in 1 .. i : t[k] = items[(i - k) + 1]
      OBVIOUS
    <3> HIDE DEF t, A
    <3> QED BY <2>1, <3>2, <3>3, SeqDef, LenProperties
  <2> HIDE DEF t
  <2>4. <<x>> \in Seq(A) /\ Len(<<x>>) = 1 /\ <<x>>[1] = x
    <3>1. x \in A
      BY <2>1
    <3> HIDE DEF A, x
    <3> QED BY <3>1
  <2>5. PICK h : h = <<x>>
    OBVIOUS
  <2> HIDE DEF A
  <2>6. /\ h \o t \in Seq(A) /\ Len(h \o t) = 1 + i
        /\ \A k \in 1 .. 1 + i : (h \o t)[k] = IF k <= 1 THEN h[k] ELSE t[k - 1]
    BY <2>3, <2>4, <2>5, ConcatProperties
  <2>7. PICK w : w = h \o t
    OBVIOUS
  <2>8. ASSUME NEW k \in 1 .. i + 1 PROVE w[k] = items[((i + 1) - k) + 1]
    <3>1. CASE k = 1
      <4>1. w[k] = h[1] /\ ((i + 1) - k) + 1 = i + 1
        BY <2>1, <2>6, <2>7, <3>1
      <4> QED BY <2>4, <2>5, <4>1, Zenon
    <3>2. CASE k # 1
      <4>1. w[k] = t[k - 1] /\ k - 1 \in 1 .. i /\ (i - (k - 1)) + 1 = ((i + 1) - k) + 1
        BY <2>1, <2>6, <2>7, <3>2
      <4> QED BY <2>3, <4>1, Zenon
    <3> QED BY <3>1, <3>2
  <2>9. w = [k \in 1 .. i + 1 |-> w[k]]
    <3>1. w \in Seq(A) /\ Len(w) = i + 1
      BY <2>1, <2>6, <2>7
    <3>2. w \in [1 .. i + 1 -> A]
      BY <3>1, LenProperties
    <3> QED BY <3>2
  <2>10. w = Turned(i + 1)
    BY <2>8, <2>9
  <2>11. loop[i + 1] = Turned(i + 1)
    BY <2>2, <2>5, <2>7, <2>10, Zenon
  <2> QED BY <2>1, <2>11
<1>5. loop[n] = Turned(n)
  <2>1. n \in S
    <3> HIDE DEF S
    <3>1. \A i \in 0 .. n : i \in S
      BY <1>3, <1>4, UpToLast, Zenon
    <3> QED BY <3>1
  <2> QED BY <2>1
<1>6. Reverse(Turned(n)) = items
  <2> DEFINE t == Turned(n)
  <2>1. Len(t) = n /\ \A k \in 1 .. n : t[k] = items[(n - k) + 1]
    OBVIOUS
  <2> HIDE DEF t
  <2>2. Reverse(t) = [k \in 1 .. n |-> t[(n - k) + 1]]
    BY <2>1, Zenon DEF Reverse
  <2>3. \A k \in 1 .. n : (n - k) + 1 \in 1 .. n /\ (n - ((n - k) + 1)) + 1 = k
    OBVIOUS
  <2>4. \A k \in 1 .. n : t[(n - k) + 1] = items[k]
    BY <2>1, <2>3, Zenon
  <2>5. Reverse(t) = [k \in 1 .. n |-> items[k]]
    BY <2>2, <2>4, Zenon
  <2> QED BY <1>1, <2>5, Zenon DEF t
<1> QED BY <1>2, <1>5, <1>6, Zenon

\* A set is what its items in any order make of it.
LEMMA SetOrdered ==
  ASSUME NEW v, IsFiniteSet(v)
  PROVE  ToSet(SetToSeq(v)) = v
<1> DEFINE n == Cardinality(v)
           f == SetToSeq(v)
<1>1. n \in Nat /\ ExistsBijection(1 .. n, v)
  BY FS_CardinalityType, Zenon
<1>2. \E g : g \in [1 .. n -> v] /\ IsInjective(g)
  <2>1. PICK g : g \in Bijection(1 .. n, v)
    BY <1>1, Zenon DEF ExistsBijection
  <2> QED BY <2>1, Zenon DEF Bijection, Injection
<1>3. f \in [1 .. n -> v] /\ IsInjective(f)
  BY <1>2, Zenon DEF SetToSeq
<1> HIDE DEF f
<1>4. f \in Injection(1 .. n, v)
  BY <1>3, Zenon DEF Injection
<1>5. Cardinality(1 .. n) = n
  BY <1>1, FS_Interval
<1>6. f \in Surjection(1 .. n, v)
  BY <1>4, <1>5, FS_Injection, Zenon
<1>7. \A x \in v : \E k \in 1 .. n : f[k] = x
  BY <1>6, Zenon DEF Surjection
<1> QED BY <1>3, <1>7 DEF ToSet, f
-----------------------------------------------------------------------------
\* From the parts of a value to the value.

\* The overloads that a type finds are those that are chosen by its kind.
Resolved(T) ==
  /\ \A v : /\ Write(T, v) = WriteBy(T, v)
            /\ IsValue(T, v) = IsValueBy(T, v)
            /\ Broken(T, v) = BrokenBy(T, v)
            /\ Reported(T, v) = ReportedBy(T, v)
  /\ \A ia : Read(T, ia) = ReadBy(T, ia)

\* A type whose values are read back, alone or as parts of others.
AsWritten(T, v) ==
  Fundamental(T) =>
    IsLeafValue(T, v) /\ Write(T, v) = WriteLeaf(T, v) /\ Broken(T, v) = FALSE
Ready(T) == \A v : IsValue(T, v) => Exact(T, v) /\ AsWritten(T, v)

LEMMA PartIsExact ==
  ASSUME NEW T, NEW v, Ready(T), IsItem(T, v)
  PROVE  ExactPart(T, v)
<1>1. Exact(T, v) /\ AsWritten(T, v)
  BY Zenon DEF Ready, IsItem
<1>2. ASSUME ~Fundamental(T) PROVE IsLength(Len(Write(T, v)))
  <2>1. Len(Write(T, v)) \in Nat
    BY <1>1, LenProperties DEF Exact
  <2> QED BY <1>2, <2>1, Zenon DEF IsItem, IsLength
<1> QED BY <1>1, <1>2, Zenon DEF ExactPart, AsWritten

LEMMA LeafIsReady ==
  ASSUME NEW T, Leaf(T), Resolved(T)
  PROVE  Ready(T)
<1> SUFFICES ASSUME NEW v, IsValue(T, v) PROVE Exact(T, v) /\ AsWritten(T, v)
  BY Zenon DEF Ready
<1>1. /\ Write(T, v) = WriteLeaf(T, v) /\ IsValue(T, v) = IsLeafValue(T, v)
      /\ Broken(T, v) = BrokenLeaf(T, v) /\ Reported(T, v) = BrokenLeaf(T, v)
      /\ \A ia : Read(T, ia) = ReadLeaf(T, ia)
  <2>1. /\ WriteBy(T, v) = WriteLeaf(T, v) /\ IsValueBy(T, v) = IsLeafValue(T, v)
        /\ BrokenBy(T, v) = BrokenLeaf(T, v) /\ ReportedBy(T, v) = BrokenLeaf(T, v)
        /\ \A ia : ReadBy(T, ia) = ReadLeaf(T, ia)
    BY DEF WriteBy, IsValueBy, BrokenBy, ReportedBy, ReadBy, Leaf
  <2> QED BY <2>1, Zenon DEF Resolved
<1>2. IsLeafValue(T, v)
  BY <1>1
<1>3. BrokenLeaf(T, v) \in BOOLEAN
  BY DEF BrokenLeaf
<1>4. PICK broken \in BOOLEAN :
        broken = BrokenLeaf(T, v) /\ broken = Broken(T, v) /\ broken = Reported(T, v)
  BY <1>1, <1>3
<1>5. \A rest \in Seq(Byte) : LeafExact(T, v, rest)
  BY <1>2, LeavesExact, Zenon
<1>6. Write(T, v) \in Seq(Byte)
  <2>1. <<>> \in Seq(Byte)
    OBVIOUS
  <2> QED BY <1>1, <1>5, <2>1, Zenon DEF LeafExact
<1>7. ASSUME NEW rest \in Seq(Byte)
      PROVE  Answers(T, v, Read(T, Input(Write(T, v) \o rest, Len(Write(T, v)), FALSE)))
  <2> DEFINE r == Read(T, Input(Write(T, v) \o rest, Len(Write(T, v)), FALSE))
  <2>1. r = ReadLeaf(T, Input(WriteLeaf(T, v) \o rest, Len(WriteLeaf(T, v)), FALSE))
    BY <1>1, Zenon
  <2>2. r.ia.error = BrokenLeaf(T, v) /\ (~BrokenLeaf(T, v) => r.val = v)
    BY <1>5, <2>1, Zenon DEF LeafExact
  <2> HIDE DEF r
  <2>3. r.ia.error = Reported(T, v) /\ (Broken(T, v) \/ r.val = v)
    <3>1. r.ia.error = Reported(T, v)
      BY <1>4, <2>2, Zenon
    <3>2. CASE broken = TRUE
      BY <1>4, <3>1, <3>2
    <3>3. CASE broken = FALSE
      BY <1>4, <2>2, <3>1, <3>3
    <3> QED BY <3>2, <3>3
  <2> QED BY <2>3, Zenon DEF Answers, r
<1>8. Exact(T, v)
  <2>1. /\ Broken(T, v) \in BOOLEAN /\ Reported(T, v) \in BOOLEAN
        /\ Reported(T, v) => Broken(T, v)
    BY <1>4
  <2> QED BY <1>6, <1>7, <2>1, Zenon DEF Exact
<1>9. ASSUME Fundamental(T) PROVE Broken(T, v) = FALSE
  <2>1. T.kind # "json"
    BY <1>9 DEF Fundamental
  <2>2. BrokenLeaf(T, v) = FALSE
    BY <2>1 DEF BrokenLeaf
  <2> QED BY <1>1, <2>2
<1> QED BY <1>1, <1>2, <1>8, <1>9, Zenon DEF AsWritten

\* What a value of any kind of container says of its items, and what is read for it.
MadeOfItems(T, v, items) ==
  /\ IsItems(T.of, items)
  /\ Write(T, v) = WriteItems(T.of, items)
  /\ \A ia : /\ Read(T, ia).ia = ReadItems(T.of, ia).ia
             /\ ReadItems(T.of, ia).items = items => Read(T, ia).val = v
  /\ Broken(T, v) \in BOOLEAN /\ Reported(T, v) \in BOOLEAN
  /\ Broken(T, v) <=> SomeBroken(T.of, items)
  /\ Reported(T, v) <=> SomeReported(T.of, items, Len(items))

LEMMA ContainerExact ==
  ASSUME NEW T, NEW v, NEW items, Ready(T.of), MadeOfItems(T, v, items)
  PROVE  Exact(T, v)
<1> DEFINE P == T.of
           b == Write(T, v)
<1>1. PICK n \in Nat : /\ n = Len(items) /\ DOMAIN items = 1 .. n
                       /\ items = [k \in 1 .. n |-> items[k]]
  BY SequenceIs, Zenon DEF MadeOfItems, IsItems
<1>2. IsSeq(items) /\ IsLength(Len(items))
  BY <1>1, Zenon DEF MadeOfItems, IsItems, IsLength
<1>3. \A k \in 1 .. Len(items) : ExactPart(P, items[k])
  <2>1. \A k \in 1 .. Len(items) : IsItem(P, items[k])
    BY <1>1, Zenon DEF MadeOfItems, IsItems
  <2> QED BY <2>1, PartIsExact, Zenon
<1>4. \A rest \in Seq(Byte) : ItemsBack(P, items, rest)
  BY <1>2, <1>3, ItemsRead, Zenon
<1>5. b = WriteItems(P, items)
  BY Zenon DEF MadeOfItems
<1>6. b \in Seq(Byte)
  <2>1. <<>> \in Seq(Byte)
    OBVIOUS
  <2> QED BY <1>4, <1>5, <2>1, Zenon DEF ItemsBack
<1>7. Reported(T, v) => Broken(T, v)
  <2>1. \A k \in 1 .. Len(items) : Reported(P, items[k]) => Broken(P, items[k])
    BY <1>3, Zenon DEF ExactPart, Exact
  <2> QED BY <2>1, Zenon DEF MadeOfItems, SomeReported, SomeBroken
<1>8. ASSUME NEW rest \in Seq(Byte)
      PROVE  Answers(T, v, Read(T, Input(b \o rest, Len(b), FALSE)))
  <2> DEFINE ia == Input(b \o rest, Len(b), FALSE)
             r == Read(T, ia)
             x == ReadItems(P, ia)
  <2>1. /\ IF SomeReported(P, items, Len(items)) THEN x.ia.error = TRUE
           ELSE x.ia.error = FALSE
        /\ SomeBroken(P, items) \/ SomeReported(P, items, Len(items)) \/ x.items = items
    BY <1>4, <1>5, Zenon DEF ItemsBack
  <2>2. r.ia = x.ia /\ (x.items = items => r.val = v)
    BY Zenon DEF MadeOfItems
  <2> HIDE DEF ia, r, x, P, b
  <2>3. r.ia.error = Reported(T, v)
    <3>1. CASE Reported(T, v)
      <4>1. r.ia.error = TRUE
        BY <2>1, <2>2, <3>1, Zenon DEF MadeOfItems, P
      <4> QED BY <3>1, <4>1 DEF MadeOfItems
    <3>2. CASE ~Reported(T, v)
      <4>1. r.ia.error = FALSE
        BY <2>1, <2>2, <3>2, Zenon DEF MadeOfItems, P
      <4>2. Reported(T, v) = FALSE
        BY <3>2 DEF MadeOfItems
      <4> QED BY <4>1, <4>2
    <3> QED BY <3>1, <3>2
  <2>4. Broken(T, v) \/ r.val = v
    BY <1>7, <2>1, <2>2, Zenon DEF MadeOfItems, P
  <2> QED BY <2>3, <2>4, Zenon DEF Answers, r, ia
<1> QED BY <1>6, <1>7, <1>8, Zenon DEF Exact, MadeOfItems

LEMMA SequenceExact ==
  ASSUME NEW T, NEW v, Resolved(T), T.kind \in {"list", "array", "forward_list"},
         Ready(T.of), IsValue(T, v)
  PROVE  Exact(T, v)
<1> DEFINE someBroken == \E i \in DOMAIN v : Broken(T.of, v[i])
           someReported == \E i \in DOMAIN v : Reported(T.of, v[i])
<1>1. /\ WriteBy(T, v) = WriteItems(T.of, v)
      /\ \A ia : ReadBy(T, ia) = ReadContainer(T, ia)
      /\ IsValueBy(T, v) => IsItems(T.of, v) /\ (T.kind = "array" => Len(v) = T.n)
  BY DEF WriteBy, IsValueBy, ReadBy, Leaf
<1>2. BrokenBy(T, v) = someBroken /\ ReportedBy(T, v) = someReported
  <2>1. someBroken \in BOOLEAN /\ someReported \in BOOLEAN
    OBVIOUS
  <2> HIDE DEF someBroken, someReported
  <2> QED BY <2>1 DEF BrokenBy, ReportedBy, Leaf, someBroken, someReported
<1>3. IsItems(T.of, v) /\ (T.kind = "array" => Len(v) = T.n)
  BY <1>1, Zenon DEF Resolved
<1>4. PICK n \in Nat : /\ n = Len(v) /\ DOMAIN v = 1 .. n
                       /\ v = [k \in 1 .. n |-> v[k]]
  BY <1>3, SequenceIs, Zenon DEF IsItems
<1>5. /\ Broken(T, v) \in BOOLEAN /\ Reported(T, v) \in BOOLEAN
      /\ Broken(T, v) <=> SomeBroken(T.of, v)
      /\ Reported(T, v) <=> SomeReported(T.of, v, Len(v))
  <2>1. Broken(T, v) = someBroken /\ Reported(T, v) = someReported
    BY <1>2, Zenon DEF Resolved
  <2>2. (someBroken <=> SomeBroken(T.of, v))
        /\ (someReported <=> SomeReported(T.of, v, Len(v)))
    BY <1>4, Zenon DEF SomeBroken, SomeReported
  <2> HIDE DEF someBroken, someReported
  <2>3. someBroken \in BOOLEAN /\ someReported \in BOOLEAN
    BY DEF someBroken, someReported
  <2> QED BY <2>1, <2>2, <2>3
<1>6. ASSUME NEW ia
      PROVE  /\ Read(T, ia).ia = ReadItems(T.of, ia).ia
             /\ ReadItems(T.of, ia).items = v => Read(T, ia).val = v
  <2> DEFINE x == ReadItems(T.of, ia)
             r == Read(T, ia)
             val == CASE T.kind = "list" -> x.items
                      [] T.kind = "array" -> ArrayOf(T, x.items)
                      [] T.kind = "forward_list" -> ForwardListOf(x.items)
                      [] T.kind = "set" -> ToSet(x.items)
  <2>1. r = [ia |-> x.ia, val |-> val]
    BY <1>1, Zenon DEF Resolved, ReadContainer
  <2>2. ASSUME x.items = v PROVE val = v
    <3> HIDE DEF x
    <3>1. IsSeq(v)
      BY <1>3, Zenon DEF IsItems
    <3>2. CASE T.kind = "list"
      BY <2>2, <3>2
    <3>3. CASE T.kind = "array"
      <4>1. val = ArrayOf(T, x.items)
        BY <3>3
      <4>2. ArrayOf(T, v) = v
        BY <1>3, <3>1, <3>3, ArrayFilled, Zenon
      <4> QED BY <2>2, <4>1, <4>2, Zenon
    <3>4. CASE T.kind = "forward_list"
      <4>1. val = ForwardListOf(x.items)
        BY <3>4
      <4>2. ForwardListOf(v) = v
        BY <3>1, ForwardListFilled, Zenon
      <4> QED BY <2>2, <4>1, <4>2, Zenon
    <3> QED BY <3>2, <3>3, <3>4
  <2> HIDE DEF x, r, val
  <2>3. r.ia = x.ia /\ r.val = val
    BY <2>1
  <2> QED BY <2>2, <2>3, Zenon DEF r, x
<1>7. Write(T, v) = WriteItems(T.of, v)
  BY <1>1, Zenon DEF Resolved
<1>8. MadeOfItems(T, v, v)
  BY <1>3, <1>5, <1>6, <1>7, Zenon DEF MadeOfItems
<1> QED BY <1>8, ContainerExact, Zenon

LEMMA SetExact ==
  ASSUME NEW T, NEW v, Resolved(T), T.kind = "set", Ready(T.of), IsValue(T, v)
  PROVE  Exact(T, v)
<1> DEFINE someBroken == \E item \in v : Broken(T.of, item)
           someReported == \E item \in v : Reported(T.of, item)
           items == SetToSeq(v)
<1>1. /\ WriteBy(T, v) = WriteSetLike(T, v)
      /\ \A ia : ReadBy(T, ia) = ReadContainer(T, ia)
  BY DEF WriteBy, ReadBy, Leaf
<1>2. IsFiniteSet(v) /\ IsItems(T.of, items)
  <2>1. IsValueBy(T, v) => IsFiniteSet(v) /\ IsItems(T.of, items)
    <3> HIDE DEF items
    <3> QED BY DEF IsValueBy, Leaf, items
  <2> QED BY <2>1, Zenon DEF Resolved
<1>3. BrokenBy(T, v) = someBroken /\ ReportedBy(T, v) = someReported
  <2>1. someBroken \in BOOLEAN /\ someReported \in BOOLEAN
    OBVIOUS
  <2> HIDE DEF someBroken, someReported
  <2> QED BY <2>1 DEF BrokenBy, ReportedBy, Leaf, someBroken, someReported
<1>4. PICK n \in Nat : /\ n = Len(items) /\ DOMAIN items = 1 .. n
                       /\ items = [k \in 1 .. n |-> items[k]]
  BY <1>2, SequenceIs, Zenon DEF IsItems
<1>5. ToSet(items) = v
  BY <1>2, SetOrdered, Zenon
<1> HIDE DEF items
<1>6. \A x : x \in v <=> \E k \in 1 .. n : x = items[k]
  BY <1>4, <1>5 DEF ToSet
<1>7. /\ Broken(T, v) \in BOOLEAN /\ Reported(T, v) \in BOOLEAN
      /\ Broken(T, v) <=> SomeBroken(T.of, items)
      /\ Reported(T, v) <=> SomeReported(T.of, items, Len(items))
  <2>1. Broken(T, v) = someBroken /\ Reported(T, v) = someReported
    BY <1>3, Zenon DEF Resolved
  <2>2. (someBroken <=> SomeBroken(T.of, items))
        /\ (someReported <=> SomeReported(T.of, items, Len(items)))
    BY <1>4, <1>6, Zenon DEF SomeBroken, SomeReported
  <2> HIDE DEF someBroken, someReported
  <2>3. someBroken \in BOOLEAN /\ someReported \in BOOLEAN
    BY DEF someBroken, someReported
  <2> QED BY <2>1, <2>2, <2>3
<1>8. ASSUME NEW ia
      PROVE  /\ Read(T, ia).ia = ReadItems(T.of, ia).ia
             /\ ReadItems(T.of, ia).items = items => Read(T, ia).val = v
  <2> DEFINE x == ReadItems(T.of, ia)
             r == Read(T, ia)
             val == CASE T.kind = "list" -> x.items
                      [] T.kind = "array" -> ArrayOf(T, x.items)
                      [] T.kind = "forward_list" -> ForwardListOf(x.items)
                      [] T.kind = "set" -> ToSet(x.items)
  <2>1. r = [ia |-> x.ia, val |-> val]
    BY <1>1, Zenon DEF Resolved, ReadContainer
  <2>2. val = ToSet(x.items)
    <3> HIDE DEF x
    <3> QED OBVIOUS
  <2> HIDE DEF x, r, val
  <2>3. r.ia = x.ia /\ r.val = val
    BY <2>1
  <2> QED BY <1>5, <2>2, <2>3, Zenon DEF r, x
<1>9. Write(T, v) = WriteItems(T.of, items)
  BY <1>1, Zenon DEF Resolved, WriteSetLike, items
<1>10. MadeOfItems(T, v, items)
  BY <1>2, <1>7, <1>8, <1>9, Zenon DEF MadeOfItems
<1> QED BY <1>10, ContainerExact, Zenon
-----------------------------------------------------------------------------
\* The elements of a tuple, and the fields of a struct, can be parts of it.
PartsExact(Ts, v) ==
  \E n \in Nat :
    /\ n = Len(v) /\ n = Len(Ts) /\ DOMAIN v = 1 .. n
    /\ v = [k \in 1 .. n |-> v[k]]
    /\ \A k \in 1 .. n : Ts[k].kind # "ignore" => ExactPart(Ts[k], v[k])

LEMMA PartsAreExact ==
  ASSUME NEW Ts, NEW v, IsValues(Ts, v),
         \A i \in DOMAIN Ts : Ts[i].kind # "ignore" => Ready(Ts[i])
  PROVE  PartsExact(Ts, v)
<1>1. PICK n \in Nat : /\ n = Len(v) /\ DOMAIN v = 1 .. n
                       /\ v = [k \in 1 .. n |-> v[k]]
  BY SequenceIs, Zenon DEF IsValues
<1>2. n = Len(Ts) /\ DOMAIN Ts = 1 .. n
  <2>1. PICK m \in Nat : m = Len(Ts) /\ DOMAIN Ts = 1 .. m
    BY SequenceIs, Zenon DEF IsValues
  <2> QED BY <1>1, <2>1, Zenon DEF IsValues
<1>3. ASSUME NEW k \in 1 .. n, Ts[k].kind # "ignore" PROVE ExactPart(Ts[k], v[k])
  BY <1>2, <1>3, PartIsExact, Zenon DEF IsValues
<1> QED BY <1>1, <1>2, <1>3, Zenon DEF PartsExact

\* Nothing of a value is broken if none of its parts is.
SomePartBroken(T, v) ==
  \E i \in DOMAIN v : T.of[i].kind # "ignore" /\ Broken(T.of[i], v[i])

LEMMA AllSound ==
  ASSUME NEW T, NEW v, PartsExact(T.of, v), ~SomePartBroken(T, v),
         NEW k \in 1 .. Len(v)
  PROVE  k \in SoundParts(T.of, v)
<1>1. T.of[k].kind # "ignore" => ExactPart(T.of[k], v[k])
  BY Zenon DEF PartsExact
<1>2. T.of[k].kind # "ignore" => ~Broken(T.of[k], v[k])
  BY Zenon DEF PartsExact, SomePartBroken
<1>3. T.of[k].kind # "ignore" => Broken(T.of[k], v[k]) = FALSE
  <2> SUFFICES ASSUME T.of[k].kind # "ignore" PROVE Broken(T.of[k], v[k]) = FALSE
    OBVIOUS
  <2>1. Broken(T.of[k], v[k]) \in BOOLEAN
    BY <1>1, Zenon DEF ExactPart, Exact
  <2> QED BY <1>2, <2>1
<1> QED BY <1>3, Zenon DEF SoundParts

\* A tuple is read back except for the elements that cannot be.
TupleKept(T, v) ==
  \A rest \in Seq(Byte) :
    LET b == Write(T, v)
        r == Read(T, Input(b \o rest, Len(b), FALSE))
    IN /\ b \in Seq(Byte)
       /\ r.ia.error = FALSE
       /\ Kept(r.val, Len(v), v, SoundParts(T.of, v))

TupleReady(T) ==
  Resolved(T) /\ T.kind = "tuple"
    /\ \A i \in DOMAIN T.of : T.of[i].kind # "ignore" => Ready(T.of[i])

LEMMA TupleValue ==
  ASSUME NEW T, NEW v, TupleReady(T), IsValue(T, v)
  PROVE  /\ IsValues(T.of, v) /\ PartsExact(T.of, v)
         /\ \A i \in DOMAIN v : T.of[i].kind = "ignore" => v[i] = <<>>
<1>1. IsValueBy(T, v) =>
        /\ IsValues(T.of, v)
        /\ \A i \in DOMAIN v : T.of[i].kind = "ignore" => v[i] = <<>>
  BY DEF IsValueBy, Leaf, TupleReady
<1>2. /\ IsValues(T.of, v)
      /\ \A i \in DOMAIN v : T.of[i].kind = "ignore" => v[i] = <<>>
  BY <1>1, Zenon DEF Resolved, TupleReady
<1> QED BY <1>2, PartsAreExact, Zenon DEF TupleReady

LEMMA TupleIsKept ==
  ASSUME NEW T, NEW v, TupleReady(T), IsValue(T, v)
  PROVE  TupleKept(T, v)
<1>1. /\ WriteBy(T, v) = WriteTuple(T, v)
      /\ \A ia : ReadBy(T, ia) = ReadTuple(T, ia)
  BY DEF WriteBy, ReadBy, Leaf, TupleReady
<1>2. /\ Write(T, v) = WriteTuple(T, v)
      /\ \A ia : Read(T, ia) = ReadTuple(T, ia)
  BY <1>1, Zenon DEF Resolved, TupleReady
<1>3. PICK n \in Nat :
        /\ n = Len(v) /\ n = Len(T.of) /\ DOMAIN v = 1 .. n
        /\ \A k \in 1 .. n : T.of[k].kind # "ignore" => ExactPart(T.of[k], v[k])
  BY TupleValue, Zenon DEF PartsExact
<1>4. \A k \in 1 .. Len(v) : ExactElement(T.of[k], v[k])
  BY <1>3, TupleValue, Zenon DEF ExactElement
<1>5. IsSeq(v) /\ Len(T.of) = Len(v)
  BY <1>3, TupleValue, Zenon DEF IsValues
<1>6. \A rest \in Seq(Byte) : TupleBack(T, v, rest)
  BY <1>4, <1>5, TupleRead, Zenon
<1> QED BY <1>2, <1>6, Zenon DEF TupleKept, TupleBack

LEMMA TupleExact ==
  ASSUME NEW T, NEW v, TupleReady(T), IsValue(T, v)
  PROVE  Exact(T, v)
<1>1. TupleKept(T, v)
  BY TupleIsKept, Zenon
<1>2. Broken(T, v) = SomePartBroken(T, v) /\ Reported(T, v) = FALSE
  <2>1. SomePartBroken(T, v) \in BOOLEAN
    BY DEF SomePartBroken
  <2>2. BrokenBy(T, v) = SomePartBroken(T, v) /\ ReportedBy(T, v) = FALSE
    BY <2>1 DEF BrokenBy, ReportedBy, Leaf, SomePartBroken, TupleReady
  <2> QED BY <2>2, Zenon DEF Resolved, TupleReady
<1>3. Broken(T, v) \in BOOLEAN /\ Reported(T, v) \in BOOLEAN /\ ~Reported(T, v)
  <2>1. SomePartBroken(T, v) \in BOOLEAN
    BY DEF SomePartBroken
  <2> QED BY <1>2, <2>1
<1>4. Write(T, v) \in Seq(Byte)
  <2>1. <<>> \in Seq(Byte)
    OBVIOUS
  <2> QED BY <1>1, <2>1, Zenon DEF TupleKept
<1>5. ASSUME NEW rest \in Seq(Byte)
      PROVE  Answers(T, v, Read(T, Input(Write(T, v) \o rest, Len(Write(T, v)), FALSE)))
  <2> DEFINE r == Read(T, Input(Write(T, v) \o rest, Len(Write(T, v)), FALSE))
  <2>1. r.ia.error = FALSE /\ Kept(r.val, Len(v), v, SoundParts(T.of, v))
    BY <1>1, Zenon DEF TupleKept
  <2> HIDE DEF r
  <2>2. ASSUME ~Broken(T, v) PROVE r.val = v
    <3>1. \A k \in 1 .. Len(v) : k \in SoundParts(T.of, v)
      <4>1. PartsExact(T.of, v)
        BY TupleValue, Zenon
      <4> QED BY <1>2, <2>2, <4>1, AllSound, Zenon
    <3>2. v = [k \in 1 .. Len(v) |-> v[k]]
      BY TupleValue, Zenon DEF PartsExact
    <3> QED BY <2>1, <3>1, <3>2, KeptAll, Zenon
  <2> QED BY <1>2, <2>1, <2>2, Zenon DEF Answers, r
<1> QED BY <1>3, <1>4, <1>5, Zenon DEF Exact

LEMMA StructExact ==
  ASSUME NEW T, NEW v, Resolved(T), T.kind = "struct",
         \A i \in DOMAIN T.of : T.of[i].kind # "ignore" => Ready(T.of[i]),
         IsValue(T, v)
  PROVE  Exact(T, v)
<1> DEFINE someReported == \E i \in DOMAIN v : Reported(T.of[i], v[i])
<1>1. /\ WriteBy(T, v) = WriteStruct(T, v)
      /\ \A ia : ReadBy(T, ia) = ReadStruct(T, ia)
      /\ IsValueBy(T, v) =>
           IsValues(T.of, v) /\ \A i \in DOMAIN v : T.of[i].kind # "ignore"
  BY DEF WriteBy, ReadBy, IsValueBy, Leaf
<1>2. /\ Write(T, v) = WriteStruct(T, v)
      /\ \A ia : Read(T, ia) = ReadStruct(T, ia)
      /\ IsValues(T.of, v) /\ \A i \in DOMAIN v : T.of[i].kind # "ignore"
  BY <1>1, Zenon DEF Resolved
<1>3. PartsExact(T.of, v)
  BY <1>2, PartsAreExact, Zenon
<1>4. PICK n \in Nat :
        /\ n = Len(v) /\ n = Len(T.of) /\ DOMAIN v = 1 .. n
        /\ v = [k \in 1 .. n |-> v[k]]
        /\ \A k \in 1 .. n : T.of[k].kind # "ignore" => ExactPart(T.of[k], v[k])
  BY <1>3, Zenon DEF PartsExact
<1>5. \A k \in 1 .. Len(v) : ExactField(T.of[k], v[k])
  BY <1>2, <1>4, Zenon DEF ExactField
<1>6. IsSeq(v) /\ Len(T.of) = Len(v)
  BY <1>2, <1>4, Zenon DEF IsValues
<1>7. \A rest \in Seq(Byte) : StructBack(T, v, rest)
  BY <1>5, <1>6, StructRead, Zenon
<1>8. Broken(T, v) = SomePartBroken(T, v) /\ Reported(T, v) = ReportedField(T, v, n)
  <2>1. SomePartBroken(T, v) \in BOOLEAN /\ ReportedField(T, v, n) \in BOOLEAN
        /\ someReported \in BOOLEAN
    BY DEF SomePartBroken, ReportedField
  <2>2. someReported <=> ReportedField(T, v, n)
    BY <1>4, Zenon DEF ReportedField
  <2>3. BrokenBy(T, v) = SomePartBroken(T, v)
    BY <2>1 DEF BrokenBy, Leaf, SomePartBroken
  <2>4. ReportedBy(T, v) = someReported
    <3> HIDE DEF someReported
    <3> QED BY <2>1 DEF ReportedBy, Leaf, someReported
  <2> HIDE DEF someReported
  <2>5. someReported = ReportedField(T, v, n)
    BY <2>1, <2>2
  <2> QED BY <2>3, <2>4, <2>5, Zenon DEF Resolved
<1>9. /\ Broken(T, v) \in BOOLEAN /\ Reported(T, v) \in BOOLEAN
      /\ Reported(T, v) => Broken(T, v)
  <2>1. SomePartBroken(T, v) \in BOOLEAN /\ ReportedField(T, v, n) \in BOOLEAN
    BY DEF SomePartBroken, ReportedField
  <2>2. ReportedField(T, v, n) => SomePartBroken(T, v)
    BY <1>4, <1>5, Zenon DEF ReportedField, SomePartBroken, ExactField, ExactPart, Exact
  <2> QED BY <1>8, <2>1, <2>2
<1>10. Write(T, v) \in Seq(Byte)
  <2>1. <<>> \in Seq(Byte)
    OBVIOUS
  <2> QED BY <1>2, <1>7, <2>1, Zenon DEF StructBack
<1>11. ASSUME NEW rest \in Seq(Byte)
       PROVE  Answers(T, v, Read(T, Input(Write(T, v) \o rest, Len(Write(T, v)), FALSE)))
  <2> DEFINE r == Read(T, Input(Write(T, v) \o rest, Len(Write(T, v)), FALSE))
  <2>1. IF ReportedField(T, v, n) THEN r.ia.error = TRUE
        ELSE r.ia.error = FALSE /\ Kept(r.val, n, v, SoundParts(T.of, v))
    BY <1>2, <1>4, <1>7, Zenon DEF StructBack
  <2> HIDE DEF r
  <2>2. ASSUME ~Broken(T, v) PROVE r.val = v
    <3>1. \A k \in 1 .. n : k \in SoundParts(T.of, v)
      BY <1>3, <1>4, <1>8, <2>2, AllSound, Zenon
    <3>2. ~ReportedField(T, v, n)
      BY <1>8, <1>9, <2>2, Zenon
    <3> QED BY <1>4, <2>1, <3>1, <3>2, KeptAll, Zenon
  <2>3. r.ia.error = Reported(T, v)
    <3>1. CASE Reported(T, v) = TRUE
      <4>1. ReportedField(T, v, n)
        BY <1>8, <3>1
      <4> QED BY <2>1, <3>1, <4>1, Zenon
    <3>2. CASE Reported(T, v) = FALSE
      <4>1. ~ReportedField(T, v, n)
        BY <1>8, <3>2
      <4> QED BY <2>1, <3>2, <4>1, Zenon
    <3> QED BY <1>9, <3>1, <3>2
  <2> QED BY <2>2, <2>3, Zenon DEF Answers, r
<1> QED BY <1>9, <1>10, <1>11, Zenon DEF Exact
-----------------------------------------------------------------------------
\* What is read of a pointer: one byte says whether a value follows.
LEMMA NullRead ==
  ASSUME NEW T, NEW rest \in Seq(Byte)
  PROVE  ReadSharedPtr(T, Input(<<0>> \o rest, Len(<<0>>), FALSE)) =
           [val |-> <<>>, ia |-> Input(rest, 0, FALSE)]
<1> DEFINE ia == Input(<<0>> \o rest, Len(<<0>>), FALSE)
           flag == Take(1, ia)
<1>1. <<0>> \in Seq(Byte) /\ Len(<<0>>) = 1
  BY DEF Byte
<1>2. flag = [val |-> <<0>>, ia |-> Input(rest, Len(<<0>>) - Len(<<0>>), FALSE)]
  <2>1. Take(Len(<<0>>), ia) =
          [val |-> <<0>>, ia |-> Input(rest, Len(<<0>>) - Len(<<0>>), FALSE)]
    <3>1. FrontRead(<<0>>, rest, Len(<<0>>), FALSE)
      BY <1>1, BytesTaken, Zenon
    <3> QED BY <3>1, Zenon DEF FrontRead
  <2> QED BY <1>1, <2>1, Zenon
<1> HIDE DEF ia, flag
<1>3. flag.val = <<0>> /\ flag.ia = Input(rest, 0, FALSE)
  BY <1>1, <1>2
<1>4. ReadSharedPtr(T, ia) = [val |-> <<>>, ia |-> flag.ia]
  BY <1>3, Zenon DEF ReadSharedPtr, flag
<1> QED BY <1>3, <1>4, Zenon DEF ia

PointedBack(T, w, rest) ==
  LET b == <<1>> \o w
      r == Read(T.of, Input(w \o rest, Len(w), FALSE))
  IN /\ b \in Seq(Byte)
     /\ ReadSharedPtr(T, Input(b \o rest, Len(b), FALSE)) =
          [val |-> <<r.val>>, ia |-> r.ia]

LEMMA PointedRead ==
  ASSUME NEW T, NEW w \in Seq(Byte), NEW rest \in Seq(Byte)
  PROVE  PointedBack(T, w, rest)
<1> DEFINE b == <<1>> \o w
           ia == Input(b \o rest, Len(b), FALSE)
           flag == Take(1, ia)
           after == Input(w \o rest, Len(w), FALSE)
           r == Read(T.of, after)
<1>1. <<1>> \in Seq(Byte) /\ Len(<<1>>) = 1 /\ <<1>> # <<0>>
  BY DEF Byte
<1>2. b \in Seq(Byte) /\ Len(b) - 1 = Len(w) /\ w \o rest \in Seq(Byte)
  <2>1. b \in Seq(Byte) /\ Len(b) = Len(<<1>>) + Len(w) /\ w \o rest \in Seq(Byte)
    BY <1>1, ConcatProperties
  <2>2. Len(w) \in Nat
    BY LenProperties
  <2> HIDE DEF b
  <2> QED BY <1>1, <2>1, <2>2
<1>3. b \o rest = <<1>> \o (w \o rest)
  BY <1>1, BytesAssociative, Zenon
<1> HIDE DEF b
<1>4. flag = [val |-> <<1>>, ia |-> after]
  <2>1. Take(Len(<<1>>), Input(<<1>> \o (w \o rest), Len(b), FALSE)) =
          [val |-> <<1>>, ia |-> Input(w \o rest, Len(b) - Len(<<1>>), FALSE)]
    <3>1. FrontRead(<<1>>, w \o rest, Len(b), FALSE)
      BY <1>1, <1>2, BytesTaken, Zenon
    <3> QED BY <3>1, Zenon DEF FrontRead
  <2> QED BY <1>1, <1>2, <1>3, <2>1, Zenon
<1> HIDE DEF ia, flag, after
<1>5. flag.val = <<1>> /\ flag.ia = after
  BY <1>4
<1>6. ReadSharedPtr(T, ia) = [val |-> <<r.val>>, ia |-> r.ia]
  <2>1. flag.val # <<0>>
    BY <1>1, <1>5, Zenon
  <2> QED BY <1>5, <2>1, Zenon DEF ReadSharedPtr, flag
<1> QED BY <1>2, <1>6, Zenon DEF PointedBack, b, ia, r, after

LEMMA PointerExact ==
  ASSUME NEW T, NEW v, Resolved(T), T.kind = "ptr", Ready(T.of), IsValue(T, v)
  PROVE  Exact(T, v)
<1> DEFINE someBroken == \E i \in DOMAIN v : Broken(T.of, v[i])
           someReported == \E i \in DOMAIN v : Reported(T.of, v[i])
           w == Write(T.of, v[1])
<1>1. /\ WriteBy(T, v) = WriteSharedPtr(T, v)
      /\ \A ia : ReadBy(T, ia) = ReadSharedPtr(T, ia)
      /\ IsValueBy(T, v) => v = <<>> \/ (v = <<v[1]>> /\ IsValue(T.of, v[1]))
  BY DEF WriteBy, ReadBy, IsValueBy, Leaf
<1>2. /\ Write(T, v) = WriteSharedPtr(T, v)
      /\ \A ia : Read(T, ia) = ReadSharedPtr(T, ia)
      /\ v = <<>> \/ (v = <<v[1]>> /\ IsValue(T.of, v[1]))
  BY <1>1, Zenon DEF Resolved
<1>3. someBroken \in BOOLEAN /\ someReported \in BOOLEAN
  OBVIOUS
<1>4. Broken(T, v) = someBroken /\ Reported(T, v) = someReported
  <2> HIDE DEF someBroken, someReported
  <2>1. BrokenBy(T, v) = someBroken /\ ReportedBy(T, v) = someReported
    BY <1>3 DEF BrokenBy, ReportedBy, Leaf, someBroken, someReported
  <2> QED BY <2>1, Zenon DEF Resolved
<1>5. CASE v = <<>>
  <2>1. Broken(T, v) = FALSE /\ Reported(T, v) = FALSE
    <3>1. ~someBroken /\ ~someReported
      BY <1>5
    <3> HIDE DEF someBroken, someReported
    <3> QED BY <1>3, <1>4, <3>1
  <2>2. Write(T, v) = <<0>>
    BY <1>2, <1>5, Zenon DEF WriteSharedPtr
  <2>3. ASSUME NEW rest \in Seq(Byte)
        PROVE  Answers(T, v, Read(T, Input(Write(T, v) \o rest, Len(Write(T, v)), FALSE)))
    <3> DEFINE r == Read(T, Input(Write(T, v) \o rest, Len(Write(T, v)), FALSE))
    <3>1. r = [val |-> <<>>, ia |-> Input(rest, 0, FALSE)]
      BY <1>2, <2>2, NullRead, Zenon
    <3> HIDE DEF r
    <3>2. r.val = v /\ r.ia.error = FALSE
      BY <1>5, <3>1 DEF Input
    <3> QED BY <2>1, <3>2, Zenon DEF Answers, r
  <2>4. Write(T, v) \in Seq(Byte)
    BY <2>2 DEF Byte
  <2>5. /\ Broken(T, v) \in BOOLEAN /\ Reported(T, v) \in BOOLEAN
        /\ Reported(T, v) => Broken(T, v)
    BY <2>1
  <2> QED BY <2>3, <2>4, <2>5, Zenon DEF Exact
<1>6. CASE v # <<>>
  <2>1. v = <<v[1]>> /\ IsValue(T.of, v[1])
    BY <1>2, <1>6, Zenon
  <2>2. Exact(T.of, v[1])
    BY <2>1, Zenon DEF Ready
  <2>3. DOMAIN v = {1}
    <3>1. \A x : DOMAIN <<x>> = {1}
      OBVIOUS
    <3> QED BY <2>1, <3>1, Zenon
  <2>4. (someBroken <=> Broken(T.of, v[1])) /\ (someReported <=> Reported(T.of, v[1]))
    BY <2>3, Zenon
  <2>5. /\ Broken(T, v) = Broken(T.of, v[1]) /\ Reported(T, v) = Reported(T.of, v[1])
        /\ Broken(T, v) \in BOOLEAN /\ Reported(T, v) \in BOOLEAN
        /\ Reported(T, v) => Broken(T, v)
    <3>1. /\ Broken(T.of, v[1]) \in BOOLEAN /\ Reported(T.of, v[1]) \in BOOLEAN
          /\ Reported(T.of, v[1]) => Broken(T.of, v[1])
      BY <2>2, Zenon DEF Exact
    <3> HIDE DEF someBroken, someReported
    <3> QED BY <1>3, <1>4, <2>4, <3>1
  <2>6. Write(T, v) = <<1>> \o w /\ w \in Seq(Byte)
    <3>1. Write(T, v) = <<1>> \o w
      BY <1>2, <1>6, Zenon DEF WriteSharedPtr
    <3> QED BY <2>2, <3>1, Zenon DEF Exact
  <2>7. \A rest \in Seq(Byte) : PointedBack(T, w, rest)
    BY <2>6, PointedRead, Zenon
  <2>8. Write(T, v) \in Seq(Byte)
    <3>1. <<>> \in Seq(Byte)
      OBVIOUS
    <3> QED BY <2>6, <2>7, <3>1, Zenon DEF PointedBack
  <2>9. ASSUME NEW rest \in Seq(Byte)
        PROVE  Answers(T, v, Read(T, Input(Write(T, v) \o rest, Len(Write(T, v)), FALSE)))
    <3> DEFINE r == Read(T, Input(Write(T, v) \o rest, Len(Write(T, v)), FALSE))
               x == Read(T.of, Input(w \o rest, Len(w), FALSE))
    <3>1. Answers(T.of, v[1], x)
      BY <2>2, Zenon DEF Exact
    <3>2. r = [val |-> <<x.val>>, ia |-> x.ia]
      BY <1>2, <2>6, <2>7, Zenon DEF PointedBack
    <3> HIDE DEF r, x, w
    <3>3. PICK val, ia : val = x.val /\ ia = x.ia
      OBVIOUS
    <3>4. r = [val |-> <<val>>, ia |-> ia]
      BY <3>2, <3>3, Zenon
    <3>5. r.val = <<val>> /\ r.ia = ia
      BY <3>4
    <3>6. r.ia.error = Reported(T, v)
      BY <2>5, <3>1, <3>3, <3>5, Zenon DEF Answers
    <3>7. Broken(T, v) \/ r.val = v
      BY <2>1, <2>5, <3>1, <3>3, <3>5, Zenon DEF Answers
    <3> QED BY <3>6, <3>7, Zenon DEF Answers, r
  <2> QED BY <2>5, <2>8, <2>9, Zenon DEF Exact
<1> QED BY <1>5, <1>6
-----------------------------------------------------------------------------
\* Every type finds, for itself and for its parts, the overloads of its kind: what an
\* instance of Archive says with Write <- WriteBy, Read <- ReadBy and so on.
OverloadsResolved ==
  \A T : \A levels \in Nat :
    /\ IsType(T, levels) = IsTypeBy(T, levels)
    /\ IsType(T, levels) => Resolved(T)

TypesReady(levels) == \A T : IsType(T, levels) => Ready(T)

LEMMA ExactIsReady ==
  ASSUME NEW T, ~Leaf(T), \A v : IsValue(T, v) => Exact(T, v)
  PROVE  Ready(T)
<1>1. ~Fundamental(T)
  BY DEF Fundamental, Leaf
<1> QED BY <1>1, Zenon DEF Ready, AsWritten

LEMMA MadeOfReady ==
  ASSUME OverloadsResolved, NEW levels \in Nat, levels > 0 => TypesReady(levels - 1),
         NEW T, IsType(T, levels)
  PROVE  Ready(T)
<1>1. Resolved(T) /\ IsTypeBy(T, levels)
  BY Zenon DEF OverloadsResolved
<1>2. CASE Leaf(T)
  BY <1>1, <1>2, LeafIsReady, Zenon
<1>3. CASE T.kind \in {"list", "array", "forward_list", "set", "ptr"}
  <2>1. levels > 0 /\ IsType(T.of, levels - 1)
    BY <1>1, <1>3 DEF IsTypeBy, Leaf
  <2>2. Ready(T.of) /\ ~Leaf(T)
    <3>1. Ready(T.of)
      BY <2>1, Zenon DEF TypesReady
    <3> QED BY <1>3, <3>1 DEF Leaf
  <2>3. CASE T.kind \in {"list", "array", "forward_list"}
    <3>1. \A v : IsValue(T, v) => Exact(T, v)
      BY <1>1, <2>2, <2>3, SequenceExact, Zenon
    <3> QED BY <2>2, <3>1, ExactIsReady, Zenon
  <2>4. CASE T.kind = "set"
    <3>1. \A v : IsValue(T, v) => Exact(T, v)
      BY <1>1, <2>2, <2>4, SetExact, Zenon
    <3> QED BY <2>2, <3>1, ExactIsReady, Zenon
  <2>5. CASE T.kind = "ptr"
    <3>1. \A v : IsValue(T, v) => Exact(T, v)
      BY <1>1, <2>2, <2>5, PointerExact, Zenon
    <3> QED BY <2>2, <3>1, ExactIsReady, Zenon
  <2> QED BY <1>3, <2>3, <2>4, <2>5
<1>4. CASE T.kind \in {"tuple", "struct"}
  <2>1. /\ levels > 0 /\ ~Leaf(T)
        /\ \A i \in DOMAIN T.of : T.of[i].kind # "ignore" => IsType(T.of[i], levels - 1)
    <3>1. levels > 0
          /\ \A i \in DOMAIN T.of : T.of[i].kind # "ignore" => IsType(T.of[i], levels - 1)
      BY <1>1, <1>4 DEF IsTypeBy, Leaf
    <3>2. ~Leaf(T)
      BY <1>4 DEF Leaf
    <3> QED BY <3>1, <3>2, Zenon
  <2>2. \A i \in DOMAIN T.of : T.of[i].kind # "ignore" => Ready(T.of[i])
    BY <2>1, Zenon DEF TypesReady
  <2>3. CASE T.kind = "tuple"
    <3>1. \A v : IsValue(T, v) => Exact(T, v)
      BY <1>1, <2>2, <2>3, TupleExact, Zenon DEF TupleReady
    <3> QED BY <2>1, <3>1, ExactIsReady, Zenon
  <2>4. CASE T.kind = "struct"
    <3>1. \A v : IsValue(T, v) => Exact(T, v)
      BY <1>1, <2>2, <2>4, StructExact, Zenon
    <3> QED BY <2>1, <3>1, ExactIsReady, Zenon
  <2> QED BY <1>4, <2>3, <2>4
<1>5. Leaf(T) \/ T.kind \in {"list", "array", "forward_list", "set", "ptr"}
      \/ T.kind \in {"tuple", "struct"}
  BY <1>1 DEF IsTypeBy
<1> QED BY <1>2, <1>3, <1>4, <1>5

LEMMA TypeIsReady ==
  ASSUME OverloadsResolved, NEW levels \in Nat, NEW T, IsType(T, levels)
  PROVE  Ready(T)
<1> DEFINE S == {n \in Nat : TypesReady(n)}
<1>1. 0 \in S
  <2>1. ~(0 > 0)
    OBVIOUS
  <2>2. TypesReady(0)
    BY <2>1, MadeOfReady, Zenon DEF TypesReady
  <2> QED BY <2>2
<1>2. ASSUME NEW n \in Nat, n \in S PROVE n + 1 \in S
  <2>1. n + 1 \in Nat /\ (n + 1) - 1 = n
    OBVIOUS
  <2>2. TypesReady((n + 1) - 1)
    BY <1>2, <2>1, Zenon
  <2>3. TypesReady(n + 1)
    BY <2>1, <2>2, MadeOfReady, Zenon DEF TypesReady
  <2> QED BY <2>1, <2>3
<1>3. levels \in S
  <2> HIDE DEF S
  <2> QED BY <1>1, <1>2, EveryNumber, Zenon
<1> QED BY <1>3, Zenon DEF TypesReady

\* What operator>> writes of a value of any type, operator<< reads, whatever follows in
\* memory: the value if no part of it is broken, and an error exactly if one is reported.
\* The leaves are read back first, then the types made of them, level by level.
THEOREM ValuesExact ==
  ASSUME OverloadsResolved, NEW levels \in Nat, NEW T, IsType(T, levels),
         NEW v, IsValue(T, v)
  PROVE  Exact(T, v)
BY TypeIsReady, Zenon DEF Ready
-----------------------------------------------------------------------------
\* A sample is a value of its type, and deserialize() has a byte behind what it reads.
SampleGood ==
  /\ IsType(Type, Levels) /\ IsValue(Type, Value)
  /\ Exact(Type, Value)

LEMMA SampleRead ==
  ASSUME SampleGood
  PROVE  /\ \E r : /\ r = Read(Type, Input(Write(Type, Value) \o <<255>>,
                                           Len(Write(Type, Value)), FALSE))
                   /\ Answers(Type, Value, r)
                   /\ Received = [ok |-> ~r.ia.error, value |-> r.val]
         /\ Broken(Type, Value) \in BOOLEAN /\ Reported(Type, Value) \in BOOLEAN
         /\ Reported(Type, Value) => Broken(Type, Value)
<1> DEFINE r == Read(Type, Input(Write(Type, Value) \o <<255>>,
                                 Len(Write(Type, Value)), FALSE))
<1>1. <<255>> \in Seq(Byte)
  BY DEF Byte
<1>2. Answers(Type, Value, r)
  BY <1>1, Zenon DEF SampleGood, Exact
<1>3. Received = [ok |-> ~r.ia.error, value |-> r.val]
  BY Zenon DEF Received, DeserializeAs, Input
<1>4. /\ Broken(Type, Value) \in BOOLEAN /\ Reported(Type, Value) \in BOOLEAN
      /\ Reported(Type, Value) => Broken(Type, Value)
  BY Zenon DEF SampleGood, Exact
<1> QED BY <1>2, <1>3, <1>4, Zenon

LEMMA SampleIsGood ==
  ASSUME OverloadsResolved, ArchiveInit
  PROVE  SampleGood
<1>0. Levels \in Nat
  BY ArchiveAssumption, Zenon
<1>1. IsType(Type, Levels) /\ IsValue(Type, Value)
  <2>1. CASE sample = [type |-> Void, value |-> <<>>]
    <3>1. Type = Void /\ Value = <<>> /\ Void.kind = "void"
      BY <2>1 DEF Type, Value, Void
    <3>2. IsTypeBy(Void, Levels) = TRUE /\ IsValueBy(Void, <<>>) = IsLeafValue(Void, <<>>)
      BY <3>1 DEF IsTypeBy, IsValueBy, Leaf
    <3>3. IsLeafValue(Void, <<>>)
      BY <3>1 DEF IsLeafValue
    <3>4. IsType(Void, Levels) = TRUE
      BY <1>0, <3>2, Zenon DEF OverloadsResolved
    <3>5. IsValue(Void, <<>>)
      BY <1>0, <3>2, <3>3, <3>4, Zenon DEF OverloadsResolved, Resolved
    <3> QED BY <3>1, <3>4, <3>5, Zenon
  <2>2. CASE \E i \in DOMAIN Samples : sample = Samples[i]
    BY <2>2, ArchiveAssumption, Zenon DEF Type, Value
  <2> QED BY <2>1, <2>2, Zenon DEF ArchiveInit
<1> QED BY <1>0, <1>1, ValuesExact, Zenon DEF SampleGood

LEMMA SampleStays ==
  ASSUME SampleGood, UNCHANGED archiveVars
  PROVE  SampleGood'
<1>1. Type' = Type /\ Value' = Value
  BY DEF archiveVars, Type, Value
<1> QED BY <1>1, Zenon DEF SampleGood, Exact

LEMMA TupleMadeOfReady ==
  ASSUME OverloadsResolved, NEW T, IsType(T, Levels), T.kind = "tuple"
  PROVE  TupleReady(T)
<1>1. Levels \in Nat
  BY ArchiveAssumption, Zenon
<1>2. Resolved(T) /\ IsTypeBy(T, Levels)
  BY <1>1, Zenon DEF OverloadsResolved
<1>3. Levels > 0
      /\ \A i \in DOMAIN T.of : T.of[i].kind # "ignore" => IsType(T.of[i], Levels - 1)
  BY <1>2 DEF IsTypeBy, Leaf
<1>4. Levels - 1 \in Nat
  BY <1>1, <1>3
<1>5. \A i \in DOMAIN T.of : T.of[i].kind # "ignore" => Ready(T.of[i])
  BY <1>3, <1>4, TypeIsReady, Zenon
<1> QED BY <1>2, <1>5, Zenon DEF TupleReady

\* However types are nested in one another, a value with no part that cannot be read is
\* what the peer reads, and deserialize returns true.
THEOREM ArchiveRoundTrip ==
  ASSUME OverloadsResolved
  PROVE  ArchiveSpec => []RoundTrip
<1>1. SampleGood => RoundTrip
  <2> SUFFICES ASSUME SampleGood, ~Broken(Type, Value)
               PROVE  Received = [ok |-> TRUE, value |-> Value]
    BY Zenon DEF RoundTrip
  <2>1. PICK r : /\ Answers(Type, Value, r)
                 /\ Received = [ok |-> ~r.ia.error, value |-> r.val]
    BY SampleRead, Zenon
  <2>2. Reported(Type, Value) = FALSE
    BY SampleRead
  <2>3. r.val = Value /\ r.ia.error = FALSE
    BY <2>1, <2>2, Zenon DEF Answers
  <2>4. (~r.ia.error) = TRUE
    BY <2>3
  <2> QED BY <2>1, <2>3, <2>4, Zenon
<1>2. ArchiveInit => SampleGood
  BY SampleIsGood, Zenon
<1>3. SampleGood /\ [UNCHANGED archiveVars]_archiveVars => SampleGood'
  BY SampleStays, Zenon
<1> QED BY <1>1, <1>2, <1>3, PTL DEF ArchiveSpec

\* deserialize returns false exactly if there is a part that cannot be read with no
\* tuple, pair or map around it.
THEOREM ArchiveErrorsReported ==
  ASSUME OverloadsResolved
  PROVE  ArchiveSpec => []ErrorsReported
<1>1. SampleGood => ErrorsReported
  <2> SUFFICES ASSUME SampleGood PROVE Received.ok = ~Reported(Type, Value)
    BY Zenon DEF ErrorsReported
  <2>1. PICK r : /\ Answers(Type, Value, r)
                 /\ Received = [ok |-> ~r.ia.error, value |-> r.val]
    BY SampleRead, Zenon
  <2>2. Received.ok = ~r.ia.error
    BY <2>1
  <2>3. r.ia.error = Reported(Type, Value)
    BY <2>1, Zenon DEF Answers
  <2> QED BY <2>2, <2>3, Zenon
<1>2. ArchiveInit => SampleGood
  BY SampleIsGood, Zenon
<1>3. SampleGood /\ [UNCHANGED archiveVars]_archiveVars => SampleGood'
  BY SampleStays, Zenon
<1> QED BY <1>1, <1>2, <1>3, PTL DEF ArchiveSpec

\* In a tuple the elements before and after one that cannot be read are read as written.
THEOREM ArchiveErrorStaysInside ==
  ASSUME OverloadsResolved
  PROVE  ArchiveSpec => []ErrorStaysInside
<1>1. SampleGood => ErrorStaysInside
  <2> SUFFICES ASSUME SampleGood, Type.kind = "tuple", NEW i \in DOMAIN Value,
                      Type.of[i].kind # "ignore" => ~Broken(Type.of[i], Value[i])
               PROVE  Received.value[i] = Value[i]
    BY Zenon DEF ErrorStaysInside
  <2>1. IsType(Type, Levels) /\ IsValue(Type, Value)
    BY Zenon DEF SampleGood
  <2>2. TupleReady(Type) /\ TupleKept(Type, Value) /\ PartsExact(Type.of, Value)
    <3>1. TupleReady(Type)
      BY <2>1, TupleMadeOfReady, Zenon
    <3> QED BY <2>1, <3>1, TupleIsKept, TupleValue, Zenon
  <2>3. PICK r : /\ Kept(r.val, Len(Value), Value, SoundParts(Type.of, Value))
                 /\ Received = [ok |-> ~r.ia.error, value |-> r.val]
    <3> DEFINE b == Write(Type, Value)
               r == Read(Type, Input(b \o <<255>>, Len(b), FALSE))
    <3>1. <<255>> \in Seq(Byte)
      BY DEF Byte
    <3>2. Kept(r.val, Len(Value), Value, SoundParts(Type.of, Value))
      BY <2>2, <3>1, Zenon DEF TupleKept
    <3>3. Received = [ok |-> ~r.ia.error, value |-> r.val]
      BY Zenon DEF Received, DeserializeAs, Input
    <3> QED BY <3>2, <3>3, Zenon
  <2>4. i \in 1 .. Len(Value)
    BY <2>2, Zenon DEF PartsExact
  <2>5. i \in SoundParts(Type.of, Value)
    <3>1. Type.of[i].kind # "ignore" => Broken(Type.of[i], Value[i]) \in BOOLEAN
      BY <2>2, <2>4, Zenon DEF PartsExact, ExactPart, Exact
    <3>2. Type.of[i].kind = "ignore" \/ Broken(Type.of[i], Value[i]) = FALSE
      BY <3>1
    <3> QED BY <2>4, <3>2, Zenon DEF SoundParts
  <2>6. r.val[i] = Value[i]
    BY <2>3, <2>4, <2>5, Zenon DEF Kept
  <2>7. Received.value = r.val
    BY <2>3
  <2> QED BY <2>6, <2>7, Zenon
<1>2. ArchiveInit => SampleGood
  BY SampleIsGood, Zenon
<1>3. SampleGood /\ [UNCHANGED archiveVars]_archiveVars => SampleGood'
  BY SampleStays, Zenon
<1> QED BY <1>1, <1>2, <1>3, PTL DEF ArchiveSpec
=============================================================================
