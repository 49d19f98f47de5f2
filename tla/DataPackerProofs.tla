-------------------------- MODULE DataPackerProofs --------------------------
(***************************************************************************)
(* Proofs about DataPacker, for packages of any sizes within the limit and *)
(* any way of cutting the stream into chunks.  While bytes are fed the     *)
(* receiver is aligned: the bytes in its buffer are the last ones fed, and *)
(* belong to one package (PackerIInv).                                     *)
(***************************************************************************)
EXTENDS DataPacker, SequenceTheorems, TLAPS

-----------------------------------------------------------------------------
\* Sequences of places.
LEMMA BytesSeq ==
  ASSUME NEW a \in Nat, NEW n \in Nat
  PROVE  /\ Bytes(a, n) \in Seq(Nat)
         /\ Len(Bytes(a, n)) = n
         /\ \A k \in 1 .. n : Bytes(a, n)[k] = a + k - 1
BY DEF Bytes

LEMMA BytesConcat ==
  ASSUME NEW a \in Nat, NEW n \in Nat, NEW m \in Nat
  PROVE  Bytes(a, n) \o Bytes(a + n, m) = Bytes(a, n + m)
<1> DEFINE l == Bytes(a, n)
           r == Bytes(a + n, m)
           both == Bytes(a, n + m)
<1>1. /\ l \in Seq(Nat) /\ Len(l) = n /\ \A k \in 1 .. n : l[k] = a + k - 1
      /\ r \in Seq(Nat) /\ Len(r) = m /\ \A k \in 1 .. m : r[k] = a + n + k - 1
      /\ both \in Seq(Nat) /\ Len(both) = n + m
      /\ \A k \in 1 .. n + m : both[k] = a + k - 1
  <2>1. a + n \in Nat /\ n + m \in Nat
    OBVIOUS
  <2>2. l \in Seq(Nat) /\ Len(l) = n /\ \A k \in 1 .. n : l[k] = a + k - 1
    BY BytesSeq
  <2>3. r \in Seq(Nat) /\ Len(r) = m /\ \A k \in 1 .. m : r[k] = a + n + k - 1
    BY <2>1, BytesSeq
  <2>4. /\ both \in Seq(Nat) /\ Len(both) = n + m
        /\ \A k \in 1 .. n + m : both[k] = a + k - 1
    BY <2>1, BytesSeq
  <2> QED BY <2>2, <2>3, <2>4
<1> HIDE DEF l, r, both
<1>2. /\ l \o r \in Seq(Nat) /\ Len(l \o r) = n + m
      /\ \A k \in 1 .. n + m : (l \o r)[k] = IF k <= n THEN l[k] ELSE r[k - n]
  BY <1>1, ConcatProperties
<1>3. ASSUME NEW k \in 1 .. n + m PROVE (l \o r)[k] = both[k]
  <2>1. CASE k <= n
    <3>1. k \in 1 .. n
      BY <2>1
    <3>2. (l \o r)[k] = l[k] /\ l[k] = a + k - 1
      BY <1>1, <1>2, <2>1, <3>1
    <3>3. both[k] = a + k - 1
      BY <1>1
    <3> QED BY <3>2, <3>3
  <2>2. CASE ~(k <= n)
    <3>1. k - n \in 1 .. m
      BY <2>2
    <3>2. r[k - n] = a + n + (k - n) - 1
      BY <1>1, <3>1
    <3>3. (l \o r)[k] = r[k - n]
      BY <1>2, <2>2
    <3>4. both[k] = a + k - 1
      BY <1>1
    <3> QED BY <3>2, <3>3, <3>4
  <2> QED BY <2>1, <2>2
<1>4. l \o r = both
  BY <1>1, <1>2, <1>3, SeqEqual
<1> QED BY <1>4 DEF l, r, both

\* Where the bytes start shows where they come from.
LEMMA BytesStart ==
  ASSUME NEW a \in Nat, NEW b \in Nat, NEW n \in Nat \ {0},
         Bytes(a, n) = Bytes(b, n)
  PROVE  a = b
<1>1. 1 \in 1 .. n
  OBVIOUS
<1>2. Bytes(a, n)[1] = a + 1 - 1 /\ Bytes(b, n)[1] = b + 1 - 1
  BY <1>1 DEF Bytes
<1> QED BY <1>2

\* What the empty buffer of a reset is.
LEMMA NoBytes ==
  ASSUME NEW a \in Nat
  PROVE  Bytes(a, 0) = <<>>
<1>1. Bytes(a, 0) \in Seq(Nat) /\ Len(Bytes(a, 0)) = 0
  BY BytesSeq
<1> QED BY <1>1, EmptySeq
-----------------------------------------------------------------------------
\* What of the type invariant concerns one package.
LEMMA PackageType ==
  ASSUME PackerTypeOK, NEW i \in DOMAIN sent
  PROVE  /\ sent[i].start \in Nat /\ sent[i].size \in Nat
         /\ 1 <= sent[i].size /\ sent[i].size <= MaxBodySize
<1>1. i \in 1 .. Len(sent)
  BY LenProperties DEF PackerTypeOK
<1>2. sent[i] \in [start : Nat, size : Sizes]
  BY <1>1, ElementOfSeq DEF PackerTypeOK
<1>3. sent[i].size \in 1 .. MaxBodySize /\ MaxBodySize \in Nat
  BY <1>2, PackerAssumption DEF PackerAssumption
<1> QED BY <1>2, <1>3

\* A package ends at a boundary.
LEMMA EndOfPackage ==
  ASSUME PackerTypeOK, Layout, NEW i \in DOMAIN sent
  PROVE  Boundary(sent[i].start + HeaderLen + sent[i].size)
<1>1. CASE i = Len(sent)
  BY <1>1 DEF Layout, Boundary
<1>2. CASE i # Len(sent)
  <2>1. i + 1 \in DOMAIN sent
    BY <1>2, LenProperties DEF PackerTypeOK
  <2> QED BY <1>2, <2>1 DEF Layout, Boundary
<1> QED BY <1>1, <1>2

THEOREM PackerInitInv == PackerInit => PackerIInv
<1> SUFFICES ASSUME PackerInit PROVE PackerIInv
  OBVIOUS
<1>1. PackerTypeOK
  BY PackerAssumption, EmptySeq
  DEF PackerInit, PackerTypeOK, PackerAssumption, HeaderLen
<1>2. DOMAIN sent = {} /\ DOMAIN delivered = {}
  BY DEF PackerInit
<1>3. Layout /\ Intact
  BY <1>2 DEF Layout, Intact
<1>4. Aligned
  <2>1. pos = 0 /\ tail = 0 /\ buffer = <<>> /\ bodySize = 0 /\ Len(<<>>) = 0
    BY EmptySeq DEF PackerInit
  <2>2. Bytes(0, 0) = <<>>
    BY NoBytes
  <2>3. Len(buffer) = 0
    BY <2>1, Zenon
  <2>4. pos - Len(buffer) = 0 /\ Len(buffer) <= pos
    <3>1. pos = 0
      BY <2>1
    <3> QED BY <2>3, <3>1
  <2> QED BY <2>1, <2>2, <2>3, <2>4 DEF Aligned, Boundary
<1> QED BY <1>1, <1>3, <1>4 DEF PackerIInv, PackerInit

\* feed_body of bytes that continue the body of the i-th package.
LEMMA FillBodyInv ==
  ASSUME PackerTypeOK, Layout, Intact,
         NEW b \in Seq(Nat), NEW size \in Nat, NEW from \in Nat,
         NEW end \in Nat, NEW i \in DOMAIN sent,
         from < end, end <= tail, Len(b) < size, Len(b) <= from,
         b = Bytes(from - Len(b), Len(b)),
         sent[i].start + HeaderLen = from - Len(b), sent[i].size = size,
         FillBody(b, size, from, end), chunkEnd' = end,
         UNCHANGED <<sent, tail, connected, since>>
  PROVE  PackerIInv'
<1> DEFINE place == from - Len(b)
<1>1. /\ sent[i].start \in Nat /\ size <= MaxBodySize /\ 1 <= size
      /\ tail \in Nat /\ MaxBodySize \in Nat /\ Len(b) \in Nat /\ place \in Nat
      /\ headerLen \in 0 .. HeaderLen - 1
      /\ delivered \in Seq(Seq(Nat))
  BY PackageType, LenProperties, PackerAssumption
  DEF PackerTypeOK, PackerAssumption
<1>0. place + Len(b) = from /\ b = Bytes(place, Len(b))
      /\ sent[i].start + HeaderLen = place
  BY <1>1
<1> HIDE DEF place
<1>5. PICK at \in Nat : at = place
  BY <1>1
<1>6. PICK len \in Nat : len = Len(b)
  BY <1>1
<1>2. Layout'
  BY DEF Layout
<1>3. CASE Len(b) + (end - from) < size
  <2>1. PICK rest \in Nat : rest = end - from
    OBVIOUS
  <2>2. PICK have \in Nat : have = Len(b) + rest
    BY <1>1
  <2>3. /\ buffer' = b \o Bytes(from, rest) /\ bodySize' = size /\ pos' = end
        /\ UNCHANGED <<headerLen, delivered>>
    BY <1>3, <2>1 DEF FillBody
  <2>4. buffer' = Bytes(place, have)
    <3>1. Bytes(at, len) \o Bytes(at + len, rest) = Bytes(at, len + rest)
      BY BytesConcat
    <3> QED BY <1>0, <1>5, <1>6, <2>2, <2>3, <3>1
  <2>5. buffer' \in Seq(Nat) /\ Len(buffer') = have
    BY <1>1, <2>4, BytesSeq
  <2>6. end - have = place /\ have <= end /\ have < size /\ size # 0
    <3>1. /\ place \in Nat /\ Len(b) \in Nat /\ size \in Nat /\ end \in Nat
          /\ place + Len(b) = from
      BY <1>0, <1>1
    <3>2. have < size
      BY <1>3, <2>1, <2>2
    <3> QED BY <2>1, <2>2, <3>1, <3>2
  <2>7. PackerTypeOK'
    BY <1>1, <2>3, <2>5, <2>6 DEF PackerTypeOK
  <2>8. Aligned'
    <3>1. /\ pos' - Len(buffer') = place /\ Len(buffer') <= pos'
          /\ bodySize' = size /\ bodySize' # 0
      BY <2>3, <2>5, <2>6
    <3>2. buffer' = Bytes(pos' - Len(buffer'), Len(buffer'))
      BY <2>4, <2>5, <3>1, Zenon
    <3>3. sent' = sent /\ i \in DOMAIN sent'
      OBVIOUS
    <3> QED BY <1>0, <3>1, <3>2, <3>3 DEF Aligned
  <2> QED BY <1>2, <2>3, <2>7, <2>8 DEF PackerIInv, Intact, Body
<1>4. CASE ~(Len(b) + (end - from) < size)
  <2> DEFINE need == size - Len(b)
             body == b \o Bytes(from, need)
  <2>1. /\ delivered' = Append(delivered, body) /\ pos' = from + need
        /\ buffer' = <<>> /\ headerLen' = 0 /\ bodySize' = 0
    BY <1>4 DEF FillBody, Reset
  <2>2. need \in Nat /\ Len(b) + need = size
    BY <1>1
  <2>3. body = Body(sent[i])
    <3>1. PICK more \in Nat : more = need
      BY <2>2
    <3>2. Bytes(at, len) \o Bytes(at + len, more) = Bytes(at, len + more)
      BY BytesConcat
    <3> QED BY <1>0, <1>5, <1>6, <2>2, <3>1, <3>2 DEF Body
  <2>4. body \in Seq(Nat)
    <3>1. place \in Nat /\ sent[i].size \in Nat
      BY <1>1
    <3>2. Bytes(place, size) \in Seq(Nat)
      BY <1>1, BytesSeq
    <3>3. Body(sent[i]) = Bytes(place, size)
      BY <1>0 DEF Body
    <3> QED BY <2>3, <3>2, <3>3
  <2>5. /\ delivered' \in Seq(Seq(Nat))
        /\ Len(delivered') = Len(delivered) + 1
        /\ \A k \in 1 .. Len(delivered) : delivered'[k] = delivered[k]
        /\ delivered'[Len(delivered) + 1] = body
    <3> HIDE DEF body
    <3> QED BY <1>1, <2>1, <2>4, AppendProperties
  <2>6. Intact'
    <3>1. ASSUME NEW k \in DOMAIN delivered'
          PROVE  \E m \in DOMAIN sent : delivered'[k] = Body(sent[m])
      <4>1. /\ Len(delivered) \in Nat /\ k \in 1 .. Len(delivered) + 1
            /\ DOMAIN delivered = 1 .. Len(delivered)
        BY <1>1, <2>5, LenProperties
      <4>2. CASE k = Len(delivered) + 1
        BY <2>3, <2>5, <4>2
      <4>3. CASE k \in 1 .. Len(delivered)
        BY <2>5, <4>1, <4>3 DEF Intact
      <4> QED BY <4>1, <4>2, <4>3
    <3> QED BY <3>1 DEF Intact, Body
  <2>7. PackerTypeOK'
    <3>1. pos' \in 0 .. end
      <4>1. pos' = from + need
        BY <2>1
      <4>2. from + (size - Len(b)) \in 0 .. end
        BY <1>1, <1>4
      <4> QED BY <4>1, <4>2
    <3> QED BY <1>1, <2>1, <2>5, <3>1, EmptySeq DEF PackerTypeOK, HeaderLen
  <2>8. Aligned'
    <3>1. pos' = sent[i].start + HeaderLen + sent[i].size /\ pos' \in Nat
      <4>1. pos' = from + need
        BY <2>1
      <4>2. from + need = place + size /\ from + need \in Nat
        <5>1. place \in Nat /\ Len(b) \in Nat /\ place + Len(b) = from
          BY <1>0, <1>1
        <5> QED BY <5>1
      <4> QED BY <1>0, <4>1, <4>2
    <3>2. Boundary(pos')
      BY <3>1, EndOfPackage
    <3>3. pos' - Len(buffer') = pos' /\ Len(buffer') = 0 /\ Len(buffer') <= pos'
      BY <2>1, <3>1
    <3>4. buffer' = Bytes(pos' - Len(buffer'), Len(buffer'))
      BY <2>1, <3>1, <3>3, NoBytes
    <3> QED BY <2>1, <3>2, <3>3, <3>4 DEF Aligned, Boundary
  <2> QED BY <1>2, <2>1, <2>6, <2>7, <2>8 DEF PackerIInv
<1> QED BY <1>3, <1>4
-----------------------------------------------------------------------------
\* While bytes are fed the receiver is aligned, and they have been packed.
LEMMA ChunkAligned ==
  ASSUME PackerIInv, NEW end, Chunk(end)
  PROVE  /\ Aligned /\ pos \in Nat /\ end \in Nat /\ pos < end /\ end <= tail
         /\ tail \in Nat
BY DEF PackerIInv, PackerTypeOK, Chunk

\* The header that is made whole is that of the package the frame belongs to.
LEMMA HeaderRead ==
  ASSUME PackerIInv, NEW end, Chunk(end), bodySize = 0,
         NEW need, need = HeaderLen - headerLen, pos + need <= end,
         NEW size \in SizesRead(buffer \o Bytes(pos, need))
  PROVE  /\ need \in Nat /\ need # 0
         /\ \E j \in DOMAIN sent :
              sent[j].start + HeaderLen = pos + need /\ sent[j].size = size
<1> DEFINE place == pos - Len(buffer)
<1>1. /\ Aligned /\ pos \in Nat /\ tail \in Nat /\ pos + need <= tail
      /\ Len(buffer) = headerLen /\ headerLen \in 0 .. 3 /\ PackerTypeOK
  BY ChunkAligned DEF PackerIInv, PackerTypeOK, HeaderLen
<1>2. need \in 1 .. 4 /\ Len(buffer) + need = 4
  BY <1>1 DEF HeaderLen
<1>3. /\ place \in Nat /\ place + Len(buffer) = pos
      /\ place + 4 = pos + need /\ place + 4 <= tail
  <2>1. Len(buffer) <= pos
    BY <1>1 DEF Aligned
  <2> QED BY <1>1, <1>2, <2>1
<1>4. buffer = Bytes(place, Len(buffer)) /\ Boundary(place)
  BY <1>1 DEF Aligned
<1> HIDE DEF place
<1>5. buffer \o Bytes(pos, need) = Bytes(place, 4)
  <2>1. Bytes(place, Len(buffer)) \o Bytes(place + Len(buffer), need)
          = Bytes(place, Len(buffer) + need)
    <3>1. Len(buffer) \in Nat /\ need \in Nat
      BY <1>1, <1>2
    <3> QED BY <1>3, <3>1, BytesConcat, Zenon
  <2> QED BY <1>2, <1>3, <1>4, <2>1
<1>6. PICK i \in DOMAIN sent : sent[i].start = place
  <2>1. place # tail
    BY <1>1, <1>3
  <2> QED BY <1>4, <2>1 DEF Boundary
<1> DEFINE mine == {j \in DOMAIN sent : Bytes(place, 4) = Bytes(sent[j].start, 4)}
<1>7. i \in mine
  BY <1>6
<1>8. size \in {sent[j].size : j \in mine}
  BY <1>5, <1>7 DEF SizesRead, HeaderLen
<1>9. PICK j \in mine : size = sent[j].size
  BY <1>8
<1>10. sent[j].start = place
  <2>1. sent[j].start \in Nat
    BY <1>1, <1>9, PackageType
  <2>2. 4 \in Nat \ {0} /\ Bytes(place, 4) = Bytes(sent[j].start, 4)
    BY <1>9
  <2> QED BY <1>3, <2>1, <2>2, BytesStart
<1> QED BY <1>2, <1>3, <1>9, <1>10 DEF HeaderLen
-----------------------------------------------------------------------------
LEMMA FeedBodyInv ==
  ASSUME PackerIInv, NEW end, FeedBody(end)
  PROVE  PackerIInv'
<1>1. /\ Aligned /\ pos \in Nat /\ end \in Nat /\ pos < end /\ end <= tail
      /\ bodySize # 0 /\ PackerTypeOK /\ Layout /\ Intact
  BY ChunkAligned DEF FeedBody, PackerIInv
<1>2. PICK i \in DOMAIN sent :
        sent[i].start + HeaderLen = pos - Len(buffer) /\ sent[i].size = bodySize
  BY <1>1 DEF Aligned
<1>3. /\ buffer \in Seq(Nat) /\ bodySize \in Nat /\ Len(buffer) < bodySize
      /\ Len(buffer) <= pos /\ buffer = Bytes(pos - Len(buffer), Len(buffer))
  BY <1>1, PackerAssumption DEF Aligned, PackerTypeOK, PackerAssumption
<1>4. /\ FillBody(buffer, bodySize, pos, end) /\ chunkEnd' = end
      /\ UNCHANGED <<sent, tail, connected, since>>
  BY DEF FeedBody
<1> QED BY <1>1, <1>2, <1>3, <1>4, FillBodyInv

LEMMA FeedHeaderPartInv ==
  ASSUME PackerIInv, NEW end, FeedHeaderPart(end)
  PROVE  PackerIInv'
<1>1. /\ Aligned /\ pos \in Nat /\ end \in Nat /\ pos < end /\ end <= tail
      /\ bodySize = 0 /\ PackerTypeOK /\ Layout /\ Intact
  BY ChunkAligned DEF FeedHeaderPart, PackerIInv
<1>2. PICK rest \in Nat : rest = end - pos
  BY <1>1
<1>3. /\ buffer' = buffer \o Bytes(pos, rest) /\ headerLen' = headerLen + rest
      /\ pos' = end /\ chunkEnd' = end /\ headerLen + rest < 4
      /\ UNCHANGED <<sent, tail, connected, bodySize, delivered, since>>
  BY <1>2 DEF FeedHeaderPart, HeaderLen
<1>4. /\ Len(buffer) = headerLen /\ headerLen \in Nat /\ headerLen <= pos
      /\ buffer = Bytes(pos - headerLen, headerLen)
      /\ Boundary(pos - headerLen)
  BY <1>1 DEF PackerTypeOK, Aligned, HeaderLen
<1>5. PICK place \in Nat : place = pos - headerLen
  BY <1>1, <1>4
<1>6. PICK have \in Nat : have = headerLen + rest
  BY <1>4
<1>7. buffer' = Bytes(place, have)
  <2>1. Bytes(place, headerLen) \o Bytes(place + headerLen, rest)
          = Bytes(place, headerLen + rest)
    BY <1>4, BytesConcat, Zenon
  <2>2. place + headerLen = pos
    BY <1>1, <1>4, <1>5
  <2> QED BY <1>3, <1>4, <1>5, <1>6, <2>1, <2>2
<1>8. buffer' \in Seq(Nat) /\ Len(buffer') = have
  BY <1>7, BytesSeq
<1>9. end - have = place /\ have <= end
  BY <1>1, <1>2, <1>4, <1>5, <1>6
<1>10. PackerTypeOK'
  <2>1. headerLen' = have /\ have \in 0 .. 3
    BY <1>3, <1>6
  <2> QED BY <1>1, <1>3, <1>8, <2>1 DEF PackerTypeOK, HeaderLen
<1>11. Aligned'
  <2>1. pos' - Len(buffer') = place /\ Len(buffer') <= pos' /\ bodySize' = 0
    BY <1>1, <1>3, <1>8, <1>9
  <2>2. buffer' = Bytes(pos' - Len(buffer'), Len(buffer'))
    BY <1>7, <1>8, <2>1, Zenon
  <2>3. sent' = sent /\ tail' = tail /\ Boundary(place)
    BY <1>3, <1>4, <1>5
  <2> QED BY <2>1, <2>2, <2>3 DEF Aligned, Boundary
<1>12. Layout' /\ Intact'
  BY <1>1, <1>3 DEF Layout, Intact, Body
<1> QED BY <1>1, <1>3, <1>10, <1>11, <1>12 DEF PackerIInv

LEMMA FeedHeaderInv ==
  ASSUME PackerIInv, NEW end, FeedHeader(end)
  PROVE  PackerIInv'
<1> DEFINE need == HeaderLen - headerLen
<1>1. /\ Aligned /\ pos \in Nat /\ end \in Nat /\ pos < end /\ end <= tail
      /\ tail \in Nat /\ bodySize = 0 /\ PackerTypeOK /\ Layout /\ Intact
      /\ Chunk(end) /\ pos + need <= end /\ chunkEnd' = end
      /\ UNCHANGED <<sent, tail, connected, since>>
  BY ChunkAligned DEF FeedHeader, PackerIInv
<1>2. PICK size \in SizesRead(buffer \o Bytes(pos, need)) :
        IF size > MaxBodySize
        THEN Reset /\ pos' = end /\ UNCHANGED delivered
        ELSE IF pos + need < end THEN FillBody(<<>>, size, pos + need, end)
        ELSE /\ buffer' = <<>> /\ bodySize' = size /\ pos' = end
             /\ UNCHANGED <<headerLen, delivered>>
  BY DEF FeedHeader
<1>3. /\ need \in Nat /\ need # 0
      /\ \E j \in DOMAIN sent :
           sent[j].start + HeaderLen = pos + need /\ sent[j].size = size
  <2>1. \A n : n = HeaderLen - headerLen /\ pos + n <= end =>
          \A z \in SizesRead(buffer \o Bytes(pos, n)) :
            /\ n \in Nat /\ n # 0
            /\ \E j \in DOMAIN sent :
                 sent[j].start + HeaderLen = pos + n /\ sent[j].size = z
    BY <1>1, HeaderRead
  <2> QED BY <1>1, <1>2, <2>1
<1>4. PICK j \in DOMAIN sent :
        sent[j].start + HeaderLen = pos + need /\ sent[j].size = size
  BY <1>3
<1>5. /\ size \in Nat /\ 1 <= size /\ size <= MaxBodySize
      /\ MaxBodySize \in Nat /\ ~(size > MaxBodySize)
  BY <1>1, <1>4, PackageType, PackerAssumption DEF PackerAssumption
<1>6. PICK from \in Nat : from = pos + need
  BY <1>1, <1>3
<1>7. CASE pos + need < end
  <2>1. FillBody(<<>>, size, from, end)
    BY <1>2, <1>5, <1>6, <1>7
  <2>2. PICK b \in Seq(Nat) : b = <<>>
    BY EmptySeq
  <2>3. Len(b) = 0
    BY <2>2, EmptySeq
  <2>4. /\ Len(b) < size /\ Len(b) <= from /\ from - Len(b) = from
        /\ from < end /\ end <= tail
    BY <1>1, <1>5, <1>6, <1>7, <2>3
  <2>5. b = Bytes(from - Len(b), Len(b))
    BY <2>2, <2>3, <2>4, NoBytes
  <2>6. sent[j].start + HeaderLen = from - Len(b) /\ sent[j].size = size
    BY <1>4, <1>6, <2>4
  <2>7. FillBody(b, size, from, end)
    BY <2>1, <2>2
  <2> QED BY <1>1, <1>5, <2>4, <2>5, <2>6, <2>7, FillBodyInv
<1>8. CASE ~(pos + need < end)
  <2>1. /\ buffer' = <<>> /\ bodySize' = size /\ pos' = end
        /\ UNCHANGED <<headerLen, delivered>>
    BY <1>2, <1>5, <1>8
  <2>2. end = from
    BY <1>1, <1>6, <1>8
  <2>3. buffer' \in Seq(Nat) /\ Len(buffer') = 0
    BY <2>1, EmptySeq
  <2>4. PackerTypeOK'
    BY <1>1, <1>5, <2>1, <2>3 DEF PackerTypeOK
  <2>5. Aligned'
    <3>1. pos' - Len(buffer') = from /\ Len(buffer') <= pos'
      BY <2>1, <2>2, <2>3
    <3>2. buffer' = Bytes(from, Len(buffer'))
      BY <2>1, <2>3, NoBytes
    <3>3. sent' = sent /\ bodySize' # 0 /\ bodySize' = size
      BY <1>1, <1>5, <2>1
    <3> QED BY <1>4, <1>6, <3>1, <3>2, <3>3 DEF Aligned
  <2>6. Layout' /\ Intact'
    BY <1>1, <2>1 DEF Layout, Intact, Body
  <2> QED BY <1>1, <2>1, <2>4, <2>5, <2>6 DEF PackerIInv
<1> QED BY <1>7, <1>8
-----------------------------------------------------------------------------
\* One more package leaves those before it where they are.
LEMMA PackInv ==
  ASSUME PackerIInv, NEW size \in Sizes, Pack(size)
  PROVE  PackerIInv'
<1> DEFINE m == [start |-> tail, size |-> size]
           n == Len(sent)
<1>1. /\ PackerTypeOK /\ Layout /\ Intact
      /\ Aligned \/ (~connected /\ pos = chunkEnd)
      /\ pos < chunkEnd => buffer = <<>> /\ bodySize = 0
  BY DEF PackerIInv
<1>2. /\ sent' = Append(sent, m) /\ tail' = tail + HeaderLen + size
      /\ UNCHANGED <<connected, pos, chunkEnd, buffer, headerLen, bodySize,
                     delivered, since>>
  BY DEF Pack
<1>3. /\ tail \in Nat /\ size \in Nat /\ n \in Nat
      /\ tail' \in Nat /\ tail <= tail'
  <2>1. size \in 1 .. MaxBodySize /\ MaxBodySize \in Nat
    BY PackerAssumption DEF PackerAssumption
  <2>2. tail \in Nat /\ n \in Nat
    BY <1>1, LenProperties DEF PackerTypeOK
  <2> QED BY <1>2, <2>1, <2>2 DEF HeaderLen
<1>4. sent \in Seq([start : Nat, size : Sizes]) /\ m \in [start : Nat, size : Sizes]
  BY <1>1, <1>3 DEF PackerTypeOK
<1> HIDE DEF m
<1>5. /\ sent' \in Seq([start : Nat, size : Sizes]) /\ Len(sent') = n + 1
      /\ \A k \in 1 .. n : sent'[k] = sent[k]
      /\ sent'[n + 1] = m
  BY <1>2, <1>4, AppendProperties
<1> HIDE DEF n
<1>6. DOMAIN sent = 1 .. n /\ DOMAIN sent' = 1 .. n + 1
  <2>1. DOMAIN sent = 1 .. Len(sent) /\ DOMAIN sent' = 1 .. Len(sent')
    BY <1>4, <1>5, LenProperties
  <2> QED BY <1>5, <2>1 DEF n
<1>7. PackerTypeOK'
  <2>1. since' \in 0 .. Len(sent')
    BY <1>1, <1>2, <1>3, <1>5 DEF PackerTypeOK, n
  <2>2. chunkEnd' \in 0 .. tail'
    BY <1>1, <1>2, <1>3 DEF PackerTypeOK
  <2> QED BY <1>1, <1>2, <1>3, <1>5, <2>1, <2>2 DEF PackerTypeOK
<1>8. m.start = tail /\ m.size = size
  BY DEF m
<1>9. Layout'
  <2>1. ASSUME NEW i \in 1 .. n + 1
        PROVE  sent'[i].start + HeaderLen + sent'[i].size =
                 IF i = n + 1 THEN tail' ELSE sent'[i + 1].start
    <3>1. CASE i = n + 1
      BY <1>2, <1>3, <1>5, <1>8, <3>1 DEF HeaderLen
    <3>2. CASE i = n /\ n # 0
      <4>1. sent'[i] = sent[i] /\ sent'[i + 1] = m /\ i # n + 1
        BY <1>3, <1>5, <3>2
      <4>2. sent[i].start + HeaderLen + sent[i].size = tail
        BY <1>1, <1>3, <1>6, <3>2 DEF Layout, n
      <4> QED BY <1>8, <4>1, <4>2
    <3>3. CASE i \in 1 .. n /\ i # n
      <4>1. i + 1 \in 1 .. n /\ i # n + 1
        BY <1>3, <3>3
      <4>2. sent'[i] = sent[i] /\ sent'[i + 1] = sent[i + 1]
        BY <1>5, <3>3, <4>1
      <4>3. sent[i].start + HeaderLen + sent[i].size = sent[i + 1].start
        BY <1>1, <1>6, <3>3 DEF Layout, n
      <4> QED BY <4>1, <4>2, <4>3
    <3> QED BY <1>3, <3>1, <3>2, <3>3
  <2> QED BY <1>5, <1>6, <2>1 DEF Layout
<1>10. ASSUME NEW i \in DOMAIN sent PROVE i \in DOMAIN sent' /\ sent'[i] = sent[i]
  <2>1. i \in 1 .. n /\ i \in 1 .. n + 1
    BY <1>3, <1>6
  <2> QED BY <1>5, <1>6, <2>1
<1>11. Intact'
  <2>1. ASSUME NEW k \in DOMAIN delivered
        PROVE  \E j \in DOMAIN sent' : delivered[k] = Body(sent'[j])
    <3>1. PICK j \in DOMAIN sent : delivered[k] = Body(sent[j])
      BY <1>1 DEF Intact
    <3>2. j \in DOMAIN sent' /\ sent'[j] = sent[j]
      BY <1>10
    <3> QED BY <3>1, <3>2
  <2> QED BY <1>2, <2>1 DEF Intact, Body
<1>12. ASSUME NEW place, Boundary(place)
       PROVE  place = tail' \/ \E i \in DOMAIN sent' : sent'[i].start = place
  <2>1. CASE place = tail
    <3>1. n + 1 \in DOMAIN sent' /\ sent'[n + 1].start = tail
      BY <1>3, <1>5, <1>6, <1>8
    <3> QED BY <2>1, <3>1
  <2>2. CASE place # tail
    <3>1. PICK i \in DOMAIN sent : sent[i].start = place
      BY <1>12, <2>2 DEF Boundary
    <3> QED BY <1>10, <3>1
  <2> QED BY <2>1, <2>2
<1>13. Aligned => Aligned'
  <2> SUFFICES ASSUME Aligned PROVE Aligned'
    OBVIOUS
  <2>1. CASE bodySize = 0
    <3>1. Boundary(pos - Len(buffer))
      BY <2>1 DEF Aligned
    <3>2. \/ pos - Len(buffer) = tail'
          \/ \E i \in DOMAIN sent' : sent'[i].start = pos - Len(buffer)
      BY <1>12, <3>1
    <3> QED BY <1>2, <2>1, <3>2 DEF Aligned, Boundary
  <2>2. CASE bodySize # 0
    <3>1. PICK i \in DOMAIN sent : /\ sent[i].start + HeaderLen = pos - Len(buffer)
                                   /\ sent[i].size = bodySize
      BY <2>2 DEF Aligned
    <3> QED BY <1>2, <1>10, <2>2, <3>1 DEF Aligned
  <2> QED BY <2>1, <2>2
<1> QED BY <1>1, <1>2, <1>7, <1>9, <1>11, <1>13 DEF PackerIInv

LEMMA DisconnectInv ==
  ASSUME PackerIInv, Disconnect
  PROVE  PackerIInv'
<1>1. /\ PackerTypeOK /\ Layout /\ Intact
      /\ Aligned \/ (~connected /\ pos = chunkEnd)
      /\ pos < chunkEnd => buffer = <<>> /\ bodySize = 0
  BY DEF PackerIInv
<1>2. /\ connected /\ connected' = FALSE
      /\ UNCHANGED <<sent, tail, pos, chunkEnd, delivered, since>>
  BY DEF Disconnect
<1>3. Reset \/ UNCHANGED <<buffer, headerLen, bodySize>>
  BY DEF Disconnect
<1>4. Layout' /\ Intact'
  BY <1>1, <1>2 DEF Layout, Intact, Body
<1>5. CASE UNCHANGED <<buffer, headerLen, bodySize>>
  BY <1>1, <1>2, <1>4, <1>5 DEF PackerIInv, PackerTypeOK, Aligned, Boundary
<1>6. CASE Reset
  <2>1. /\ buffer' = <<>> /\ headerLen' = 0 /\ bodySize' = 0
        /\ buffer' \in Seq(Nat) /\ Len(buffer') = 0
    BY <1>6, EmptySeq DEF Reset
  <2>2. PackerTypeOK'
    <3>1. headerLen' \in 0 .. HeaderLen - 1 /\ bodySize' \in 0 .. MaxBodySize
      BY <2>1, PackerAssumption DEF HeaderLen, PackerAssumption
    <3>2. /\ bodySize' # 0 => Len(buffer') < bodySize'
          /\ bodySize' = 0 => Len(buffer') = headerLen'
      BY <2>1
    <3>3. connected' \in BOOLEAN
      BY <1>2
    <3> QED BY <1>1, <1>2, <2>1, <3>1, <3>2, <3>3 DEF PackerTypeOK
  <2>3. CASE pos = chunkEnd
    BY <1>2, <1>4, <2>1, <2>2, <2>3 DEF PackerIInv
  <2>4. CASE pos # chunkEnd
    <3>1. pos < chunkEnd /\ pos \in Nat
      BY <1>1, <2>4 DEF PackerTypeOK
    <3>2. buffer = <<>> /\ bodySize = 0 /\ Aligned
      BY <1>1, <1>2, <3>1
    <3>3. buffer' = buffer /\ bodySize' = bodySize
      BY <2>1, <3>2
    <3>4. Aligned'
      BY <1>2, <3>2, <3>3 DEF Aligned, Boundary
    <3> QED BY <1>4, <2>1, <2>2, <3>4 DEF PackerIInv
  <2> QED BY <2>3, <2>4
<1> QED BY <1>3, <1>5, <1>6

\* The next connection starts aligned, if the user calls reset on it.
LEMMA ConnectInv ==
  ASSUME PackerIInv, "connect" \in ResetAt, Connect
  PROVE  PackerIInv'
<1>1. PackerTypeOK /\ Layout /\ Intact
  BY DEF PackerIInv
<1>2. /\ pos' = tail /\ chunkEnd' = tail /\ since' = Len(sent)
      /\ connected' = TRUE /\ Reset /\ UNCHANGED <<sent, tail, delivered>>
  BY DEF Connect, Resets
<1>3. /\ buffer' = <<>> /\ headerLen' = 0 /\ bodySize' = 0
      /\ buffer' \in Seq(Nat) /\ Len(buffer') = 0
  BY <1>2, EmptySeq DEF Reset
<1>4. tail \in Nat /\ Len(sent) \in Nat
  BY <1>1, LenProperties DEF PackerTypeOK
<1>5. PackerTypeOK'
  BY <1>1, <1>2, <1>3, <1>4, PackerAssumption
  DEF PackerTypeOK, HeaderLen, PackerAssumption
<1>6. Layout' /\ Intact'
  BY <1>1, <1>2 DEF Layout, Intact, Body
<1>7. Aligned'
  <2>1. pos' - Len(buffer') = tail /\ Len(buffer') <= pos'
    BY <1>2, <1>3, <1>4
  <2>2. Bytes(tail, 0) = <<>>
    BY <1>4, NoBytes
  <2>3. buffer' = Bytes(pos' - Len(buffer'), Len(buffer'))
    BY <1>3, <2>1, <2>2
  <2>4. tail' = tail
    BY <1>2
  <2> QED BY <1>3, <2>1, <2>3, <2>4 DEF Aligned, Boundary
<1> QED BY <1>2, <1>3, <1>5, <1>6, <1>7 DEF PackerIInv
-----------------------------------------------------------------------------
LEMMA PackerStepInv ==
  ASSUME PackerIInv, "connect" \in ResetAt, [PackerNext]_packerVars
  PROVE  PackerIInv'
<1>1. ASSUME NEW size \in Sizes, Pack(size) PROVE PackerIInv'
  BY <1>1, PackInv
<1>2. ASSUME NEW end \in 1 .. tail, FeedBody(end) PROVE PackerIInv'
  BY <1>2, FeedBodyInv
<1>3. ASSUME NEW end \in 1 .. tail, FeedHeaderPart(end) PROVE PackerIInv'
  BY <1>3, FeedHeaderPartInv
<1>4. ASSUME NEW end \in 1 .. tail, FeedHeader(end) PROVE PackerIInv'
  BY <1>4, FeedHeaderInv
<1>5. CASE Disconnect
  BY <1>5, DisconnectInv
<1>6. CASE Connect
  BY <1>6, ConnectInv
<1>7. CASE UNCHANGED packerVars
  BY <1>7 DEF packerVars, PackerIInv, PackerTypeOK, Layout, Intact, Body,
              Aligned, Boundary
<1> QED BY <1>1, <1>2, <1>3, <1>4, <1>5, <1>6, <1>7 DEF PackerNext

\* data_packer.hpp: whatever the sizes and the chunks, the receiver stays aligned
\* with the stream if reset() is called on every new connection.
THEOREM PackerInductive ==
  ASSUME "connect" \in ResetAt
  PROVE  PackerSpec => []PackerIInv
<1>1. PackerInit => PackerIInv
  BY PackerInitInv
<1>2. PackerIInv /\ [PackerNext]_packerVars => PackerIInv'
  BY PackerStepInv
<1> QED BY <1>1, <1>2, PTL DEF PackerSpec

\* The receiver's variables keep their types, and its buffer stays below one body.
THEOREM PackerTypeCorrect ==
  ASSUME "connect" \in ResetAt
  PROVE  PackerSpec => []PackerTypeOK
<1>1. PackerIInv => PackerTypeOK
  BY DEF PackerIInv
<1> QED BY <1>1, PackerInductive, PTL

\* Every body given to on_data is the whole body of one package that was sent.
THEOREM PackagesIntact ==
  ASSUME "connect" \in ResetAt
  PROVE  PackerSpec => []Intact
<1>1. PackerIInv => Intact
  BY DEF PackerIInv
<1> QED BY <1>1, PackerInductive, PTL
-----------------------------------------------------------------------------
\* Packages in the order they were sent: no two overlap.
Apart(s) == \A i, j \in DOMAIN s : i < j => EndOf(s[i]) <= s[j].start

\* A package of a sequence, typed.
LEMMA PackageIn ==
  ASSUME NEW s \in Seq([start : Nat, size : Sizes]), NEW i \in DOMAIN s
  PROVE  /\ i \in Nat /\ s[i].start \in Nat
         /\ s[i].size \in Nat \ {0} /\ EndOf(s[i]) \in Nat
         /\ s[i].start + HeaderLen < EndOf(s[i])
<1>1. i \in 1 .. Len(s) /\ Len(s) \in Nat
  BY LenProperties
<1>2. s[i] \in [start : Nat, size : Sizes]
  BY <1>1, ElementOfSeq
<1>3. s[i].size \in 1 .. MaxBodySize /\ MaxBodySize \in Nat
  BY <1>2, PackerAssumption DEF PackerAssumption
<1> QED BY <1>1, <1>2, <1>3 DEF EndOf, HeaderLen

\* No two packages have the same body: a body names its package.
LEMMA BodyNames ==
  ASSUME NEW s \in Seq([start : Nat, size : Sizes]), Apart(s),
         NEW m \in DOMAIN s, NEW n \in DOMAIN s, Body(s[m]) = Body(s[n])
  PROVE  m = n
<1>1. /\ m \in Nat /\ s[m].start \in Nat /\ s[m].size \in Nat \ {0}
      /\ s[m].start + HeaderLen < EndOf(s[m])
      /\ n \in Nat /\ s[n].start \in Nat /\ s[n].size \in Nat \ {0}
      /\ s[n].start + HeaderLen < EndOf(s[n])
      /\ EndOf(s[m]) \in Nat /\ EndOf(s[n]) \in Nat
  BY PackageIn
<1>2. PICK a \in Nat, x \in Nat \ {0} : a = s[m].start /\ x = s[m].size
  BY <1>1
<1>3. PICK b \in Nat, y \in Nat \ {0} : b = s[n].start /\ y = s[n].size
  BY <1>1
<1>4. Bytes(a + HeaderLen, x) = Bytes(b + HeaderLen, y)
  BY <1>2, <1>3 DEF Body
<1>5. a + HeaderLen \in Nat /\ b + HeaderLen \in Nat /\ x \in Nat /\ y \in Nat
  BY DEF HeaderLen
<1>6. x = y
  <2>1. Len(Bytes(a + HeaderLen, x)) = x /\ Len(Bytes(b + HeaderLen, y)) = y
    BY <1>5, BytesSeq
  <2> QED BY <1>4, <2>1
<1>7. a = b
  <2>1. a + HeaderLen = b + HeaderLen
    BY <1>4, <1>5, <1>6, BytesStart
  <2> QED BY <2>1 DEF HeaderLen
<1>8. ~(m < n) /\ ~(n < m)
  <2>1. /\ m < n => EndOf(s[m]) <= s[n].start
        /\ n < m => EndOf(s[n]) <= s[m].start
    BY DEF Apart
  <2>2. a + HeaderLen < EndOf(s[m]) /\ b + HeaderLen < EndOf(s[n])
    BY <1>1, <1>2, <1>3
  <2>3. PICK e \in Nat, f \in Nat : e = EndOf(s[m]) /\ f = EndOf(s[n])
    BY <1>1
  <2> QED BY <1>2, <1>3, <1>7, <2>1, <2>2, <2>3 DEF HeaderLen
<1> QED BY <1>1, <1>8

LEMMA SpacedApart ==
  ASSUME PackerTypeOK, Spaced
  PROVE  sent \in Seq([start : Nat, size : Sizes]) /\ Apart(sent)
BY DEF PackerTypeOK, Spaced, Apart

\* A package that ends before the end of another is an earlier one, and has ended
\* where that one starts.
LEMMA EndsBefore ==
  ASSUME PackerTypeOK, Spaced, NEW i \in DOMAIN sent, NEW m \in DOMAIN sent,
         EndOf(sent[m]) < EndOf(sent[i])
  PROVE  m < i /\ EndOf(sent[m]) <= sent[i].start
<1>1. sent \in Seq([start : Nat, size : Sizes])
  BY DEF PackerTypeOK
<1>2. /\ i \in Nat /\ m \in Nat /\ sent[i].start \in Nat /\ sent[m].start \in Nat
      /\ EndOf(sent[i]) \in Nat /\ EndOf(sent[m]) \in Nat
      /\ sent[m].start + HeaderLen < EndOf(sent[m])
  BY <1>1, PackageIn
<1>3. ~(i < m)
  BY <1>2 DEF Spaced, HeaderLen
<1>4. i # m
  BY <1>2
<1>5. m < i
  BY <1>2, <1>3, <1>4
<1> QED BY <1>5 DEF Spaced
-----------------------------------------------------------------------------
\* The two things feeding can do: it goes on inside a package, or it reaches the end
\* of one and delivers its body.
Within(i) ==
  /\ delivered' = delivered
  /\ sent[i].start <= pos /\ pos <= pos' /\ pos' < EndOf(sent[i])

Ends(i) ==
  /\ delivered' = Append(delivered, Body(sent[i]))
  /\ sent[i].start <= pos /\ pos < EndOf(sent[i]) /\ pos' = EndOf(sent[i])

LEMMA FillBodyStep ==
  ASSUME PackerTypeOK,
         NEW b \in Seq(Nat), NEW size \in Nat, NEW from \in Nat,
         NEW end \in Nat, NEW i \in DOMAIN sent,
         pos <= from, from < end, Len(b) < size, Len(b) <= from,
         b = Bytes(from - Len(b), Len(b)), sent[i].start <= pos,
         sent[i].start + HeaderLen = from - Len(b), sent[i].size = size,
         FillBody(b, size, from, end)
  PROVE  Within(i) \/ Ends(i)
<1>1. pos \in Nat /\ sent[i].start \in Nat /\ Len(b) \in Nat
  BY PackageType, LenProperties DEF PackerTypeOK
<1>2. PICK len \in Nat : len = Len(b)
  BY <1>1
<1> DEFINE at == from - len
<1>0. at \in Nat /\ at = from - Len(b)
  BY <1>2
<1> HIDE DEF at
<1>3. EndOf(sent[i]) = at + size /\ at + len = from /\ at + size > pos
  BY <1>0, <1>1, <1>2 DEF EndOf
<1>4. CASE len + (end - from) < size
  <2>1. pos' = end /\ delivered' = delivered
    BY <1>2, <1>4 DEF FillBody
  <2>2. pos <= end /\ end < at + size
    BY <1>0, <1>1, <1>2, <1>3, <1>4
  <2> QED BY <1>3, <2>1, <2>2 DEF Within
<1>5. CASE ~(len + (end - from) < size)
  <2>1. PICK more \in Nat : more = size - len
    BY <1>2
  <2>2. /\ delivered' = Append(delivered, b \o Bytes(from, more))
        /\ pos' = from + size - len
    BY <1>2, <1>5, <2>1 DEF FillBody
  <2>3. Bytes(at, len) \o Bytes(at + len, more) = Bytes(at, len + more)
    BY <1>0, BytesConcat
  <2>4. len + more = size /\ from + size - len = at + size
    BY <1>0, <1>2, <2>1
  <2>5. b = Bytes(at, len) /\ Body(sent[i]) = Bytes(at, size)
    BY <1>0, <1>2 DEF Body
  <2>6. b \o Bytes(from, more) = Body(sent[i])
    BY <1>3, <2>3, <2>4, <2>5
  <2> QED BY <1>3, <2>2, <2>4, <2>6 DEF Ends
<1> QED BY <1>4, <1>5

LEMMA FeedBodyStep ==
  ASSUME PackerIInv, NEW end, FeedBody(end)
  PROVE  \E i \in DOMAIN sent : Within(i) \/ Ends(i)
<1>1. /\ Aligned /\ pos \in Nat /\ end \in Nat /\ pos < end
      /\ bodySize # 0 /\ PackerTypeOK
  BY ChunkAligned DEF FeedBody, PackerIInv
<1>2. PICK i \in DOMAIN sent :
        sent[i].start + HeaderLen = pos - Len(buffer) /\ sent[i].size = bodySize
  BY <1>1 DEF Aligned
<1>3. /\ buffer \in Seq(Nat) /\ bodySize \in Nat /\ Len(buffer) < bodySize
      /\ Len(buffer) <= pos /\ buffer = Bytes(pos - Len(buffer), Len(buffer))
      /\ Len(buffer) \in Nat /\ sent[i].start \in Nat
  BY <1>1, PackerAssumption, LenProperties, PackageType
  DEF Aligned, PackerTypeOK, PackerAssumption
<1>4. sent[i].start <= pos
  BY <1>1, <1>2, <1>3 DEF HeaderLen
<1>5. FillBody(buffer, bodySize, pos, end) /\ pos <= pos
  BY <1>1 DEF FeedBody
<1> QED BY <1>1, <1>2, <1>3, <1>4, <1>5, FillBodyStep

LEMMA FeedHeaderPartStep ==
  ASSUME PackerIInv, NEW end, FeedHeaderPart(end)
  PROVE  \E i \in DOMAIN sent : Within(i) \/ Ends(i)
<1>1. /\ Aligned /\ pos \in Nat /\ end \in Nat /\ pos < end /\ end <= tail
      /\ tail \in Nat /\ bodySize = 0 /\ PackerTypeOK
  BY ChunkAligned DEF FeedHeaderPart, PackerIInv
<1>2. /\ Len(buffer) = headerLen /\ headerLen \in Nat /\ headerLen <= pos
      /\ Boundary(pos - headerLen)
  BY <1>1 DEF PackerTypeOK, Aligned, HeaderLen
<1>3. pos - headerLen # tail
  BY <1>1, <1>2
<1>4. PICK i \in DOMAIN sent : sent[i].start = pos - headerLen
  BY <1>2, <1>3 DEF Boundary
<1>5. sent[i].start \in Nat /\ sent[i].size \in Nat
  BY <1>1, PackageType
<1>6. delivered' = delivered /\ pos' = end /\ headerLen + (end - pos) < 4
  BY DEF FeedHeaderPart, HeaderLen
<1>7. Within(i)
  BY <1>1, <1>2, <1>4, <1>5, <1>6 DEF Within, EndOf, HeaderLen
<1> QED BY <1>7

LEMMA FeedHeaderStep ==
  ASSUME PackerIInv, NEW end, FeedHeader(end)
  PROVE  \E i \in DOMAIN sent : Within(i) \/ Ends(i)
<1> DEFINE need == HeaderLen - headerLen
<1>1. /\ pos \in Nat /\ end \in Nat /\ pos < end /\ PackerTypeOK
      /\ Chunk(end) /\ bodySize = 0 /\ pos + need <= end
  BY ChunkAligned DEF FeedHeader, PackerIInv
<1>2. PICK size \in SizesRead(buffer \o Bytes(pos, need)) :
        IF size > MaxBodySize
        THEN Reset /\ pos' = end /\ UNCHANGED delivered
        ELSE IF pos + need < end THEN FillBody(<<>>, size, pos + need, end)
        ELSE /\ buffer' = <<>> /\ bodySize' = size /\ pos' = end
             /\ UNCHANGED <<headerLen, delivered>>
  BY DEF FeedHeader
<1>3. /\ need \in Nat /\ need <= 4
      /\ \E j \in DOMAIN sent :
           sent[j].start + HeaderLen = pos + need /\ sent[j].size = size
  <2>1. \A n : n = HeaderLen - headerLen /\ pos + n <= end =>
          \A z \in SizesRead(buffer \o Bytes(pos, n)) :
            /\ n \in Nat /\ n # 0
            /\ \E j \in DOMAIN sent :
                 sent[j].start + HeaderLen = pos + n /\ sent[j].size = z
    BY <1>1, HeaderRead
  <2>2. need <= 4
    BY <1>1 DEF PackerTypeOK, HeaderLen
  <2> QED BY <1>1, <1>2, <2>1, <2>2
<1>4. PICK j \in DOMAIN sent :
        sent[j].start + HeaderLen = pos + need /\ sent[j].size = size
  BY <1>3
<1>5. /\ size \in Nat /\ 1 <= size /\ ~(size > MaxBodySize) /\ sent[j].start \in Nat
  BY <1>1, <1>4, PackageType, PackerAssumption DEF PackerAssumption
<1>6. PICK from \in Nat : from = pos + need
  BY <1>1, <1>3
<1>7. sent[j].start <= pos /\ pos <= from
  BY <1>1, <1>3, <1>4, <1>5, <1>6 DEF HeaderLen
<1>8. CASE from < end
  <2>1. PICK b \in Seq(Nat) : b = <<>>
    BY EmptySeq
  <2>2. Len(b) = 0
    BY <2>1, EmptySeq
  <2>3. /\ Len(b) < size /\ Len(b) <= from /\ from - Len(b) = from
    BY <1>5, <2>2
  <2>4. b = Bytes(from - Len(b), Len(b))
    BY <2>1, <2>2, <2>3, NoBytes
  <2>5. sent[j].start + HeaderLen = from - Len(b) /\ sent[j].size = size
    BY <1>4, <1>6, <2>3
  <2>6. FillBody(b, size, from, end)
    BY <1>2, <1>5, <1>6, <1>8, <2>1
  <2> QED BY <1>1, <1>5, <1>7, <1>8, <2>3, <2>4, <2>5, <2>6, FillBodyStep
<1>9. CASE ~(from < end)
  <2>1. pos' = end /\ delivered' = delivered
    BY <1>2, <1>5, <1>6, <1>9
  <2>2. end = from
    BY <1>1, <1>6, <1>9
  <2>3. EndOf(sent[j]) = from + size
    BY <1>4, <1>6 DEF EndOf
  <2>4. Within(j)
    BY <1>5, <1>7, <2>1, <2>2, <2>3 DEF Within
  <2> QED BY <2>4
<1> QED BY <1>8, <1>9
-----------------------------------------------------------------------------
THEOREM StreamInitInv == PackerInit => StreamIInv
<1> SUFFICES ASSUME PackerInit PROVE StreamIInv
  OBVIOUS
<1>1. DOMAIN sent = {} /\ DOMAIN delivered = {} /\ Len(sent) = 0 /\ since = 0
  BY EmptySeq DEF PackerInit
<1> QED BY <1>1 DEF StreamIInv, Spaced, Passed, InOrder, CaughtUp

LEMMA StreamWithin ==
  ASSUME PackerTypeOK, PackerTypeOK', StreamIInv, NEW i \in DOMAIN sent, Within(i),
         UNCHANGED <<sent, tail, connected, since>>
  PROVE  StreamIInv'
<1>1. pos \in Nat /\ pos' \in Nat /\ pos <= pos'
  BY DEF PackerTypeOK, Within
<1>2. sent \in Seq([start : Nat, size : Sizes])
  BY DEF PackerTypeOK
<1>3. Spaced' /\ InOrder'
  BY DEF StreamIInv, Spaced, InOrder, Within, Body, EndOf
<1>4. Passed'
  <2>1. ASSUME NEW k \in DOMAIN delivered
        PROVE  \E m \in DOMAIN sent :
                 delivered[k] = Body(sent[m]) /\ EndOf(sent[m]) <= pos'
    <3>1. PICK m \in DOMAIN sent :
            delivered[k] = Body(sent[m]) /\ EndOf(sent[m]) <= pos
      BY DEF StreamIInv, Passed
    <3>2. EndOf(sent[m]) \in Nat
      BY <1>2, PackageIn
    <3> QED BY <1>1, <3>1, <3>2
  <2> QED BY <2>1 DEF Passed, Within, Body, EndOf
<1>5. CaughtUp'
  <2>1. ASSUME connected, NEW m \in since + 1 .. Len(sent), EndOf(sent[m]) <= pos'
        PROVE  \E k \in DOMAIN delivered : delivered[k] = Body(sent[m])
    <3>1. m \in DOMAIN sent
      BY <1>2, LenProperties DEF PackerTypeOK
    <3>2. /\ EndOf(sent[m]) \in Nat /\ EndOf(sent[i]) \in Nat
          /\ sent[i].start \in Nat
      BY <1>2, <3>1, PackageIn
    <3>3. EndOf(sent[m]) <= sent[i].start
      BY <1>1, <2>1, <3>1, <3>2, EndsBefore DEF Within, StreamIInv
    <3>4. EndOf(sent[m]) <= pos
      BY <1>1, <3>2, <3>3 DEF Within
    <3> QED BY <2>1, <3>4 DEF StreamIInv, CaughtUp
  <2> QED BY <2>1 DEF CaughtUp, Within, Body, EndOf
<1> QED BY <1>3, <1>4, <1>5 DEF StreamIInv

LEMMA StreamEnds ==
  ASSUME PackerTypeOK, PackerTypeOK', StreamIInv, NEW i \in DOMAIN sent, Ends(i),
         UNCHANGED <<sent, tail, connected, since>>
  PROVE  StreamIInv'
<1> DEFINE n == Len(delivered)
<1>1. /\ pos \in Nat /\ pos' = EndOf(sent[i]) /\ pos < EndOf(sent[i])
      /\ EndOf(sent[i]) \in Nat /\ i \in Nat /\ sent[i].start \in Nat
      /\ sent[i].start <= pos
  <2>1. sent \in Seq([start : Nat, size : Sizes])
    BY DEF PackerTypeOK
  <2>2. EndOf(sent[i]) \in Nat /\ i \in Nat /\ sent[i].start \in Nat
    BY <2>1, PackageIn
  <2>3. pos \in Nat
    BY DEF PackerTypeOK
  <2>4. pos' = EndOf(sent[i]) /\ sent[i].start <= pos /\ pos < EndOf(sent[i])
    BY Zenon DEF Ends
  <2> QED BY <2>2, <2>3, <2>4, Zenon
<1>2. sent \in Seq([start : Nat, size : Sizes]) /\ Apart(sent)
  BY SpacedApart DEF StreamIInv
<1>3. /\ n \in Nat /\ DOMAIN delivered = 1 .. n /\ DOMAIN delivered' = 1 .. n + 1
      /\ \A k \in 1 .. n : delivered'[k] = delivered[k]
      /\ delivered'[n + 1] = Body(sent[i])
  <2>1. delivered \in Seq(Seq(Nat)) /\ Body(sent[i]) \in Seq(Nat)
    <3>1. sent[i].start \in Nat /\ sent[i].size \in Nat
      BY <1>2, PackageIn
    <3>2. sent[i].start + HeaderLen \in Nat
      BY <3>1 DEF HeaderLen
    <3> QED BY <3>1, <3>2, BytesSeq DEF PackerTypeOK, Body
  <2>2. delivered' \in Seq(Seq(Nat)) /\ delivered' = Append(delivered, Body(sent[i]))
    BY DEF PackerTypeOK, Ends
  <2> QED BY <2>1, <2>2, AppendProperties, LenProperties
<1> HIDE DEF n
<1>4. Spaced'
  BY DEF StreamIInv, Spaced, Body, EndOf
\* What was delivered before is an earlier package.
<1>5. ASSUME NEW k \in 1 .. n
      PROVE  \E m \in DOMAIN sent : /\ delivered'[k] = Body(sent[m])
                                    /\ EndOf(sent[m]) <= pos' /\ m < i
  <2>1. PICK m \in DOMAIN sent :
          delivered[k] = Body(sent[m]) /\ EndOf(sent[m]) <= pos
    BY <1>3 DEF StreamIInv, Passed
  <2>2. EndOf(sent[m]) \in Nat
    BY <1>2, PackageIn
  <2>3. EndOf(sent[m]) < EndOf(sent[i])
    BY <1>1, <2>1, <2>2
  <2>4. m < i
    BY <2>3, EndsBefore DEF StreamIInv
  <2> QED BY <1>1, <1>3, <2>1, <2>2, <2>3, <2>4
<1>6. Passed'
  <2>1. ASSUME NEW k \in 1 .. n + 1
        PROVE  \E m \in DOMAIN sent : delivered'[k] = Body(sent[m])
                                      /\ EndOf(sent[m]) <= pos'
    <3>1. CASE k \in 1 .. n
      BY <1>5, <3>1
    <3>2. CASE k = n + 1
      BY <1>1, <1>3, <3>2
    <3> QED BY <1>3, <3>1, <3>2
  <2> QED BY <1>3, <2>1 DEF Passed, Body, EndOf
<1>7. InOrder'
  <2>1. ASSUME NEW j \in 1 .. n + 1, NEW k \in 1 .. n + 1,
               NEW a \in DOMAIN sent, NEW b \in DOMAIN sent, j < k,
               delivered'[j] = Body(sent[a]), delivered'[k] = Body(sent[b])
        PROVE  a < b
    <3>1. j \in 1 .. n
      BY <1>3, <2>1
    <3>2. CASE k \in 1 .. n
      BY <1>3, <2>1, <3>1, <3>2 DEF StreamIInv, InOrder
    <3>3. CASE k = n + 1
      <4>1. PICK m \in DOMAIN sent : delivered'[j] = Body(sent[m]) /\ m < i
        BY <1>5, <3>1
      <4>2. a = m
        BY <1>2, <2>1, <4>1, BodyNames
      <4>3. b = i
        BY <1>2, <1>3, <2>1, <3>3, BodyNames
      <4> QED BY <4>1, <4>2, <4>3
    <3> QED BY <1>3, <3>2, <3>3
  <2> QED BY <1>3, <2>1 DEF InOrder, Body, EndOf
<1>8. CaughtUp'
  <2>1. ASSUME connected, NEW m \in since + 1 .. Len(sent), EndOf(sent[m]) <= pos'
        PROVE  \E k \in 1 .. n + 1 : delivered'[k] = Body(sent[m])
    <3>1. m \in DOMAIN sent
      BY <1>2, LenProperties DEF PackerTypeOK
    <3>2. EndOf(sent[m]) \in Nat
      BY <1>2, <3>1, PackageIn
    <3>3. CASE m = i
      BY <1>3, <3>3
    <3>4. CASE m # i
      <4>1. EndOf(sent[m]) <= sent[i].start
        <5>1. ~(i < m)
          <6>1. i < m => EndOf(sent[i]) <= sent[m].start
            BY <1>2, <3>1 DEF Apart
          <6>2. sent[m].start \in Nat /\ sent[m].start + HeaderLen < EndOf(sent[m])
            BY <1>2, <3>1, PackageIn
          <6> QED BY <1>1, <2>1, <3>2, <6>1, <6>2 DEF HeaderLen
        <5>2. m < i
          <6>1. m \in Nat
            BY <1>2, <3>1, PackageIn
          <6> QED BY <1>1, <3>4, <5>1, <6>1
        <5> QED BY <1>2, <3>1, <5>2 DEF Apart
      <4>2. EndOf(sent[m]) <= pos
        BY <1>1, <3>2, <4>1
      <4>3. PICK k \in DOMAIN delivered : delivered[k] = Body(sent[m])
        BY <2>1, <4>2 DEF StreamIInv, CaughtUp
      <4>4. k \in 1 .. n /\ k \in 1 .. n + 1
        BY <1>3, <4>3
      <4> QED BY <1>3, <4>3, <4>4
    <3> QED BY <3>3, <3>4
  <2> QED BY <1>3, <2>1 DEF CaughtUp, Body, EndOf
<1> QED BY <1>4, <1>6, <1>7, <1>8 DEF StreamIInv

\* One more package comes after all the others, and ends beyond what was fed.
LEMMA PackSent ==
  ASSUME PackerTypeOK, NEW size \in Sizes, Pack(size)
  PROVE  /\ DOMAIN sent = 1 .. Len(sent) /\ DOMAIN sent' = 1 .. Len(sent) + 1
         /\ Len(sent) \in Nat /\ Len(sent') = Len(sent) + 1
         /\ \A k \in 1 .. Len(sent) : sent'[k] = sent[k]
         /\ sent'[Len(sent) + 1] = [start |-> tail, size |-> size]
         /\ tail \in Nat /\ tail' = tail + HeaderLen + size /\ size \in Nat \ {0}
         /\ UNCHANGED <<connected, pos, delivered, since>>
<1> DEFINE m == [start |-> tail, size |-> size]
<1>1. tail \in Nat /\ size \in Nat \ {0}
  BY PackerAssumption DEF PackerTypeOK, PackerAssumption
<1>2. sent \in Seq([start : Nat, size : Sizes]) /\ m \in [start : Nat, size : Sizes]
  BY <1>1 DEF PackerTypeOK
<1> HIDE DEF m
<1>3. sent' = Append(sent, m)
  BY DEF Pack, m
<1>4. /\ sent' \in Seq([start : Nat, size : Sizes]) /\ Len(sent') = Len(sent) + 1
      /\ \A k \in 1 .. Len(sent) : sent'[k] = sent[k]
      /\ sent'[Len(sent) + 1] = m
  BY <1>2, <1>3, AppendProperties
<1>5. /\ DOMAIN sent = 1 .. Len(sent) /\ Len(sent) \in Nat
      /\ DOMAIN sent' = 1 .. Len(sent')
  BY <1>2, <1>4, LenProperties
<1> QED BY <1>1, <1>4, <1>5 DEF Pack, m

LEMMA StreamPack ==
  ASSUME PackerTypeOK, StreamIInv, NEW size \in Sizes, Pack(size)
  PROVE  StreamIInv'
<1> DEFINE n == Len(sent)
<1>1. /\ DOMAIN sent = 1 .. n /\ DOMAIN sent' = 1 .. n + 1 /\ n \in Nat
      /\ Len(sent') = n + 1
      /\ \A k \in 1 .. n : sent'[k] = sent[k]
      /\ sent'[n + 1].start = tail /\ EndOf(sent'[n + 1]) = tail'
      /\ tail \in Nat /\ tail' \in Nat /\ tail < tail'
      /\ UNCHANGED <<connected, pos, delivered, since>>
  <2>1. /\ DOMAIN sent = 1 .. n /\ DOMAIN sent' = 1 .. n + 1 /\ n \in Nat
        /\ Len(sent') = n + 1
        /\ \A k \in 1 .. n : sent'[k] = sent[k]
        /\ sent'[n + 1] = [start |-> tail, size |-> size]
        /\ tail \in Nat /\ tail' = tail + HeaderLen + size /\ size \in Nat \ {0}
        /\ UNCHANGED <<connected, pos, delivered, since>>
    BY PackSent
  <2> HIDE DEF n
  <2>2. sent'[n + 1].start = tail /\ EndOf(sent'[n + 1]) = tail'
    BY <2>1 DEF EndOf
  <2>3. tail' \in Nat /\ tail < tail'
    BY <2>1 DEF HeaderLen
  <2> QED BY <2>1, <2>2, <2>3
<1>10. sent'[n + 1].size = size /\ size \in Nat \ {0}
  <2>1. sent'[n + 1] = [start |-> tail, size |-> size] /\ size \in Nat \ {0}
    BY PackSent
  <2> QED BY <2>1
<1> HIDE DEF n
<1>2. sent \in Seq([start : Nat, size : Sizes])
  BY DEF PackerTypeOK
<1>3. \A k \in 1 .. n : EndOf(sent[k]) \in Nat /\ EndOf(sent[k]) <= tail
  BY <1>1, <1>2, PackageIn DEF StreamIInv, Spaced
<1>4. pos \in Nat /\ pos <= tail
  BY DEF PackerTypeOK
<1>5. Spaced'
  <2>1. ASSUME NEW i \in 1 .. n + 1
        PROVE  /\ EndOf(sent'[i]) <= tail'
               /\ \A j \in 1 .. n + 1 : i < j => EndOf(sent'[i]) <= sent'[j].start
    <3>1. CASE i = n + 1
      BY <1>1, <3>1
    <3>2. CASE i \in 1 .. n
      <4>1. EndOf(sent'[i]) <= tail'
        BY <1>1, <1>3, <3>2
      <4>2. ASSUME NEW j \in 1 .. n + 1, i < j
            PROVE  EndOf(sent'[i]) <= sent'[j].start
        <5>1. CASE j = n + 1
          BY <1>1, <1>3, <3>2, <5>1
        <5>2. CASE j \in 1 .. n
          BY <1>1, <3>2, <4>2, <5>2 DEF StreamIInv, Spaced
        <5> QED BY <1>1, <5>1, <5>2
      <4> QED BY <4>1, <4>2
    <3> QED BY <1>1, <3>1, <3>2
  <2> QED BY <1>1, <2>1 DEF Spaced, EndOf
\* A body that was delivered is that of one of the packages before.
<1>6. ASSUME NEW k \in DOMAIN delivered, NEW a \in 1 .. n + 1,
             delivered[k] = Body(sent'[a])
      PROVE  a \in 1 .. n
  <2>1. PICK m \in 1 .. n :
          delivered[k] = Body(sent[m]) /\ EndOf(sent[m]) <= pos
    BY <1>1 DEF StreamIInv, Passed
  <2>2. CASE a = n + 1
    <3>1. Body(sent'[n + 1]) = Bytes(tail + HeaderLen, sent'[n + 1].size)
      BY <1>1 DEF Body
    <3>2. sent'[n + 1].size = size /\ size \in Nat \ {0}
      BY <1>10
    <3>3. PICK b \in Nat, z \in Nat \ {0} : b = sent[m].start /\ z = sent[m].size
      BY <1>1, <1>2, PackageIn
    <3>4. Bytes(tail + HeaderLen, size) = Bytes(b + HeaderLen, z)
      BY <1>6, <2>1, <2>2, <3>1, <3>2, <3>3 DEF Body
    <3>5. /\ tail + HeaderLen \in Nat /\ b + HeaderLen \in Nat
          /\ size \in Nat /\ z \in Nat
      BY <1>1, <3>2 DEF HeaderLen
    <3>6. size = z
      <4>1. Len(Bytes(tail + HeaderLen, size)) = size
            /\ Len(Bytes(b + HeaderLen, z)) = z
        BY <3>5, BytesSeq
      <4> QED BY <3>4, <4>1
    <3>7. tail + HeaderLen = b + HeaderLen
      BY <3>2, <3>4, <3>5, <3>6, BytesStart
    <3>8. b + HeaderLen < EndOf(sent[m])
      BY <1>1, <1>2, <3>3, PackageIn
    <3> QED BY <1>1, <1>3, <3>7, <3>8 DEF HeaderLen
  <2> QED BY <1>1, <2>2
<1>7. Passed'
  <2>1. ASSUME NEW k \in DOMAIN delivered
        PROVE  \E m \in 1 .. n + 1 :
                 delivered[k] = Body(sent'[m]) /\ EndOf(sent'[m]) <= pos
    <3>1. PICK m \in 1 .. n :
            delivered[k] = Body(sent[m]) /\ EndOf(sent[m]) <= pos
      BY <1>1 DEF StreamIInv, Passed
    <3>2. m \in 1 .. n + 1 /\ sent'[m] = sent[m]
      BY <1>1
    <3> QED BY <3>1, <3>2
  <2> QED BY <1>1, <2>1 DEF Passed, Body, EndOf
<1>8. InOrder'
  <2>1. ASSUME NEW j \in DOMAIN delivered, NEW k \in DOMAIN delivered,
               NEW a \in 1 .. n + 1, NEW b \in 1 .. n + 1, j < k,
               delivered[j] = Body(sent'[a]), delivered[k] = Body(sent'[b])
        PROVE  a < b
    <3>1. a \in 1 .. n /\ b \in 1 .. n
      BY <1>6, <2>1
    <3>2. sent'[a] = sent[a] /\ sent'[b] = sent[b]
      BY <1>1, <3>1
    <3> QED BY <1>1, <2>1, <3>1, <3>2 DEF StreamIInv, InOrder
  <2> QED BY <1>1, <2>1 DEF InOrder, Body
<1>9. CaughtUp'
  <2>1. ASSUME connected, NEW m \in since + 1 .. n + 1, EndOf(sent'[m]) <= pos
        PROVE  \E k \in DOMAIN delivered : delivered[k] = Body(sent'[m])
    <3>1. m # n + 1
      BY <1>1, <1>4, <2>1
    <3>2. m \in since + 1 .. n /\ m \in 1 .. n
      BY <1>1, <3>1 DEF PackerTypeOK
    <3>3. sent'[m] = sent[m]
      BY <1>1, <3>2
    <3> QED BY <2>1, <3>2, <3>3 DEF StreamIInv, CaughtUp, n
  <2> QED BY <1>1, <2>1 DEF CaughtUp, Body, EndOf
<1> QED BY <1>5, <1>7, <1>8, <1>9 DEF StreamIInv

LEMMA StreamConnect ==
  ASSUME PackerTypeOK, StreamIInv, Disconnect \/ Connect
  PROVE  StreamIInv'
<1>1. /\ UNCHANGED <<sent, tail, delivered>> /\ pos' \in Nat
      /\ pos \in Nat /\ pos <= pos' /\ Len(sent) \in Nat
      /\ connected' => since' = Len(sent)
  BY LenProperties DEF PackerTypeOK, Disconnect, Connect
<1>2. Spaced' /\ InOrder'
  BY <1>1 DEF StreamIInv, Spaced, InOrder, Body, EndOf
<1>3. Passed'
  <2>1. ASSUME NEW k \in DOMAIN delivered
        PROVE  \E m \in DOMAIN sent :
                 delivered[k] = Body(sent[m]) /\ EndOf(sent[m]) <= pos'
    <3>1. PICK m \in DOMAIN sent :
            delivered[k] = Body(sent[m]) /\ EndOf(sent[m]) <= pos
      BY DEF StreamIInv, Passed
    <3>2. EndOf(sent[m]) \in Nat
      BY PackageIn DEF PackerTypeOK
    <3> QED BY <1>1, <3>1, <3>2
  <2> QED BY <1>1, <2>1 DEF Passed, Body, EndOf
<1>4. CaughtUp'
  BY <1>1 DEF CaughtUp
<1> QED BY <1>2, <1>3, <1>4 DEF StreamIInv

LEMMA FeedStep ==
  ASSUME PackerIInv, NEW end, FeedBody(end) \/ FeedHeaderPart(end) \/ FeedHeader(end)
  PROVE  /\ \E i \in DOMAIN sent : Within(i) \/ Ends(i)
         /\ UNCHANGED <<sent, tail, connected, since>>
BY FeedBodyStep, FeedHeaderPartStep, FeedHeaderStep
DEF FeedBody, FeedHeaderPart, FeedHeader

LEMMA StreamStepInv ==
  ASSUME PackerIInv, PackerIInv', StreamIInv, [PackerNext]_packerVars
  PROVE  StreamIInv'
<1> USE DEF PackerIInv
<1>1. ASSUME NEW size \in Sizes, Pack(size) PROVE StreamIInv'
  BY <1>1, StreamPack
<1>2. ASSUME NEW end, FeedBody(end) \/ FeedHeaderPart(end) \/ FeedHeader(end)
      PROVE  StreamIInv'
  <2>1. PICK i \in DOMAIN sent : Within(i) \/ Ends(i)
    BY <1>2, FeedStep
  <2>2. UNCHANGED <<sent, tail, connected, since>>
    BY <1>2, FeedStep
  <2> QED BY <2>1, <2>2, StreamWithin, StreamEnds
<1>3. CASE Disconnect \/ Connect
  BY <1>3, StreamConnect
<1>4. CASE UNCHANGED packerVars
  BY <1>4 DEF packerVars, StreamIInv, Spaced, Passed, InOrder, CaughtUp, Body, EndOf
<1> QED BY <1>1, <1>2, <1>3, <1>4 DEF PackerNext

\* Whatever the chunks, packages are delivered in the order they were sent, and none
\* of the present connection is passed by.
THEOREM StreamInductive ==
  ASSUME "connect" \in ResetAt
  PROVE  PackerSpec => [](PackerIInv /\ StreamIInv)
<1>1. PackerInit => StreamIInv
  BY StreamInitInv
<1>2. PackerIInv /\ PackerIInv' /\ StreamIInv /\ [PackerNext]_packerVars => StreamIInv'
  BY StreamStepInv
<1>3. PackerSpec => []PackerIInv
  BY PackerInductive
<1> QED BY <1>1, <1>2, <1>3, PTL DEF PackerSpec

\* data_packer::feed leaves no package in the buffer once its last byte is there.
THEOREM NoneHeldBack ==
  ASSUME "connect" \in ResetAt
  PROVE  PackerSpec => []NothingHeldBack
<1>1. PackerIInv /\ StreamIInv => NothingHeldBack
  <2> SUFFICES ASSUME PackerIInv, StreamIInv, connected, pos = tail,
                      NEW m \in since + 1 .. Len(sent)
               PROVE  \E i \in DOMAIN delivered : delivered[i] = Body(sent[m])
    BY DEF NothingHeldBack
  <2>1. m \in DOMAIN sent
    BY LenProperties DEF PackerIInv, PackerTypeOK
  <2>2. EndOf(sent[m]) <= pos
    BY <2>1 DEF StreamIInv, Spaced
  <2> QED BY <2>2 DEF StreamIInv, CaughtUp
<1> QED BY <1>1, StreamInductive, PTL
-----------------------------------------------------------------------------
\* The number the refinement mapping gives to what was delivered.
LEMMA NumberOf ==
  ASSUME PackerTypeOK, Spaced, NEW m \in DOMAIN sent
  PROVE  PackageOf(Body(sent[m])) = m
<1>1. \A n \in DOMAIN sent : Body(sent[m]) = Body(sent[n]) => n = m
  BY SpacedApart, BodyNames
<1> DEFINE p == CHOOSE n \in DOMAIN sent : Body(sent[m]) = Body(sent[n])
<1>2. p \in DOMAIN sent /\ Body(sent[m]) = Body(sent[p])
  OBVIOUS
<1>3. p = m
  BY <1>1, <1>2
<1> QED BY <1>3 DEF PackageOf

LEMMA StreamInit == PackerInit => Stream!Init
<1> SUFFICES ASSUME PackerInit PROVE Stream!Init
  OBVIOUS
<1>1. Len(sent) = 0
  BY EmptySeq DEF PackerInit
<1>2. [i \in DOMAIN delivered |-> PackageOf(delivered[i])] = <<>>
  BY DEF PackerInit
<1> QED BY <1>1, <1>2 DEF Stream!Init

LEMMA PackSends ==
  ASSUME PackerTypeOK, PackerTypeOK', StreamIInv, StreamIInv',
         NEW size \in Sizes, Pack(size)
  PROVE  Stream!Send
<1>1. /\ DOMAIN sent = 1 .. Len(sent) /\ DOMAIN sent' = 1 .. Len(sent) + 1
      /\ Len(sent) \in Nat /\ Len(sent') = Len(sent) + 1
      /\ \A k \in 1 .. Len(sent) : sent'[k] = sent[k]
      /\ delivered' = delivered
  BY PackSent
<1>2. ASSUME NEW k \in DOMAIN delivered
      PROVE  PackageOf(delivered[k])' = PackageOf(delivered[k])
  <2>1. PICK m \in DOMAIN sent : delivered[k] = Body(sent[m])
    BY DEF StreamIInv, Passed
  <2>2. PackageOf(delivered[k]) = m
    BY <2>1, NumberOf DEF StreamIInv
  <2>3. m \in DOMAIN sent' /\ sent'[m] = sent[m]
    BY <1>1
  <2>4. /\ sent' \in Seq([start : Nat, size : Sizes])
        /\ \A i, j \in DOMAIN sent' : i < j => EndOf(sent'[i]) <= sent'[j].start
    BY DEF PackerTypeOK, StreamIInv, Spaced, EndOf
  <2>5. \A n \in DOMAIN sent' : Body(sent'[m]) = Body(sent'[n]) => n = m
    BY <2>3, <2>4, BodyNames DEF Apart
  <2> DEFINE p == CHOOSE n \in DOMAIN sent' : Body(sent'[m]) = Body(sent'[n])
  <2>6. p \in DOMAIN sent' /\ Body(sent'[m]) = Body(sent'[p])
    BY <2>3
  <2>7. p = m
    BY <2>5, <2>6
  <2>8. delivered'[k] = Body(sent'[m])
    BY <1>1, <2>1, <2>3
  <2>9. PackageOf(delivered[k])' = m
    BY <2>3, <2>7, <2>8 DEF PackageOf, Body
  <2> QED BY <2>2, <2>9
<1>3. [i \in DOMAIN delivered |-> PackageOf(delivered[i])]'
        = [i \in DOMAIN delivered |-> PackageOf(delivered[i])]
  BY <1>1, <1>2
<1> QED BY <1>1, <1>3 DEF Stream!Send

LEMMA EndsDelivers ==
  ASSUME PackerTypeOK, PackerTypeOK', StreamIInv, NEW k \in DOMAIN sent, Ends(k),
         UNCHANGED sent
  PROVE  Stream!Deliver
<1> DEFINE got == [i \in DOMAIN delivered |-> PackageOf(delivered[i])]
           n == Len(delivered)
<1>1. sent \in Seq([start : Nat, size : Sizes]) /\ Spaced
  BY DEF PackerTypeOK, StreamIInv
<1>2. /\ k \in 1 .. Len(sent) /\ pos < EndOf(sent[k]) /\ EndOf(sent[k]) \in Nat
      /\ pos \in Nat
  <2>1. EndOf(sent[k]) \in Nat /\ k \in 1 .. Len(sent)
    BY <1>1, PackageIn, LenProperties
  <2> QED BY <2>1 DEF Ends, PackerTypeOK
<1>3. /\ n \in Nat /\ DOMAIN delivered = 1 .. n /\ DOMAIN delivered' = 1 .. n + 1
      /\ \A i \in 1 .. n : delivered'[i] = delivered[i]
      /\ delivered'[n + 1] = Body(sent[k])
  <2>1. Body(sent[k]) \in Seq(Nat)
    <3>1. sent[k].start \in Nat /\ sent[k].size \in Nat
      BY <1>1, PackageIn
    <3>2. sent[k].start + HeaderLen \in Nat
      BY <3>1 DEF HeaderLen
    <3> QED BY <3>1, <3>2, BytesSeq DEF Body
  <2>2. /\ delivered \in Seq(Seq(Nat)) /\ delivered' \in Seq(Seq(Nat))
        /\ delivered' = Append(delivered, Body(sent[k]))
    BY DEF PackerTypeOK, Ends
  <2> QED BY <2>1, <2>2, AppendProperties, LenProperties
<1> HIDE DEF n
<1>4. ASSUME NEW i \in 1 .. n PROVE got[i] \in Nat /\ got[i] < k
  <2>1. PICK m \in DOMAIN sent :
          delivered[i] = Body(sent[m]) /\ EndOf(sent[m]) <= pos
    BY <1>3 DEF StreamIInv, Passed
  <2>2. EndOf(sent[m]) \in Nat /\ m \in Nat
    BY <1>1, PackageIn
  <2>3. m < k
    <3>1. EndOf(sent[m]) < EndOf(sent[k])
      BY <1>2, <2>1, <2>2
    <3> QED BY <1>1, <3>1, EndsBefore
  <2>4. PackageOf(delivered[i]) = m
    BY <1>1, <2>1, NumberOf
  <2> QED BY <1>3, <2>2, <2>3, <2>4
<1>5. got' = Append(got, k)
  <2>1. got = [i \in 1 .. n |-> PackageOf(delivered[i])]
    BY <1>3
  <2>2. got \in Seq(Nat) /\ Len(got) = n
    BY <1>3, <1>4, <2>1
  <2>3. got' = [i \in 1 .. n + 1 |-> PackageOf(delivered'[i])]
    BY <1>3 DEF PackageOf, Body
  <2>4. PackageOf(delivered'[n + 1]) = k
    BY <1>1, <1>3, NumberOf
  <2>5. \A i \in 1 .. n : PackageOf(delivered'[i]) = got[i]
    BY <1>3
  <2>6. got' \in Seq(Nat) /\ Len(got') = n + 1
    BY <1>2, <1>3, <1>4, <2>3, <2>4, <2>5
  <2> HIDE DEF got
  <2>7. /\ Append(got, k) \in Seq(Nat) /\ Len(Append(got, k)) = n + 1
        /\ \A i \in 1 .. n : Append(got, k)[i] = got[i]
        /\ Append(got, k)[n + 1] = k
    BY <1>2, <2>2, AppendProperties
  <2>8. ASSUME NEW i \in 1 .. n + 1 PROVE got'[i] = Append(got, k)[i]
    BY <1>3, <2>3, <2>4, <2>5, <2>7
  <2> QED BY <2>6, <2>7, <2>8, SeqEqual
<1> QED BY <1>2, <1>3, <1>4, <1>5 DEF Stream!Deliver

LEMMA StreamStep ==
  ASSUME PackerIInv, PackerIInv', StreamIInv, StreamIInv', [PackerNext]_packerVars
  PROVE  [Stream!Send \/ Stream!Deliver]_(Stream!streamVars)
<1> USE DEF PackerIInv
<1>1. ASSUME NEW size \in Sizes, Pack(size) PROVE Stream!Send
  BY <1>1, PackSends
<1>2. ASSUME UNCHANGED <<sent, delivered>> PROVE UNCHANGED Stream!streamVars
  BY <1>2 DEF Stream!streamVars, PackageOf, Body
<1>3. ASSUME NEW end, FeedBody(end) \/ FeedHeaderPart(end) \/ FeedHeader(end)
      PROVE  Stream!Deliver \/ UNCHANGED <<sent, delivered>>
  <2>1. PICK i \in DOMAIN sent : Within(i) \/ Ends(i)
    BY <1>3, FeedStep
  <2>2. UNCHANGED sent
    BY <1>3, FeedStep
  <2> QED BY <2>1, <2>2, EndsDelivers DEF Within
<1>4. CASE Disconnect \/ Connect \/ UNCHANGED packerVars
  BY <1>2, <1>4 DEF Disconnect, Connect, packerVars
<1> QED BY <1>1, <1>2, <1>3, <1>4 DEF PackerNext

\* stream_connection keeps the promise of connection.hpp:19: what data_packer
\* delivers are packages that were sent, whole, each once and in their order.
THEOREM PackerImplements ==
  ASSUME "connect" \in ResetAt
  PROVE  PackerSpec => ImplementsStream
<1>1. PackerInit => Stream!Init
  BY StreamInit
<1>2. /\ PackerIInv /\ StreamIInv /\ PackerIInv' /\ StreamIInv'
      /\ [PackerNext]_packerVars
      => [Stream!Send \/ Stream!Deliver]_(Stream!streamVars)
  BY StreamStep
<1>3. PackerSpec => [](PackerIInv /\ StreamIInv)
  BY StreamInductive
<1> QED BY <1>1, <1>2, <1>3, PTL DEF PackerSpec, ImplementsStream, Stream!Spec
=============================================================================
