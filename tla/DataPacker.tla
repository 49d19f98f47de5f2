----------------------------- MODULE DataPacker -----------------------------
(***************************************************************************)
(* Packages over a stream of bytes: data_packer::pack on the sending side, *)
(* data_packer::feed, feed_body and reset on the receiving side            *)
(* (detail/data_packer.hpp), under stream_connection (connection.hpp).     *)
(*                                                                         *)
(* A byte is named by its place in the stream of all bytes ever packed, so *)
(* a byte taken for another one shows.  A package takes a header of 4      *)
(* bytes and its body.  The bytes arrive in order, cut into chunks         *)
(* anywhere; a lost connection loses the bytes that have not arrived.      *)
(* A call of feed is one step, the recursive call for the rest of a chunk  *)
(* another: between the two the user's on_data runs, and may notice that   *)
(* the connection is lost.                                                 *)
(***************************************************************************)
EXTENDS Integers, Sequences

CONSTANTS
  Sizes,        \* the sizes of the packages sent (coder makes none empty)
  MaxBodySize,  \* max_body_size_ of the receiving side
  Garbage,      \* the sizes read when four bytes are not one header
  ResetAt,      \* when the user calls reset(): at "connect", "disconnect"
  MaxSent       \* bound: packages sent

ASSUME PackerAssumption ==
  /\ Sizes \subseteq 1 .. MaxBodySize
  /\ MaxBodySize \in Nat /\ MaxSent \in Nat
  /\ Garbage \subseteq Nat /\ Garbage # {}
  /\ ResetAt \subseteq {"connect", "disconnect"}

VARIABLES
  sent,       \* the packages packed: the place of the header, and the size
  tail,       \* the place after the last byte packed
  connected,  \* FALSE between a lost connection and the next
  pos,        \* the place of the next byte to be fed
  chunkEnd,   \* the place after the last byte that has arrived
  buffer,     \* buffer_, a sequence of places
  headerLen,  \* header_len_now_
  bodySize,   \* body_size_
  delivered,  \* history: the bodies given to on_data
  since       \* history: the packages sent before the present connection

packerVars == <<sent, tail, connected, pos, chunkEnd, buffer, headerLen,
                bodySize, delivered, since>>

HeaderLen == 4

\* The n bytes from place a on.
Bytes(a, n) == [k \in 1 .. n |-> a + k - 1]

Body(m) == Bytes(m.start + HeaderLen, m.size)

PackerInit ==
  /\ sent = <<>> /\ tail = 0
  /\ connected = TRUE
  /\ pos = 0 /\ chunkEnd = 0
  /\ buffer = <<>> /\ headerLen = 0 /\ bodySize = 0
  /\ delivered = <<>> /\ since = 0
-----------------------------------------------------------------------------
\* Bugs the properties below are tried against.
ResetHeaderKept ==                        \* header_len_now_ is not reset
  buffer' = <<>> /\ bodySize' = 0 /\ UNCHANGED headerLen

FillBodyLate(b, size, from, end) ==       \* <= in the place of <
  IF Len(b) + (end - from) <= size
  THEN /\ buffer' = b \o Bytes(from, end - from)
       /\ bodySize' = size
       /\ pos' = end
       /\ UNCHANGED <<headerLen, delivered>>
  ELSE /\ delivered' = Append(delivered, b \o Bytes(from, size - Len(b)))
       /\ pos' = from + size - Len(b)
       /\ buffer' = <<>> /\ headerLen' = 0 /\ bodySize' = 0

ResetsNever(when) == FALSE                \* reset() is not called
-----------------------------------------------------------------------------
\* reset()
Reset == buffer' = <<>> /\ headerLen' = 0 /\ bodySize' = 0

\* pack, and send_bytes_impl of its result.
Pack(size) ==
  /\ connected /\ Len(sent) < MaxSent
  /\ sent' = Append(sent, [start |-> tail, size |-> size])
  /\ tail' = tail + HeaderLen + size
  /\ UNCHANGED <<connected, pos, chunkEnd, buffer, headerLen, bodySize,
                 delivered, since>>

\* The bytes given to feed end before place "end": a chunk that arrives now, or
\* the rest of the one before (the recursive call).
Chunk(end) ==
  \/ pos < chunkEnd /\ end = chunkEnd
  \/ connected /\ pos = chunkEnd /\ end \in chunkEnd + 1 .. tail

\* feed_body of the bytes from place "from" on, with b in the buffer.
FillBody(b, size, from, end) ==
  IF Len(b) + (end - from) < size
  THEN /\ buffer' = b \o Bytes(from, end - from)
       /\ bodySize' = size
       /\ pos' = end
       /\ UNCHANGED <<headerLen, delivered>>
  ELSE /\ delivered' = Append(delivered, b \o Bytes(from, size - Len(b)))
       /\ pos' = from + size - Len(b)
       /\ Reset

\* feed while a body is awaited.
FeedBody(end) ==
  /\ Chunk(end) /\ bodySize # 0
  /\ FillBody(buffer, bodySize, pos, end)
  /\ chunkEnd' = end
  /\ UNCHANGED <<sent, tail, connected, since>>

\* feed with too few bytes to make the header whole.
FeedHeaderPart(end) ==
  /\ Chunk(end) /\ bodySize = 0
  /\ headerLen + (end - pos) < HeaderLen
  /\ buffer' = buffer \o Bytes(pos, end - pos)
  /\ headerLen' = headerLen + (end - pos)
  /\ pos' = end /\ chunkEnd' = end
  /\ UNCHANGED <<sent, tail, connected, bodySize, delivered, since>>

\* The size read from b: that of a package if b is its header, else any.
SizesRead(b) ==
  LET sizes == {sent[i].size : i \in {j \in DOMAIN sent :
                                        b = Bytes(sent[j].start, HeaderLen)}}
  IN IF sizes = {} THEN Garbage ELSE sizes

\* feed with the rest of the header.  A size above the limit drops the chunk;
\* header_len_now_ is left as it is until the body is whole.
FeedHeader(end) ==
  LET need == HeaderLen - headerLen IN
  /\ Chunk(end) /\ bodySize = 0 /\ pos + need <= end
  /\ \E size \in SizesRead(buffer \o Bytes(pos, need)) :
       IF size > MaxBodySize
       THEN Reset /\ pos' = end /\ UNCHANGED delivered
       ELSE IF pos + need < end THEN FillBody(<<>>, size, pos + need, end)
       ELSE /\ buffer' = <<>> /\ bodySize' = size /\ pos' = end
            /\ UNCHANGED <<headerLen, delivered>>
  /\ chunkEnd' = end
  /\ UNCHANGED <<sent, tail, connected, since>>

\* "should call on connected or disconnected": whether the user does.
Resets(when) == when \in ResetAt

\* The connection is lost; the rest of a chunk is still fed.
Disconnect ==
  /\ connected
  /\ connected' = FALSE
  /\ IF Resets("disconnect") THEN Reset
     ELSE UNCHANGED <<buffer, headerLen, bodySize>>
  /\ UNCHANGED <<sent, tail, pos, chunkEnd, delivered, since>>

\* The next connection starts with nothing under way.
Connect ==
  /\ ~connected /\ pos = chunkEnd
  /\ connected' = TRUE
  /\ pos' = tail /\ chunkEnd' = tail
  /\ since' = Len(sent)
  /\ IF Resets("connect") THEN Reset
     ELSE UNCHANGED <<buffer, headerLen, bodySize>>
  /\ UNCHANGED <<sent, tail, delivered>>

PackerNext ==
  \/ \E size \in Sizes : Pack(size)
  \/ \E end \in 1 .. tail : FeedBody(end) \/ FeedHeaderPart(end) \/ FeedHeader(end)
  \/ Disconnect
  \/ Connect

PackerSpec == PackerInit /\ [][PackerNext]_packerVars
-----------------------------------------------------------------------------
(***************************************************************************)
(* Properties                                                              *)
(***************************************************************************)
\* Every variable keeps its type, and the receiver keeps no more than one body.
PackerTypeOK ==
  /\ sent \in Seq([start : Nat, size : Sizes])
  /\ tail \in Nat /\ pos \in 0 .. chunkEnd /\ chunkEnd \in 0 .. tail
  /\ connected \in BOOLEAN
  /\ buffer \in Seq(Nat) /\ headerLen \in 0 .. HeaderLen - 1
  /\ bodySize \in 0 .. MaxBodySize
  /\ bodySize # 0 => Len(buffer) < bodySize
  /\ bodySize = 0 => Len(buffer) = headerLen
  /\ delivered \in Seq(Seq(Nat))
  /\ since \in 0 .. Len(sent)

\* Hazard: a package cut in the wrong place, after a header split over chunks, a
\* large chunk, or a reconnection.  Every body given to on_data is the whole
\* body of a package that was sent.
Intact ==
  \A i \in DOMAIN delivered : \E m \in DOMAIN sent :
    delivered[i] = Body(sent[m])

\* The number of the package whose body b is, or 0.
PackageOf(b) ==
  IF \E m \in DOMAIN sent : b = Body(sent[m])
  THEN CHOOSE m \in DOMAIN sent : b = Body(sent[m])
  ELSE 0

\* Hazard: a package delivered twice or after a later one, or something that is
\* none.  The packer keeps the promise of a connection, stated by PackageStream.
Stream == INSTANCE PackageStream WITH
  count <- Len(sent), got <- [i \in DOMAIN delivered |-> PackageOf(delivered[i])]
ImplementsStream == Stream!Spec

\* Hazard: a package that has arrived but stays in the buffer.  When every byte
\* has been fed, every package of the present connection has been delivered.
NothingHeldBack ==
  connected /\ pos = tail =>
    \A m \in since + 1 .. Len(sent) : \E i \in DOMAIN delivered :
      delivered[i] = Body(sent[m])
-----------------------------------------------------------------------------
(***************************************************************************)
(* What makes the properties above inductive                               *)
(***************************************************************************)
\* A package ends where the next one, or nothing yet, starts.
Layout ==
  \A i \in DOMAIN sent :
    sent[i].start + HeaderLen + sent[i].size =
      IF i = Len(sent) THEN tail ELSE sent[i + 1].start

\* A place where a package starts, or will.
Boundary(place) ==
  place = tail \/ \E i \in DOMAIN sent : sent[i].start = place

\* The buffer holds the last bytes fed, and these belong to one package.
Aligned ==
  /\ buffer = Bytes(pos - Len(buffer), Len(buffer)) /\ Len(buffer) <= pos
  /\ IF bodySize = 0 THEN Boundary(pos - Len(buffer))
     ELSE \E i \in DOMAIN sent :
            /\ sent[i].start + HeaderLen = pos - Len(buffer)
            /\ sent[i].size = bodySize

\* Between two connections, with no bytes left, a reset may have cut a package.
PackerIInv ==
  /\ PackerTypeOK /\ Layout /\ Intact
  /\ Aligned \/ (~connected /\ pos = chunkEnd)
  /\ pos < chunkEnd => buffer = <<>> /\ bodySize = 0

\* The place after the last byte of a package.
EndOf(m) == m.start + HeaderLen + m.size

\* Packages do not overlap.
Spaced ==
  \A i \in DOMAIN sent :
    /\ EndOf(sent[i]) <= tail
    /\ \A j \in DOMAIN sent : i < j => EndOf(sent[i]) <= sent[j].start

\* What has been delivered has been fed to its end, and in order.
Passed ==
  \A i \in DOMAIN delivered : \E m \in DOMAIN sent :
    delivered[i] = Body(sent[m]) /\ EndOf(sent[m]) <= pos
InOrder ==
  \A i, j \in DOMAIN delivered, m, n \in DOMAIN sent :
    i < j /\ delivered[i] = Body(sent[m]) /\ delivered[j] = Body(sent[n]) => m < n

\* What has been fed to its end on the present connection has been delivered.
CaughtUp ==
  connected =>
    \A m \in since + 1 .. Len(sent) :
      EndOf(sent[m]) <= pos => \E i \in DOMAIN delivered : delivered[i] = Body(sent[m])

StreamIInv == Spaced /\ Passed /\ InOrder /\ CaughtUp
=============================================================================
