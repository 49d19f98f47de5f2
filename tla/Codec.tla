------------------------------- MODULE Codec -------------------------------
(***************************************************************************)
(* What a package is on the wire: coder (detail/coder.hpp), the variable   *)
(* length numbers of the build option RPC_CORE_FEATURE_CODER_VARINT        *)
(* (detail/varint.hpp) and the sizes written inside bodies by the          *)
(* serialization (serialize/detail/auto_size.hpp).                         *)
(*                                                                         *)
(* A byte is a number from 0 to 255, a string a sequence of bytes.  The    *)
(* module has no behaviour of its own: a state is one input.               *)
(***************************************************************************)
EXTENDS Integers, Sequences, SequencesExt

CONSTANTS
  Numbers,   \* numbers to encode as a varint and as an auto_size
  SeqNos,    \* numbers of the packages to encode
  Texts,     \* commands, and bodies, of the packages to encode
  Types,     \* type bytes (msg_type flags)
  Payloads,  \* what may arrive as a package
  Overlong(_)  \* what a varint of more than ten bytes is read as: its shifts by
               \* 64 bits and more are undefined behaviour

VARIABLES number, package, payload

codecVars == <<number, package, payload>>

Byte == 0 .. 255

\* n shifted right by 0, 8, ... 64 bits.
Shifts(n) ==
  LET n1 == n \div 256    n2 == n1 \div 256   n3 == n2 \div 256
      n4 == n3 \div 256   n5 == n4 \div 256   n6 == n5 \div 256
      n7 == n6 \div 256   n8 == n7 \div 256
  IN <<n, n1, n2, n3, n4, n5, n6, n7, n8>>

\* n is the value of an unsigned integer of that many bytes.
FitsIn(n, width) == n \in Nat /\ Shifts(n)[width + 1] = 0

\* The bytes of an integer as they lie in memory, least first.
Register(n) == [i \in 1 .. 8 |-> Shifts(n)[i] % 256]
LittleEndian(n, width) == SubSeq(Register(n), 1, width)

\* The integer in whose memory, all zeros, the bytes b (eight at most) are put.
FromLittleEndian(b) ==
  LET byte(i) == IF i <= Len(b) THEN b[i] ELSE 0
  IN byte(1) + 256 * (byte(2) + 256 * (byte(3) + 256 * (byte(4) + 256 *
     (byte(5) + 256 * (byte(6) + 256 * (byte(7) + 256 * byte(8)))))))

\* What is left of n in 16 bits.
UInt16(n) == n % 65536

ASSUME CodecAssumption ==
  /\ \A n \in Numbers : n \in Int /\ FitsIn(IF n < 0 THEN -n ELSE n, 8)
  /\ 0 \in Numbers
  /\ \A n \in SeqNos : FitsIn(n, 4)
  /\ 0 \in SeqNos
  /\ Texts \subseteq Seq(Byte) /\ <<>> \in Texts
  /\ Types \subseteq Byte /\ Types # {}
  /\ Payloads \subseteq Seq(Byte)
-----------------------------------------------------------------------------
\* Bugs the properties below are tried against.
DeserializeAny(p) ==                      \* the command may take the whole rest
  LET cmdLen == FromLittleEndian(SubSeq(p, 5, 6)) IN
  IF Len(p) < 7 \/ Len(p) < 6 + cmdLen THEN [ok |-> FALSE]
  ELSE [ok |-> TRUE,
        msg |-> [seq |-> FromLittleEndian(SubSeq(p, 1, 4)),
                 cmd |-> SubSeq(p, 7, 6 + cmdLen),
                 type |-> IF 7 + cmdLen <= Len(p) THEN p[7 + cmdLen] ELSE 0,
                 data |-> SubSeq(p, 8 + cmdLen, Len(p))]]

EffectiveBytesShort(n) ==                 \* ends at the first zero byte
  CHOOSE k \in 0 .. 8 :
    /\ k < 8 => Register(n)[k + 1] = 0
    /\ \A i \in 1 .. k : Register(n)[i] # 0

VarintGroupLow(n) == n % 128              \* the continuation bit is not set
-----------------------------------------------------------------------------
\* coder::serialize.  The length of the command is cut to 16 bits, and the
\* command to that length.
Serialize(m) ==
  LET cmdLen == UInt16(Len(m.cmd)) IN
  LittleEndian(m.seq, 4) \o LittleEndian(cmdLen, 2)
    \o SubSeq(m.cmd, 1, cmdLen) \o <<m.type>> \o m.data

\* coder::deserialize
Deserialize(p) ==
  LET cmdLen == FromLittleEndian(SubSeq(p, 5, 6)) IN
  IF Len(p) < 7 \/ Len(p) < 6 + cmdLen + 1 THEN [ok |-> FALSE]
  ELSE [ok |-> TRUE,
        msg |-> [seq |-> FromLittleEndian(SubSeq(p, 1, 4)),
                 cmd |-> SubSeq(p, 7, 6 + cmdLen),
                 type |-> p[7 + cmdLen],
                 data |-> SubSeq(p, 8 + cmdLen, Len(p))]]

\* One byte of varint_encode that others follow: (n & 0xFF) | MSB.
VarintGroup(n) == (n % 128) + 128

\* varint_encode of the value of a uint32_t.  MSB_ALL is the one bit 0x80: the loop
\* ends where that bit is clear, whatever the bits above it are.
VarintEncode(n) ==
  LET n1 == n \div 128   n2 == n1 \div 128
      n3 == n2 \div 128  n4 == n3 \div 128
      groups == <<n, n1, n2, n3, n4>>
      last == SelectInSeq(groups, LAMBDA group : (group \div 128) % 2 = 0)
  IN [i \in 1 .. last |->
        IF i < last THEN VarintGroup(groups[i]) ELSE groups[i] % 256]

\* from_varint of what lies in memory, and the uint8_t that counts the bytes taken.
\* Of the fifth group four bits are left in a uint32_t, of later ones none.
VarintDecode(b) ==
  LET last == SelectInSeq(b, LAMBDA byte : byte < 128)
      group(i) == IF i <= last THEN b[i] % 128 ELSE 0
  IN [value |-> IF last > 10 THEN Overlong(SubSeq(b, 1, last))
                ELSE group(1) + 128 * (group(2) + 128 * (group(3) + 128 *
                       (group(4) + 128 * (group(5) % 16)))),
      bytes |-> last % 256]

\* coder::serialize of coder_varint.hpp: the number and the length of the command
\* are varints.
SerializeVarint(m) ==
  VarintEncode(m.seq) \o VarintEncode(Len(m.cmd)) \o m.cmd \o <<m.type>> \o m.data

\* A std::string in memory ends with a zero byte.
Memory(p) == p \o <<0>>

\* coder::deserialize of coder_varint.hpp.  The varints are not checked against the
\* end of the package: they are read from memory, up to the zero byte if need be.
\* After one that took the zero byte too, len reads nothing here and whatever there
\* is in the code; the package is refused either way.
DeserializeVarint(p) ==
  LET seq == VarintDecode(Memory(p))
      len == VarintDecode(SubSeq(Memory(p), seq.bytes + 1, Len(p) + 1))
      cmdLen == UInt16(len.value)
      start == seq.bytes + len.bytes
      rest == SubSeq(p, start + 1, Len(p))
  IN IF Len(p) < start + cmdLen + 1 THEN [ok |-> FALSE]
     ELSE [ok |-> TRUE,
           msg |-> [seq |-> seq.value,
                    cmd |-> SubSeq(rest, 1, cmdLen),
                    type |-> rest[cmdLen + 1],
                    data |-> SubSeq(rest, cmdLen + 2, Len(rest))]]

\* How many bytes auto_size writes of n: up to the highest that is not zero.
EffectiveBytes(n) ==
  CHOOSE k \in 0 .. 8 :
    /\ k > 0 => Register(n)[k] # 0
    /\ \A i \in k + 1 .. 8 : Register(n)[i] = 0

\* auto_size_type::serialize and deserialize; a negative number has the high bit
\* of the first byte set.
AutoSize(n) ==
  LET size == IF n < 0 THEN -n ELSE n
      width == EffectiveBytes(size)
  IN <<IF n < 0 THEN width + 128 ELSE width>> \o LittleEndian(size, width)

FromAutoSize(b) ==
  LET size == FromLittleEndian(SubSeq(b, 2, 1 + (b[1] % 128)))
  IN [value |-> IF b[1] >= 128 THEN -size ELSE size, cost |-> 1 + (b[1] % 128)]
-----------------------------------------------------------------------------
Packages == [seq : SeqNos, cmd : Texts, type : Types, data : Texts]
OnePackage == CHOOSE m \in Packages : m.seq = 0 /\ m.cmd = <<>> /\ m.data = <<>>

CodecInit ==
  \/ number \in Numbers /\ package = OnePackage /\ payload = <<>>
  \/ number = 0 /\ package \in Packages /\ payload = <<>>
  \/ number = 0 /\ package = OnePackage /\ payload \in Payloads

CodecSpec == CodecInit /\ [][UNCHANGED codecVars]_codecVars

\* Hazard: fields that run into each other.  A package whose command is not cut is
\* read back as it was written, and whatever is accepted as a package is what one is
\* written as.
CoderExact ==
  /\ UInt16(Len(package.cmd)) = Len(package.cmd) =>
       Deserialize(Serialize(package)) = [ok |-> TRUE, msg |-> package]
  /\ LET read == Deserialize(payload) IN
       read.ok => Serialize(read.msg) = payload

\* Hazard: a size at a power of 256, or negative.  A size is read back as it was
\* written, whatever follows it, and no shorter form would do.
AutoSizeExact ==
  LET b == AutoSize(number) IN
  /\ FromAutoSize(b \o <<255>>) = [value |-> number, cost |-> Len(b)]
  /\ Len(b) > 1 => b[Len(b)] # 0

\* Hazard: two ends built with the varint coder that do not understand each other
\* from the start, or take what is left of a package cut short for one.  As long as
\* numbers fit a byte a package is read back as it was written, and what ends before
\* its type byte is refused although the varints are read past its end.
VarintCoderExact ==
  package.seq \in Byte /\ Len(package.cmd) \in Byte =>
    LET p == SerializeVarint(package) IN
    /\ DeserializeVarint(p) = [ok |-> TRUE, msg |-> package]
    /\ \A k \in 0 .. Len(p) - Len(package.data) - 1 :
         ~DeserializeVarint(SubSeq(p, 1, k)).ok

\* With the varint coder the answer to every call finds its handler: the number
\* of the n-th call is read back as it was written.
VarintRoundTrip ==
  number >= 0 => VarintDecode(VarintEncode(number)).value = number
=============================================================================
