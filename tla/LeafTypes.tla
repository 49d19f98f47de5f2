----------------------------- MODULE LeafTypes -----------------------------
(***************************************************************************)
(* The two archives of serialize_type.hpp, and the operators >> and << of  *)
(* the types that are made of no others (serialize/ and plugin/).          *)
(*                                                                         *)
(* A type is a record: its kind, and what there is to know of it.  A value *)
(* that is copied as it lies in memory (a bool, a short, a float) is the   *)
(* sequence of its bytes, a string the sequence of its characters.         *)
(***************************************************************************)
EXTENDS Codec

\* A text that the JSON parser, or the verifier of flatbuffers, accepts: in the
\* model one that is not empty and has no zero byte.
Accepted(text) == text # <<>> /\ \A i \in DOMAIN text : text[i] # 0

-----------------------------------------------------------------------------
\* An input archive points to its next byte; nothing but its size keeps it from the
\* bytes after its end.

\* ia.data += n; ia.size -= n
Skip(n, ia) ==
  [data |-> SubSeq(ia.data, n + 1, Len(ia.data)), size |-> ia.size - n,
   error |-> ia.error]

\* A bug the properties of Archive are tried against.
OpenArchiveShort(ia) ==                   \* the size is not stepped over
  LET size == FromAutoSize(ia.data) IN
  [inner |-> [data |-> Skip(size.cost, ia).data, size |-> size.value,
              error |-> FALSE],
   ia |-> [Skip(size.value, ia) EXCEPT !.size = @ - size.cost]]

\* operator>> of an archive into another
Nest(data) == AutoSize(Len(data)) \o data

\* operator<< of an archive: the inner one is cut out of the outer one.
OpenArchive(ia) ==
  LET size == FromAutoSize(ia.data)
      rest == Skip(size.cost, ia)
  IN [inner |-> [data |-> rest.data, size |-> size.value, error |-> FALSE],
      ia |-> Skip(size.value, rest)]

\* operator<< of an auto_size
ReadAutoSize(ia) ==
  LET size == FromAutoSize(ia.data) IN
  [val |-> size.value, ia |-> Skip(size.cost, ia)]

\* The next n bytes, copied.
Take(n, ia) ==
  [val |-> SubSeq(ia.data, 1, n), ia |-> Skip(n, ia)]
-----------------------------------------------------------------------------
\* The leaves.

\* RPC_CORE_DETAIL_DEFINE_RAW_TYPE: bool, char, short, float, double.
Raw(size) == [kind |-> "raw", size |-> size]

\* RPC_CORE_DETAIL_DEFINE_RAW_TYPE_AUTO_SIZE: int, long and long long.
Number == [kind |-> "int"]

\* A value of one of these types is put into its container as it is, any other in
\* an archive of its own (std::is_fundamental).
Fundamental(T) == T.kind \in {"raw", "int"}
ReadFundamental(T, ia) ==
  IF T.kind = "raw" THEN Take(T.size, ia) ELSE ReadAutoSize(ia)

\* Written as a number, but not fundamental: an enum, a bare pointer, and the
\* count of a duration or of the time since the epoch.
Enum == [kind |-> "enum"]
Pointer == [kind |-> "pointer"]
Duration == [kind |-> "duration"]

\* A type void has no bytes.
Void == [kind |-> "void"]

\* std::basic_string.  It is written with no length and reads all there is, and
\* the archive stays where it is.
String(charSize) == [kind |-> "string", charSize |-> charSize]
WriteString(T, v) ==
  [i \in 1 .. T.charSize * Len(v) |->
     v[((i - 1) \div T.charSize) + 1][((i - 1) % T.charSize) + 1]]
ReadString(T, ia) ==
  [val |-> [i \in 1 .. ia.size \div T.charSize |->
              SubSeq(ia.data, (i - 1) * T.charSize + 1, i * T.charSize)],
   ia |-> ia]

\* std::bitset: its digits as a string, '0' and '1'.
Bitset == [kind |-> "bitset"]
WriteBitset(v) == [i \in DOMAIN v |-> IF v[i] THEN 49 ELSE 48]
ReadBitset(ia) ==
  LET digits == ReadString(String(1), ia).val IN
  [val |-> [i \in DOMAIN digits |-> digits[i] = <<49>>], ia |-> ia]

\* binary_wrap
Binary == [kind |-> "binary"]
WriteBinary(v) == AutoSize(Len(v)) \o v
ReadBinary(ia) == LET size == ReadAutoSize(ia) IN Take(size.val, size.ia)

\* plugin/json.hpp.  What the parser does not accept leaves the value as it is,
\* null, and sets error.
Json == [kind |-> "json"]
JsonNull == <<110>>
ReadJson(ia) ==
  LET text == SubSeq(ia.data, 1, ia.size) IN
  IF Accepted(text) THEN [val |-> text, ia |-> ia]
  ELSE [val |-> JsonNull, ia |-> [ia EXCEPT !.error = TRUE]]

\* plugin/json_msg.hpp and plugin/flatbuffers.hpp keep the same rules.
JsonMsg == Json
Flatbuffer == Json
-----------------------------------------------------------------------------
(***************************************************************************)
(* operator>> and operator<< of the leaves                                 *)
(***************************************************************************)
Leaf(T) == T.kind \in {"raw", "int", "enum", "pointer", "duration", "void",
                       "string", "bitset", "binary", "json"}

WriteLeaf(T, v) ==
  CASE T.kind \in {"raw", "json"} -> v
    [] T.kind \in {"int", "enum", "pointer", "duration"} -> AutoSize(v)
    [] T.kind = "void" -> <<>>
    [] T.kind = "string" -> WriteString(T, v)
    [] T.kind = "bitset" -> WriteBitset(v)
    [] T.kind = "binary" -> WriteBinary(v)

ReadLeaf(T, ia) ==
  CASE Fundamental(T) -> ReadFundamental(T, ia)
    [] T.kind \in {"enum", "pointer", "duration"} -> ReadAutoSize(ia)
    [] T.kind = "void" -> [val |-> <<>>, ia |-> ia]
    [] T.kind = "string" -> ReadString(T, ia)
    [] T.kind = "bitset" -> ReadBitset(ia)
    [] T.kind = "binary" -> ReadBinary(ia)
    [] T.kind = "json" -> ReadJson(ia)

\* v is a value of the leaf type T, and one that cannot be read.
IsLeafValue(T, v) ==
  \/ T.kind = "raw" /\ v \in Seq(Byte) /\ T.size = Len(v)
  \/ /\ T.kind \in {"int", "enum", "pointer", "duration"}
     /\ v \in Int /\ FitsIn(IF v < 0 THEN -v ELSE v, 8)
  \/ T.kind = "void" /\ v = <<>>
  \/ /\ T.kind = "string" /\ T.charSize \in {1, 2, 4}
     /\ v \in Seq([1 .. T.charSize -> Byte])
  \/ T.kind = "bitset" /\ v \in Seq(BOOLEAN)
  \/ T.kind = "binary" /\ v \in Seq(Byte) /\ FitsIn(Len(v), 8)
  \/ T.kind = "json" /\ v \in Seq(Byte)

BrokenLeaf(T, v) == T.kind = "json" /\ ~Accepted(v)
=============================================================================
