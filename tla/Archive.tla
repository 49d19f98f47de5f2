------------------------------- MODULE Archive -------------------------------
(***************************************************************************)
(* How a value becomes the body of a package, and a body a value again:    *)
(* the pair of operators >> and << of every type made of others            *)
(* (serialize/), and serialize() and deserialize() of serialize_api.hpp.   *)
(*                                                                         *)
(* A type is a record: its kind, and the types it is made of.  A pointer   *)
(* to a value is the sequence of the one value or of none.  Every value is *)
(* read into a fresh object, as unpack_as does.                            *)
(*                                                                         *)
(* Write and Read are the overloads >> and << as a type finds them for its *)
(* parts.  WriteBy and ReadBy say which overload is chosen; an instance    *)
(* ties the two (Write <- WriteBy), and so do the theorems.  In the same   *)
(* way IsType, IsValue, Broken and Reported follow a type to its leaves.   *)
(***************************************************************************)
EXTENDS LeafTypes

CONSTANTS
  Write(_, _),      \* the bytes of a value of a type
  Read(_, _),       \* what a type reads from an archive
  IsType(_, _),     \* a type, with so many levels of containers at most
  IsValue(_, _),    \* a value that an object of the type can have
  Broken(_, _),     \* a part of the value cannot be read
  Reported(_, _),   \* such a part has no tuple, pair or map around it
  Levels,           \* how many levels of containers there are
  Samples           \* what is serialized: a sequence of types with a value

\* What is serialized is a value of its type, of a size that memory has.
ASSUME ArchiveAssumption ==
  /\ Levels \in Nat
  /\ \A i \in DOMAIN Samples : /\ IsType(Samples[i].type, Levels)
                               /\ IsValue(Samples[i].type, Samples[i].value)

VARIABLE
  sample    \* one of them

archiveVars == <<number, package, payload, sample>>
-----------------------------------------------------------------------------
\* Bugs the properties below are tried against.
ReadFieldAlone(T, ia) ==                  \* the error of a field is not kept
  IF Fundamental(T) THEN ReadFundamental(T, ia)
  ELSE LET size == FromAutoSize(ia.data)
           rest == SubSeq(ia.data, size.cost + 1, Len(ia.data))
           r == Read(T, [data |-> rest, size |-> size.value, error |-> FALSE])
       IN [val |-> r.val,
           ia |-> [ia EXCEPT !.data = SubSeq(rest, size.value + 1, Len(rest))]]

ReadElementFlat(T, ia) ==                 \* the element is not nested
  IF T.kind = "ignore" THEN [val |-> <<>>, ia |-> ia] ELSE Read(T, ia)
-----------------------------------------------------------------------------
\* The containers.

WriteItem(T, v) == IF Fundamental(T) THEN Write(T, v) ELSE Nest(Write(T, v))
WriteItems(T, items) ==
  AutoSize(Len(items))
    \o FlattenSeq([i \in DOMAIN items |-> WriteItem(T, items[i])])

\* The items of a container one after the other, up to the first that has an
\* error: that one is dropped and the container has the error too.
AddItem(acc, ia, r) ==
  IF r.ia.error THEN [items |-> acc.items, ia |-> [ia EXCEPT !.error = TRUE]]
  ELSE [items |-> Append(acc.items, r.val), ia |-> ia]
AddNested(T, acc, nested) == AddItem(acc, nested.ia, Read(T, nested.inner))
AddFundamental(acc, r) == AddItem(acc, r.ia, r)
ReadItem(T, acc) ==
  IF acc.ia.error THEN acc
  ELSE IF Fundamental(T) THEN AddFundamental(acc, ReadFundamental(T, acc.ia))
  ELSE AddNested(T, acc, OpenArchive(acc.ia))
ReadItemsOf(T, size) ==
  LET upTo[i \in 0 .. size.val] ==
        IF i = 0 THEN [items |-> <<>>, ia |-> size.ia]
        ELSE ReadItem(T, upTo[i - 1])
  IN upTo[size.val]
ReadItems(T, ia) == ReadItemsOf(T, ReadAutoSize(ia))

\* std::vector, std::list, std::deque
ListLike(T) == [kind |-> "list", of |-> T]

\* std::stack, std::queue, std::priority_queue: the container inside.
Adaptor(T) == ListLike(T)

\* std::array: the items up to the first error are assigned, the others stay.
\* blank is what its elements are before.
Array(T, n, blank) == [kind |-> "array", of |-> T, n |-> n, blank |-> blank]
ArrayOf(T, items) ==
  [i \in 1 .. T.n |-> IF i \in DOMAIN items THEN items[i] ELSE T.blank]

\* std::forward_list: each item is put in front, and the list reversed at the end.
ForwardList(T) == [kind |-> "forward_list", of |-> T]
ForwardListOf(items) ==
  LET front[i \in 0 .. Len(items)] ==
        IF i = 0 THEN <<>> ELSE <<items[i]>> \o front[i - 1]
  IN Reverse(front[Len(items)])

\* std::set and its kin: written in the order the container has.
SetLike(T) == [kind |-> "set", of |-> T]
WriteSetLike(T, v) == WriteItems(T.of, SetToSeq(v))

\* A container of any of these kinds, from the items read for it.
ReadContainer(T, ia) ==
  LET r == ReadItems(T.of, ia) IN
  [ia |-> r.ia,
   val |-> CASE T.kind = "list" -> r.items
             [] T.kind = "array" -> ArrayOf(T, r.items)
             [] T.kind = "forward_list" -> ForwardListOf(r.items)
             [] T.kind = "set" -> ToSet(r.items)]

\* std::tuple.  An element that is not fundamental has an archive of its own,
\* whose error nobody looks at; std::ignore has no bytes.
Tuple(Ts) == [kind |-> "tuple", of |-> Ts]
Ignore == [kind |-> "ignore"]
WriteElement(T, v) == IF T.kind = "ignore" THEN <<>> ELSE WriteItem(T, v)
ReadElement(T, ia) ==
  IF T.kind = "ignore" THEN [val |-> <<>>, ia |-> ia]
  ELSE IF Fundamental(T) THEN ReadFundamental(T, ia)
  ELSE LET nested == OpenArchive(ia) IN
       [val |-> Read(T, nested.inner).val, ia |-> nested.ia]
WriteTuple(T, v) == FlattenSeq([i \in DOMAIN v |-> WriteElement(T.of[i], v[i])])
ReadTuple(T, ia) ==
  LET upTo[i \in 0 .. Len(T.of)] ==
        IF i = 0 THEN [val |-> <<>>, ia |-> ia]
        ELSE LET acc == upTo[i - 1]
                 r == ReadElement(T.of[i], acc.ia)
             IN [val |-> Append(acc.val, r.val), ia |-> r.ia]
  IN upTo[Len(T.of)]

\* std::pair is a tuple of two, a map a container of pairs.
Pair(K, V) == Tuple(<<K, V>>)
MapLike(K, V) == SetLike(Pair(K, V))

\* std::shared_ptr: a flag, then the value with no archive of its own.
SharedPtr(T) == [kind |-> "ptr", of |-> T]
WriteSharedPtr(T, v) ==
  IF v = <<>> THEN <<0>> ELSE <<1>> \o Write(T.of, v[1])
ReadSharedPtr(T, ia) ==
  LET flag == Take(1, ia)
      r == Read(T.of, flag.ia)
  IN IF flag.val = <<0>> THEN [val |-> <<>>, ia |-> flag.ia]
     ELSE [val |-> <<r.val>>, ia |-> r.ia]

\* std::unique_ptr does the same.
UniquePtr(T) == SharedPtr(T)

\* RPC_CORE_DEFINE_TYPE: one field after the other (operator&), up to the first
\* that has an error; the others keep their blank.  The size of the archive does
\* not count the nested fields.
Struct(Ts, blanks) == [kind |-> "struct", of |-> Ts, blank |-> blanks]
ReadField(T, ia) ==
  IF Fundamental(T) THEN ReadFundamental(T, ia)
  ELSE LET size == FromAutoSize(ia.data)
           rest == SubSeq(ia.data, size.cost + 1, Len(ia.data))
           r == Read(T, [data |-> rest, size |-> size.value, error |-> FALSE])
       IN [val |-> r.val,
           ia |-> [ia EXCEPT !.data = SubSeq(rest, size.value + 1, Len(rest)),
                             !.error = r.ia.error]]
WriteStruct(T, v) == FlattenSeq([i \in DOMAIN v |-> WriteItem(T.of[i], v[i])])
ReadStruct(T, ia) ==
  LET upTo[i \in 0 .. Len(T.of)] ==
        IF i = 0 THEN [val |-> <<>>, ia |-> ia]
        ELSE LET acc == upTo[i - 1]
                 r == ReadField(T.of[i], acc.ia)
             IN IF acc.ia.error
                THEN [acc EXCEPT !.val = Append(@, T.blank[i])]
                ELSE [val |-> Append(acc.val, r.val), ia |-> r.ia]
  IN upTo[Len(T.of)]

\* std::complex: real and imag, by operator& unless they are fundamental.
Complex(T, blank) == Struct(<<T, T>>, <<blank, blank>>)
-----------------------------------------------------------------------------
\* operator>> and operator<< by type.
WriteBy(T, v) ==
  LET kind == T.kind IN
  CASE Leaf(T) -> WriteLeaf(T, v)
    [] kind \in {"list", "array", "forward_list"} -> WriteItems(T.of, v)
    [] kind = "set" -> WriteSetLike(T, v)
    [] kind = "tuple" -> WriteTuple(T, v)
    [] kind = "struct" -> WriteStruct(T, v)
    [] kind = "ptr" -> WriteSharedPtr(T, v)

ReadBy(T, ia) ==
  LET kind == T.kind IN
  CASE Leaf(T) -> ReadLeaf(T, ia)
    [] kind \in {"list", "array", "forward_list", "set"} ->
         ReadContainer(T, ia)
    [] kind = "tuple" -> ReadTuple(T, ia)
    [] kind = "struct" -> ReadStruct(T, ia)
    [] kind = "ptr" -> ReadSharedPtr(T, ia)

\* deserialize(), which returns whether there was no error, and what was read.
\* What lies in memory after the data, here 255, is within reach of the archive.
DeserializeAs(T, data) ==
  LET r == Read(T, [data |-> data \o <<255>>, size |-> Len(data),
                    error |-> FALSE])
  IN [ok |-> ~r.ia.error, value |-> r.val]
-----------------------------------------------------------------------------
\* A state is one input of Codec or one sample.
ArchiveInit ==
  \/ CodecInit /\ sample = [type |-> Void, value |-> <<>>]
  \/ /\ number = 0 /\ package = OnePackage /\ payload = <<>>
     /\ \E i \in DOMAIN Samples : sample = Samples[i]

ArchiveSpec == ArchiveInit /\ [][UNCHANGED archiveVars]_archiveVars

\* What the peer wrote, and what comes of it here.
Type == sample.type
Value == sample.value
Received == DeserializeAs(Type, Write(Type, Value))

\* The sequences and sets whose items have lengths that can be written.
IsSeq(v) == Len(v) \in Nat /\ v = [i \in 1 .. Len(v) |-> v[i]]
IsItem(T, v) ==
  IsValue(T, v) /\ (~Fundamental(T) => FitsIn(Len(Write(T, v)), 8))
IsItems(T, items) ==
  /\ IsSeq(items) /\ FitsIn(Len(items), 8)
  /\ \A i \in DOMAIN items : IsItem(T, items[i])
IsValues(Ts, v) ==
  /\ IsSeq(Ts) /\ IsSeq(v) /\ Len(v) = Len(Ts)
  /\ \A i \in DOMAIN Ts : Ts[i].kind # "ignore" => IsItem(Ts[i], v[i])

\* A type that has operators >> and <<: its parts have them too.
IsTypeBy(T, levels) ==
  LET kind == T.kind IN
  CASE Leaf(T) -> TRUE
    [] kind \in {"list", "array", "forward_list", "set", "ptr"} ->
         levels > 0 /\ IsType(T.of, levels - 1)
    [] kind \in {"tuple", "struct"} ->
         /\ levels > 0
         /\ \A i \in DOMAIN T.of :
              T.of[i].kind # "ignore" => IsType(T.of[i], levels - 1)
    [] OTHER -> FALSE

IsValueBy(T, v) ==
  LET kind == T.kind IN
  CASE Leaf(T) -> IsLeafValue(T, v)
    [] kind \in {"list", "forward_list"} -> IsItems(T.of, v)
    [] kind = "array" -> IsItems(T.of, v) /\ Len(v) = T.n
    [] kind = "set" -> IsFiniteSet(v) /\ IsItems(T.of, SetToSeq(v))
    [] kind = "tuple" ->
         /\ IsValues(T.of, v)
         /\ \A i \in DOMAIN v : T.of[i].kind = "ignore" => v[i] = <<>>
    [] kind = "struct" ->
         IsValues(T.of, v) /\ \A i \in DOMAIN v : T.of[i].kind # "ignore"
    [] kind = "ptr" -> v = <<>> \/ (v = <<v[1]>> /\ IsValue(T.of, v[1]))

\* A part of the value that cannot be read.
BrokenBy(T, v) ==
  LET kind == T.kind IN
  CASE Leaf(T) -> BrokenLeaf(T, v)
    [] kind \in {"list", "array", "forward_list", "ptr"} ->
         \E i \in DOMAIN v : Broken(T.of, v[i])
    [] kind = "set" -> \E item \in v : Broken(T.of, item)
    [] kind \in {"tuple", "struct"} ->
         \E i \in DOMAIN v : T.of[i].kind # "ignore" /\ Broken(T.of[i], v[i])

\* A part that cannot be read and has no tuple, pair or map around it.
ReportedBy(T, v) ==
  LET kind == T.kind IN
  CASE Leaf(T) -> BrokenLeaf(T, v)
    [] kind \in {"list", "array", "forward_list", "ptr"} ->
         \E i \in DOMAIN v : Reported(T.of, v[i])
    [] kind = "set" -> \E item \in v : Reported(T.of, item)
    [] kind = "struct" -> \E i \in DOMAIN v : Reported(T.of[i], v[i])
    [] kind = "tuple" -> FALSE

\* Hazard: a value that eats into its neighbour, or stops short of it.  However
\* types are nested in one another, what is written is read back.
RoundTrip ==
  ~Broken(Type, Value) =>
    Received = [ok |-> TRUE, value |-> Value]

\* Hazard: a body that is not what the type says taken for a value.  deserialize
\* returns false when some part cannot be read, unless a tuple, pair or map is
\* around that part: then the body is taken, with nothing in that place.
ErrorsReported ==
  Received.ok = ~Reported(Type, Value)

\* Hazard: reading that goes on out of step after an error.  In a tuple the
\* elements before and after one that cannot be read are read as written.
ErrorStaysInside ==
  Type.kind = "tuple" =>
    \A i \in DOMAIN Value :
      (Type.of[i].kind # "ignore" => ~Broken(Type.of[i], Value[i]))
        => Received.value[i] = Value[i]
=============================================================================
