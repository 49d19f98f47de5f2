------------------------------ MODULE MC_Archive ------------------------------
(* Samples for Archive: one or two values of every type, and each of them in  *)
(* every kind of container, twice over.                                       *)
EXTENDS MC_Codec, Archive

S(T, v) == [type |-> T, value |-> v]

\* The leaves: the shortest value, and one that a neighbour could be taken for.
Leaves == <<
  S(Raw(1), <<0>>), S(Raw(2), <<1, 255>>), S(Raw(16), [i \in 1 .. 16 |-> i]),
  S(Number, 0), S(Number, -1), S(Number, 300),
  S(Enum, 1), S(Pointer, 65536), S(Duration, -256),
  S(String(1), <<>>), S(String(1), <<<<2>>, <<0>>, <<1>>>>),
  S(String(4), <<<<1, 0, 0, 0>>, <<2, 1, 0, 0>>>>),
  S(Bitset, <<TRUE, FALSE, TRUE>>), S(Binary, <<>>), S(Binary, <<1, 0>>),
  S(Void, <<>>), S(Json, <<34, 34>>), S(Json, <<>>), S(JsonMsg, <<34, 0>>),
  S(Flatbuffer, <<8, 1>>)>>

\* What an object of the type is before it is read into.
RECURSIVE Blank(_)
Blank(T) ==
  CASE T.kind = "raw" -> [i \in 1 .. T.size |-> 0]
    [] T.kind \in {"int", "enum", "pointer", "duration"} -> 0
    [] T.kind = "json" -> JsonNull
    [] T.kind = "set" -> {}
    [] T.kind = "array" -> [i \in 1 .. T.n |-> T.blank]
    [] T.kind = "tuple" -> [i \in DOMAIN T.of |-> Blank(T.of[i])]
    [] T.kind = "struct" -> T.blank
    [] OTHER -> <<>>

\* A value as it is, and in every kind of container, beside others of its type
\* and of another.
In(s) ==
  LET T == s.type
      v == s.value
  IN <<s, S(ListLike(T), <<>>), S(ListLike(T), <<v, v>>),
       S(Array(T, 2, Blank(T)), <<v, v>>),
       S(ForwardList(T), <<v, v, Blank(T)>>), S(Adaptor(T), <<v>>),
       S(SetLike(T), {v}), S(MapLike(Number, T), {<<0, v>>, <<1, v>>}),
       S(MapLike(T, T), {<<v, v>>}),
       S(Tuple(<<T, Number, T>>), <<v, 7, v>>),
       S(Tuple(<<String(1), T, Ignore>>), <<<<<<1>>>>, v, <<>>>>),
       S(Pair(T, String(1)), <<v, <<<<1>>>>>>),
       S(Struct(<<Number, T, String(1)>>, <<0, Blank(T), <<>>>>),
         <<258, v, <<<<3>>>>>>),
       S(Struct(<<T, T>>, <<Blank(T), Blank(T)>>), <<v, v>>),
       S(Complex(T, Blank(T)), <<v, v>>),
       S(SharedPtr(T), <<>>), S(UniquePtr(T), <<v>>)>>

InEach(samples) ==
  [k \in 1 .. 17 * Len(samples) |->
     In(samples[((k - 1) \div 17) + 1])[((k - 1) % 17) + 1]]

SmallSamples == InEach(InEach(Leaves))
=============================================================================
