------------------------------ MODULE MC_Codec ------------------------------
(* Small inputs for Codec. *)
EXTENDS Codec

SmallNumbers == (-300 .. 300) \cup {-65536, -65535, 65535, 65536, 16777215}
SomeSeqNos == {0, 1, 255, 256, 65535, 65536, 16777215, 16777216, 2147483647}
SmallTexts == BoundedSeq({0, 47, 255}, 2)
SmallTypes == {1, 5, 9, 34}

\* Seven or eight bytes, with every length of command that fits or nearly does.
SmallPayloads ==
  {<<seq, 0, 0, 1, len, 0>> \o rest :
     seq \in {0, 255}, len \in 0 .. 3, rest \in BoundedSeq({0, 47, 255}, 3)}
  \cup {<<1, 0, 0, 0, 0, 0>>, <<1, 0, 0, 0>>, <<>>}

\* One of the numbers it may be.
AnyOverlong(b) == 0

\* The numbers of the first thousand calls.
FirstCalls == 0 .. 1000
Only0 == {0}
OnlyEmpty == {<<>>}
=============================================================================
