--------------------------- MODULE PackageStream ---------------------------
(***************************************************************************)
(* What a connection promises (connection.hpp:19): packages arrive         *)
(* complete, each at most once, in the order they were sent.  Any of them  *)
(* may be lost.                                                            *)
(***************************************************************************)
EXTENDS Naturals, Sequences

VARIABLES
  count,  \* how many packages have been sent
  got     \* the packages delivered, each by its number

streamVars == <<count, got>>

Init == count = 0 /\ got = <<>>

Send == count' = count + 1 /\ UNCHANGED got

Deliver ==
  \E k \in 1 .. count :
    /\ \A i \in DOMAIN got : got[i] < k
    /\ got' = Append(got, k)
    /\ UNCHANGED count

Spec == Init /\ [][Send \/ Deliver]_streamVars
=============================================================================
