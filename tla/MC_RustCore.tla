---------------------------- MODULE MC_RustCore ----------------------------
(* Small instances of RustCore: two requests, one of them with retries.      *)
EXTENDS RustCore, TLC

CONSTANTS once, again, s1, s2

OnceAndAgain == {once, again}
AgainRetried == [r \in OnceAndAgain |-> IF r = again THEN 1 ELSE 0]

SeqSymmetry == Permutations(Seqs)
=============================================================================
