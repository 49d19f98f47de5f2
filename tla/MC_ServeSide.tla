---------------------------- MODULE MC_ServeSide ----------------------------
(* Small instances of ServeSide for TLC. *)
EXTENDS ServeSide, TLC

SeqSymmetry == Permutations(Seqs)
=============================================================================
