----------------------------- MODULE MC_RpcLink -----------------------------
(* A small instance of RpcLink for TLC. *)
EXTENDS RpcLink, TLC

CONSTANTS plain, guarded, s1, s2, cmd1

LinkRequests == {plain, guarded}

\* "plain" is retried once; "guarded", a ping, is not.
LinkRetries == [r \in LinkRequests |-> IF r = plain THEN 1 ELSE 0]
LinkCmds == [r \in LinkRequests |-> IF r = plain THEN cmd1 ELSE Ping]

SeqSymmetry == Permutations(Seqs)
=============================================================================
