---------------------------- MODULE MC_CallSide ----------------------------
(* Small instances of CallSide for TLC: what each request of a run may do. *)
EXTENDS CallSide, TLC

CONSTANTS plain, guarded, s1, s2, s3

\* "plain" is retried once and let go of by the user; "guarded" is given to a
\* dispose and never retried.
PlainAndGuarded == {plain, guarded}
PlainRetries == [r \in PlainAndGuarded |-> IF r = plain THEN 1 ELSE 0]

\* "guarded" retried for ever, for the effect of a cancel on retries.
GuardedForEver == [r \in PlainAndGuarded |-> IF r = plain THEN 1 ELSE -1]

\* "guarded" retried once.
GuardedOnce == [r \in PlainAndGuarded |-> IF r = plain THEN 0 ELSE 1]

SeqSymmetry == Permutations(Seqs)
=============================================================================
