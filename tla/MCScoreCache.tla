----------------------------- MODULE MCScoreCache -----------------------------
(* Constants of ScoreCache for TLC: one file in each of two shards, and    *)
(* processes that differ in nothing.                                       *)
EXTENDS ScoreCache, TLC

MCNames == {<<1, 1>>, <<2, 1>>}
MCTtl == [p \in Procs |-> 1]

Symmetry == Permutations(Procs)
=============================================================================
