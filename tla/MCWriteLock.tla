------------------------------ MODULE MCWriteLock ------------------------------
(* Constants of WriteLock for TLC: processes are interchangeable.          *)
EXTENDS WriteLock, TLC

Symmetry == Permutations(Procs)
=============================================================================
