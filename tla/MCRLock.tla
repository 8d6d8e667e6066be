------------------------------ MODULE MCRLock ------------------------------
(* Instances of RLock for TLC. *)
EXTENDS RLock, TLC

CONSTANTS t1, t2, t3

ThreeThreads == {t1, t2, t3}
Symmetry     == Permutations(Threads)
=============================================================================
