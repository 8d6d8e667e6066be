------------------------------ MODULE MCMPool ------------------------------
(* Instances of MPool for TLC.  BlockSize = 7 and ItemSize = 2: three items *)
(* to a block and a byte left over, so items straddle the block boundary.   *)
EXTENDS MPool, TLC

CONSTANTS t1, t2, t3

TwoThreads   == {t1, t2}
ThreeThreads == {t1, t2, t3}
Symmetry     == Permutations(Threads)
=============================================================================
