------------------------------ MODULE MCDHeap ------------------------------
(* Instances of DHeap for TLC.  A unit is 2 bytes, a cell that is split off *)
(* has 2 units at least, as in the code (2 KB and 4 KB).                    *)
EXTENDS DHeap, TLC

CONSTANTS t1, t2

TwoThreads == {t1, t2}
Symmetry   == Permutations(Threads)

\* From one byte to a whole block, odd sizes included.
AllSizes  == {1, 4, CellsPerBlock * CellSize - 1}

\* The ends only.
SmallAndWhole == {1, CellsPerBlock * CellSize - 1}
=============================================================================
