------------------------------ MODULE MCSHeap ------------------------------
(* Instances of SHeap for TLC.  A header is 4 bytes, a block 16 bytes.  The *)
(* blocks lie side by side in memory, and so do the arrays.                 *)
EXTENDS SHeap

CONSTANTS t1, t2

TwoThreads == {t1, t2}

Side == {BuffSize * k : k \in 1 .. 4}

\* Two of the first fit into a block, with padding between them; the second
\* does not fit behind the first; the third fills a block to the last byte.
\* The second thread only takes whole blocks.
Odd == [t \in Threads |-> IF t = t1 THEN {1, 12} ELSE {12}]
=============================================================================
