--------------------------- MODULE MCHeapReplacer ---------------------------
(* Instances of HeapReplacer for TLC: two pools, words of two bytes.  The   *)
(* sizes go to the first pool, the second, the default heap and the system. *)
EXTENDS HeapReplacer

CONSTANTS t1, t2

TwoThreads == {t1, t2}
OneThread  == {t1}

TwoPools  == <<2, 4>>
Crowded   == <<1, 1, 0, 1>>
MayBeDown == {{1}, {2}, {1, 2}}
OneOfEach == <<1, 1, 1, 1>>
=============================================================================
