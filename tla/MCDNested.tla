----------------------------- MODULE MCDNested -----------------------------
(* Instances of DNested for TLC. *)
EXTENDS DNested

\* With the last block in use we go on only while the game owns little.
FewInLastBlock ==
  heap.block_addr[BlockCount - 1] # 0 => Cardinality(live) <= 1
=============================================================================
