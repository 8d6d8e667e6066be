------------------------------ MODULE MCMHeap ------------------------------
(* Instances of MHeap for TLC: the table of the program, in bytes and       *)
(* places of 16 MB, where any one pool may fail; and a small table whose    *)
(* pools may fail in any combination, in an address space that others use.  *)
EXTENDS MHeap, TLC

ItemSizes == <<8, 12, 16, 20, 24, 28, 32, 40, 48, 56, 64, 80, 96, 112, 128,
  160, 192, 224, 256, 320, 384, 448, 512, 640, 768, 896, 1024, 1280, 1536,
  1792, 2048, 2560, 3072, 3584>>

\* max_size / POOL_ALIGN
PoolPlaces == <<2, 2, 2, 1, 1, 1, 1, 1, 1, 1, 1, 8, 8, 2, 2, 2, 2, 2, 1, 2, 1,
  4, 2, 4, 1, 1, 2, 4, 4, 1, 2, 1, 2, 2>>

Program == [q \in 1 .. Len(ItemSizes) |->
              [item_size |-> ItemSizes[q], max_size |-> PoolPlaces[q]]]

\* Every tenth place is somebody else's, and so are the top two.
Scattered == {{a \in 1 .. AddrLen - 1 : a % 10 = 0} \cup {AddrLen - 2, AddrLen - 1}}

Small == <<[item_size |-> 8, max_size |-> 2], [item_size |-> 12, max_size |-> 1],
           [item_size |-> 20, max_size |-> 3], [item_size |-> 24, max_size |-> 1]>>

AnyPlaces == SUBSET (1 .. AddrLen - 1)
=============================================================================
