------------------------------- MODULE DCells -------------------------------
(***************************************************************************)
(* The free cells of the default heap and the two ways into them           *)
(* (src/heap_replacer/dheap: dheap.h, clist.h, mcell.h, cdesc.h).          *)
(*                                                                         *)
(* A free cell sits on two lists: size_list, sorted by size, and the list  *)
(* of its block, sorted by address.  Beside each list is an array of       *)
(* hints: size_array[i] is the first cell of size i + 1 or more,           *)
(* addr_array[b][i] the first cell of block b that starts at i or after.   *)
(*                                                                         *)
(* The operators take the whole structure h, a record, and return it as    *)
(* the function of the same name leaves it.  Sizes and addresses count     *)
(* units of DHEAP_CELL_SIZE.  An intrusive list is the sequence of its     *)
(* cells; the array_index of a node is recomputed from the cell, which is  *)
(* what the code stored when it linked the node.  <<>> is a NULL array.    *)
(***************************************************************************)
EXTENDS Integers, Sequences, SequencesExt

CONSTANTS
  CellsPerBlock,   \* DHEAP_CELLS_PER_BLOCK
  MinCells,        \* DHEAP_MIN_CELL_SIZE / DHEAP_CELL_SIZE
  BlockCount       \* DHEAP_BLOCK_COUNT

ASSUME DCellsAssumption ==
  /\ CellsPerBlock \in Nat \ {0} /\ BlockCount \in Nat \ {0}
  /\ MinCells \in 1 .. CellsPerBlock

Null   == 0
Blocks == 0 .. BlockCount - 1
Offs   == 0 .. CellsPerBlock - 1

\* Memory for mcells: one per unit of block memory, which is always enough.
\* Blocks lie at CellsPerBlock and up, so Null is no mcell and no address.
MCells == CellsPerBlock .. CellsPerBlock * (BlockCount + 1) - 1

\* The desc of an mcell that is not allocated.
NoDesc == [addr |-> 0, size |-> 0, index |-> 0]
Blank  == [i \in Offs |-> Null]

Empty ==
  [desc       |-> [m \in MCells |-> NoDesc],
   size_list  |-> <<>>,
   size_array |-> Blank,
   addr_list  |-> [b \in Blocks |-> <<>>],
   addr_array |-> [b \in Blocks |-> <<>>],
   block_addr |-> [b \in Blocks |-> 0]]

Allocated(h) == {m \in MCells : h.desc[m] # NoDesc}

\* hr_malloc(sizeof(struct mcell)): any free one will do.  To keep states few
\* we take the one with the number of the new cell's address if we can.
NewCell(h, addr) ==
  LET free == MCells \ Allocated(h) IN
  IF addr \in free THEN addr
  ELSE CHOOSE m \in free : \A k \in free : m <= k

EndOf(d)               == d.addr + d.size

\* BUG: the length of the cell is left out.
Precedes_Start(h, m, other) == h.desc[m].addr = h.desc[other].addr

Precedes(h, m, other)  == EndOf(h.desc[m]) = h.desc[other].addr
SizeIndex(h, m)        == h.desc[m].size - 1
AddrIndex(h, m)        == h.desc[m].addr - h.block_addr[h.desc[m].index]

-----------------------------------------------------------------------------
(* Lists and hints *)

Place(list, m)  == SelectInSeq(list, LAMBDA k : k = m)
PrevIn(list, m) == IF Place(list, m) = 1 THEN Null ELSE list[Place(list, m) - 1]
NextIn(list, m) == IF Place(list, m) = Len(list) THEN Null
                   ELSE list[Place(list, m) + 1]

\* Put m before pos, or at the tail when there is no pos.
InsertBefore(list, m, pos) ==
  InsertAt(list, IF pos = Null THEN Len(list) + 1 ELSE Place(list, pos), m)

\* hr_memset32 over the entries from .. to of a hint array.
Fill(array, from, to, m) ==
  [i \in DOMAIN array |-> IF i \in from .. to THEN m ELSE array[i]]

AddCellToSizeList(h, m) ==
  LET elem == h.size_array[SizeIndex(h, m)] IN
  [h EXCEPT !.size_list =
     IF elem # Null /\ h.desc[elem].size = h.desc[m].size
     THEN InsertAt(@, Place(@, elem) + 1, m)
     ELSE InsertBefore(@, m, elem)]

AddCellToAddrList(h, m) ==
  LET b == h.desc[m].index IN
  [h EXCEPT !.addr_list[b] =
     InsertBefore(@, m, h.addr_array[b][AddrIndex(h, m)])]

\* The hints between the nearest cell that is not larger and m itself.
AddCellToSizeArray(h, m) ==
  LET elem == h.size_array[SizeIndex(h, m)]
      curr == SelectLastInSubSeq(h.size_list, 1, Place(h.size_list, m) - 1,
                LAMBDA k : h.desc[m].size >= h.desc[k].size)
      from == IF curr = 0 THEN 0 ELSE SizeIndex(h, h.size_list[curr]) + 1 IN
  IF elem # Null /\ h.desc[elem].size = h.desc[m].size THEN h
  ELSE [h EXCEPT !.size_array = Fill(@, from, SizeIndex(h, m), m)]

AddCellToAddrArray(h, m) ==
  LET b    == h.desc[m].index
      list == h.addr_list[b]
      curr == SelectLastInSubSeq(list, 1, Place(list, m) - 1,
                LAMBDA k : h.desc[m].addr >= h.desc[k].addr)
      from == IF curr = 0 THEN 0 ELSE AddrIndex(h, list[curr]) + 1 IN
  [h EXCEPT !.addr_array[b] = Fill(@, from, AddrIndex(h, m), m)]

\* Only the first cell of its size has hints.  Behind a cell of a whole block
\* the code reads past size_array, where no cell pointer is.
RmvCellFromSizeArray(h, m) ==
  LET prev == PrevIn(h.size_list, m)
      from == IF prev = Null THEN 0 ELSE SizeIndex(h, prev) + 1 IN
  IF from \in Offs /\ h.size_array[from] = m
  THEN [h EXCEPT !.size_array =
          Fill(@, from, SizeIndex(h, m), NextIn(h.size_list, m))]
  ELSE h

RmvCellFromAddrArray(h, m) ==
  LET b    == h.desc[m].index
      prev == PrevIn(h.addr_list[b], m)
      from == IF prev = Null THEN 0 ELSE AddrIndex(h, prev) + 1 IN
  [h EXCEPT !.addr_array[b] =
     Fill(@, from, AddrIndex(h, m), NextIn(h.addr_list[b], m))]

Unlink(list, m)       == RemoveAt(list, Place(list, m))
RmvFromSizeList(h, m) == [h EXCEPT !.size_list = Unlink(@, m)]
RmvFromAddrList(h, m) == [h EXCEPT !.addr_list[h.desc[m].index] = Unlink(@, m)]

RmvFreeCell(h, m) ==
  RmvFromAddrList(
    RmvFromSizeList(
      RmvCellFromAddrArray(RmvCellFromSizeArray(h, m), m), m), m)

LinkFreeCell(h, m) ==
  AddCellToSizeArray(
    AddCellToSizeList(AddCellToAddrArray(AddCellToAddrList(h, m), m), m), m)

-----------------------------------------------------------------------------
(* dheap_add_free_cell, and the two ways dheap_get_free_cell takes a cell *)

\* m swallows its neighbour, whose mcell goes back to hr_free.
Merge(h, m, other, addr) ==
  [RmvFreeCell(h, other) EXCEPT
     !.desc[m].addr = addr,
     !.desc[m].size = @ + h.desc[other].size,
     !.desc[other]  = NoDesc]

\* BUG: the merged cell keeps its own start.
StartBefore_Kept(h, m, prev) == h.desc[m].addr

StartBefore(h, m, prev) == h.desc[prev].addr

\* prev is looked up through next: when no free cell follows, a free cell
\* right in front of m is not found and not merged.
AddFreeCell(h, m) ==
  LET b    == h.desc[m].index
      next == h.addr_array[b][AddrIndex(h, m)]
      prev == IF next = Null THEN Null ELSE PrevIn(h.addr_list[b], next)
      h1   == IF prev # Null /\ Precedes(h, prev, m)
              THEN Merge(h, m, prev, StartBefore(h, m, prev)) ELSE h
      h2   == IF next # Null /\ Precedes(h1, m, next)
              THEN Merge(h1, m, next, h1.desc[m].addr) ELSE h1 IN
  LinkFreeCell(h2, m)

NewTail(h, m, n) == NewCell(h, EndOf(h.desc[m]) - n)

\* mcell_split: the new cell is the end of the old one.
Split(h, m, n) ==
  LET rest == h.desc[m].size - n IN
  [h EXCEPT !.desc[m].size = rest,
            !.desc[NewTail(h, m, n)] = [addr  |-> h.desc[m].addr + rest,
                                        size  |-> n,
                                        index |-> h.desc[m].index]]

\* BUG: the split cell is shortened while it is still on the size list.
SplitFreeCell_Early(h, m, n) ==
  LET h1 == Split(h, m, n)
      h2 == RmvFromSizeList(RmvCellFromSizeArray(h1, m), m) IN
  AddCellToSizeArray(AddCellToSizeList(h2, m), m)

\* The cell that is shortened keeps its place in the address list.
SplitFreeCell(h, m, n) ==
  LET h1 == RmvFromSizeList(RmvCellFromSizeArray(h, m), m)
      h2 == Split(h1, m, n) IN
  AddCellToSizeArray(AddCellToSizeList(h2, m), m)

\* BUG: the whole cell goes even when most of it is not needed.
TakeCell_Whole(h, m, n) == [heap |-> RmvFreeCell(h, m), cell |-> m]

\* Take n units from m: all of it when the rest would be too small to keep.
TakeCell(h, m, n) ==
  IF h.desc[m].size - n < MinCells
  THEN [heap |-> RmvFreeCell(h, m), cell |-> m]
  ELSE [heap |-> SplitFreeCell(h, m, n), cell |-> NewTail(h, m, n)]

-----------------------------------------------------------------------------
(* dheap_create_new_block *)

\* The lowest index without a block; BlockCount when all have one.
NextFreeBlockIndex(h) ==
  CHOOSE b \in 0 .. BlockCount :
    /\ b < BlockCount => h.block_addr[b] = 0
    /\ \A c \in 0 .. b - 1 : h.block_addr[c] # 0

\* The block is registered before anything that belongs to it is allocated.
RegisterBlock(h, addr) ==
  [h EXCEPT !.block_addr[NextFreeBlockIndex(h)] = addr]

\* ... and becomes one free cell when everything could be allocated.
FillBlock(h, b, m) ==
  [h EXCEPT !.addr_array[b] = Blank,
            !.desc[m] = [addr  |-> h.block_addr[b],
                         size  |-> CellsPerBlock,
                         index |-> b]]
=============================================================================
