-------------------------------- MODULE DHeap --------------------------------
(***************************************************************************)
(* The default heap (src/heap_replacer/dheap/dheap.h) under any number of  *)
(* threads: cells of whole units out of a few large blocks.                *)
(*                                                                         *)
(* What the reentrant lock protects is one step: dheap_get_free_cell and   *)
(* dheap_add_free_cell.  What runs outside of it are steps of their own:   *)
(* noting a cell in used_cells after dheap_get_free_cell has unlocked, and *)
(* the exchange by which dheap_free takes it out again.                    *)
(***************************************************************************)
EXTENDS DCells, FiniteSets

CONSTANTS
  Threads,
  CellSize,    \* DHEAP_CELL_SIZE: bytes of a unit
  Requests,    \* the sizes asked for, in bytes
  MayFail,     \* whether the operating system may refuse memory
  StaleFrees   \* whether an address may be freed that is not live

ASSUME DHeapAssumption ==
  /\ CellSize \in Nat \ {0}
  /\ Requests \subseteq 1 .. CellsPerBlock * CellSize
  /\ MayFail \in BOOLEAN /\ StaleFrees \in BOOLEAN

VARIABLES
  heap,         \* the free cells: what the lock protects
  used_cells,   \* used_cells[b][i]: the cell handed out at unit i of block b
  pc,           \* where each thread is
  arg,          \* the size it asked for, or the address it frees
  cell,         \* the cell in its hands
  live,         \* ghost: the regions the game owns, [addr, size in bytes]
  wild          \* ghost: a stale free took effect on a live region

vars == <<heap, used_cells, pc, arg, cell, live, wild>>

\* ROUND_UP(size, DHEAP_CELL_SIZE), in units.
Units(bytes) == (bytes + CellSize - 1) \div CellSize

\* Where the operating system puts blocks: side by side, the hardest case.
BlockAddrs == {CellsPerBlock * k : k \in 1 .. BlockCount}

\* What dheap_free is called with: addresses of blocks, and 0 for the memory
\* that hr_malloc took from VirtualAlloc itself.
Addresses == {0} \cup (CellsPerBlock .. CellsPerBlock * (BlockCount + 1) - 1)

Goto(t, l) == pc' = [pc EXCEPT ![t] = l]

Init ==
  /\ heap = Empty
  /\ used_cells = [b \in Blocks |-> <<>>]
  /\ pc = [t \in Threads |-> "idle"]
  /\ arg = [t \in Threads |-> 0]
  /\ cell = [t \in Threads |-> Null]
  /\ live = {}
  /\ wild = FALSE

-----------------------------------------------------------------------------
(* dheap_malloc *)

Malloc(t, size) ==
  /\ pc[t] = "idle"
  /\ arg' = [arg EXCEPT ![t] = size]
  /\ Goto(t, "get")
  /\ UNCHANGED <<heap, used_cells, cell, live, wild>>

Take(t, h, m) ==
  LET taken == TakeCell(h, m, Units(arg[t])) IN
  /\ heap' = taken.heap
  /\ cell' = [cell EXCEPT ![t] = taken.cell]
  /\ Goto(t, "put")
  /\ UNCHANGED <<arg, live, wild>>

\* BUG: the hint for the next smaller size.
Hint_Smaller(n) == heap.size_array[IF n = 1 THEN 0 ELSE n - 2]

\* BUG: the hint for the next larger size.
Hint_Larger(n) == heap.size_array[IF n = CellsPerBlock THEN n - 1 ELSE n]

Hint(n) == heap.size_array[n - 1]

\* dheap_get_free_cell when a free cell is large enough.
GetFreeCell(t) ==
  LET m == Hint(Units(arg[t])) IN
  /\ pc[t] = "get"
  /\ m # Null
  /\ Take(t, heap, m)
  /\ UNCHANGED used_cells

\* dheap_get_free_cell when a block must be created.
GetFromNewBlock(t) ==
  LET b == NextFreeBlockIndex(heap) IN
  /\ pc[t] = "get"
  /\ Hint(Units(arg[t])) = Null
  /\ b # BlockCount
  /\ \E addr \in BlockAddrs :
       LET m == NewCell(heap, addr) IN
       /\ \A c \in Blocks : heap.block_addr[c] # addr
       /\ Take(t, AddFreeCell(FillBlock(RegisterBlock(heap, addr), b, m), m), m)
  /\ used_cells' = [used_cells EXCEPT ![b] = Blank]

\* No block index is left, or VirtualAlloc refuses the block.
GetNoBlock(t) ==
  /\ pc[t] = "get"
  /\ Hint(Units(arg[t])) = Null
  /\ MayFail \/ NextFreeBlockIndex(heap) = BlockCount
  /\ arg' = [arg EXCEPT ![t] = 0]
  /\ Goto(t, "idle")
  /\ UNCHANGED <<heap, used_cells, cell, live, wild>>

\* The block is there, but not its arrays or its mcell: it stays registered.
GetBrokenBlock(t) ==
  LET b == NextFreeBlockIndex(heap) IN
  /\ pc[t] = "get"
  /\ Hint(Units(arg[t])) = Null
  /\ MayFail
  /\ b # BlockCount
  /\ \E addr \in BlockAddrs, addr_array, used \in {<<>>, Blank} :
       /\ \A c \in Blocks : heap.block_addr[c] # addr
       /\ addr_array = <<>> => used = <<>>
       /\ heap' = [RegisterBlock(heap, addr) EXCEPT !.addr_array[b] = addr_array]
       /\ used_cells' = [used_cells EXCEPT ![b] = used]
  /\ arg' = [arg EXCEPT ![t] = 0]
  /\ Goto(t, "idle")
  /\ UNCHANGED <<cell, live, wild>>

\* dheap_put_used_cell, after the unlock; the address is returned.  The store
\* and the reading of the address are one step: a free of the address between
\* them is a stale one and counts as wild after the step as well.
PutUsedCell(t) ==
  LET d == heap.desc[cell[t]] IN
  /\ pc[t] = "put"
  /\ used_cells' = [used_cells EXCEPT ![d.index][AddrIndex(heap, cell[t])] = cell[t]]
  /\ live' = live \cup {[addr |-> d.addr * CellSize, size |-> arg[t]]}
  /\ cell' = [cell EXCEPT ![t] = Null]
  /\ arg' = [arg EXCEPT ![t] = 0]
  /\ Goto(t, "idle")
  /\ UNCHANGED <<heap, wild>>

-----------------------------------------------------------------------------
(* dheap_free *)

\* The lowest block that has the address; BlockCount when there is none.
BlockIndex(addr) ==
  CHOOSE b \in 0 .. BlockCount :
    /\ b < BlockCount =>
         heap.block_addr[b] # 0 /\ addr - heap.block_addr[b] \in Offs
    /\ \A c \in 0 .. b - 1 :
         heap.block_addr[c] = 0 \/ addr - heap.block_addr[c] \notin Offs

RegionsAt(addr) == {r \in live : r.addr = addr * CellSize}

\* Any address of a block whose cells have been handed out may be stale.
MayBeStale(addr) == BlockIndex(addr) < BlockCount /\ used_cells[BlockIndex(addr)] # <<>>

\* The game gives up a live region, or frees an address it gave up before.
Free(t, addr) ==
  /\ pc[t] = "idle"
  /\ RegionsAt(addr) # {} \/ addr = 0 \/ (StaleFrees /\ MayBeStale(addr))
  /\ live' = live \ RegionsAt(addr)
  /\ arg' = [arg EXCEPT ![t] = addr]
  /\ Goto(t, "rmv")
  /\ UNCHANGED <<heap, used_cells, cell, wild>>

\* BUG: read without the exchange, the slot is left as it is.
Exchanged_Not(b, i) == used_cells

Exchanged(b, i) == [used_cells EXCEPT ![b][i] = Null]

\* dheap_rmv_used_cell: of several frees of one cell only one gets it.
RmvUsedCell(t) ==
  LET b == BlockIndex(arg[t]) IN
  /\ pc[t] = "rmv"
  /\ b # BlockCount
  /\ LET i == arg[t] - heap.block_addr[b]
         m == used_cells[b][i] IN
     /\ used_cells' = Exchanged(b, i)
     /\ cell' = [cell EXCEPT ![t] = m]
     /\ wild' = (wild \/ (m # Null /\ RegionsAt(arg[t]) # {}))
     /\ Goto(t, IF m = Null THEN "idle" ELSE "add")
  /\ arg' = [arg EXCEPT ![t] = 0]
  /\ UNCHANGED <<heap, live>>

\* Not an address of this heap: dheap_free returns 0.
NotMine(t) ==
  /\ pc[t] = "rmv"
  /\ BlockIndex(arg[t]) = BlockCount
  /\ arg' = [arg EXCEPT ![t] = 0]
  /\ Goto(t, "idle")
  /\ UNCHANGED <<heap, used_cells, cell, live, wild>>

ReturnCell(t) ==
  /\ pc[t] = "add"
  /\ heap' = AddFreeCell(heap, cell[t])
  /\ cell' = [cell EXCEPT ![t] = Null]
  /\ Goto(t, "idle")
  /\ UNCHANGED <<used_cells, arg, live, wild>>

\* dheap_mem_size of an address in use.
MemSize(addr) ==
  LET b == BlockIndex(addr) IN
  heap.desc[used_cells[b][addr - heap.block_addr[b]]].size * CellSize

-----------------------------------------------------------------------------

Next ==
  \E t \in Threads :
    \/ \E size \in Requests : Malloc(t, size)
    \/ GetFreeCell(t)
    \/ GetFromNewBlock(t)
    \/ GetNoBlock(t)
    \/ GetBrokenBlock(t)
    \/ PutUsedCell(t)
    \/ \E addr \in Addresses : Free(t, addr)
    \/ RmvUsedCell(t)
    \/ NotMine(t)
    \/ ReturnCell(t)

Spec == Init /\ [][Next]_vars

-----------------------------------------------------------------------------

FreeSet    == {heap.size_list[i] : i \in DOMAIN heap.size_list}
UsedSet    == {m \in MCells : \E b \in Blocks : \E i \in DOMAIN used_cells[b] :
                                used_cells[b][i] = m}
InHand     == {cell[t] : t \in Threads} \ {Null}
UnitsOf(m) == heap.desc[m].addr .. EndOf(heap.desc[m]) - 1
Fits(n)    == {m \in FreeSet : heap.desc[m].size >= n}

TypeOK ==
  /\ heap.desc \in [MCells -> [addr : Addresses, size : 0 .. CellsPerBlock, index : Blocks]]
  /\ heap.size_array \in [Offs -> MCells \cup {Null}]
  /\ heap.block_addr \in [Blocks -> BlockAddrs \cup {0}]
  /\ \A b \in Blocks :
       /\ heap.addr_array[b] = <<>> \/ heap.addr_array[b] \in [Offs -> MCells \cup {Null}]
       /\ used_cells[b] = <<>> \/ used_cells[b] \in [Offs -> MCells \cup {Null}]
  /\ pc \in [Threads -> {"idle", "get", "put", "rmv", "add"}]
  /\ arg \in [Threads -> Addresses \cup Requests \cup {0}]
  /\ cell \in [Threads -> MCells \cup {Null}]
  /\ live \subseteq [addr : {a * CellSize : a \in Addresses}, size : Requests]
  /\ wild \in BOOLEAN

(***************************************************************************)
(* Every mcell that is allocated is in exactly one place: free, and then   *)
(* once on the size list and once on the address list of its block; in     *)
(* use, under its own address; or in the hands of one thread.  So no list, *)
(* no hint and no slot points to an mcell that was given to hr_free, and   *)
(* however many threads free one address only one gets the cell.           *)
(***************************************************************************)
CellsAccounted ==
  /\ TypeOK
  /\ Allocated(heap) = FreeSet \cup UsedSet \cup InHand
  /\ FreeSet \cap UsedSet = {} /\ FreeSet \cap InHand = {} /\ UsedSet \cap InHand = {}
  /\ \A t, u \in Threads : cell[t] = cell[u] /\ cell[t] # Null => t = u
  /\ Len(heap.size_list) = Cardinality(FreeSet)
  /\ \A b \in Blocks :
       LET mine == {m \in FreeSet : heap.desc[m].index = b} IN
       /\ {heap.addr_list[b][i] : i \in DOMAIN heap.addr_list[b]} = mine
       /\ Len(heap.addr_list[b]) = Cardinality(mine)
       /\ \A i \in DOMAIN used_cells[b] : used_cells[b][i] # Null =>
            heap.desc[used_cells[b][i]].addr = heap.block_addr[b] + i

(***************************************************************************)
(* Splitting and merging neither lose nor duplicate memory: the cells of a *)
(* block cover each of its units once.  A block whose creation failed half *)
(* way has no cell at all.                                                 *)
(***************************************************************************)
BlocksTiled ==
  \A b \in Blocks :
    LET mine == {m \in Allocated(heap) : heap.desc[m].index = b} IN
    mine # {} =>
      /\ UNION {UnitsOf(m) : m \in mine}
           = heap.block_addr[b] .. heap.block_addr[b] + CellsPerBlock - 1
      /\ \A m, k \in mine : m # k => UnitsOf(m) \cap UnitsOf(k) = {}

\* The first cell of a list that passes a test, Null when none does.
FirstWith(list, Test(_)) ==
  LET hits == {i \in DOMAIN list : Test(list[i])} IN
  IF hits = {} THEN Null ELSE list[CHOOSE i \in hits : \A j \in hits : i <= j]

(***************************************************************************)
(* The hints are exact: each entry of size_array is the first cell that is *)
(* large enough, each entry of an addr_array the first free cell at that   *)
(* place or behind it, and the lists are sorted.  dheap_get_free_cell and  *)
(* dheap_add_free_cell take a hint's word for it and never search.         *)
(***************************************************************************)
HintsExact ==
  /\ \A i, j \in DOMAIN heap.size_list : i <= j =>
       heap.desc[heap.size_list[i]].size <= heap.desc[heap.size_list[j]].size
  /\ \A n \in Offs : heap.size_array[n] =
       FirstWith(heap.size_list, LAMBDA m : heap.desc[m].size > n)
  /\ \A b \in Blocks :
       /\ \A i, j \in DOMAIN heap.addr_list[b] : i <= j =>
            heap.desc[heap.addr_list[b][i]].addr <= heap.desc[heap.addr_list[b][j]].addr
       /\ \A n \in DOMAIN heap.addr_array[b] : heap.addr_array[b][n] =
            FirstWith(heap.addr_list[b],
                      LAMBDA m : heap.desc[m].addr >= heap.block_addr[b] + n)

(***************************************************************************)
(* What the game owns is really held for it: as long as no stale free has  *)
(* hit a live region, dheap_mem_size of a live address finds its cell, and *)
(* the cell is as large as was asked for and wastes less than the smallest *)
(* cell the heap would have split off.                                     *)
(***************************************************************************)
LiveIsHeld ==
  ~wild => \A r \in live :
    LET addr == r.addr \div CellSize
        b    == BlockIndex(addr) IN
    /\ b \in Blocks
    /\ used_cells[b][addr - heap.block_addr[b]] \in UsedSet
    /\ MemSize(addr) >= r.size
    /\ MemSize(addr) < Units(r.size) * CellSize + MinCells * CellSize

(***************************************************************************)
(* Best fit: a malloc takes its cell from the smallest free cell that is   *)
(* large enough, creates a block only when none is, and fails only then.   *)
(***************************************************************************)
BestFit ==
  [][\A t \in Threads :
       /\ pc[t] = "get" /\ pc'[t] = "put" /\ Fits(Units(arg[t])) # {} =>
            /\ heap'.block_addr = heap.block_addr
            /\ \E m \in Fits(Units(arg[t])) :
                 /\ heap'.desc[cell'[t]].addr \in UnitsOf(m)
                 /\ \A k \in Fits(Units(arg[t])) : heap.desc[m].size <= heap.desc[k].size
       /\ pc[t] = "get" /\ pc'[t] = "idle" => Fits(Units(arg[t])) = {}]_vars

(***************************************************************************)
(* Coalescing: a freed cell is merged with the free cell right behind it,  *)
(* and with the one right in front of it provided some free cell of the    *)
(* block lies behind.  (Without one the code does not look in front.)      *)
(***************************************************************************)
FreedCellIsMerged ==
  [][\A t \in Threads : pc[t] = "add" /\ pc'[t] = "idle" =>
       LET d      == heap.desc[cell[t]]
           behind == \E k \in FreeSet : /\ heap.desc[k].index = d.index
                                        /\ heap.desc[k].addr > d.addr IN
       \A k \in FreeSet' : heap'.desc[k].index = d.index =>
         /\ heap'.desc[k].addr # EndOf(d)
         /\ behind => EndOf(heap'.desc[k]) # d.addr]_vars

\* The heap implements the abstract allocator.
Abstract == INSTANCE Allocator WITH
              Arena <- {a * CellSize : a \in Addresses},
              Sizes <- Requests

ImplementsAllocator == Abstract!Spec
=============================================================================
