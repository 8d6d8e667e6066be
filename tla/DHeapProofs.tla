----------------------------- MODULE DHeapProofs -----------------------------
(***************************************************************************)
(* Proofs about the default heap, for any number of threads and blocks,    *)
(* any size of blocks, and every interleaving, stale frees included: every *)
(* mcell is in one place, the hints are exact, the blocks stay tiled, what *)
(* is live is held, the choice of cells is best fit, freed cells merge,    *)
(* and the heap implements the abstract allocator.                         *)
(*                                                                         *)
(* The free cells alone are the business of DCellsProofs.  Here is what    *)
(* the threads add: the slots, the cells in their hands, and the regions   *)
(* of the game.                                                            *)
(***************************************************************************)
EXTENDS DHeap, DCellsProofs

-----------------------------------------------------------------------------
(* The inductive invariant. *)

\* Every slot array belongs to a block with a list of free cells, and every
\* block with cells has one.
ShapeInv ==
  /\ HeapOK(heap)
  /\ used_cells \in [Blocks -> {<<>>} \cup [Offs -> Cells]]
  /\ \A b \in Blocks : used_cells[b] # <<>> => heap.addr_array[b] # <<>>
  /\ \A m \in Allocated(heap) : used_cells[heap.desc[m].index] # <<>>

\* A cell is noted in its own slot.
SlotsInv ==
  \A b \in Blocks : \A i \in DOMAIN used_cells[b] :
    LET m == used_cells[b][i] IN
    m # Null => heap.desc[m].index = b /\ heap.desc[m].addr = heap.block_addr[b] + i

\* What is allocated and not free is in a slot or in one hand.
HeldInv ==
  /\ Held(heap) = UsedSet \cup InHand
  /\ UsedSet \cap InHand = {}
  /\ \A t, u \in Threads : cell[t] = cell[u] /\ cell[t] # Null => t = u

\* The sizes of cells for a request of some bytes.
Suits(m, bytes) ==
  Units(bytes) <= heap.desc[m].size /\ heap.desc[m].size < Units(bytes) + MinCells

\* The unit lies in a block with slots.
InSlots(addr) == \E b \in Blocks : used_cells[b] # <<>> /\ addr - heap.block_addr[b] \in Offs

LocalsInv ==
  /\ pc \in [Threads -> {"idle", "get", "put", "rmv", "add"}]
  /\ cell \in [Threads -> Cells]
  /\ arg \in [Threads -> Addresses \cup Requests]
  /\ wild \in BOOLEAN

ThreadInv(t) ==
  /\ pc[t] \in {"idle", "get", "rmv"} => cell[t] = Null
  /\ pc[t] \in {"get", "put"} => arg[t] \in Requests
  /\ pc[t] \in {"put", "add"} => cell[t] # Null
  /\ pc[t] = "put" => Suits(cell[t], arg[t])
  /\ pc[t] = "rmv" => arg[t] \in Addresses /\ (arg[t] = 0 \/ InSlots(arg[t]))

LiveInv ==
  /\ live \subseteq [addr : {a * CellSize : a \in Addresses}, size : Requests]
  /\ \A r \in live : \E a \in Addresses : r.addr = a * CellSize /\ InSlots(a)
  /\ ~wild => \A r \in live : \E m \in UsedSet :
       r.addr = heap.desc[m].addr * CellSize /\ Suits(m, r.size)
  /\ ~wild => \A r, s \in live : r.addr = s.addr => r = s

\* Without stale frees every free finds its cell.
LegalInv ==
  ~StaleFrees =>
    /\ ~wild
    /\ \A t \in Threads : pc[t] = "rmv" /\ arg[t] # 0 =>
         /\ RegionsAt(arg[t]) = {}
         /\ \E m \in UsedSet : heap.desc[m].addr = arg[t]
         /\ \A u \in Threads : pc[u] = "rmv" /\ arg[u] = arg[t] => u = t

IInv ==
  /\ ShapeInv /\ SlotsInv /\ HeldInv /\ LiveInv /\ LegalInv
  /\ LocalsInv
  /\ \A t \in Threads : ThreadInv(t)

-----------------------------------------------------------------------------
(* Requests, hints, slots and addresses. *)

\* Rounding up to a unit reaches the number.
LEMMA RoundedUp ==
  ASSUME NEW n \in Nat, NEW u \in Nat \ {0}
  PROVE  /\ ((n + u - 1) \div u) * u \in Nat
         /\ ((n + u - 1) \div u) * u >= n
<1> DEFINE q == (n + u - 1) \div u
<1>1. q \in Int /\ n + u - 1 < (q + 1) * u
  BY SMT
<1>2. (q + 1) * u = q * u + u
  BY <1>1, SMT
<1> QED
  BY <1>1, <1>2

\* A request of 1 to c units of bytes needs 1 to c units.
LEMMA UnitsAre ==
  ASSUME NEW n \in Nat \ {0}, NEW u \in Nat \ {0}, NEW c \in Nat, n <= c * u
  PROVE  (n + u - 1) \div u \in 1 .. c
<1> DEFINE q == (n + u - 1) \div u
<1>1. q \in Int /\ q * u <= n + u - 1 /\ n + u - 1 < (q + 1) * u
  BY SMT
<1> HIDE DEF q
<1>2. (q + 1) * u = q * u + u /\ (c + 1) * u = c * u + u /\ q * u \in Int /\ c * u \in Int
  BY <1>1
<1>3. q >= 1
  <2>1. SUFFICES ASSUME q <= 0 PROVE FALSE
    BY <1>1
  <2>2. q * u <= 0
    BY <1>1, <2>1
  <2> QED
    BY <1>1, <1>2, <2>2
<1>4. q <= c
  <2>1. SUFFICES ASSUME q >= c + 1 PROVE FALSE
    BY <1>1
  <2>2. q * u >= (c + 1) * u
    BY <1>1, <2>1
  <2> QED
    BY <1>1, <1>2, <2>2
<1> QED
  BY <1>1, <1>3, <1>4 DEF q

\* What is asked for fits into a block, and into its units.
LEMMA UnitsFacts ==
  ASSUME NEW bytes \in Requests
  PROVE  /\ bytes \in Nat \ {0} /\ CellSize \in Nat \ {0}
         /\ Units(bytes) \in 1 .. CellsPerBlock
         /\ bytes <= Units(bytes) * CellSize
<1>1. CellSize \in Nat \ {0} /\ CellsPerBlock \in Nat
  BY DHeapAssumption, CellsFacts
<1> DEFINE top == CellsPerBlock * CellSize
<1>2. bytes \in 1 .. top /\ top \in Nat
  BY <1>1, DHeapAssumption
<1> HIDE DEF top
<1>3. bytes \in Nat \ {0} /\ bytes <= top
  BY <1>2
<1>4. Units(bytes) \in 1 .. CellsPerBlock
  BY <1>1, <1>3, UnitsAre DEF Units, top
<1> QED
  BY <1>1, <1>3, <1>4, RoundedUp DEF Units

\* Addresses are those of mcells.
LEMMA AddressFacts ==
  /\ Addresses = {0} \cup MCells /\ Places = BlockAddrs
  /\ \A a \in Addresses : a \in Nat
  /\ 0 \in Blocks /\ 0 \in Offs
<1>1. Addresses = {0} \cup MCells /\ Places = BlockAddrs
  BY DEF Addresses, MCells, Places, BlockAddrs
<1>2. 0 \in Blocks /\ 0 \in Offs
  BY CellsFacts DEF Blocks
<1> QED
  BY <1>1, <1>2, CellsFacts

\* Dividing undoes multiplying.
LEMMA ExactDiv ==
  ASSUME NEW a \in Nat, NEW c \in Nat \ {0}
  PROVE  (a * c) \div c = a
<1> DEFINE n == a * c
           q == n \div c
<1>1. n \in Nat
  OBVIOUS
<1>2. q \in Int /\ q * c <= n /\ n < (q + 1) * c
  <2> HIDE DEF n
  <2> QED
    BY <1>1, SMT
<1> HIDE DEF q
<1>3. (q + 1) * c = q * c + c /\ (a + 1) * c = a * c + c /\ q * c \in Int
  BY <1>2
<1>4. ~(q < a)
  <2>1. SUFFICES ASSUME q + 1 <= a PROVE FALSE
    BY <1>2
  <2>2. (q + 1) * c <= a * c
    BY <1>2, <2>1
  <2>3. (q + 1) * c \in Int
    BY <1>2
  <2> QED
    BY <1>1, <1>2, <2>2, <2>3
<1>5. ~(a < q)
  <2>1. SUFFICES ASSUME a + 1 <= q PROVE FALSE
    BY <1>2
  <2>2. (a + 1) * c <= q * c
    BY <1>2, <2>1
  <2> QED
    BY <1>1, <1>2, <1>3, <2>2
<1> QED
  BY <1>2, <1>4, <1>5 DEF q

\* The hint is a free cell of the least sufficient size.
LEMMA HintFacts ==
  ASSUME HeapOK(heap), NEW n \in 1 .. CellsPerBlock
  PROVE  LET m == Hint(n) IN
         /\ m = Null => \A k \in FreeOf(heap) : heap.desc[k].size < n
         /\ m # Null => /\ m \in FreeOf(heap) /\ n <= heap.desc[m].size
                        /\ \A k \in FreeOf(heap) : n <= heap.desc[k].size => heap.desc[m].size <= heap.desc[k].size
  BY SizeHintFits DEF HeapOK, FreeOK, Hint

\* Where blocks are, and which block has an address.
LEMMA BlockPlaces ==
  ASSUME HeapOK(heap)
  PROVE  /\ \A b \in Blocks : heap.block_addr[b] \in Nat
         /\ \A b \in Blocks : heap.block_addr[b] # 0 => heap.block_addr[b] \in Places
         /\ \A b, c \in Blocks : \A i, j \in Offs :
              heap.block_addr[b] # 0 /\ heap.block_addr[c] # 0
              /\ heap.block_addr[b] + i = heap.block_addr[c] + j => b = c /\ i = j
<1>1. heap \in Heaps /\ BlocksOK(heap)
  BY DEF HeapOK
<1>2. \A b \in Blocks : heap.block_addr[b] \in Nat /\ (heap.block_addr[b] # 0 => heap.block_addr[b] \in Places)
  BY <1>1, HeapFacts DEF BlocksOK
<1>3. ASSUME NEW b \in Blocks, NEW c \in Blocks, NEW i \in Offs, NEW j \in Offs,
             heap.block_addr[b] # 0, heap.block_addr[c] # 0,
             heap.block_addr[b] + i = heap.block_addr[c] + j
      PROVE  b = c /\ i = j
  <2> DEFINE x == heap.block_addr[b]
             y == heap.block_addr[c]
  <2>1. x \in Places /\ y \in Places /\ x \in Nat /\ y \in Nat /\ x + i = y + j
    BY <1>2, <1>3
  <2>2. CellsPerBlock \in Nat /\ i \in 0 .. CellsPerBlock - 1 /\ j \in 0 .. CellsPerBlock - 1
    BY CellsFacts
  <2>3. (x < y => x + CellsPerBlock <= y) /\ (y < x => y + CellsPerBlock <= x)
    BY <2>1, PlacesApart
  <2>4. x = y => b = c
    BY <1>1, <1>3 DEF BlocksOK
  <2> HIDE DEF x, y
  <2> QED
    BY <2>1, <2>2, <2>3, <2>4
<1> QED
  BY <1>2, <1>3

\* BlockIndex finds the one block that has the address, if there is one.
LEMMA BlockIndexFacts ==
  ASSUME HeapOK(heap), NEW addr \in Nat
  PROVE  LET b == BlockIndex(addr) IN
         /\ b \in 0 .. BlockCount
         /\ b # BlockCount => b \in Blocks /\ heap.block_addr[b] # 0 /\ addr - heap.block_addr[b] \in Offs
         /\ \A c \in Blocks : heap.block_addr[c] # 0 /\ addr - heap.block_addr[c] \in Offs => c = b
<1> DEFINE S == {b \in 0 .. BlockCount - 1 : heap.block_addr[b] # 0 /\ addr - heap.block_addr[b] \in Offs}
           Is(b) == /\ b < BlockCount => heap.block_addr[b] # 0 /\ addr - heap.block_addr[b] \in Offs
                    /\ \A c \in 0 .. b - 1 : heap.block_addr[c] = 0 \/ addr - heap.block_addr[c] \notin Offs
<1>1. BlockCount \in Nat /\ Blocks = 0 .. BlockCount - 1
  BY CellsFacts DEF Blocks
<1>2. PICK b \in 0 .. BlockCount : (b < BlockCount => b \in S) /\ \A c \in 0 .. b - 1 : c \notin S
  <2>1. S \in SUBSET (0 .. BlockCount - 1)
    OBVIOUS
  <2> HIDE DEF S
  <2> QED
    BY <1>1, <2>1, FirstIndex
<1>3. Is(b)
  BY <1>1, <1>2
<1> DEFINE x == BlockIndex(addr)
<1>4. x \in 0 .. BlockCount /\ Is(x)
  BY <1>3 DEF BlockIndex
<1> HIDE DEF x, S
<1>5. x # BlockCount => x \in Blocks /\ heap.block_addr[x] # 0 /\ addr - heap.block_addr[x] \in Offs
  BY <1>1, <1>4
<1>6. ASSUME NEW c \in Blocks, heap.block_addr[c] # 0, addr - heap.block_addr[c] \in Offs PROVE c = x
  <2>1. ~(c \in 0 .. x - 1)
    BY <1>4, <1>6
  <2>2. x # BlockCount
    BY <1>1, <1>4, <2>1
  <2> DEFINE i == addr - heap.block_addr[c]
             j == addr - heap.block_addr[x]
  <2>3. heap.block_addr[c] \in Nat /\ heap.block_addr[x] \in Nat
    BY <1>5, <2>2, BlockPlaces
  <2>4. heap.block_addr[c] + i = heap.block_addr[x] + j
    BY <2>3
  <2>5. i \in Offs /\ j \in Offs /\ x \in Blocks /\ heap.block_addr[x] # 0
    BY <1>5, <1>6, <2>2
  <2> HIDE DEF i, j
  <2> QED
    BY <1>6, <2>4, <2>5, BlockPlaces
<1> QED
  BY <1>4, <1>5, <1>6 DEF x

\* The array of slots of a block, when there is one.
LEMMA SlotFacts ==
  ASSUME used_cells \in [Blocks -> {<<>>} \cup [Offs -> Cells]]
  PROVE  /\ \A b \in Blocks : used_cells[b] # <<>> => /\ used_cells[b] \in [Offs -> Cells]
                                                      /\ DOMAIN used_cells[b] = Offs
         /\ \A b \in Blocks : used_cells[b] = <<>> => DOMAIN used_cells[b] = {}
         /\ UsedSet = {m \in MCells : \E b \in Blocks : used_cells[b] # <<>> /\ \E i \in Offs : used_cells[b][i] = m}
<1>1. \A b \in Blocks : used_cells[b] # <<>> => used_cells[b] \in [Offs -> Cells] /\ DOMAIN used_cells[b] = Offs
  OBVIOUS
<1>2. DOMAIN <<>> = {}
  OBVIOUS
<1> QED
  BY <1>1, <1>2 DEF UsedSet

\* The slot of a cell in use.
LEMMA OwnSlot ==
  ASSUME ShapeInv, SlotsInv, NEW m \in UsedSet
  PROVE  LET b == heap.desc[m].index
             i == heap.desc[m].addr - heap.block_addr[b] IN
         m \in MCells /\ b \in Blocks /\ i \in Offs /\ used_cells[b] # <<>> /\ used_cells[b][i] = m
<1>1. PICK b \in Blocks : used_cells[b] # <<>> /\ \E i \in Offs : used_cells[b][i] = m
  BY SlotFacts DEF ShapeInv
<1>2. PICK i \in Offs : used_cells[b][i] = m
  BY <1>1
<1>3. m \in MCells /\ m # Null /\ i \in DOMAIN used_cells[b]
  BY <1>1, SlotFacts, CellsFacts DEF ShapeInv
<1>4. heap.desc[m].index = b /\ heap.desc[m].addr = heap.block_addr[b] + i
  BY <1>2, <1>3 DEF SlotsInv
<1>5. heap.block_addr[b] \in Nat /\ i \in Int
  BY BlockPlaces, CellsFacts DEF ShapeInv
<1> QED
  BY <1>1, <1>2, <1>3, <1>4, <1>5

\* Of cells that are held, no two have one address.
LEMMA HeldApart ==
  ASSUME HeapOK(heap), NEW m \in Allocated(heap), NEW k \in Allocated(heap),
         heap.desc[m].addr = heap.desc[k].addr
  PROVE  m = k
<1>1. heap \in Heaps /\ TilesOK(heap) /\ BlocksOK(heap)
  BY DEF HeapOK
<1>2. heap.desc[m].addr \in Nat /\ heap.desc[m].size \in Nat \ {0}
  BY <1>1, HeldFacts, CellsFacts
<1>3. heap.desc[k].addr \in heap.desc[m].addr .. EndOf(heap.desc[m]) - 1
  BY <1>2 DEF EndOf
<1> QED
  BY <1>1, <1>3, StartsDiffer

-----------------------------------------------------------------------------
(* What the steps have in common. *)

\* The cells in use stay where they are, and so do the blocks that have slots.
Unmoved ==
  /\ \A m \in UsedSet : heap'.desc[m] = heap.desc[m]
  /\ \A b \in Blocks : used_cells[b] # <<>> => heap'.block_addr[b] = heap.block_addr[b]

\* Nothing but new empty slots.
SameSlots ==
  /\ \A b \in Blocks : used_cells[b] # <<>> => used_cells'[b] = used_cells[b]
  /\ \A b \in Blocks : used_cells[b] = <<>> => used_cells'[b] \in {<<>>, Blank}
  /\ used_cells' \in [Blocks -> {<<>>} \cup [Offs -> Cells]]

\* Units that had slots have them still.
LEMMA InSlotsKept ==
  ASSUME Unmoved, \A b \in Blocks : used_cells[b] # <<>> => used_cells'[b] # <<>>
  PROVE  \A a : InSlots(a) => InSlots(a)'
  BY DEF Unmoved, InSlots

\* The cells in use are the same, each in its own slot.
LEMMA SlotsKept ==
  ASSUME ShapeInv, SlotsInv, Unmoved, SameSlots
  PROVE  UsedSet' = UsedSet /\ SlotsInv'
<1>1. /\ \A b \in Blocks : used_cells[b] # <<>> => DOMAIN used_cells[b] = Offs /\ used_cells[b] \in [Offs -> Cells]
      /\ \A b \in Blocks : used_cells[b] = <<>> => DOMAIN used_cells[b] = {}
      /\ UsedSet = {m \in MCells : \E b \in Blocks : used_cells[b] # <<>> /\ \E i \in Offs : used_cells[b][i] = m}
  BY SlotFacts DEF ShapeInv
<1>2. \A b \in Blocks : used_cells[b] = <<>> => \A i \in DOMAIN used_cells'[b] : used_cells'[b][i] = Null
  BY DEF SameSlots, Blank
<1>3. UsedSet' = {m \in MCells : \E b \in Blocks : \E i \in DOMAIN used_cells'[b] : used_cells'[b][i] = m}
  BY DEF UsedSet
<1>4. UsedSet' = UsedSet
  <2>1. ASSUME NEW m \in UsedSet PROVE m \in UsedSet'
    BY <1>1, <1>3 DEF SameSlots
  <2>2. ASSUME NEW m \in UsedSet' PROVE m \in UsedSet
    BY <1>1, <1>2, <1>3, CellsFacts DEF SameSlots
  <2> QED
    BY <2>1, <2>2
<1>5. ASSUME NEW b \in Blocks, NEW i \in DOMAIN used_cells'[b], used_cells'[b][i] # Null
      PROVE  /\ heap'.desc[used_cells'[b][i]].index = b
             /\ heap'.desc[used_cells'[b][i]].addr = heap'.block_addr[b] + i
  <2>1. used_cells[b] # <<>> /\ used_cells'[b] = used_cells[b] /\ i \in Offs
    BY <1>1, <1>2, <1>5 DEF SameSlots
  <2> DEFINE m == used_cells[b][i]
  <2>2. m \in Cells /\ m # Null /\ m \in MCells /\ m \in UsedSet
    BY <1>1, <1>5, <2>1 DEF Cells
  <2>3. heap.desc[m].index = b /\ heap.desc[m].addr = heap.block_addr[b] + i
    BY <1>1, <2>1, <2>2 DEF SlotsInv
  <2> QED
    BY <2>1, <2>2, <2>3 DEF Unmoved
<1>6. SlotsInv'
  BY <1>5 DEF SlotsInv
<1> QED
  BY <1>4, <1>6

\* Regions that stay are still held.
LEMMA LiveKept ==
  ASSUME LiveInv, Unmoved, UsedSet \subseteq UsedSet', live' \subseteq live, wild' = wild,
         \A a : InSlots(a) => InSlots(a)'
  PROVE  LiveInv'
<1>1. \A m \in UsedSet : heap'.desc[m] = heap.desc[m]
  BY DEF Unmoved
<1>2. \A m \in UsedSet : \A bytes : Suits(m, bytes) => Suits(m, bytes)'
  BY <1>1 DEF Suits
<1>3. live' \subseteq [addr : {a * CellSize : a \in Addresses}, size : Requests]
  BY DEF LiveInv
<1>4. \A r \in live' : \E a \in Addresses : r.addr = a * CellSize /\ InSlots(a)'
  BY DEF LiveInv
<1>5. ~wild' => \A r \in live' : \E m \in UsedSet' : r.addr = heap'.desc[m].addr * CellSize /\ Suits(m, r.size)'
  BY <1>1, <1>2 DEF LiveInv
<1>6. ~wild' => \A r, s \in live' : r.addr = s.addr => r = s
  BY DEF LiveInv
<1> QED
  BY <1>3, <1>4, <1>5, <1>6 DEF LiveInv

\* A thread that does nothing.
LEMMA ThreadKept ==
  ASSUME NEW u \in Threads, ThreadInv(u), pc'[u] = pc[u], arg'[u] = arg[u], cell'[u] = cell[u],
         pc[u] = "put" => heap'.desc[cell[u]].size = heap.desc[cell[u]].size,
         \A a : InSlots(a) => InSlots(a)'
  PROVE  ThreadInv(u)'
<1>1. pc[u] = "put" => (Suits(cell[u], arg[u]))'
  BY DEF ThreadInv, Suits
<1>2. pc[u] = "rmv" => arg[u] = 0 \/ InSlots(arg[u])
  BY DEF ThreadInv
<1>3. InSlots(arg[u]) => InSlots(arg[u])'
  BY DEF InSlots
<1> QED
  BY <1>1, <1>2, <1>3 DEF ThreadInv

\* Frees that are under way find what they found before.
LEMMA LegalKept ==
  ASSUME LegalInv, Unmoved, UsedSet \subseteq UsedSet', live' \subseteq live, wild' = wild,
         \A t \in Threads : pc'[t] = "rmv" => pc[t] = "rmv" /\ arg'[t] = arg[t]
  PROVE  LegalInv'
<1> SUFFICES ASSUME ~StaleFrees, NEW t \in Threads, pc'[t] = "rmv", arg'[t] # 0
             PROVE  /\ RegionsAt(arg[t])' = {}
                    /\ \E m \in UsedSet' : heap'.desc[m].addr = arg'[t]
                    /\ \A u \in Threads : pc'[u] = "rmv" /\ arg'[u] = arg'[t] => u = t
  BY DEF LegalInv
<1>1. /\ RegionsAt(arg[t]) = {}
      /\ \E m \in UsedSet : heap.desc[m].addr = arg[t]
      /\ \A u \in Threads : pc[u] = "rmv" /\ arg[u] = arg[t] => u = t
  BY DEF LegalInv
<1>2. RegionsAt(arg[t])' = {}
  BY <1>1 DEF RegionsAt
<1> QED
  BY <1>1, <1>2 DEF Unmoved

-----------------------------------------------------------------------------
(* dheap_malloc *)

\* What dheap_get_free_cell starts from: the heap, or one with a new block.
Prepared(h) ==
  /\ HeapOK(h) /\ Held(h) = Held(heap)
  /\ \A k \in Held(heap) : h.desc[k] = heap.desc[k]
  /\ \A b \in Blocks : used_cells[b] # <<>> => h.block_addr[b] = heap.block_addr[b]
  /\ \A b \in Blocks : used_cells'[b] # <<>> => h.addr_array[b] # <<>>
  /\ \A b \in Occupied(h) : used_cells'[b] # <<>>

\* Taking a cell from a prepared heap keeps the invariant.
LEMMA TakeKeeps ==
  ASSUME IInv, NEW t \in Threads, pc[t] = "get", NEW h, Prepared(h), SameSlots,
         NEW m \in FreeOf(h), Units(arg[t]) <= h.desc[m].size, Take(t, h, m)
  PROVE  IInv'
<1> DEFINE n == Units(arg[t])
           c == TakeCell(h, m, n).cell
<1>1. arg[t] \in Requests /\ cell[t] = Null /\ n \in Nat \ {0} /\ n <= h.desc[m].size
  <2>1. arg[t] \in Requests /\ cell[t] = Null
    BY DEF IInv, ThreadInv
  <2> QED
    BY <2>1, UnitsFacts
<1>2. /\ heap' = TakeCell(h, m, n).heap /\ cell' = [cell EXCEPT ![t] = c]
      /\ pc' = [pc EXCEPT ![t] = "put"] /\ arg' = arg /\ live' = live /\ wild' = wild
  BY DEF Take, Goto
<1>3. HeapOK(h)
  BY DEF Prepared
<1>4. CellTaken(h, m, n, heap', c)
  <2> HIDE DEF n
  <2> QED
    BY <1>1, <1>2, <1>3, TakeCellTakes
<1> HIDE DEF c, n
<1>5. /\ ShapeInv /\ SlotsInv /\ HeldInv /\ LiveInv /\ LegalInv /\ LocalsInv
      /\ \A u \in Threads : ThreadInv(u)
  BY DEF IInv
<1>6. /\ HeapOK(heap') /\ SameArrays(h, heap') /\ heap'.block_addr = h.block_addr
      /\ c \in MCells \ Held(h) /\ Held(heap') = Held(h) \cup {c}
      /\ \A k \in Held(h) : heap'.desc[k] = h.desc[k]
      /\ n <= heap'.desc[c].size /\ heap'.desc[c].size < n + MinCells
      /\ Occupied(heap') \subseteq Occupied(h)
  BY <1>4 DEF CellTaken
<1>7. \A k \in Held(heap) : heap'.desc[k] = heap.desc[k]
  BY <1>6 DEF Prepared
<1>8. Held(heap) = UsedSet \cup InHand /\ UsedSet \cap InHand = {}
      /\ \A u, v \in Threads : cell[u] = cell[v] /\ cell[u] # Null => u = v
  BY <1>5 DEF HeldInv
<1>9. Unmoved
  BY <1>6, <1>7, <1>8 DEF Unmoved, Prepared
<1>10. UsedSet' = UsedSet /\ SlotsInv' /\ \A a : InSlots(a) => InSlots(a)'
  <2>1. \A b \in Blocks : used_cells[b] # <<>> => used_cells'[b] # <<>>
    BY DEF SameSlots
  <2> QED
    BY <1>5, <1>9, <2>1, SlotsKept, InSlotsKept
<1>11. ShapeInv'
  <2>1. \A b \in Blocks : used_cells'[b] # <<>> => heap'.addr_array[b] # <<>>
    BY <1>6 DEF Prepared, SameArrays
  <2>2. \A k \in Allocated(heap') : used_cells'[heap'.desc[k].index] # <<>>
    BY <1>6 DEF Prepared, Occupied
  <2>3. used_cells' \in [Blocks -> {<<>>} \cup [Offs -> Cells]]
    BY DEF SameSlots
  <2> QED
    BY <1>6, <2>1, <2>2, <2>3 DEF ShapeInv
<1>12. cell'[t] = c /\ \A u \in Threads : u # t => cell'[u] = cell[u] /\ pc'[u] = pc[u]
  BY <1>2, <1>5 DEF LocalsInv
<1>13. c \in MCells /\ c # Null /\ c \notin Held(heap)
  BY <1>6, CellsFacts DEF Prepared
<1>14. InHand' = InHand \cup {c}
  <2>1. InHand' = {cell'[u] : u \in Threads} \ {Null}
    BY DEF InHand
  <2>2. \A x \in InHand : \E u \in Threads : u # t /\ cell[u] = x /\ x # Null
    BY <1>1 DEF InHand
  <2> QED
    BY <1>12, <1>13, <2>1, <2>2 DEF InHand
<1>15. \A u \in Threads : cell[u] # Null => cell[u] \in Held(heap)
  BY <1>8 DEF InHand
<1>16. HeldInv'
  <2>1. Held(heap') = UsedSet' \cup InHand' /\ UsedSet' \cap InHand' = {}
    BY <1>6, <1>8, <1>10, <1>13, <1>14 DEF Prepared
  <2>2. \A u, v \in Threads : cell'[u] = cell'[v] /\ cell'[u] # Null => u = v
    BY <1>8, <1>12, <1>13, <1>15
  <2> QED
    BY <2>1, <2>2 DEF HeldInv
<1>17. LiveInv'
  BY <1>2, <1>5, <1>9, <1>10, LiveKept
<1>18. LegalInv'
  <2>1. \A u \in Threads : pc'[u] = "rmv" => pc[u] = "rmv" /\ arg'[u] = arg[u]
    BY <1>2, <1>5 DEF LocalsInv
  <2> QED
    BY <1>2, <1>5, <1>9, <1>10, <2>1, LegalKept
<1>19. LocalsInv'
  BY <1>2, <1>5, <1>13 DEF LocalsInv, Cells
<1>20. ASSUME NEW u \in Threads PROVE ThreadInv(u)'
  <2>1. CASE u = t
    <3>1. pc'[t] = "put"
      BY <1>2, <1>5 DEF LocalsInv
    <3>2. Suits(cell[t], arg[t])'
      BY <1>2, <1>6, <1>12 DEF Suits, n
    <3> QED
      BY <1>1, <1>2, <1>12, <1>13, <2>1, <3>1, <3>2 DEF ThreadInv
  <2>2. CASE u # t
    <3>1. pc[u] = "put" => heap'.desc[cell[u]].size = heap.desc[cell[u]].size
      BY <1>5, <1>7, <1>15 DEF ThreadInv
    <3> QED
      BY <1>2, <1>5, <1>10, <1>12, <2>2, <3>1, ThreadKept
  <2> QED
    BY <2>1, <2>2
<1> QED
  BY <1>10, <1>11, <1>16, <1>17, <1>18, <1>19, <1>20 DEF IInv

\* The step of dheap_get_free_cell when a free cell is large enough.
LEMMA GetFreeCellKeeps ==
  ASSUME IInv, NEW t \in Threads, GetFreeCell(t)
  PROVE  IInv'
<1> DEFINE m == Hint(Units(arg[t]))
<1>1. pc[t] = "get" /\ m # Null /\ Take(t, heap, m) /\ used_cells' = used_cells
  BY DEF GetFreeCell
<1>2. arg[t] \in Requests
  BY <1>1 DEF IInv, ThreadInv
<1>3. ShapeInv /\ HeapOK(heap)
  BY DEF IInv, ShapeInv
<1>4. m \in FreeOf(heap) /\ Units(arg[t]) <= heap.desc[m].size
  BY <1>1, <1>2, <1>3, UnitsFacts, HintFacts
<1>5. Prepared(heap)
  BY <1>1, <1>3 DEF Prepared, ShapeInv, Occupied
<1>6. SameSlots
  BY <1>1, <1>3 DEF SameSlots, ShapeInv
<1> HIDE DEF m
<1> QED
  BY <1>1, <1>4, <1>5, <1>6, TakeKeeps

\* The step of dheap_get_free_cell when it creates a block.
LEMMA GetFromNewBlockKeeps ==
  ASSUME IInv, NEW t \in Threads, GetFromNewBlock(t)
  PROVE  IInv'
<1> DEFINE b == NextFreeBlockIndex(heap)
<1>1. PICK addr \in BlockAddrs :
        LET m == NewCell(heap, addr) IN
        /\ \A c \in Blocks : heap.block_addr[c] # addr
        /\ Take(t, AddFreeCell(FillBlock(RegisterBlock(heap, addr), b, m), m), m)
  BY DEF GetFromNewBlock
<1>2. pc[t] = "get" /\ b # BlockCount /\ used_cells' = [used_cells EXCEPT ![b] = Blank]
  BY DEF GetFromNewBlock
<1> DEFINE m == NewCell(heap, addr)
           g == FillBlock(RegisterBlock(heap, addr), b, m)
           h == AddFreeCell(g, m)
<1>3. ShapeInv /\ HeapOK(heap)
  BY DEF IInv, ShapeInv
<1>4. addr \in Places
  BY AddressFacts
<1>5. /\ b \in Blocks /\ heap.block_addr[b] = 0 /\ heap.addr_array[b] = <<>>
      /\ m \in MCells \ Allocated(heap)
      /\ HeapOK(g) /\ FreeOf(g) = FreeOf(heap) /\ Allocated(g) = Allocated(heap) \cup {m}
      /\ g.block_addr = [heap.block_addr EXCEPT ![b] = addr]
      /\ g.addr_array = [heap.addr_array EXCEPT ![b] = Blank]
      /\ \A k \in MCells \ {m} : g.desc[k] = heap.desc[k]
      /\ \A k \in Allocated(heap) : heap.desc[k].index # b
      /\ g.desc[m] = [addr |-> addr, size |-> CellsPerBlock, index |-> b]
  BY <1>1, <1>2, <1>3, <1>4, BlockFilled
<1>6. Take(t, h, m)
  BY <1>1
<1> HIDE DEF b, m, g, h
<1>7. heap \in Heaps /\ FreeOf(heap) \subseteq Allocated(heap) /\ Allocated(heap) \subseteq MCells
  BY <1>3, AllocatedFacts DEF HeapOK
<1>8. m \in Held(g) /\ Held(g) = Held(heap) \cup {m}
  BY <1>5, <1>7 DEF Held
<1>9. CellFreed(g, m, h)
  BY <1>5, <1>8, AddFreeCellFrees DEF h
<1>10. /\ HeapOK(h) /\ SameArrays(g, h) /\ h.block_addr = g.block_addr
       /\ Held(h) = Held(g) \ {m} /\ m \in FreeOf(h)
       /\ \A k \in Allocated(h) \ {m} : h.desc[k] = g.desc[k]
       /\ g.desc[m].size <= h.desc[m].size
       /\ Occupied(h) \subseteq Occupied(g)
  BY <1>9 DEF CellFreed
<1>11. Blank # <<>> /\ Blank \in [Offs -> Cells]
  <2>1. DOMAIN Blank = Offs /\ DOMAIN <<>> = {}
    BY DEF Blank
  <2> QED
    BY <2>1, AddressFacts DEF Blank, Cells
<1>12. used_cells[b] = <<>> /\ used_cells \in [Blocks -> {<<>>} \cup [Offs -> Cells]]
  BY <1>3, <1>5 DEF ShapeInv
<1>13. used_cells'[b] = Blank /\ \A c \in Blocks : c # b => used_cells'[c] = used_cells[c]
  BY <1>2, <1>5, <1>12
<1>14. SameSlots
  BY <1>2, <1>11, <1>12, <1>13 DEF SameSlots
<1>15. Held(h) = Held(heap) /\ \A k \in Held(heap) : h.desc[k] = heap.desc[k]
  <2>1. Held(h) = Held(heap)
    BY <1>5, <1>8, <1>10 DEF Held
  <2>2. ASSUME NEW k \in Held(heap) PROVE h.desc[k] = heap.desc[k]
    <3>1. k \in Allocated(h) /\ k # m /\ k \in MCells
      BY <1>5, <1>7, <2>1 DEF Held
    <3> QED
      BY <1>5, <1>10, <3>1
  <2> QED
    BY <2>1, <2>2
<1>16. Prepared(h)
  <2>1. \A c \in Blocks : used_cells[c] # <<>> => h.block_addr[c] = heap.block_addr[c]
    <3>1. heap.block_addr \in [Blocks -> Nat]
      BY <1>7 DEF Heaps
    <3> QED
      BY <1>5, <1>10, <1>12, <3>1
  <2>2. \A c \in Blocks : used_cells'[c] # <<>> => h.addr_array[c] # <<>>
    <3>1. heap.addr_array \in [Blocks -> {<<>>} \cup [Offs -> Cells]]
      BY <1>7 DEF Heaps
    <3>2. \A c \in Blocks : used_cells'[c] # <<>> => g.addr_array[c] # <<>>
      BY <1>3, <1>5, <1>11, <1>13, <3>1 DEF ShapeInv
    <3> QED
      BY <1>10, <3>2 DEF SameArrays
  <2>3. \A c \in Occupied(g) : used_cells'[c] # <<>>
    <3>1. ASSUME NEW k \in Allocated(g) PROVE used_cells'[g.desc[k].index] # <<>>
      <4>1. CASE k = m
        BY <1>5, <1>11, <1>13, <4>1
      <4>2. CASE k # m
        <5>1. k \in Allocated(heap) /\ k \in MCells /\ g.desc[k] = heap.desc[k]
          BY <1>5, <1>7, <4>2
        <5>2. used_cells[heap.desc[k].index] # <<>> /\ heap.desc[k].index \in Blocks
          BY <1>3, <1>7, <5>1, HeapFacts DEF ShapeInv
        <5> QED
          BY <1>12, <1>13, <5>1, <5>2
      <4> QED
        BY <4>1, <4>2
    <3> QED
      BY <3>1 DEF Occupied
  <2> QED
    BY <1>10, <1>15, <2>1, <2>2, <2>3 DEF Prepared
<1>17. Units(arg[t]) <= h.desc[m].size
  <2>1. Units(arg[t]) \in 1 .. CellsPerBlock
    BY <1>2, UnitsFacts DEF IInv, ThreadInv
  <2>2. h.desc[m].size \in Nat /\ CellsPerBlock <= h.desc[m].size
    <3>1. h \in Heaps
      BY <1>10 DEF HeapOK
    <3> QED
      BY <1>5, <1>10, <3>1, HeapFacts
  <2> QED
    BY <2>1, <2>2, CellsFacts
<1> QED
  BY <1>2, <1>6, <1>10, <1>14, <1>16, <1>17, TakeKeeps

\* Steps of one thread that leave the heap and its slots alone.
LEMMA ThreadStepKeeps ==
  ASSUME IInv, NEW t \in Threads, UNCHANGED <<heap, used_cells, cell, wild>>, live' \subseteq live,
         NEW l \in {"idle", "get", "put", "rmv", "add"}, NEW a \in Addresses \cup Requests,
         pc' = [pc EXCEPT ![t] = l], arg' = [arg EXCEPT ![t] = a],
         ThreadInv(t)', LegalInv'
  PROVE  IInv'
<1>1. /\ ShapeInv /\ SlotsInv /\ HeldInv /\ LiveInv /\ LegalInv /\ LocalsInv
      /\ \A u \in Threads : ThreadInv(u)
  BY DEF IInv
<1>2. ShapeInv' /\ SlotsInv' /\ UsedSet' = UsedSet /\ \A x : InSlots(x) => InSlots(x)'
  BY <1>1 DEF ShapeInv, SlotsInv, UsedSet, InSlots
<1>3. HeldInv'
  BY <1>1, <1>2 DEF HeldInv, InHand
<1>4. LiveInv'
  <2>1. Unmoved
    BY DEF Unmoved
  <2> QED
    BY <1>1, <1>2, <2>1, LiveKept
<1>5. LocalsInv'
  BY <1>1 DEF LocalsInv
<1>6. ASSUME NEW u \in Threads, u # t PROVE ThreadInv(u)'
  <2>1. pc'[u] = pc[u] /\ arg'[u] = arg[u] /\ cell'[u] = cell[u]
    BY <1>1, <1>6 DEF LocalsInv
  <2>2. pc[u] = "put" => heap'.desc[cell[u]].size = heap.desc[cell[u]].size
    OBVIOUS
  <2> QED
    BY <1>1, <1>2, <1>6, <2>1, <2>2, ThreadKept
<1> QED
  BY <1>2, <1>3, <1>4, <1>5, <1>6 DEF IInv

\* The step that asks for memory.
LEMMA MallocKeeps ==
  ASSUME IInv, NEW t \in Threads, NEW size \in Requests, Malloc(t, size)
  PROVE  IInv'
<1>1. /\ pc[t] = "idle" /\ pc' = [pc EXCEPT ![t] = "get"] /\ arg' = [arg EXCEPT ![t] = size]
      /\ UNCHANGED <<heap, used_cells, cell, live, wild>>
  BY DEF Malloc, Goto
<1>2. LocalsInv /\ ThreadInv(t) /\ LegalInv
  BY DEF IInv
<1>3. ThreadInv(t)'
  BY <1>1, <1>2 DEF LocalsInv, ThreadInv
<1>4. LegalInv'
  <2>1. Unmoved /\ UsedSet' = UsedSet
    BY <1>1 DEF Unmoved, UsedSet
  <2>2. \A u \in Threads : pc'[u] = "rmv" => pc[u] = "rmv" /\ arg'[u] = arg[u]
    BY <1>1, <1>2 DEF LocalsInv
  <2> QED
    BY <1>1, <1>2, <2>1, <2>2, LegalKept
<1> QED
  BY <1>1, <1>3, <1>4, ThreadStepKeeps

\* A thread that goes back to where it came from without a cell.
LEMMA GivesUpKeeps ==
  ASSUME IInv, NEW t \in Threads, pc[t] \in {"get", "rmv"},
         pc' = [pc EXCEPT ![t] = "idle"], arg' = [arg EXCEPT ![t] = 0],
         UNCHANGED <<heap, used_cells, cell, live, wild>>
  PROVE  IInv'
<1>1. LocalsInv /\ ThreadInv(t) /\ LegalInv
  BY DEF IInv
<1>2. ThreadInv(t)'
  BY <1>1 DEF LocalsInv, ThreadInv
<1>3. LegalInv'
  <2>1. Unmoved /\ UsedSet' = UsedSet
    BY DEF Unmoved, UsedSet
  <2>2. \A u \in Threads : pc'[u] = "rmv" => pc[u] = "rmv" /\ arg'[u] = arg[u]
    BY <1>1 DEF LocalsInv
  <2> QED
    BY <1>1, <2>1, <2>2, LegalKept
<1> QED
  BY <1>2, <1>3, ThreadStepKeeps, AddressFacts

\* The step of dheap_get_free_cell when a block remains without its cell.
LEMMA GetBrokenBlockKeeps ==
  ASSUME IInv, NEW t \in Threads, GetBrokenBlock(t)
  PROVE  IInv'
<1> DEFINE b == NextFreeBlockIndex(heap)
<1>1. PICK addr \in BlockAddrs, array, used \in {<<>>, Blank} :
        /\ array \in {<<>>, Blank}
        /\ \A c \in Blocks : heap.block_addr[c] # addr
        /\ array = <<>> => used = <<>>
        /\ heap' = [RegisterBlock(heap, addr) EXCEPT !.addr_array[b] = array]
        /\ used_cells' = [used_cells EXCEPT ![b] = used]
  BY DEF GetBrokenBlock
<1>2. /\ pc[t] = "get" /\ b # BlockCount /\ pc' = [pc EXCEPT ![t] = "idle"]
      /\ arg' = [arg EXCEPT ![t] = 0] /\ cell' = cell /\ live' = live /\ wild' = wild
  BY DEF GetBrokenBlock, Goto
<1>3. /\ ShapeInv /\ SlotsInv /\ HeldInv /\ LiveInv /\ LegalInv /\ LocalsInv
      /\ \A u \in Threads : ThreadInv(u)
  BY DEF IInv
<1>4. HeapOK(heap) /\ heap \in Heaps /\ BlocksOK(heap) /\ FreeOf(heap) \subseteq Allocated(heap)
      /\ Allocated(heap) \subseteq MCells
  BY <1>3, AllocatedFacts DEF ShapeInv, HeapOK
<1>5. b \in Blocks /\ heap.block_addr[b] = 0 /\ heap.addr_array[b] = <<>>
  BY <1>2, <1>4, NextFreeBlockIndexFacts DEF BlocksOK
<1>6. heap' = Registered(heap, b, addr, array)
  <2>1. RegisterBlock(heap, addr) = [heap EXCEPT !.block_addr[b] = addr]
    BY DEF RegisterBlock
  <2> HIDE DEF b
  <2> QED
    BY <1>1, <2>1 DEF Registered
<1> HIDE DEF b
<1>7. /\ HeapOK(heap') /\ FreeOf(heap') = FreeOf(heap) /\ Allocated(heap') = Allocated(heap)
      /\ heap'.desc = heap.desc
      /\ heap'.block_addr = [heap.block_addr EXCEPT ![b] = addr]
      /\ heap'.addr_array = [heap.addr_array EXCEPT ![b] = array]
      /\ \A m \in Allocated(heap) : heap.desc[m].index # b
  <2>1. addr \in Places /\ (array = <<>> \/ array = Blank) /\ \A c \in Blocks : heap.block_addr[c] # addr
    BY <1>1, AddressFacts
  <2>2. HeapOK(heap) /\ b \in Blocks /\ heap.block_addr[b] = 0
    BY <1>4, <1>5
  <2> DEFINE g == Registered(heap, b, addr, array)
  <2>3. /\ HeapOK(g) /\ FreeOf(g) = FreeOf(heap) /\ Allocated(g) = Allocated(heap)
        /\ g.desc = heap.desc
        /\ g.block_addr = [heap.block_addr EXCEPT ![b] = addr]
        /\ g.addr_array = [heap.addr_array EXCEPT ![b] = array]
        /\ \A m \in Allocated(heap) : heap.desc[m].index # b
    BY <2>1, <2>2, BlockRegistered
  <2> HIDE DEF g
  <2>4. heap' = g
    BY <1>6 DEF g
  <2> QED
    BY <2>3, <2>4
<1>8. Blank # <<>> /\ Blank \in [Offs -> Cells]
  <2>1. DOMAIN Blank = Offs /\ DOMAIN <<>> = {}
    BY DEF Blank
  <2> QED
    BY <2>1, AddressFacts DEF Blank, Cells
<1>9. used_cells[b] = <<>> /\ used_cells \in [Blocks -> {<<>>} \cup [Offs -> Cells]]
  BY <1>3, <1>5 DEF ShapeInv
<1>10. used_cells'[b] = used /\ \A c \in Blocks : c # b => used_cells'[c] = used_cells[c]
  BY <1>1, <1>5, <1>9
<1>11. SameSlots
  BY <1>1, <1>8, <1>9, <1>10 DEF SameSlots
<1>12. Unmoved
  <2>1. heap.block_addr \in [Blocks -> Nat]
    BY <1>4 DEF Heaps
  <2> QED
    BY <1>5, <1>7, <1>9, <2>1 DEF Unmoved
<1>13. UsedSet' = UsedSet /\ SlotsInv' /\ \A a : InSlots(a) => InSlots(a)'
  <2>1. \A c \in Blocks : used_cells[c] # <<>> => used_cells'[c] # <<>>
    BY <1>11 DEF SameSlots
  <2> QED
    BY <1>3, <1>11, <1>12, <2>1, SlotsKept, InSlotsKept
<1>14. ShapeInv'
  <2>1. heap.addr_array \in [Blocks -> {<<>>} \cup [Offs -> Cells]]
    BY <1>4 DEF Heaps
  <2>2. \A c \in Blocks : used_cells'[c] # <<>> => heap'.addr_array[c] # <<>>
    BY <1>1, <1>3, <1>5, <1>7, <1>8, <1>10, <2>1 DEF ShapeInv
  <2>3. \A m \in Allocated(heap') : used_cells'[heap'.desc[m].index] # <<>>
    <3>1. ASSUME NEW m \in Allocated(heap) PROVE used_cells'[heap.desc[m].index] # <<>>
      <4>1. used_cells[heap.desc[m].index] # <<>> /\ heap.desc[m].index \in Blocks /\ heap.desc[m].index # b
        BY <1>3, <1>4, <1>7, HeapFacts DEF ShapeInv
      <4> QED
        BY <1>10, <4>1
    <3> QED
      BY <1>7, <3>1
  <2> QED
    BY <1>7, <1>11, <2>2, <2>3 DEF ShapeInv, SameSlots
<1>15. HeldInv'
  BY <1>2, <1>3, <1>7, <1>13 DEF HeldInv, Held, InHand
<1>16. LiveInv' /\ LegalInv'
  <2>1. \A u \in Threads : pc'[u] = "rmv" => pc[u] = "rmv" /\ arg'[u] = arg[u]
    BY <1>2, <1>3 DEF LocalsInv
  <2> QED
    BY <1>2, <1>3, <1>12, <1>13, <2>1, LiveKept, LegalKept
<1>17. LocalsInv'
  BY <1>2, <1>3, AddressFacts DEF LocalsInv
<1>18. ASSUME NEW u \in Threads PROVE ThreadInv(u)'
  <2>1. CASE u = t
    BY <1>2, <1>3, <2>1 DEF LocalsInv, ThreadInv
  <2>2. CASE u # t
    <3>1. pc'[u] = pc[u] /\ arg'[u] = arg[u] /\ cell'[u] = cell[u]
      BY <1>2, <1>3, <2>2 DEF LocalsInv
    <3>2. pc[u] = "put" => heap'.desc[cell[u]].size = heap.desc[cell[u]].size
      BY <1>7
    <3> QED
      BY <1>3, <1>13, <3>1, <3>2, ThreadKept
  <2> QED
    BY <2>1, <2>2
<1> QED
  BY <1>13, <1>14, <1>15, <1>16, <1>17, <1>18 DEF IInv

\* Addresses of different units differ in bytes, too.
LEMMA SameUnit ==
  ASSUME NEW a \in Nat, NEW b \in Nat, NEW c \in Nat \ {0}, a * c = b * c
  PROVE  a = b
<1>1. ASSUME NEW x \in Nat, NEW y \in Nat, x < y PROVE x * c < y * c
  <2>1. (x + 1) * c <= y * c
    BY <1>1
  <2>2. (x + 1) * c = x * c + c /\ x * c \in Nat /\ y * c \in Nat
    OBVIOUS
  <2> QED
    BY <2>1, <2>2
<1>2. a * c \in Nat /\ b * c \in Nat
  OBVIOUS
<1> QED
  BY <1>1, <1>2

\* The slot of a cell in hand is there, and empty.
LEMMA CellInHand ==
  ASSUME IInv, NEW t \in Threads, cell[t] # Null
  PROVE  LET m == cell[t]
             b == heap.desc[m].index
             i == heap.desc[m].addr - heap.block_addr[b] IN
         /\ m \in Held(heap) /\ m \in Allocated(heap) /\ m \in MCells /\ m \notin UsedSet
         /\ b \in Blocks /\ i \in Offs /\ used_cells[b] # <<>> /\ used_cells[b] \in [Offs -> Cells]
         /\ heap.desc[m].addr \in MCells /\ heap.block_addr[b] \in Nat
         /\ used_cells[b][i] = Null
<1> DEFINE m == cell[t]
           b == heap.desc[m].index
           i == heap.desc[m].addr - heap.block_addr[b]
<1>1. ShapeInv /\ HeldInv /\ SlotsInv
  BY DEF IInv
<1>2. m \in InHand
  BY DEF InHand
<1>3. m \in Held(heap) /\ m \in Allocated(heap) /\ m \notin UsedSet
  BY <1>1, <1>2 DEF HeldInv, Held
<1>4. heap \in Heaps /\ TilesOK(heap) /\ BlocksOK(heap) /\ HeapOK(heap)
  BY <1>1 DEF ShapeInv, HeapOK
<1>5. /\ m \in MCells /\ b \in Blocks /\ heap.block_addr[b] \in Places /\ heap.block_addr[b] \in Nat
      /\ heap.desc[m].addr \in Nat /\ i \in Offs
  BY <1>3, <1>4, HeldFacts
<1>6. heap.desc[m].addr \in MCells
  <2>1. heap.block_addr[b] + i \in MCells
    BY <1>5, PlacesApart
  <2>2. heap.block_addr[b] + i = heap.desc[m].addr
    BY <1>5
  <2> QED
    BY <2>1, <2>2
<1>7. used_cells[b] # <<>> /\ used_cells[b] \in [Offs -> Cells] /\ DOMAIN used_cells[b] = Offs
  BY <1>1, <1>3, <1>5, SlotFacts DEF ShapeInv
<1>8. used_cells[b][i] = Null
  <2> DEFINE k == used_cells[b][i]
  <2>1. SUFFICES ASSUME k # Null PROVE FALSE
    OBVIOUS
  <2>2. heap.desc[k].addr = heap.block_addr[b] + i
    BY <1>1, <1>5, <1>7, <2>1 DEF SlotsInv
  <2>3. k \in UsedSet
    BY <1>1, <1>5, <1>7, <2>1, SlotFacts DEF ShapeInv, Cells
  <2>4. heap.desc[k].addr = heap.desc[m].addr
    <3>1. heap.block_addr[b] + i = heap.desc[m].addr
      BY <1>5
    <3> HIDE DEF k, i
    <3> QED
      BY <2>2, <3>1
  <2>5. k \in Allocated(heap)
    BY <1>1, <2>3 DEF HeldInv, Held
  <2> HIDE DEF k, m
  <2> QED
    BY <1>3, <1>4, <2>3, <2>4, <2>5, HeldApart
<1> QED
  BY <1>3, <1>5, <1>6, <1>7, <1>8

\* One slot of a block that has slots is written.
SlotSet(b, i, m) ==
  /\ used_cells' \in [Blocks -> {<<>>} \cup [Offs -> Cells]]
  /\ used_cells'[b][i] = m /\ DOMAIN used_cells'[b] = Offs /\ used_cells'[b] \in [Offs -> Cells]
  /\ \A j \in Offs : j # i => used_cells'[b][j] = used_cells[b][j]
  /\ \A c \in Blocks : c # b => used_cells'[c] = used_cells[c]
  /\ \A c \in Blocks : used_cells'[c] = <<>> <=> used_cells[c] = <<>>

\* What an assignment to one slot does to the slots.
LEMMA SlotIsSet ==
  ASSUME used_cells \in [Blocks -> {<<>>} \cup [Offs -> Cells]],
         NEW b \in Blocks, used_cells[b] # <<>>, NEW i \in Offs, NEW m \in Cells,
         used_cells' = [used_cells EXCEPT ![b][i] = m]
  PROVE  SlotSet(b, i, m)
<1> DEFINE row == [used_cells[b] EXCEPT ![i] = m]
<1>1. used_cells[b] \in [Offs -> Cells]
  OBVIOUS
<1>2. row \in [Offs -> Cells] /\ row[i] = m /\ \A j \in Offs : j # i => row[j] = used_cells[b][j]
  BY <1>1
<1>3. used_cells' = [used_cells EXCEPT ![b] = row]
  OBVIOUS
<1>4. row # <<>>
  <2>1. DOMAIN row = Offs /\ DOMAIN <<>> = {}
    BY <1>2
  <2> QED
    BY <2>1
<1> HIDE DEF row
<1>5. used_cells'[b] = row /\ \A c \in Blocks : c # b => used_cells'[c] = used_cells[c]
  BY <1>3
<1>6. used_cells' \in [Blocks -> {<<>>} \cup [Offs -> Cells]]
  BY <1>2, <1>3
<1>7. DOMAIN row = Offs
  BY <1>2
<1>8. \A c \in Blocks : used_cells'[c] = <<>> <=> used_cells[c] = <<>>
  BY <1>4, <1>5
<1> QED
  BY <1>2, <1>5, <1>6, <1>7, <1>8 DEF SlotSet

\* The step of dheap_put_used_cell.
LEMMA PutUsedCellKeeps ==
  ASSUME IInv, NEW t \in Threads, PutUsedCell(t)
  PROVE  IInv'
<1> DEFINE m == cell[t]
           d == heap.desc[m]
           b == d.index
           i == d.addr - heap.block_addr[b]
           r == [addr |-> d.addr * CellSize, size |-> arg[t]]
<1>1. /\ pc[t] = "put" /\ used_cells' = [used_cells EXCEPT ![b][i] = m]
      /\ live' = live \cup {r} /\ cell' = [cell EXCEPT ![t] = Null] /\ arg' = [arg EXCEPT ![t] = 0]
      /\ pc' = [pc EXCEPT ![t] = "idle"] /\ heap' = heap /\ wild' = wild
  BY DEF PutUsedCell, Goto, AddrIndex
<1>2. /\ ShapeInv /\ SlotsInv /\ HeldInv /\ LiveInv /\ LegalInv /\ LocalsInv
      /\ \A u \in Threads : ThreadInv(u)
  BY DEF IInv
<1>3. arg[t] \in Requests /\ m # Null /\ Suits(m, arg[t])
  BY <1>1, <1>2 DEF ThreadInv
<1>4. /\ m \in Held(heap) /\ m \in Allocated(heap) /\ m \in MCells /\ m \notin UsedSet
      /\ b \in Blocks /\ i \in Offs /\ used_cells[b] # <<>> /\ used_cells[b] \in [Offs -> Cells]
      /\ d.addr \in MCells /\ heap.block_addr[b] \in Nat /\ used_cells[b][i] = Null
  BY <1>3, CellInHand
<1>5. d.addr \in Nat /\ d.addr = heap.block_addr[b] + i /\ i \in Int
  <2>1. d.addr \in Nat /\ heap.block_addr[b] \in Nat
    BY <1>4, CellsFacts
  <2> HIDE DEF d
  <2> QED
    BY <2>1
<1>6. /\ used_cells \in [Blocks -> {<<>>} \cup [Offs -> Cells]]
      /\ \A c \in Blocks : used_cells[c] # <<>> => DOMAIN used_cells[c] = Offs /\ used_cells[c] \in [Offs -> Cells]
      /\ \A c \in Blocks : used_cells[c] = <<>> => DOMAIN used_cells[c] = {}
      /\ UsedSet = {k \in MCells : \E c \in Blocks : used_cells[c] # <<>> /\ \E j \in Offs : used_cells[c][j] = k}
  BY <1>2, SlotFacts DEF ShapeInv
<1> HIDE DEF m, i, r, d
<1>7. SlotSet(b, i, m)
  <2> HIDE DEF b
  <2> QED
    BY <1>1, <1>4, <1>6, SlotIsSet DEF Cells
<1>8. /\ used_cells' \in [Blocks -> {<<>>} \cup [Offs -> Cells]]
      /\ used_cells'[b][i] = m /\ DOMAIN used_cells'[b] = Offs /\ used_cells'[b] \in [Offs -> Cells]
      /\ \A j \in Offs : j # i => used_cells'[b][j] = used_cells[b][j]
      /\ \A c \in Blocks : c # b => used_cells'[c] = used_cells[c]
      /\ \A c \in Blocks : used_cells'[c] = <<>> <=> used_cells[c] = <<>>
  BY <1>7 DEF SlotSet
<1> HIDE DEF b
<1>9. UsedSet' = UsedSet \cup {m}
  <2>1. UsedSet' = {k \in MCells : \E c \in Blocks : \E j \in DOMAIN used_cells'[c] : used_cells'[c][j] = k}
    BY DEF UsedSet
  <2>2. ASSUME NEW k \in UsedSet PROVE k \in UsedSet'
    <3>1. PICK c \in Blocks : used_cells[c] # <<>> /\ \E j \in Offs : used_cells[c][j] = k
      BY <1>6
    <3>2. PICK j \in Offs : used_cells[c][j] = k
      BY <3>1
    <3>3. j \in DOMAIN used_cells'[c] /\ used_cells'[c][j] = k
      <4>1. k # Null /\ k \in MCells
        BY <1>6, CellsFacts
      <4> QED
        BY <1>4, <1>6, <1>8, <3>1, <3>2, <4>1
    <3> QED
      BY <1>6, <2>1, <3>3
  <2>3. m \in UsedSet'
    BY <1>4, <1>8, <2>1
  <2>4. ASSUME NEW k \in UsedSet', k # m PROVE k \in UsedSet
    BY <1>4, <1>6, <1>8, <2>1, <2>4
  <2> QED
    BY <2>2, <2>3, <2>4
<1>10. SlotsInv'
  <2>1. ASSUME NEW c \in Blocks, NEW j \in DOMAIN used_cells'[c], used_cells'[c][j] # Null
        PROVE  /\ heap.desc[used_cells'[c][j]].index = c
               /\ heap.desc[used_cells'[c][j]].addr = heap.block_addr[c] + j
    <3>1. CASE c = b /\ j = i
      BY <1>5, <1>8, <3>1 DEF b, d
    <3>2. CASE ~(c = b /\ j = i)
      BY <1>2, <1>4, <1>6, <1>8, <2>1, <3>2 DEF SlotsInv
    <3> QED
      BY <3>1, <3>2
  <2> QED
    BY <1>1, <2>1 DEF SlotsInv
<1>11. ShapeInv'
  <2>1. \A c \in Blocks : used_cells'[c] # <<>> => heap'.addr_array[c] # <<>>
    BY <1>1, <1>2, <1>8 DEF ShapeInv
  <2>2. \A k \in Allocated(heap) : heap.desc[k].index \in Blocks
    BY <1>2, HeapFacts, AllocatedFacts DEF ShapeInv, HeapOK
  <2> QED
    BY <1>1, <1>2, <1>8, <2>1, <2>2 DEF ShapeInv
<1>12. cell'[t] = Null /\ \A u \in Threads : u # t => cell'[u] = cell[u] /\ pc'[u] = pc[u] /\ arg'[u] = arg[u]
  BY <1>1, <1>2 DEF LocalsInv
<1>13. InHand' = InHand \ {m}
  <2>1. InHand' = {cell'[u] : u \in Threads} \ {Null}
    BY DEF InHand
  <2>2. \A u \in Threads : cell[u] = m => u = t
    BY <1>2, <1>3 DEF HeldInv, m
  <2> QED
    BY <1>3, <1>12, <2>1, <2>2 DEF InHand, m
<1>14. HeldInv'
  <2>1. m \in InHand
    BY <1>3 DEF InHand, m
  <2>2. \A u, v \in Threads : cell'[u] = cell'[v] /\ cell'[u] # Null => u = v
    BY <1>2, <1>12 DEF HeldInv
  <2> QED
    BY <1>1, <1>2, <1>9, <1>13, <2>1, <2>2 DEF HeldInv
<1>15. \A a : InSlots(a) => InSlots(a)'
  BY <1>1, <1>8 DEF InSlots
<1>16. \A k \in UsedSet : heap.desc[k].addr # d.addr /\ heap.desc[k].addr \in Nat
  <2>1. ASSUME NEW k \in UsedSet PROVE heap.desc[k].addr # d.addr /\ heap.desc[k].addr \in Nat
    <3>1. k \in Allocated(heap) /\ k # m
      BY <1>2, <1>4 DEF HeldInv, Held
    <3>2. HeapOK(heap) /\ heap \in Heaps /\ k \in MCells
      BY <1>2, <3>1, AllocatedFacts DEF ShapeInv, HeapOK
    <3> QED
      BY <1>4, <3>1, <3>2, HeldApart, HeapFacts DEF d
  <2> QED
    BY <2>1
<1>17. CellSize \in Nat \ {0}
  BY DHeapAssumption
<1>18. r.addr = d.addr * CellSize /\ r.size = arg[t] /\ d.addr \in Addresses
  BY <1>4, AddressFacts DEF r
<1>19. LiveInv'
  <2>1. live' \subseteq [addr : {a * CellSize : a \in Addresses}, size : Requests]
    BY <1>1, <1>2, <1>3, <1>18 DEF LiveInv, r
  <2>2. InSlots(d.addr)
    BY <1>4, <1>5 DEF InSlots, i
  <2>3. \A s \in live' : \E a \in Addresses : s.addr = a * CellSize /\ InSlots(a)'
    BY <1>1, <1>2, <1>15, <1>18, <2>2 DEF LiveInv
  <2>5. ~wild' => \A s \in live' : \E k \in UsedSet' : s.addr = heap'.desc[k].addr * CellSize /\ Suits(k, s.size)'
    <3>1. r.addr = heap.desc[m].addr * CellSize /\ Suits(m, r.size)
      BY <1>3, <1>18 DEF d
    <3>2. ~wild => \A s \in live' : \E k \in UsedSet' : s.addr = heap.desc[k].addr * CellSize /\ Suits(k, s.size)
      BY <1>1, <1>2, <1>9, <3>1 DEF LiveInv
    <3> QED
      BY <1>1, <3>2 DEF Suits
  <2>6. ASSUME ~wild, NEW s \in live PROVE s.addr # r.addr
    <3>1. PICK k \in UsedSet : s.addr = heap.desc[k].addr * CellSize
      BY <1>2, <2>6 DEF LiveInv
    <3> QED
      BY <1>5, <1>16, <1>17, <1>18, <3>1, SameUnit
  <2>7. ~wild' => \A s, x \in live' : s.addr = x.addr => s = x
    BY <1>1, <1>2, <2>6 DEF LiveInv
  <2> QED
    BY <2>1, <2>3, <2>5, <2>7 DEF LiveInv
<1>20. LegalInv'
  <2> SUFFICES ASSUME ~StaleFrees, NEW u \in Threads, pc'[u] = "rmv", arg'[u] # 0
               PROVE  /\ RegionsAt(arg[u])' = {}
                      /\ \E k \in UsedSet' : heap'.desc[k].addr = arg'[u]
                      /\ \A v \in Threads : pc'[v] = "rmv" /\ arg'[v] = arg'[u] => v = u
    BY <1>1, <1>2 DEF LegalInv
  <2>1. u # t /\ pc[u] = "rmv" /\ arg'[u] = arg[u] /\ pc'[t] # "rmv"
    BY <1>1, <1>2, <1>12 DEF LocalsInv
  <2>2. /\ RegionsAt(arg[u]) = {}
        /\ \E k \in UsedSet : heap.desc[k].addr = arg[u]
        /\ \A v \in Threads : pc[v] = "rmv" /\ arg[v] = arg[u] => v = u
    BY <1>2, <2>1 DEF LegalInv
  <2>3. r.addr # arg[u] * CellSize
    BY <1>5, <1>16, <1>17, <1>18, <2>2, SameUnit
  <2>4. RegionsAt(arg[u])' = {}
    BY <1>1, <2>1, <2>2, <2>3 DEF RegionsAt
  <2>5. \A v \in Threads : pc'[v] = "rmv" /\ arg'[v] = arg'[u] => v = u
    BY <1>12, <2>1, <2>2
  <2> QED
    BY <1>1, <1>9, <2>1, <2>2, <2>4, <2>5
<1>21. LocalsInv'
  BY <1>1, <1>2, AddressFacts DEF LocalsInv, Cells
<1>22. ASSUME NEW u \in Threads PROVE ThreadInv(u)'
  <2>1. CASE u = t
    BY <1>1, <1>2, <1>12, <2>1 DEF LocalsInv, ThreadInv
  <2>2. CASE u # t
    <3>1. pc[u] = "put" => heap'.desc[cell[u]].size = heap.desc[cell[u]].size
      BY <1>1
    <3> QED
      BY <1>2, <1>12, <1>15, <2>2, <3>1, ThreadKept
  <2> QED
    BY <2>1, <2>2
<1> QED
  BY <1>10, <1>11, <1>14, <1>19, <1>20, <1>21, <1>22 DEF IInv

-----------------------------------------------------------------------------
(* dheap_free *)

\* The step of dheap_rmv_used_cell, the exchange: no other slot has the cell.
LEMMA RmvUsedCellKeeps ==
  ASSUME IInv, NEW t \in Threads, RmvUsedCell(t)
  PROVE  IInv'
<1> DEFINE a == arg[t]
           b == BlockIndex(a)
           i == a - heap.block_addr[b]
           m == used_cells[b][i]
<1>1. /\ pc[t] = "rmv" /\ b # BlockCount /\ used_cells' = [used_cells EXCEPT ![b][i] = Null]
      /\ cell' = [cell EXCEPT ![t] = m] /\ wild' = (wild \/ (m # Null /\ RegionsAt(a) # {}))
      /\ pc' = [pc EXCEPT ![t] = IF m = Null THEN "idle" ELSE "add"]
      /\ arg' = [arg EXCEPT ![t] = 0] /\ heap' = heap /\ live' = live
  BY DEF RmvUsedCell, Exchanged, Goto
<1>2. /\ ShapeInv /\ SlotsInv /\ HeldInv /\ LiveInv /\ LegalInv /\ LocalsInv
      /\ \A u \in Threads : ThreadInv(u)
  BY DEF IInv
<1>3. HeapOK(heap) /\ heap \in Heaps /\ BlocksOK(heap)
  BY <1>2 DEF ShapeInv, HeapOK
<1>4. a \in Addresses /\ a \in Nat /\ cell[t] = Null /\ (a = 0 \/ InSlots(a))
  BY <1>1, <1>2, AddressFacts DEF ThreadInv
<1> HIDE DEF a
<1>5. b \in Blocks /\ heap.block_addr[b] # 0 /\ i \in Offs
  BY <1>1, <1>3, <1>4, BlockIndexFacts
<1>6. a = heap.block_addr[b] + i /\ a # 0 /\ heap.block_addr[b] \in Nat /\ i \in Nat
  <2>1. heap.block_addr[b] \in Nat /\ i \in Nat
    BY <1>3, <1>5, BlockPlaces, CellsFacts
  <2> QED
    BY <1>4, <1>5, <2>1
<1>7. used_cells[b] # <<>> /\ used_cells[b] \in [Offs -> Cells]
  <2>1. PICK c \in Blocks : used_cells[c] # <<>> /\ a - heap.block_addr[c] \in Offs
    BY <1>4, <1>6 DEF InSlots
  <2>2. heap.block_addr[c] # 0
    BY <1>2, <1>3, <2>1 DEF ShapeInv, BlocksOK
  <2>3. c = b
    BY <1>3, <1>4, <2>1, <2>2, BlockIndexFacts
  <2> QED
    BY <1>2, <2>1, <2>3, SlotFacts DEF ShapeInv
<1>8. m \in Cells
  BY <1>5, <1>7
<1> HIDE DEF m, i, b
<1>9. SlotSet(b, i, Null)
  BY <1>1, <1>2, <1>5, <1>7, SlotIsSet DEF ShapeInv, Cells
<1>10. /\ used_cells' \in [Blocks -> {<<>>} \cup [Offs -> Cells]]
       /\ used_cells'[b][i] = Null /\ DOMAIN used_cells'[b] = Offs
       /\ \A j \in Offs : j # i => used_cells'[b][j] = used_cells[b][j]
       /\ \A c \in Blocks : c # b => used_cells'[c] = used_cells[c]
       /\ \A c \in Blocks : used_cells'[c] = <<>> <=> used_cells[c] = <<>>
  BY <1>9 DEF SlotSet
<1>11. /\ \A c \in Blocks : used_cells[c] # <<>> => DOMAIN used_cells[c] = Offs
       /\ \A c \in Blocks : used_cells[c] = <<>> => DOMAIN used_cells[c] = {}
       /\ UsedSet = {k \in MCells : \E c \in Blocks : used_cells[c] # <<>> /\ \E j \in Offs : used_cells[c][j] = k}
       /\ UsedSet' = {k \in MCells : \E c \in Blocks : \E j \in DOMAIN used_cells'[c] : used_cells'[c][j] = k}
  BY <1>2, SlotFacts DEF ShapeInv, UsedSet
<1>12. \A c \in Blocks : \A j \in DOMAIN used_cells'[c] :
         used_cells'[c][j] # Null => used_cells[c] # <<>> /\ j \in Offs /\ ~(c = b /\ j = i)
                                     /\ used_cells'[c][j] = used_cells[c][j]
  BY <1>7, <1>10, <1>11
<1>13. m # Null => m \in UsedSet /\ heap.desc[m].addr = a /\ heap.desc[m].index = b
  <2>1. m = used_cells[b][i] /\ i \in DOMAIN used_cells[b]
    BY <1>5, <1>7 DEF m
  <2> QED
    BY <1>2, <1>5, <1>6, <1>7, <1>8, <1>11, <2>1 DEF SlotsInv, Cells
<1>14. \A c \in Blocks : \A j \in Offs : used_cells[c] # <<>> /\ used_cells[c][j] = m /\ m # Null => c = b /\ j = i
  <2> SUFFICES ASSUME NEW c \in Blocks, NEW j \in Offs, used_cells[c] # <<>>, used_cells[c][j] = m, m # Null
               PROVE  c = b /\ j = i
    OBVIOUS
  <2>1. heap.desc[m].index = c /\ heap.desc[m].addr = heap.block_addr[c] + j
    BY <1>2, <1>11 DEF SlotsInv
  <2>2. j \in Nat /\ heap.block_addr[b] + j = heap.block_addr[b] + i
    BY <1>6, <1>13, <2>1, CellsFacts
  <2> QED
    BY <1>6, <1>13, <2>1, <2>2
<1>15. UsedSet' = UsedSet \ {m}
  <2>1. ASSUME NEW k \in UsedSet, k # m PROVE k \in UsedSet'
    <3>1. PICK c \in Blocks : used_cells[c] # <<>> /\ \E j \in Offs : used_cells[c][j] = k
      BY <1>11
    <3>2. PICK j \in Offs : used_cells[c][j] = k
      BY <3>1
    <3>3. ~(c = b /\ j = i)
      BY <2>1, <3>2 DEF m
    <3>4. j \in DOMAIN used_cells'[c] /\ used_cells'[c][j] = k
      BY <1>10, <1>11, <3>1, <3>2, <3>3
    <3> QED
      BY <1>11, <3>4
  <2>2. ASSUME NEW k \in UsedSet' PROVE k \in UsedSet /\ k # m
    <3>1. PICK c \in Blocks : \E j \in DOMAIN used_cells'[c] : used_cells'[c][j] = k
      BY <1>11
    <3>2. PICK j \in DOMAIN used_cells'[c] : used_cells'[c][j] = k
      BY <3>1
    <3>3. k \in MCells /\ k # Null
      BY <1>11, CellsFacts
    <3>4. used_cells[c] # <<>> /\ j \in Offs /\ ~(c = b /\ j = i) /\ used_cells[c][j] = k
      BY <1>12, <3>2, <3>3
    <3> QED
      BY <1>11, <1>14, <3>3, <3>4
  <2> QED
    BY <2>1, <2>2
<1>16. SlotsInv'
  BY <1>1, <1>2, <1>11, <1>12 DEF SlotsInv
<1>17. ShapeInv'
  <2>1. \A c \in Blocks : used_cells'[c] # <<>> => heap'.addr_array[c] # <<>>
    BY <1>1, <1>2, <1>10 DEF ShapeInv
  <2>2. \A k \in Allocated(heap) : heap.desc[k].index \in Blocks
    BY <1>3, HeapFacts, AllocatedFacts
  <2> QED
    BY <1>1, <1>2, <1>10, <2>1, <2>2 DEF ShapeInv
<1>18. cell'[t] = m /\ \A u \in Threads : u # t => cell'[u] = cell[u] /\ pc'[u] = pc[u] /\ arg'[u] = arg[u]
  BY <1>1, <1>2 DEF LocalsInv
<1>19. InHand' = (InHand \cup {m}) \ {Null}
  <2>1. InHand' = {cell'[u] : u \in Threads} \ {Null}
    BY DEF InHand
  <2>2. \A x \in InHand : \E u \in Threads : u # t /\ cell[u] = x /\ x # Null
    BY <1>4 DEF InHand
  <2> QED
    BY <1>18, <2>1, <2>2 DEF InHand
<1>20. m # Null => \A u \in Threads : cell[u] # m
  BY <1>2, <1>13 DEF HeldInv, InHand
<1>21. HeldInv'
  <2>1. Held(heap) = UsedSet \cup InHand /\ UsedSet \cap InHand = {}
    BY <1>2 DEF HeldInv
  <2>2. Null \notin InHand /\ Null \notin UsedSet
    BY <1>11, CellsFacts DEF InHand
  <2>3. UsedSet' \cup InHand' = UsedSet \cup InHand /\ UsedSet' \cap InHand' = {}
    BY <1>13, <1>15, <1>19, <2>1, <2>2
  <2>4. \A u, v \in Threads : cell'[u] = cell'[v] /\ cell'[u] # Null => u = v
    BY <1>2, <1>18, <1>20 DEF HeldInv
  <2> QED
    BY <1>1, <2>1, <2>3, <2>4 DEF HeldInv
<1>22. \A x : InSlots(x) => InSlots(x)'
  BY <1>1, <1>10 DEF InSlots
<1>23. LiveInv'
  <2>1. live' \subseteq [addr : {x * CellSize : x \in Addresses}, size : Requests]
    BY <1>1, <1>2 DEF LiveInv
  <2>2. \A s \in live' : \E x \in Addresses : s.addr = x * CellSize /\ InSlots(x)'
    BY <1>1, <1>2, <1>22 DEF LiveInv
  <2>3. ASSUME ~wild', NEW s \in live
        PROVE  \E k \in UsedSet' : s.addr = heap.desc[k].addr * CellSize /\ Suits(k, s.size)
    <3>1. ~wild /\ (m = Null \/ RegionsAt(a) = {})
      BY <1>1, <2>3
    <3>2. PICK k \in UsedSet : s.addr = heap.desc[k].addr * CellSize /\ Suits(k, s.size)
      BY <1>2, <3>1 DEF LiveInv
    <3>3. k # m
      BY <1>11, <1>13, <3>1, <3>2, CellsFacts DEF RegionsAt
    <3> QED
      BY <1>15, <3>2, <3>3
  <2>4. ~wild' => \A s \in live' : \E k \in UsedSet' : s.addr = heap'.desc[k].addr * CellSize /\ Suits(k, s.size)'
    BY <1>1, <2>3 DEF Suits
  <2>5. ~wild' => \A s, x \in live' : s.addr = x.addr => s = x
    BY <1>1, <1>2 DEF LiveInv
  <2> QED
    BY <2>1, <2>2, <2>4, <2>5 DEF LiveInv
<1>24. pc'[t] # "rmv" /\ (pc'[t] = "idle" \/ pc'[t] = "add") /\ (pc'[t] = "idle" <=> m = Null)
  BY <1>1, <1>2 DEF LocalsInv
<1>25. LegalInv'
  <2> SUFFICES ASSUME ~StaleFrees PROVE LegalInv'
    BY DEF LegalInv
  <2>1. ~wild /\ RegionsAt(a) = {}
    BY <1>1, <1>2, <1>6 DEF LegalInv, a
  <2>2. ~wild'
    BY <1>1, <2>1
  <2>3. ASSUME NEW u \in Threads, pc'[u] = "rmv", arg'[u] # 0
        PROVE  /\ RegionsAt(arg[u])' = {}
               /\ \E k \in UsedSet' : heap'.desc[k].addr = arg'[u]
               /\ \A v \in Threads : pc'[v] = "rmv" /\ arg'[v] = arg'[u] => v = u
    <3>1. u # t /\ pc[u] = "rmv" /\ arg'[u] = arg[u]
      BY <1>18, <1>24, <2>3
    <3>2. /\ RegionsAt(arg[u]) = {}
          /\ \A v \in Threads : pc[v] = "rmv" /\ arg[v] = arg[u] => v = u
      BY <1>2, <2>3, <3>1 DEF LegalInv
    <3>3. PICK k \in UsedSet : heap.desc[k].addr = arg[u]
      BY <1>2, <2>3, <3>1 DEF LegalInv
    <3>4. k # m
      <4>1. arg[u] # a
        BY <1>1, <3>1, <3>2 DEF a
      <4>2. k # Null
        BY <1>11, CellsFacts
      <4> QED
        BY <1>13, <3>3, <4>1, <4>2
    <3>5. RegionsAt(arg[u])' = {}
      BY <1>1, <3>1, <3>2 DEF RegionsAt
    <3> QED
      BY <1>1, <1>15, <1>18, <1>24, <3>1, <3>2, <3>3, <3>4, <3>5
  <2> QED
    BY <2>2, <2>3 DEF LegalInv
<1>26. LocalsInv'
  BY <1>1, <1>2, <1>8, AddressFacts DEF LocalsInv
<1>27. ASSUME NEW u \in Threads PROVE ThreadInv(u)'
  <2>1. CASE u = t
    BY <1>18, <1>24, <2>1 DEF ThreadInv
  <2>2. CASE u # t
    <3>1. pc[u] = "put" => heap'.desc[cell[u]].size = heap.desc[cell[u]].size
      BY <1>1
    <3> QED
      BY <1>2, <1>18, <1>22, <2>2, <3>1, ThreadKept
  <2> QED
    BY <2>1, <2>2
<1> QED
  BY <1>16, <1>17, <1>21, <1>23, <1>25, <1>26, <1>27 DEF IInv

\* The step of dheap_free that returns the cell.
LEMMA ReturnCellKeeps ==
  ASSUME IInv, NEW t \in Threads, ReturnCell(t)
  PROVE  IInv'
<1> DEFINE m == cell[t]
<1>1. /\ pc[t] = "add" /\ heap' = AddFreeCell(heap, m) /\ cell' = [cell EXCEPT ![t] = Null]
      /\ pc' = [pc EXCEPT ![t] = "idle"]
      /\ used_cells' = used_cells /\ arg' = arg /\ live' = live /\ wild' = wild
  BY DEF ReturnCell, Goto
<1>2. /\ ShapeInv /\ SlotsInv /\ HeldInv /\ LiveInv /\ LegalInv /\ LocalsInv
      /\ \A u \in Threads : ThreadInv(u)
  BY DEF IInv
<1>3. m # Null
  BY <1>1, <1>2 DEF ThreadInv
<1>4. m \in Held(heap) /\ m \notin UsedSet
  BY <1>3, CellInHand
<1>5. HeapOK(heap) /\ heap \in Heaps
  BY <1>2 DEF ShapeInv, HeapOK
<1>6. CellFreed(heap, m, heap')
  <2> HIDE DEF m
  <2> QED
    BY <1>1, <1>4, <1>5, AddFreeCellFrees
<1>7. /\ HeapOK(heap') /\ SameArrays(heap, heap') /\ heap'.block_addr = heap.block_addr
      /\ Held(heap') = Held(heap) \ {m} /\ Held(heap') \subseteq Allocated(heap')
      /\ \A k \in Allocated(heap') \ {m} : heap'.desc[k] = heap.desc[k]
      /\ Occupied(heap') \subseteq Occupied(heap)
  BY <1>6 DEF CellFreed, Held
<1>8. Held(heap) = UsedSet \cup InHand /\ UsedSet \cap InHand = {}
      /\ \A u, v \in Threads : cell[u] = cell[v] /\ cell[u] # Null => u = v
  BY <1>2 DEF HeldInv
<1>9. \A k \in Held(heap) : k # m => heap'.desc[k] = heap.desc[k]
  BY <1>7
<1>10. Unmoved
  BY <1>4, <1>7, <1>8, <1>9 DEF Unmoved
<1>11. SameSlots
  BY <1>1, <1>2 DEF SameSlots, ShapeInv
<1>12. UsedSet' = UsedSet /\ SlotsInv' /\ \A a : InSlots(a) => InSlots(a)'
  <2>1. \A b \in Blocks : used_cells[b] # <<>> => used_cells'[b] # <<>>
    BY <1>1
  <2> QED
    BY <1>2, <1>10, <1>11, <2>1, SlotsKept, InSlotsKept
<1>13. ShapeInv'
  <2>1. \A b \in Blocks : used_cells'[b] # <<>> => heap'.addr_array[b] # <<>>
    BY <1>1, <1>2, <1>7 DEF ShapeInv, SameArrays
  <2>2. \A b \in Occupied(heap) : used_cells[b] # <<>>
    BY <1>2 DEF ShapeInv, Occupied
  <2>3. \A k \in Allocated(heap') : heap'.desc[k].index \in Occupied(heap')
    BY DEF Occupied
  <2> QED
    BY <1>1, <1>2, <1>7, <2>1, <2>2, <2>3 DEF ShapeInv
<1>14. cell'[t] = Null /\ \A u \in Threads : u # t => cell'[u] = cell[u] /\ pc'[u] = pc[u]
  BY <1>1, <1>2 DEF LocalsInv
<1>15. m \in InHand /\ \A u \in Threads : cell[u] = m => u = t
  BY <1>3, <1>8 DEF InHand
<1>16. InHand' = InHand \ {m}
  <2>1. InHand' = {cell'[u] : u \in Threads} \ {Null}
    BY DEF InHand
  <2> HIDE DEF m
  <2>2. \A u \in Threads : u # t => cell[u] # m
    BY <1>15
  <2>3. \A x \in InHand : x # m => \E u \in Threads : u # t /\ cell[u] = x /\ x # Null
    BY DEF InHand, m
  <2> QED
    BY <1>3, <1>14, <2>1, <2>2, <2>3 DEF InHand
<1>17. HeldInv'
  <2>1. Held(heap') = UsedSet' \cup InHand' /\ UsedSet' \cap InHand' = {}
    BY <1>4, <1>7, <1>8, <1>12, <1>16
  <2>2. \A u, v \in Threads : cell'[u] = cell'[v] /\ cell'[u] # Null => u = v
    BY <1>8, <1>14
  <2> QED
    BY <2>1, <2>2 DEF HeldInv
<1>18. LiveInv' /\ LegalInv'
  <2>1. \A u \in Threads : pc'[u] = "rmv" => pc[u] = "rmv" /\ arg'[u] = arg[u]
    BY <1>1, <1>2 DEF LocalsInv
  <2> QED
    BY <1>1, <1>2, <1>10, <1>12, <2>1, LiveKept, LegalKept
<1>19. LocalsInv'
  BY <1>1, <1>2 DEF LocalsInv, Cells
<1>20. ASSUME NEW u \in Threads PROVE ThreadInv(u)'
  <2>1. CASE u = t
    BY <1>1, <1>2, <1>14, <2>1 DEF LocalsInv, ThreadInv
  <2>2. CASE u # t
    <3>1. pc[u] = "put" => heap'.desc[cell[u]].size = heap.desc[cell[u]].size
      <4>1. cell[u] # Null => cell[u] \in Held(heap) /\ cell[u] # m
        BY <1>8, <1>15, <2>2 DEF InHand
      <4> QED
        BY <1>2, <1>9, <4>1 DEF ThreadInv
    <3> QED
      BY <1>1, <1>2, <1>12, <1>14, <2>2, <3>1, ThreadKept
  <2> QED
    BY <2>1, <2>2
<1> QED
  BY <1>12, <1>13, <1>17, <1>18, <1>19, <1>20 DEF IInv

\* The step that gives up a region, or frees a stale address.
LEMMA FreeKeeps ==
  ASSUME IInv, NEW t \in Threads, NEW addr \in Addresses, Free(t, addr)
  PROVE  IInv'
<1>1. /\ pc[t] = "idle" /\ pc' = [pc EXCEPT ![t] = "rmv"] /\ arg' = [arg EXCEPT ![t] = addr]
      /\ live' = live \ RegionsAt(addr) /\ UNCHANGED <<heap, used_cells, cell, wild>>
      /\ RegionsAt(addr) # {} \/ addr = 0 \/ (StaleFrees /\ MayBeStale(addr))
  BY DEF Free, Goto
<1>2. /\ ShapeInv /\ SlotsInv /\ HeldInv /\ LiveInv /\ LegalInv /\ LocalsInv
      /\ \A u \in Threads : ThreadInv(u)
  BY DEF IInv
<1>3. HeapOK(heap) /\ heap \in Heaps
  BY <1>2 DEF ShapeInv, HeapOK
<1>4. CellSize \in Nat \ {0} /\ addr \in Nat /\ \A a \in Addresses : a \in Nat
  BY DHeapAssumption, AddressFacts
<1>5. addr = 0 \/ InSlots(addr)
  <2>1. CASE RegionsAt(addr) # {}
    <3>1. PICK r \in live : r.addr = addr * CellSize
      BY <2>1 DEF RegionsAt
    <3>2. PICK a \in Addresses : r.addr = a * CellSize /\ InSlots(a)
      BY <1>2 DEF LiveInv
    <3>3. a = addr
      BY <1>4, <3>1, <3>2, SameUnit
    <3> QED
      BY <3>2, <3>3
  <2>2. CASE MayBeStale(addr)
    <3> DEFINE b == BlockIndex(addr)
    <3>1. b < BlockCount /\ used_cells[b] # <<>>
      BY <2>2 DEF MayBeStale
    <3>2. b \in 0 .. BlockCount /\ (b # BlockCount => b \in Blocks /\ addr - heap.block_addr[b] \in Offs)
      BY <1>3, <1>4, BlockIndexFacts
    <3> HIDE DEF b
    <3>3. b \in Blocks /\ addr - heap.block_addr[b] \in Offs
      BY <3>1, <3>2, CellsFacts
    <3> QED
      BY <3>1, <3>3 DEF InSlots
  <2> QED
    BY <1>1, <2>1, <2>2
<1>6. arg'[t] = addr /\ pc'[t] = "rmv" /\ \A u \in Threads : u # t => arg'[u] = arg[u] /\ pc'[u] = pc[u]
  BY <1>1, <1>2 DEF LocalsInv
<1>7. ThreadInv(t)'
  <2>1. cell'[t] = Null
    BY <1>1, <1>2 DEF ThreadInv
  <2>2. addr = 0 \/ (\E b \in Blocks : used_cells'[b] # <<>> /\ addr - heap'.block_addr[b] \in Offs)
    BY <1>1, <1>5 DEF InSlots
  <2> QED
    BY <1>6, <2>1, <2>2 DEF ThreadInv, InSlots
<1>8. LegalInv'
  <2> SUFFICES ASSUME ~StaleFrees, NEW u \in Threads, pc'[u] = "rmv", arg'[u] # 0
               PROVE  /\ \A r \in live' : r.addr # arg'[u] * CellSize
                      /\ \E m \in UsedSet : heap.desc[m].addr = arg'[u]
                      /\ \A v \in Threads : pc'[v] = "rmv" /\ arg'[v] = arg'[u] => v = u
    <3>1. UsedSet' = UsedSet
      BY <1>1 DEF UsedSet
    <3> QED
      BY <1>1, <1>2, <3>1 DEF LegalInv, RegionsAt
  <2>1. ~wild /\ RegionsAt(addr) = {} => addr = 0
    BY <1>1
  <2>2. ~wild
    BY <1>2 DEF LegalInv
  <2>3. CASE u = t
    <3>1. addr # 0 /\ arg'[u] = addr
      BY <1>6, <2>3
    <3>2. PICK r \in live : r.addr = addr * CellSize
      BY <2>1, <2>2, <3>1 DEF RegionsAt
    <3>3. PICK m \in UsedSet : r.addr = heap.desc[m].addr * CellSize
      BY <1>2, <2>2 DEF LiveInv
    <3>4. heap.desc[m].addr \in Nat
      BY <1>3, HeapFacts DEF UsedSet
    <3>5. heap.desc[m].addr = addr
      BY <1>4, <3>2, <3>3, <3>4, SameUnit
    <3>6. ASSUME NEW v \in Threads, pc'[v] = "rmv", arg'[v] = addr, v # t PROVE FALSE
      <4>1. pc[v] = "rmv" /\ arg[v] = addr
        BY <1>6, <3>6
      <4>2. RegionsAt(addr) = {}
        BY <1>2, <3>1, <4>1 DEF LegalInv
      <4> QED
        BY <2>1, <2>2, <3>1, <4>2
    <3>7. \A s \in live' : s.addr # addr * CellSize
      BY <1>1 DEF RegionsAt
    <3> QED
      BY <2>3, <3>1, <3>5, <3>6, <3>7
  <2>4. CASE u # t
    <3>1. pc[u] = "rmv" /\ arg'[u] = arg[u] /\ arg[u] # 0
      BY <1>6, <2>4
    <3>2. /\ RegionsAt(arg[u]) = {}
          /\ \E m \in UsedSet : heap.desc[m].addr = arg[u]
          /\ \A v \in Threads : pc[v] = "rmv" /\ arg[v] = arg[u] => v = u
      BY <1>2, <3>1 DEF LegalInv
    <3>3. \A s \in live' : s.addr # arg[u] * CellSize
      BY <1>1, <3>2 DEF RegionsAt
    <3>4. addr # arg[u]
      BY <2>1, <2>2, <3>1, <3>2
    <3>5. \A v \in Threads : pc'[v] = "rmv" /\ arg'[v] = arg[u] => v = u
      BY <1>6, <3>2, <3>4
    <3> QED
      BY <3>1, <3>2, <3>3, <3>5
  <2> QED
    BY <2>3, <2>4
<1>9. live' \subseteq live
  BY <1>1
<1> QED
  BY <1>1, <1>7, <1>8, <1>9, ThreadStepKeeps

-----------------------------------------------------------------------------
(* The invariant. *)

\* The invariant holds at first.
LEMMA InitIInv == Init => IInv
<1> SUFFICES ASSUME Init PROVE IInv
  OBVIOUS
<1>1. /\ heap = Empty /\ used_cells = [b \in Blocks |-> <<>>] /\ pc = [t \in Threads |-> "idle"]
      /\ arg = [t \in Threads |-> 0] /\ cell = [t \in Threads |-> Null] /\ live = {} /\ wild = FALSE
  BY DEF Init
<1>2. HeapOK(heap) /\ Allocated(heap) = {} /\ FreeOf(heap) = {} /\ Held(heap) = {}
  BY <1>1, EmptyIsOK DEF Held
<1>3. \A b \in Blocks : used_cells[b] = <<>>
  BY <1>1
<1>4. ShapeInv
  BY <1>1, <1>2, <1>3 DEF ShapeInv
<1>5. UsedSet = {} /\ SlotsInv
  BY <1>3, <1>4, SlotFacts DEF ShapeInv, SlotsInv
<1>6. InHand = {}
  BY <1>1 DEF InHand
<1>7. HeldInv
  BY <1>1, <1>2, <1>5, <1>6 DEF HeldInv
<1>8. LiveInv
  BY <1>1 DEF LiveInv
<1>9. LegalInv
  BY <1>1 DEF LegalInv
<1>10. LocalsInv
  BY <1>1, AddressFacts DEF LocalsInv, Cells
<1>11. \A t \in Threads : ThreadInv(t)
  BY <1>1 DEF ThreadInv
<1> QED
  BY <1>4, <1>5, <1>7, <1>8, <1>9, <1>10, <1>11 DEF IInv

\* And every step keeps it.
LEMMA StepKeeps == IInv /\ [Next]_vars => IInv'
<1> SUFFICES ASSUME IInv, [Next]_vars PROVE IInv'
  OBVIOUS
<1>1. ASSUME NEW t \in Threads, NEW size \in Requests, Malloc(t, size) PROVE IInv'
  BY <1>1, MallocKeeps
<1>2. ASSUME NEW t \in Threads, GetFreeCell(t) PROVE IInv'
  BY <1>2, GetFreeCellKeeps
<1>3. ASSUME NEW t \in Threads, GetFromNewBlock(t) PROVE IInv'
  BY <1>3, GetFromNewBlockKeeps
<1>4. ASSUME NEW t \in Threads, GetNoBlock(t) PROVE IInv'
  <2>1. /\ pc[t] = "get" /\ pc' = [pc EXCEPT ![t] = "idle"] /\ arg' = [arg EXCEPT ![t] = 0]
        /\ UNCHANGED <<heap, used_cells, cell, live, wild>>
    BY <1>4 DEF GetNoBlock, Goto
  <2> QED
    BY <2>1, GivesUpKeeps
<1>5. ASSUME NEW t \in Threads, GetBrokenBlock(t) PROVE IInv'
  BY <1>5, GetBrokenBlockKeeps
<1>6. ASSUME NEW t \in Threads, PutUsedCell(t) PROVE IInv'
  BY <1>6, PutUsedCellKeeps
<1>7. ASSUME NEW t \in Threads, NEW addr \in Addresses, Free(t, addr) PROVE IInv'
  BY <1>7, FreeKeeps
<1>8. ASSUME NEW t \in Threads, RmvUsedCell(t) PROVE IInv'
  BY <1>8, RmvUsedCellKeeps
<1>9. ASSUME NEW t \in Threads, NotMine(t) PROVE IInv'
  <2>1. /\ pc[t] = "rmv" /\ pc' = [pc EXCEPT ![t] = "idle"] /\ arg' = [arg EXCEPT ![t] = 0]
        /\ UNCHANGED <<heap, used_cells, cell, live, wild>>
    BY <1>9 DEF NotMine, Goto
  <2> QED
    BY <2>1, GivesUpKeeps
<1>10. ASSUME NEW t \in Threads, ReturnCell(t) PROVE IInv'
  BY <1>10, ReturnCellKeeps
<1>11. ASSUME UNCHANGED vars PROVE IInv'
  BY <1>11 DEF vars, IInv, ShapeInv, SlotsInv, HeldInv, LiveInv, LegalInv, LocalsInv, ThreadInv,
       UsedSet, InHand, RegionsAt, Suits, InSlots
<1> QED
  BY <1>1, <1>2, <1>3, <1>4, <1>5, <1>6, <1>7, <1>8, <1>9, <1>10, <1>11 DEF Next

\* The inductive invariant, for any number of threads, blocks and cells.
THEOREM Invariance == Spec => []IInv
<1>1. Init => IInv
  BY InitIInv
<1>2. IInv /\ [Next]_vars => IInv'
  BY StepKeeps
<1> QED
  BY <1>1, <1>2, PTL DEF Spec

-----------------------------------------------------------------------------
(* What follows from the invariant. *)

\* A list without repetitions is as long as it has cells.
LEMMA CountListed ==
  ASSUME NEW list \in Lists, \A i, j \in 1 .. Len(list) : list[i] = list[j] => i = j
  PROVE  Len(list) = Cardinality(Listed(list))
<1> DEFINE n == Len(list)
<1>1. n \in Nat /\ DOMAIN list = 1 .. n /\ list \in [1 .. n -> Listed(list)]
  BY DEF Lists, Listed
<1>2. list \in Bijection(1 .. n, Listed(list))
  BY <1>1 DEF Bijection, Injection, Surjection, IsInjective, Listed
<1> HIDE DEF n
<1>3. IsFiniteSet(1 .. n) /\ Cardinality(1 .. n) = n
  BY <1>1, FS_Interval
<1>4. ExistsBijection(1 .. n, Listed(list))
  BY <1>2 DEF ExistsBijection
<1> QED
  BY <1>3, <1>4, FS_Bijection DEF n

\* The first cell of a list with a key above n, as FirstWith picks it.
LEMMA FirstIsPicked ==
  ASSUME NEW list \in Lists, NEW key, NEW n, NEW c, IsFirst(list, key, n, c),
         \A i \in 1 .. Len(list) : key[list[i]] \in Int, n \in Int,
         NEW hits, hits = {i \in 1 .. Len(list) : key[list[i]] > n}
  PROVE  c = IF hits = {} THEN Null ELSE list[CHOOSE i \in hits : \A j \in hits : i <= j]
<1>1. Len(list) \in Nat
  BY ListedFacts
<1>2. CASE c = Null /\ \A i \in 1 .. Len(list) : key[list[i]] <= n
  <2>1. hits = {}
    BY <1>2
  <2> QED
    BY <1>2, <2>1
<1>3. CASE \E i \in 1 .. Len(list) : /\ c = list[i] /\ key[c] > n
                                     /\ \A j \in 1 .. i - 1 : key[list[j]] <= n
  <2>1. PICK p \in 1 .. Len(list) : /\ c = list[p] /\ key[c] > n
                                    /\ \A j \in 1 .. p - 1 : key[list[j]] <= n
    BY <1>3
  <2>2. p \in hits /\ p \in Nat
    BY <1>1, <2>1
  <2>3. \A j \in hits : p <= j /\ j \in Nat
    <3>1. ASSUME NEW j \in hits PROVE p <= j /\ j \in Nat
      <4>1. j \in 1 .. Len(list) /\ j \in Nat /\ key[list[j]] > n
        BY <1>1
      <4>2. ~(j \in 1 .. p - 1)
        BY <2>1, <4>1
      <4> QED
        BY <2>2, <4>1, <4>2
    <3> QED
      BY <3>1
  <2> DEFINE x == CHOOSE i \in hits : \A j \in hits : i <= j
  <2>4. x \in hits /\ \A j \in hits : x <= j
    BY <2>2, <2>3
  <2> HIDE DEF x
  <2>5. x = p
    BY <2>2, <2>3, <2>4
  <2>6. c = list[x] /\ hits # {}
    BY <2>1, <2>2, <2>5
  <2> QED
    BY <2>6 DEF x
<1> QED
  BY <1>2, <1>3 DEF IsFirst

\* The free cells are those of the size list, and of the address lists.
LEMMA FreeSetIs ==
  ASSUME HeapOK(heap)
  PROVE  /\ FreeSet = FreeOf(heap) /\ DOMAIN heap.size_list = 1 .. Len(heap.size_list)
         /\ heap.size_list \in Lists
         /\ \A b \in Blocks : /\ DOMAIN heap.addr_list[b] = 1 .. Len(heap.addr_list[b])
                              /\ heap.addr_list[b] \in Lists
                              /\ {heap.addr_list[b][i] : i \in DOMAIN heap.addr_list[b]} = Listed(heap.addr_list[b])
                              /\ Listed(heap.addr_list[b]) = {m \in FreeSet : heap.desc[m].index = b}
<1>1. heap \in Heaps /\ FreeOK(heap)
  BY DEF HeapOK
<1>2. \A list \in Lists : DOMAIN list = 1 .. Len(list)
  BY DEF Lists
<1>3. heap.size_list \in Lists /\ \A b \in Blocks : heap.addr_list[b] \in Lists
  BY <1>1, HeapFacts
<1>4. FreeSet = FreeOf(heap)
  BY <1>2, <1>3 DEF FreeSet, FreeOf, Listed
<1> QED
  BY <1>1, <1>2, <1>3, <1>4 DEF Listed, FreeOK

\* The types of the variables.
LEMMA TypesFollow == IInv => TypeOK
<1> SUFFICES ASSUME IInv PROVE TypeOK
  OBVIOUS
<1>1. ShapeInv /\ LocalsInv /\ LiveInv
  BY DEF IInv
<1>2. heap \in Heaps /\ TilesOK(heap) /\ BlocksOK(heap)
  BY <1>1 DEF ShapeInv, HeapOK
<1>3. Addresses = {0} \cup MCells /\ Places = BlockAddrs /\ 0 \in Blocks /\ CellsPerBlock \in Nat
  BY AddressFacts, CellsFacts
<1>4. heap.desc \in [MCells -> [addr : Addresses, size : 0 .. CellsPerBlock, index : Blocks]]
  <2>1. heap.desc \in [MCells -> [addr : Nat, size : Nat, index : Blocks]]
    BY <1>2 DEF Heaps
  <2>2. ASSUME NEW m \in MCells
        PROVE  heap.desc[m].addr \in Addresses /\ heap.desc[m].size \in 0 .. CellsPerBlock
    <3>1. CASE m \notin Allocated(heap)
      <4>1. heap.desc[m] = NoDesc
        BY <3>1 DEF Allocated
      <4> QED
        BY <1>3, <4>1 DEF NoDesc
    <3>2. CASE m \in Allocated(heap)
      <4> DEFINE d == heap.desc[m]
                 a == heap.block_addr[d.index]
                 x == d.addr
      <4>1. a \in Places /\ a \in Nat /\ d.addr \in Nat /\ d.size \in 1 .. CellsPerBlock /\ d.addr - a \in Offs
        BY <1>2, <3>2, HeldFacts
      <4>2. a + (d.addr - a) \in MCells
        BY <4>1, PlacesApart
      <4>3. a + (x - a) = x
        <5>1. a \in Nat /\ x \in Nat
          BY <4>1
        <5> HIDE DEF x, a
        <5> QED
          BY <5>1
      <4> QED
        BY <1>3, <4>1, <4>2, <4>3
    <3> QED
      BY <3>1, <3>2
  <2> QED
    BY <2>1, <2>2
<1>5. heap.size_array \in [Offs -> MCells \cup {Null}]
  BY <1>2 DEF Heaps, Cells
<1>6. heap.block_addr \in [Blocks -> BlockAddrs \cup {0}]
  BY <1>2, <1>3 DEF Heaps, BlocksOK
<1>7. \A b \in Blocks :
        /\ heap.addr_array[b] = <<>> \/ heap.addr_array[b] \in [Offs -> MCells \cup {Null}]
        /\ used_cells[b] = <<>> \/ used_cells[b] \in [Offs -> MCells \cup {Null}]
  BY <1>1, <1>2 DEF Heaps, ShapeInv, Cells
<1>8. pc \in [Threads -> {"idle", "get", "put", "rmv", "add"}] /\ wild \in BOOLEAN
  BY <1>1 DEF LocalsInv
<1>9. arg \in [Threads -> Addresses \cup Requests \cup {0}]
  BY <1>1 DEF LocalsInv
<1>10. cell \in [Threads -> MCells \cup {Null}]
  BY <1>1 DEF LocalsInv, Cells
<1>11. live \subseteq [addr : {a * CellSize : a \in Addresses}, size : Requests]
  BY <1>1 DEF LiveInv
<1> QED
  BY <1>4, <1>5, <1>6, <1>7, <1>8, <1>9, <1>10, <1>11 DEF TypeOK

\* Each mcell is in one place.
LEMMA CellsAccountedFollows == IInv => CellsAccounted
<1> SUFFICES ASSUME IInv PROVE CellsAccounted
  OBVIOUS
<1>1. ShapeInv /\ SlotsInv /\ HeldInv /\ TypeOK
  BY TypesFollow DEF IInv
<1>2. HeapOK(heap) /\ heap \in Heaps /\ FreeOK(heap) /\ FreeOf(heap) \subseteq Allocated(heap)
  BY <1>1 DEF ShapeInv, HeapOK
<1>3. FreeSet = FreeOf(heap)
  BY <1>2, FreeSetIs
<1>4. /\ Allocated(heap) = FreeSet \cup UsedSet \cup InHand
      /\ FreeSet \cap UsedSet = {} /\ FreeSet \cap InHand = {} /\ UsedSet \cap InHand = {}
      /\ \A t, u \in Threads : cell[t] = cell[u] /\ cell[t] # Null => t = u
  BY <1>1, <1>2, <1>3 DEF HeldInv, Held
<1>5. Len(heap.size_list) = Cardinality(FreeSet)
  <2>1. \A i, j \in 1 .. Len(heap.size_list) : heap.size_list[i] = heap.size_list[j] => i = j
    BY <1>2 DEF FreeOK, SizeOK, Indexed, Ordered
  <2> QED
    BY <1>2, <1>3, <2>1, FreeSetIs, CountListed DEF FreeOf
<1>6. ASSUME NEW b \in Blocks
      PROVE  LET mine == {m \in FreeSet : heap.desc[m].index = b} IN
             /\ {heap.addr_list[b][i] : i \in DOMAIN heap.addr_list[b]} = mine
             /\ Len(heap.addr_list[b]) = Cardinality(mine)
             /\ \A i \in DOMAIN used_cells[b] : used_cells[b][i] # Null =>
                  heap.desc[used_cells[b][i]].addr = heap.block_addr[b] + i
  <2> DEFINE mine == {m \in FreeSet : heap.desc[m].index = b}
             list == heap.addr_list[b]
  <2>1. list \in Lists /\ {list[i] : i \in DOMAIN list} = mine /\ Listed(list) = mine
    BY <1>2, FreeSetIs
  <2> HIDE DEF mine
  <2>2. \A i, j \in 1 .. Len(list) : list[i] = list[j] => i = j
    <3>1. CASE heap.addr_array[b] = <<>>
      <4>1. Listed(list) = {}
        BY <1>2, <3>1 DEF FreeOK, AddrOK
      <4> QED
        BY <4>1 DEF Listed
    <3>2. CASE heap.addr_array[b] # <<>>
      BY <1>2, <3>2 DEF FreeOK, AddrOK, Indexed, Ordered
    <3> QED
      BY <3>1, <3>2
  <2>3. Len(list) = Cardinality(mine)
    BY <2>1, <2>2, CountListed
  <2>4. \A i \in DOMAIN used_cells[b] : used_cells[b][i] # Null =>
          heap.desc[used_cells[b][i]].addr = heap.block_addr[b] + i
    BY <1>1 DEF SlotsInv
  <2> QED
    BY <2>1, <2>3, <2>4 DEF mine
<1> QED
  BY <1>1, <1>4, <1>5, <1>6 DEF CellsAccounted

\* Indexed says what HintsExact says.
LEMMA HintsExactFollows == IInv => HintsExact
<1> SUFFICES ASSUME IInv PROVE HintsExact
  OBVIOUS
<1>1. HeapOK(heap) /\ heap \in Heaps /\ FreeOK(heap)
  BY DEF IInv, ShapeInv, HeapOK
<1> DEFINE list == heap.size_list
           key  == SizeKey(heap)
<1>2. /\ list \in Lists /\ Indexed(list, key, heap.size_array) /\ DOMAIN list = 1 .. Len(list)
      /\ \A m \in MCells : key[m] = heap.desc[m].size /\ heap.desc[m].size \in Int
      /\ \A i \in 1 .. Len(list) : list[i] \in MCells
  BY <1>1, HeapFacts, FreeSetIs, ListedFacts DEF FreeOK, SizeOK
<1>3. \A i, j \in DOMAIN list : i <= j => heap.desc[list[i]].size <= heap.desc[list[j]].size
  <2> HIDE DEF list, key
  <2> QED
    BY <1>2 DEF Indexed, Ordered
<1>4. ASSUME NEW n \in Offs
      PROVE  heap.size_array[n] = FirstWith(list, LAMBDA m : heap.desc[m].size > n)
  <2> DEFINE hits == {i \in DOMAIN list : heap.desc[list[i]].size > n}
             c == heap.size_array[n]
  <2>1. IsFirst(list, key, n, c) /\ n \in Int
    BY <1>2, <1>4, CellsFacts DEF Indexed
  <2>2. hits = {i \in 1 .. Len(list) : key[list[i]] > n} /\ \A i \in 1 .. Len(list) : key[list[i]] \in Int
    <3> HIDE DEF list, key
    <3> QED
      BY <1>2
  <2>3. list \in Lists
    BY <1>2
  <2> HIDE DEF hits, c, list, key
  <2>4. c = IF hits = {} THEN Null ELSE list[CHOOSE i \in hits : \A j \in hits : i <= j]
    BY <2>1, <2>2, <2>3, FirstIsPicked, SMTT(30)
  <2> USE DEF hits, c, list
  <2> QED
    BY <2>4 DEF FirstWith
<1>5. ASSUME NEW b \in Blocks
      PROVE  /\ \A i, j \in DOMAIN heap.addr_list[b] : i <= j =>
                  heap.desc[heap.addr_list[b][i]].addr <= heap.desc[heap.addr_list[b][j]].addr
             /\ \A n \in DOMAIN heap.addr_array[b] : heap.addr_array[b][n] =
                  FirstWith(heap.addr_list[b], LAMBDA m : heap.desc[m].addr >= heap.block_addr[b] + n)
  <2> DEFINE row  == heap.addr_list[b]
             akey == AddrKey(heap, b)
             array == heap.addr_array[b]
             at   == heap.block_addr[b]
  <2>1. CASE array = <<>>
    <3>1. Listed(row) = {} /\ DOMAIN row = 1 .. Len(row)
      BY <1>1, <2>1, FreeSetIs DEF FreeOK, AddrOK
    <3>2. DOMAIN row = {} /\ DOMAIN array = {}
      <4>1. DOMAIN <<>> = {}
        OBVIOUS
      <4> QED
        BY <2>1, <3>1, <4>1 DEF Listed
    <3> QED
      BY <3>2
  <2>2. CASE array # <<>>
    <3>1. /\ row \in Lists /\ Indexed(row, akey, array) /\ DOMAIN row = 1 .. Len(row)
          /\ \A m \in MCells : akey[m] = heap.desc[m].addr - at + 1 /\ heap.desc[m].addr \in Nat
          /\ at \in Nat /\ \A i \in 1 .. Len(row) : row[i] \in MCells
      BY <1>1, <2>2, HeapFacts, FreeSetIs, ListedFacts DEF FreeOK, AddrOK
    <3>2. DOMAIN array = Offs
      BY <1>1, <2>2, HeapFacts
    <3>3. \A i, j \in DOMAIN row : i <= j => heap.desc[row[i]].addr <= heap.desc[row[j]].addr
      <4> HIDE DEF row, akey, array, at
      <4> SUFFICES ASSUME NEW i \in 1 .. Len(row), NEW j \in 1 .. Len(row), i <= j
                   PROVE  heap.desc[row[i]].addr <= heap.desc[row[j]].addr
        BY <3>1
      <4>1. akey[row[i]] <= akey[row[j]] /\ row[i] \in MCells /\ row[j] \in MCells
        BY <3>1 DEF Indexed, Ordered
      <4> DEFINE x == heap.desc[row[i]].addr
                 y == heap.desc[row[j]].addr
      <4>2. x \in Nat /\ y \in Nat /\ at \in Nat /\ x - at + 1 <= y - at + 1
        BY <3>1, <4>1
      <4> HIDE DEF x, y
      <4>3. x <= y
        BY <4>2
      <4> QED
        BY <4>3 DEF x, y
    <3>4. ASSUME NEW n \in DOMAIN array
          PROVE  array[n] = FirstWith(row, LAMBDA m : heap.desc[m].addr >= at + n)
      <4> DEFINE hits == {i \in DOMAIN row : heap.desc[row[i]].addr >= at + n}
                 c == array[n]
      <4>1. IsFirst(row, akey, n, c) /\ n \in Int
        BY <3>1, <3>2, <3>4, CellsFacts DEF Indexed
      <4>2. hits = {i \in 1 .. Len(row) : akey[row[i]] > n} /\ \A i \in 1 .. Len(row) : akey[row[i]] \in Int
        <5> HIDE DEF row, akey, array, at
        <5> QED
          BY <3>1, <4>1, SMTT(30)
      <4>3. row \in Lists
        BY <3>1
      <4> HIDE DEF hits, c, row, akey, array, at
      <4>4. c = IF hits = {} THEN Null ELSE row[CHOOSE i \in hits : \A j \in hits : i <= j]
        BY <4>1, <4>2, <4>3, FirstIsPicked, SMTT(30)
      <4> USE DEF hits, c, row, array, at
      <4> QED
        BY <4>4 DEF FirstWith
    <3> QED
      BY <3>3, <3>4
  <2> QED
    BY <2>1, <2>2
<1> QED
  BY <1>3, <1>4, <1>5 DEF HintsExact

\* The tiles of a block, unit by unit.
LEMMA BlocksTiledFollows == IInv => BlocksTiled
<1> SUFFICES ASSUME IInv, NEW b \in Blocks
             PROVE  LET mine == {m \in Allocated(heap) : heap.desc[m].index = b} IN
                    mine # {} =>
                      /\ UNION {UnitsOf(m) : m \in mine}
                           = heap.block_addr[b] .. heap.block_addr[b] + CellsPerBlock - 1
                      /\ \A m, k \in mine : m # k => UnitsOf(m) \cap UnitsOf(k) = {}
  BY DEF BlocksTiled
<1> DEFINE mine == {m \in Allocated(heap) : heap.desc[m].index = b}
           a    == heap.block_addr[b]
<1>1. heap \in Heaps /\ TilesOK(heap) /\ BlocksOK(heap)
  BY DEF IInv, ShapeInv, HeapOK
<1>2. \A m \in mine : /\ heap.desc[m].addr \in Nat /\ heap.desc[m].size \in Nat /\ a \in Nat
                      /\ a <= heap.desc[m].addr /\ heap.desc[m].addr + heap.desc[m].size <= a + CellsPerBlock
  <2>1. \A m \in Allocated(heap) : heap.desc[m].size \in Nat
    BY <1>1, HeapFacts, AllocatedFacts
  <2> QED
    BY <1>1, <2>1, HeldFacts
<1>3. CellsPerBlock \in Nat /\ Offs = 0 .. CellsPerBlock - 1
  BY CellsFacts
<1>4. \A m, k \in mine : m # k => Apart(heap.desc[m], heap.desc[k])
  BY <1>1 DEF TilesOK
<1>5. \A m \in mine : \A i \in Offs : \E k \in mine : Has(heap.desc[k], a + i)
  <2> SUFFICES ASSUME NEW m \in mine, NEW i \in Offs PROVE \E k \in mine : Has(heap.desc[k], a + i)
    OBVIOUS
  <2>1. PICK k \in Allocated(heap) : heap.desc[k].index = heap.desc[m].index /\ Has(heap.desc[k], a + i)
    BY <1>1 DEF TilesOK
  <2> QED
    BY <2>1
<1>6. \A m : UnitsOf(m) = heap.desc[m].addr .. (heap.desc[m].addr + heap.desc[m].size) - 1
  BY DEF UnitsOf, EndOf
<1> HIDE DEF mine, a
<1>7. ASSUME NEW m \in mine PROVE UNION {UnitsOf(k) : k \in mine} = a .. a + CellsPerBlock - 1
  <2>1. a \in Nat
    BY <1>2
  <2>2. ASSUME NEW k \in mine, NEW u \in UnitsOf(k) PROVE u \in a .. a + CellsPerBlock - 1
    <3> DEFINE x == heap.desc[k].addr
               y == heap.desc[k].size
    <3>1. u \in x .. (x + y) - 1 /\ x \in Nat /\ y \in Nat /\ a <= x /\ x + y <= a + CellsPerBlock
      BY <1>2, <1>6, <2>2
    <3> HIDE DEF x, y
    <3> QED
      BY <1>3, <2>1, <3>1
  <2>3. ASSUME NEW u \in a .. a + CellsPerBlock - 1 PROVE \E k \in mine : u \in UnitsOf(k)
    <3>1. u - a \in Offs /\ a + (u - a) = u /\ u \in Int
      BY <1>3, <2>1
    <3>2. PICK k \in mine : Has(heap.desc[k], u)
      BY <1>5, <3>1
    <3> DEFINE x == heap.desc[k].addr
               y == heap.desc[k].size
    <3>3. x \in Nat /\ y \in Nat /\ x <= u /\ u < x + y /\ UnitsOf(k) = x .. (x + y) - 1
      BY <1>2, <1>6, <3>2 DEF Has
    <3> HIDE DEF x, y
    <3>4. u \in UnitsOf(k)
      BY <3>1, <3>3
    <3> QED
      BY <3>4
  <2> QED
    BY <2>2, <2>3
<1>8. ASSUME NEW m \in mine, NEW k \in mine, m # k PROVE UnitsOf(m) \cap UnitsOf(k) = {}
  <2> DEFINE x == heap.desc[m].addr
             y == heap.desc[m].size
             p == heap.desc[k].addr
             q == heap.desc[k].size
  <2>1. /\ x \in Nat /\ y \in Nat /\ p \in Nat /\ q \in Nat
        /\ x + y <= p \/ p + q <= x
        /\ UnitsOf(m) = x .. (x + y) - 1 /\ UnitsOf(k) = p .. (p + q) - 1
    BY <1>2, <1>4, <1>6, <1>8 DEF Apart
  <2> HIDE DEF x, y, p, q
  <2> QED
    BY <2>1
<1> QED
  BY <1>7, <1>8 DEF mine, a

\* dheap_mem_size finds the cell of a live region.
LEMMA LiveIsHeldFollows == IInv => LiveIsHeld
<1> SUFFICES ASSUME IInv, ~wild, NEW r \in live
             PROVE  LET addr == r.addr \div CellSize
                        b    == BlockIndex(addr) IN
                    /\ b \in Blocks
                    /\ used_cells[b][addr - heap.block_addr[b]] \in UsedSet
                    /\ MemSize(addr) >= r.size
                    /\ MemSize(addr) < Units(r.size) * CellSize + MinCells * CellSize
  BY DEF LiveIsHeld
<1>1. ShapeInv /\ SlotsInv /\ HeldInv /\ LiveInv /\ HeapOK(heap) /\ heap \in Heaps
  BY DEF IInv, ShapeInv, HeapOK
<1>2. PICK m \in UsedSet : r.addr = heap.desc[m].addr * CellSize /\ Suits(m, r.size)
  BY <1>1 DEF LiveInv
<1> DEFINE a == heap.desc[m].addr
           b == heap.desc[m].index
           s == heap.desc[m].size
<1>3. /\ m \in MCells /\ b \in Blocks /\ a - heap.block_addr[b] \in Offs
      /\ used_cells[b] # <<>> /\ used_cells[b][a - heap.block_addr[b]] = m
  BY <1>1, OwnSlot
<1>4. a \in Nat /\ s \in Nat /\ CellSize \in Nat \ {0} /\ MinCells \in Nat
  BY <1>1, <1>3, HeapFacts, DHeapAssumption, CellsFacts
<1>5. r.size \in Requests
  BY <1>1 DEF LiveInv
<1>6. /\ r.size \in Nat /\ Units(r.size) \in Nat /\ r.size <= Units(r.size) * CellSize
      /\ Units(r.size) <= s /\ s < Units(r.size) + MinCells
  BY <1>2, <1>5, UnitsFacts, CellsFacts DEF Suits
<1>7. r.addr \div CellSize = a
  <2> HIDE DEF a
  <2>1. (a * CellSize) \div CellSize = a
    BY <1>4, ExactDiv
  <2> QED
    BY <1>2, <2>1 DEF a
<1>8. heap.block_addr[b] # 0
  BY <1>1, <1>3 DEF ShapeInv, HeapOK, BlocksOK
<1>9. BlockIndex(a) = b
  BY <1>1, <1>3, <1>4, <1>8, BlockIndexFacts
<1>10. MemSize(a) = s * CellSize
  BY <1>3, <1>9 DEF MemSize
<1> DEFINE n == Units(r.size)
<1>11. n * CellSize <= s * CellSize /\ s * CellSize < n * CellSize + MinCells * CellSize
  <2>1. n \in Nat /\ n <= s /\ s < n + MinCells
    BY <1>6
  <2> HIDE DEF n, s
  <2>2. n * CellSize <= s * CellSize /\ (s + 1) * CellSize <= (n + MinCells) * CellSize
    BY <1>4, <2>1
  <2>3. /\ (s + 1) * CellSize = s * CellSize + CellSize
        /\ (n + MinCells) * CellSize = n * CellSize + MinCells * CellSize
        /\ s * CellSize \in Nat /\ n * CellSize \in Nat /\ MinCells * CellSize \in Nat
    BY <1>4, <2>1
  <2> QED
    BY <1>4, <2>2, <2>3
<1>12. s * CellSize >= r.size
  <2>1. n * CellSize \in Nat /\ s * CellSize \in Nat
    BY <1>4, <1>6
  <2> HIDE DEF s
  <2> QED
    BY <1>6, <1>11, <2>1
<1>13. used_cells[b][a - heap.block_addr[b]] \in UsedSet
  BY <1>3
<1> QED
  BY <1>3, <1>7, <1>9, <1>10, <1>11, <1>12, <1>13

-----------------------------------------------------------------------------
(* Best fit and coalescing. *)

\* A thread's place changes in its own steps only.
LEMMA OwnSteps ==
  ASSUME IInv, Next, NEW t \in Threads, pc'[t] # pc[t]
  PROVE  /\ pc[t] = "get" => /\ GetFreeCell(t) => pc'[t] = "put"
                             /\ GetFromNewBlock(t) => pc'[t] = "put"
                             /\ GetFreeCell(t) \/ GetFromNewBlock(t) \/ GetNoBlock(t) \/ GetBrokenBlock(t)
         /\ pc[t] = "add" => ReturnCell(t)
<1>1. pc \in [Threads -> {"idle", "get", "put", "rmv", "add"}]
  BY DEF IInv, LocalsInv
<1>2. \A u \in Threads : u # t =>
        /\ \A size \in Requests : ~Malloc(u, size)
        /\ ~GetFreeCell(u) /\ ~GetFromNewBlock(u) /\ ~GetNoBlock(u) /\ ~GetBrokenBlock(u)
        /\ ~PutUsedCell(u) /\ ~RmvUsedCell(u) /\ ~NotMine(u) /\ ~ReturnCell(u)
        /\ \A addr \in Addresses : ~Free(u, addr)
  BY <1>1 DEF Malloc, GetFreeCell, GetFromNewBlock, Take, GetNoBlock, GetBrokenBlock, PutUsedCell,
       Free, RmvUsedCell, NotMine, ReturnCell, Goto
<1>3. \/ \E size \in Requests : Malloc(t, size)
      \/ GetFreeCell(t) \/ GetFromNewBlock(t) \/ GetNoBlock(t) \/ GetBrokenBlock(t)
      \/ PutUsedCell(t) \/ \E addr \in Addresses : Free(t, addr)
      \/ RmvUsedCell(t) \/ NotMine(t) \/ ReturnCell(t)
  BY <1>2 DEF Next
<1>4. pc[t] = "get" => GetFreeCell(t) \/ GetFromNewBlock(t) \/ GetNoBlock(t) \/ GetBrokenBlock(t)
  BY <1>3 DEF Malloc, PutUsedCell, Free, RmvUsedCell, NotMine, ReturnCell
<1>5. pc[t] = "add" => ReturnCell(t)
  BY <1>3 DEF Malloc, GetFreeCell, GetFromNewBlock, GetNoBlock, GetBrokenBlock, PutUsedCell, Free,
       RmvUsedCell, NotMine
<1>6. (GetFreeCell(t) \/ GetFromNewBlock(t)) => pc'[t] = "put"
  BY <1>1 DEF GetFreeCell, GetFromNewBlock, Take, Goto
<1> QED
  BY <1>4, <1>5, <1>6

\* What the steps of dheap_get_free_cell take, and when they take nothing.
LEMMA BestFitStep ==
  ASSUME IInv, Next, NEW t \in Threads, pc[t] = "get"
  PROVE  /\ pc'[t] = "put" /\ Fits(Units(arg[t])) # {} =>
              /\ heap'.block_addr = heap.block_addr
              /\ \E m \in Fits(Units(arg[t])) :
                   /\ heap'.desc[cell'[t]].addr \in UnitsOf(m)
                   /\ \A k \in Fits(Units(arg[t])) : heap.desc[m].size <= heap.desc[k].size
         /\ pc'[t] = "idle" => Fits(Units(arg[t])) = {}
<1> DEFINE n == Units(arg[t])
           m == Hint(n)
<1>1. HeapOK(heap) /\ heap \in Heaps /\ cell \in [Threads -> Cells] /\ arg[t] \in Requests
  BY DEF IInv, ShapeInv, HeapOK, LocalsInv, ThreadInv
<1>2. n \in 1 .. CellsPerBlock /\ n \in Nat \ {0}
  BY <1>1, UnitsFacts
<1> HIDE DEF n
<1>3. FreeSet = FreeOf(heap) /\ FreeOf(heap) \subseteq MCells
  BY <1>1, FreeSetIs, AllocatedFacts DEF HeapOK
<1>4. \A k \in MCells : heap.desc[k].size \in Nat
  BY <1>1, HeapFacts
<1>5. /\ m = Null => \A k \in FreeOf(heap) : heap.desc[k].size < n
      /\ m # Null => /\ m \in FreeOf(heap) /\ n <= heap.desc[m].size
                     /\ \A k \in FreeOf(heap) : n <= heap.desc[k].size => heap.desc[m].size <= heap.desc[k].size
  BY <1>1, <1>2, HintFacts
<1>6. m = Null => Fits(n) = {}
  BY <1>2, <1>3, <1>4, <1>5 DEF Fits
<1>7. m # Null => m \in Fits(n) /\ \A k \in Fits(n) : heap.desc[m].size <= heap.desc[k].size
  BY <1>2, <1>3, <1>4, <1>5 DEF Fits
<1>8. ASSUME pc'[t] = "put", Fits(n) # {}
      PROVE  /\ heap'.block_addr = heap.block_addr
             /\ heap'.desc[cell'[t]].addr \in UnitsOf(m)
  <2>1. GetFreeCell(t)
    <3>1. ~GetFromNewBlock(t) /\ ~GetNoBlock(t) /\ ~GetBrokenBlock(t)
      BY <1>6, <1>8 DEF GetFromNewBlock, GetNoBlock, GetBrokenBlock, n
    <3> QED
      BY <1>8, <3>1, OwnSteps
  <2>2. Take(t, heap, m)
    BY <2>1 DEF GetFreeCell, n
  <2>3. heap' = TakeCell(heap, m, n).heap /\ cell' = [cell EXCEPT ![t] = TakeCell(heap, m, n).cell]
    BY <2>2 DEF Take, n
  <2> DEFINE c == TakeCell(heap, m, n).cell
  <2>4. cell'[t] = c
    BY <1>1, <2>3
  <2>5. CellTaken(heap, m, n, heap', c)
    <3>1. m \in FreeOf(heap) /\ n <= heap.desc[m].size
      BY <1>5, <1>6, <1>8
    <3> HIDE DEF m
    <3> QED
      BY <1>1, <1>2, <2>3, <3>1, TakeCellTakes
  <2> QED
    BY <2>4, <2>5 DEF CellTaken, UnitsOf
<1>9. ASSUME pc'[t] = "idle" PROVE Fits(n) = {}
  <2>1. GetNoBlock(t) \/ GetBrokenBlock(t)
    BY <1>9, OwnSteps
  <2>2. m = Null
    BY <2>1 DEF GetNoBlock, GetBrokenBlock, n
  <2> QED
    BY <1>6, <2>2
<1> HIDE DEF m
<1> QED
  BY <1>6, <1>7, <1>8, <1>9 DEF n

\* What lies next to a cell that was returned.
LEMMA FreedCellStep ==
  ASSUME IInv, IInv', Next, NEW t \in Threads, pc[t] = "add", pc'[t] = "idle"
  PROVE  LET d      == heap.desc[cell[t]]
             behind == \E k \in FreeSet : /\ heap.desc[k].index = d.index
                                          /\ heap.desc[k].addr > d.addr IN
         \A k \in FreeSet' : heap'.desc[k].index = d.index =>
           /\ heap'.desc[k].addr # EndOf(d)
           /\ behind => EndOf(heap'.desc[k]) # d.addr
<1> DEFINE m == cell[t]
           d == heap.desc[m]
<1>1. HeapOK(heap) /\ HeapOK(heap') /\ heap' \in Heaps /\ m # Null
  BY DEF IInv, ShapeInv, HeapOK, ThreadInv
<1>2. heap' = AddFreeCell(heap, m)
  BY OwnSteps DEF ReturnCell
<1>3. m \in Held(heap)
  BY <1>1, CellInHand
<1>4. FreeSet = FreeOf(heap)
  BY <1>1, FreeSetIs
<1>5. FreeSet' = FreeOf(heap')
  <2>1. heap'.size_list \in Lists
    BY <1>1, HeapFacts
  <2>2. DOMAIN heap'.size_list = 1 .. Len(heap'.size_list)
    BY <2>1 DEF Lists
  <2> QED
    BY <2>2 DEF FreeSet, FreeOf, Listed
<1> HIDE DEF m
<1>6. \A k \in FreeOf(heap') : heap'.desc[k].index = d.index =>
        /\ heap'.desc[k].addr # EndOf(d)
        /\ Behind(heap, m) => EndOf(heap'.desc[k]) # d.addr
  BY <1>1, <1>2, <1>3, AddFreeCellFrees
<1>7. Behind(heap, m) <=> \E k \in FreeSet : heap.desc[k].index = d.index /\ heap.desc[k].addr > d.addr
  BY <1>4 DEF Behind
<1> QED
  BY <1>5, <1>6, <1>7 DEF m

-----------------------------------------------------------------------------
(* The heap implements the abstract allocator. *)

\* Two cells do not overlap, be they of one block or of two.
LEMMA CellsApart ==
  ASSUME HeapOK(heap), NEW m \in Allocated(heap), NEW k \in Allocated(heap), m # k
  PROVE  Apart(heap.desc[m], heap.desc[k])
<1> DEFINE d == heap.desc[m]
           e == heap.desc[k]
           p == heap.block_addr[d.index]
           q == heap.block_addr[e.index]
<1>1. heap \in Heaps /\ TilesOK(heap) /\ BlocksOK(heap)
  BY DEF HeapOK
<1>2. CASE d.index = e.index
  BY <1>1, <1>2 DEF TilesOK
<1>3. CASE d.index # e.index
  <2>1. /\ p \in Places /\ p \in Nat /\ p <= d.addr /\ d.addr + d.size <= p + CellsPerBlock
        /\ q \in Places /\ q \in Nat /\ q <= e.addr /\ e.addr + e.size <= q + CellsPerBlock
        /\ d.addr \in Nat /\ d.size \in Nat /\ e.addr \in Nat /\ e.size \in Nat
        /\ d.index \in Blocks /\ e.index \in Blocks
    <3>1. m \in MCells /\ k \in MCells
      BY <1>1, AllocatedFacts
    <3>2. d.size \in Nat /\ e.size \in Nat
      BY <1>1, <3>1, HeapFacts
    <3> QED
      BY <1>1, <3>2, HeldFacts
  <2>2. p # q
    BY <1>1, <1>3, <2>1, PlacesApart DEF BlocksOK
  <2>3. (p < q => p + CellsPerBlock <= q) /\ (q < p => q + CellsPerBlock <= p)
    BY <2>1, PlacesApart
  <2>4. CellsPerBlock \in Nat
    BY CellsFacts
  <2> DEFINE x == d.addr
             y == d.size
             v == e.addr
             w == e.size
  <2> HIDE DEF p, q, x, y, v, w
  <2>5. x + y <= v \/ v + w <= x
    <3>1. /\ p \in Nat /\ p <= x /\ x + y <= p + CellsPerBlock
          /\ q \in Nat /\ q <= v /\ v + w <= q + CellsPerBlock
          /\ x \in Nat /\ y \in Nat /\ v \in Nat /\ w \in Nat
      BY <2>1 DEF x, y, v, w
    <3> QED
      BY <2>2, <2>3, <2>4, <3>1
  <2> QED
    BY <2>5 DEF Apart, x, y, v, w
<1> QED
  BY <1>2, <1>3

\* Whole units apart are bytes apart.
LEMMA BytesApart ==
  ASSUME NEW x \in Nat, NEW y \in Nat, NEW n \in Nat, NEW s \in Nat, NEW u \in Nat, NEW c \in Nat \ {0},
         x + y <= n, u <= y, s <= u * c
  PROVE  x * c + s <= n * c
<1>1. (x + y) * c <= n * c /\ u * c <= y * c
  OBVIOUS
<1>2. (x + y) * c = x * c + y * c /\ x * c \in Nat /\ y * c \in Nat /\ n * c \in Nat /\ u * c \in Nat
  OBVIOUS
<1> QED
  BY <1>1, <1>2

\* So the regions in them do not overlap.
LEMMA RegionsApart ==
  ASSUME HeapOK(heap), NEW m \in Allocated(heap), NEW k \in Allocated(heap), m # k,
         NEW r, NEW s, r.addr = heap.desc[m].addr * CellSize, Suits(m, r.size), r.size \in Requests,
         s.addr = heap.desc[k].addr * CellSize, Suits(k, s.size), s.size \in Requests
  PROVE  r.addr + r.size <= s.addr \/ s.addr + s.size <= r.addr
<1> DEFINE x == heap.desc[m].addr
           y == heap.desc[m].size
           v == heap.desc[k].addr
           w == heap.desc[k].size
<1>1. x \in Nat /\ y \in Nat /\ v \in Nat /\ w \in Nat
  BY HeapFacts, AllocatedFacts DEF HeapOK
<1>2. x + y <= v \/ v + w <= x
  BY CellsApart DEF Apart
<1>3. /\ r.size \in Nat /\ Units(r.size) \in Nat /\ r.size <= Units(r.size) * CellSize /\ Units(r.size) <= y
      /\ s.size \in Nat /\ Units(s.size) \in Nat /\ s.size <= Units(s.size) * CellSize /\ Units(s.size) <= w
      /\ CellSize \in Nat \ {0}
  BY UnitsFacts DEF Suits
<1>4. r.addr = x * CellSize /\ s.addr = v * CellSize
  OBVIOUS
<1> HIDE DEF x, y, v, w
<1>5. x + y <= v => x * CellSize + r.size <= v * CellSize
  BY <1>1, <1>3, BytesApart
<1>6. v + w <= x => v * CellSize + s.size <= x * CellSize
  BY <1>1, <1>3, BytesApart
<1> QED
  BY <1>2, <1>4, <1>5, <1>6

\* Handing out a cell grants a region.
LEMMA PutUsedCellGrants ==
  ASSUME IInv, ~wild, NEW t \in Threads, PutUsedCell(t)
  PROVE  Abstract!Next
<1> DEFINE m == cell[t]
           r == [addr |-> heap.desc[m].addr * CellSize, size |-> arg[t]]
<1>1. pc[t] = "put" /\ live' = live \cup {r}
  BY DEF PutUsedCell
<1>2. arg[t] \in Requests /\ m # Null /\ Suits(m, arg[t])
  BY <1>1 DEF IInv, ThreadInv
<1>3. m \in Allocated(heap) /\ m \notin UsedSet /\ heap.desc[m].addr \in Addresses
  BY <1>2, CellInHand, AddressFacts
<1>4. HeapOK(heap) /\ HeldInv /\ LiveInv
  BY DEF IInv, ShapeInv
<1>5. r.addr = heap.desc[m].addr * CellSize /\ r.size = arg[t]
  OBVIOUS
<1>6. r \in Abstract!Regions
  BY <1>2, <1>3 DEF Abstract!Regions
<1> HIDE DEF m, r
<1>7. ASSUME NEW s \in live PROVE Abstract!Disjoint(r, s)
  <2>1. PICK k \in UsedSet : s.addr = heap.desc[k].addr * CellSize /\ Suits(k, s.size)
    BY <1>4 DEF LiveInv
  <2>2. k \in Allocated(heap) /\ m # k
    BY <1>3, <1>4 DEF HeldInv, Held
  <2>3. s.size \in Requests
    BY <1>4 DEF LiveInv
  <2>4. Suits(m, r.size) /\ r.size \in Requests
    BY <1>2, <1>5
  <2> QED
    BY <1>3, <1>4, <1>5, <2>1, <2>2, <2>3, <2>4, RegionsApart DEF Abstract!Disjoint
<1> QED
  BY <1>1, <1>6, <1>7 DEF Abstract!Next, Abstract!Grant

\* Giving up a region releases it; a stale free releases nothing.
LEMMA FreeReleases ==
  ASSUME IInv, ~wild, NEW t \in Threads, NEW addr \in Addresses, Free(t, addr)
  PROVE  Abstract!Next \/ live' = live
<1>1. live' = live \ RegionsAt(addr)
  BY DEF Free
<1>2. LiveInv
  BY DEF IInv
<1>3. CASE RegionsAt(addr) = {}
  BY <1>1, <1>3
<1>4. ASSUME NEW r \in RegionsAt(addr) PROVE Abstract!Next
  <2>1. r \in live /\ r.addr = addr * CellSize
    BY <1>4 DEF RegionsAt
  <2>2. RegionsAt(addr) = {r}
    BY <1>2, <1>4, <2>1 DEF LiveInv, RegionsAt
  <2>3. r \in Abstract!Regions
    BY <1>2, <2>1 DEF LiveInv, Abstract!Regions
  <2> QED
    BY <1>1, <2>1, <2>2, <2>3 DEF Abstract!Next, Abstract!Release
<1> QED
  BY <1>3, <1>4

\* As long as no stale free has hit a live region, every step is one of the
\* abstract allocator.
LEMMA StepImplements ==
  ASSUME IInv, ~wild, [Next]_vars
  PROVE  Abstract!Next \/ live' = live
<1>1. ASSUME NEW t \in Threads, PutUsedCell(t) PROVE Abstract!Next
  BY <1>1, PutUsedCellGrants
<1>2. ASSUME NEW t \in Threads, NEW addr \in Addresses, Free(t, addr) PROVE Abstract!Next \/ live' = live
  BY <1>2, FreeReleases
<1>3. ASSUME NEW t \in Threads,
             \/ \E size \in Requests : Malloc(t, size)
             \/ GetFreeCell(t) \/ GetFromNewBlock(t) \/ GetNoBlock(t) \/ GetBrokenBlock(t)
             \/ RmvUsedCell(t) \/ NotMine(t) \/ ReturnCell(t)
      PROVE  live' = live
  BY <1>3 DEF Malloc, GetFreeCell, GetFromNewBlock, Take, GetNoBlock, GetBrokenBlock, RmvUsedCell,
       NotMine, ReturnCell
<1>4. UNCHANGED vars => live' = live
  BY DEF vars
<1> QED
  BY <1>1, <1>2, <1>3, <1>4 DEF Next

-----------------------------------------------------------------------------
(* The theorems. *)

\* Every mcell is in exactly one place, whatever threads free (CellsAccounted):
\* the exchange in dheap_rmv_used_cell gives a cell to one thread only.
THEOREM CellsStayAccounted == Spec => []CellsAccounted
  BY Invariance, CellsAccountedFollows, PTL

\* The lists stay sorted and the hints exact (HintsExact), on which
\* dheap_get_free_cell and dheap_add_free_cell rely without searching.
THEOREM HintsStayExact == Spec => []HintsExact
  BY Invariance, HintsExactFollows, PTL

\* No memory of a block is lost or in two cells (BlocksTiled).
THEOREM BlocksStayTiled == Spec => []BlocksTiled
  BY Invariance, BlocksTiledFollows, PTL

\* A live region has its cell, large enough and not much larger (LiveIsHeld).
THEOREM LiveStaysHeld == Spec => []LiveIsHeld
  BY Invariance, LiveIsHeldFollows, PTL

\* dheap_get_free_cell takes from the best fit, and fails only without one.
THEOREM TakesBestFit == Spec => BestFit
<1>1. IInv /\ [Next]_vars =>
        \/ UNCHANGED vars
        \/ \A t \in Threads :
             /\ pc[t] = "get" /\ pc'[t] = "put" /\ Fits(Units(arg[t])) # {} =>
                  /\ heap'.block_addr = heap.block_addr
                  /\ \E m \in Fits(Units(arg[t])) :
                       /\ heap'.desc[cell'[t]].addr \in UnitsOf(m)
                       /\ \A k \in Fits(Units(arg[t])) : heap.desc[m].size <= heap.desc[k].size
             /\ pc[t] = "get" /\ pc'[t] = "idle" => Fits(Units(arg[t])) = {}
  BY BestFitStep
<1> QED
  BY <1>1, Invariance, PTL DEF Spec, BestFit

\* dheap_add_free_cell leaves no free neighbour behind the cell, and none in
\* front of it if a free cell lies behind (FreedCellIsMerged).
THEOREM FreedCellsMerge == Spec => FreedCellIsMerged
<1>1. IInv /\ IInv' /\ [Next]_vars =>
        \/ UNCHANGED vars
        \/ \A t \in Threads : pc[t] = "add" /\ pc'[t] = "idle" =>
             LET d      == heap.desc[cell[t]]
                 behind == \E k \in FreeSet : /\ heap.desc[k].index = d.index
                                              /\ heap.desc[k].addr > d.addr IN
             \A k \in FreeSet' : heap'.desc[k].index = d.index =>
               /\ heap'.desc[k].addr # EndOf(d)
               /\ behind => EndOf(heap'.desc[k]) # d.addr
  BY FreedCellStep
<1> QED
  BY <1>1, Invariance, PTL DEF Spec, FreedCellIsMerged

\* Whatever the game frees: until a stale free has hit a live region, every
\* step is one of the abstract allocator, so no two live regions overlap.
THEOREM AllocatesUntilWild == Spec => [][wild \/ Abstract!Next]_live
<1>1. IInv /\ [Next]_vars => [wild \/ Abstract!Next]_live
  BY StepImplements
<1> QED
  BY <1>1, Invariance, PTL DEF Spec

\* If the game frees only what it owns, the heap implements the allocator.
THEOREM Implementation ==
  ASSUME ~StaleFrees
  PROVE  Spec => ImplementsAllocator
<1>1. Init => Abstract!Init
  BY DEF Init, Abstract!Init
<1>2. IInv /\ [Next]_vars => [Abstract!Next]_live
  <2>1. IInv => ~wild
    BY DEF IInv, LegalInv
  <2> QED
    BY <2>1, StepImplements
<1> QED
  BY <1>1, <1>2, Invariance, PTL DEF Spec, ImplementsAllocator, Abstract!Spec
=============================================================================
