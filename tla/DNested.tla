------------------------------- MODULE DNested -------------------------------
(***************************************************************************)
(* The default heap calling itself (src/heap_replacer/dheap).  Its mcells  *)
(* come from hr_malloc and go to hr_free while its lock is held.  When the *)
(* pools are full, hr_malloc takes an mcell out of the default heap: the   *)
(* lock lets the thread in again, and the inner call changes the lists in  *)
(* the middle of the outer one.  The code writes the whole of each of      *)
(* these calls as a recursion; here its stack is a sequence of frames.     *)
(*                                                                         *)
(* All of it is under the lock, so there is one thread.                    *)
(***************************************************************************)
EXTENDS DCells, FiniteSets

CONSTANTS
  Sizes,      \* the sizes the game asks for, in units
  StackSize   \* how many calls fit on the thread's stack

ASSUME DNestedAssumption ==
  /\ Sizes \subseteq 1 .. CellsPerBlock
  /\ StackSize \in Nat \ {0}

VARIABLES
  heap,     \* the free cells
  used,     \* used_cells: address |-> the cell handed out there
  home,     \* home[m]: the address of the default heap where mcell m lives
  stack,    \* the calls, innermost last
  result,   \* what the last inner hr_malloc returned
  live,     \* ghost: the addresses the game owns
  fault     \* "none"; "null", "dangling": the end of what is modelled

nestedVars == <<heap, used, home, stack, result, live, fault>>

Addresses == MCells
Elsewhere == 0     \* in a pool, or memory of VirtualAlloc's own
Nothing   == -1    \* NULL

\* ROUND_UP(sizeof(struct mcell), DHEAP_CELL_SIZE)
McellUnits == 1

\* A frame is the place in its function and the variables of the C functions:
\* the size and the cell, or the block, of dheap_get_free_cell; the cell and
\* the neighbour of dheap_add_free_cell, and what the neighbour's desc is.
Frame(at, n, m)       == [at |-> at, n |-> n, cell |-> m, next |-> Null, desc |-> NoDesc]
GetFrame(n)           == Frame("get", n, Null)
AddFrame(m)           == Frame("add", 0, m)

NestedInit ==
  /\ heap = Empty
  /\ used = [a \in Addresses |-> Null]
  /\ home = [m \in MCells |-> Elsewhere]
  /\ stack = <<>>
  /\ result = Elsewhere
  /\ live = {}
  /\ fault = "none"

\* The innermost call is at one of these places.
In(places) == fault = "none" /\ stack # <<>> /\ Last(stack).at \in places

Top    == Last(stack)
To(f)  == Append(Front(stack), f)

-----------------------------------------------------------------------------

\* The game calls.
Malloc(n) ==
  /\ fault = "none" /\ stack = <<>>
  /\ stack' = <<GetFrame(n)>>
  /\ UNCHANGED <<heap, used, home, result, live, fault>>

Free(addr) ==
  /\ fault = "none" /\ stack = <<>>
  /\ addr \in live
  /\ live' = live \ {addr}
  /\ used' = [used EXCEPT ![addr] = Null]
  /\ stack' = <<AddFrame(used[addr])>>
  /\ UNCHANGED <<heap, home, result, fault>>

-----------------------------------------------------------------------------
(* dheap_get_free_cell *)

\* The innermost dheap_malloc returns r, to the game or to hr_malloc, which
\* goes on to VirtualAlloc.
Finish(r) ==
  /\ stack' = Front(stack)
  /\ IF Len(stack) = 1
     THEN /\ live' = live \cup ({r} \ {Nothing})
          /\ result' = Elsewhere
     ELSE /\ result' \in IF r = Nothing THEN {Elsewhere, Nothing} ELSE {r}
          /\ UNCHANGED live

\* hr_malloc(sizeof(struct mcell)): the pools have one, or they are full.
Ask(f) ==
  \/ stack' = To(f) /\ result' = Elsewhere
  \/ /\ Len(stack) < StackSize
     /\ stack' = Append(To(f), GetFrame(McellUnits))
     /\ UNCHANGED result

\* The cell to take: the best fit, or that of the block just created.
Chosen == IF Top.at = "take" THEN Top.cell ELSE heap.size_array[Top.n - 1]
Whole  == heap.desc[Chosen].size - Top.n < MinCells

GetWhole ==
  LET addr == heap.desc[Chosen].addr IN
  /\ In({"get", "take"}) /\ Chosen # Null /\ Whole
  /\ heap' = RmvFreeCell(heap, Chosen)
  /\ used' = [used EXCEPT ![addr] = Chosen]
  /\ Finish(addr)
  /\ UNCHANGED <<home, fault>>

\* BUG: the cell is taken off the size list only after the mcell is there.
Unlisted_Later(h, m) == h

\* The cell is off the size list while hr_malloc runs.
Unlisted(h, m) == RmvFromSizeList(RmvCellFromSizeArray(h, m), m)

AskForTail ==
  /\ In({"get", "take"}) /\ Chosen # Null /\ ~Whole
  /\ heap' = Unlisted(heap, Chosen)
  /\ Ask(Frame("split", Top.n, Chosen))
  /\ UNCHANGED <<used, home, live, fault>>

SplitOff ==
  LET m    == Top.cell
      tail == NewTail(heap, m, Top.n)
      h    == Split(heap, m, Top.n) IN
  /\ In({"split"}) /\ result # Nothing
  /\ heap' = AddCellToSizeArray(AddCellToSizeList(h, m), m)
  /\ home' = [home EXCEPT ![tail] = result]
  /\ used' = [used EXCEPT ![h.desc[tail].addr] = tail]
  /\ Finish(h.desc[tail].addr)
  /\ UNCHANGED fault

\* mcell_split writes through NULL.
SplitThroughNull ==
  /\ In({"split"}) /\ result = Nothing
  /\ fault' = "null"
  /\ UNCHANGED <<heap, used, home, stack, result, live>>

WithBlock(h, b, addr) == [RegisterBlock(h, addr) EXCEPT !.addr_array[b] = Blank]

\* dheap_create_new_block; blocks lie in the order of their indexes.
AskForBlock ==
  LET b == NextFreeBlockIndex(heap) IN
  /\ In({"get"}) /\ Chosen = Null /\ b # BlockCount
  /\ heap' = WithBlock(heap, b, CellsPerBlock * (b + 1))
  /\ Ask(Frame("create", Top.n, b))
  /\ UNCHANGED <<used, home, live, fault>>

CreateBlock ==
  LET b == Top.cell
      m == NewCell(heap, heap.block_addr[b]) IN
  /\ In({"create"}) /\ result # Nothing
  /\ heap' = AddFreeCell(FillBlock(heap, b, m), m)
  /\ home' = [home EXCEPT ![m] = result]
  /\ stack' = To(Frame("take", Top.n, m))
  /\ UNCHANGED <<used, result, live, fault>>

\* No index is left, or no memory for the block; or there is no mcell for it.
GetNothing ==
  /\ \/ In({"get"}) /\ Chosen = Null
     \/ In({"create"}) /\ result = Nothing
  /\ Finish(Nothing)
  /\ UNCHANGED <<heap, used, home, fault>>

-----------------------------------------------------------------------------
(* dheap_add_free_cell *)

\* hr_free(m), then on to f: when the mcell lives in this heap, by dheap_free.
FreeMcell(m, f) ==
  LET at == home[m] IN
  /\ home' = [home EXCEPT ![m] = Elsewhere]
  /\ IF at = Elsewhere
     THEN stack' = To(f) /\ UNCHANGED used
     ELSE /\ Len(stack) < StackSize
          /\ stack' = Append(To(f), AddFrame(used[at]))
          /\ used' = [used EXCEPT ![at] = Null]

Goes(f) == stack' = To(f) /\ UNCHANGED <<heap, used, home>>

\* Both neighbours are looked up, and the one in front is merged.
MergePrev ==
  LET m    == Top.cell
      b    == heap.desc[m].index
      next == heap.addr_array[b][AddrIndex(heap, m)]
      prev == IF next = Null THEN Null ELSE PrevIn(heap.addr_list[b], next)
      f    == [Top EXCEPT !.at = "next", !.next = next,
                          !.desc = IF next = Null THEN NoDesc ELSE heap.desc[next]] IN
  /\ In({"add"})
  /\ IF prev # Null /\ Precedes(heap, prev, m)
     THEN /\ heap' = Merge(heap, m, prev, StartBefore(heap, m, prev))
          /\ FreeMcell(prev, f)
     ELSE Goes(f)
  /\ UNCHANGED <<result, live, fault>>

\* The one behind, too.  If it was freed since it still reads as it did.
Adjacent == Top.next # Null /\ EndOf(heap.desc[Top.cell]) = Top.desc.addr
Freed    == heap.desc[Top.next] = NoDesc

MergeNext ==
  LET m == Top.cell
      f == [Top EXCEPT !.at = "link", !.next = Null, !.desc = NoDesc] IN
  /\ In({"next"})
  /\ IF ~Adjacent THEN Goes(f) /\ UNCHANGED fault
     ELSE IF Freed
     THEN fault' = "dangling" /\ UNCHANGED <<heap, used, home, stack>>
     ELSE /\ heap' = Merge(heap, m, Top.next, heap.desc[m].addr)
          /\ FreeMcell(Top.next, f)
          /\ UNCHANGED fault
  /\ UNCHANGED <<result, live>>

Link ==
  /\ In({"link"})
  /\ heap' = LinkFreeCell(heap, Top.cell)
  /\ stack' = Front(stack)
  /\ UNCHANGED <<used, home, result, live, fault>>

-----------------------------------------------------------------------------

NestedStep ==
  \/ GetWhole \/ AskForTail \/ SplitOff \/ SplitThroughNull
  \/ AskForBlock \/ CreateBlock \/ GetNothing
  \/ MergePrev \/ MergeNext \/ Link

NestedNext ==
  \/ \E n \in Sizes : Malloc(n)
  \/ \E addr \in Addresses : Free(addr)
  \/ NestedStep

NestedSpec == NestedInit /\ [][NestedNext]_nestedVars

-----------------------------------------------------------------------------

CellsAt(places) == {stack[i].cell : i \in {j \in DOMAIN stack : stack[j].at \in places}}
OnLists   == UNION {{heap.addr_list[b][i] : i \in DOMAIN heap.addr_list[b]} : b \in Blocks}
Used     == {used[a] : a \in Addresses} \ {Null}
Freeing  == CellsAt({"add", "next", "link"})
Homes    == {home[m] : m \in Allocated(heap)} \ {Elsewhere}
InFlight == IF stack # <<>> /\ Top.at \in {"split", "create"}
            THEN {result} \ {Elsewhere, Nothing} ELSE {}
UnitsOf(m) == heap.desc[m].addr .. EndOf(heap.desc[m]) - 1

NestedTypeOK ==
  /\ heap.desc \in [MCells -> [addr : Addresses \cup {0}, size : 0 .. CellsPerBlock, index : Blocks]]
  /\ used \in [Addresses -> MCells \cup {Null}]
  /\ home \in [MCells -> Addresses \cup {Elsewhere}]
  /\ Len(stack) < StackSize
  /\ result \in Addresses \cup {Elsewhere, Nothing}
  /\ live \subseteq Addresses /\ fault \in {"none", "null", "dangling"}

(***************************************************************************)
(* However deep the calls are nested, each cell is in one place: free, in  *)
(* use, or being freed by one of the calls; a free cell is on the size     *)
(* list unless one of the calls is splitting it, and the cells of a block  *)
(* cover it once.  What is in use belongs to the game or holds one mcell,  *)
(* not both.  The calls never fill the stack: each has a cell or a block   *)
(* index less to take than the one that called it.  It ends only where the *)
(* outer free goes on with a neighbour that the inner free has merged (the *)
(* pointer it read before hr_free), or mcell_split has no mcell.           *)
(***************************************************************************)
NestingKeepsCells ==
  NestedTypeOK /\ (fault = "none" =>
    /\ Allocated(heap) = OnLists \cup Used \cup Freeing
    /\ OnLists \cap Used = {} /\ Freeing \cap (OnLists \cup Used) = {}
    /\ {heap.size_list[i] : i \in DOMAIN heap.size_list} = OnLists \ CellsAt({"split"})
    /\ Len(heap.size_list) = Cardinality(OnLists \ CellsAt({"split"}))
    /\ {a \in Addresses : used[a] # Null} = live \cup Homes \cup InFlight
    /\ live \cap Homes = {} /\ InFlight \cap (live \cup Homes) = {}
    /\ \A m, k \in Allocated(heap) : m # k =>
         /\ UnitsOf(m) \cap UnitsOf(k) = {}
         /\ home[m] = home[k] => home[m] = Elsewhere
    /\ \A b \in Blocks :
         LET mine == {m \in Allocated(heap) : heap.desc[m].index = b} IN
         mine # {} => UNION {UnitsOf(m) : m \in mine}
                        = heap.block_addr[b] .. heap.block_addr[b] + CellsPerBlock - 1)
=============================================================================
