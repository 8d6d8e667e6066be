------------------------------- MODULE MPool -------------------------------
(***************************************************************************)
(* One pool of equally sized items (src/heap_replacer/mheap/mpool.h), used *)
(* by any number of threads at once.                                       *)
(*                                                                         *)
(* The pool reserves BlockCount blocks of address space and commits them   *)
(* one by one.  Item number k lives at Bgn + k * ItemSize; its bookkeeping *)
(* is entry k of free_cells, a list threaded through "next".  A next field *)
(* that is NULL says "not free", with one exception: the last cell of the  *)
(* list, which is therefore never handed out (Sentinel).                   *)
(*                                                                         *)
(* Every step that touches memory another thread may touch is an action of *)
(* its own.  Two of them run outside of the lock: MallocClear, and the     *)
(* calls themselves.  Addresses are bytes; "cur" counts committed blocks,  *)
(* as pool->cur moves by POOL_BLOCK_SIZE only.                             *)
(***************************************************************************)
EXTENDS Integers

CONSTANTS
  Threads,     \* the threads of the game
  ItemSize,    \* pool->item_size
  BlockSize,   \* POOL_BLOCK_SIZE
  BlockCount,  \* pool->block_count
  Bgn,         \* pool->bgn, where the reserved address space starts
  StaleFrees   \* whether the game may free an address it no longer owns

\* The smallest real block holds 292 items (3584 bytes each in 1 MB).
ASSUME MPoolAssumption ==
  /\ ItemSize \in Nat \ {0}
  /\ BlockSize \in Nat
  /\ BlockSize >= 2 * ItemSize
  /\ BlockCount \in Nat \ {0}
  /\ Bgn \in Nat
  /\ StaleFrees \in BOOLEAN

VARIABLES
  locked,     \* the word of the pool's nlock
  next,       \* next[k] is free_cells[k].next
  next_free,  \* pool->next_free
  cur,        \* blocks committed so far
  pc,         \* where each thread is
  cell,       \* old_free in malloc, c in free: the cell a thread works on
  live,       \* ghost: addresses the game owns
  issued,     \* ghost: addresses malloc has ever returned
  wild        \* ghost: a stale free took effect on a cell that is live again

poolVars == <<locked, next, next_free, cur>>
vars     == <<locked, next, next_free, cur, pc, cell, live, issued, wild>>

Null == -1

\* BUG: a partial item at the end of a block counts as an item.
CellsPerBlock_RoundUp == (BlockSize + ItemSize - 1) \div ItemSize

CellsPerBlock == BlockSize \div ItemSize
MaxCellCount  == BlockCount * CellsPerBlock
Cells         == 0 .. MaxCellCount - 1

\* BUG: the cell index is not scaled by the item size.
FreePtrToReal_Unscaled(c) == Bgn + c

FreePtrToReal(c) == Bgn + c * ItemSize
RealToFreePtr(a) == (a - Bgn) \div ItemSize

Addresses == {FreePtrToReal(c) : c \in Cells}

\* Places inside of a call; between Lock and Unlock a thread is Inside.
Waiting == {"m_lock", "f_lock"}
Inside  == {"m_test", "m_setup", "m_read", "m_pop", "m_unlock", "m_fail",
            "f_test", "f_link", "f_push", "f_unlock"}
Labels  == {"idle", "m_clear"} \cup Waiting \cup Inside

Goto(t, l) == pc' = [pc EXCEPT ![t] = l]

Init ==
  /\ locked = 0
  /\ next = [c \in Cells |-> Null]
  /\ next_free = 0
  /\ cur = 0
  /\ pc = [t \in Threads |-> "idle"]
  /\ cell = [t \in Threads |-> Null]
  /\ live = {}
  /\ issued = {}
  /\ wild = FALSE

-----------------------------------------------------------------------------
(* nlock: a compare-and-swap that spins until it reads 0; a plain store.   *)

\* BUG: an exchange whose result is ignored.
Acquire_Blind == locked' = 1

Acquire == locked = 0 /\ locked' = 1

\* BUG: the lock stays taken.
Release_Not == UNCHANGED locked

Release == locked' = 0

-----------------------------------------------------------------------------
(* mpool_malloc *)

Malloc(t) ==
  /\ pc[t] = "idle"
  /\ Goto(t, "m_lock")
  /\ UNCHANGED <<poolVars, cell, live, issued, wild>>

MallocLock(t) ==
  /\ pc[t] = "m_lock"
  /\ Acquire
  /\ Goto(t, "m_test")
  /\ UNCHANGED <<next, next_free, cur, cell, live, issued, wild>>

\* BUG: the last block is never committed.
Full_LastBlock == cur >= BlockCount - 1

\* pool->cur == pool->end
Full == cur = BlockCount

\* Only the last cell of the list has no successor: the list is used up.
MallocTest(t) ==
  /\ pc[t] = "m_test"
  /\ Goto(t, IF next[next_free] # Null THEN "m_read"
             ELSE IF Full THEN "m_fail"
             ELSE "m_setup")
  /\ UNCHANGED <<poolVars, cell, live, issued, wild>>

\* BUG: the loop stops one cell early.
LastOf_Short(bank) == bank + CellsPerBlock - 2

LastOf(bank) == bank + CellsPerBlock - 1

\* mpool_setup_new_block: chain the cells of the block, last to first.
SetupNewBlock(t) ==
  LET bank == cur * CellsPerBlock
      last == LastOf(bank) IN
  /\ pc[t] = "m_setup"
  /\ next' = [c \in Cells |-> IF c = bank THEN Null
                              ELSE IF c \in bank .. last THEN c - 1
                              ELSE next[c]]
  /\ next_free' = last
  /\ cur' = cur + 1
  /\ Goto(t, "m_read")
  /\ UNCHANGED <<locked, cell, live, issued, wild>>

MallocRead(t) ==
  /\ pc[t] = "m_read"
  /\ cell' = [cell EXCEPT ![t] = next_free]
  /\ Goto(t, "m_pop")
  /\ UNCHANGED <<poolVars, live, issued, wild>>

MallocPop(t) ==
  /\ pc[t] = "m_pop"
  /\ next_free' = next[next_free]
  /\ Goto(t, "m_unlock")
  /\ UNCHANGED <<locked, next, cur, cell, live, issued, wild>>

MallocUnlock(t) ==
  /\ pc[t] = "m_unlock"
  /\ Release
  /\ Goto(t, "m_clear")
  /\ UNCHANGED <<next, next_free, cur, cell, live, issued, wild>>

\* BUG: the popped cell keeps its successor.
Unlinked_Not(t) == next

Unlinked(t) == [next EXCEPT ![cell[t]] = Null]

\* old_free->next = NULL runs after the unlock; then the address is returned.
MallocClear(t) ==
  LET addr == FreePtrToReal(cell[t]) IN
  /\ pc[t] = "m_clear"
  /\ next' = Unlinked(t)
  /\ live' = live \cup {addr}
  /\ issued' = issued \cup {addr}
  /\ cell' = [cell EXCEPT ![t] = Null]
  /\ Goto(t, "idle")
  /\ UNCHANGED <<locked, next_free, cur, wild>>

\* The early return: unlock, return NULL.
MallocFail(t) ==
  /\ pc[t] = "m_fail"
  /\ Release
  /\ Goto(t, "idle")
  /\ UNCHANGED <<next, next_free, cur, cell, live, issued, wild>>

-----------------------------------------------------------------------------
(* mpool_free *)

\* The game gives up a live address, or frees one it gave up before.
Free(t, addr) ==
  /\ pc[t] = "idle"
  /\ addr \in live \/ StaleFrees
  /\ cell' = [cell EXCEPT ![t] = RealToFreePtr(addr)]
  /\ live' = live \ {addr}
  /\ Goto(t, "f_lock")
  /\ UNCHANGED <<poolVars, issued, wild>>

FreeLock(t) ==
  /\ pc[t] = "f_lock"
  /\ Acquire
  /\ Goto(t, "f_test")
  /\ UNCHANGED <<next, next_free, cur, cell, live, issued, wild>>

\* BUG: no check for a double free.
InUse_Any(c) == TRUE

InUse(c) == next[c] = Null

\* A cell with a successor is free already, or being handed out: ignored.
FreeTest(t) ==
  /\ pc[t] = "f_test"
  /\ IF InUse(cell[t])
     THEN /\ Goto(t, "f_link")
          /\ wild' = (wild \/ FreePtrToReal(cell[t]) \in live)
     ELSE Goto(t, "f_unlock") /\ UNCHANGED wild
  /\ UNCHANGED <<poolVars, cell, live, issued>>

FreeLink(t) ==
  /\ pc[t] = "f_link"
  /\ next' = [next EXCEPT ![cell[t]] = next_free]
  /\ Goto(t, "f_push")
  /\ UNCHANGED <<locked, next_free, cur, cell, live, issued, wild>>

FreePush(t) ==
  /\ pc[t] = "f_push"
  /\ next_free' = cell[t]
  /\ Goto(t, "f_unlock")
  /\ UNCHANGED <<locked, next, cur, cell, live, issued, wild>>

FreeUnlock(t) ==
  /\ pc[t] = "f_unlock"
  /\ Release
  /\ cell' = [cell EXCEPT ![t] = Null]
  /\ Goto(t, "idle")
  /\ UNCHANGED <<next, next_free, cur, live, issued, wild>>

-----------------------------------------------------------------------------

Step(t) ==
  \/ MallocLock(t)
  \/ MallocTest(t)
  \/ SetupNewBlock(t)
  \/ MallocRead(t)
  \/ MallocPop(t)
  \/ MallocUnlock(t)
  \/ MallocClear(t)
  \/ MallocFail(t)
  \/ FreeLock(t)
  \/ FreeTest(t)
  \/ FreeLink(t)
  \/ FreePush(t)
  \/ FreeUnlock(t)

Call(t) ==
  \/ Malloc(t)
  \/ \E addr \in issued : Free(t, addr)

Next == \E t \in Threads : Call(t) \/ Step(t)

Spec == Init /\ [][Next]_vars

\* Inside of a call the operating system keeps running the thread.
FairSpec == Spec /\ \A t \in Threads : WF_vars(Step(t))

-----------------------------------------------------------------------------
(* What is on the list, told from the cells and not from the pool's head.  *)

\* The first cell of the newest block ends the list; it is never handed out.
Sentinel == IF cur = 0 THEN 0 ELSE (cur - 1) * CellsPerBlock

\* Popped and not yet returned, or linked and not yet pushed.
Popped == {t \in Threads : pc[t] \in {"m_unlock", "m_clear"}}
InHand == {cell[t] : t \in Popped \cup {u \in Threads : pc[u] = "f_push"}}

FreeCells == ({c \in Cells : next[c] # Null} \cup {Sentinel}) \ InHand

\* The cells malloc may return once their block is committed.
FirstCells == {b * CellsPerBlock : b \in 0 .. BlockCount - 1}
Usable     == (0 .. cur * CellsPerBlock - 1) \ FirstCells

\* Cells of frees that have not linked them yet.
Returning == {cell[t] : t \in {u \in Threads : pc[u] \in {"f_lock", "f_test", "f_link"}}}

Owned == {RealToFreePtr(a) : a \in live}

TypeOK ==
  /\ locked \in {0, 1}
  /\ next \in [Cells -> Cells \cup {Null}]
  /\ next_free \in Cells
  /\ cur \in 0 .. BlockCount
  /\ pc \in [Threads -> Labels]
  /\ cell \in [Threads -> Cells \cup {Null}]
  /\ live \subseteq Addresses
  /\ issued \subseteq Addresses
  /\ wild \in BOOLEAN

(***************************************************************************)
(* The lock works: at most one thread is between nlock_lock and            *)
(* nlock_unlock, and the word is 1 exactly then, on every path out of      *)
(* mpool_malloc and mpool_free.                                            *)
(***************************************************************************)
MutualExclusion ==
  /\ \A t, u \in Threads : pc[t] \in Inside /\ pc[u] \in Inside => t = u
  /\ (locked = 1) <=> \E t \in Threads : pc[t] \in Inside

(***************************************************************************)
(* No call, no interleaving and no double free tangles the free list: the  *)
(* chain that starts at next_free visits each free cell once and ends at   *)
(* the sentinel.  Reach[n] is what n hops from next_free visit.            *)
(***************************************************************************)
Reach[n \in 0 .. MaxCellCount] ==
  IF n = 0 THEN {next_free}
  ELSE Reach[n - 1] \cup ({next[c] : c \in Reach[n - 1]} \ {Null})

FreeListIsChain ==
  /\ Reach[MaxCellCount] = FreeCells
  /\ next[Sentinel] = Null
  /\ \A c, d \in FreeCells : next[c] = next[d] => c = d

(***************************************************************************)
(* malloc never hands out an item twice: a cell popped and on its way to   *)
(* the caller is owned by nobody and in nobody else's hands.  Clearing     *)
(* old_free->next after the unlock is safe because of this.  It holds as   *)
(* long as no stale free has hit an item that was handed out again.        *)
(***************************************************************************)
NoDoubleHandout ==
  ~wild => \A t \in Popped :
             /\ cell[t] \notin Owned
             /\ \A u \in Popped : cell[u] = cell[t] => u = t

(***************************************************************************)
(* No item is lost: a usable cell is on the free list, owned by the game,  *)
(* or in the hands of a call in progress.                                  *)
(***************************************************************************)
NoCellLost == Usable \subseteq FreeCells \cup InHand \cup Owned \cup Returning

(***************************************************************************)
(* mpool_malloc returns NULL only when the pool is full: every block is    *)
(* committed and no usable cell is free.                                   *)
(***************************************************************************)
NullOnlyWhenFull ==
  (\E t \in Threads : pc[t] = "m_fail") =>
     /\ cur = BlockCount
     /\ Usable \cap FreeCells = {}

(***************************************************************************)
(* A double free is harmless unless the item was handed out again in the   *)
(* meantime: a free only ever links a cell that some call has given back   *)
(* and no list holds, or one whose new owner it robs (wild).               *)
(***************************************************************************)
StaleFreeIgnored ==
  \A t \in Threads : pc[t] = "f_link" =>
     /\ next[cell[t]] = Null
     /\ cell[t] \notin FreeCells \cup InHand
     /\ cell[t] \in Owned => wild

(***************************************************************************)
(* An item lies in committed memory, even where the item size does not     *)
(* divide the block and items straddle blocks.                             *)
(***************************************************************************)
ItemsCommitted ==
  \A a \in live : a >= Bgn /\ a + ItemSize <= Bgn + cur * BlockSize

\* The pool implements the abstract allocator, one region per live address.
Heap == INSTANCE Allocator WITH
          Arena <- Addresses,
          Sizes <- {ItemSize},
          live  <- {[addr |-> a, size |-> ItemSize] : a \in live}

ImplementsAllocator == Heap!Spec

(***************************************************************************)
(* Nobody waits on everybody: when all threads are inside of a call, one   *)
(* of them returns.  The spin lock is not fair, so no more is promised to  *)
(* a single thread.                                                        *)
(***************************************************************************)
SomeCallReturns ==
  (\A t \in Threads : pc[t] # "idle") ~> (\E t \in Threads : pc[t] = "idle")
=============================================================================
