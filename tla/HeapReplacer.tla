---------------------------- MODULE HeapReplacer ----------------------------
(***************************************************************************)
(* The functions that the game's calls are patched to                      *)
(* (src/heap_replacer/main/heap_replacer.h), over the heaps they share:    *)
(* the pools of the mheap, the default heap, and VirtualAlloc.             *)
(*                                                                         *)
(* Each heap is here what it promises (Allocator): a set of slots, given   *)
(* out to one caller at a time.  A call of a heap is one step, so a call   *)
(* of hr_malloc is several: it asks heap after heap until one has room.    *)
(* Heap h of the pools is number h, then come DHeap and OS.                *)
(*                                                                         *)
(* The data in a slot are kept byte by byte: "game" for what the game has  *)
(* written into its region, "zero", or "junk".                             *)
(***************************************************************************)
EXTENDS Integers, Sequences

CONSTANTS
  Threads,
  ItemSize,    \* the item size of each pool, increasing
  CellSize,    \* DHEAP_CELL_SIZE
  BlockMax,    \* DHEAP_BLOCK_SIZE
  WordSize,    \* the 4 bytes hr_memset32 writes at a time
  Capacity,    \* bound: how many slots each heap has
  Working,     \* the sets of pools that may have been set up
  Requests,    \* the sizes asked for
  NoSlot       \* the NULL address

Pools == DOMAIN ItemSize
DHeap == Len(ItemSize) + 1
OS    == Len(ItemSize) + 2
Heaps == Pools \cup {DHeap, OS}

Slots == UNION {{<<h, k>> : k \in 1 .. Capacity[h]} : h \in Heaps}

\* A region wider than a word may be zeroed by words: item sizes and cells
\* are multiples of it.
ASSUME HeapReplacerAssumption ==
  /\ WordSize \in Nat \ {0}
  /\ ItemSize \in Seq(Nat \ {0}) /\ ItemSize # <<>>
  /\ \A h \in Pools :
       /\ ItemSize[h] % WordSize = 0
       /\ h + 1 \in Pools => ItemSize[h] < ItemSize[h + 1]
  /\ CellSize \in Nat \ {0} /\ CellSize % WordSize = 0
  /\ BlockMax \in Nat /\ BlockMax % CellSize = 0 /\ BlockMax >= ItemSize[Len(ItemSize)]
  /\ Capacity \in [Heaps -> Nat]
  /\ Working \subseteq SUBSET Pools
  /\ Requests \subseteq Nat \ {0}
  /\ NoSlot \notin Slots

VARIABLES
  up,     \* the pools that were set up: what pools_by_indx has
  free,   \* the slots the heaps have to give
  data,   \* data[s]: the bytes of a slot that is given out
  live,   \* the regions the game owns: [slot, size]
  pc,     \* where each thread is
  call,   \* its call: op, size, old slot, the size the game knew it by, new slot
  at      \* the heap it asks next

vars == <<up, free, data, live, pc, call, at>>

MaxAlloc == ItemSize[Len(ItemSize)]

Least(S)          == CHOOSE x \in S : \A y \in S : x <= y
RoundUp(n, unit)  == ((n + unit - 1) \div unit) * unit

\* BUG: the largest pool that does not exceed the size.
FirstPool_Down(size) ==
  LET small == {h \in Pools : ItemSize[h] <= size} IN
  IF small = {} THEN 1 ELSE CHOOSE h \in small : \A k \in small : k <= h


\* mheap_pool_from_size (MHeap): the tightest pool that works.  When none
\* does it is NULL, as is the entry of the pool that should have been it.
FirstPool(size) ==
  LET fit == {h \in Pools : ItemSize[h] >= size} IN
  Least(IF fit \cap up = {} THEN fit ELSE fit \cap up)

FirstHeap(size) == IF size <= MaxAlloc THEN FirstPool(size)
                   ELSE IF size <= BlockMax THEN DHeap ELSE OS

\* mpool_mem_size, dheap_mem_size; hr_mem_size of VirtualAlloc's memory is 0.
MemSize(s) == IF s[1] = OS THEN 0 ELSE Len(data[s])

NoRegion == [slot |-> NoSlot, size |-> 0]
NoCall   == [op |-> "none", size |-> 0, old |-> NoRegion, old_size |-> 0, new |-> NoSlot]

Init ==
  /\ up \in Working
  /\ free = Slots
  /\ data = [s \in Slots |-> <<>>]
  /\ live = {}
  /\ pc = [t \in Threads |-> "idle"]
  /\ call = [t \in Threads |-> NoCall]
  /\ at = [t \in Threads |-> 1]

\* An access through NULL ends the program.
Running == \A t \in Threads : pc[t] # "crashed"

Goto(t, l) == pc' = [pc EXCEPT ![t] = l]

\* Thread t is done with the region it called with, or the heap has it back.
LetsGo(t, r) == pc[t] = "return" /\ call[t].new # r.slot

\* The regions the game may call with: each is in one call at a time.
Quiet == {r \in live : \A t \in Threads : call[t].old.slot = r.slot => LetsGo(t, r)}

Enter(t, c, l) ==
  /\ Running
  /\ pc[t] = "idle"
  /\ call' = [call EXCEPT ![t] = c]
  /\ at' = [at EXCEPT ![t] = FirstHeap(c.size)]
  /\ Goto(t, l)

-----------------------------------------------------------------------------
(* The calls.  hr_realloc of NULL is a Malloc, hr_recalloc of NULL a       *)
(* Calloc.                                                                 *)

Obtain(t, op, size) ==
  /\ Enter(t, [NoCall EXCEPT !.op = op, !.size = size], "alloc")
  /\ UNCHANGED <<up, free, data, live>>

Malloc(t, size) == Obtain(t, "malloc", size)
Calloc(t, size) == Obtain(t, "calloc", size)

\* A call of hr_realloc or hr_recalloc that answers with slot new, if any yet.
Resize(op, r, size, new) ==
  [op |-> op, size |-> size, old |-> r, old_size |-> MemSize(r.slot), new |-> new]

InPlace(r, size) == MemSize(r.slot) >= size

\* The region stays where it is: its new size fits.
ReallocInPlace(t, r, size) ==
  /\ InPlace(r, size)
  /\ Enter(t, Resize("realloc", r, size, r.slot), "return")
  /\ UNCHANGED <<up, free, data, live>>

\* hr_memset8(VSUM(addr, new_size), 0, old_size - new_size)
ClearTail(s, size) ==
  [i \in 1 .. Len(data[s]) |-> IF i > size THEN "zero" ELSE data[s][i]]

RecallocInPlace(t, r, size) ==
  /\ InPlace(r, size)
  /\ Enter(t, Resize("recalloc", r, size, r.slot), "return")
  /\ data' = [data EXCEPT ![r.slot] = ClearTail(r.slot, size)]
  /\ UNCHANGED <<up, free, live>>

\* It must move: hr_malloc or hr_calloc is called for the new size.
Move(t, op, r, size) ==
  /\ ~InPlace(r, size)
  /\ Enter(t, Resize(op, r, size, NoSlot), "alloc")
  /\ UNCHANGED <<up, free, data, live>>

Free(t, r) ==
  /\ Enter(t, Resize("free", r, 0, NoSlot), "free")
  /\ live' = live \ {r}
  /\ UNCHANGED <<up, free, data>>

-----------------------------------------------------------------------------
(* hr_malloc and hr_calloc *)

\* BUG: recalloc takes its memory from hr_malloc.
Zeroing_CallocOnly(t) == call[t].op = "calloc"

Zeroing(t) == call[t].op \in {"calloc", "recalloc"}

\* The words mheap_calloc and dheap_calloc clear.
ZeroedBytes(size) == RoundUp(size, WordSize)

\* Slot s, with n bytes of memory.
Take(t, s, n) ==
  LET zeroed == IF s[1] = OS THEN n
                ELSE IF Zeroing(t) THEN ZeroedBytes(call[t].size) ELSE 0 IN
  /\ s \in free
  /\ free' = free \ {s}
  /\ data' = [data EXCEPT ![s] =
                [i \in 1 .. n |-> IF i <= zeroed THEN "zero" ELSE "junk"]]
  /\ call' = [call EXCEPT ![t].new = s]
  /\ Goto(t, IF call[t].old = NoRegion THEN "return" ELSE "copy")
  /\ UNCHANGED <<up, live, at>>

Asks(t, h) == Running /\ pc[t] = "alloc" /\ at[t] = h

TakeItem(t) ==
  \E s \in free : /\ Asks(t, s[1]) /\ s[1] \in up
                  /\ Take(t, s, ItemSize[s[1]])

\* BUG: the search for a larger pool starts over.
NextHeap_Again(h) == IF h = Len(ItemSize) THEN 1 ELSE h + 1

\* On to the next larger pool, behind the last one to the default heap.
NextHeap(h) == h + 1

PoolFull(t) ==
  /\ Asks(t, at[t])
  /\ at[t] \in up
  /\ \A s \in free : s[1] # at[t]
  /\ at' = [at EXCEPT ![t] = NextHeap(@)]
  /\ UNCHANGED <<up, free, data, live, pc, call>>

\* mpool_malloc(NULL, size)
NoPool(t) ==
  /\ Asks(t, at[t])
  /\ at[t] \in Pools \ up
  /\ Goto(t, "crashed")
  /\ UNCHANGED <<up, free, data, live, call, at>>

\* The cell may be a little larger: what is left over is not split off.
TakeCell(t) ==
  \E s \in free, extra \in {0, CellSize} :
    /\ Asks(t, s[1]) /\ s[1] = DHeap
    /\ Take(t, s, RoundUp(call[t].size, CellSize) + extra)

DHeapFull(t) ==
  /\ Asks(t, DHeap)
  /\ \A s \in free : s[1] # DHeap
  /\ at' = [at EXCEPT ![t] = OS]
  /\ UNCHANGED <<up, free, data, live, pc, call>>

TakePages(t) ==
  \E s \in free : /\ Asks(t, s[1]) /\ s[1] = OS
                  /\ Take(t, s, call[t].size)

\* VirtualAlloc refuses: hr_malloc returns NULL.
NoPages(t) ==
  /\ Asks(t, OS)
  /\ \A s \in free : s[1] # OS
  /\ Goto(t, IF call[t].old = NoRegion THEN "return" ELSE "copy")
  /\ UNCHANGED <<up, free, data, live, call, at>>

-----------------------------------------------------------------------------
(* The rest of hr_realloc and hr_recalloc; hr_free *)

\* memcpy of n bytes from the old to the new place.
Copied(c, n) == [i \in 1 .. Len(data[c.new]) |->
                   IF i <= n THEN data[c.old.slot][i] ELSE data[c.new][i]]

\* BUG: whole words only.
CopySize_Words(c) == c.old_size \div WordSize

CopySize(c) == c.old_size

\* BUG: the old region is not freed.
AfterCopy_NoFree == "return"

\* hr_free(addr) begins.
AfterCopy == "free"

Copy(t) ==
  LET c == call[t] IN
  /\ Running
  /\ pc[t] = "copy"
  /\ c.new # NoSlot
  /\ data' = [data EXCEPT ![c.new] = Copied(c, CopySize(c))]
  /\ live' = live \ {c.old}
  /\ Goto(t, AfterCopy)
  /\ UNCHANGED <<up, free, call, at>>

\* hr_malloc returned NULL, and nobody looks: memcpy writes through it, or,
\* when old_size is 0, the region is freed and NULL is returned for it.
CopyToNull(t) ==
  LET c == call[t] IN
  /\ Running
  /\ pc[t] = "copy"
  /\ c.new = NoSlot
  /\ IF c.old_size > 0
     THEN Goto(t, "crashed") /\ UNCHANGED live
     ELSE Goto(t, "free") /\ live' = live \ {c.old}
  /\ UNCHANGED <<up, free, data, call, at>>

\* The heap that has the address takes it back.
GiveBack(t) ==
  /\ Running
  /\ pc[t] = "free"
  /\ free' = free \cup {call[t].old.slot}
  /\ data' = [data EXCEPT ![call[t].old.slot] = <<>>]
  /\ Goto(t, "return")
  /\ UNCHANGED <<up, live, call, at>>

\* The game gets its answer, and writes all over a region it gets.
Return(t) ==
  LET c    == call[t]
      gone == IF c.new = c.old.slot THEN {c.old} ELSE {}
      got  == IF c.new = NoSlot THEN {} ELSE {[slot |-> c.new, size |-> c.size]} IN
  /\ Running
  /\ pc[t] = "return"
  /\ live' = (live \ gone) \cup got
  /\ data' = [s \in Slots |->
                IF s # c.new THEN data[s]
                ELSE [i \in 1 .. Len(data[s]) |-> IF i <= c.size THEN "game" ELSE data[s][i]]]
  /\ call' = [call EXCEPT ![t] = NoCall]
  /\ at' = [at EXCEPT ![t] = 1]
  /\ Goto(t, "idle")
  /\ UNCHANGED <<up, free>>

-----------------------------------------------------------------------------

\* Thread t calls.
Begin(t) ==
  \/ \E size \in Requests :
       \/ Malloc(t, size)
       \/ Calloc(t, size)
       \/ \E r \in Quiet :
            \/ ReallocInPlace(t, r, size)
            \/ RecallocInPlace(t, r, size)
            \/ \E op \in {"realloc", "recalloc"} : Move(t, op, r, size)
  \/ \E r \in Quiet : Free(t, r)

\* Thread t goes on with its call.
Step(t) ==
  \/ TakeItem(t) \/ PoolFull(t) \/ NoPool(t)
  \/ TakeCell(t) \/ DHeapFull(t)
  \/ TakePages(t) \/ NoPages(t)
  \/ Copy(t) \/ CopyToNull(t)
  \/ GiveBack(t) \/ Return(t)

Next == \E t \in Threads : Begin(t) \/ Step(t)

\* A step is a whole call of a heap, behind a spin lock that does not queue: some
\* thread inside a call gets on, but perhaps always another one.
Spec     == Init /\ [][Next]_vars
FairSpec == Spec /\ WF_vars(\E t \in Threads : Step(t))

-----------------------------------------------------------------------------

Region == [slot : Slots, size : Requests]

TypeOK ==
  /\ up \in Working /\ free \subseteq Slots
  /\ data \in [Slots -> Seq({"game", "zero", "junk"})]
  /\ \A s \in Slots :
       /\ s \in free <=> data[s] = <<>>
       /\ s \notin free /\ s[1] \in Pools => Len(data[s]) = ItemSize[s[1]]
  /\ live \subseteq Region
  /\ pc \in [Threads -> {"idle", "alloc", "copy", "free", "return", "crashed"}]
  /\ call \in [Threads ->
       [op       : {"none", "malloc", "calloc", "realloc", "recalloc", "free"},
        size     : Requests \cup {0},
        old      : Region \cup {NoRegion},
        old_size : Nat,
        new      : Slots \cup {NoSlot}]]
  /\ at \in [Threads -> Heaps]

\* What a call holds that the game does not own.
InHand(t) ==
  LET c == call[t] IN
  (IF pc[t] = "free" THEN {c.old.slot} ELSE {}) \cup ({c.new} \ {c.old.slot, NoSlot})

LiveSlots == {r.slot : r \in live}

(***************************************************************************)
(* Whatever calls run at once, each slot is free in its heap, owned by the *)
(* game as one region, or in the hands of one call: no two callers get the *)
(* same memory, no memory is lost when a request falls through from heap   *)
(* to heap, and a realloc that moves gives up its old region once.         *)
(***************************************************************************)
SlotsAccounted ==
  /\ TypeOK
  /\ Slots = free \cup LiveSlots \cup UNION {InHand(t) : t \in Threads}
  /\ free \cap LiveSlots = {}
  /\ \A r, q \in live : r.slot = q.slot => r = q
  /\ \A t \in Threads :
       /\ InHand(t) \cap (free \cup LiveSlots) = {}
       /\ \A u \in Threads \ {t} : InHand(t) \cap InHand(u) = {}

Answers(t, ops) == pc[t] = "return" /\ call[t].op \in ops /\ call[t].new # NoSlot

(***************************************************************************)
(* A region is as large as was asked for, in whatever heap it was found.   *)
(***************************************************************************)
BigEnough ==
  /\ \A r \in live : Len(data[r.slot]) >= r.size
  /\ \A t \in Threads : Answers(t, {"malloc", "calloc", "realloc", "recalloc"}) =>
       Len(data[call[t].new]) >= call[t].size

(***************************************************************************)
(* What hr_calloc returns is zero, and so is what hr_recalloc adds to the  *)
(* memory of a region that it moves.  (Bytes between the size the game     *)
(* knew and the size of the old memory are copied, not cleared.)           *)
(***************************************************************************)
ZeroedForCaller ==
  \A t \in Threads : Answers(t, {"calloc", "recalloc"}) =>
    \A i \in call[t].old_size + 1 .. call[t].size : data[call[t].new][i] = "zero"

(***************************************************************************)
(* The game's data survive hr_realloc and hr_recalloc, moved or not, as    *)
(* far as the smaller of the two sizes.  Not for memory of VirtualAlloc's  *)
(* own: its hr_mem_size is 0, so nothing of it is copied.                  *)
(***************************************************************************)
DataSurvive ==
  \A t \in Threads : Answers(t, {"realloc", "recalloc"}) =>
    LET c == call[t] IN
    c.old.slot[1] # OS => \A i \in 1 .. c.size :
                            i <= c.old.size => data[c.new][i] = "game"

\* A pool that has failed was needed, or memory to move a region to.
Shortage ==
  \E t \in Threads :
    /\ pc[t] = "crashed"
    /\ at[t] \in Pools \ up \/ (at[t] = OS /\ call[t].old # NoRegion)

(***************************************************************************)
(* As long as there are calls, calls end: they do not run after memory     *)
(* round and round, though other threads take it from under them, since    *)
(* the search goes from heap to heap in one direction.  Which call ends is *)
(* a matter of luck, as the locks are.  Only two shortages end the program *)
(* instead, both through NULL: a pool that failed at start stands in the   *)
(* way of the search, or the system has no memory to move a region to.     *)
(***************************************************************************)
SomeCallEnds ==
  []<>(\E t \in Threads : pc[t] # "idle") =>
    <>Shortage \/ []<><<\E t \in Threads : pc[t] # "idle" /\ pc'[t] = "idle">>_vars
=============================================================================
