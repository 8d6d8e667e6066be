# The Heap Replacer in TLA+

Heap Replacer is a DLL that replaces the memory allocator of two 32-bit games.
It hooks the game's `malloc`, `calloc`, `realloc`, `recalloc`, `msize` and
`free`, and its per-thread scratch heaps, with heaps of its own. A bug here shows
as a crash of the game hours later, so the interesting questions are: is a piece
of memory ever in two hands, is any lost, do threads ever wait for nothing, and
does the library get into the game in one piece.

Source paths below are relative to `src/heap_replacer/`, unless they start with `src/`.

## The system

| Component | State | Operations | Used by |
|---|---|---|---|
| `locks/nlock.h` | one word | lock (compare-and-swap, spinning), unlock (store) | mpool, `HR_LOG` |
| `locks/rlock.h` | owner, count | reentrant lock and unlock | dheap |
| `mheap/mpool.h` | blocks committed, free list `free_cells`, head, lock | malloc, free, mem_size, commit a block | mheap |
| `mheap/mheap.h` | 34 pools, tables by size, address, index | set up, look up, malloc, calloc, free, mem_size | hr functions |
| `dheap/*.h` | blocks, free cells on two lists with hint arrays, used cells, lock | malloc, calloc, free, mem_size, create a block, split, merge | hr functions |
| `sheap/sheap.h` | blocks, stack of chunks, one heap per thread | init, alloc, free, purge, get_thread_local | the game |
| `main/heap_replacer.h` | the heaps `m` and `d` | hr_malloc ... hr_free, the entry points of the games, `apply_hr_hooks` | the game, dheap, sheap |
| `main/main.c` | the hooked function `old_qpc` | DllMain, install, apply, unhook | the system, the game |
| `main/util.h`, `main/defs.h` | log file | patching, search of the import table, logging, `VirtualAlloc` wrappers | all |
| `src/cpu_info/main.c` | none | choose and load the binary for this processor | the game, by way of the forwarders |
| `src/cpu_info/d3dx9_38_exports.c` | none | linker directives that forward the exports of the real library | the linker |

How they interact:

* `hr_malloc` asks the mheap for up to 3584 bytes, the dheap for up to 16 MB,
  then `VirtualAlloc`; inside the mheap it goes from a pool that is full to the
  next larger one. `hr_free` and `hr_mem_size` find the heap by the address.
* dheap calls `hr_malloc` and `hr_free` for its own records (mcells) **while it
  holds its lock**. The lock order is dheap, pool, log. The mcell is small and
  normally comes from a pool, but when the pools are full the call comes back to
  dheap: that is why its lock is reentrant.
* sheap takes its blocks, and its array of pointers to them, from `hr_malloc`.
  Scratch heaps share nothing else.
* Pools share nothing with each other but the address space, in which each looks
  for a place when it is set up.
* The game loads the forwarding library, which loads the binary for the
  processor. Its DllMain replaces one slot of the import table; the first call
  through that slot sets up the heaps, writes some forty patches over the game's
  code, and puts the slot back.

What is hard: threads interleave in every heap but sheap; mpool writes to a cell
after its unlock; dheap enters a cell among the used ones after its unlock and
takes it out without the lock; the reentrant lock updates its count without
atomicity; the dheap calls itself in the middle of its operations; threads may
get into the start-up hook together; double frees are tolerated by design; the
system may refuse memory at any of a dozen places. There is no persistence and no
message, so nothing is about restarts or delivery. `PROJECT.json` lists the
hazards line by line, those the code does not handle included.

What makes each part correct:

* **mpool** - an item is never in two hands, none is lost, NULL only when full,
  a stale free does no harm to the list, items are in committed memory.
* **rlock** - one owner, no thread waits for itself, the count is its depth.
* **dheap** - cells tile the blocks, lists and hints agree, used cells and the
  game's regions agree, best fit, coalescing; nested calls keep all that and end.
* **sheap** - chunks in blocks that are there, no block lost or kept for nothing,
  and the heaps of different threads leave each other alone.
* **mheap** - size and address lead to the right pool whatever pool failed, and
  the search for a place ends when there is room.
* **hr functions** - memory is handed on between heaps without loss, the size,
  the zeroing and the data of what is returned are right, and some call
  always ends.
* **start-up** - the binary runs on this processor, only the right game is
  patched, every patched function leads to its replacement and finds the heaps
  set up, and the hook takes itself out.

## Modules

```
ReentrantLock <-- RLock <-- ReentryProofs
Allocator <------ MPool <-- MPoolProofs
Allocator <------ DHeap --> DCells <-- DNested <-- ReentryProofs
                  DCellsProofs --> DCells
                  DHeapProofs --> DHeap, DCellsProofs
                  ReentryProofs --> DCellsProofs
Allocator <------ SHeap <-- SHeapProofs
                  MHeap <-- MHeapProofs
                  HeapReplacer <-- HeapReplacerProofs
HookTable, CpuInfo <-- Loader <-- LoaderProofs
MC<module>: the instances for TLC      ("A <-- B": B implements or extends A)
```

| Module | Models | State and actions |
|---|---|---|
| `Allocator` | what every heap promises | `live` regions; `Grant`, `Release`; live regions never overlap |
| `ReentrantLock` | what a reentrant lock promises | depth per thread; `Take`, `Drop` |
| `MPool` | `mpool.h`, `nlock.h` | the C fields under their names, `pc` and `cell` per thread; one action per access to shared memory |
| `RLock` | `rlock.h` | both words of the lock; each read and write is an action, `lock_count++` is two |
| `DCells` | free cells of dheap (`dheap.h`, `clist.h`, `mcell.h`, `cdesc.h`) | pure operators, one per C function, on a record of the lists and arrays |
| `DHeap` | dheap under threads | what is locked is one step on `heap`; `PutUsedCell` and `RmvUsedCell` are steps outside of the lock |
| `DNested` | dheap calling itself through `hr_malloc` and `hr_free` | one thread; `stack` has a frame per C function with its place and variables; each call of another heap function is where a frame stops |
| `SHeap` | scratch heaps of several threads | `mem` is the memory of the arrays `blocks`, `cur`, `chain` (the list from `last`); one action per function and outcome |
| `MHeap` | `mheap_init_pools`, `mpool_setup`, the lookups | the three tables, both loop indexes, the places others have; `TryPlace` is one round of the search |
| `HeapReplacer` | hr functions, search of `mheap_malloc` | which pools are there, free slots per heap, bytes of each slot, the call of each thread |
| `HookTable` | `apply_hr_hooks`, the `patch_*` functions it uses | the program's tables of patches for both games, a patch turned into bytes, bytes into a jump target |
| `CpuInfo` | `get_min_iset` | the tests, best first, over what CPUID reports |
| `Loader` | both DllMains, `create_loader_hook`, `qpc_hook`, `patch_bytes` | the import table, the game's bytes, the protection of its pages, the place of each thread; a patch is three steps |

Ghost variables say what the code cannot: `live` is what the game owns, `issued`
what it was ever given, `wild` that a stale free hit a region that has a new
owner (then the game broke the rules and owns less than it thinks), `holds` how
deep a thread is in the lock, `held` which blocks the scratch heaps were given,
`overrun` that one freed a word that is not of its array, `applied` how often the
hook was entered.
Definitions that follow a `\* BUG:` comment belong to the
mutation test of the properties and occur in no specification.

### Abstractions

* *Locks in dheap.* `dheap_get_free_cell` and `dheap_add_free_cell` run under
  the rlock from end to end, so each is a step. That the lock excludes is proved
  in `ReentryProofs`.
* *Heaps under the hr functions.* A call of a heap is a step there, and a heap
  a set of slots. That is what the refinements to `Allocator` entitle to.
* *Memory order.* Both unlocks are plain stores. On x86, compiled by MSVC in
  program order, a plain store releases; the models take accesses in program order.
* *Addresses* are small numbers. dheap's blocks and sheap's blocks lie side by
  side, so that running over an end hits somebody.
* *Intrusive lists* are sequences. `array_index` of a node is computed from the
  cell, as the code does when it links the node. Of the word behind `size_array`
  (read by `dheap_rmv_cell_from_size_array` behind a cell of a whole block) the
  model knows that it holds no cell pointer.
* *Failing memory.* In `DHeap` every allocation of `dheap_create_new_block` may
  fail; in `DNested` every mcell; in `SHeap` each block, the first one included,
  with the array of a heap and its record in the thread's local storage; in `MHeap`
  the record of each pool. The commit in `mpool_setup_new_block` and
  the arrays of a pool are unchecked in the code: the models have them succeed,
  and the hazards list says so.
* *Set-up in the hook.* In `Loader` the turn of a pool in `mheap_init_pools` is
  one step, with memory or without; which entries it fills is `MHeap`'s matter.
  A second `mheap_init` clears the tables before it fills them again. What a
  second `dheap_init` does to a heap in use (it empties `size_list` and frees the
  lock under its holder) is not followed.
* *The return of `dheap_malloc`.* `PutUsedCell` stores the cell in `used_cells`
  and reads its address in one step, two statements of the code. A free of that
  address between them is stale, and `wild` records it as if it came after.
* *The compiler.* What a binary needs (`Needs` of `CpuInfo`) is an assumption on
  `/arch:$(ARCH)`, which no line of the code says.
* *Ends.* An access through NULL, to a protected page, or to an mcell that was
  freed ends the program, or leaves memory of which the code says nothing more.
  The models record it (`fault`, `"crashed"`, `overrun`) and stop there.
* *Nested calls* (`DNested`). The pools have an mcell or they do not, at each
  call. A freed mcell reads as it did before (the pools keep their free list
  elsewhere), so a stale neighbour is taken for adjacent if it was.
* *Patches.* The bytes of a patch are written in one step, but not the patch:
  between the change of protection, the write and the restoration other threads
  run. Which thread executes patched code meanwhile is not modelled.
* *Stale frees.* With `StaleFrees` the game may free any address it was ever
  given (`MPool`), or any address of a block with used cells (`DHeap`). In
  `SHeap` a chunk may be freed twice while it waits to be popped.
* *Sizes.* Requests are at least 1 byte. Those of a scratch heap fit its blocks.
  `count * size` is taken not to overflow.

## Checks

| Run | Instance | Shows |
|---|---|---|
| `mpool_stale` | 3 threads, 2 blocks of 3 items with 1 byte left over, stale frees | lock, free list, ownership, loss, exhaustion, stale frees, items in memory |
| `mpool_legal` | the same, legal frees, fair | the pool implements `Allocator`; someone's call always returns |
| `rlock` | 3 threads, depth 3, fair | exclusion, reentrancy, depth, refinement, someone gets in |
| `dheap_stale` | 2 threads, 1 block of 5 units, stale frees | cells accounted for, tiles, hints, used cells |
| `dheap_blocks` | 2 threads, 2 blocks of 4 units, requests of one byte and of a whole block, failing memory, legal frees | tiles, best fit, coalescing, no merge across blocks, `Allocator` |
| `dheap_nested` | 2 blocks of 6 units, mcells in pools or in the heap | every cell in one place, at every depth of nested calls; the depth is bounded |
| `sheap` | 2 heaps of up to 3 blocks of 16 bytes, 4 blocks and 2 arrays side by side, 2 sizes, any order of frees, purge | chunks in blocks, blocks not lost, all memory comes back, neighbours, `Allocator` |
| `mheap_table` | the program's 34 pools, one may fail | every size from 0 to 3584 gets the tightest pool |
| `mheap_places` | 4 pools in 7 places, others taking and leaving places, any pool may fail | addresses lead home; the search does not run past free room |
| `hr_data` | 1 thread, each heap has one slot, a pool may be missing | size, zeroing and data of what is returned |
| `hr_threads` | 2 threads, dheap full, others one slot, a pool may be missing | no slot lost or in two hands, some call ends |
| `loader` | 2 builds, 10 programs, 320 processors (5 highest leaves, every subset of 6 features); 2 pools; both tables of patches in full with one thread, 3 of their patches with two | binary, program, patches, set-up, removal |

Why the bounds are enough. A pool of two blocks has one seam between blocks, the
first and last cell of each, and three items to fight for among three threads:
two in the unlocked parts of their calls and one in the lock. Block size 7 and
item size 2 make items straddle the block's end. The lock's behaviour depends on
depth 1, 2 and "more". dheap's five units and the minimum of two allow a cell to
be split twice and merged on either side or both, and each hint range to be
empty, one or longer; sizes are a byte, a split in the middle and a whole block.
The sheap sizes fill a block to the last byte, do not fit behind another, and
need padding; three blocks are a first, a middle and a last one, behind which
the array ends and the neighbour's begins. A nested free that takes away the
neighbour its caller is about to merge needs five cells in a row, so DNested has
blocks of six units; once the second block is in use, a state in which the game
owns more than one region is not continued (`FewInLastBlock`).
The three patches two threads apply are two on one page and one on another, and
two pools are enough for tables that are in part filled when another thread clears
them. Counters need no bound: there are none but `lock_count`, bounded
by `MaxDepth`.

`CHECK_DEADLOCK FALSE` stands where the program ends: `MHeap` when all pools are
set up, `HeapReplacer`, `SHeap` and `DNested` when a thread has written through
NULL or memory is in two heaps, `Loader` when no thread calls any more or one has
crashed. Everywhere else deadlock is checked.

**Fairness.** Only of threads inside a call: the operating system keeps running
them (`WF` of each thread's step in `MPool`, `RLock` and `Loader`, of the search in
`MHeap`). In `HeapReplacer` a step is a whole call of a heap, which may spin for
one of its locks: there `WF` is of all threads' steps together, which is what
`SomeCallReturns` and `SomeoneGetsIn` justify. In `Loader` the step that sees to a
pool is left out of it, since `mpool_setup` searches for room until it finds
some (`mpool_setup` in `mpool.h:62`). Nothing is assumed of when the game calls,
nor of what others do with the address space. No
strong fairness of a lock is assumed: the spin locks do not queue, so a single
thread may starve, and the liveness properties promise only that *some* thread
gets on. `SomeoneGetsIn` takes from the callers that critical sections end.

### Behaviours worth knowing

The properties hold of the code as it is; some are worded around what it does:

* `FreedCellIsMerged`: a freed cell is merged with the free cell in front of it
  only if some free cell of its block lies behind it (`dheap.h:188`).
* `BlocksTiled` has blocks without any cell: one whose set-up failed half way
  stays in `block_desc` for good (`dheap.h:314`).
* `DataSurvive` leaves out regions of `VirtualAlloc`'s own (more than 16 MB, or
  all heaps full): their `hr_mem_size` is 0, so `hr_realloc` copies nothing
  (`heap_replacer.h:101`).
* `ZeroedForCaller` says nothing of bytes between the old request and the size
  of the old memory: `hr_recalloc` copies them, or leaves them when the region
  grows in place.
* `NeighboursUndisturbed` leaves out the heap that is in its last block: when its
  top chunk goes, `sheap_free` reads `blocks[32]`, frees what it points to and
  clears it. If another scratch heap's array lies there, that heap loses the
  block it is in (`sheap.h:98`).
* A scratch heap set up without memory takes any size for one that fits at
  address 0 and writes its header there, unless the size does not fit a block;
  then it goes on with its second block (`sheap.h:28`). One without memory for its
  array writes through NULL at once (`sheap.h:27`).
* `SomeCallEnds` promises an end to some call, not to each: the heaps' locks do
  not queue. And with no memory left `hr_realloc` writes through NULL, as does a
  search that gets to a pool which was not set up. Lookup by size never leads to
  such a pool while a larger one works, but the search from a full pool does
  (`mheap.h:119`).
* `NestingKeepsCells`: the mcell of a free neighbour may lie in the default heap
  itself. Freeing it in the middle of a merge can merge the next neighbour away,
  which the outer call still holds (`dheap.h:198`). And the first mcell of a new
  block may need a block of its own, down to the last index in one recursion.
* `RightProgram`: the mask tests accept every slot whose address has the bits and
  more. All bits of the FO3 editor's mask are in the FNV editor's, so the FO3
  build in the FNV editor keeps silent (`main/defs.h:7`, `:13`).
* `HeapsSetUpOnce`: a second thread in the hook sets up the heaps again, and
  `mheap_init` clears the tables that patched functions use (`mheap.h:38`). That
  there is one set-up, and no patched byte while a pool is missing, is stated for
  games that start their threads later; with more threads in the hook, that pools
  are missing only until the last thread has filled the tables. (The regions that
  were in use are then in pools nobody finds any more.)
* `GameIsPatched`: with two threads in the hook a page may stay writable.
  `HookGoesAway` has a crash of the one whose page the other has just protected
  (`main/util.h:68`), and a search for room that never ends, as the ways out.
* `BinaryExecutes`: the code asks for AVX512F only, and the binary may use more. A
  processor with a part of AVX-512 does get a binary it cannot execute, so what
  the property says of every processor is that the tested feature is there.

## Proofs

TLAPS proves the theorems below for every value of the constants that meets the
module's named assumption. The assumptions say what the code's own constants
satisfy, and TLC evaluates them on every instance:

| Assumption | Says |
|---|---|
| `MPoolAssumption` | an item is at least a byte, a block holds at least two |
| `RLockAssumption` | 0 is no thread's id |
| `DCellsAssumption` | there is a block, and the smallest cell fits into one |
| `DNestedAssumption` | sizes fit a block; the stack holds a call |
| `DHeapAssumption` | a unit is at least a byte, a request at most a block (`hr_malloc` asks for no more) |
| `SHeapAssumption` | headers keep the alignment, requests fit a block behind a header, what `hr_malloc` gives is aligned, apart and not NULL |
| `MHeapAssumption` | pools in the order of their item sizes, which are multiples of 4; the last has the largest size there is |
| `HeapReplacerAssumption` | the same, and `BlockMax` is a whole number of cells |
| `HookTableAssumption` | an address is a dword, and each replacing function has one |
| `LoaderAssumption` | there is a pool; the slots of an import table are aligned dwords, and apart, and a page holds whole ones; a patch has bytes, no other patch has the same, and a jump leads to a function of the library |

None bounds the number of threads, blocks, pools, cells or bytes.

No property is inductive, so each module has an inductive invariant `IInv`,
shown to hold initially and to be kept by each action (one lemma per action);
each property follows from it alone, and each action property and refinement
from it and the step. `THEOREM Invariance` is `Spec => []IInv`.

### `MPoolProofs`

Every safety property of `MPool`, and the refinement.

* `IInv` describes the free list
  without recursion: there is a function that gives each free cell a *rank*, the
  head has the highest, a cell's successor the next lower, the sentinel 0
  (`Chain`). Popping, pushing and threading a new block keep such a function
  (`ChainPop`, `ChainPush`, `ChainBlock`). To this it adds what a thread holds at
  each place of its call (`CellInv`, `PcInv`, `GripInv`), that an address the
  game knows is that of a usable item (`AddrInv`), that a usable cell without a
  successor is owned or coming back (`NullInv`), and, as long as no stale free
  was wild, that what is owned has none (`OwnInv`).
* `FreeListIsChain` speaks of walking the list, with a recursive function.
  `FreeListStaysChain` gets it from the ranks: `k` hops from the head lead to the
  cell with the head's rank less `k` (`RankIsHops`), so the walk reaches the
  ranked cells and no others. The library's induction theorems are of no use
  here; the lemmas about all numbers of hops are instances of `SetInduction`,
  which is stated of the *set* of the numbers and follows from its having no
  least element outside.
* `NullInv` and `GripInv` are what makes the write after the unlock
  (`MallocClear`) safe.
* `Implementation` assumes `StaleFrees = FALSE`: then no free is wild
  (`LegalInv`), and each step grants, releases or stutters.

### `DCellsProofs` and `DHeapProofs`

Every property of `DHeap` - accounting, exact hints, tiled blocks, used cells
and the game's regions, best fit, merging - with stale frees and without.

* `DCellsProofs` is about the operators alone: what the C functions do to a
  record in order (`HeapOK`). In order means that the lists are sorted, the
  hints exact, the cells of the free lists the same on both, and that each unit
  of a block with cells is covered by exactly one cell. That the tiles are
  *exact* is not said by adding up sizes, which would need induction, but unit
  by unit: each unit of a block is in some cell, and cells are apart (`TilesOK`).
* A hint is the first cell of its list whose key is above the index (`IsFirst`).
  Linking a cell makes it the hint from the key before it up to its own,
  unlinking hands these on to its successor: that the ranges `Fill` writes are
  exactly those whose hint changes is `InsertKeepsHints` and `RemoveKeepsHints`,
  proved once for both lists.
* `AddFreeCellFrees` and `TakeCellTakes` put link, unlink, merge and split
  together. The first states precisely what `dheap_add_free_cell` merges: a free
  cell behind always, one in front only if a free cell of the block lies behind.
* `DHeapProofs` adds what threads do: a cell noted in a slot belongs there
  (`SlotsInv`); a cell that is not free is in a slot or in *one* thread's hands
  (`HeldInv`), which is what makes the unlocked accesses to `used_cells` safe;
  while no stale free was wild, a region of the game is a cell of a slot, large
  enough but not by more than a split allows (`LiveInv`).
* `Implementation` assumes `~StaleFrees`. `AllocatesUntilWild` is its part that
  holds with them: each step is one of the abstract allocator until a stale free
  has hit a region with a new owner.

### `ReentryProofs`

Why the default heap may call itself: the lock that lets the thread in again,
and what its calls then do to each other.

*The lock.* Every safety property of `RLock`, and that it implements
`ReentrantLock`. `IInv` adds to the properties what each thread has seen and done
in the middle of a call (`PcInv`): above all, a thread that waits has never held
the lock, and a count that was read is still the depth when it is written back.

*The calls.* `NestingIsSafe` is `NestingKeepsCells` for any blocks, cells and
sizes. A nested call finds the lists in the middle of its caller's update, so
`HeapOK` does not hold there; `NestedInv` says instead:

* The heap is in order but for the cells that some call is splitting: they are
  off the size list and keep their places in the address lists (`PartOK`). The
  lemmas of `DCellsProofs` about links, unlinks and splits are stated of such heaps.
* Each call that waits has a *grip*: the cell it splits or frees, or the block
  index it is filling (`FrameOK`). No two have the same (`Wait`). A malloc only
  ever waits for a malloc and a free for a free (`Calls`), so what the inner calls
  do is known: mallocs take free cells, which the outer ones do not have any
  more, and frees merge free cells, never one that a call is freeing.
* A free remembers the neighbour behind its cell. It is unchanged, or merged and
  its mcell freed (`NextOK`); only in the second case does the code go on with a
  stale pointer, and there the model stops.
* The cells that are not free are in `used_cells` or in the hands of the calls
  (`UsedOK`), and an address in use is the game's, the home of one mcell, or on
  its way to the call that asked for an mcell (`HomeOK`).

That the recursion ends needs no measure: grips are different members of a set of
`BlockCount * (CellsPerBlock + 1)` numbers (`WaitsFit`), so there is at most one call
more than that. The theorem assumes a stack for as many; the run gives it that.

### `SHeapProofs`

Every property of `SHeap` and the refinement.

* A step of one heap is shown to keep the invariant of the others because it
  leaves their arrays alone (`StepKeeps`). `SharedInv` keeps the heaps' arrays
  and blocks apart; `HeapInv` says of one heap that it has all blocks up to the
  one in use and at most one behind it (`BlocksInv`), that chunks lie in their
  blocks one behind the other (`ChunksInv`), and that below a chunk there is one
  in every earlier block (`StepsInv`). The last is needed for `NoBlockLost`:
  without it `sheap_free` could pop over a block and leave it behind.
* All of it holds as long as no heap emptied its last block and freed the word
  behind its array (`Sound`), as in the properties themselves.

### `MHeapProofs`

`AddressesLeadHome` and `TightestPool`. `IInv` says of the tables what they are
to be *of the pools set up so far*: each size slot has the first of the working
pools whose items are large enough, or none (`SizesInv`), and the pools ahead of
the loop have no memory yet (`AheadInv`).

### `HeapReplacerProofs`

The four safety properties of `HeapReplacer`, for any number of threads, pools and
slots. `IInv` follows a call from place to place: what it has (`PlaceInv`), that
a region it moves is still the game's and as large as it was measured (`OldInv`), what
is in the memory it got (`NewInv`), that no other call works on its region
(`OneUser`) - which is what entitles `hr_realloc` to copy without a lock - and
what the game may rely on in the regions it owns (`LiveInv`).

### `LoaderProofs`

Every safety property of `Loader`.

* `IInv` says what each stage has decided (`StageInv`, `RunInv`), that after the
  first set-up any missing pool is still ahead of a thread that fills (`HeapsInv`),
  and that with one thread until the hook is out nobody gets into it after the slot
  was restored, nor is a byte patched before the tables are full (`OnceInv`). That
  the slot is restored to what the system put there needs that
  `get_import_address` finds a slot of the function or none (`ImportIsFound`).
  `RightProgram` is proved from a hypothesis about the programs: that the masks
  tell the game and its editor from the others.
* `GameGetsPatched` rests on two more invariants. `PatchedInv`: each thread in
  the hook has the patches it is past in place, whatever the others write
  meanwhile, and only bytes of patches are written. `PagesInv`: with one thread in
  the hook, the pages are as they were but for those of one patch, and the one
  protection it has noted is that of all of them - a patch, and the slot, touch
  only code or only data (`TouchedFacts`, `DwordInPage`).
* That a jump arrives is arithmetic on dwords, round the end of the address space
  or not (`JumpArrives`, `DwordHasValue`). That the tables reach all functions
  is proved of the two tables as they stand (`FNVReaches`, `FO3Reaches`).

### Left to TLC

Liveness under fairness (`SomeCallReturns`, `SomeoneGetsIn`, `SomeCallEnds`,
`SearchFinds`, `HookGoesAway`), and with it `ENABLED`. Every safety property, action
property and refinement that a run checks is a theorem.

Leaves that a prover takes more than a moment for name it and a time limit
(`SMTT`, `ZenonT`).

## Plan

Done, in this order: MPool with its proofs, RLock with its proofs, DCells and
DHeap, SHeap, MHeap, HeapReplacer, Loader with HookTable and CpuInfo, DNested;
then the proofs of HeapReplacer, MHeap, SHeap, DCells and DHeap, Loader, and DNested.

1. *Intrusive list* (`clist.h`, `cnode.h`): links of head, tail and nodes,
   shown to implement the sequences of DCells.
2. *Commit that fails*: what `mpool_setup_new_block` does to its own fields when
   `VirtualAlloc` returns NULL.

## Not modelled

* Logging (`HR_LOG`): output to a file under a lock of its own, which is never
  held while another is taken.
* The patch functions nobody calls, `patch_call` among them; the console.
* `src/cpu_info/d3dx9_38_exports.c`: linker directives without behaviour.
* `mheap/mpool - Copy.h`: an older pool that nothing includes.
