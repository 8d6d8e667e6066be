-------------------------------- MODULE SHeap --------------------------------
(***************************************************************************)
(* The scratch heaps (src/heap_replacer/sheap/sheap.h).  Each belongs to   *)
(* one thread and has no lock; its operations are steps.  What the heaps   *)
(* share is hr_malloc, which gives them blocks of BuffSize bytes and the   *)
(* arrays of pointers to their blocks.                                     *)
(*                                                                         *)
(* Chunks are pushed one behind the other into the blocks.  They may be    *)
(* freed in any order, but memory comes back only from the top: a chunk    *)
(* freed below the top is marked and waits for those above.  The list from *)
(* heap->last through prev is the sequence "chain", last chunk last.       *)
(***************************************************************************)
EXTENDS Integers, Sequences, FiniteSets, SequencesExt

CONSTANTS
  Threads,
  BuffSize,    \* SHEAP_BUFF_SIZE
  MaxBlocks,   \* SHEAP_MAX_BLOCKS
  HdrSize,     \* sizeof(struct schnk)
  Align,       \* the 4 of ROUND_UP(heap->cur, 4)
  Requests,    \* Requests[t]: the sizes thread t asks for
  BlockAddrs,  \* where hr_malloc may put blocks
  ArrayCount   \* bound: how many arrays hr_malloc has, side by side

\* A request fits into a block: the code takes larger ones and would run over
\* the end of the block.  hr_malloc returns aligned memory of its own.
ASSUME SHeapAssumption ==
  /\ HdrSize \in Nat \ {0} /\ Align \in Nat \ {0} /\ HdrSize % Align = 0
  /\ MaxBlocks \in Nat \ {0} /\ BuffSize \in Nat
  /\ \A t \in Threads : Requests[t] \subseteq 1 .. BuffSize - HdrSize
  /\ BlockAddrs \subseteq Nat \ {0}
  /\ \A a \in BlockAddrs : a % Align = 0
  /\ \A a, b \in BlockAddrs : a < b => a + BuffSize <= b
  /\ ArrayCount \in Nat \ {0}

VARIABLES
  state,    \* of each heap: "none", "ready", "purged": the array is freed
  base,     \* heap->blocks, a place in mem
  mem,      \* the memory for arrays, and two words behind, which are zero
  cur,      \* heap->cur
  chain,    \* the chunks on the list of heap->last
  held,     \* blocks hr_malloc gave and hr_free did not get back
  live,     \* ghost: the regions the game owns in each heap
  overrun   \* ghost: a pointer was freed that is not of the heap's own array

vars == <<state, base, mem, cur, chain, held, live, overrun>>

Null    == 0
Sizes   == UNION {Requests[t] : t \in Threads}
Indexes == 0 .. MaxBlocks - 1
Arrays  == {MaxBlocks * k : k \in 0 .. ArrayCount - 1}

RoundUp(a)  == ((a + Align - 1) \div Align) * Align
ChunkEnd(c) == c.addr + HdrSize + c.size
Region(c)   == [addr |-> c.addr + HdrSize, size |-> c.size]

\* heap->blocks[i]
Block(t, i) == mem[base[t] + i]

\* The index sheap_alloc starts from.
Top(t) == IF chain[t] = <<>> THEN 0 ELSE Last(chain[t]).index

Init ==
  /\ state = [t \in Threads |-> "none"]
  /\ base = [t \in Threads |-> 0]
  /\ mem = [a \in 0 .. MaxBlocks * ArrayCount + 1 |-> Null]
  /\ cur = [t \in Threads |-> Null]
  /\ chain = [t \in Threads |-> <<>>]
  /\ held = {}
  /\ live = [t \in Threads |-> {}]
  /\ overrun = FALSE

\* When a pointer of another heap was freed two heaps share memory, and when
\* one wrote through NULL the program is over: the model stops there.
Sound == ~overrun /\ \A t \in Threads : state[t] # "crashed"
Ready(t) == Sound /\ state[t] = "ready"

\* sheap_init: by sheap_init_fix, sheap_init_var or sheap_get_thread_local.
\* It looks neither whether hr_malloc had a block,
SheapInit(t) ==
  LET busy == {base[u] : u \in {u \in Threads : state[u] = "ready"}} IN
  /\ Sound /\ state[t] \in {"none", "purged"}
  /\ state' = [state EXCEPT ![t] = "ready"]
  /\ \E array \in Arrays \ busy, addr \in (BlockAddrs \ held) \cup {Null} :
       /\ base' = [base EXCEPT ![t] = array]
       /\ mem' = [a \in DOMAIN mem |-> IF a = array THEN addr
                                       ELSE IF a - array \in Indexes THEN Null ELSE mem[a]]
       /\ cur' = [cur EXCEPT ![t] = addr]
       /\ held' = held \cup ({addr} \ {Null})
  /\ chain' = [chain EXCEPT ![t] = <<>>]
  /\ UNCHANGED <<live, overrun>>

\* nor whether hr_calloc had an array: the block is stored through NULL.
SheapInitThroughNull(t) ==
  /\ Sound /\ state[t] \in {"none", "purged"}
  /\ state' = [state EXCEPT ![t] = "crashed"]
  /\ UNCHANGED <<base, mem, cur, chain, held, live, overrun>>

\* The first call in a thread that has memory for the struct sheap; later ones
\* return the same heap.  Without memory the caller gets NULL.
GetThreadLocal(t) ==
  /\ Sound /\ state[t] = "none"
  /\ SheapInit(t) \/ SheapInitThroughNull(t) \/ UNCHANGED vars

-----------------------------------------------------------------------------
(* sheap_alloc *)

Fits(t, size) == RoundUp(cur[t]) + HdrSize + size <= Block(t, Top(t)) + BuffSize

\* BUG: the index of the block in use before.
IndexOf_Old(t, i) == Top(t)

\* What goes into the chunk.
IndexOf(t, i) == i

\* A chunk behind at, which lies in block i.
Push(t, i, at, size) ==
  LET hdr == [addr |-> RoundUp(at), index |-> IndexOf(t, i), size |-> size, free |-> FALSE] IN
  /\ chain' = [chain EXCEPT ![t] = Append(@, hdr)]
  /\ cur' = [cur EXCEPT ![t] = ChunkEnd(hdr)]
  /\ live' = [live EXCEPT ![t] = @ \cup {Region(hdr)}]

AllocHere(t, size) ==
  /\ Ready(t)
  /\ Fits(t, size) /\ Block(t, Top(t)) # Null
  /\ Push(t, Top(t), cur[t], size)
  /\ UNCHANGED <<state, base, mem, held, overrun>>

\* The heap was set up without memory: the header is written through NULL.
AllocThroughNull(t, size) ==
  /\ Ready(t)
  /\ Fits(t, size) /\ Block(t, Top(t)) = Null
  /\ state' = [state EXCEPT ![t] = "crashed"]
  /\ UNCHANGED <<base, mem, cur, chain, held, live, overrun>>

\* The next block may still be there from earlier.
AllocInNextBlock(t, size) ==
  LET next == Top(t) + 1 IN
  /\ Ready(t)
  /\ ~Fits(t, size)
  /\ next # MaxBlocks
  /\ \/ Block(t, next) # Null /\ UNCHANGED <<mem, held>>
     \/ /\ Block(t, next) = Null
        /\ \E addr \in BlockAddrs \ held :
             /\ mem' = [mem EXCEPT ![base[t] + next] = addr]
             /\ held' = held \cup {addr}
  /\ Push(t, next, mem'[base[t] + next], size)
  /\ UNCHANGED <<state, base, overrun>>

\* All blocks are in use, or hr_malloc returned NULL.
AllocFails(t, size) ==
  /\ Ready(t)
  /\ ~Fits(t, size)
  /\ Top(t) + 1 \in Indexes => Block(t, Top(t) + 1) = Null
  /\ UNCHANGED vars

-----------------------------------------------------------------------------
(* sheap_free *)

\* BUG: only the top chunk itself is taken off the list.
Kept_TopOnly(list) == IF Last(list).free THEN Front(list) ELSE list

\* BUG: chunks are taken to be freed in the order of a stack.
Kept_Stack(list) == Front(list)

\* The chunks that stay when those at the top that are free go.
Kept(list) == SubSeq(list, 1, SelectLastInSeq(list, LAMBDA c : ~c.free))

\* BUG: the block behind that one.
Behind_Two(c) == c.index + 2

\* The block that goes with a chunk.
Behind(c) == c.index + 1

\* The game gives up a chunk.  From the last block the code reads the word
\* behind the array, frees what it points to, and clears it.
Free(t, k) ==
  LET marked == [chain[t] EXCEPT ![k].free = TRUE]
      kept   == Kept(marked)
      gone   == {base[t] + Behind(marked[j]) : j \in Len(kept) + 1 .. Len(marked)}
      freed  == {a \in gone : mem[a] # Null} IN
  /\ Ready(t)
  /\ ~chain[t][k].free
  /\ chain' = [chain EXCEPT ![t] = kept]
  /\ mem' = [a \in DOMAIN mem |-> IF a \in freed THEN Null ELSE mem[a]]
  /\ held' = held \ {mem[a] : a \in freed}
  /\ overrun' = \E a \in freed : a - base[t] \notin Indexes
  /\ cur' = [cur EXCEPT ![t] = IF kept = <<>> THEN Block(t, 0) ELSE ChunkEnd(Last(kept))]
  /\ live' = [live EXCEPT ![t] = @ \ {Region(chain[t][k])}]
  /\ UNCHANGED <<state, base>>

\* sheap_free(NULL), or of a chunk that is marked already.
FreeIgnored(t, k) ==
  /\ state[t] = "ready"
  /\ k # 0 => chain[t][k].free
  /\ UNCHANGED vars

\* BUG: the spare block is left.
Used_UpToTop(t) == 0 .. Top(t)

\* The blocks up to the first that is not there.
Used(t) == {i \in Indexes : \A j \in 0 .. i : Block(t, j) # Null}

\* sheap_purge.  What is left behind them is reported ("leak detected") and
\* lost with the array.  Nobody reads the stale cur and last: they are cleared
\* here to keep the states few.
Purge(t) ==
  LET used == {base[t] + i : i \in Used(t)} IN
  /\ Ready(t)
  /\ state' = [state EXCEPT ![t] = "purged"]
  /\ mem' = [a \in DOMAIN mem |-> IF a \in used THEN Null ELSE mem[a]]
  /\ held' = held \ {mem[a] : a \in used}
  /\ live' = [live EXCEPT ![t] = {}]
  /\ cur' = [cur EXCEPT ![t] = Null]
  /\ chain' = [chain EXCEPT ![t] = <<>>]
  /\ UNCHANGED <<base, overrun>>

-----------------------------------------------------------------------------

Next ==
  \E t \in Threads :
    \/ SheapInit(t) \/ SheapInitThroughNull(t) \/ GetThreadLocal(t)
    \/ \E size \in Requests[t] :
         \/ AllocHere(t, size) \/ AllocThroughNull(t, size)
         \/ AllocInNextBlock(t, size) \/ AllocFails(t, size)
    \/ \E k \in DOMAIN chain[t] : Free(t, k)
    \/ \E k \in {0} \cup DOMAIN chain[t] : FreeIgnored(t, k)
    \/ Purge(t)

Spec == Init /\ [][Next]_vars

-----------------------------------------------------------------------------

TypeOK ==
  /\ state \in [Threads -> {"none", "ready", "purged", "crashed"}]
  /\ base \in [Threads -> Arrays]
  /\ mem \in [0 .. MaxBlocks * ArrayCount + 1 -> BlockAddrs \cup {Null}]
  /\ cur \in [Threads -> Nat]
  /\ chain \in [Threads -> Seq([addr : Nat, index : Indexes, size : Sizes, free : BOOLEAN])]
  /\ held \subseteq BlockAddrs
  /\ live \in [Threads -> SUBSET [addr : Nat, size : Sizes]]
  /\ overrun \in BOOLEAN

(***************************************************************************)
(* Every chunk on the list lies, with its header, inside of the block its  *)
(* index names, and that block is still there: the loop in sheap_free      *)
(* never reads a chunk in a block it has given back, and a caller never    *)
(* writes over the end of a block, nor into one the heap did not get.      *)
(* Headers are aligned, and of two chunks in one block the younger lies    *)
(* behind the older.                                                       *)
(***************************************************************************)
ChunksInBlocks ==
  /\ TypeOK
  /\ \A t \in Threads : Ready(t) => \A k \in DOMAIN chain[t] :
       LET c == chain[t][k] IN
       /\ Block(t, c.index) \in held
       /\ Block(t, c.index) <= c.addr /\ ChunkEnd(c) <= Block(t, c.index) + BuffSize
       /\ c.addr % Align = 0
       /\ \A j \in 1 .. k - 1 :
            /\ chain[t][j].index <= c.index
            /\ chain[t][j].index = c.index => ChunkEnd(chain[t][j]) <= c.addr

(***************************************************************************)
(* The blocks of a heap that is ready are the first ones of its array: up  *)
(* to the one in use and at most one spare.  So the search for the next    *)
(* block in sheap_alloc finds the spare one, sheap_purge never reports a   *)
(* leak, and no block is lost or in two heaps: what hr_malloc gave is what *)
(* the arrays have.                                                        *)
(***************************************************************************)
NoBlockLost ==
  LET there(t) == {i \in Indexes : Block(t, i) # Null}
      ready    == {t \in Threads : state[t] = "ready"}
      slots    == UNION {{base[t] + i : i \in there(t)} : t \in ready} IN
  Sound =>
    /\ held = {mem[a] : a \in slots} /\ Cardinality(held) = Cardinality(slots)
    /\ \A t \in ready : \E i \in {Top(t) - 1, Top(t), Top(t) + 1} :
         there(t) = 0 .. i /\ (i < Top(t) => chain[t] = <<>>)

(***************************************************************************)
(* The game owns exactly the chunks that are not marked, the top chunk is  *)
(* one of them, and the next chunk goes right behind it.  So when all is   *)
(* freed, in whatever order, the heap is back at the start of its first    *)
(* block with at most one block to spare.                                  *)
(***************************************************************************)
TopIsLive ==
  \A t \in Threads : Ready(t) =>
    LET c == chain[t] IN
    /\ live[t] = {Region(c[k]) : k \in {j \in DOMAIN c : ~c[j].free}}
    /\ c # <<>> => ~Last(c).free /\ cur[t] = ChunkEnd(Last(c))
    /\ live[t] = {} => cur[t] = Block(t, 0) /\ \A i \in Indexes : i > 1 => Block(t, i) = Null

(***************************************************************************)
(* Scratch heaps leave each other alone: a step of one changes neither the *)
(* array of another nor takes a block from it.  Nothing is said of a heap  *)
(* in the last block of its array: when the arrays lie side by side, the   *)
(* free that empties that block frees and clears the neighbour's first.    *)
(***************************************************************************)
NeighboursUndisturbed ==
  [][\A t, u \in Threads :
       t # u /\ state[u] = "ready" /\ (cur'[t] # cur[t] \/ state'[t] # state[t])
         /\ Top(t) < MaxBlocks - 1
       => \A i \in Indexes : /\ Block(u, i)' = Block(u, i)
                             /\ Block(u, i) \in held => Block(u, i) \in held']_vars

(***************************************************************************)
(* The scratch heaps together implement the abstract allocator, except     *)
(* that sheap_purge takes back all regions of a heap at once.  What they   *)
(* hand out is aligned.                                                    *)
(***************************************************************************)
Aligned == UNION {{b \in a .. a + BuffSize - 1 : b % Align = 0} : a \in BlockAddrs}

Abstract == INSTANCE Allocator WITH
              Arena <- Aligned,
              live  <- UNION {live[t] : t \in Threads}

ImplementsAllocator ==
  Abstract!Init /\ [][Abstract!Next \/ \E t \in Threads : live' = [live EXCEPT ![t] = {}]]_live
=============================================================================
