-------------------------------- MODULE MHeap --------------------------------
(***************************************************************************)
(* How the pools are set up and found again                                *)
(* (src/heap_replacer/mheap: mheap.h, and mpool_setup of mpool.h).         *)
(* mheap_init_pools looks for address space for one pool after the other   *)
(* and fills three tables, by request size, by address and by index, from  *)
(* which each malloc and free takes its pool without a test.               *)
(*                                                                         *)
(* A pool is the number of its line in pool_desc, from 1; Null is a NULL   *)
(* pointer.  The address space is counted in places of POOL_ALIGN bytes.   *)
(***************************************************************************)
EXTENDS Integers, Sequences, FiniteSets

CONSTANTS
  PoolDesc,     \* pool_desc: [item_size, max_size], max_size in POOL_ALIGNs
  MaxAlloc,     \* POOL_MAX_ALLOC_SIZE
  AddrLen,      \* POOL_ADDR_ARRAY_LEN
  Foreign,      \* the sets of places that may be taken when the game starts
  OthersMove,   \* whether others take and give back places meanwhile
  MaxFailed     \* bound: how many pools fail to be set up

\* What the comment on pool_desc asks of max_size, a multiple of POOL_ALIGN,
\* is that the number of places is a whole number.
ASSUME MHeapAssumption ==
  /\ MaxAlloc \in Nat /\ AddrLen \in Nat /\ AddrLen > 1
  /\ Foreign \subseteq SUBSET (1 .. AddrLen - 1)
  /\ PoolDesc \in Seq([item_size : Nat, max_size : Nat])
  /\ \A p \in DOMAIN PoolDesc :
       /\ PoolDesc[p].item_size \in 1 .. MaxAlloc /\ PoolDesc[p].item_size % 4 = 0
       /\ PoolDesc[p].max_size \in Nat \ {0}
       /\ p + 1 \in DOMAIN PoolDesc =>
            PoolDesc[p].item_size < PoolDesc[p + 1].item_size
  /\ PoolDesc # <<>> /\ PoolDesc[Len(PoolDesc)].item_size = MaxAlloc
  /\ MaxFailed \in Nat /\ OthersMove \in BOOLEAN

VARIABLES
  p,              \* the loop of mheap_init_pools
  i,              \* the loop of mpool_setup: the place it tries, or Null
  pools_by_size,
  pools_by_addr,
  pools_by_indx,
  addr,           \* addr[q]: where mpool_setup put pool q, Null if it failed
  taken           \* the places that somebody else has

tables == <<pools_by_size, pools_by_addr, pools_by_indx, addr>>
vars   == <<p, i, tables, taken>>

Null      == 0
Pools     == DOMAIN PoolDesc
Working   == {q \in Pools : addr[q] # Null}
SizeSlots == 0 .. MaxAlloc \div 4
AddrSlots == 0 .. AddrLen - 1
Tries     == 1 .. AddrLen - 1

\* The places a pool takes when it starts at a.
Extent(q, a) == a .. a + PoolDesc[q].max_size - 1
Ours         == UNION {Extent(q, addr[q]) : q \in Working}

\* VirtualAlloc reserves only what is free from end to end.
Fits(q, a) == Extent(q, a) \subseteq Tries \ (Ours \cup taken)

Init ==
  /\ p = 1
  /\ i = Null
  /\ pools_by_size = [s \in SizeSlots |-> Null]
  /\ pools_by_addr = [a \in AddrSlots |-> Null]
  /\ pools_by_indx = [q \in Pools |-> Null]
  /\ addr = [q \in Pools |-> Null]
  /\ taken \in Foreign

-----------------------------------------------------------------------------

\* The slots that a pool may fill when no smaller pool works.
Classes(q) == 1 .. PoolDesc[q].item_size \div 4

\* From the slot of the item size down to the first that is taken.
FillSizes(table, q) ==
  [s \in SizeSlots |->
     IF s \in Classes(q) /\ \A j \in Classes(q) : j >= s => table[j] = Null
     THEN q ELSE table[s]]

\* BUG: a pool of several places is entered at the first only.
PlacesOf_First(q, a) == {a}

PlacesOf(q, a) == Extent(q, a)

FillAddrs(table, q, a) ==
  [s \in AddrSlots |-> IF s \in PlacesOf(q, a) THEN q ELSE table[s]]

\* There is memory for the struct mpool: mpool_init, and the search begins.
InitPool ==
  /\ p \in Pools /\ i = Null
  /\ i' = 1
  /\ UNCHANGED <<p, tables, taken>>

\* There is none: the next pool.
FailPool ==
  /\ p \in Pools /\ i = Null
  /\ p - 1 - Cardinality(Working) < MaxFailed
  /\ p' = p + 1
  /\ UNCHANGED <<i, tables, taken>>

\* BUG: the search does not start again from the bottom.
NextTry_NoWrap == IF i = AddrLen - 1 THEN i ELSE i + 1

NextTry == IF i = AddrLen - 1 THEN 1 ELSE i + 1

TryPlace ==
  /\ p \in Pools /\ i # Null /\ ~Fits(p, i)
  /\ i' = NextTry
  /\ UNCHANGED <<p, tables, taken>>

\* The place is free: mpool_setup returns it.  The first pool serves the sizes
\* 0 to 4, too.
SetupPool ==
  LET first == [pools_by_size EXCEPT ![0] = 1, ![1] = 1] IN
  /\ p \in Pools /\ i # Null /\ Fits(p, i)
  /\ addr' = [addr EXCEPT ![p] = i]
  /\ pools_by_size' = FillSizes(IF p = 1 THEN first ELSE pools_by_size, p)
  /\ pools_by_indx' = [pools_by_indx EXCEPT ![p] = p]
  /\ pools_by_addr' = FillAddrs(pools_by_addr, p, i)
  /\ p' = p + 1
  /\ i' = Null
  /\ UNCHANGED taken

\* Someone else takes a place or gives one back.
Move ==
  /\ OthersMove /\ p \in Pools
  /\ \E a \in Tries \ Ours :
       taken' = IF a \in taken THEN taken \ {a} ELSE taken \cup {a}
  /\ UNCHANGED <<p, i, tables>>

Step == InitPool \/ FailPool \/ TryPlace \/ SetupPool
Next == Step \/ Move

Spec     == Init /\ [][Next]_vars
FairSpec == Spec /\ WF_vars(Step)

-----------------------------------------------------------------------------

\* BUG: the size is rounded down.
PoolFromSize_Down(size) == pools_by_size[size \div 4]

PoolFromSize(size) == pools_by_size[(size + 3) \div 4]
PoolFromAddr(a)    == pools_by_addr[a]

TypeOK ==
  /\ p \in 1 .. Len(PoolDesc) + 1 /\ i \in Tries \cup {Null}
  /\ pools_by_size \in [SizeSlots -> Pools \cup {Null}]
  /\ pools_by_addr \in [AddrSlots -> Pools \cup {Null}]
  /\ pools_by_indx \in [Pools -> Pools \cup {Null}]
  /\ addr \in [Pools -> AddrSlots] /\ taken \subseteq Tries

(***************************************************************************)
(* When all pools are set up, a request is served by the working pool      *)
(* whose items waste least: no pool's items are smaller than the request,  *)
(* and when a pool has failed the next larger one has taken over its       *)
(* sizes.  Only size 0 is left without a pool when the first has failed.   *)
(***************************************************************************)
TightestPool ==
  p \notin Pools => \A size \in 0 .. MaxAlloc :
    LET fit == {q \in Working : PoolDesc[q].item_size >= size} IN
    IF fit = {} \/ (size = 0 /\ 1 \notin Working)
    THEN PoolFromSize(size) = Null
    ELSE /\ PoolFromSize(size) \in fit
         /\ \A q \in fit : PoolFromSize(size) <= q

(***************************************************************************)
(* An address leads to the pool it belongs to, and an address of no pool   *)
(* to none: hr_free and hr_mem_size take this for an answer and fall       *)
(* through to the default heap only when it is NULL.  No two pools share   *)
(* memory, and a failed pool is in no table.                               *)
(***************************************************************************)
AddressesLeadHome ==
  /\ TypeOK
  /\ \A a \in AddrSlots : LET q == PoolFromAddr(a) IN
       q # Null => q \in Working /\ a \in Extent(q, addr[q])
  /\ \A q \in Working : \A a \in Extent(q, addr[q]) : PoolFromAddr(a) = q
  /\ \A q \in Pools : pools_by_indx[q] = IF q \in Working THEN q ELSE Null

(***************************************************************************)
(* mpool_setup tries one place after the other until it gets one.  It does *)
(* not search forever past a place that stays free: whatever others do, a  *)
(* place with room for the pool fills up sometime or the search is over.   *)
(***************************************************************************)
SearchFinds == \A a \in Tries : []<>(p \in Pools => ~Fits(p, a))
=============================================================================
