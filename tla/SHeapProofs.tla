------------------------------ MODULE SHeapProofs ------------------------------
(***************************************************************************)
(* Proofs about the scratch heaps, for any threads, blocks and requests:   *)
(* every chunk lies in a block that is there, no block is lost, what the   *)
(* game owns is what is not marked, a heap leaves its neighbours alone     *)
(* unless it empties its last block, and the heaps implement the abstract  *)
(* allocator.                                                              *)
(***************************************************************************)
EXTENDS SHeap, FiniteSetTheorems, NaturalsInduction, TLAPS

(***************************************************************************)
(* The inductive invariant.  What holds of one heap speaks of its array    *)
(* only through Block(t, i), and of the other heaps not at all, so that a  *)
(* step of one heap keeps it for the others as long as their arrays stay.  *)
(***************************************************************************)
\* The blocks a heap has.
Mine(t) == IF state[t] = "ready" THEN {Block(t, i) : i \in Indexes} \ {Null} ELSE {}

\* Heaps that are ready have arrays of their own, and every block hr_malloc
\* gave is in one place of one array.
SharedInv ==
  /\ \A t, u \in Threads : t # u /\ state[t] = "ready" /\ state[u] = "ready" => base[t] # base[u]
  /\ held = UNION {Mine(t) : t \in Threads}
  /\ \A t, u \in Threads : t # u => Mine(t) \cap Mine(u) = {}
  /\ \A t \in Threads : state[t] = "ready" =>
       \A i, j \in Indexes : Block(t, i) # Null /\ Block(t, i) = Block(t, j) => i = j

\* A heap has all blocks up to the one in use and at most one behind it; one
\* that was set up without memory has none.
BlocksInv(t) ==
  /\ \A i \in Indexes : i > Top(t) + 1 => Block(t, i) = Null
  /\ chain[t] # <<>> => \A i \in Indexes : i <= Top(t) => Block(t, i) # Null
  /\ Block(t, 0) = Null => \A i \in Indexes : Block(t, i) = Null

\* No block is skipped: below a chunk there is one in every earlier block.
\* Without this, freeing the top could leave blocks in between.
StepsInv(t) ==
  \A k \in 1 .. Len(chain[t]) : \A i \in 0 .. chain[t][k].index :
    \E j \in 1 .. k : chain[t][j].index = i

InBlock(t, c) ==
  /\ Block(t, c.index) <= c.addr /\ ChunkEnd(c) <= Block(t, c.index) + BuffSize
  /\ c.addr % Align = 0

Below(c, d) == c.index <= d.index /\ (c.index = d.index => ChunkEnd(c) <= d.addr)

ChunksInv(t) ==
  /\ \A k \in 1 .. Len(chain[t]) : InBlock(t, chain[t][k])
  /\ \A k \in 1 .. Len(chain[t]) : \A j \in 1 .. k - 1 : Below(chain[t][j], chain[t][k])

TopInv(t) ==
  /\ chain[t] = <<>> => cur[t] = Block(t, 0)
  /\ chain[t] # <<>> => ~Last(chain[t]).free /\ cur[t] = ChunkEnd(Last(chain[t]))

OwnInv(t) ==
  live[t] = {Region(chain[t][k]) : k \in {j \in 1 .. Len(chain[t]) : ~chain[t][j].free}}

HeapInv(t) ==
  IF state[t] = "ready"
  THEN BlocksInv(t) /\ StepsInv(t) /\ ChunksInv(t) /\ TopInv(t) /\ OwnInv(t)
  ELSE live[t] = {}

IInv == TypeOK /\ (Sound => SharedInv /\ \A t \in Threads : HeapInv(t))

-----------------------------------------------------------------------------
(* Numbers, arrays, and rounding. *)

\* Some numbers up to n have a least one.
LEMMA LeastExists ==
  ASSUME NEW n \in Nat, NEW S \in SUBSET (1 .. n), S # {}
  PROVE  \E x \in S : \A y \in S : x <= y
<1> DEFINE R == OpToRel(<, Nat)
<1>1. S \subseteq Nat
  OBVIOUS
<1>2. PICK x \in S : \A y \in S : <<y, x>> \notin R
  BY <1>1, NatLessThanWellFounded, WFMin, Zenon
<1>3. \A y \in S : ~(y < x)
  BY <1>1, <1>2 DEF OpToRel
<1> QED
  BY <1>1, <1>3

\* Rounding up to a unit reaches the number.
LEMMA RoundedUp ==
  ASSUME NEW n \in Nat, NEW u \in Nat \ {0}
  PROVE  /\ ((n + u - 1) \div u) * u \in Nat
         /\ ((n + u - 1) \div u) * u >= n
<1> DEFINE q == (n + u - 1) \div u
<1>1. q \in Int /\ n + u - 1 < (q + 1) * u
  BY SMT
<1>2. (q + 1) * u = q * u + u
  BY <1>1, SMT
<1> QED
  BY <1>1, <1>2

\* A function on 1 .. n is a sequence of length n.
LEMMA FunctionIsSeq ==
  ASSUME NEW n \in Nat, NEW S, NEW f \in [1 .. n -> S]
  PROVE  f \in Seq(S) /\ Len(f) = n /\ (f = <<>> <=> n = 0)
  BY SMT

\* And a sequence is a function on its places.
LEMMA SeqIsFunction ==
  ASSUME NEW S, NEW q \in Seq(S)
  PROVE  Len(q) \in Nat /\ q \in [1 .. Len(q) -> S] /\ (q = <<>> <=> Len(q) = 0)
  BY SMT

\* What the constants are.
LEMMA Numbers ==
  /\ HdrSize \in Nat /\ HdrSize > 0 /\ Align \in Nat /\ Align > 0 /\ HdrSize % Align = 0
  /\ MaxBlocks \in Nat /\ MaxBlocks > 0 /\ BuffSize \in Nat /\ ArrayCount \in Nat /\ ArrayCount > 0
  /\ \A s \in Sizes : s \in Nat /\ s > 0 /\ HdrSize + s <= BuffSize
  /\ \A a \in BlockAddrs : a \in Nat /\ a # Null /\ a % Align = 0
  /\ \A a, b \in BlockAddrs : a < b => a + BuffSize <= b
BY SHeapAssumption DEF Sizes, Null

\* Arrays lie side by side in the memory for arrays, two words short of its end.
LEMMA ArrayPlaces ==
  /\ \A a \in Arrays : a \in Nat /\ a + MaxBlocks <= MaxBlocks * ArrayCount
  /\ \A a, b \in Arrays : \A i, j \in Indexes : a + i = b + j => a = b
  /\ MaxBlocks * ArrayCount \in Nat
<1> DEFINE M == MaxBlocks * ArrayCount
<1>1. \A k, n \in Nat : k <= n => MaxBlocks * k \in Nat /\ MaxBlocks * k <= MaxBlocks * n
  BY Numbers, SMT
<1>2. \A k \in Nat : MaxBlocks * (k + 1) = MaxBlocks * k + MaxBlocks
  BY Numbers, SMT
<1>3. ASSUME NEW a \in Arrays PROVE a \in Nat /\ a + MaxBlocks <= M
  <2>1. PICK k \in 0 .. ArrayCount - 1 : a = MaxBlocks * k
    BY DEF Arrays
  <2>2. k \in Nat /\ k + 1 \in Nat /\ k + 1 <= ArrayCount
    BY Numbers
  <2> QED
    BY <1>1, <1>2, <2>1, <2>2, Numbers
<1>4. ASSUME NEW a \in Arrays, NEW b \in Arrays, a # b
      PROVE  a + MaxBlocks <= b \/ b + MaxBlocks <= a
  <2>1. PICK k \in 0 .. ArrayCount - 1 : a = MaxBlocks * k
    BY DEF Arrays
  <2>2. PICK n \in 0 .. ArrayCount - 1 : b = MaxBlocks * n
    BY DEF Arrays
  <2>3. k \in Nat /\ n \in Nat /\ (k + 1 <= n \/ n + 1 <= k)
    BY <1>4, <2>1, <2>2
  <2>4. k + 1 \in Nat /\ n + 1 \in Nat
    BY <2>3
  <2> QED
    BY <1>1, <1>2, <2>1, <2>2, <2>3, <2>4
<1>5. M \in Nat
  BY <1>1, Numbers
<1> HIDE DEF M
<1>6. ASSUME NEW a \in Arrays, NEW b \in Arrays, NEW i \in Indexes, NEW j \in Indexes, a + i = b + j
      PROVE  a = b
  BY <1>3, <1>4, <1>6, Numbers DEF Indexes
<1> QED
  BY <1>3, <1>5, <1>6 DEF M

\* Rounding up to the alignment.
LEMMA Rounding ==
  ASSUME NEW a \in Nat
  PROVE  /\ RoundUp(a) \in Nat /\ RoundUp(a) >= a /\ RoundUp(a) % Align = 0
         /\ a % Align = 0 => RoundUp(a) = a
<1>1. RoundUp(a) \in Nat /\ RoundUp(a) >= a
  BY Numbers, RoundedUp DEF RoundUp
<1>2. ASSUME NEW q \in Nat, NEW m \in Nat \ {0} PROVE (q * m) % m = 0
  BY <1>2, SMT
<1>3. (a + Align - 1) \div Align \in Nat
  BY Numbers, SMT
<1>4. RoundUp(a) % Align = 0
  BY <1>2, <1>3, Numbers DEF RoundUp
<1>5. ASSUME a % Align = 0 PROVE RoundUp(a) = a
  <2> DEFINE q == a \div Align
  <2>1. q \in Nat /\ a = q * Align
    BY <1>5, Numbers, SMT
  <2>2. (q * Align + Align - 1) \div Align = q
    BY <2>1, Numbers, SMT
  <2> QED
    BY <2>1, <2>2 DEF RoundUp
<1> QED
  BY <1>1, <1>4, <1>5

\* What is aligned stays so behind a header.
LEMMA AlignedBehindHeader ==
  ASSUME NEW a \in Nat, a % Align = 0
  PROVE  (a + HdrSize) % Align = 0
<1>1. ASSUME NEW n \in Nat, NEW m \in Nat \ {0}, n % m = 0
      PROVE  n \div m \in Nat /\ n = (n \div m) * m
  BY <1>1, SMT
<1>2. ASSUME NEW p \in Nat, NEW m \in Nat \ {0} PROVE (p * m) % m = 0
  BY <1>2, SMT
<1> DEFINE q == a \div Align
           r == HdrSize \div Align
<1>3. q \in Nat /\ r \in Nat /\ a = q * Align /\ HdrSize = r * Align
  BY <1>1, Numbers
<1> HIDE DEF q, r
<1>4. q * Align + r * Align = (q + r) * Align
  BY <1>3, Numbers, SMT
<1>5. (q + r) \in Nat /\ ((q + r) * Align) % Align = 0
  BY <1>2, <1>3, Numbers
<1> QED
  BY <1>3, <1>4, <1>5

\* A heap's places are in memory, also the word behind its array.
LEMMA Places ==
  ASSUME TypeOK, NEW t \in Threads
  PROVE  /\ base[t] \in Arrays /\ base[t] \in Nat
         /\ \A i \in 0 .. MaxBlocks : base[t] + i \in DOMAIN mem
         /\ \A i \in 0 .. MaxBlocks : Block(t, i) \in BlockAddrs \cup {Null} /\ Block(t, i) \in Nat
<1>1. base[t] \in Arrays /\ DOMAIN mem = 0 .. MaxBlocks * ArrayCount + 1
  BY DEF TypeOK
<1> DEFINE M == MaxBlocks * ArrayCount
<1>2. M \in Nat /\ base[t] \in Nat /\ base[t] + MaxBlocks <= M
  BY <1>1, ArrayPlaces
<1>3. DOMAIN mem = 0 .. M + 1 /\ \A a \in DOMAIN mem : mem[a] \in BlockAddrs \cup {Null}
  BY DEF TypeOK
<1> HIDE DEF M
<1>4. \A i \in 0 .. MaxBlocks : base[t] + i \in DOMAIN mem
  BY <1>2, <1>3, Numbers
<1>5. BlockAddrs \cup {Null} \subseteq Nat
  BY Numbers DEF Null
<1> QED
  BY <1>1, <1>2, <1>3, <1>4, <1>5 DEF Block

-----------------------------------------------------------------------------
(* Chunks and the list they are on. *)

Chunk == [addr : Nat, index : Indexes, size : Sizes, free : BOOLEAN]

\* What the parts of a chunk are.
LEMMA ChunkFacts ==
  ASSUME NEW c \in Chunk
  PROVE  /\ c.addr \in Nat /\ c.index \in Indexes /\ c.index \in Nat /\ c.index < MaxBlocks
         /\ c.size \in Sizes /\ c.size \in Nat /\ c.size > 0 /\ HdrSize + c.size <= BuffSize
         /\ c.free \in BOOLEAN
         /\ ChunkEnd(c) \in Nat /\ ChunkEnd(c) > c.addr + HdrSize
         /\ Region(c) \in [addr : Nat, size : Sizes]
BY Numbers DEF Chunk, ChunkEnd, Region, Indexes

\* What the list of chunks of a heap is.
LEMMA ListFacts ==
  ASSUME NEW q \in Seq(Chunk)
  PROVE  /\ Len(q) \in Nat /\ \A k \in 1 .. Len(q) : q[k] \in Chunk
         /\ DOMAIN q = 1 .. Len(q)
         /\ q = <<>> <=> Len(q) = 0
         /\ q # <<>> => Len(q) \in 1 .. Len(q) /\ Last(q) = q[Len(q)] /\ Last(q) \in Chunk
<1>1. Len(q) \in Nat /\ q \in [1 .. Len(q) -> Chunk] /\ (q = <<>> <=> Len(q) = 0)
  BY SeqIsFunction
<1> QED
  BY <1>1 DEF Last

\* The block in use is that of the last chunk, or the first.
LEMMA TopFacts ==
  ASSUME TypeOK, NEW t \in Threads
  PROVE  /\ chain[t] \in Seq(Chunk) /\ chain \in [Threads -> Seq(Chunk)]
         /\ Top(t) \in Indexes /\ Top(t) \in Nat
         /\ chain[t] = <<>> => Top(t) = 0
         /\ chain[t] # <<>> => Top(t) = chain[t][Len(chain[t])].index
<1>1. chain[t] \in Seq(Chunk) /\ chain \in [Threads -> Seq(Chunk)]
  BY DEF TypeOK, Chunk
<1>2. 0 \in Indexes
  BY Numbers DEF Indexes
<1>3. CASE chain[t] = <<>>
  BY <1>1, <1>2, <1>3 DEF Top
<1>4. CASE chain[t] # <<>>
  <2>1. Last(chain[t]) = chain[t][Len(chain[t])] /\ Last(chain[t]) \in Chunk
    BY <1>1, <1>4, ListFacts
  <2>2. Top(t) = Last(chain[t]).index
    BY <1>4 DEF Top
  <2> QED
    BY <1>1, <1>4, <2>1, <2>2, ChunkFacts
<1> QED
  BY <1>3, <1>4

\* The index of the last chunk is the greatest.
LEMMA TopIsGreatest ==
  ASSUME TypeOK, NEW t \in Threads, ChunksInv(t), NEW k \in 1 .. Len(chain[t])
  PROVE  chain[t][k].index <= Top(t) /\ chain[t] # <<>>
<1> DEFINE n == Len(chain[t])
<1>1. chain[t] \in Seq(Chunk) /\ n \in Nat /\ n > 0 /\ chain[t] # <<>>
  BY TopFacts, ListFacts
<1>2. Top(t) = chain[t][n].index
  BY <1>1, TopFacts
<1>3. CASE k = n
  BY <1>2, <1>3, <1>1, ListFacts, ChunkFacts
<1>4. CASE k # n
  <2>1. k \in 1 .. n - 1 /\ n \in 1 .. n
    BY <1>1, <1>4
  <2> QED
    BY <2>1, <1>1, <1>2 DEF ChunksInv, Below
<1> QED
  BY <1>1, <1>3, <1>4

\* What sheap_free leaves of the list: all up to the last chunk not marked.
LEMMA KeptFacts ==
  ASSUME NEW q \in Seq(Chunk)
  PROVE  \E n \in 0 .. Len(q) :
           /\ Kept(q) = SubSeq(q, 1, n)
           /\ n > 0 => ~q[n].free
           /\ \A j \in n + 1 .. Len(q) : q[j].free
<1> DEFINE N == Len(q)
           I == {i \in 1 .. N : ~q[i].free}
<1>1. N \in Nat /\ \A k \in 1 .. N : q[k] \in Chunk
  BY ListFacts
<1>2. CASE I = {}
  <2>1. Kept(q) = SubSeq(q, 1, 0)
    BY <1>2 DEF Kept, SelectLastInSeq
  <2>2. \A j \in 0 + 1 .. N : q[j].free
    BY <1>1, <1>2
  <2> QED
    BY <1>1, <2>1, <2>2
<1>3. CASE I # {}
  <2>1. Kept(q) = SubSeq(q, 1, Max(I))
    BY <1>3 DEF Kept, SelectLastInSeq
  <2>2. \E x \in I : \A y \in I : x >= y
    <3> DEFINE J == {N + 1 - i : i \in I}
    <3>1. J \in SUBSET (1 .. N) /\ J # {}
      BY <1>1, <1>3
    <3>2. PICK x \in J : \A y \in J : x <= y
      BY <3>1, <1>1, LeastExists
    <3>3. PICK i \in I : x = N + 1 - i
      OBVIOUS
    <3>4. \A y \in I : N + 1 - y \in J
      OBVIOUS
    <3>5. ASSUME NEW y \in I PROVE i >= y
      <4>1. x <= N + 1 - y /\ y \in 1 .. N /\ i \in 1 .. N
        BY <3>2, <3>3, <3>4
      <4> QED
        BY <4>1, <3>3, <1>1
    <3> QED
      BY <3>3, <3>5
  <2>3. Max(I) \in I /\ \A y \in I : Max(I) >= y
    BY <2>2 DEF Max
  <2> DEFINE n == Max(I)
  <2> HIDE DEF n
  <2>4. n \in 1 .. N /\ ~q[n].free
    BY <2>3 DEF n
  <2>5. ASSUME NEW j \in n + 1 .. N PROVE q[j].free
    <3>1. j \in 1 .. N /\ j > n
      BY <2>4, <1>1
    <3>2. j \notin I
      BY <2>3, <2>4, <3>1 DEF n
    <3> QED
      BY <3>1, <3>2
  <2>6. Kept(q) = SubSeq(q, 1, n)
    BY <2>1 DEF n
  <2>7. n \in 0 .. N
    BY <2>4, <1>1
  <2> QED
    BY <2>4, <2>5, <2>6, <2>7
<1> QED
  BY <1>2, <1>3

\* A chunk's block is there.
LEMMA ChunkHasBlock ==
  ASSUME TypeOK, NEW t \in Threads, state[t] = "ready", HeapInv(t), NEW k \in 1 .. Len(chain[t])
  PROVE  /\ chain[t][k] \in Chunk /\ InBlock(t, chain[t][k])
         /\ Block(t, chain[t][k].index) \in BlockAddrs
         /\ Block(t, chain[t][k].index) \in Mine(t)
<1> DEFINE c == chain[t][k]
<1>1. c \in Chunk /\ c.index \in Indexes
  BY TopFacts, ListFacts, ChunkFacts
<1>2. c.index <= Top(t) /\ chain[t] # <<>>
  BY TopIsGreatest DEF HeapInv
<1>3. Block(t, c.index) # Null
  BY <1>1, <1>2 DEF HeapInv, BlocksInv
<1>4. c.index \in 0 .. MaxBlocks
  BY <1>1, Numbers DEF Indexes
<1>5. Block(t, c.index) \in BlockAddrs
  BY <1>3, <1>4, Places
<1>6. Block(t, c.index) \in Mine(t)
  BY <1>1, <1>3 DEF Mine
<1>7. InBlock(t, c)
  BY DEF HeapInv, ChunksInv
<1> QED
  BY <1>1, <1>5, <1>6, <1>7

\* Two places of arrays never hold the same block.
LEMMA OnePlace ==
  ASSUME SharedInv, NEW t \in Threads, NEW u \in Threads,
         state[t] = "ready", state[u] = "ready", NEW i \in Indexes, NEW j \in Indexes,
         Block(t, i) # Null, Block(t, i) = Block(u, j)
  PROVE  t = u /\ i = j
<1>1. Block(t, i) \in Mine(t) /\ Block(t, i) \in Mine(u)
  BY DEF Mine
<1>2. t = u
  BY <1>1 DEF SharedInv
<1> QED
  BY <1>2 DEF SharedInv

\* Blocks of hr_malloc do not overlap.
LEMMA BlocksApart ==
  ASSUME NEW a \in BlockAddrs, NEW b \in BlockAddrs, a # b
  PROVE  a + BuffSize <= b \/ b + BuffSize <= a
<1>1. a < b \/ b < a
  BY Numbers
<1> QED
  BY <1>1, Numbers

DisjointChunks(c, d) == ChunkEnd(c) <= d.addr \/ ChunkEnd(d) <= c.addr

\* No two chunks overlap, on one list or on two.
AllApart ==
  \A t, u \in Threads : state[t] = "ready" /\ state[u] = "ready" =>
    \A k \in 1 .. Len(chain[t]), j \in 1 .. Len(chain[u]) :
      t # u \/ k # j => DisjointChunks(chain[t][k], chain[u][j])

\* Neither do chunks, of whatever heaps.
LEMMA ChunksApart == IInv /\ Sound => AllApart
<1> SUFFICES ASSUME IInv, Sound, NEW t \in Threads, NEW u \in Threads,
                    state[t] = "ready", state[u] = "ready",
                    NEW k \in 1 .. Len(chain[t]), NEW j \in 1 .. Len(chain[u]),
                    t # u \/ k # j
             PROVE  DisjointChunks(chain[t][k], chain[u][j])
  BY DEF AllApart
<1> DEFINE c == chain[t][k]
           d == chain[u][j]
           a == Block(t, c.index)
           b == Block(u, d.index)
<1>1. TypeOK /\ SharedInv /\ HeapInv(t) /\ HeapInv(u)
  BY DEF IInv
<1>2. c \in Chunk /\ d \in Chunk /\ a \in BlockAddrs /\ b \in BlockAddrs
  BY <1>1, ChunkHasBlock
<1>3. /\ a <= c.addr /\ ChunkEnd(c) <= a + BuffSize
      /\ b <= d.addr /\ ChunkEnd(d) <= b + BuffSize
  BY <1>1, ChunkHasBlock DEF InBlock
<1>4. c.addr \in Nat /\ d.addr \in Nat /\ ChunkEnd(c) \in Nat /\ ChunkEnd(d) \in Nat
      /\ c.index \in Indexes /\ d.index \in Indexes
  BY <1>2, ChunkFacts
<1>5. CASE a = b
  <2>1. t = u /\ c.index = d.index
    BY <1>1, <1>2, <1>4, <1>5, OnePlace, Numbers
  <2>2. k # j /\ (k \in 1 .. j - 1 \/ j \in 1 .. k - 1)
    BY <2>1
  <2>3. Below(c, d) \/ Below(d, c)
    BY <1>1, <2>1, <2>2 DEF HeapInv, ChunksInv
  <2> QED
    BY <2>1, <2>3 DEF Below, DisjointChunks
<1>6. CASE a # b
  <2>1. a \in Nat /\ b \in Nat /\ BuffSize \in Nat
    BY <1>2, Numbers
  <2>2. a + BuffSize <= b \/ b + BuffSize <= a
    BY <1>2, <1>6, BlocksApart
  <2> DEFINE ce == ChunkEnd(c)
             de == ChunkEnd(d)
             ca == c.addr
             da == d.addr
  <2>3. /\ a <= ca /\ ce <= a + BuffSize /\ b <= da /\ de <= b + BuffSize
        /\ ca \in Nat /\ da \in Nat /\ ce \in Nat /\ de \in Nat
    BY <1>3, <1>4
  <2> HIDE DEF a, b, ca, da, ce, de
  <2>4. ce <= da \/ de <= ca
    BY <2>1, <2>2, <2>3
  <2> QED
    BY <2>4 DEF DisjointChunks, ce, de, ca, da
<1> QED
  BY <1>5, <1>6

\* Chunks that do not overlap are different regions for the game.
LEMMA RegionsDiffer ==
  ASSUME NEW c \in Chunk, NEW d \in Chunk, DisjointChunks(c, d)
  PROVE  Region(c) # Region(d) /\ Abstract!Disjoint(Region(c), Region(d))
BY ChunkFacts, Numbers DEF DisjointChunks, Region, ChunkEnd, Abstract!Disjoint

-----------------------------------------------------------------------------
(* A step of one heap keeps what holds of the others. *)

Same(u) ==
  /\ state'[u] = state[u] /\ base'[u] = base[u] /\ cur'[u] = cur[u]
  /\ chain'[u] = chain[u] /\ live'[u] = live[u]
  /\ \A i \in Indexes : state[u] = "ready" => Block(u, i)' = Block(u, i)

\* A heap none of whose words changed is as it was.
LEMMA SameKeeps ==
  ASSUME TypeOK, NEW u \in Threads, HeapInv(u), Same(u)
  PROVE  HeapInv(u)' /\ Mine(u)' = Mine(u)
<1>1. CASE state[u] # "ready"
  BY <1>1 DEF Same, HeapInv, Mine
<1>2. CASE state[u] = "ready"
  <2>1. \A i \in Indexes : Block(u, i)' = Block(u, i)
    BY <1>2 DEF Same
  <2>2. state'[u] = "ready" /\ chain'[u] = chain[u] /\ cur'[u] = cur[u] /\ live'[u] = live[u]
    BY <1>2 DEF Same
  <2>3. Top(u)' = Top(u) /\ Top(u) \in Indexes /\ 0 \in Indexes
    BY <2>2, TopFacts, Numbers DEF Top, Indexes
  <2>4. \A k \in 1 .. Len(chain[u]) : chain[u][k].index \in Indexes
    BY TopFacts, ListFacts, ChunkFacts
  <2>5. BlocksInv(u)'
    BY <1>2, <2>1, <2>2, <2>3 DEF HeapInv, BlocksInv
  <2>6. StepsInv(u)'
    BY <1>2, <2>2 DEF HeapInv, StepsInv
  <2>7. ChunksInv(u)'
    <3>1. \A k \in 1 .. Len(chain[u]) : InBlock(u, chain[u][k])'
      BY <1>2, <2>1, <2>2, <2>4 DEF HeapInv, ChunksInv, InBlock
    <3> QED
      BY <1>2, <2>2, <3>1 DEF HeapInv, ChunksInv, InBlock
  <2>8. TopInv(u)' /\ OwnInv(u)'
    BY <1>2, <2>1, <2>2, <2>3 DEF HeapInv, TopInv, OwnInv
  <2>9. Mine(u)' = Mine(u)
    BY <1>2, <2>1, <2>2 DEF Mine
  <2> QED
    BY <2>2, <2>5, <2>6, <2>7, <2>8, <2>9 DEF HeapInv
<1> QED
  BY <1>1, <1>2

\* A step of one heap leaves the others alone, unless it ran behind its array.
Aside(t) ==
  \A u \in Threads \ {t} :
    /\ cur'[u] = cur[u] /\ state'[u] = state[u]
    /\ ~overrun' => Same(u) /\ Mine(u) \subseteq held'

\* What is left to show of a step of heap t.
LEMMA StepKeeps ==
  ASSUME IInv, Sound, NEW t \in Threads,
         \A u \in Threads \ {t} : Same(u),
         TypeOK', HeapInv(t)',
         state'[t] = "ready" => \A u \in Threads \ {t} : state[u] = "ready" => base'[t] # base[u],
         held' = (held \ Mine(t)) \cup Mine(t)',
         Mine(t)' \cap (held \ Mine(t)) = {},
         state'[t] = "ready" =>
           \A i, j \in Indexes : Block(t, i)' # Null /\ Block(t, i)' = Block(t, j)' => i = j
  PROVE  IInv' /\ Aside(t)
<1>1. TypeOK /\ SharedInv /\ \A u \in Threads : HeapInv(u)
  BY DEF IInv
<1>2. \A u \in Threads \ {t} : HeapInv(u)' /\ Mine(u)' = Mine(u)
  BY <1>1, SameKeeps
<1>3. \A u \in Threads : HeapInv(u)'
  BY <1>2
<1>4. SharedInv'
  <2>1. \A u, v \in Threads : u # v /\ state'[u] = "ready" /\ state'[v] = "ready" => base'[u] # base'[v]
    BY <1>1 DEF SharedInv, Same
  <2>2. held = UNION {Mine(u) : u \in Threads} /\ \A u, v \in Threads : u # v => Mine(u) \cap Mine(v) = {}
    BY <1>1 DEF SharedInv
  <2>3. held \ Mine(t) = UNION {Mine(u) : u \in Threads \ {t}}
    BY <2>2
  <2>4. UNION {Mine(u)' : u \in Threads} = Mine(t)' \cup UNION {Mine(u) : u \in Threads \ {t}}
    BY <1>2
  <2>5. held' = UNION {Mine(u)' : u \in Threads}
    BY <2>3, <2>4
  <2>6. \A u, v \in Threads : u # v => Mine(u)' \cap Mine(v)' = {}
    <3>1. \A u \in Threads \ {t} : Mine(t)' \cap Mine(u)' = {}
      BY <1>2, <2>3
    <3> QED
      BY <1>2, <2>2, <3>1
  <2>7. \A u \in Threads : state'[u] = "ready" =>
          \A i, j \in Indexes : Block(u, i)' # Null /\ Block(u, i)' = Block(u, j)' => i = j
    <3>1. SUFFICES ASSUME NEW u \in Threads \ {t}, state'[u] = "ready",
                          NEW i \in Indexes, NEW j \in Indexes,
                          Block(u, i)' # Null, Block(u, i)' = Block(u, j)'
                   PROVE  i = j
      OBVIOUS
    <3>2. state[u] = "ready" /\ Block(u, i)' = Block(u, i) /\ Block(u, j)' = Block(u, j)
      BY <3>1 DEF Same
    <3> QED
      BY <1>1, <3>1, <3>2 DEF SharedInv
  <2> QED
    BY <2>1, <2>5, <2>6, <2>7 DEF SharedInv
<1>5. \A u \in Threads \ {t} : Mine(u) \subseteq held'
  BY <1>1 DEF SharedInv
<1>6. Aside(t)
  BY <1>5 DEF Aside, Same
<1> QED
  BY <1>3, <1>4, <1>6 DEF IInv

-----------------------------------------------------------------------------
(* The initial state, and sheap_init. *)

\* No heap is set up, nothing is held.
LEMMA StartsWell == Init => IInv
<1> SUFFICES ASSUME Init PROVE IInv
  OBVIOUS
<1>1. 0 \in Arrays
  <2>1. 0 \in 0 .. ArrayCount - 1 /\ MaxBlocks * 0 = 0
    BY Numbers
  <2> QED
    BY <2>1 DEF Arrays
<1>2. TypeOK
  <2>1. <<>> \in Seq([addr : Nat, index : Indexes, size : Sizes, free : BOOLEAN])
    OBVIOUS
  <2>2. chain \in [Threads -> Seq([addr : Nat, index : Indexes, size : Sizes, free : BOOLEAN])]
    BY <2>1 DEF Init
  <2>3. /\ state \in [Threads -> {"none", "ready", "purged", "crashed"}]
        /\ base \in [Threads -> Arrays] /\ cur \in [Threads -> Nat]
        /\ live \in [Threads -> SUBSET [addr : Nat, size : Sizes]]
    BY <1>1 DEF Init, Null
  <2>4. mem \in [0 .. MaxBlocks * ArrayCount + 1 -> BlockAddrs \cup {Null}]
    BY DEF Init
  <2> QED
    BY <2>2, <2>3, <2>4 DEF Init, TypeOK
<1>3. \A t \in Threads : state[t] # "ready" /\ live[t] = {} /\ Mine(t) = {}
  BY DEF Init, Mine
<1>4. SharedInv
  BY <1>3 DEF SharedInv, Init
<1> QED
  BY <1>2, <1>3, <1>4 DEF IInv, HeapInv

\* A heap without chunks, and with a block in the first place of its array or
\* with none at all.
LEMMA InitKeeps ==
  ASSUME IInv, NEW t \in Threads, SheapInit(t)
  PROVE  IInv' /\ Aside(t) /\ overrun' = overrun
<1> DEFINE busy == {base[u] : u \in {u \in Threads : state[u] = "ready"}}
<1>1. TypeOK /\ Sound /\ SharedInv /\ \A u \in Threads : HeapInv(u)
  BY DEF IInv, SheapInit
<1>2. PICK array \in Arrays \ busy, addr \in (BlockAddrs \ held) \cup {Null} :
        /\ base' = [base EXCEPT ![t] = array]
        /\ mem' = [a \in DOMAIN mem |-> IF a = array THEN addr
                                        ELSE IF a - array \in Indexes THEN Null ELSE mem[a]]
        /\ cur' = [cur EXCEPT ![t] = addr]
        /\ held' = held \cup ({addr} \ {Null})
  BY DEF SheapInit
<1>3. /\ state[t] # "ready" /\ state' = [state EXCEPT ![t] = "ready"]
      /\ chain' = [chain EXCEPT ![t] = <<>>] /\ live' = live /\ overrun' = overrun
  BY DEF SheapInit
<1>4. addr \in BlockAddrs \cup {Null} /\ addr \in Nat /\ array \in Arrays /\ array \in Nat
  BY Numbers, ArrayPlaces DEF Null
<1>5. TypeOK'
  <2>1. mem' \in [0 .. MaxBlocks * ArrayCount + 1 -> BlockAddrs \cup {Null}]
    BY <1>1, <1>2, <1>4 DEF TypeOK
  <2>2. <<>> \in Seq([addr : Nat, index : Indexes, size : Sizes, free : BOOLEAN])
    OBVIOUS
  <2>3. chain' \in [Threads -> Seq([addr : Nat, index : Indexes, size : Sizes, free : BOOLEAN])]
    BY <1>1, <1>3, <2>2 DEF TypeOK
  <2>4. base' \in [Threads -> Arrays] /\ cur' \in [Threads -> Nat]
    BY <1>1, <1>2, <1>4 DEF TypeOK
  <2>5. state' \in [Threads -> {"none", "ready", "purged", "crashed"}]
    BY <1>1, <1>3 DEF TypeOK
  <2>6. held' \subseteq BlockAddrs
    BY <1>1, <1>2 DEF TypeOK
  <2> QED
    BY <1>1, <1>3, <2>1, <2>3, <2>4, <2>5, <2>6 DEF TypeOK
<1>6. state'[t] = "ready" /\ base'[t] = array /\ chain'[t] = <<>> /\ cur'[t] = addr /\ live'[t] = {}
  BY <1>1, <1>2, <1>3 DEF TypeOK, HeapInv
<1>7. DOMAIN mem = 0 .. MaxBlocks * ArrayCount + 1 /\ MaxBlocks * ArrayCount \in Nat
      /\ array + MaxBlocks <= MaxBlocks * ArrayCount /\ 0 \in Indexes
  BY <1>1, <1>4, ArrayPlaces, Numbers DEF TypeOK, Indexes
<1>8. Block(t, 0)' = addr /\ \A i \in Indexes : i # 0 => Block(t, i)' = Null
  <2>1. ASSUME NEW i \in Indexes
        PROVE  Block(t, i)' = IF i = 0 THEN addr ELSE Null
    <3> DEFINE M == MaxBlocks * ArrayCount
    <3>1. DOMAIN mem = 0 .. M + 1 /\ M \in Nat /\ array + MaxBlocks <= M
      BY <1>7
    <3> HIDE DEF M
    <3>2. array + i \in DOMAIN mem /\ (array + i) - array = i /\ (array + i = array <=> i = 0)
      BY <3>1, <1>4, Numbers DEF Indexes
    <3>3. Block(t, i)' = mem'[array + i]
      BY <1>6 DEF Block
    <3> QED
      BY <1>2, <3>2, <3>3
  <2> QED
    BY <2>1, <1>7
<1>9. ASSUME NEW u \in Threads \ {t} PROVE Same(u)
  <2>1. state'[u] = state[u] /\ base'[u] = base[u] /\ cur'[u] = cur[u]
        /\ chain'[u] = chain[u] /\ live'[u] = live[u]
    BY <1>1, <1>2, <1>3 DEF TypeOK
  <2>2. ASSUME NEW i \in Indexes, state[u] = "ready" PROVE Block(u, i)' = Block(u, i)
    <3>1. base[u] \in busy /\ base[u] \in Arrays /\ base[u] # array
      BY <1>1, <2>2, Places
    <3>2. ASSUME NEW j \in Indexes PROVE base[u] + i # array + j
      BY <3>1, <1>4, ArrayPlaces
    <3>3. base[u] + i # array /\ (base[u] + i) - array \notin Indexes
      <4>1. base[u] \in Nat /\ i \in Nat
        BY <3>1, ArrayPlaces DEF Indexes
      <4>2. base[u] + i = array + ((base[u] + i) - array) /\ array = array + 0
        BY <4>1, <1>4
      <4> QED
        BY <3>2, <4>2, <1>7
    <3>4. i \in 0 .. MaxBlocks
      BY Numbers DEF Indexes
    <3>5. base[u] + i \in DOMAIN mem
      BY <1>1, <3>4, Places
    <3>6. Block(u, i)' = mem'[base[u] + i]
      BY <2>1 DEF Block
    <3> QED
      BY <1>2, <3>3, <3>5, <3>6 DEF Block
  <2> QED
    BY <2>1, <2>2 DEF Same
<1>10. Top(t)' = 0 /\ Len(chain'[t]) = 0
  BY <1>6 DEF Top
<1>11. HeapInv(t)'
  <2>1. BlocksInv(t)'
    BY <1>6, <1>8, <1>10 DEF BlocksInv, Indexes
  <2>2. StepsInv(t)' /\ ChunksInv(t)'
    BY <1>10 DEF StepsInv, ChunksInv
  <2>3. TopInv(t)'
    BY <1>6, <1>8 DEF TopInv
  <2>4. OwnInv(t)'
    BY <1>6, <1>10 DEF OwnInv
  <2> QED
    BY <1>6, <2>1, <2>2, <2>3, <2>4 DEF HeapInv
<1>12. Mine(t) = {} /\ Mine(t)' = {addr} \ {Null}
  BY <1>3, <1>6, <1>7, <1>8 DEF Mine
<1>13. held' = (held \ Mine(t)) \cup Mine(t)' /\ Mine(t)' \cap (held \ Mine(t)) = {}
  BY <1>2, <1>12
<1>14. \A u \in Threads \ {t} : state[u] = "ready" => base'[t] # base[u]
  BY <1>6
<1>15. \A i, j \in Indexes : Block(t, i)' # Null /\ Block(t, i)' = Block(t, j)' => i = j
  BY <1>8
<1> QED
  BY <1>1, <1>3, <1>5, <1>9, <1>11, <1>13, <1>14, <1>15, StepKeeps

-----------------------------------------------------------------------------
(* sheap_alloc *)

\* A chunk that fits behind the last one, or at the start of the block behind.
LEMMA PushKeeps ==
  ASSUME IInv, Sound, NEW t \in Threads, state[t] = "ready",
         NEW i \in Indexes, NEW at \in Nat, NEW size \in Sizes, Push(t, i, at, size),
         state' = state, overrun' = overrun, TypeOK',
         \A j \in Indexes : j # i => Block(t, j)' = Block(t, j),
         Block(t, i) # Null => Block(t, i)' = Block(t, i),
         Block(t, i)' \in Nat, Block(t, i)' # Null, Block(t, i)' <= at,
         RoundUp(at) + HdrSize + size <= Block(t, i)' + BuffSize,
         \/ i = Top(t) /\ at = cur[t]
         \/ i = Top(t) + 1 /\ chain[t] # <<>>
  PROVE  HeapInv(t)'
<1> DEFINE q == chain[t]
           n == Len(chain[t])
           hdr == [addr |-> RoundUp(at), index |-> i, size |-> size, free |-> FALSE]
<1>1. TypeOK /\ HeapInv(t) /\ q \in Seq(Chunk) /\ n \in Nat /\ \A k \in 1 .. n : q[k] \in Chunk
  BY TopFacts, ListFacts DEF IInv
<1>2. RoundUp(at) \in Nat /\ RoundUp(at) >= at /\ RoundUp(at) % Align = 0
  BY Rounding
<1>3. hdr \in Chunk /\ ChunkEnd(hdr) = RoundUp(at) + HdrSize + size
  BY <1>2 DEF Chunk, ChunkEnd
<1>4. /\ chain' = [chain EXCEPT ![t] = Append(q, hdr)]
      /\ cur' = [cur EXCEPT ![t] = ChunkEnd(hdr)]
      /\ live' = [live EXCEPT ![t] = live[t] \cup {Region(hdr)}]
  BY DEF Push, IndexOf
<1>5. chain'[t] = Append(q, hdr) /\ cur'[t] = ChunkEnd(hdr) /\ live'[t] = live[t] \cup {Region(hdr)}
  BY <1>1, <1>4 DEF TypeOK
<1>6. Len(chain'[t]) = n + 1 /\ chain'[t][n + 1] = hdr /\ \A k \in 1 .. n : chain'[t][k] = q[k]
  BY <1>1, <1>3, <1>5
<1>7. chain'[t] # <<>> /\ Last(chain'[t]) = hdr /\ Top(t)' = i
  <2>1. Append(q, hdr) \in Seq(Chunk) /\ Append(q, hdr) # <<>>
    BY <1>1, <1>3
  <2>2. Last(chain'[t]) = hdr
    BY <1>6 DEF Last
  <2>3. chain'[t] # <<>> /\ hdr.index = i
    BY <1>5, <2>1
  <2>4. Top(t)' = Last(chain'[t]).index
    BY <2>3 DEF Top
  <2> QED
    BY <2>2, <2>3, <2>4
<1>8. Top(t) \in Indexes /\ Top(t) \in Nat /\ i \in Nat /\ (q = <<>> => n = 0 /\ Top(t) = 0)
      /\ (q # <<>> => n \in 1 .. n /\ Top(t) = q[n].index)
  BY <1>1, TopFacts, ListFacts DEF Indexes
<1> HIDE DEF hdr
<1>9. hdr.index = i /\ hdr.addr = RoundUp(at) /\ hdr.size = size /\ hdr.free = FALSE
  BY DEF hdr
<1>10. BlocksInv(t)'
  <2>1. ASSUME NEW j \in Indexes, j > i + 1 PROVE Block(t, j)' = Null
    <3>1. j # i /\ j > Top(t) + 1
      BY <1>8, <2>1 DEF Indexes
    <3> QED
      BY <1>1, <3>1 DEF HeapInv, BlocksInv
  <2>2. ASSUME NEW j \in Indexes, j <= i PROVE Block(t, j)' # Null
    <3>1. CASE j = i
      BY <3>1
    <3>2. CASE j # i
      <4>1. j <= Top(t) /\ q # <<>>
        BY <1>8, <2>2, <3>2 DEF Indexes
      <4> QED
        BY <1>1, <3>2, <4>1 DEF HeapInv, BlocksInv
    <3> QED
      BY <3>1, <3>2
  <2>3. 0 \in Indexes /\ 0 <= i
    BY <1>8, Numbers DEF Indexes
  <2> QED
    BY <1>7, <2>1, <2>2, <2>3 DEF BlocksInv
<1>11. StepsInv(t)'
  <2>1. ASSUME NEW k \in 1 .. n, NEW j \in 0 .. q[k].index
        PROVE  \E m \in 1 .. k : chain'[t][m].index = j
    <3>1. PICK m \in 1 .. k : q[m].index = j
      BY <1>1, <2>1 DEF HeapInv, StepsInv
    <3>2. m \in 1 .. n
      BY <1>1
    <3> QED
      BY <1>6, <3>1, <3>2
  <2>2. ASSUME NEW j \in 0 .. i PROVE \E m \in 1 .. n + 1 : chain'[t][m].index = j
    <3>1. CASE j = i
      <4>1. n + 1 \in 1 .. n + 1
        BY <1>1
      <4> QED
        BY <1>6, <1>9, <3>1, <4>1
    <3>2. CASE j # i
      <4>1. q # <<>> /\ n \in 1 .. n /\ j \in 0 .. q[n].index
        BY <1>8, <3>2
      <4>2. PICK m \in 1 .. n : chain'[t][m].index = j
        BY <2>1, <4>1
      <4> QED
        BY <4>2, <1>1
    <3> QED
      BY <3>1, <3>2
  <2>3. ASSUME NEW k \in 1 .. n + 1, NEW j \in 0 .. chain'[t][k].index
        PROVE  \E m \in 1 .. k : chain'[t][m].index = j
    <3>1. CASE k = n + 1
      BY <1>6, <1>9, <2>2, <3>1
    <3>2. CASE k \in 1 .. n
      BY <1>6, <2>1, <3>2
    <3> QED
      BY <3>1, <3>2, <1>1
  <2> QED
    BY <1>6, <2>3 DEF StepsInv
<1>12. ChunksInv(t)'
  <2>1. ASSUME NEW k \in 1 .. n PROVE InBlock(t, chain[t][k])'
    <3>1. InBlock(t, q[k]) /\ q[k].index \in Indexes /\ q[k].index <= Top(t) /\ q # <<>>
      BY <1>1, TopIsGreatest, ChunkFacts DEF HeapInv, ChunksInv
    <3>2. Block(t, q[k].index) # Null
      BY <1>1, <3>1 DEF HeapInv, BlocksInv
    <3>3. \A j \in Indexes : Block(t, j) # Null => Block(t, j)' = Block(t, j)
      OBVIOUS
    <3>4. PICK j \in Indexes : j = q[k].index
      BY <3>1
    <3>5. Block(t, j)' = Block(t, q[k].index) /\ chain'[t][k] = q[k]
      BY <1>6, <3>2, <3>3, <3>4
    <3>6. Block(t, chain[t][k].index)' = Block(t, j)'
      BY <3>4, <3>5
    <3> QED
      BY <3>1, <3>5, <3>6 DEF InBlock
  <2>2. InBlock(t, hdr)'
    <3>1. Block(t, hdr.index)' = Block(t, i)'
      BY <1>9
    <3> QED
      BY <1>2, <1>3, <1>9, <3>1 DEF InBlock
  <2>3. ASSUME NEW k \in 1 .. n PROVE Below(q[k], hdr)
    <3>1. q[k].index <= Top(t) /\ q[k].index \in Nat /\ q # <<>> /\ n \in 1 .. n
      BY <1>1, <1>8, TopIsGreatest, ChunkFacts DEF HeapInv
    <3>2. ASSUME q[k].index = i PROVE ChunkEnd(q[k]) <= hdr.addr
      <4>1. i = Top(t) /\ at = cur[t]
        BY <1>8, <3>1, <3>2
      <4>2. cur[t] = ChunkEnd(q[n])
        BY <1>1, <3>1, ListFacts DEF HeapInv, TopInv
      <4>3. ChunkEnd(q[k]) <= ChunkEnd(q[n])
        <5>1. CASE k = n
          BY <5>1, <1>1, ChunkFacts
        <5>2. CASE k # n
          <6>1. k \in 1 .. n - 1
            BY <5>2, <1>1
          <6>2. ChunkEnd(q[k]) <= q[n].addr
            BY <1>1, <1>8, <3>1, <3>2, <4>1, <6>1 DEF HeapInv, ChunksInv, Below
          <6>3. ChunkEnd(q[n]) > q[n].addr + HdrSize /\ q[n].addr \in Nat /\ ChunkEnd(q[n]) \in Nat
                /\ ChunkEnd(q[k]) \in Nat
            BY <1>1, <3>1, ChunkFacts
          <6> QED
            BY <6>2, <6>3, Numbers, SMTT(30)
        <5> QED
          BY <5>1, <5>2
      <4>4. ChunkEnd(q[k]) \in Nat /\ ChunkEnd(q[n]) \in Nat
        BY <1>1, <3>1, ChunkFacts
      <4> QED
        BY <1>2, <1>9, <4>1, <4>2, <4>3, <4>4
    <3> QED
      BY <1>8, <1>9, <3>1, <3>2 DEF Below
  <2>4. ASSUME NEW k \in 1 .. n + 1 PROVE InBlock(t, chain[t][k])'
    BY <1>1, <1>6, <2>1, <2>2
  <2>5. ASSUME NEW k \in 1 .. n + 1, NEW j \in 1 .. k - 1 PROVE Below(chain'[t][j], chain'[t][k])
    <3>1. CASE k = n + 1
      <4>1. j \in 1 .. n /\ chain'[t][j] = q[j] /\ chain'[t][k] = hdr
        BY <1>1, <1>6, <3>1
      <4> QED
        BY <2>3, <4>1
    <3>2. CASE k \in 1 .. n
      <4>1. j \in 1 .. n
        BY <1>1, <3>2
      <4>2. Below(q[j], q[k])
        BY <1>1, <3>2 DEF HeapInv, ChunksInv
      <4>3. chain'[t][j] = q[j] /\ chain'[t][k] = q[k]
        BY <1>6, <3>2, <4>1
      <4> QED
        BY <4>2, <4>3
    <3>3. k = n + 1 \/ k \in 1 .. n
      <4>1. n \in Nat
        BY <1>1
      <4> HIDE DEF n
      <4> QED
        BY <4>1
    <3> QED
      BY <3>1, <3>2, <3>3
  <2> QED
    BY <1>6, <2>4, <2>5 DEF ChunksInv, InBlock, Below
<1>13. TopInv(t)'
  BY <1>5, <1>7, <1>9 DEF TopInv
<1>14. OwnInv(t)'
  <2>1. live[t] = {Region(q[k]) : k \in {j \in 1 .. n : ~q[j].free}}
    BY <1>1 DEF HeapInv, OwnInv
  <2>2. {j \in 1 .. n + 1 : ~chain'[t][j].free} = {j \in 1 .. n : ~q[j].free} \cup {n + 1}
    <3>1. n + 1 \in 1 .. n + 1 /\ n + 1 \notin 1 .. n /\ 1 .. n + 1 = (1 .. n) \cup {n + 1}
      BY <1>1
    <3>2. ~chain'[t][n + 1].free
      BY <1>6, <1>9
    <3>3. \A j \in 1 .. n : chain'[t][j].free = q[j].free
      BY <1>6
    <3> QED
      BY <3>1, <3>2, <3>3, Zenon
  <2>3. live'[t] = {Region(chain'[t][k]) : k \in {j \in 1 .. n + 1 : ~chain'[t][j].free}}
    BY <1>5, <1>6, <2>1, <2>2
  <2> QED
    BY <1>6, <2>3 DEF OwnInv, Region
<1> QED
  BY <1>10, <1>11, <1>12, <1>13, <1>14 DEF HeapInv

\* What an allocation writes has the right types.
LEMMA PushTypes ==
  ASSUME TypeOK, NEW t \in Threads, NEW i \in Indexes, NEW at \in Nat, NEW size \in Sizes,
         Push(t, i, at, size), state' = state, base' = base, overrun' = overrun,
         mem' \in [0 .. MaxBlocks * ArrayCount + 1 -> BlockAddrs \cup {Null}],
         held' \subseteq BlockAddrs
  PROVE  TypeOK'
<1> DEFINE hdr == [addr |-> RoundUp(at), index |-> i, size |-> size, free |-> FALSE]
<1>1. hdr \in Chunk
  BY Rounding DEF Chunk
<1>2. ChunkEnd(hdr) \in Nat /\ Region(hdr) \in [addr : Nat, size : Sizes]
  BY <1>1, ChunkFacts
<1>3. /\ chain' = [chain EXCEPT ![t] = Append(chain[t], hdr)]
      /\ cur' = [cur EXCEPT ![t] = ChunkEnd(hdr)]
      /\ live' = [live EXCEPT ![t] = live[t] \cup {Region(hdr)}]
  BY DEF Push, IndexOf
<1> HIDE DEF hdr
<1>4. chain' \in [Threads -> Seq(Chunk)]
  BY <1>1, <1>3, TopFacts
<1>5. cur' \in [Threads -> Nat]
  BY <1>2, <1>3 DEF TypeOK
<1>6. live' \in [Threads -> SUBSET [addr : Nat, size : Sizes]]
  BY <1>2, <1>3 DEF TypeOK
<1> QED
  BY <1>4, <1>5, <1>6 DEF TypeOK, Chunk

\* What both ways of sheap_alloc leave alone.
LEMMA PushOthers ==
  ASSUME TypeOK, NEW t \in Threads, NEW i, NEW at, NEW size, Push(t, i, at, size),
         state' = state, base' = base,
         NEW u \in Threads \ {t},
         \A j \in Indexes : state[u] = "ready" => Block(u, j)' = Block(u, j)
  PROVE  Same(u)
<1>1. chain'[u] = chain[u] /\ cur'[u] = cur[u] /\ live'[u] = live[u]
  BY DEF Push, TypeOK
<1> QED
  BY <1>1 DEF Same

\* The first block is aligned, so that whatever may be asked for fits into an
\* empty heap.
LEMMA FitsWhenEmpty ==
  ASSUME IInv, Sound, NEW t \in Threads, state[t] = "ready", chain[t] = <<>>, NEW size \in Sizes
  PROVE  Fits(t, size)
<1>1. TypeOK /\ HeapInv(t)
  BY DEF IInv
<1>2. Top(t) = 0 /\ cur[t] = Block(t, 0)
  BY <1>1, TopFacts DEF HeapInv, TopInv
<1>3. 0 \in 0 .. MaxBlocks
  BY Numbers
<1>4. Block(t, 0) \in BlockAddrs \cup {Null} /\ Block(t, 0) \in Nat
  BY <1>1, <1>3, Places
<1>5. Block(t, 0) % Align = 0
  <2>1. ASSUME NEW m \in Nat \ {0} PROVE 0 % m = 0
    BY <2>1, SMT
  <2> QED
    BY <1>4, <2>1, Numbers DEF Null
<1>6. RoundUp(cur[t]) = Block(t, 0)
  BY <1>2, <1>4, <1>5, Rounding
<1> QED
  BY <1>2, <1>4, <1>6, Numbers DEF Fits

\* sheap_alloc, when the chunk fits the block in use.
LEMMA AllocHereKeeps ==
  ASSUME IInv, NEW t \in Threads, NEW size \in Sizes, AllocHere(t, size)
  PROVE  IInv' /\ Aside(t) /\ overrun' = overrun
<1>1. /\ TypeOK /\ SharedInv /\ HeapInv(t) /\ Sound /\ state[t] = "ready"
      /\ Fits(t, size) /\ Block(t, Top(t)) # Null
      /\ Push(t, Top(t), cur[t], size)
      /\ UNCHANGED <<state, base, mem, held, overrun>>
  BY DEF IInv, AllocHere, Ready
<1>2. Top(t) \in Indexes /\ Top(t) \in 0 .. MaxBlocks /\ cur[t] \in Nat
  <2>1. Top(t) \in Indexes /\ cur[t] \in Nat
    BY <1>1, TopFacts DEF TypeOK
  <2> QED
    BY <2>1, Numbers DEF Indexes
<1>3. TypeOK'
  BY <1>1, <1>2, PushTypes DEF TypeOK
<1>4. \A u \in Threads : \A i : Block(u, i)' = Block(u, i)
  BY <1>1 DEF Block
<1>5. PICK i \in Indexes : i = Top(t)
  BY <1>2
<1>6. Block(t, i) \in Nat
  BY <1>1, <1>2, <1>5, Places
<1>7. Block(t, i) <= cur[t]
  <2>1. CASE chain[t] = <<>>
    <3>1. i = 0 /\ cur[t] = Block(t, 0)
      BY <1>1, <1>5, <2>1, TopFacts DEF HeapInv, TopInv
    <3> QED
      BY <1>6, <3>1
  <2>2. CASE chain[t] # <<>>
    <3> DEFINE n == Len(chain[t])
               c == chain[t][n]
    <3>1. n \in 1 .. n /\ Last(chain[t]) = c /\ c \in Chunk /\ c.index = i
      BY <1>1, <1>5, <2>2, TopFacts, ListFacts
    <3>2. cur[t] = ChunkEnd(c)
      BY <1>1, <2>2, <3>1 DEF HeapInv, TopInv
    <3>3. Block(t, i) <= c.addr
      BY <1>1, <3>1 DEF HeapInv, ChunksInv, InBlock
    <3>4. c.addr \in Nat /\ ChunkEnd(c) \in Nat /\ ChunkEnd(c) > c.addr + HdrSize
      BY <3>1, ChunkFacts
    <3> QED
      BY <1>6, <3>2, <3>3, <3>4, Numbers, SMTT(30)
  <2> QED
    BY <2>1, <2>2
<1>8. HeapInv(t)'
  <2>1. Push(t, i, cur[t], size) /\ Block(t, i)' = Block(t, i) /\ Block(t, i) # Null
    BY <1>1, <1>4, <1>5
  <2>2. RoundUp(cur[t]) + HdrSize + size <= Block(t, i)' + BuffSize
    BY <1>1, <1>5, <2>1 DEF Fits
  <2>3. PICK at \in Nat : at = cur[t]
    BY <1>2
  <2> QED
    BY <1>1, <1>3, <1>4, <1>5, <1>6, <1>7, <2>1, <2>2, <2>3, PushKeeps
<1>9. \A u \in Threads \ {t} : Same(u)
  BY <1>1, <1>4, PushOthers
<1>10. Mine(t)' = Mine(t)
  BY <1>1, <1>4 DEF Mine
<1>11. /\ state'[t] = "ready" => \A u \in Threads \ {t} : state[u] = "ready" => base'[t] # base[u]
       /\ \A i1, j \in Indexes : Block(t, i1)' # Null /\ Block(t, i1)' = Block(t, j)' => i1 = j
  BY <1>1, <1>4 DEF SharedInv
<1>12. Mine(t) \subseteq held
  BY <1>1 DEF SharedInv
<1> QED
  BY <1>1, <1>3, <1>8, <1>9, <1>10, <1>11, <1>12, StepKeeps

\* What follows the crash is not spoken of; what precedes it has the right types.
LEMMA CrashKeeps ==
  ASSUME IInv, Sound, NEW t \in Threads, state' = [state EXCEPT ![t] = "crashed"],
         UNCHANGED <<base, mem, cur, chain, held, live, overrun>>
  PROVE  IInv' /\ Aside(t) /\ overrun' = overrun
<1>1. /\ TypeOK /\ state' = [state EXCEPT ![t] = "crashed"]
      /\ UNCHANGED <<base, mem, cur, chain, held, live, overrun>>
  BY DEF IInv
<1>2. state' \in [Threads -> {"none", "ready", "purged", "crashed"}] /\ state'[t] = "crashed"
  BY <1>1 DEF TypeOK
<1>3. TypeOK'
  BY <1>1, <1>2 DEF TypeOK
<1>4. ~Sound'
  BY <1>2 DEF Sound
<1>5. ASSUME NEW u \in Threads \ {t}
      PROVE  /\ cur'[u] = cur[u] /\ state'[u] = state[u]
             /\ Same(u) /\ Mine(u) \subseteq held'
  <2>1. Mine(u) \subseteq held
    BY DEF IInv, SharedInv
  <2> QED
    BY <1>1, <2>1 DEF Same, TypeOK, Block
<1> QED
  BY <1>1, <1>3, <1>4, <1>5 DEF IInv, Aside

\* The heap gets a block of its own, or finds the spare one.
LEMMA AllocInNextBlockKeeps ==
  ASSUME IInv, NEW t \in Threads, NEW size \in Sizes, AllocInNextBlock(t, size)
  PROVE  IInv' /\ Aside(t) /\ overrun' = overrun
<1> DEFINE next == Top(t) + 1
<1>1. /\ TypeOK /\ SharedInv /\ HeapInv(t) /\ Sound /\ state[t] = "ready"
      /\ ~Fits(t, size) /\ next # MaxBlocks
      /\ Push(t, next, mem'[base[t] + next], size)
      /\ UNCHANGED <<state, base, overrun>>
  BY DEF IInv, AllocInNextBlock, Ready
<1>2. \/ Block(t, next) # Null /\ UNCHANGED <<mem, held>>
      \/ /\ Block(t, next) = Null
         /\ \E addr \in BlockAddrs \ held :
              mem' = [mem EXCEPT ![base[t] + next] = addr] /\ held' = held \cup {addr}
  BY DEF AllocInNextBlock
<1>3. next \in Indexes /\ next \in 0 .. MaxBlocks /\ 0 \in Indexes
  <2>1. Top(t) \in Indexes
    BY <1>1, TopFacts
  <2> QED
    BY <1>1, <2>1, Numbers DEF Indexes
<1>4. PICK i \in Indexes : i = next
  BY <1>3
<1>5. chain[t] # <<>>
  BY <1>1, FitsWhenEmpty
<1>6. base[t] \in Arrays /\ base[t] + i \in DOMAIN mem
  BY <1>1, <1>3, <1>4, Places
\* The block the chunk goes into.
<1>7. PICK addr \in BlockAddrs :
        /\ mem' = [mem EXCEPT ![base[t] + i] = addr]
        /\ held' = held \cup {addr}
        /\ Block(t, i) # Null => Block(t, i) = addr
        /\ Block(t, i) = Null => addr \notin held
  <2>1. CASE Block(t, i) # Null
    <3>1. Block(t, i) \in BlockAddrs /\ Block(t, i) = mem[base[t] + i] /\ mem' = mem /\ held' = held
      BY <1>1, <1>2, <1>3, <1>4, <2>1, Places DEF Block
    <3>2. mem' = [mem EXCEPT ![base[t] + i] = Block(t, i)]
      BY <3>1, <1>1, <1>6 DEF TypeOK
    <3>3. Block(t, i) \in held
      <4>1. Block(t, i) \in Mine(t)
        BY <1>1, <2>1 DEF Mine
      <4> QED
        BY <1>1, <4>1 DEF SharedInv
    <3> QED
      BY <2>1, <3>1, <3>2, <3>3
  <2>2. CASE Block(t, i) = Null
    BY <1>2, <1>4, <2>2
  <2> QED
    BY <2>1, <2>2
<1>8. mem' \in [0 .. MaxBlocks * ArrayCount + 1 -> BlockAddrs \cup {Null}] /\ held' \subseteq BlockAddrs
  BY <1>1, <1>7 DEF TypeOK
<1>9. /\ addr \in Nat /\ addr # Null /\ addr % Align = 0 /\ mem'[base[t] + i] = addr
      /\ Push(t, i, addr, size)
  BY <1>1, <1>4, <1>6, <1>7, Numbers DEF TypeOK
<1>10. TypeOK'
  BY <1>1, <1>8, <1>9, PushTypes
<1>11. Block(t, i)' = addr
  BY <1>1, <1>9 DEF Block
<1>12. ASSUME NEW u \in Threads, NEW j \in Indexes, state[u] = "ready", u # t \/ j # i
       PROVE  Block(u, j)' = Block(u, j)
  <2>1. base[u] \in Arrays /\ base[u] \in Nat /\ base[t] \in Nat /\ (u # t => base[u] # base[t])
    BY <1>1, <1>12, Places DEF SharedInv
  <2>2. base[u] + j # base[t] + i
    <3>1. CASE u # t
      BY <2>1, <1>6, <3>1, Places, <1>1, ArrayPlaces
    <3>2. CASE u = t
      BY <1>12, <2>1, <3>2 DEF Indexes
    <3> QED
      BY <3>1, <3>2
  <2>3. j \in 0 .. MaxBlocks
    BY Numbers DEF Indexes
  <2>4. base[u] + j \in DOMAIN mem
    BY <1>1, <2>3, Places
  <2>5. Block(u, j)' = mem'[base[u] + j]
    BY <1>1 DEF Block
  <2> QED
    BY <1>7, <2>2, <2>4, <2>5 DEF Block
<1>13. HeapInv(t)'
  <2>1. \A j \in Indexes : j # i => Block(t, j)' = Block(t, j)
    BY <1>1, <1>12
  <2>2. Block(t, i) # Null => Block(t, i)' = Block(t, i)
    BY <1>7, <1>11
  <2>3. RoundUp(addr) + HdrSize + size <= Block(t, i)' + BuffSize
    <3>1. RoundUp(addr) = addr
      BY <1>9, Rounding
    <3> QED
      BY <1>9, <1>11, <3>1, Numbers
  <2>4. Block(t, i)' \in Nat /\ Block(t, i)' # Null /\ Block(t, i)' <= addr
    BY <1>9, <1>11
  <2> QED
    BY <1>1, <1>4, <1>5, <1>9, <1>10, <2>1, <2>2, <2>3, <2>4, PushKeeps
<1>14. \A u \in Threads \ {t} : Same(u)
  <2>1. ASSUME NEW u \in Threads \ {t} PROVE Same(u)
    <3>1. \A j \in Indexes : state[u] = "ready" => Block(u, j)' = Block(u, j)
      BY <1>12
    <3> QED
      BY <1>1, <1>9, <3>1, PushOthers
  <2> QED
    BY <2>1
<1>15. Mine(t) \subseteq held /\ state'[t] = "ready"
  BY <1>1 DEF SharedInv
<1>16. Mine(t)' = Mine(t) \cup {addr}
  <2>1. Mine(t) = {Block(t, j) : j \in Indexes} \ {Null}
    BY <1>1 DEF Mine
  <2>2. Mine(t)' = {Block(t, j)' : j \in Indexes} \ {Null}
    BY <1>15 DEF Mine
  <2>3. \A j \in Indexes : j # i => Block(t, j)' = Block(t, j)
    BY <1>1, <1>12
  <2>4. Block(t, i)' = addr /\ addr # Null /\ (Block(t, i) = Null \/ Block(t, i) = addr)
    BY <1>7, <1>9, <1>11
  <2> QED
    BY <2>1, <2>2, <2>3, <2>4
<1>17. addr \in held => addr \in Mine(t)
  BY <1>1, <1>7, <1>9 DEF Mine
<1>18. held' = (held \ Mine(t)) \cup Mine(t)' /\ Mine(t)' \cap (held \ Mine(t)) = {}
  BY <1>7, <1>15, <1>16, <1>17
<1>19. ASSUME NEW j \in Indexes, NEW k \in Indexes, Block(t, j)' # Null, Block(t, j)' = Block(t, k)'
       PROVE  j = k
  <2>1. CASE j # i /\ k # i
    <3>1. Block(t, j) # Null /\ Block(t, j) = Block(t, k)
      BY <1>1, <1>12, <1>19, <2>1
    <3> QED
      BY <1>1, <3>1 DEF SharedInv
  <2>2. ASSUME NEW m \in Indexes, m # i PROVE Block(t, m)' # addr
    <3>1. Block(t, m)' = Block(t, m)
      BY <1>1, <1>12, <2>2
    <3>2. ASSUME Block(t, m) = addr PROVE FALSE
      <4>1. addr \in held
        BY <1>1, <1>9, <1>15, <3>2 DEF Mine
      <4>2. Block(t, i) = Block(t, m) /\ Block(t, i) # Null
        BY <1>7, <3>2, <4>1
      <4> QED
        BY <1>1, <2>2, <4>2 DEF SharedInv
    <3> QED
      BY <3>1, <3>2
  <2> QED
    BY <1>11, <1>19, <2>1, <2>2
<1>20. \A u \in Threads \ {t} : state[u] = "ready" => base'[t] # base[u]
  BY <1>1 DEF SharedInv
<1> QED
  BY <1>1, <1>10, <1>13, <1>14, <1>18, <1>19, <1>20, StepKeeps

-----------------------------------------------------------------------------
(* sheap_free *)

\* Marking a chunk changes nothing else about it.
SameBody(c, d) == c.addr = d.addr /\ c.index = d.index /\ c.size = d.size

\* Marking a chunk as free changes nothing else of the list.
LEMMA MarkedFacts ==
  ASSUME NEW q \in Seq(Chunk), NEW k \in 1 .. Len(q)
  PROVE  LET m == [q EXCEPT ![k].free = TRUE] IN
         /\ m \in Seq(Chunk) /\ Len(m) = Len(q) /\ m[k].free
         /\ \A j \in 1 .. Len(q) : m[j] \in Chunk /\ SameBody(m[j], q[j]) /\ (j # k => m[j] = q[j])
<1> DEFINE m == [q EXCEPT ![k].free = TRUE]
           N == Len(q)
<1>1. N \in Nat /\ q \in [1 .. N -> Chunk]
  BY SeqIsFunction
<1>2. DOMAIN m = 1 .. N /\ \A j \in 1 .. N : m[j] = IF j = k THEN [q[k] EXCEPT !.free = TRUE] ELSE q[j]
  BY <1>1
<1>3. [q[k] EXCEPT !.free = TRUE] \in Chunk /\ SameBody([q[k] EXCEPT !.free = TRUE], q[k])
      /\ [q[k] EXCEPT !.free = TRUE].free
  BY <1>1 DEF Chunk, SameBody
<1>4. \A j \in 1 .. N : m[j] \in Chunk /\ SameBody(m[j], q[j]) /\ (j # k => m[j] = q[j])
  BY <1>1, <1>2, <1>3 DEF SameBody
<1>5. m \in [1 .. N -> Chunk]
  BY <1>2, <1>4
<1> HIDE DEF m, N
<1>6. m \in Seq(Chunk) /\ Len(m) = N
  BY <1>1, <1>5, FunctionIsSeq
<1>7. m[k].free
  BY <1>2, <1>3 DEF N
<1> QED
  BY <1>4, <1>6, <1>7 DEF m, N

\* What a free does to the list, and the words it clears.
Gone(t, n) == {chain[t][j].index + 1 : j \in n + 1 .. Len(chain[t])}

FreeDoes(t, k, n, kept) ==
  LET q     == chain[t]
      freed == {a \in {base[t] + i : i \in Gone(t, n)} : mem[a] # Null}
  IN
  /\ kept \in Seq(Chunk) /\ Len(kept) = n
  /\ \A j \in 1 .. n : SameBody(kept[j], q[j]) /\ (j # k => kept[j] = q[j]) /\ (j = k => kept[j].free)
  /\ n > 0 => ~kept[n].free
  /\ \A j \in n + 1 .. Len(q) : j # k => q[j].free
  /\ chain' = [chain EXCEPT ![t] = kept]
  /\ mem' = [a \in DOMAIN mem |-> IF a \in freed THEN Null ELSE mem[a]]
  /\ held' = held \ {mem[a] : a \in freed}
  /\ overrun' = \E a \in freed : a - base[t] \notin Indexes
  /\ cur' = [cur EXCEPT ![t] = IF kept = <<>> THEN Block(t, 0) ELSE ChunkEnd(Last(kept))]
  /\ live' = [live EXCEPT ![t] = @ \ {Region(q[k])}]
  /\ UNCHANGED <<state, base>>

\* sheap_free keeps some of the first chunks and returns the blocks behind them.
LEMMA FreeFacts ==
  ASSUME TypeOK, NEW t \in Threads, NEW k \in 1 .. Len(chain[t]), Free(t, k)
  PROVE  \E n \in 0 .. Len(chain[t]) : \E kept \in Seq(Chunk) : FreeDoes(t, k, n, kept)
<1> DEFINE q == chain[t]
           N == Len(q)
           marked == [q EXCEPT ![k].free = TRUE]
<1>1. q \in Seq(Chunk) /\ N \in Nat
  BY TopFacts, ListFacts
<1>2. /\ marked \in Seq(Chunk) /\ Len(marked) = N /\ marked[k].free
      /\ \A j \in 1 .. N : marked[j] \in Chunk /\ SameBody(marked[j], q[j]) /\ (j # k => marked[j] = q[j])
  BY <1>1, MarkedFacts
<1> HIDE DEF marked
<1>3. PICK n \in 0 .. N :
        /\ Kept(marked) = SubSeq(marked, 1, n)
        /\ n > 0 => ~marked[n].free
        /\ \A j \in n + 1 .. N : marked[j].free
  BY <1>2, KeptFacts
<1> DEFINE kept == SubSeq(marked, 1, n)
<1>4. kept \in Seq(Chunk) /\ Len(kept) = n /\ \A j \in 1 .. n : kept[j] = marked[j]
  <2>1. n \in Nat /\ \A j \in 1 .. n : marked[j] \in Chunk /\ j \in 1 .. N
    BY <1>1, <1>2
  <2> QED
    BY <2>1, <1>2
<1> HIDE DEF kept
<1>5. \A j \in 1 .. n : j \in 1 .. N
  BY <1>1
<1>6. \A j \in n + 1 .. N : j \in 1 .. N
  BY <1>1
<1>7. {base[t] + Behind(marked[j]) : j \in Len(kept) + 1 .. Len(marked)}
        = {base[t] + i : i \in Gone(t, n)}
  <2>1. \A j \in n + 1 .. N : base[t] + Behind(marked[j]) = base[t] + (q[j].index + 1)
    BY <1>2, <1>6 DEF Behind, SameBody
  <2> QED
    BY <1>2, <1>4, <2>1 DEF Gone
<1>8. FreeDoes(t, k, n, kept)
  <2>1. \A j \in 1 .. n : SameBody(kept[j], q[j]) /\ (j # k => kept[j] = q[j]) /\ (j = k => kept[j].free)
    BY <1>2, <1>4, <1>5
  <2>2. n > 0 => ~kept[n].free
    BY <1>3, <1>4
  <2>3. \A j \in n + 1 .. N : j # k => q[j].free
    BY <1>2, <1>3, <1>6
  <2>4. kept = Kept(marked)
    BY <1>3 DEF kept
  <2> QED
    BY <1>4, <1>7, <2>1, <2>2, <2>3, <2>4 DEF Free, FreeDoes, marked
<1> QED
  BY <1>4, <1>8

\* sheap_free leaves arrays, lists and places what they can be.
LEMMA FreeTypes ==
  ASSUME TypeOK, NEW t \in Threads, NEW k \in 1 .. Len(chain[t]),
         NEW n \in 0 .. Len(chain[t]), NEW kept \in Seq(Chunk), FreeDoes(t, k, n, kept)
  PROVE  TypeOK'
<1>1. mem' \in [0 .. MaxBlocks * ArrayCount + 1 -> BlockAddrs \cup {Null}]
  BY DEF FreeDoes, TypeOK
<1>2. chain' \in [Threads -> Seq(Chunk)]
  BY TopFacts DEF FreeDoes
<1>3. cur' \in [Threads -> Nat]
  <2>1. Block(t, 0) \in Nat
    BY Places, Numbers
  <2>2. kept # <<>> => ChunkEnd(Last(kept)) \in Nat
    BY ListFacts, ChunkFacts
  <2> QED
    BY <2>1, <2>2 DEF FreeDoes, TypeOK
<1>4. live' \in [Threads -> SUBSET [addr : Nat, size : Sizes]]
  BY DEF FreeDoes, TypeOK
<1>5. held' \subseteq BlockAddrs /\ overrun' \in BOOLEAN /\ UNCHANGED <<state, base>>
  BY DEF FreeDoes, TypeOK
<1> QED
  BY <1>1, <1>2, <1>3, <1>4, <1>5 DEF TypeOK, Chunk

\* What of the heap's own array goes, as long as nothing behind it does: the
\* blocks behind those of the chunks that go.
LEMMA FreeBlocks ==
  ASSUME IInv, Sound, NEW t \in Threads, state[t] = "ready", NEW k \in 1 .. Len(chain[t]),
         NEW n \in 0 .. Len(chain[t]), NEW kept \in Seq(Chunk), FreeDoes(t, k, n, kept), ~overrun'
  PROVE  /\ \A i \in Indexes : Block(t, i)' = IF i \in Gone(t, n) THEN Null ELSE Block(t, i)
         /\ \A u \in Threads \ {t} : Same(u)
         /\ held' = held \ {Block(t, i) : i \in Gone(t, n) \cap Indexes}
<1> DEFINE G == Gone(t, n)
           freed == {a \in {base[t] + i : i \in G} : mem[a] # Null}
<1>1. TypeOK /\ SharedInv
  BY DEF IInv
<1>2. /\ mem' = [a \in DOMAIN mem |-> IF a \in freed THEN Null ELSE mem[a]]
      /\ held' = held \ {mem[a] : a \in freed}
      /\ \A a \in freed : a - base[t] \in Indexes
      /\ state' = state /\ base' = base
  BY DEF FreeDoes
<1>3. base[t] \in Nat /\ base[t] \in Arrays /\ G \subseteq Nat
  <2>1. \A j \in 1 .. Len(chain[t]) : chain[t][j].index \in Nat
    BY <1>1, TopFacts, ListFacts, ChunkFacts
  <2>2. \A j \in n + 1 .. Len(chain[t]) : j \in 1 .. Len(chain[t])
    BY <1>1, TopFacts, ListFacts
  <2> QED
    BY <1>1, Places, <2>1, <2>2 DEF Gone
<1> HIDE DEF G
<1>4. \A a \in freed : a - base[t] \in G \cap Indexes /\ a = base[t] + (a - base[t])
  BY <1>2, <1>3
<1>5. ASSUME NEW u \in Threads, NEW i \in Indexes
      PROVE  base[u] + i \in DOMAIN mem /\ Block(u, i)' = mem'[base[u] + i]
  <2>1. i \in 0 .. MaxBlocks
    BY Numbers DEF Indexes
  <2> QED
    BY <1>1, <1>2, <2>1, Places DEF Block
<1>6. ASSUME NEW i \in Indexes
      PROVE  Block(t, i)' = IF i \in G THEN Null ELSE Block(t, i)
  <2>1. i \in Int /\ (base[t] + i) - base[t] = i
    BY <1>3 DEF Indexes
  <2>2. base[t] + i \in freed => i \in G
    BY <1>4, <2>1
  <2>3. i \in G /\ mem[base[t] + i] # Null => base[t] + i \in freed
    OBVIOUS
  <2> QED
    BY <1>2, <1>5, <2>2, <2>3 DEF Block
<1>7. ASSUME NEW u \in Threads \ {t} PROVE Same(u)
  <2>1. ASSUME NEW i \in Indexes, state[u] = "ready" PROVE Block(u, i)' = Block(u, i)
    <3>1. base[u] # base[t] /\ base[u] \in Arrays
      BY <1>1, <2>1, Places DEF SharedInv
    <3>2. base[u] + i \notin freed
      BY <1>3, <1>4, <3>1, ArrayPlaces
    <3> QED
      BY <1>2, <1>5, <3>2 DEF Block
  <2>2. chain'[u] = chain[u] /\ cur'[u] = cur[u] /\ live'[u] = live[u]
    BY <1>1 DEF FreeDoes, TypeOK
  <2> QED
    BY <1>2, <2>1, <2>2 DEF Same
<1>8. held' = held \ {Block(t, i) : i \in G \cap Indexes}
  <2>1. \A a \in freed : mem[a] \in {Block(t, i) : i \in G \cap Indexes}
    BY <1>4 DEF Block
  <2>2. \A i \in G \cap Indexes : Block(t, i) # Null => Block(t, i) \in {mem[a] : a \in freed}
    BY DEF Block
  <2>3. Null \notin held
    BY <1>1, Numbers DEF TypeOK
  <2> QED
    BY <1>2, <2>1, <2>2, <2>3
<1> QED
  BY <1>6, <1>7, <1>8 DEF G

\* Of two chunks the younger has the greater index, or the same.
LEMMA IndexesGrow ==
  ASSUME TypeOK, NEW t \in Threads, ChunksInv(t),
         NEW j \in 1 .. Len(chain[t]), NEW k \in 1 .. Len(chain[t]), j <= k
  PROVE  chain[t][j].index <= chain[t][k].index
<1>1. CASE j = k
  BY <1>1, TopFacts, ListFacts, ChunkFacts
<1>2. CASE j # k
  <2>1. j \in 1 .. k - 1
    BY <1>2
  <2> QED
    BY <2>1 DEF ChunksInv, Below
<1> QED
  BY <1>1, <1>2

\* The chunks that stay and the blocks that stay fit together.
LEMMA FreeKeepsHeap ==
  ASSUME IInv, Sound, NEW t \in Threads, state[t] = "ready", NEW k \in 1 .. Len(chain[t]),
         ~chain[t][k].free,
         NEW n \in 0 .. Len(chain[t]), NEW kept \in Seq(Chunk), FreeDoes(t, k, n, kept), ~overrun'
  PROVE  HeapInv(t)'
<1> DEFINE q == chain[t]
           N == Len(q)
           G == Gone(t, n)
<1>1. TypeOK /\ HeapInv(t) /\ ChunksInv(t) /\ q \in Seq(Chunk) /\ N \in Nat /\ q # <<>>
      /\ \A j \in 1 .. N : q[j] \in Chunk
  <2>1. TypeOK /\ HeapInv(t)
    BY DEF IInv
  <2>2. q \in Seq(Chunk)
    BY <2>1, TopFacts
  <2> QED
    BY <2>1, <2>2, ListFacts DEF HeapInv
<1>2. \A i \in Indexes : Block(t, i)' = IF i \in G THEN Null ELSE Block(t, i)
  BY FreeBlocks
<1>3. /\ chain'[t] = kept /\ live'[t] = live[t] \ {Region(q[k])} /\ state'[t] = "ready"
      /\ cur'[t] = IF kept = <<>> THEN Block(t, 0) ELSE ChunkEnd(Last(kept))
  BY <1>1 DEF FreeDoes, TypeOK
<1>4. /\ Len(kept) = n /\ n \in Nat /\ (n > 0 => ~kept[n].free)
      /\ \A j \in 1 .. n : /\ j \in 1 .. N /\ SameBody(kept[j], q[j]) /\ kept[j] \in Chunk
                           /\ (j # k => kept[j] = q[j]) /\ (j = k => kept[j].free)
      /\ \A j \in n + 1 .. N : j \in 1 .. N /\ (j # k => q[j].free)
  BY <1>1, ListFacts DEF FreeDoes
<1>5. /\ kept = <<>> <=> n = 0
      /\ kept # <<>> => n \in 1 .. n /\ n \in 1 .. N /\ Last(kept) = kept[n] /\ Top(t)' = q[n].index
      /\ kept = <<>> => Top(t)' = 0
  BY <1>3, <1>4, ListFacts DEF Top, SameBody
<1>6. Top(t) \in Indexes /\ Top(t) \in Nat /\ Top(t) = q[N].index /\ N \in 1 .. N
  BY <1>1, TopFacts, ListFacts DEF Indexes
\* The blocks that go are all behind the new top.
<1>7. ASSUME NEW i \in G PROVE i > Top(t)' /\ i \in Nat /\ i > 0
  <2>1. PICK j \in n + 1 .. N : i = q[j].index + 1
    BY DEF Gone
  <2>2. j \in 1 .. N /\ q[j].index \in Nat
    BY <1>1, <1>4, ChunkFacts
  <2>3. CASE kept = <<>>
    BY <1>5, <2>1, <2>2, <2>3
  <2>4. CASE kept # <<>>
    <3>1. n <= j
      BY <1>4
    <3>2. q[n].index <= q[j].index /\ q[n].index \in Nat
      BY <1>1, <1>5, <2>2, <2>4, <3>1, IndexesGrow, ChunkFacts
    <3>3. Top(t)' = q[n].index
      BY <1>5, <2>4
    <3> DEFINE a == q[n].index
               b == q[j].index
    <3>4. a <= b /\ a \in Nat /\ b \in Nat /\ i = b + 1
      BY <2>1, <2>2, <3>2
    <3> HIDE DEF a, b
    <3>5. i > a /\ i \in Nat /\ i > 0
      BY <3>4
    <3> QED
      BY <3>3, <3>5 DEF a
  <2> QED
    BY <2>3, <2>4
\* And all behind the new top go, up to the old one's.
<1>8. ASSUME NEW i \in Indexes, i > Top(t)' + 1, i <= Top(t) + 1 PROVE i \in G
  <2>1. Top(t)' \in Nat
    <3>1. CASE kept = <<>>
      BY <1>5, <3>1
    <3>2. CASE kept # <<>>
      <4>1. n \in 1 .. N /\ Top(t)' = q[n].index
        BY <1>5, <3>2
      <4>2. q[n] \in Chunk
        BY <1>1, <4>1
      <4> QED
        BY <4>1, <4>2, ChunkFacts
    <3> QED
      BY <3>1, <3>2
  <2>2. i - 1 \in 0 .. q[N].index
    BY <1>6, <1>8, <2>1 DEF Indexes
  <2>3. PICK j \in 1 .. N : q[j].index = i - 1
    BY <1>1, <1>6, <2>2 DEF HeapInv, StepsInv
  <2>4. j \in n + 1 .. N
    <3>1. ASSUME j <= n PROVE FALSE
      <4>1. kept # <<>> /\ n \in 1 .. N
        BY <1>4, <1>5, <3>1
      <4>2. q[j].index <= q[n].index
        BY <1>1, <3>1, <4>1, IndexesGrow
      <4> QED
        BY <1>5, <1>8, <2>1, <2>3, <4>1, <4>2 DEF Indexes
    <3> QED
      BY <3>1, <1>4, <1>1
  <2>5. i = q[j].index + 1
    BY <2>3 DEF Indexes
  <2> QED
    BY <2>4, <2>5 DEF Gone
<1>9. Top(t)' \in Nat /\ Top(t)' <= Top(t)
  <2>1. CASE kept = <<>>
    BY <1>5, <1>6, <2>1
  <2>2. CASE kept # <<>>
    <3>1. n \in 1 .. N /\ N \in 1 .. N /\ n <= N /\ Top(t)' = q[n].index
      BY <1>5, <1>6, <2>2
    <3>2. q[n].index <= q[N].index
      BY <1>1, <3>1, IndexesGrow
    <3>3. q[n] \in Chunk
      BY <1>1, <3>1
    <3>4. q[n].index \in Nat
      BY <3>3, ChunkFacts
    <3> QED
      BY <1>6, <3>1, <3>2, <3>4
  <2> QED
    BY <2>1, <2>2
<1> HIDE DEF G
<1>10. BlocksInv(t)'
  <2>1. ASSUME NEW i \in Indexes, i > Top(t)' + 1 PROVE Block(t, i)' = Null
    <3>1. CASE i <= Top(t) + 1
      BY <1>2, <1>8, <2>1, <3>1
    <3>2. CASE ~(i <= Top(t) + 1)
      <4>1. i > Top(t) + 1
        BY <3>2, <1>6 DEF Indexes
      <4> QED
        BY <1>1, <1>2, <4>1 DEF HeapInv, BlocksInv
    <3> QED
      BY <3>1, <3>2
  <2>2. ASSUME NEW i \in Indexes, i <= Top(t)' PROVE Block(t, i)' # Null
    <3>1. i \notin G /\ i <= Top(t)
      BY <1>6, <1>7, <1>9, <2>2 DEF Indexes
    <3> QED
      BY <1>1, <1>2, <3>1 DEF HeapInv, BlocksInv
  <2>3. 0 \in Indexes
    BY Numbers DEF Indexes
  <2> QED
    BY <1>9, <2>1, <2>2, <2>3 DEF BlocksInv
<1>11. StepsInv(t)'
  <2>1. ASSUME NEW j \in 1 .. n, NEW i \in 0 .. kept[j].index
        PROVE  \E m \in 1 .. j : kept[m].index = i
    <3>1. kept[j].index = q[j].index /\ j \in 1 .. N
      BY <1>4 DEF SameBody
    <3>2. PICK m \in 1 .. j : q[m].index = i
      BY <1>1, <3>1 DEF HeapInv, StepsInv
    <3>3. m \in 1 .. n
      BY <1>4
    <3> QED
      BY <1>4, <3>2, <3>3 DEF SameBody
  <2>2. StepsInv(t)' <=> \A j \in 1 .. Len(chain'[t]) : \A i \in 0 .. chain'[t][j].index :
                           \E m \in 1 .. j : chain'[t][m].index = i
    BY DEF StepsInv
  <2>3. chain'[t] = kept /\ Len(kept) = n
    BY <1>3, <1>4
  <2> QED
    BY <2>1, <2>2, <2>3, SMTT(30)
<1>12. ChunksInv(t)'
  <2>1. ASSUME NEW j \in 1 .. n PROVE InBlock(t, chain[t][j])'
    <3>1. SameBody(kept[j], q[j]) /\ j \in 1 .. N /\ InBlock(t, q[j]) /\ q[j] \in Chunk
      BY <1>1, <1>4 DEF ChunksInv
    <3>2. PICK i \in Indexes : i = q[j].index
      BY <3>1, ChunkFacts
    <3>3. i <= Top(t)'
      <4>1. kept # <<>> /\ n \in 1 .. N /\ j <= n
        BY <1>4, <1>5
      <4> QED
        BY <1>1, <1>5, <3>1, <3>2, <4>1, IndexesGrow
    <3>4. Block(t, i)' = Block(t, i)
      BY <1>2, <1>7, <1>9, <3>2, <3>3 DEF Indexes
    <3>5. Block(t, chain[t][j].index)' = Block(t, i)'
      BY <1>3, <3>1, <3>2 DEF SameBody
    <3>6. ChunkEnd(kept[j]) = ChunkEnd(q[j]) /\ kept[j].addr = q[j].addr
      BY <3>1 DEF SameBody, ChunkEnd
    <3> QED
      BY <1>3, <3>1, <3>2, <3>4, <3>5, <3>6 DEF InBlock
  <2>2. ASSUME NEW m \in 1 .. n, NEW j \in 1 .. m - 1 PROVE Below(kept[j], kept[m])
    <3>1. j \in 1 .. n
      BY <1>4
    <3>2. SameBody(kept[j], q[j]) /\ SameBody(kept[m], q[m]) /\ m \in 1 .. N
      BY <1>4, <3>1
    <3>3. Below(q[j], q[m])
      BY <1>1, <3>2 DEF ChunksInv
    <3> QED
      BY <3>2, <3>3 DEF Below, SameBody, ChunkEnd
  <2>3. /\ \A m \in 1 .. Len(chain'[t]) : InBlock(t, chain[t][m])'
        /\ \A m \in 1 .. Len(chain'[t]) : \A j \in 1 .. m - 1 : Below(chain'[t][j], chain'[t][m])
    BY <1>3, <1>4, <2>1, <2>2
  <2> QED
    BY <2>3 DEF ChunksInv, InBlock, Below
<1>13. TopInv(t)'
  <2>1. 0 \in Indexes /\ 0 \notin G
    BY <1>7, Numbers DEF Indexes
  <2>2. Block(t, 0)' = Block(t, 0)
    BY <1>2, <2>1
  <2>3. kept # <<>> => ~kept[n].free
    BY <1>4, <1>5
  <2> QED
    BY <1>3, <1>5, <2>2, <2>3 DEF TopInv
<1>14. OwnInv(t)'
  <2> DEFINE R == {Region(kept[j]) : j \in {m \in 1 .. n : ~kept[m].free}}
  <2>1. live[t] = {Region(q[j]) : j \in {m \in 1 .. N : ~q[m].free}}
    BY <1>1 DEF HeapInv, OwnInv
  <2>2. ASSUME NEW j \in 1 .. n, ~kept[j].free
        PROVE  Region(kept[j]) \in live[t] /\ Region(kept[j]) # Region(q[k])
    <3>1. j # k /\ kept[j] = q[j] /\ j \in 1 .. N
      BY <1>4, <2>2
    <3>2. DisjointChunks(q[j], q[k])
      BY <1>1, <3>1, ChunksApart DEF AllApart
    <3> QED
      BY <1>1, <2>1, <2>2, <3>1, <3>2, RegionsDiffer
  <2>3. ASSUME NEW j \in 1 .. N, ~q[j].free, Region(q[j]) # Region(q[k])
        PROVE  Region(q[j]) \in R
    <3>1. j # k /\ j \in 1 .. n
      BY <1>1, <1>4, <2>3
    <3>2. kept[j] = q[j]
      BY <1>4, <3>1
    <3> QED
      BY <2>3, <3>1, <3>2
  <2>4. live[t] \ {Region(q[k])} = R
    BY <2>1, <2>2, <2>3
  <2>5. OwnInv(t)' <=> live'[t] = {Region(chain'[t][j]) : j \in {m \in 1 .. Len(chain'[t]) : ~chain'[t][m].free}}
    BY DEF OwnInv, Region
  <2> QED
    BY <1>3, <1>4, <2>4, <2>5
<1> QED
  BY <1>3, <1>10, <1>11, <1>12, <1>13, <1>14 DEF HeapInv

\* The words a free may clear.
LEMMA GoneFacts ==
  ASSUME TypeOK, NEW t \in Threads, state[t] = "ready", HeapInv(t), NEW n \in 0 .. Len(chain[t])
  PROVE  \A i \in Gone(t, n) : i \in Nat /\ i > 0 /\ i <= Top(t) + 1
<1>1. SUFFICES ASSUME NEW i \in Gone(t, n) PROVE i \in Nat /\ i > 0 /\ i <= Top(t) + 1
  OBVIOUS
<1>2. PICK j \in n + 1 .. Len(chain[t]) : i = chain[t][j].index + 1
  BY DEF Gone
<1>3. j \in 1 .. Len(chain[t])
  BY TopFacts, ListFacts
<1>4. chain[t][j].index \in Nat /\ chain[t][j].index <= Top(t) /\ Top(t) \in Nat
  BY <1>3, TopFacts, TopIsGreatest, ListFacts, ChunkFacts DEF HeapInv
<1> QED
  BY <1>2, <1>4, SMTT(30)

\* sheap_free keeps the invariant, unless the heap was in its last block.
LEMMA FreeKeeps ==
  ASSUME IInv, NEW t \in Threads, NEW k \in DOMAIN chain[t], Free(t, k)
  PROVE  IInv' /\ Aside(t) /\ (overrun' => Top(t) = MaxBlocks - 1)
<1>1. TypeOK /\ SharedInv /\ HeapInv(t) /\ Sound /\ state[t] = "ready" /\ ~chain[t][k].free
      /\ k \in 1 .. Len(chain[t])
  <2>1. Sound /\ state[t] = "ready" /\ ~chain[t][k].free
    BY DEF Free, Ready
  <2>2. TypeOK /\ SharedInv /\ HeapInv(t)
    BY <2>1 DEF IInv
  <2> QED
    BY <2>1, <2>2, TopFacts, ListFacts
<1>2. PICK n \in 0 .. Len(chain[t]), kept \in Seq(Chunk) : FreeDoes(t, k, n, kept)
  BY <1>1, FreeFacts
<1>3. TypeOK'
  BY <1>1, <1>2, FreeTypes
<1>4. CASE overrun'
  <2>1. Top(t) = MaxBlocks - 1
    <3>1. PICK i \in Gone(t, n) : i \notin Indexes
      <4>1. base[t] \in Nat /\ Gone(t, n) \subseteq Nat
        BY <1>1, Places, GoneFacts
      <4>2. PICK a \in {base[t] + i : i \in Gone(t, n)} : a - base[t] \notin Indexes
        BY <1>2, <1>4 DEF FreeDoes
      <4>3. PICK i \in Gone(t, n) : a = base[t] + i
        BY <4>2
      <4> QED
        BY <4>1, <4>2, <4>3
    <3>2. i \in Nat /\ i > 0 /\ i <= Top(t) + 1
      BY <1>1, GoneFacts
    <3>3. Top(t) \in Nat /\ Top(t) \in 0 .. MaxBlocks - 1
      BY <1>1, TopFacts DEF Indexes
    <3> QED
      BY <3>1, <3>2, <3>3, Numbers DEF Indexes
  <2>2. Aside(t)
    BY <1>1, <1>2, <1>4 DEF Aside, FreeDoes, TypeOK
  <2> QED
    BY <1>3, <1>4, <2>1, <2>2 DEF IInv, Sound
<1>5. CASE ~overrun'
  <2> DEFINE G == Gone(t, n)
  <2>1. HeapInv(t)'
    BY <1>1, <1>2, <1>5, FreeKeepsHeap
  <2>2. /\ \A i \in Indexes : Block(t, i)' = IF i \in G THEN Null ELSE Block(t, i)
        /\ \A u \in Threads \ {t} : Same(u)
        /\ held' = held \ {Block(t, i) : i \in G \cap Indexes}
    BY <1>1, <1>2, <1>5, FreeBlocks
  <2>3. state'[t] = "ready" /\ base'[t] = base[t]
    BY <1>1, <1>2 DEF FreeDoes
  <2> HIDE DEF G
  <2>4. Mine(t) \subseteq held /\ Mine(t) = {Block(t, i) : i \in Indexes} \ {Null}
    BY <1>1 DEF SharedInv, Mine
  <2>5. Mine(t)' = {Block(t, i)' : i \in Indexes} \ {Null}
    BY <2>3 DEF Mine
  <2>6. \A i, j \in Indexes : Block(t, i) # Null /\ Block(t, i) = Block(t, j) => i = j
    BY <1>1 DEF SharedInv
  <2>7. Mine(t)' = Mine(t) \ {Block(t, i) : i \in G \cap Indexes}
    BY <2>2, <2>4, <2>5, <2>6
  <2>8. Null \notin held
    BY <1>1, Numbers DEF TypeOK
  <2>9. {Block(t, i) : i \in G \cap Indexes} \cap held \subseteq Mine(t)
    BY <2>4, <2>8
  <2>10. held' = (held \ Mine(t)) \cup Mine(t)' /\ Mine(t)' \cap (held \ Mine(t)) = {}
    BY <2>2, <2>4, <2>7, <2>9
  <2>11. \A i, j \in Indexes : Block(t, i)' # Null /\ Block(t, i)' = Block(t, j)' => i = j
    BY <2>2, <2>6
  <2>12. \A u \in Threads \ {t} : state[u] = "ready" => base'[t] # base[u]
    BY <1>1, <2>3 DEF SharedInv
  <2> QED
    BY <1>1, <1>3, <1>5, <2>1, <2>2, <2>10, <2>11, <2>12, StepKeeps
<1> QED
  BY <1>4, <1>5

-----------------------------------------------------------------------------
(* sheap_purge, and the invariant of every state. *)

\* The blocks of a heap are the first ones of its array.
LEMMA BlocksFromFirst ==
  ASSUME TypeOK, NEW t \in Threads, BlocksInv(t), NEW i \in Indexes, Block(t, i) # Null,
         NEW j \in Indexes, j <= i
  PROVE  Block(t, j) # Null
<1>1. Top(t) \in Nat /\ i \in Nat /\ j \in Nat /\ 0 \in Indexes /\ (chain[t] = <<>> => Top(t) = 0)
  BY TopFacts, Numbers DEF Indexes
<1>2. i <= Top(t) + 1 /\ Block(t, 0) # Null
  BY <1>1 DEF BlocksInv
<1>3. CASE j = i
  BY <1>3
<1>4. CASE j = 0
  BY <1>2, <1>4
<1>5. CASE j # i /\ j # 0
  <2>1. j <= Top(t) /\ chain[t] # <<>>
    BY <1>1, <1>2, <1>5
  <2> QED
    BY <2>1 DEF BlocksInv
<1> QED
  BY <1>3, <1>4, <1>5

\* sheap_purge stops at the first block that is missing: there is none behind it.
LEMMA PurgeTakesAll ==
  ASSUME TypeOK, NEW t \in Threads, state[t] = "ready", BlocksInv(t)
  PROVE  /\ Used(t) \subseteq Indexes
         /\ {mem[a] : a \in {base[t] + i : i \in Used(t)}} = Mine(t)
<1>1. \A i \in Indexes : i \in Used(t) <=> Block(t, i) # Null
  <2>1. ASSUME NEW i \in Indexes, Block(t, i) # Null, NEW j \in 0 .. i
        PROVE  Block(t, j) # Null
    <3>1. j \in Indexes /\ j <= i
      BY Numbers DEF Indexes
    <3> QED
      BY <2>1, <3>1, BlocksFromFirst
  <2>2. \A i \in Indexes : i \in 0 .. i
    BY DEF Indexes
  <2> QED
    BY <2>1, <2>2 DEF Used
<1>2. Used(t) \subseteq Indexes
  BY DEF Used
<1>3. Mine(t) = {Block(t, i) : i \in Used(t)}
  BY <1>1, <1>2 DEF Mine
<1> QED
  BY <1>2, <1>3 DEF Block

\* sheap_purge gives back all blocks of its heap and touches no other.
LEMMA PurgeKeeps ==
  ASSUME IInv, NEW t \in Threads, Purge(t)
  PROVE  IInv' /\ Aside(t) /\ overrun' = overrun
<1> DEFINE used == {base[t] + i : i \in Used(t)}
<1>1. TypeOK /\ SharedInv /\ HeapInv(t) /\ BlocksInv(t) /\ Sound /\ state[t] = "ready"
  <2>1. Sound /\ state[t] = "ready"
    BY DEF Purge, Ready
  <2>2. TypeOK /\ SharedInv /\ HeapInv(t)
    BY <2>1 DEF IInv
  <2> QED
    BY <2>1, <2>2 DEF HeapInv
<1>2. /\ state' = [state EXCEPT ![t] = "purged"]
      /\ mem' = [a \in DOMAIN mem |-> IF a \in used THEN Null ELSE mem[a]]
      /\ held' = held \ {mem[a] : a \in used}
      /\ live' = [live EXCEPT ![t] = {}]
      /\ cur' = [cur EXCEPT ![t] = Null]
      /\ chain' = [chain EXCEPT ![t] = <<>>]
      /\ base' = base /\ overrun' = overrun
  BY DEF Purge
<1>3. Used(t) \subseteq Indexes /\ {mem[a] : a \in used} = Mine(t)
  BY <1>1, PurgeTakesAll
<1>4. TypeOK'
  <2>1. chain' \in [Threads -> Seq(Chunk)]
    <3>1. <<>> \in Seq(Chunk)
      OBVIOUS
    <3> QED
      BY <1>1, <1>2, <3>1, TopFacts
  <2>2. /\ state' \in [Threads -> {"none", "ready", "purged", "crashed"}]
        /\ live' \in [Threads -> SUBSET [addr : Nat, size : Sizes]]
        /\ cur' \in [Threads -> Nat]
    BY <1>1, <1>2 DEF TypeOK, Null
  <2>3. mem' \in [0 .. MaxBlocks * ArrayCount + 1 -> BlockAddrs \cup {Null}]
    BY <1>1, <1>2 DEF TypeOK
  <2>4. held' \subseteq BlockAddrs
    BY <1>1, <1>2 DEF TypeOK
  <2> QED
    BY <1>1, <1>2, <2>1, <2>2, <2>3, <2>4 DEF TypeOK, Chunk
<1>5. state'[t] = "purged" /\ live'[t] = {}
  BY <1>1, <1>2 DEF TypeOK
<1>6. HeapInv(t)' /\ Mine(t)' = {}
  BY <1>5 DEF HeapInv, Mine
<1>7. ASSUME NEW u \in Threads \ {t} PROVE Same(u)
  <2>1. ASSUME NEW i \in Indexes, state[u] = "ready" PROVE Block(u, i)' = Block(u, i)
    <3>1. base[u] # base[t] /\ base[u] \in Arrays /\ base[t] \in Arrays
      BY <1>1, <2>1, Places DEF SharedInv
    <3>2. base[u] + i \notin used
      BY <1>3, <3>1, ArrayPlaces
    <3>3. i \in 0 .. MaxBlocks
      BY Numbers DEF Indexes
    <3>4. base[u] + i \in DOMAIN mem
      BY <1>1, <3>3, Places
    <3> QED
      BY <1>2, <3>2, <3>4 DEF Block
  <2> QED
    BY <1>1, <1>2, <2>1 DEF Same, TypeOK
<1>8. held' = (held \ Mine(t)) \cup Mine(t)' /\ Mine(t)' \cap (held \ Mine(t)) = {}
  BY <1>2, <1>3, <1>6
<1> QED
  BY <1>1, <1>2, <1>4, <1>5, <1>6, <1>7, <1>8, StepKeeps

\* Where nothing changes nothing is lost.
LEMMA StutterKeeps ==
  ASSUME IInv, UNCHANGED vars
  PROVE  IInv'
<1>1. TypeOK'
  BY DEF IInv, vars, TypeOK
<1>2. Sound' = Sound
  BY DEF vars, Sound
<1>3. ASSUME Sound PROVE SharedInv' /\ \A t \in Threads : HeapInv(t)'
  <2>1. TypeOK /\ SharedInv /\ \A t \in Threads : HeapInv(t)
    BY <1>3 DEF IInv
  <2>2. \A t \in Threads : Same(t)
    BY DEF vars, Same, Block
  <2>3. \A t \in Threads : HeapInv(t)' /\ Mine(t)' = Mine(t)
    BY <2>1, <2>2, SameKeeps
  <2>4. SharedInv'
    <3>1. \A t \in Threads : \A i \in Indexes : Block(t, i)' = Block(t, i)
      BY DEF vars, Block
    <3>2. state' = state /\ base' = base /\ held' = held
      BY DEF vars
    <3> QED
      BY <2>1, <2>3, <3>1, <3>2 DEF SharedInv
  <2> QED
    BY <2>3, <2>4
<1> QED
  BY <1>1, <1>2, <1>3 DEF IInv

\* A step keeps the invariant, and is a step of one heap.
LEMMA NextKeeps ==
  IInv /\ [Next]_vars =>
    /\ IInv'
    /\ \/ UNCHANGED vars
       \/ \E t \in Threads : Sound /\ Aside(t) /\ (overrun' => Top(t) = MaxBlocks - 1)
<1> SUFFICES ASSUME IInv, [Next]_vars
             PROVE  /\ IInv'
                    /\ \/ UNCHANGED vars
                       \/ \E t \in Threads : Sound /\ Aside(t) /\ (overrun' => Top(t) = MaxBlocks - 1)
  OBVIOUS
<1> DEFINE OfOne == \/ UNCHANGED vars
                    \/ \E t \in Threads : Sound /\ Aside(t) /\ (overrun' => Top(t) = MaxBlocks - 1)
<1>1. ASSUME UNCHANGED vars PROVE IInv' /\ OfOne
  BY <1>1, StutterKeeps
<1>2. ASSUME NEW t \in Threads, SheapInit(t) \/ SheapInitThroughNull(t) \/ GetThreadLocal(t)
      PROVE  IInv' /\ OfOne
  <2>1. Sound
    BY <1>2 DEF GetThreadLocal, SheapInit, SheapInitThroughNull
  <2>2. CASE SheapInit(t)
    BY <2>1, <2>2, InitKeeps DEF Sound
  <2>3. CASE SheapInitThroughNull(t)
    BY <2>1, <2>3, CrashKeeps DEF SheapInitThroughNull, Sound
  <2> QED
    BY <1>1, <1>2, <2>2, <2>3 DEF GetThreadLocal
<1>3. ASSUME NEW t \in Threads, NEW size \in Requests[t],
             \/ AllocHere(t, size) \/ AllocThroughNull(t, size)
             \/ AllocInNextBlock(t, size) \/ AllocFails(t, size)
      PROVE  IInv' /\ OfOne
  <2>1. size \in Sizes
    BY DEF Sizes
  <2>2. CASE AllocFails(t, size)
    BY <2>2, StutterKeeps DEF AllocFails
  <2>3. Sound
    BY <1>3 DEF AllocHere, AllocThroughNull, AllocInNextBlock, AllocFails, Ready
  <2>4. CASE AllocHere(t, size)
    BY <2>1, <2>3, <2>4, AllocHereKeeps DEF Sound
  <2>5. CASE AllocThroughNull(t, size)
    BY <2>3, <2>5, CrashKeeps DEF AllocThroughNull, Sound
  <2>6. CASE AllocInNextBlock(t, size)
    BY <2>1, <2>3, <2>6, AllocInNextBlockKeeps DEF Sound
  <2> QED
    BY <1>3, <2>2, <2>4, <2>5, <2>6
<1>4. ASSUME NEW t \in Threads, NEW k \in DOMAIN chain[t], Free(t, k) PROVE IInv' /\ OfOne
  <2>1. Sound
    BY <1>4 DEF Free, Ready
  <2> QED
    BY <1>4, <2>1, FreeKeeps
<1>5. ASSUME NEW t \in Threads, NEW k, FreeIgnored(t, k) PROVE IInv' /\ OfOne
  BY <1>5, StutterKeeps DEF FreeIgnored
<1>6. ASSUME NEW t \in Threads, Purge(t) PROVE IInv' /\ OfOne
  <2>1. Sound
    BY <1>6 DEF Purge, Ready
  <2> QED
    BY <1>6, <2>1, PurgeKeeps DEF Sound
<1> HIDE DEF OfOne
<1>7. IInv' /\ (UNCHANGED vars \/ OfOne)
  BY <1>1, <1>2, <1>3, <1>4, <1>5, <1>6 DEF Next
<1> QED
  BY <1>7 DEF OfOne

\* The invariant holds in every state, whatever the threads, the blocks and
\* the sizes the callers ask for.
THEOREM Invariance == Spec => []IInv
<1>1. Init => IInv
  BY StartsWell
<1>2. IInv /\ [Next]_vars => IInv'
  BY NextKeeps
<1> QED
  BY <1>1, <1>2, PTL DEF Spec

-----------------------------------------------------------------------------
(* What the invariant says of the heaps. *)

\* Every chunk on a list lies in a block that is there, and the chunks of a
\* block lie one behind the other: neither sheap_free nor a caller touches
\* memory the heap does not have.
THEOREM ChunksStayInBlocks == Spec => []ChunksInBlocks
<1>1. IInv => ChunksInBlocks
  <2>1. SUFFICES ASSUME IInv PROVE ChunksInBlocks
    OBVIOUS
  <2>2. ASSUME NEW t \in Threads, Ready(t), NEW k \in DOMAIN chain[t]
        PROVE  LET c == chain[t][k] IN
               /\ Block(t, c.index) \in held
               /\ Block(t, c.index) <= c.addr /\ ChunkEnd(c) <= Block(t, c.index) + BuffSize
               /\ c.addr % Align = 0
               /\ \A j \in 1 .. k - 1 :
                    /\ chain[t][j].index <= c.index
                    /\ chain[t][j].index = c.index => ChunkEnd(chain[t][j]) <= c.addr
    <3>1. TypeOK /\ SharedInv /\ HeapInv(t) /\ ChunksInv(t) /\ state[t] = "ready"
      BY <2>1, <2>2 DEF IInv, Ready, HeapInv
    <3>2. k \in 1 .. Len(chain[t])
      BY <2>2, <3>1, TopFacts, ListFacts
    <3>3. Mine(t) \subseteq held
      BY <3>1 DEF SharedInv
    <3>4. Block(t, chain[t][k].index) \in held /\ InBlock(t, chain[t][k])
      BY <3>1, <3>2, <3>3, ChunkHasBlock
    <3>5. \A j \in 1 .. k - 1 : Below(chain[t][j], chain[t][k])
      BY <3>1, <3>2 DEF ChunksInv
    <3> QED
      BY <3>4, <3>5 DEF InBlock, Below
  <2>3. TypeOK
    BY <2>1 DEF IInv
  <2> QED
    BY <2>2, <2>3 DEF ChunksInBlocks
<1> QED
  BY <1>1, Invariance, PTL

\* Places that hold different things are as many as the things.
LEMMA AsManyAsPlaces ==
  ASSUME NEW S, IsFiniteSet(S), NEW f, S \subseteq DOMAIN f,
         \A a, b \in S : f[a] = f[b] => a = b
  PROVE  Cardinality({f[a] : a \in S}) = Cardinality(S)
<1> DEFINE T == {f[a] : a \in S}
           g == [a \in S |-> f[a]]
<1>1. g \in Surjection(S, T)
  BY DEF Surjection
<1>2. g \in Injection(S, T)
  BY DEF Injection, IsInjective
<1> QED
  BY <1>1, <1>2, FS_Surjection

\* No block is lost: hr_malloc gave exactly what the arrays of the heaps in use
\* have, each block once, and a heap has its first blocks up to the one in use
\* and at most a spare one.
THEOREM BlocksAreNotLost == Spec => []NoBlockLost
<1>1. IInv => NoBlockLost
  <2> SUFFICES ASSUME IInv, Sound PROVE NoBlockLost
    BY DEF NoBlockLost
  <2> DEFINE there(t) == {i \in Indexes : Block(t, i) # Null}
             ready == {t \in Threads : state[t] = "ready"}
             slots == UNION {{base[t] + i : i \in there(t)} : t \in ready}
  <2>1. TypeOK /\ SharedInv /\ \A t \in Threads : HeapInv(t)
    BY DEF IInv
  <2>2. \A t \in ready : Mine(t) = {mem[a] : a \in {base[t] + i : i \in there(t)}}
    BY DEF Mine, Block
  <2>3. \A t \in Threads \ ready : Mine(t) = {}
    BY DEF Mine
  <2>4. held = UNION {Mine(t) : t \in ready}
    BY <2>1, <2>3 DEF SharedInv
  <2>5. held = {mem[a] : a \in slots}
    <3>1. ASSUME NEW h \in held PROVE h \in {mem[a] : a \in slots}
      <4>1. PICK t \in ready : h \in Mine(t)
        BY <2>4
      <4>2. PICK a \in {base[t] + i : i \in there(t)} : h = mem[a]
        BY <2>2, <4>1
      <4>3. a \in slots
        BY <4>2
      <4> QED
        BY <4>2, <4>3
    <3>2. ASSUME NEW a \in slots PROVE mem[a] \in held
      <4>1. PICK t \in ready : a \in {base[t] + i : i \in there(t)}
        OBVIOUS
      <4> QED
        BY <2>2, <2>4, <4>1
    <3> QED
      BY <3>1, <3>2
  <2>6. slots \subseteq DOMAIN mem
    <3>1. ASSUME NEW t \in ready, NEW i \in there(t) PROVE base[t] + i \in DOMAIN mem
      <4>1. i \in 0 .. MaxBlocks
        BY Numbers DEF Indexes
      <4> QED
        BY <2>1, <4>1, Places
    <3> QED
      BY <3>1
  <2>7. IsFiniteSet(slots)
    <3>1. DOMAIN mem = 0 .. MaxBlocks * ArrayCount + 1 /\ MaxBlocks * ArrayCount \in Nat
      BY <2>1, ArrayPlaces DEF TypeOK
    <3>2. IsFiniteSet(DOMAIN mem)
      BY <3>1, FS_Interval
    <3> QED
      BY <2>6, <3>2, FS_Subset
  <2>8. \A a, b \in slots : mem[a] = mem[b] => a = b
    <3>1. SUFFICES ASSUME NEW a \in slots, NEW b \in slots, mem[a] = mem[b] PROVE a = b
      OBVIOUS
    <3>2. PICK t \in ready : \E i \in there(t) : a = base[t] + i
      OBVIOUS
    <3>3. PICK i \in there(t) : a = base[t] + i
      BY <3>2
    <3>4. PICK u \in ready : \E j \in there(u) : b = base[u] + j
      OBVIOUS
    <3>5. PICK j \in there(u) : b = base[u] + j
      BY <3>4
    <3>6. Block(t, i) # Null /\ Block(t, i) = Block(u, j) /\ i \in Indexes /\ j \in Indexes
      BY <3>1, <3>3, <3>5 DEF Block
    <3>7. t = u /\ i = j
      BY <2>1, <3>6, OnePlace
    <3> QED
      BY <3>3, <3>5, <3>7
  <2> HIDE DEF slots
  <2>9. Cardinality(held) = Cardinality(slots)
    BY <2>5, <2>6, <2>7, <2>8, AsManyAsPlaces
  <2>10. ASSUME NEW t \in ready
         PROVE  \E i \in {Top(t) - 1, Top(t), Top(t) + 1} :
                  there(t) = 0 .. i /\ (i < Top(t) => chain[t] = <<>>)
    <3>1. BlocksInv(t) /\ Top(t) \in Indexes /\ Top(t) \in Nat /\ (chain[t] = <<>> => Top(t) = 0)
      BY <2>1, TopFacts DEF HeapInv
    <3>2. MaxBlocks \in Nat /\ 0 \in Indexes /\ Indexes = 0 .. MaxBlocks - 1
      BY Numbers DEF Indexes
    <3>3. \A i \in there(t) : i <= Top(t) + 1
      BY <3>1, <3>2 DEF BlocksInv
    <3>4. \A i \in there(t) : \A j \in 0 .. i : j \in there(t)
      <4>1. SUFFICES ASSUME NEW i \in there(t), NEW j \in 0 .. i PROVE j \in there(t)
        OBVIOUS
      <4>2. i \in Indexes /\ j \in Indexes /\ j <= i
        BY <3>2
      <4> QED
        BY <2>1, <3>1, <4>2, BlocksFromFirst
    <3>5. CASE Block(t, 0) = Null
      <4>1. there(t) = {} /\ chain[t] = <<>>
        BY <3>1, <3>2, <3>5 DEF BlocksInv
      <4>2. 0 .. Top(t) - 1 = {}
        BY <3>1, <4>1
      <4> QED
        BY <4>1, <4>2
    <3>6. CASE Block(t, 0) # Null /\ Top(t) + 1 \in there(t)
      <4>1. there(t) = 0 .. Top(t) + 1
        BY <3>1, <3>2, <3>3, <3>4, <3>6
      <4>2. ~(Top(t) + 1 < Top(t))
        BY <3>1
      <4> QED
        BY <4>1, <4>2
    <3>7. CASE Block(t, 0) # Null /\ Top(t) + 1 \notin there(t)
      <4>1. Top(t) \in there(t)
        BY <3>1, <3>2, <3>7 DEF BlocksInv
      <4>2. ASSUME NEW i \in there(t) PROVE i \in 0 .. Top(t)
        <5>1. i <= Top(t) + 1 /\ i # Top(t) + 1 /\ i \in Nat
          BY <3>2, <3>3, <3>7
        <5> QED
          BY <3>1, <5>1
      <4>3. there(t) = 0 .. Top(t)
        BY <3>4, <4>1, <4>2
      <4>4. ~(Top(t) < Top(t))
        BY <3>1
      <4> QED
        BY <4>3, <4>4
    <3> QED
      BY <3>5, <3>6, <3>7
  <2> QED
    BY <2>5, <2>9, <2>10 DEF NoBlockLost, slots
<1> QED
  BY <1>1, Invariance, PTL

\* The game owns exactly the chunks that are not marked, the top chunk is one
\* of them, and a heap of which all is freed is back at its start.
THEOREM TopStaysLive == Spec => []TopIsLive
<1>1. IInv => TopIsLive
  <2> SUFFICES ASSUME IInv, NEW t \in Threads, Ready(t)
               PROVE  LET c == chain[t] IN
                      /\ live[t] = {Region(c[k]) : k \in {j \in DOMAIN c : ~c[j].free}}
                      /\ c # <<>> => ~Last(c).free /\ cur[t] = ChunkEnd(Last(c))
                      /\ live[t] = {} => cur[t] = Block(t, 0) /\ \A i \in Indexes : i > 1 => Block(t, i) = Null
    BY DEF TopIsLive
  <2>1. TypeOK /\ BlocksInv(t) /\ TopInv(t) /\ OwnInv(t)
    BY DEF IInv, Ready, HeapInv
  <2>2. DOMAIN chain[t] = 1 .. Len(chain[t])
    BY <2>1, TopFacts, ListFacts
  <2>3. ASSUME live[t] = {} PROVE chain[t] = <<>>
    <3>1. ASSUME chain[t] # <<>> PROVE FALSE
      <4>1. Len(chain[t]) \in 1 .. Len(chain[t]) /\ Last(chain[t]) = chain[t][Len(chain[t])]
        BY <2>1, <3>1, TopFacts, ListFacts
      <4>2. Region(chain[t][Len(chain[t])]) \in live[t]
        BY <2>1, <3>1, <4>1 DEF TopInv, OwnInv
      <4> QED
        BY <2>3, <4>2
    <3> QED
      BY <3>1
  <2>4. ASSUME live[t] = {}
        PROVE  cur[t] = Block(t, 0) /\ \A i \in Indexes : i > 1 => Block(t, i) = Null
    <3>1. chain[t] = <<>> /\ Top(t) = 0
      BY <2>1, <2>3, <2>4, TopFacts
    <3> QED
      BY <2>1, <3>1 DEF TopInv, BlocksInv
  <2> QED
    BY <2>1, <2>2, <2>4 DEF TopInv, OwnInv
<1> QED
  BY <1>1, Invariance, PTL

\* A step of one heap neither changes another's array nor takes its blocks,
\* unless it frees from the last block of its own.
THEOREM NeighboursStayUndisturbed == Spec => NeighboursUndisturbed
<1>1. IInv /\ [Next]_vars =>
        \/ UNCHANGED vars
        \/ \A t, u \in Threads :
             t # u /\ state[u] = "ready" /\ (cur'[t] # cur[t] \/ state'[t] # state[t])
               /\ Top(t) < MaxBlocks - 1
             => \A i \in Indexes : /\ Block(u, i)' = Block(u, i)
                                   /\ Block(u, i) \in held => Block(u, i) \in held'
  <2> SUFFICES ASSUME IInv, [Next]_vars, ~UNCHANGED vars,
                      NEW t \in Threads, NEW u \in Threads,
                      t # u, state[u] = "ready", cur'[t] # cur[t] \/ state'[t] # state[t],
                      Top(t) < MaxBlocks - 1,
                      NEW i \in Indexes
               PROVE  /\ Block(u, i)' = Block(u, i)
                      /\ Block(u, i) \in held => Block(u, i) \in held'
    OBVIOUS
  <2>1. PICK v \in Threads : Sound /\ Aside(v) /\ (overrun' => Top(v) = MaxBlocks - 1)
    BY NextKeeps
  <2>2. v = t
    BY <2>1 DEF Aside
  <2>3. TypeOK
    BY DEF IInv
  <2>4. ~overrun'
    <3>1. Top(t) \in Nat /\ MaxBlocks \in Nat
      BY <2>3, TopFacts, Numbers
    <3> QED
      BY <2>1, <2>2, <3>1
  <2>5. Same(u) /\ Mine(u) \subseteq held'
    BY <2>1, <2>2, <2>4 DEF Aside
  <2>6. Null \notin held
    BY <2>3, Numbers DEF TypeOK
  <2> QED
    BY <2>5, <2>6 DEF Same, Mine
<1> QED
  BY <1>1, Invariance, PTL DEF Spec, NeighboursUndisturbed

-----------------------------------------------------------------------------
(* The heaps implement the abstract allocator. *)

Regs == UNION {live[t] : t \in Threads}

\* What is handed out is aligned, of a size that was asked for, and in a block.
AllRegions ==
  \A t \in Threads : state[t] = "ready" =>
    \A k \in 1 .. Len(chain[t]) : Region(chain[t][k]) \in Abstract!Regions

\* What a chunk offers the game is a region of the abstract allocator.
LEMMA ChunksAreRegions == IInv /\ Sound => AllRegions
<1> SUFFICES ASSUME IInv, Sound, NEW t \in Threads, state[t] = "ready", NEW k \in 1 .. Len(chain[t])
             PROVE  Region(chain[t][k]) \in Abstract!Regions
  BY DEF AllRegions
<1> DEFINE c == chain[t][k]
           a == Block(t, c.index)
           b == c.addr + HdrSize
<1>1. TypeOK /\ HeapInv(t)
  BY DEF IInv
<1>2. c \in Chunk /\ InBlock(t, c) /\ a \in BlockAddrs
  BY <1>1, ChunkHasBlock
<1>3. /\ c.addr \in Nat /\ c.size \in Sizes /\ c.size \in Nat /\ c.size > 0
      /\ ChunkEnd(c) = c.addr + HdrSize + c.size
  BY <1>2, ChunkFacts DEF ChunkEnd
<1>4. a <= c.addr /\ ChunkEnd(c) <= a + BuffSize /\ c.addr % Align = 0
  BY <1>2 DEF InBlock
<1>5. b % Align = 0
  BY <1>3, <1>4, AlignedBehindHeader
<1>6. a \in Nat
  BY <1>2, Numbers
<1>7. b \in a .. a + BuffSize - 1
  <2> DEFINE ca == c.addr
             cs == c.size
  <2>1. ca \in Nat /\ cs \in Nat /\ cs > 0 /\ a <= ca /\ ca + HdrSize + cs <= a + BuffSize
        /\ b = ca + HdrSize
    BY <1>3, <1>4
  <2> HIDE DEF ca, cs, a, b
  <2> QED
    BY <1>6, <2>1, Numbers
<1>8. b \in Aligned
  BY <1>2, <1>5, <1>7 DEF Aligned
<1> QED
  BY <1>3, <1>8 DEF Region, Abstract!Regions

\* An allocation grants a region that overlaps none.
LEMMA PushGrants ==
  ASSUME IInv, Sound, IInv', Sound', NEW t \in Threads, state[t] = "ready", state' = state,
         NEW i, NEW at, NEW size, Push(t, i, at, size)
  PROVE  \E r \in Abstract!Regions : Abstract!Grant(r)
<1> DEFINE q == chain[t]
           n == Len(q)
           hdr == [addr |-> RoundUp(at), index |-> IndexOf(t, i), size |-> size, free |-> FALSE]
           r == Region(hdr)
<1>1. TypeOK /\ q \in Seq(Chunk) /\ n \in Nat /\ HeapInv(t)
  BY TopFacts, ListFacts DEF IInv
<1>2. /\ chain' = [chain EXCEPT ![t] = Append(q, hdr)]
      /\ live' = [live EXCEPT ![t] = live[t] \cup {r}]
  BY DEF Push
<1> HIDE DEF hdr
<1>3. chain'[t] = Append(q, hdr) /\ \A u \in Threads \ {t} : chain'[u] = chain[u]
  BY <1>1, <1>2 DEF TypeOK
<1>4. Len(chain'[t]) = n + 1 /\ chain'[t][n + 1] = hdr /\ \A k \in 1 .. n : chain'[t][k] = q[k]
  BY <1>1, <1>3
<1>5. n + 1 \in 1 .. Len(chain'[t]) /\ hdr \in Chunk
  <2>1. (chain \in [Threads -> Seq(Chunk)])'
    BY DEF IInv, TypeOK, Chunk
  <2>2. chain'[t] \in Seq(Chunk)
    BY <2>1
  <2>3. n + 1 \in 1 .. Len(chain'[t])
    BY <1>1, <1>4
  <2> QED
    BY <1>4, <2>2, <2>3, ListFacts
<1>6. AllRegions' /\ AllApart'
  <2>1. (IInv /\ Sound => AllRegions)'
    BY ChunksAreRegions, PTL
  <2>2. (IInv /\ Sound => AllApart)'
    BY ChunksApart, PTL
  <2> QED
    BY <2>1, <2>2
<1>7. r \in Abstract!Regions
  <2>1. \A k \in 1 .. Len(chain'[t]) : Region(chain'[t][k]) \in Abstract!Regions
    BY <1>6 DEF AllRegions, Region
  <2> QED
    BY <1>4, <1>5, <2>1
<1>8. ASSUME NEW s \in Regs PROVE Abstract!Disjoint(r, s)
  <2>1. PICK u \in Threads : s \in live[u]
    BY DEF Regs
  <2>2. HeapInv(u) /\ state[u] = "ready"
    BY <2>1 DEF IInv, HeapInv
  <2>3. PICK j \in 1 .. Len(chain[u]) : s = Region(chain[u][j])
    BY <2>1, <2>2 DEF HeapInv, OwnInv
  <2>4. chain[u][j] \in Chunk
    BY <1>1, TopFacts, ListFacts
  <2>5. j \in 1 .. Len(chain'[u]) /\ chain'[u][j] = chain[u][j] /\ (u = t => j # n + 1)
    BY <1>1, <1>3, <1>4
  <2>6. DisjointChunks(chain'[t][n + 1], chain'[u][j])
    BY <1>5, <1>6, <2>2, <2>5 DEF AllApart, DisjointChunks, ChunkEnd
  <2>7. DisjointChunks(hdr, chain[u][j])
    BY <1>4, <2>5, <2>6
  <2> QED
    BY <1>5, <2>3, <2>4, <2>7, RegionsDiffer
<1>9. Regs' = Regs \cup {r}
  <2>1. \A u \in Threads : live'[u] = IF u = t THEN live[t] \cup {r} ELSE live[u]
    BY <1>1, <1>2 DEF TypeOK
  <2> HIDE DEF r
  <2> QED
    BY <2>1 DEF Regs
<1> QED
  BY <1>7, <1>8, <1>9 DEF Abstract!Grant, Regs

\* A free takes back the region of its chunk from the one heap that has it.
LEMMA FreeReleases ==
  ASSUME IInv, NEW t \in Threads, NEW k \in DOMAIN chain[t], Free(t, k)
  PROVE  \E r \in Abstract!Regions : Abstract!Release(r)
<1> DEFINE r == Region(chain[t][k])
<1>1. Sound /\ state[t] = "ready" /\ ~chain[t][k].free /\ live' = [live EXCEPT ![t] = live[t] \ {r}]
  BY DEF Free, Ready
<1>2. TypeOK /\ HeapInv(t) /\ k \in 1 .. Len(chain[t]) /\ chain[t][k] \in Chunk
  <2>1. TypeOK /\ HeapInv(t)
    BY <1>1 DEF IInv
  <2> QED
    BY <2>1, TopFacts, ListFacts
<1>3. r \in live[t] /\ r \in Abstract!Regions
  BY <1>1, <1>2, ChunksAreRegions DEF HeapInv, OwnInv, AllRegions
<1>4. ASSUME NEW u \in Threads \ {t} PROVE r \notin live[u]
  <2>1. SUFFICES ASSUME r \in live[u] PROVE FALSE
    OBVIOUS
  <2>2. HeapInv(u) /\ state[u] = "ready"
    BY <1>1, <2>1 DEF IInv, HeapInv
  <2>3. PICK j \in 1 .. Len(chain[u]) : r = Region(chain[u][j])
    BY <2>1, <2>2 DEF HeapInv, OwnInv
  <2>4. chain[u][j] \in Chunk
    BY <1>2, TopFacts, ListFacts
  <2>5. DisjointChunks(chain[t][k], chain[u][j])
    BY <1>1, <1>2, <2>2, ChunksApart DEF AllApart
  <2> QED
    BY <1>2, <2>3, <2>4, <2>5, RegionsDiffer
<1>5. Regs' = Regs \ {r} /\ r \in Regs
  <2>1. \A u \in Threads : live'[u] = IF u = t THEN live[t] \ {r} ELSE live[u]
    BY <1>1, <1>2 DEF TypeOK
  <2> HIDE DEF r
  <2> QED
    BY <1>3, <1>4, <2>1 DEF Regs
<1> QED
  BY <1>3, <1>5 DEF Abstract!Release, Regs

\* The heaps together implement the abstract allocator: what they hand out
\* never overlaps, and only what was handed out is taken back; a purge takes
\* back all of one heap.
THEOREM Implementation == Spec => ImplementsAllocator
<1> DEFINE Purged == \E t \in Threads : live' = [live EXCEPT ![t] = {}]
<1>1. Init => Abstract!Init
  BY DEF Init, Abstract!Init
<1>2. IInv /\ IInv' /\ [Next]_vars
        => [Abstract!Next \/ \E t \in Threads : live' = [live EXCEPT ![t] = {}]]_live
  <2> SUFFICES ASSUME IInv, IInv', [Next]_vars
               PROVE  Abstract!Next \/ Purged \/ live' = live
    BY Zenon
  <2>1. CASE UNCHANGED vars
    BY <2>1 DEF vars
  <2>2. ASSUME NEW t \in Threads, SheapInit(t) \/ SheapInitThroughNull(t) \/ GetThreadLocal(t)
        PROVE  live' = live
    BY <2>2 DEF SheapInit, SheapInitThroughNull, GetThreadLocal, vars
  <2>3. ASSUME NEW t \in Threads, NEW size \in Requests[t], AllocHere(t, size) \/ AllocInNextBlock(t, size)
        PROVE  Abstract!Next
    <3>1. /\ Sound /\ state[t] = "ready" /\ state' = state /\ overrun' = overrun
          /\ \E i, at : Push(t, i, at, size)
      BY <2>3 DEF AllocHere, AllocInNextBlock, Ready
    <3>2. Sound'
      BY <3>1 DEF Sound
    <3> QED
      BY <3>1, <3>2, PushGrants DEF Abstract!Next
  <2>4. ASSUME NEW t \in Threads, NEW size \in Requests[t], AllocThroughNull(t, size) \/ AllocFails(t, size)
        PROVE  live' = live
    BY <2>4 DEF AllocThroughNull, AllocFails, vars
  <2>5. ASSUME NEW t \in Threads, NEW k \in DOMAIN chain[t], Free(t, k) PROVE Abstract!Next
    BY <2>5, FreeReleases DEF Abstract!Next
  <2>6. ASSUME NEW t \in Threads, NEW k, FreeIgnored(t, k) PROVE live' = live
    BY <2>6 DEF FreeIgnored, vars
  <2>7. ASSUME NEW t \in Threads, Purge(t) PROVE Purged
    BY <2>7 DEF Purge
  <2> HIDE DEF Purged
  <2> QED
    BY <2>1, <2>2, <2>3, <2>4, <2>5, <2>6, <2>7 DEF Next
<1> QED
  BY <1>1, <1>2, Invariance, PTL DEF Spec, ImplementsAllocator
================================================================================
