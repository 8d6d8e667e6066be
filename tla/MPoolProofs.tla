---------------------------- MODULE MPoolProofs ----------------------------
(***************************************************************************)
(* One pool is right for any threads, item size and number of blocks, and  *)
(* whatever stale frees the game makes.                                    *)
(*                                                                         *)
(* The free list is described without recursion: every cell on it has a    *)
(* rank, its successor the next lower one, and the sentinel rank 0 (Chain).*)
(* The inductive invariant IInv adds to it what each thread holds at each  *)
(* place of its call, and that a usable cell without a successor is owned  *)
(* or on its way back.                                                     *)
(***************************************************************************)
EXTENDS MPool, FiniteSetTheorems, NaturalsInduction, TLAPS

\* Arithmetic the solver needs to be told: products grow with a factor.
LEMMA MulMono ==
  ASSUME NEW a \in Nat, NEW b \in Nat, NEW k \in Nat, a <= b
  PROVE  a * k <= b * k
  BY SMT

\* A smaller factor leaves room for one more item.
LEMMA MulSucc ==
  ASSUME NEW a \in Nat, NEW b \in Nat, NEW k \in Nat, a < b
  PROVE  a * k + k <= b * k
<1>1. (a + 1) * k <= b * k
  BY MulMono
<1>2. QED
  BY <1>1

\* Dividing by the item size undoes the multiplication.
LEMMA DivExact ==
  ASSUME NEW c \in Nat, NEW k \in Nat \ {0}
  PROVE  (c * k) \div k = c
  BY SMT

\* What mpool_init computes for a block: two cells at least, all inside of it.
LEMMA CellsPerBlockFacts ==
  /\ CellsPerBlock \in Nat
  /\ CellsPerBlock >= 2
  /\ CellsPerBlock * ItemSize <= BlockSize
<1> DEFINE q == BlockSize \div ItemSize
<1>1. q \in Int /\ q * ItemSize <= BlockSize /\ BlockSize < (q + 1) * ItemSize
  BY MPoolAssumption, SMT
<1> QED
  BY <1>1, MPoolAssumption, SMT DEF CellsPerBlock

\* A block that is about to be committed lies inside of free_cells, and its
\* cells but the first become usable; none of them was before.
LEMMA NewBlockFacts ==
  ASSUME NEW n \in 0 .. BlockCount - 1
  PROVE  LET bank == n * CellsPerBlock
             last == bank + CellsPerBlock - 1 IN
         /\ bank \in Cells /\ last \in Cells
         /\ bank \in Nat /\ last \in Nat
         /\ bank < last
         /\ (n + 1) * CellsPerBlock = last + 1
         /\ bank \in FirstCells
         /\ \A c \in bank + 1 .. last : c \in Cells /\ c \notin FirstCells
<1> DEFINE bank == n * CellsPerBlock
           last == bank + CellsPerBlock - 1
<1>1. n \in Nat /\ n + 1 \in Nat /\ n + 1 <= BlockCount /\ BlockCount \in Nat
  BY MPoolAssumption
<1>2. CellsPerBlock \in Nat /\ CellsPerBlock >= 2
  BY CellsPerBlockFacts
<1>3. bank \in Nat /\ last \in Nat /\ bank < last
  BY <1>1, <1>2
<1>4. (n + 1) * CellsPerBlock = last + 1
  BY <1>1, <1>2
<1>5. last + 1 <= MaxCellCount
  BY <1>1, <1>2, <1>4, MulMono DEF MaxCellCount
<1>6. MaxCellCount \in Nat
  BY <1>1, <1>2 DEF MaxCellCount
<1>7. \A c \in bank + 1 .. last : c \in Cells
  BY <1>3, <1>5, <1>6 DEF Cells
<1>8. ASSUME NEW c \in bank + 1 .. last
      PROVE  c \notin FirstCells
  <2> SUFFICES ASSUME NEW b \in 0 .. BlockCount - 1, c = b * CellsPerBlock
               PROVE  FALSE
    BY DEF FirstCells
  <2>1. CASE b <= n
    <3>1. b * CellsPerBlock <= bank
      BY <1>1, <1>2, <2>1, MulMono
    <3>2. QED
      BY <3>1, <1>3
  <2>2. CASE n + 1 <= b
    <3>1. (n + 1) * CellsPerBlock <= b * CellsPerBlock
      BY <1>1, <1>2, <2>2, MulMono
    <3>2. QED
      BY <3>1, <1>3, <1>4
  <2>3. QED
    BY <2>1, <2>2, <1>1
<1>9. bank \in Cells /\ last \in Cells
  BY <1>3, <1>5, <1>6 DEF Cells
<1>10. bank \in FirstCells
  BY DEF FirstCells
<1>11. QED
  BY <1>3, <1>4, <1>7, <1>8, <1>9, <1>10

\* Items and cells correspond one to one.
LEMMA RoundTrip ==
  ASSUME NEW c \in Cells
  PROVE  RealToFreePtr(FreePtrToReal(c)) = c
<1>1. c \in Nat /\ ItemSize \in Nat \ {0} /\ Bgn \in Nat
  BY MPoolAssumption DEF Cells
<1>2. (Bgn + c * ItemSize) - Bgn = c * ItemSize
  BY <1>1
<1>3. QED
  BY <1>1, <1>2, DivExact DEF RealToFreePtr, FreePtrToReal

-----------------------------------------------------------------------------
(* Chains: what a well-formed free list is, without recursion.  The rank   *)
(* of a cell is its distance from the end of the list.                     *)

Ranks(r, S, nx, head, last) ==
  /\ r[last] = 0
  /\ \A c \in S : r[c] <= r[head]
  /\ \A c \in S \ {last} : nx[c] \in S /\ r[c] = r[nx[c]] + 1
  /\ \A c, d \in S : r[c] = r[d] => c = d

Chain(S, nx, head, last) ==
  /\ head \in S /\ last \in S /\ S \subseteq Cells
  /\ \E r \in [Cells -> Nat] : Ranks(r, S, nx, head, last)

\* Popping the head of a list leaves a list.
LEMMA ChainPop ==
  ASSUME NEW S, NEW nx, NEW h \in S, NEW l, h # l, Chain(S, nx, h, l)
  PROVE  Chain(S \ {h}, nx, nx[h], l)
<1>1. PICK r \in [Cells -> Nat] : Ranks(r, S, nx, h, l)
  BY DEF Chain
<1>2. S \subseteq Cells /\ l \in S /\ \A c \in S : r[c] \in Nat
  BY <1>1 DEF Chain
<1>3. nx[h] \in S /\ r[h] = r[nx[h]] + 1
  BY <1>1 DEF Ranks
<1>4. nx[h] \in S \ {h}
  BY <1>2, <1>3
<1>5. \A c \in S \ {h} : r[c] <= r[nx[h]]
  <2> TAKE c \in S \ {h}
  <2>1. r[c] <= r[h] /\ r[c] # r[h]
    BY <1>1 DEF Ranks
  <2> QED
    BY <2>1, <1>2, <1>3
<1>6. \A c \in (S \ {h}) \ {l} : nx[c] \in S \ {h} /\ r[c] = r[nx[c]] + 1
  <2> TAKE c \in (S \ {h}) \ {l}
  <2>1. nx[c] \in S /\ r[c] = r[nx[c]] + 1 /\ r[c] <= r[h]
    BY <1>1 DEF Ranks
  <2> QED
    BY <2>1, <1>2
<1>7. Ranks(r, S \ {h}, nx, nx[h], l)
  BY <1>1, <1>5, <1>6 DEF Ranks
<1> QED
  BY <1>2, <1>4, <1>7 DEF Chain

\* Pushing a new cell that points to the head makes a list.
LEMMA ChainPush ==
  ASSUME NEW S, NEW nx, NEW h, NEW l, NEW k \in Cells,
         Chain(S, nx, h, l), k \notin S, nx[k] = h
  PROVE  Chain(S \cup {k}, nx, k, l)
<1>1. PICK r \in [Cells -> Nat] : Ranks(r, S, nx, h, l)
  BY DEF Chain
<1>2. S \subseteq Cells /\ l \in S /\ h \in S /\ \A c \in S : r[c] \in Nat
  BY <1>1 DEF Chain
<1> DEFINE q == [r EXCEPT ![k] = r[h] + 1]
<1>3. q \in [Cells -> Nat] /\ q[k] = r[h] + 1 /\ \A c \in S : q[c] = r[c]
  BY <1>2
<1>4. q[l] = 0
  BY <1>1, <1>2, <1>3 DEF Ranks
<1>5. \A c \in S \cup {k} : q[c] <= q[k]
  <2> HIDE DEF q
  <2> QED
    BY <1>1, <1>2, <1>3 DEF Ranks
<1>6. \A c \in (S \cup {k}) \ {l} : nx[c] \in S \cup {k} /\ q[c] = q[nx[c]] + 1
  <2> HIDE DEF q
  <2> QED
    BY <1>1, <1>2, <1>3 DEF Ranks
<1>7. \A c, d \in S \cup {k} : q[c] = q[d] => c = d
  <2> HIDE DEF q
  <2>1. \A c \in S : q[c] # q[k]
    BY <1>1, <1>2, <1>3 DEF Ranks
  <2> QED
    BY <2>1, <1>1, <1>3 DEF Ranks
<1>8. Ranks(q, S \cup {k}, nx, k, l)
  <2> HIDE DEF q
  <2> QED
    BY <1>4, <1>5, <1>6, <1>7 DEF Ranks
<1> QED
  BY <1>2, <1>3, <1>8 DEF Chain

\* A list depends on the successors of its own cells only, the last excepted.
LEMMA ChainAgree ==
  ASSUME NEW S, NEW nx, NEW ny, NEW h, NEW l, Chain(S, nx, h, l),
         \A c \in S \ {l} : ny[c] = nx[c]
  PROVE  Chain(S, ny, h, l)
<1>1. PICK r \in [Cells -> Nat] : Ranks(r, S, nx, h, l)
  BY DEF Chain
<1>2. Ranks(r, S, ny, h, l)
  BY <1>1 DEF Ranks
<1> QED
  BY <1>2 DEF Chain

\* When the head is the last cell there is no other.
LEMMA ChainEmpty ==
  ASSUME NEW S, NEW nx, NEW l, Chain(S, nx, l, l)
  PROVE  S = {l}
<1>1. PICK r \in [Cells -> Nat] : Ranks(r, S, nx, l, l)
  BY DEF Chain
<1>2. S \subseteq Cells /\ l \in S /\ \A c \in S : r[c] \in Nat
  BY <1>1 DEF Chain
<1>3. \A c \in S : r[c] = r[l]
  BY <1>1, <1>2 DEF Ranks
<1> QED
  BY <1>1, <1>2, <1>3 DEF Ranks

\* The cells of a block, each pointing to the one below, are a list.
LEMMA ChainBlock ==
  ASSUME NEW a \in Nat, NEW b \in Nat, a <= b, a .. b \subseteq Cells, NEW nx,
         \A c \in a .. b : c # a => nx[c] = c - 1
  PROVE  Chain(a .. b, nx, b, a)
<1> DEFINE r == [c \in Cells |-> IF c < a THEN 0 ELSE c - a]
<1>1. Cells \subseteq Nat
  <2>1. CellsPerBlock \in Nat /\ BlockCount \in Nat
    BY CellsPerBlockFacts, MPoolAssumption
  <2> QED
    BY <2>1 DEF Cells
<1>2. r \in [Cells -> Nat]
  BY <1>1
<1>3. \A c \in a .. b : r[c] = c - a
  BY <1>1
<1>4. Ranks(r, a .. b, nx, b, a)
  <2> HIDE DEF r
  <2>1. a \in a .. b /\ b \in a .. b
    OBVIOUS
  <2>2. \A c \in (a .. b) \ {a} : nx[c] = c - 1 /\ c - 1 \in a .. b
    OBVIOUS
  <2>3. \A c \in (a .. b) \ {a} : nx[c] \in a .. b /\ r[c] = r[nx[c]] + 1
    BY <2>2, <1>3
  <2>4. \A c, d \in a .. b : r[c] = r[d] => c = d
    BY <1>3
  <2>5. r[a] = 0 /\ \A c \in a .. b : r[c] <= r[b]
    BY <2>1, <1>3
  <2> QED
    BY <2>3, <2>4, <2>5 DEF Ranks
<1> QED
  BY <1>2, <1>4 DEF Chain

-----------------------------------------------------------------------------
(* The inductive invariant. *)

Holding == {"m_pop", "m_unlock", "m_clear",
            "f_lock", "f_test", "f_link", "f_push", "f_unlock"}
Gripping == {"m_unlock", "m_clear", "f_push"}

\* The game knows addresses of usable items only.
AddrInv ==
  /\ live \subseteq issued
  /\ issued \subseteq {FreePtrToReal(c) : c \in Usable}

\* Only usable cells are worked on, and only they have a successor.
CellInv ==
  /\ \A t \in Threads : pc[t] \in Holding => cell[t] \in Usable
  /\ \A c \in Cells : next[c] # Null => c \in Usable

\* What a thread knows at each place of the two functions.
PcInv ==
  \A t \in Threads :
    /\ pc[t] = "m_setup" => next[next_free] = Null /\ cur < BlockCount
    /\ pc[t] = "m_fail" => next[next_free] = Null /\ cur = BlockCount
    /\ pc[t] \in {"m_read", "m_pop"} => next[next_free] # Null
    /\ pc[t] = "m_pop" => cell[t] = next_free
    /\ pc[t] \in {"m_unlock", "m_clear"} => next[cell[t]] # Null
    /\ pc[t] = "f_link" => next[cell[t]] = Null
    /\ pc[t] = "f_push" => next[cell[t]] = next_free

\* No two threads have the same cell off the list.
GripInv ==
  \A t, u \in Threads :
    pc[t] \in Gripping /\ pc[u] \in Gripping /\ cell[t] = cell[u] => t = u

ListInv == Chain(FreeCells, next, next_free, Sentinel)

\* A usable cell without a successor is the game's, or on its way back.
NullInv == \A c \in Usable : next[c] = Null => c \in Owned \cup Returning

\* Until a stale free takes effect, the cells of live items have no successor.
OwnInv ==
  /\ ~wild => \A c \in Owned : next[c] = Null
  /\ \A t \in Threads : pc[t] = "f_link" /\ cell[t] \in Owned => wild

IInv ==
  /\ TypeOK
  /\ MutualExclusion
  /\ AddrInv
  /\ CellInv
  /\ PcInv
  /\ GripInv
  /\ ListInv
  /\ NullInv
  /\ OwnInv

-----------------------------------------------------------------------------
(* What the invariant says of the sets it is written with. *)

\* Cells are numbers, and the sentinel is a cell but never usable.
LEMMA UsableFacts ==
  ASSUME TypeOK
  PROVE  /\ Cells \subseteq Nat /\ Null \notin Cells
         /\ Usable \subseteq Cells
         /\ Sentinel \in Cells /\ Sentinel \notin Usable
<1>1. CellsPerBlock \in Nat /\ CellsPerBlock >= 2
  BY CellsPerBlockFacts
<1>2. BlockCount \in Nat \ {0} /\ cur \in 0 .. BlockCount /\ cur \in Nat
  BY MPoolAssumption DEF TypeOK
<1>3. Cells \subseteq Nat /\ Null \notin Cells
  BY <1>1, <1>2 DEF Cells, Null
<1>4. cur * CellsPerBlock <= MaxCellCount
  BY <1>1, <1>2, MulMono DEF MaxCellCount
<1>5. cur * CellsPerBlock \in Nat /\ MaxCellCount \in Nat
  BY <1>1, <1>2 DEF MaxCellCount
<1>6. Usable \subseteq Cells
  BY <1>4, <1>5 DEF Usable, Cells
<1>7. CASE cur = 0
  <2>1. 0 * CellsPerBlock \in Cells /\ 0 * CellsPerBlock \in FirstCells
    BY <1>2, NewBlockFacts
  <2> QED
    BY <2>1, <1>1, <1>3, <1>6, <1>7 DEF Sentinel, Usable
<1>8. CASE cur # 0
  <2>1. cur - 1 \in 0 .. BlockCount - 1
    BY <1>2, <1>8
  <2> QED
    BY <2>1, NewBlockFacts, <1>3, <1>6, <1>8 DEF Sentinel, Usable
<1> QED
  BY <1>7, <1>8

\* Owned cells and live addresses are the same thing.
LEMMA OwnedFacts ==
  ASSUME TypeOK
  PROVE  \A c : c \in Owned <=> c \in Cells /\ FreePtrToReal(c) \in live
<1>1. \A a \in live : \E c \in Cells : a = FreePtrToReal(c)
  BY DEF TypeOK, Addresses
<1> QED
  BY <1>1, RoundTrip DEF Owned

\* An address the game knows is that of a usable item.
LEMMA IssuedFacts ==
  ASSUME TypeOK, AddrInv
  PROVE  /\ \A a \in issued : RealToFreePtr(a) \in Usable
         /\ \A c \in Owned : c \in Usable
<1>1. ASSUME NEW a \in issued
      PROVE  RealToFreePtr(a) \in Usable
  <2>1. PICK c \in Usable : a = FreePtrToReal(c)
    BY DEF AddrInv
  <2> QED
    BY <2>1, RoundTrip, UsableFacts
<1> QED
  BY <1>1 DEF AddrInv, Owned

\* A cell in a thread's hands is usable and has a successor.
LEMMA InHandFacts ==
  ASSUME TypeOK, CellInv, PcInv
  PROVE  \A c \in InHand : c \in Usable /\ next[c] # Null
<1> TAKE k \in InHand
<1>1. PICK t \in Threads : /\ pc[t] \in {"m_unlock", "m_clear", "f_push"}
                           /\ k = cell[t]
  BY DEF InHand, Popped
<1>2. k \in Usable
  BY <1>1 DEF CellInv, Holding
<1>3. next[k] # Null
  BY <1>1, UsableFacts DEF PcInv, TypeOK
<1> QED
  BY <1>2, <1>3

\* The free list is used up exactly when its head is the sentinel.
LEMMA ListFacts ==
  ASSUME IInv
  PROVE  /\ next[Sentinel] = Null
         /\ Sentinel \in FreeCells
         /\ next_free \in FreeCells
         /\ next[next_free] = Null <=> next_free = Sentinel
<1> USE DEF IInv
<1>1. next[Sentinel] = Null
  BY UsableFacts DEF CellInv
<1>2. next_free \in FreeCells /\ Sentinel \in FreeCells
  BY DEF ListInv, Chain
<1> QED
  BY <1>1, <1>2 DEF FreeCells

\* Steps that leave the pool's lists and the hands of the threads alone.
LEMMA Frame ==
  ASSUME IInv, UNCHANGED <<next, next_free, cur>>, InHand' = InHand
  PROVE  /\ Usable' = Usable /\ Sentinel' = Sentinel
         /\ FreeCells' = FreeCells
         /\ ListInv'
<1>1. Usable' = Usable /\ Sentinel' = Sentinel
  BY DEF Usable, Sentinel
<1>2. FreeCells' = FreeCells
  BY <1>1 DEF FreeCells
<1> QED
  BY <1>1, <1>2 DEF IInv, ListInv

-----------------------------------------------------------------------------
(* One lemma per action: it preserves the invariant. *)

\* Entering mpool_malloc touches nothing of the pool.
LEMMA MallocStep ==
  ASSUME IInv, NEW t \in Threads, Malloc(t)
  PROVE  IInv'
<1> USE DEF IInv
<1>1. InHand' = InHand
  BY DEF Malloc, Goto, poolVars, InHand, Popped, TypeOK
<1>2. /\ UNCHANGED <<next, next_free, cur>>
      /\ Usable' = Usable /\ Sentinel' = Sentinel /\ FreeCells' = FreeCells
      /\ ListInv'
  BY <1>1, Frame DEF Malloc, Goto, poolVars
<1>3. TypeOK'
  BY UsableFacts DEF Malloc, Goto, poolVars, TypeOK, Labels, Waiting, Inside
<1>4. MutualExclusion'
  BY DEF Malloc, Goto, poolVars, TypeOK, MutualExclusion, Inside
<1>5. AddrInv'
  BY <1>2 DEF Malloc, Goto, poolVars, AddrInv
<1>6. CellInv'
  BY <1>2 DEF Malloc, Goto, poolVars, TypeOK, CellInv, Holding
<1>7. PcInv'
  BY <1>2 DEF Malloc, Goto, poolVars, TypeOK, PcInv
<1>8. GripInv'
  BY DEF Malloc, Goto, poolVars, TypeOK, GripInv, Gripping
<1>9. NullInv'
  BY <1>2 DEF Malloc, Goto, poolVars, TypeOK, NullInv, Owned, Returning
<1>10. OwnInv'
  BY <1>2 DEF Malloc, Goto, poolVars, TypeOK, OwnInv, Owned
<1> QED
  BY <1>2, <1>3, <1>4, <1>5, <1>6, <1>7, <1>8, <1>9, <1>10

\* The compare-and-swap lets one thread in.
LEMMA MallocLockStep ==
  ASSUME IInv, NEW t \in Threads, MallocLock(t)
  PROVE  IInv'
<1> USE DEF IInv
<1>1. InHand' = InHand
  BY DEF MallocLock, Goto, poolVars, Acquire, InHand, Popped, TypeOK
<1>2. /\ UNCHANGED <<next, next_free, cur>>
      /\ Usable' = Usable /\ Sentinel' = Sentinel /\ FreeCells' = FreeCells
      /\ ListInv'
  BY <1>1, Frame DEF MallocLock, Goto, poolVars, Acquire
<1>3. TypeOK'
  BY UsableFacts DEF MallocLock, Goto, poolVars, Acquire, TypeOK, Labels, Waiting, Inside
<1>4. MutualExclusion'
  BY DEF MallocLock, Goto, poolVars, Acquire, TypeOK, MutualExclusion, Inside
<1>5. AddrInv'
  BY <1>2 DEF MallocLock, Goto, poolVars, Acquire, AddrInv
<1>6. CellInv'
  BY <1>2 DEF MallocLock, Goto, poolVars, Acquire, TypeOK, CellInv, Holding
<1>7. PcInv'
  BY <1>2 DEF MallocLock, Goto, poolVars, Acquire, TypeOK, PcInv
<1>8. GripInv'
  BY DEF MallocLock, Goto, poolVars, Acquire, TypeOK, GripInv, Gripping
<1>9. NullInv'
  BY <1>2 DEF MallocLock, Goto, poolVars, Acquire, TypeOK, NullInv, Owned, Returning
<1>10. OwnInv'
  BY <1>2 DEF MallocLock, Goto, poolVars, Acquire, TypeOK, OwnInv, Owned
<1> QED
  BY <1>2, <1>3, <1>4, <1>5, <1>6, <1>7, <1>8, <1>9, <1>10

\* Whether the list is used up is read under the lock.
LEMMA MallocTestStep ==
  ASSUME IInv, NEW t \in Threads, MallocTest(t)
  PROVE  IInv'
<1> USE DEF IInv
<1>1. InHand' = InHand
  BY DEF MallocTest, Full, Goto, poolVars, InHand, Popped, TypeOK
<1>2. /\ UNCHANGED <<next, next_free, cur>>
      /\ Usable' = Usable /\ Sentinel' = Sentinel /\ FreeCells' = FreeCells
      /\ ListInv'
  BY <1>1, Frame DEF MallocTest, Full, Goto, poolVars
<1>3. TypeOK'
  BY UsableFacts DEF MallocTest, Full, Goto, poolVars, TypeOK, Labels, Waiting, Inside
<1>4. MutualExclusion'
  BY DEF MallocTest, Full, Goto, poolVars, TypeOK, MutualExclusion, Inside
<1>5. AddrInv'
  BY <1>2 DEF MallocTest, Full, Goto, poolVars, AddrInv
<1>6. CellInv'
  BY <1>2 DEF MallocTest, Full, Goto, poolVars, TypeOK, CellInv, Holding
<1>7. PcInv'
  BY <1>2, MPoolAssumption DEF MallocTest, Full, Goto, poolVars, TypeOK, PcInv
<1>8. GripInv'
  BY DEF MallocTest, Full, Goto, poolVars, TypeOK, GripInv, Gripping
<1>9. NullInv'
  BY <1>2 DEF MallocTest, Full, Goto, poolVars, TypeOK, NullInv, Owned, Returning
<1>10. OwnInv'
  BY <1>2 DEF MallocTest, Full, Goto, poolVars, TypeOK, OwnInv, Owned
<1> QED
  BY <1>2, <1>3, <1>4, <1>5, <1>6, <1>7, <1>8, <1>9, <1>10

\* The head that a thread reads under the lock stays the head.
LEMMA MallocReadStep ==
  ASSUME IInv, NEW t \in Threads, MallocRead(t)
  PROVE  IInv'
<1> USE DEF IInv
<1>1. InHand' = InHand
  BY DEF MallocRead, Goto, poolVars, InHand, Popped, TypeOK
<1>2. /\ UNCHANGED <<next, next_free, cur>>
      /\ Usable' = Usable /\ Sentinel' = Sentinel /\ FreeCells' = FreeCells
      /\ ListInv'
  BY <1>1, Frame DEF MallocRead, Goto, poolVars
<1>3. TypeOK'
  BY UsableFacts DEF MallocRead, Goto, poolVars, TypeOK, Labels, Waiting, Inside
<1>4. MutualExclusion'
  BY DEF MallocRead, Goto, poolVars, TypeOK, MutualExclusion, Inside
<1>5. AddrInv'
  BY <1>2 DEF MallocRead, Goto, poolVars, AddrInv
<1>6. CellInv'
  BY <1>2 DEF MallocRead, Goto, poolVars, TypeOK, CellInv, PcInv, Holding
<1>7. PcInv'
  BY <1>2 DEF MallocRead, Goto, poolVars, TypeOK, PcInv
<1>8. GripInv'
  BY DEF MallocRead, Goto, poolVars, TypeOK, GripInv, Gripping
<1>9. NullInv'
  BY <1>2 DEF MallocRead, Goto, poolVars, TypeOK, NullInv, Owned, Returning
<1>10. OwnInv'
  BY <1>2 DEF MallocRead, Goto, poolVars, TypeOK, OwnInv, Owned
<1> QED
  BY <1>2, <1>3, <1>4, <1>5, <1>6, <1>7, <1>8, <1>9, <1>10

\* The thread leaves the lock with its cell in its hands.
LEMMA MallocUnlockStep ==
  ASSUME IInv, NEW t \in Threads, MallocUnlock(t)
  PROVE  IInv'
<1> USE DEF IInv
<1>1. InHand' = InHand
  BY DEF MallocUnlock, Goto, poolVars, Release, InHand, Popped, TypeOK
<1>2. /\ UNCHANGED <<next, next_free, cur>>
      /\ Usable' = Usable /\ Sentinel' = Sentinel /\ FreeCells' = FreeCells
      /\ ListInv'
  BY <1>1, Frame DEF MallocUnlock, Goto, poolVars, Release
<1>3. TypeOK'
  BY UsableFacts DEF MallocUnlock, Goto, poolVars, Release, TypeOK, Labels, Waiting, Inside
<1>4. MutualExclusion'
  BY DEF MallocUnlock, Goto, poolVars, Release, TypeOK, MutualExclusion, Inside
<1>5. AddrInv'
  BY <1>2 DEF MallocUnlock, Goto, poolVars, Release, AddrInv
<1>6. CellInv'
  BY <1>2 DEF MallocUnlock, Goto, poolVars, Release, TypeOK, CellInv, Holding
<1>7. PcInv'
  BY <1>2 DEF MallocUnlock, Goto, poolVars, Release, TypeOK, PcInv
<1>8. GripInv'
  BY DEF MallocUnlock, Goto, poolVars, Release, TypeOK, GripInv, Gripping
<1>9. NullInv'
  BY <1>2 DEF MallocUnlock, Goto, poolVars, Release, TypeOK, NullInv, Owned, Returning
<1>10. OwnInv'
  BY <1>2 DEF MallocUnlock, Goto, poolVars, Release, TypeOK, OwnInv, Owned
<1> QED
  BY <1>2, <1>3, <1>4, <1>5, <1>6, <1>7, <1>8, <1>9, <1>10

\* The early return of a pool that is used up gives the lock back.
LEMMA MallocFailStep ==
  ASSUME IInv, NEW t \in Threads, MallocFail(t)
  PROVE  IInv'
<1> USE DEF IInv
<1>1. InHand' = InHand
  BY DEF MallocFail, Goto, poolVars, Release, InHand, Popped, TypeOK
<1>2. /\ UNCHANGED <<next, next_free, cur>>
      /\ Usable' = Usable /\ Sentinel' = Sentinel /\ FreeCells' = FreeCells
      /\ ListInv'
  BY <1>1, Frame DEF MallocFail, Goto, poolVars, Release
<1>3. TypeOK'
  BY UsableFacts DEF MallocFail, Goto, poolVars, Release, TypeOK, Labels, Waiting, Inside
<1>4. MutualExclusion'
  BY DEF MallocFail, Goto, poolVars, Release, TypeOK, MutualExclusion, Inside
<1>5. AddrInv'
  BY <1>2 DEF MallocFail, Goto, poolVars, Release, AddrInv
<1>6. CellInv'
  BY <1>2 DEF MallocFail, Goto, poolVars, Release, TypeOK, CellInv, Holding
<1>7. PcInv'
  BY <1>2 DEF MallocFail, Goto, poolVars, Release, TypeOK, PcInv
<1>8. GripInv'
  BY DEF MallocFail, Goto, poolVars, Release, TypeOK, GripInv, Gripping
<1>9. NullInv'
  BY <1>2 DEF MallocFail, Goto, poolVars, Release, TypeOK, NullInv, Owned, Returning
<1>10. OwnInv'
  BY <1>2 DEF MallocFail, Goto, poolVars, Release, TypeOK, OwnInv, Owned
<1> QED
  BY <1>2, <1>3, <1>4, <1>5, <1>6, <1>7, <1>8, <1>9, <1>10

\* The compare-and-swap of mpool_free lets one thread in.
LEMMA FreeLockStep ==
  ASSUME IInv, NEW t \in Threads, FreeLock(t)
  PROVE  IInv'
<1> USE DEF IInv
<1>1. InHand' = InHand
  BY DEF FreeLock, Goto, poolVars, Acquire, InHand, Popped, TypeOK
<1>2. /\ UNCHANGED <<next, next_free, cur>>
      /\ Usable' = Usable /\ Sentinel' = Sentinel /\ FreeCells' = FreeCells
      /\ ListInv'
  BY <1>1, Frame DEF FreeLock, Goto, poolVars, Acquire
<1>3. TypeOK'
  BY UsableFacts DEF FreeLock, Goto, poolVars, Acquire, TypeOK, Labels, Waiting, Inside
<1>4. MutualExclusion'
  BY DEF FreeLock, Goto, poolVars, Acquire, TypeOK, MutualExclusion, Inside
<1>5. AddrInv'
  BY <1>2 DEF FreeLock, Goto, poolVars, Acquire, AddrInv
<1>6. CellInv'
  BY <1>2 DEF FreeLock, Goto, poolVars, Acquire, TypeOK, CellInv, Holding
<1>7. PcInv'
  BY <1>2 DEF FreeLock, Goto, poolVars, Acquire, TypeOK, PcInv
<1>8. GripInv'
  BY DEF FreeLock, Goto, poolVars, Acquire, TypeOK, GripInv, Gripping
<1>9. NullInv'
  BY <1>2 DEF FreeLock, Goto, poolVars, Acquire, TypeOK, NullInv, Owned, Returning
<1>10. OwnInv'
  BY <1>2 DEF FreeLock, Goto, poolVars, Acquire, TypeOK, OwnInv, Owned
<1> QED
  BY <1>2, <1>3, <1>4, <1>5, <1>6, <1>7, <1>8, <1>9, <1>10

\* The guard of mpool_free: beyond it the cell has no successor.
LEMMA FreeTestStep ==
  ASSUME IInv, NEW t \in Threads, FreeTest(t)
  PROVE  IInv'
<1> USE DEF IInv
<1>1. InHand' = InHand
  BY DEF FreeTest, InUse, Goto, poolVars, InHand, Popped, TypeOK
<1>2. /\ UNCHANGED <<next, next_free, cur>>
      /\ Usable' = Usable /\ Sentinel' = Sentinel /\ FreeCells' = FreeCells
      /\ ListInv'
  BY <1>1, Frame DEF FreeTest, InUse, Goto, poolVars
<1>3. TypeOK'
  BY UsableFacts DEF FreeTest, InUse, Goto, poolVars, TypeOK, Labels, Waiting, Inside
<1>4. MutualExclusion'
  BY DEF FreeTest, InUse, Goto, poolVars, TypeOK, MutualExclusion, Inside
<1>5. AddrInv'
  BY <1>2 DEF FreeTest, InUse, Goto, poolVars, AddrInv
<1>6. CellInv'
  BY <1>2 DEF FreeTest, InUse, Goto, poolVars, TypeOK, CellInv, Holding
<1>7. PcInv'
  BY <1>2 DEF FreeTest, InUse, Goto, poolVars, TypeOK, PcInv
<1>8. GripInv'
  BY DEF FreeTest, InUse, Goto, poolVars, TypeOK, GripInv, Gripping
<1>9. NullInv'
  BY <1>2 DEF FreeTest, InUse, Goto, poolVars, TypeOK, NullInv, Owned, Returning
<1>10. OwnInv'
  <2>1. Owned' = Owned
    BY DEF FreeTest, InUse, Owned
  <2>2. pc[t] = "f_test" => cell[t] \in Cells
    BY UsableFacts DEF CellInv, Holding
  <2> QED
    BY <2>1, <2>2, OwnedFacts DEF FreeTest, InUse, Goto, poolVars, TypeOK, OwnInv
<1> QED
  BY <1>2, <1>3, <1>4, <1>5, <1>6, <1>7, <1>8, <1>9, <1>10

\* mpool_free gives the lock back, its cell is on the list.
LEMMA FreeUnlockStep ==
  ASSUME IInv, NEW t \in Threads, FreeUnlock(t)
  PROVE  IInv'
<1> USE DEF IInv
<1>1. InHand' = InHand
  BY DEF FreeUnlock, Goto, poolVars, Release, InHand, Popped, TypeOK
<1>2. /\ UNCHANGED <<next, next_free, cur>>
      /\ Usable' = Usable /\ Sentinel' = Sentinel /\ FreeCells' = FreeCells
      /\ ListInv'
  BY <1>1, Frame DEF FreeUnlock, Goto, poolVars, Release
<1>3. TypeOK'
  BY UsableFacts DEF FreeUnlock, Goto, poolVars, Release, TypeOK, Labels, Waiting, Inside
<1>4. MutualExclusion'
  BY DEF FreeUnlock, Goto, poolVars, Release, TypeOK, MutualExclusion, Inside
<1>5. AddrInv'
  BY <1>2 DEF FreeUnlock, Goto, poolVars, Release, AddrInv
<1>6. CellInv'
  BY <1>2 DEF FreeUnlock, Goto, poolVars, Release, TypeOK, CellInv, Holding
<1>7. PcInv'
  BY <1>2 DEF FreeUnlock, Goto, poolVars, Release, TypeOK, PcInv
<1>8. GripInv'
  BY DEF FreeUnlock, Goto, poolVars, Release, TypeOK, GripInv, Gripping
<1>9. NullInv'
  BY <1>2 DEF FreeUnlock, Goto, poolVars, Release, TypeOK, NullInv, Owned, Returning
<1>10. OwnInv'
  BY <1>2 DEF FreeUnlock, Goto, poolVars, Release, TypeOK, OwnInv, Owned
<1> QED
  BY <1>2, <1>3, <1>4, <1>5, <1>6, <1>7, <1>8, <1>9, <1>10

\* The game enters mpool_free with an address it was given once.
LEMMA FreeStep ==
  ASSUME IInv, NEW t \in Threads, NEW addr \in issued, Free(t, addr)
  PROVE  IInv'
<1> USE DEF IInv
<1>1. InHand' = InHand
  BY DEF Free, Goto, poolVars, InHand, Popped, TypeOK
<1>2. /\ UNCHANGED <<next, next_free, cur>>
      /\ Usable' = Usable /\ Sentinel' = Sentinel /\ FreeCells' = FreeCells
      /\ ListInv'
  BY <1>1, Frame DEF Free, Goto, poolVars
<1>3. TypeOK'
  BY UsableFacts, IssuedFacts DEF Free, Goto, poolVars, TypeOK, Labels, Waiting, Inside
<1>4. MutualExclusion'
  BY DEF Free, Goto, poolVars, TypeOK, MutualExclusion, Inside
<1>5. AddrInv'
  BY <1>2 DEF Free, Goto, poolVars, AddrInv
<1>6. CellInv'
  BY <1>2, IssuedFacts DEF Free, Goto, poolVars, TypeOK, CellInv, Holding
<1>7. PcInv'
  BY <1>2 DEF Free, Goto, poolVars, TypeOK, PcInv
<1>8. GripInv'
  BY DEF Free, Goto, poolVars, TypeOK, GripInv, Gripping
<1>9. NullInv'
  BY <1>2 DEF Free, Goto, poolVars, TypeOK, NullInv, Owned, Returning
<1>10. OwnInv'
  BY <1>2 DEF Free, Goto, poolVars, TypeOK, OwnInv, Owned
<1> QED
  BY <1>2, <1>3, <1>4, <1>5, <1>6, <1>7, <1>8, <1>9, <1>10

\* The popped cell moves from the head of the list into the thread's hands.
LEMMA MallocPopStep ==
  ASSUME IInv, NEW t \in Threads, MallocPop(t)
  PROVE  IInv'
<1> USE DEF IInv
<1> DEFINE k == next_free
<1>1. /\ pc[t] = "m_pop" /\ cell[t] = k /\ next[k] # Null
      /\ cell' = cell /\ next' = next /\ cur' = cur /\ next_free' = next[k]
      /\ pc' = [pc EXCEPT ![t] = "m_unlock"]
  BY DEF MallocPop, Goto, PcInv
<1>2. k \in FreeCells /\ k # Sentinel /\ k \in Cells /\ k \notin InHand
  BY <1>1, ListFacts DEF TypeOK, FreeCells
<1>3. InHand' = InHand \cup {k}
  BY <1>1 DEF InHand, Popped, TypeOK
<1>4. Usable' = Usable /\ Sentinel' = Sentinel
  BY <1>1 DEF Usable, Sentinel
<1>5. FreeCells' = FreeCells \ {k}
  BY <1>1, <1>3, <1>4 DEF FreeCells
<1>6. ListInv'
  <2>1. Chain(FreeCells \ {k}, next, next[k], Sentinel)
    BY <1>2, ChainPop DEF ListInv
  <2> QED
    BY <2>1, <1>1, <1>4, <1>5 DEF ListInv
<1>7. TypeOK'
  BY <1>1, <1>2 DEF MallocPop, TypeOK, Labels, Inside
<1>8. MutualExclusion'
  BY <1>1 DEF MallocPop, TypeOK, MutualExclusion, Inside
<1>9. AddrInv' /\ CellInv' /\ NullInv' /\ OwnInv'
  BY <1>1, <1>4 DEF MallocPop, TypeOK, AddrInv, CellInv, NullInv, OwnInv,
                    Owned, Returning, Holding
<1>10. PcInv'
  BY <1>1 DEF TypeOK, PcInv, MutualExclusion, Inside
<1>11. GripInv'
  BY <1>1, <1>2 DEF TypeOK, GripInv, Gripping, InHand, Popped
<1> QED
  BY <1>6, <1>7, <1>8, <1>9, <1>10, <1>11

\* Clearing the popped cell after the unlock disturbs nobody: no other thread
\* has it in its hands, it is not on the list, and no free will link it.
LEMMA MallocClearStep ==
  ASSUME IInv, NEW t \in Threads, MallocClear(t)
  PROVE  IInv'
<1> USE DEF IInv
<1> DEFINE k == cell[t]
<1>1. /\ pc[t] = "m_clear" /\ k \in Usable /\ k \in Cells /\ next[k] # Null
      /\ k \in InHand /\ k # Sentinel
  BY UsableFacts DEF MallocClear, Unlinked, CellInv, PcInv, Holding, InHand, Popped
<1>2. /\ next' = [next EXCEPT ![k] = Null]
      /\ UNCHANGED <<locked, next_free, cur, wild>>
      /\ pc' = [pc EXCEPT ![t] = "idle"]
      /\ cell' = [cell EXCEPT ![t] = Null]
      /\ live' = live \cup {FreePtrToReal(k)}
      /\ issued' = issued \cup {FreePtrToReal(k)}
  BY DEF MallocClear, Unlinked, Goto
<1>3. Usable' = Usable /\ Sentinel' = Sentinel
  BY <1>2 DEF Usable, Sentinel
<1>4. k \notin FreeCells /\ next_free # k
  BY <1>1, ListFacts DEF FreeCells
<1>5. InHand' = InHand \ {k}
  <2>1. \A u \in Threads : u # t => pc'[u] = pc[u] /\ cell'[u] = cell[u]
    BY <1>2 DEF TypeOK
  <2>2. \A u \in Threads : pc[u] \in Gripping /\ cell[u] = k => u = t
    BY <1>1 DEF GripInv, Gripping
  <2>3. pc'[t] = "idle"
    BY <1>2 DEF TypeOK
  <2> QED
    BY <1>1, <2>1, <2>2, <2>3 DEF InHand, Popped, Gripping
<1>6. FreeCells' = FreeCells
  BY <1>1, <1>2, <1>3, <1>4, <1>5 DEF FreeCells, TypeOK
<1>7. ListInv'
  <2>1. \A c \in FreeCells \ {Sentinel} : next'[c] = next[c]
    BY <1>2, <1>4 DEF TypeOK, FreeCells
  <2>2. Chain(FreeCells, next', next_free, Sentinel)
    BY <2>1, ChainAgree DEF ListInv
  <2> QED
    BY <2>2, <1>2, <1>3, <1>6 DEF ListInv
<1>8. TypeOK'
  BY <1>1, <1>2 DEF TypeOK, Labels, Addresses
<1>9. MutualExclusion'
  BY <1>1, <1>2 DEF TypeOK, MutualExclusion, Inside
<1>10. AddrInv'
  BY <1>1, <1>2, <1>3 DEF AddrInv
<1>11. CellInv'
  BY <1>2, <1>3 DEF TypeOK, CellInv, Holding
<1>12. \A u \in Threads : pc[u] \in Gripping /\ u # t => cell[u] # k
  BY <1>1 DEF GripInv, Gripping
<1>13. PcInv'
  BY <1>1, <1>2, <1>4, <1>12 DEF TypeOK, PcInv, Gripping
<1>14. GripInv'
  BY <1>2 DEF TypeOK, GripInv, Gripping
<1>15. Owned' = Owned \cup {k}
  <2>1. RealToFreePtr(FreePtrToReal(k)) = k
    BY <1>1, RoundTrip
  <2> QED
    BY <2>1, <1>2 DEF Owned
<1>16. NullInv'
  <2>1. Returning' = Returning
    BY <1>1, <1>2 DEF TypeOK, Returning
  <2> QED
    BY <2>1, <1>2, <1>3, <1>15, UsableFacts DEF TypeOK, NullInv
<1>17. OwnInv'
  <2>1. \A c \in Owned : c \in Cells
    BY OwnedFacts
  <2> QED
    BY <2>1, <1>1, <1>2, <1>15 DEF TypeOK, OwnInv, PcInv
<1> QED
  BY <1>7, <1>8, <1>9, <1>10, <1>11, <1>13, <1>14, <1>16, <1>17

\* Linking takes a cell that is off the list into the thread's hands.
LEMMA FreeLinkStep ==
  ASSUME IInv, NEW t \in Threads, FreeLink(t)
  PROVE  IInv'
<1> USE DEF IInv
<1> DEFINE k == cell[t]
<1>1. /\ pc[t] = "f_link" /\ k \in Usable /\ k \in Cells /\ next[k] = Null
      /\ k # Sentinel /\ next_free \in Cells /\ next_free # Null
  BY UsableFacts DEF FreeLink, CellInv, PcInv, Holding, TypeOK
<1>2. /\ next' = [next EXCEPT ![k] = next_free]
      /\ UNCHANGED <<locked, next_free, cur, cell, live, issued, wild>>
      /\ pc' = [pc EXCEPT ![t] = "f_push"]
  BY DEF FreeLink, Goto
<1>3. Usable' = Usable /\ Sentinel' = Sentinel /\ Owned' = Owned
  BY <1>2 DEF Usable, Sentinel, Owned
<1>4. k \notin FreeCells /\ k \notin InHand
  BY <1>1, InHandFacts DEF FreeCells
<1>5. InHand' = InHand \cup {k}
  BY <1>1, <1>2 DEF InHand, Popped, TypeOK
<1>6. FreeCells' = FreeCells
  BY <1>1, <1>2, <1>3, <1>4, <1>5 DEF FreeCells, TypeOK
<1>7. ListInv'
  <2>1. \A c \in FreeCells \ {Sentinel} : next'[c] = next[c]
    BY <1>2, <1>4 DEF TypeOK, FreeCells
  <2>2. Chain(FreeCells, next', next_free, Sentinel)
    BY <2>1, ChainAgree DEF ListInv
  <2> QED
    BY <2>2, <1>2, <1>3, <1>6 DEF ListInv
<1>8. TypeOK'
  BY <1>1, <1>2 DEF TypeOK, Labels, Inside
<1>9. MutualExclusion'
  BY <1>1, <1>2 DEF TypeOK, MutualExclusion, Inside
<1>10. AddrInv' /\ CellInv'
  BY <1>1, <1>2, <1>3 DEF TypeOK, AddrInv, CellInv, Holding
<1>11. \A u \in Threads : pc[u] \in Gripping => cell[u] # k
  BY <1>4 DEF InHand, Popped, Gripping
<1>12. PcInv'
  BY <1>1, <1>2, <1>11 DEF TypeOK, PcInv, MutualExclusion, Inside, Gripping
<1>13. GripInv'
  BY <1>1, <1>2, <1>11 DEF TypeOK, GripInv, Gripping
<1>14. NullInv'
  BY <1>1, <1>2, <1>3, UsableFacts DEF TypeOK, NullInv, Returning
<1>15. OwnInv'
  BY <1>1, <1>2, <1>3 DEF TypeOK, OwnInv
<1> QED
  BY <1>7, <1>8, <1>9, <1>10, <1>12, <1>13, <1>14, <1>15

\* Pushing puts the linked cell at the head of the list.
LEMMA FreePushStep ==
  ASSUME IInv, NEW t \in Threads, FreePush(t)
  PROVE  IInv'
<1> USE DEF IInv
<1> DEFINE k == cell[t]
<1>1. /\ pc[t] = "f_push" /\ k \in Usable /\ k \in Cells
      /\ next[k] = next_free /\ k \in InHand /\ next[k] # Null
  BY UsableFacts DEF FreePush, CellInv, PcInv, Holding, InHand, TypeOK
<1>2. /\ next_free' = k
      /\ UNCHANGED <<locked, next, cur, cell, live, issued, wild>>
      /\ pc' = [pc EXCEPT ![t] = "f_unlock"]
  BY DEF FreePush, Goto
<1>3. Usable' = Usable /\ Sentinel' = Sentinel /\ Owned' = Owned
  BY <1>2 DEF Usable, Sentinel, Owned
<1>4. \A u \in Threads : pc[u] \in Gripping /\ cell[u] = k => u = t
  BY <1>1 DEF GripInv, Gripping
<1>5. InHand' = InHand \ {k}
  BY <1>1, <1>2, <1>4 DEF InHand, Popped, TypeOK, Gripping
<1>6. FreeCells' = FreeCells \cup {k}
  BY <1>1, <1>2, <1>3, <1>5 DEF FreeCells
<1>7. ListInv'
  <2>1. k \notin FreeCells
    BY <1>1 DEF FreeCells
  <2>2. Chain(FreeCells \cup {k}, next, k, Sentinel)
    BY <1>1, <2>1, ChainPush DEF ListInv
  <2> QED
    BY <2>2, <1>2, <1>3, <1>6 DEF ListInv
<1>8. TypeOK'
  BY <1>1, <1>2 DEF TypeOK, Labels, Inside
<1>9. MutualExclusion'
  BY <1>1, <1>2 DEF TypeOK, MutualExclusion, Inside
<1>10. AddrInv' /\ CellInv' /\ NullInv' /\ OwnInv'
  BY <1>1, <1>2, <1>3 DEF TypeOK, AddrInv, CellInv, NullInv, OwnInv,
                          Holding, Returning
<1>11. PcInv'
  BY <1>1, <1>2 DEF TypeOK, PcInv, MutualExclusion, Inside
<1>12. GripInv'
  BY <1>1, <1>2 DEF TypeOK, GripInv, Gripping
<1> QED
  BY <1>7, <1>8, <1>9, <1>10, <1>11, <1>12

\* A new block replaces a list that is used up, down to its sentinel, by the
\* list of its own cells.
LEMMA SetupNewBlockStep ==
  ASSUME IInv, NEW t \in Threads, SetupNewBlock(t)
  PROVE  IInv'
<1> USE DEF IInv
<1> DEFINE bank == cur * CellsPerBlock
           last == bank + CellsPerBlock - 1
<1>1. /\ pc[t] = "m_setup" /\ next[next_free] = Null
      /\ cur \in 0 .. BlockCount - 1 /\ cur \in Nat
  BY MPoolAssumption DEF SetupNewBlock, LastOf, PcInv, TypeOK
<1>2. /\ next' = [c \in Cells |-> IF c = bank THEN Null
                                  ELSE IF c \in bank .. last THEN c - 1
                                  ELSE next[c]]
      /\ next_free' = last /\ cur' = cur + 1
      /\ UNCHANGED <<locked, cell, live, issued, wild>>
      /\ pc' = [pc EXCEPT ![t] = "m_read"]
  BY DEF SetupNewBlock, LastOf, Goto
<1>3. /\ bank \in Cells /\ last \in Cells /\ bank \in Nat /\ last \in Nat
      /\ bank < last /\ (cur + 1) * CellsPerBlock = last + 1
      /\ bank \in FirstCells
      /\ \A c \in bank + 1 .. last : c \in Cells /\ c \notin FirstCells
  BY <1>1, NewBlockFacts
<1> HIDE DEF bank, last
<1>4. \A c \in Usable : c \in Nat /\ c < bank
  BY <1>3 DEF Usable, bank
<1>5. Usable' = Usable \cup (bank + 1 .. last)
  <2>1. Usable' = (0 .. last) \ FirstCells
    BY <1>2, <1>3 DEF Usable
  <2>2. Usable = (0 .. bank - 1) \ FirstCells
    BY DEF Usable, bank
  <2> QED
    BY <2>1, <2>2, <1>3
<1>6. Sentinel' = bank
  BY <1>1, <1>2 DEF Sentinel, bank
<1>7. FreeCells = {Sentinel}
  BY <1>1, ListFacts, ChainEmpty DEF ListInv
<1>8. \A c \in Cells : next[c] # Null => c \in InHand
  BY <1>7, ListFacts DEF FreeCells
<1>9. InHand' = InHand
  BY <1>1, <1>2 DEF InHand, Popped, TypeOK
<1>10. \A c \in InHand : c \in Usable
  BY InHandFacts
<1>11. bank .. last \subseteq Cells
  BY <1>3
<1>12. /\ \A c \in Usable : next'[c] = next[c]
       /\ next'[bank] = Null
       /\ \A c \in bank + 1 .. last : next'[c] = c - 1 /\ next'[c] # Null
       /\ \A c \in Cells : c \notin bank .. last => next'[c] = next[c]
  BY <1>2, <1>3, <1>4, UsableFacts DEF Null
<1>13. FreeCells' = bank .. last
  <2>1. \A c \in bank .. last : c \notin InHand
    BY <1>3, <1>4, <1>10
  <2>2. \A c \in Cells : c \notin bank .. last /\ next'[c] # Null => c \in InHand
    BY <1>8, <1>12
  <2>3. \A c \in bank .. last : c = bank \/ next'[c] # Null
    BY <1>3, <1>12
  <2>4. bank \in bank .. last
    BY <1>3
  <2> QED
    BY <2>1, <2>2, <2>3, <2>4, <1>6, <1>9, <1>11 DEF FreeCells
<1>14. ListInv'
  <2>1. \A c \in bank .. last : c # bank => next'[c] = c - 1
    BY <1>3, <1>12
  <2>2. Chain(bank .. last, next', last, bank)
    BY <2>1, <1>3, <1>11, ChainBlock
  <2> QED
    BY <2>2, <1>2, <1>6, <1>13 DEF ListInv
<1>15. TypeOK'
  <2>1. \A c \in bank .. last : c # bank => c - 1 \in Cells
    BY <1>3, <1>11
  <2>2. next' \in [Cells -> Cells \cup {Null}]
    BY <2>1, <1>2 DEF TypeOK
  <2>3. cur' \in 0 .. BlockCount
    BY <1>1, <1>2, MPoolAssumption
  <2> QED
    BY <2>2, <2>3, <1>1, <1>2, <1>3 DEF TypeOK, Labels, Inside
<1>16. MutualExclusion'
  BY <1>1, <1>2 DEF TypeOK, MutualExclusion, Inside
<1>17. AddrInv'
  BY <1>2, <1>5 DEF AddrInv
<1>18. CellInv'
  <2>1. \A c \in Cells : next'[c] # Null => c \in Usable'
    BY <1>3, <1>5, <1>8, <1>10, <1>12
  <2> QED
    BY <2>1, <1>1, <1>2, <1>5 DEF TypeOK, CellInv, Holding
<1>19. PcInv'
  <2>1. \A u \in Threads : u # t => pc'[u] = pc[u] /\ pc[u] \notin Inside
    BY <1>1, <1>2 DEF TypeOK, MutualExclusion, Inside
  <2>2. pc'[t] = "m_read" /\ next'[next_free'] # Null
    <3>1. last \in bank + 1 .. last
      BY <1>3
    <3> QED
      BY <3>1, <1>2, <1>12 DEF TypeOK
  <2>3. \A u \in Threads : pc[u] = "m_clear" => next'[cell[u]] # Null
    BY <1>12 DEF CellInv, PcInv, Holding
  <2> QED
    BY <2>1, <2>2, <2>3, <1>2 DEF PcInv, Inside
<1>20. GripInv'
  BY <1>1, <1>2 DEF TypeOK, GripInv, Gripping
<1>21. NullInv'
  <2>1. Owned' = Owned /\ Returning' = Returning
    BY <1>1, <1>2 DEF TypeOK, Owned, Returning
  <2> QED
    BY <2>1, <1>5, <1>12 DEF NullInv
<1>22. OwnInv'
  <2>1. Owned' = Owned
    BY <1>2 DEF Owned
  <2> QED
    BY <2>1, <1>1, <1>2, <1>12, IssuedFacts DEF TypeOK, OwnInv
<1> QED
  BY <1>14, <1>15, <1>16, <1>17, <1>18, <1>19, <1>20, <1>21, <1>22

-----------------------------------------------------------------------------

\* An empty pool satisfies the invariant.
LEMMA InitIInv == Init => IInv
<1> SUFFICES ASSUME Init PROVE IInv
  OBVIOUS
<1> USE DEF Init
<1>1. 0 \in Cells
  BY NewBlockFacts, CellsPerBlockFacts, MPoolAssumption
<1>2. TypeOK
  <2>1. 0 \in 0 .. BlockCount
    BY MPoolAssumption
  <2>2. next \in [Cells -> Cells \cup {Null}]
    OBVIOUS
  <2>3. pc \in [Threads -> Labels] /\ cell \in [Threads -> Cells \cup {Null}]
    BY DEF Labels
  <2> QED
    BY <2>1, <2>2, <2>3, <1>1 DEF TypeOK
<1>3. MutualExclusion
  BY DEF MutualExclusion, Inside
<1>4. AddrInv /\ CellInv /\ PcInv /\ GripInv /\ OwnInv
  BY DEF AddrInv, CellInv, PcInv, GripInv, OwnInv, Holding, Gripping, Owned
<1>5. ListInv
  <2>1. Sentinel = 0 /\ FreeCells = {0}
    BY <1>1 DEF Sentinel, FreeCells, InHand, Popped
  <2>2. 0 .. 0 = {0} /\ \A c \in 0 .. 0 : c # 0 => next[c] = c - 1
    OBVIOUS
  <2>3. Chain(0 .. 0, next, 0, 0)
    <3> DEFINE nx == next
    <3>1. 0 .. 0 \subseteq Cells /\ \A c \in 0 .. 0 : c # 0 => nx[c] = c - 1
      BY <2>2, <1>1
    <3> HIDE DEF nx, Init
    <3>2. Chain(0 .. 0, nx, 0, 0)
      BY <3>1, ChainBlock
    <3> QED
      BY <3>2 DEF nx
  <2> QED
    BY <2>1, <2>2, <2>3 DEF ListInv
<1>6. NullInv
  <2>1. cur * CellsPerBlock = 0
    BY CellsPerBlockFacts
  <2> QED
    BY <2>1 DEF NullInv, Usable
<1> QED
  BY <1>2, <1>3, <1>4, <1>5, <1>6 DEF IInv

\* Every step preserves the invariant.
LEMMA NextIInv == IInv /\ [Next]_vars => IInv'
<1> SUFFICES ASSUME IInv, [Next]_vars PROVE IInv'
  OBVIOUS
<1>1. CASE UNCHANGED vars
  <2>1. /\ Usable' = Usable /\ Sentinel' = Sentinel /\ InHand' = InHand
        /\ Owned' = Owned /\ Returning' = Returning
    BY <1>1 DEF vars, Usable, Sentinel, InHand, Popped, Owned, Returning
  <2>2. ListInv'
    BY <2>1, <1>1, Frame DEF vars
  <2> QED
    BY <2>1, <2>2, <1>1 DEF vars, IInv, TypeOK, MutualExclusion, AddrInv,
       CellInv, PcInv, GripInv, NullInv, OwnInv
<1>2. ASSUME NEW t \in Threads, Malloc(t) PROVE IInv'
  BY <1>2, MallocStep
<1>3. ASSUME NEW t \in Threads, NEW addr \in issued, Free(t, addr) PROVE IInv'
  BY <1>3, FreeStep
<1>4. ASSUME NEW t \in Threads, Step(t) PROVE IInv'
  BY <1>4, MallocLockStep, MallocTestStep, SetupNewBlockStep, MallocReadStep,
     MallocPopStep, MallocUnlockStep, MallocClearStep, MallocFailStep,
     FreeLockStep, FreeTestStep, FreeLinkStep, FreePushStep, FreeUnlockStep
     DEF Step
<1> QED
  BY <1>1, <1>2, <1>3, <1>4 DEF Next, Call

\* Every reachable state of a pool satisfies the inductive invariant, for
\* every interleaving of mpool_malloc and mpool_free.
THEOREM Invariance == Spec => []IInv
  BY InitIInv, NextIInv, PTL DEF Spec

-----------------------------------------------------------------------------
(* The chain as FreeListIsChain has it: what the hops from the head visit. *)

\* A set with 0 in it, and with each number the next, has all numbers.
LEMMA SetInduction ==
  ASSUME NEW S, 0 \in S, \A n \in Nat : n \in S => n + 1 \in S
  PROVE  Nat \subseteq S
<1> DEFINE T == Nat \ S
           R == OpToRel(<, Nat)
<1> SUFFICES ASSUME T # {} PROVE FALSE
  OBVIOUS
<1>1. T \subseteq Nat
  OBVIOUS
<1>2. PICK x \in T : \A y \in T : <<y, x>> \notin R
  BY <1>1, NatLessThanWellFounded, WFMin, Zenon
<1>3. \A y \in T : ~(y < x)
  BY <1>1, <1>2 DEF OpToRel
<1>4. x # 0 /\ x - 1 \in Nat
  BY <1>1
<1>5. x - 1 \in S
  BY <1>3, <1>4
<1> QED
  BY <1>4, <1>5

\* What one more hop visits.
Hop(nx, visited) == visited \cup ({nx[c] : c \in visited} \ {Null})

\* f has what the first n hops from the head visit.
Hops(f, nx, head, n) ==
  f = [k \in 0 .. n |-> IF k = 0 THEN {head} ELSE Hop(nx, f[k - 1])]

\* The function that Reach is defined to be exists.
LEMMA HopsExist ==
  ASSUME NEW nx, NEW head, NEW n \in Nat
  PROVE  \E f : Hops(f, nx, head, n)
<1> DEFINE Is(f, m) == f = [k \in 0 .. m |-> IF k = 0 THEN {head} ELSE Hop(nx, f[k - 1])]
           S == {m \in Nat : \E f : Is(f, m)}
<1>1. 0 \in S
  <2>1. Is([k \in 0 .. 0 |-> {head}], 0)
    BY SMT
  <2> QED
    BY <2>1
<1>2. ASSUME NEW m \in Nat, m \in S
      PROVE  m + 1 \in S
  <2>1. PICK f : Is(f, m)
    BY <1>2
  <2> DEFINE g == [k \in 0 .. m + 1 |-> IF k = 0 THEN {head} ELSE Hop(nx, f[k - 1])]
  <2>2. \A k \in 0 .. m : f[k] = IF k = 0 THEN {head} ELSE Hop(nx, f[k - 1])
    BY <2>1, Zenon
  <2>3. \A k \in 0 .. m : k \in 0 .. m + 1
    OBVIOUS
  <2>4. \A k \in 0 .. m + 1 : g[k] = IF k = 0 THEN {head} ELSE Hop(nx, f[k - 1])
    BY Zenon
  <2>5. \A k \in 0 .. m : g[k] = f[k]
    BY <2>2, <2>3, <2>4, Zenon
  <2>6. \A k \in 0 .. m + 1 : k = 0 \/ k - 1 \in 0 .. m
    OBVIOUS
  <2>7. \A k \in 0 .. m + 1 : k # 0 => g[k - 1] = f[k - 1]
    BY <2>5, <2>6, Zenon
  <2>8. [k \in 0 .. m + 1 |-> IF k = 0 THEN {head} ELSE Hop(nx, f[k - 1])]
          = [k \in 0 .. m + 1 |-> IF k = 0 THEN {head} ELSE Hop(nx, g[k - 1])]
    <3> HIDE DEF g
    <3> QED
      BY <2>7, Zenon
  <2>9. \E e : Is(e, m + 1)
    BY <2>8, Zenon
  <2>10. m + 1 \in Nat
    OBVIOUS
  <2> HIDE DEF Is, g
  <2> QED
    BY <2>9, <2>10, Zenon
<1> HIDE DEF S
<1>3. Nat \subseteq S
  BY <1>1, <1>2, SetInduction
<1> QED
  BY <1>3, Zenon DEF S, Hops

\* Reach, hop by hop.
LEMMA ReachIs ==
  /\ Reach[0] = {next_free}
  /\ \A n \in 1 .. MaxCellCount : Reach[n] = Hop(next, Reach[n - 1])
<1>1. MaxCellCount \in Nat
  BY CellsPerBlockFacts, MPoolAssumption DEF MaxCellCount
<1>2. Reach = [n \in 0 .. MaxCellCount |->
                 IF n = 0 THEN {next_free} ELSE Hop(next, Reach[n - 1])]
  <2>1. \E f : Hops(f, next, next_free, MaxCellCount)
    BY <1>1, HopsExist
  <2>2. Reach = CHOOSE f : Hops(f, next, next_free, MaxCellCount)
    BY DEF Reach, Hop, Hops
  <2>3. Hops(Reach, next, next_free, MaxCellCount)
    BY <2>1, <2>2
  <2> QED
    BY <2>3, Zenon DEF Hops
<1> DEFINE visited(n) == IF n = 0 THEN {next_free} ELSE Hop(next, Reach[n - 1])
<1>3. \A n \in 0 .. MaxCellCount : Reach[n] = visited(n)
  BY <1>2, Zenon
<1>4. 0 \in 0 .. MaxCellCount /\ \A n \in 1 .. MaxCellCount : n \in 0 .. MaxCellCount /\ n # 0
  BY <1>1
<1> QED
  BY <1>3, <1>4, Zenon

\* The ranks of a list are all numbers up to that of its head.
LEMMA RanksAreDense ==
  ASSUME NEW S \in SUBSET Cells, NEW nx, NEW h \in S, NEW l \in S,
         NEW r \in [Cells -> Nat], Ranks(r, S, nx, h, l), NEW k \in Nat, k <= r[h]
  PROVE  \E d \in S : r[d] = r[h] - k
<1> DEFINE K == {n \in Nat : n <= r[h] => \E d \in S : r[d] = r[h] - n}
<1>1. \A c \in S : r[c] \in Nat
  OBVIOUS
<1>2. 0 \in K
  BY <1>1
<1>3. ASSUME NEW n \in Nat, n \in K
      PROVE  n + 1 \in K
  <2> SUFFICES ASSUME n + 1 <= r[h] PROVE \E d \in S : r[d] = r[h] - (n + 1)
    OBVIOUS
  <2>1. PICK d \in S : r[d] = r[h] - n
    BY <1>1, <1>3
  <2>2. d # l
    BY <1>1, <2>1 DEF Ranks
  <2>3. nx[d] \in S /\ r[d] = r[nx[d]] + 1
    BY <2>2 DEF Ranks
  <2> QED
    BY <1>1, <2>1, <2>3
<1> HIDE DEF K
<1>4. Nat \subseteq K
  BY <1>2, <1>3, SetInduction
<1> QED
  BY <1>4 DEF K

\* A list is no longer than there are cells.
LEMMA RanksAreBounded ==
  ASSUME NEW S \in SUBSET Cells, NEW nx, NEW h \in S, NEW l \in S,
         NEW r \in [Cells -> Nat], Ranks(r, S, nx, h, l)
  PROVE  r[h] < MaxCellCount
<1>1. MaxCellCount \in Nat
  BY CellsPerBlockFacts, MPoolAssumption DEF MaxCellCount
<1>2. r[h] \in Nat
  OBVIOUS
<1> DEFINE f == [k \in 0 .. r[h] |-> CHOOSE d \in S : r[d] = r[h] - k]
<1>3. \A k \in 0 .. r[h] : f[k] \in S /\ r[f[k]] = r[h] - k
  <2> TAKE k \in 0 .. r[h]
  <2>1. \E d \in S : r[d] = r[h] - k
    BY <1>2, RanksAreDense
  <2> QED
    BY <2>1
<1>4. f \in Injection(0 .. r[h], Cells)
  <2>1. f \in [0 .. r[h] -> Cells]
    BY <1>3
  <2>2. \A i, j \in 0 .. r[h] : f[i] = f[j] => i = j
    <3> TAKE i, j \in 0 .. r[h]
    <3>1. r[f[i]] = r[h] - i /\ r[f[j]] = r[h] - j
      BY <1>3
    <3> HIDE DEF f
    <3> QED
      BY <1>2, <3>1
  <2> QED
    BY <2>1, <2>2 DEF Injection, IsInjective
<1>5. IsFiniteSet(Cells) /\ Cardinality(Cells) = MaxCellCount
  <2>1. MaxCellCount # 0 \/ MaxCellCount = 0
    OBVIOUS
  <2> QED
    BY <1>1, FS_Interval DEF Cells
<1>6. Cardinality(0 .. r[h]) = r[h] + 1
  BY <1>2, FS_Interval
<1> HIDE DEF f
<1> QED
  BY <1>1, <1>2, <1>4, <1>5, <1>6, FS_Injection

\* No hop leaves the list.
LEMMA ReachStays ==
  ASSUME Chain(FreeCells, next, next_free, Sentinel), next[Sentinel] = Null,
         NEW n \in 0 .. MaxCellCount
  PROVE  Reach[n] \subseteq FreeCells
<1>1. next_free \in FreeCells /\ \A c \in FreeCells : next[c] = Null \/ next[c] \in FreeCells
  BY DEF Chain, Ranks
<1>2. MaxCellCount \in Nat
  BY CellsPerBlockFacts, MPoolAssumption DEF MaxCellCount
<1> DEFINE K == {k \in Nat : k <= MaxCellCount => Reach[k] \subseteq FreeCells}
<1>3. 0 \in K
  BY <1>1, ReachIs
<1>4. ASSUME NEW k \in Nat, k \in K
      PROVE  k + 1 \in K
  <2> SUFFICES ASSUME k + 1 <= MaxCellCount PROVE Reach[k + 1] \subseteq FreeCells
    OBVIOUS
  <2>1. Reach[k] \subseteq FreeCells
    BY <1>2, <1>4
  <2>2. k + 1 \in 1 .. MaxCellCount /\ (k + 1) - 1 = k
    BY <1>2
  <2>3. Reach[k + 1] = Hop(next, Reach[k])
    BY <2>2, ReachIs
  <2> QED
    BY <1>1, <2>1, <2>3 DEF Hop
<1> HIDE DEF K
<1>5. Nat \subseteq K
  BY <1>3, <1>4, SetInduction
<1> QED
  BY <1>2, <1>5 DEF K

\* What was visited stays visited.
LEMMA ReachGrows ==
  ASSUME NEW n \in 0 .. MaxCellCount
  PROVE  Reach[n] \subseteq Reach[MaxCellCount]
<1>1. MaxCellCount \in Nat /\ n \in Nat
  BY CellsPerBlockFacts, MPoolAssumption DEF MaxCellCount
<1> DEFINE K == {k \in Nat : n + k <= MaxCellCount => Reach[n] \subseteq Reach[n + k]}
<1>2. 0 \in K
  BY <1>1
<1>3. ASSUME NEW k \in Nat, k \in K
      PROVE  k + 1 \in K
  <2> SUFFICES ASSUME n + (k + 1) <= MaxCellCount PROVE Reach[n] \subseteq Reach[n + (k + 1)]
    OBVIOUS
  <2>1. Reach[n] \subseteq Reach[n + k]
    BY <1>1, <1>3
  <2>2. n + (k + 1) \in 1 .. MaxCellCount /\ (n + (k + 1)) - 1 = n + k
    BY <1>1
  <2>3. Reach[n + (k + 1)] = Hop(next, Reach[n + k])
    BY <2>2, ReachIs
  <2> QED
    BY <2>1, <2>3 DEF Hop
<1> HIDE DEF K
<1>4. Nat \subseteq K
  BY <1>2, <1>3, SetInduction
<1>5. MaxCellCount - n \in K /\ n + (MaxCellCount - n) = MaxCellCount
  BY <1>1, <1>4
<1> QED
  BY <1>1, <1>5 DEF K

\* The cell whose rank is k below that of the head is visited after k hops.
LEMMA RankIsHops ==
  ASSUME NEW r \in [Cells -> Nat], FreeCells \subseteq Cells, next_free \in FreeCells,
         Ranks(r, FreeCells, next, next_free, Sentinel), r[next_free] < MaxCellCount,
         NEW c \in FreeCells
  PROVE  c \in Reach[r[next_free] - r[c]]
<1> DEFINE top == r[next_free]
<1>1. MaxCellCount \in Nat /\ top \in Nat /\ \A d \in FreeCells : r[d] \in Nat
  BY CellsPerBlockFacts, MPoolAssumption DEF MaxCellCount
<1> DEFINE K == {k \in Nat : k <= top => \E d \in FreeCells : r[d] = top - k /\ d \in Reach[k]}
<1>2. 0 \in K
  BY <1>1, ReachIs
<1>3. ASSUME NEW k \in Nat, k \in K
      PROVE  k + 1 \in K
  <2> SUFFICES ASSUME k + 1 <= top
               PROVE  \E d \in FreeCells : r[d] = top - (k + 1) /\ d \in Reach[k + 1]
    OBVIOUS
  <2>1. PICK d \in FreeCells : r[d] = top - k /\ d \in Reach[k]
    BY <1>1, <1>3
  <2>2. d # Sentinel
    BY <1>1, <2>1 DEF Ranks
  <2>3. next[d] \in FreeCells /\ r[d] = r[next[d]] + 1
    BY <2>2 DEF Ranks
  <2>4. k + 1 \in 1 .. MaxCellCount /\ (k + 1) - 1 = k
    BY <1>1
  <2>5. Reach[k + 1] = Hop(next, Reach[k])
    BY <2>4, ReachIs
  <2>6. next[d] # Null
    BY <2>3, CellsPerBlockFacts, MPoolAssumption DEF Cells, Null
  <2>7. next[d] \in Reach[k + 1]
    BY <2>1, <2>5, <2>6 DEF Hop
  <2>8. r[next[d]] = top - (k + 1)
    BY <1>1, <2>1, <2>3
  <2> QED
    BY <2>3, <2>7, <2>8
<1> HIDE DEF K
<1>4. Nat \subseteq K
  BY <1>2, <1>3, SetInduction
<1>5. r[c] <= top
  BY DEF Ranks
<1>6. top - r[c] \in Nat /\ top - r[c] <= top
  BY <1>1, <1>5
<1>7. PICK d \in FreeCells : r[d] = top - (top - r[c]) /\ d \in Reach[top - r[c]]
  BY <1>4, <1>6 DEF K
<1>8. r[d] = r[c]
  BY <1>1, <1>7
<1> QED
  BY <1>7, <1>8 DEF Ranks

-----------------------------------------------------------------------------
(* The theorems. *)

\* Every variable keeps its type: the pool never writes a pointer out of its
\* own bookkeeping (mpool_setup_new_block, mpool_malloc, mpool_free).
THEOREM TypeCorrect == Spec => []TypeOK
<1>1. IInv => TypeOK
  BY DEF IInv
<1> QED
  BY <1>1, Invariance, PTL

\* The spin lock excludes: see MutualExclusion in MPool.
THEOREM LockCorrect == Spec => []MutualExclusion
<1>1. IInv => MutualExclusion
  BY DEF IInv
<1> QED
  BY <1>1, Invariance, PTL

\* An item is never handed out twice, for any number of threads, any geometry
\* of the pool and any interleaving: see NoDoubleHandout in MPool.
THEOREM HandoutCorrect == Spec => []NoDoubleHandout
<1>1. ASSUME IInv PROVE NoDoubleHandout
  <2> SUFFICES ASSUME ~wild, NEW t \in Popped
               PROVE  /\ cell[t] \notin Owned
                      /\ \A u \in Popped : cell[u] = cell[t] => u = t
    BY DEF NoDoubleHandout
  <2>1. t \in Threads /\ pc[t] \in {"m_unlock", "m_clear"}
    BY DEF Popped
  <2>2. cell[t] \notin Owned
    BY <1>1, <2>1 DEF IInv, PcInv, OwnInv
  <2>3. \A u \in Popped : cell[u] = cell[t] => u = t
    BY <1>1, <2>1 DEF IInv, GripInv, Gripping, Popped
  <2> QED
    BY <2>2, <2>3
<1> QED
  BY <1>1, Invariance, PTL

\* No usable cell ever leaves circulation: see NoCellLost in MPool.
THEOREM NothingLost == Spec => []NoCellLost
<1>1. ASSUME IInv PROVE NoCellLost
  <2> SUFFICES ASSUME NEW c \in Usable
               PROVE  c \in FreeCells \cup InHand \cup Owned \cup Returning
    BY DEF NoCellLost
  <2>1. CASE next[c] = Null
    BY <1>1, <2>1 DEF IInv, NullInv
  <2>2. CASE next[c] # Null
    BY <1>1, <2>2, UsableFacts DEF IInv, FreeCells
  <2> QED
    BY <2>1, <2>2
<1> QED
  BY <1>1, Invariance, PTL

\* Whatever is called, interleaved and freed twice, the free list is one chain
\* from next_free over every free cell: see FreeListIsChain in MPool.
THEOREM FreeListStaysChain == Spec => []FreeListIsChain
<1>1. ASSUME IInv PROVE FreeListIsChain
  <2>1. Chain(FreeCells, next, next_free, Sentinel) /\ next[Sentinel] = Null
    BY <1>1, ListFacts DEF IInv, ListInv
  <2>2. FreeCells \subseteq Cells /\ next_free \in FreeCells /\ Sentinel \in FreeCells
    BY <2>1 DEF Chain
  <2>3. PICK r \in [Cells -> Nat] : Ranks(r, FreeCells, next, next_free, Sentinel)
    BY <2>1 DEF Chain
  <2>4. r[next_free] < MaxCellCount
    BY <2>2, <2>3, RanksAreBounded
  <2>5. MaxCellCount \in Nat /\ \A c \in FreeCells : r[c] \in Nat /\ r[c] <= r[next_free]
    BY <2>2, <2>3, CellsPerBlockFacts, MPoolAssumption DEF MaxCellCount, Ranks
  <2>6. Reach[MaxCellCount] \subseteq FreeCells
    BY <2>1, <2>5, ReachStays
  <2>7. \A c \in FreeCells : c \in Reach[r[next_free] - r[c]]
    BY <2>2, <2>3, <2>4, RankIsHops
  <2>8. \A c \in FreeCells : r[next_free] - r[c] \in 0 .. MaxCellCount
    BY <2>2, <2>4, <2>5
  <2>9. FreeCells \subseteq Reach[MaxCellCount]
    BY <2>7, <2>8, ReachGrows
  <2>10. ASSUME NEW c \in FreeCells, NEW d \in FreeCells, next[c] = next[d]
         PROVE  c = d
    <3>1. Null \notin FreeCells
      BY <1>1, <2>2, UsableFacts DEF IInv
    <3>2. \A k \in FreeCells : k # Sentinel => next[k] # Null
      BY <2>3, <3>1 DEF Ranks
    <3>3. CASE c # Sentinel /\ d # Sentinel
      <4>1. r[c] = r[next[c]] + 1 /\ r[d] = r[next[d]] + 1
        BY <2>3, <3>3 DEF Ranks
      <4> QED
        BY <2>3, <2>10, <4>1 DEF Ranks
    <3> QED
      BY <2>1, <2>10, <3>2, <3>3
  <2> QED
    BY <2>1, <2>6, <2>9, <2>10 DEF FreeListIsChain
<1> QED
  BY <1>1, Invariance, PTL

\* malloc fails only on a full pool: see NullOnlyWhenFull in MPool.
THEOREM FailsOnlyWhenFull == Spec => []NullOnlyWhenFull
<1>1. ASSUME IInv PROVE NullOnlyWhenFull
  <2> SUFFICES ASSUME NEW t \in Threads, pc[t] = "m_fail"
               PROVE  cur = BlockCount /\ Usable \cap FreeCells = {}
    BY DEF NullOnlyWhenFull
  <2>1. cur = BlockCount /\ next_free = Sentinel
    BY <1>1, ListFacts DEF IInv, PcInv
  <2>2. FreeCells = {Sentinel}
    BY <1>1, <2>1, ChainEmpty DEF IInv, ListInv
  <2> QED
    BY <1>1, <2>1, <2>2, UsableFacts DEF IInv
<1> QED
  BY <1>1, Invariance, PTL

\* A double free links nothing that is on the list or in a thread's hands:
\* see StaleFreeIgnored in MPool.
THEOREM StaleFreeHarmless == Spec => []StaleFreeIgnored
<1>1. ASSUME IInv PROVE StaleFreeIgnored
  <2> SUFFICES ASSUME NEW t \in Threads, pc[t] = "f_link"
               PROVE  /\ next[cell[t]] = Null
                      /\ cell[t] \notin FreeCells \cup InHand
                      /\ cell[t] \in Owned => wild
    BY DEF StaleFreeIgnored
  <2>1. next[cell[t]] = Null /\ (cell[t] \in Owned => wild)
    BY <1>1 DEF IInv, PcInv, OwnInv
  <2>2. cell[t] \in Usable
    BY <1>1 DEF IInv, CellInv, Holding
  <2>3. cell[t] # Sentinel /\ cell[t] \notin InHand
    BY <1>1, <2>1, <2>2, UsableFacts, InHandFacts DEF IInv
  <2> QED
    BY <2>1, <2>3 DEF FreeCells
<1> QED
  BY <1>1, Invariance, PTL

\* Items lie in committed memory: see ItemsCommitted in MPool.
THEOREM ItemsInMemory == Spec => []ItemsCommitted
<1>1. ASSUME IInv PROVE ItemsCommitted
  <2> SUFFICES ASSUME NEW c \in Usable
               PROVE  LET a == FreePtrToReal(c) IN
                      a >= Bgn /\ a + ItemSize <= Bgn + cur * BlockSize
    BY <1>1 DEF IInv, AddrInv, ItemsCommitted
  <2>1. /\ c \in Nat /\ cur \in Nat /\ cur * CellsPerBlock \in Nat
        /\ c < cur * CellsPerBlock
        /\ ItemSize \in Nat /\ BlockSize \in Nat /\ Bgn \in Nat
        /\ CellsPerBlock \in Nat /\ CellsPerBlock * ItemSize \in Nat
    BY <1>1, CellsPerBlockFacts, MPoolAssumption DEF IInv, TypeOK, Usable
  <2>2. c * ItemSize + ItemSize <= (cur * CellsPerBlock) * ItemSize
    BY <2>1, MulSucc
  <2>3. (cur * CellsPerBlock) * ItemSize = (CellsPerBlock * ItemSize) * cur
    BY <2>1
  <2>4. (CellsPerBlock * ItemSize) * cur <= BlockSize * cur
    BY <2>1, CellsPerBlockFacts, MulMono
  <2>5. BlockSize * cur = cur * BlockSize /\ c * ItemSize \in Nat
        /\ cur * BlockSize \in Nat
    BY <2>1
  <2> QED
    BY <2>1, <2>2, <2>3, <2>4, <2>5 DEF FreePtrToReal
<1> QED
  BY <1>1, Invariance, PTL

-----------------------------------------------------------------------------
(* Callers that free only what they own: the pool is an allocator. *)

GivingBack == {"f_lock", "f_test", "f_link"}

\* A cell on its way back is nobody's and on its way once.
LegalInv ==
  /\ ~wild
  /\ \A t \in Threads : pc[t] \in GivingBack =>
       cell[t] \notin Owned /\ next[cell[t]] = Null
  /\ \A t, u \in Threads :
       pc[t] \in GivingBack /\ pc[u] \in GivingBack /\ cell[t] = cell[u] => t = u

\* Callers that free only what they own keep it so that no free is wild
\* and that each cell on its way back is on it once.
LEMMA LegalStep ==
  ASSUME StaleFrees = FALSE, IInv, LegalInv, [Next]_vars
  PROVE  LegalInv'
<1> USE DEF IInv
<1>1. ASSUME UNCHANGED <<next, live, cell>>, ~wild',
             \A t \in Threads : pc'[t] \in GivingBack => pc[t] \in GivingBack
      PROVE  LegalInv'
  BY <1>1 DEF LegalInv, Owned
<1>2. CASE UNCHANGED vars
  BY <1>1, <1>2 DEF vars, LegalInv
<1>3. ASSUME NEW t \in Threads, NEW addr \in issued, Free(t, addr)
      PROVE  LegalInv'
  <2> DEFINE k == RealToFreePtr(addr)
  <2>1. /\ addr \in live /\ live' = live \ {addr}
        /\ cell' = [cell EXCEPT ![t] = k]
        /\ pc' = [pc EXCEPT ![t] = "f_lock"]
        /\ next' = next /\ wild' = wild
    BY <1>3 DEF Free, Goto, poolVars
  <2>2. k \in Owned /\ k \in Usable /\ next[k] = Null
    BY <2>1, IssuedFacts DEF Owned, OwnInv, LegalInv
  <2>3. addr = FreePtrToReal(k)
    BY <2>1, RoundTrip DEF TypeOK, Addresses
  <2>4. \A c \in Owned' : c \in Owned /\ c # k
    <3> TAKE c \in Owned'
    <3>1. PICK a \in live : a # addr /\ c = RealToFreePtr(a)
      BY <2>1 DEF Owned
    <3>2. a = FreePtrToReal(c)
      BY <3>1, RoundTrip DEF TypeOK, Addresses
    <3> QED
      BY <3>1, <3>2, <2>3 DEF Owned
  <2> HIDE DEF k
  <2>5. \A u \in Threads : u # t => pc'[u] = pc[u] /\ cell'[u] = cell[u]
    BY <2>1 DEF TypeOK
  <2>6. pc'[t] = "f_lock" /\ cell'[t] = k
    BY <2>1 DEF TypeOK
  <2> QED
    BY <2>1, <2>2, <2>4, <2>5, <2>6 DEF LegalInv
<1>4. ASSUME NEW t \in Threads,
             Malloc(t) \/ MallocLock(t) \/ MallocTest(t) \/ MallocPop(t)
               \/ MallocUnlock(t) \/ MallocFail(t) \/ FreeLock(t) \/ FreePush(t)
      PROVE  LegalInv'
  <2>1. \A u \in Threads : pc'[u] \in GivingBack => pc[u] \in GivingBack
    BY <1>4 DEF Malloc, MallocLock, MallocTest, Full, MallocPop, MallocUnlock,
       MallocFail, FreeLock, FreePush, Goto, GivingBack, TypeOK
  <2> QED
    BY <2>1, <1>1, <1>4 DEF Malloc, MallocLock, MallocTest, Full, MallocPop,
       MallocUnlock, MallocFail, FreeLock, FreePush, poolVars, LegalInv
<1>5. ASSUME NEW t \in Threads, MallocRead(t) \/ FreeUnlock(t)
      PROVE  LegalInv'
  <2>1. /\ UNCHANGED <<next, live, wild>>
        /\ pc'[t] \notin GivingBack
        /\ \A u \in Threads : u # t => pc'[u] = pc[u] /\ cell'[u] = cell[u]
    BY <1>5 DEF MallocRead, FreeUnlock, Goto, poolVars, GivingBack, TypeOK
  <2> QED
    BY <2>1 DEF LegalInv, Owned
<1>6. ASSUME NEW t \in Threads, SetupNewBlock(t)
      PROVE  LegalInv'
  <2>1. \A c \in Usable : next'[c] = next[c]
    <3>1. /\ cur \in 0 .. BlockCount - 1 /\ cur * CellsPerBlock \in Nat
      BY <1>6, CellsPerBlockFacts, MPoolAssumption DEF SetupNewBlock, LastOf, PcInv, TypeOK
    <3>2. \A c \in Usable : c \in Cells /\ c < cur * CellsPerBlock
      BY <3>1, UsableFacts DEF Usable
    <3> QED
      BY <1>6, <3>1, <3>2, UsableFacts, CellsPerBlockFacts DEF SetupNewBlock, LastOf
  <2>2. /\ UNCHANGED <<live, wild, cell>>
        /\ \A u \in Threads : pc'[u] \in GivingBack => pc[u] \in GivingBack
    BY <1>6 DEF SetupNewBlock, LastOf, Goto, GivingBack, TypeOK
  <2>3. \A u \in Threads : pc[u] \in GivingBack => cell[u] \in Usable
    BY DEF CellInv, Holding, GivingBack
  <2> QED
    BY <2>1, <2>2, <2>3 DEF LegalInv, Owned
<1>7. ASSUME NEW t \in Threads, MallocClear(t)
      PROVE  LegalInv'
  <2> DEFINE k == cell[t]
  <2>1. /\ k \in Cells /\ next[k] # Null /\ wild' = wild
        /\ next' = [next EXCEPT ![k] = Null]
        /\ live' = live \cup {FreePtrToReal(k)}
    BY <1>7, UsableFacts DEF MallocClear, Unlinked, CellInv, PcInv, Holding
  <2>2. Owned' = Owned \cup {k}
    BY <2>1, RoundTrip DEF Owned
  <2>3. /\ pc'[t] \notin GivingBack
        /\ \A u \in Threads : u # t => pc'[u] = pc[u] /\ cell'[u] = cell[u]
    BY <1>7 DEF MallocClear, Unlinked, Goto, GivingBack, TypeOK
  <2>4. \A u \in Threads : pc[u] \in GivingBack => cell[u] # k /\ cell[u] \in Cells
    BY <2>1, UsableFacts DEF LegalInv, CellInv, Holding, GivingBack
  <2> HIDE DEF k
  <2>5. \A u \in Threads : pc'[u] \in GivingBack =>
          /\ u # t /\ pc[u] \in GivingBack /\ cell'[u] = cell[u]
          /\ cell[u] \notin Owned' /\ next'[cell[u]] = Null
    BY <2>1, <2>2, <2>3, <2>4 DEF LegalInv, TypeOK
  <2> QED
    BY <2>1, <2>3, <2>5 DEF LegalInv
<1>8. ASSUME NEW t \in Threads, FreeTest(t)
      PROVE  LegalInv'
  <2>1. cell[t] \in Cells /\ cell[t] \notin Owned
    BY <1>8, UsableFacts DEF FreeTest, InUse, CellInv, Holding, LegalInv, GivingBack
  <2>2. ~wild'
    <3>1. FreePtrToReal(cell[t]) \notin live
      BY <2>1, OwnedFacts
    <3> QED
      BY <1>8, <3>1 DEF FreeTest, InUse, LegalInv
  <2>3. \A u \in Threads : pc'[u] \in GivingBack => pc[u] \in GivingBack
    BY <1>8 DEF FreeTest, InUse, Goto, GivingBack, TypeOK
  <2> QED
    BY <2>2, <2>3, <1>1, <1>8 DEF FreeTest, InUse, poolVars
<1>9. ASSUME NEW t \in Threads, FreeLink(t)
      PROVE  LegalInv'
  <2>1. /\ next' = [next EXCEPT ![cell[t]] = next_free]
        /\ UNCHANGED <<live, wild, cell>>
        /\ pc[t] = "f_link" /\ pc' = [pc EXCEPT ![t] = "f_push"]
    BY <1>9 DEF FreeLink, Goto
  <2>2. \A u \in Threads : pc[u] \in GivingBack /\ u # t => cell[u] # cell[t]
    BY <2>1 DEF LegalInv, GivingBack
  <2>3. \A u \in Threads : pc[u] \in GivingBack => cell[u] \in Cells
    BY UsableFacts DEF CellInv, Holding, GivingBack
  <2>4. \A u \in Threads : pc'[u] \in GivingBack =>
          pc[u] \in GivingBack /\ u # t /\ next'[cell[u]] = next[cell[u]]
    BY <2>1, <2>2, <2>3 DEF TypeOK, GivingBack
  <2> QED
    BY <2>1, <2>4 DEF LegalInv, Owned
<1> QED
  BY <1>2, <1>3, <1>4, <1>5, <1>6, <1>7, <1>8, <1>9 DEF Next, Call, Step

\* Items of different cells do not overlap.
LEMMA ItemsDisjoint ==
  ASSUME NEW c \in Cells, NEW d \in Cells, c # d
  PROVE  \/ FreePtrToReal(c) + ItemSize <= FreePtrToReal(d)
         \/ FreePtrToReal(d) + ItemSize <= FreePtrToReal(c)
<1>1. c \in Nat /\ d \in Nat /\ ItemSize \in Nat /\ Bgn \in Nat
  BY CellsPerBlockFacts, MPoolAssumption DEF Cells
<1>2. c * ItemSize + ItemSize <= d * ItemSize \/ d * ItemSize + ItemSize <= c * ItemSize
  BY <1>1, MulSucc
<1>3. c * ItemSize \in Nat /\ d * ItemSize \in Nat
  BY <1>1
<1> QED
  BY <1>1, <1>2, <1>3 DEF FreePtrToReal

\* The regions the abstract allocator sees.
Granted == {[addr |-> a, size |-> ItemSize] : a \in live}

\* Each step of the pool grants a region, releases one, or is a stutter.
LEMMA HeapStep ==
  ASSUME StaleFrees = FALSE, IInv, LegalInv, [Next]_vars
  PROVE  [Heap!Next]_Granted
<1> USE DEF IInv
<1>1. ASSUME live' = live PROVE [Heap!Next]_Granted
  BY <1>1 DEF Granted
<1>2. ASSUME NEW t \in Threads, MallocClear(t) PROVE Heap!Next
  <2> DEFINE k == cell[t]
  <2>1. /\ k \in Cells /\ next[k] # Null
        /\ live' = live \cup {FreePtrToReal(k)}
    BY <1>2, UsableFacts DEF MallocClear, Unlinked, CellInv, PcInv, Holding
  <2>2. PICK r \in Heap!Regions : r = [addr |-> FreePtrToReal(k), size |-> ItemSize]
    BY <2>1 DEF Heap!Regions, Addresses
  <2>3. ASSUME NEW a \in live
        PROVE  Heap!Disjoint(r, [addr |-> a, size |-> ItemSize])
    <3>1. PICK d \in Cells : a = FreePtrToReal(d)
      BY DEF TypeOK, Addresses
    <3>2. d \in Owned
      BY <3>1, OwnedFacts
    <3>3. d # k
      BY <3>2, <2>1 DEF OwnInv, LegalInv
    <3> QED
      BY <3>1, <3>3, <2>1, <2>2, ItemsDisjoint DEF Heap!Disjoint
  <2>4. Heap!Grant(r)
    BY <2>1, <2>2, <2>3 DEF Heap!Grant
  <2> QED
    BY <2>4 DEF Heap!Next
<1>3. ASSUME NEW t \in Threads, NEW addr \in issued, Free(t, addr) PROVE Heap!Next
  <2> DEFINE r == [addr |-> addr, size |-> ItemSize]
  <2>1. addr \in live /\ live' = live \ {addr}
    BY <1>3 DEF Free
  <2>2. r \in Heap!Regions
    BY <2>1 DEF Heap!Regions, TypeOK
  <2>3. Heap!Release(r)
    BY <2>1 DEF Heap!Release
  <2> QED
    BY <2>2, <2>3 DEF Heap!Next
<1>4. CASE UNCHANGED vars
  BY <1>4, <1>1 DEF vars
<1>5. ASSUME NEW t \in Threads, Malloc(t) PROVE live' = live
  BY <1>5 DEF Malloc
<1>6. ASSUME NEW t \in Threads, Step(t), ~MallocClear(t) PROVE live' = live
  BY <1>6 DEF Step, MallocLock, MallocTest, Full, SetupNewBlock, LastOf, MallocRead, MallocPop,
     MallocUnlock, MallocFail, FreeLock, FreeTest, InUse, FreeLink, FreePush, FreeUnlock
<1> QED
  BY <1>1, <1>2, <1>3, <1>4, <1>5, <1>6 DEF Next, Call

\* With callers that free only what they own, the pool is an allocator: it
\* grants regions that overlap nothing live and takes back live ones.
THEOREM Implementation ==
  ASSUME StaleFrees = FALSE
  PROVE  Spec => ImplementsAllocator
<1>1. Init => LegalInv /\ Heap!Init
  BY DEF Init, LegalInv, GivingBack, Heap!Init
<1>2. IInv /\ LegalInv /\ [Next]_vars => LegalInv' /\ [Heap!Next]_Granted
  BY LegalStep, HeapStep
<1> QED
  BY <1>1, <1>2, Invariance, PTL DEF Spec, ImplementsAllocator, Heap!Spec, Granted
=============================================================================
