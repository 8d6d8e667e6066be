------------------------- MODULE HeapReplacerProofs -------------------------
(***************************************************************************)
(* The game's calls are answered rightly for any threads, pools, sizes and *)
(* capacities, whichever pools were set up.                                *)
(*                                                                         *)
(* What the runs check of a call that returns is not inductive.  IInv says *)
(* at each place of a call what it holds (PlaceInv), that the region it    *)
(* moves is still the game's and as it was measured (OldInv), what is in   *)
(* the memory it got (NewInv), that no other call has its region (OneUser) *)
(* and what the game may rely on in the regions it owns (LiveInv).         *)
(***************************************************************************)
EXTENDS HeapReplacer, NaturalsInduction, WellFoundedInduction, TLAPS

Allocating == {"malloc", "calloc", "realloc", "recalloc"}
Moving     == {"realloc", "recalloc"}

\* The call of t answers with the region it was given.
Stays(t) == pc[t] = "return" /\ call[t].new = call[t].old.slot

\* The call of t still needs the region it was given.
Uses(t) == call[t].old # NoRegion /\ (pc[t] \in {"alloc", "copy", "free"} \/ Stays(t))

\* What a call is, wherever it is.
CallInv(t) ==
  LET c == call[t] IN
  /\ c.op \in {"none", "malloc", "calloc"} => c.old = NoRegion /\ c.old_size = 0
  /\ c.op \in Moving \cup {"free"} => c.old \in Region
  /\ c.op \in Allocating => c.size \in Requests
  /\ c.op \in {"none", "free"} => c.new = NoSlot

PlaceInv(t) ==
  LET c == call[t] IN
  /\ pc[t] = "idle" => c = NoCall
  /\ pc[t] = "alloc" => c.op \in Allocating /\ c.new = NoSlot
  /\ pc[t] = "alloc" /\ at[t] \in Pools => ItemSize[at[t]] >= c.size
  /\ pc[t] = "copy" => c.op \in Moving /\ c.new # c.old.slot
  /\ pc[t] = "free" => c.op \in Moving \cup {"free"} /\ c.new # c.old.slot
  /\ pc[t] = "return" => c.op # "none"
  /\ pc[t] = "crashed" => c.new = NoSlot

OldInv(t) ==
  LET c == call[t] IN
  c.op \in Moving =>
    /\ pc[t] \in {"alloc", "copy"} \/ Stays(t) =>
         c.old \in live /\ c.old_size = MemSize(c.old.slot)
    /\ pc[t] \in {"alloc", "copy"} => c.old_size < c.size
    /\ Stays(t) => c.old_size >= c.size

NewInv(t) ==
  LET c == call[t] IN
  c.new # NoSlot =>
    /\ Len(data[c.new]) >= c.size
    /\ c.op \in {"calloc", "recalloc"} =>
         \A i \in c.old_size + 1 .. c.size : data[c.new][i] = "zero"
    /\ c.op \in Moving /\ pc[t] # "copy" /\ c.old.slot[1] # OS =>
         \A i \in 1 .. c.size : i <= c.old.size => data[c.new][i] = "game"

ThreadInv(t) == CallInv(t) /\ PlaceInv(t) /\ OldInv(t) /\ NewInv(t)

\* hr_recalloc has cleared byte i of a region that it makes smaller.
Cleared(s, i) ==
  \E t \in Threads : /\ Stays(t) /\ call[t].op = "recalloc"
                     /\ call[t].new = s /\ i > call[t].size

LiveInv ==
  \A r \in live :
    /\ Len(data[r.slot]) >= r.size
    /\ \A i \in 1 .. r.size : data[r.slot][i] = "game" \/ Cleared(r.slot, i)

OneUser ==
  \A t, u \in Threads :
    t # u /\ Uses(t) /\ Uses(u) => call[t].old.slot # call[u].old.slot

IInv == SlotsAccounted /\ LiveInv /\ OneUser /\ \A t \in Threads : ThreadInv(t)

\* Each slot has its one place: SlotsAccounted but for the types.
Partition ==
  /\ Slots = free \cup LiveSlots \cup UNION {InHand(t) : t \in Threads}
  /\ free \cap LiveSlots = {}
  /\ \A r, q \in live : r.slot = q.slot => r = q
  /\ \A t \in Threads :
       /\ InHand(t) \cap (free \cup LiveSlots) = {}
       /\ \A u \in Threads \ {t} : InHand(t) \cap InHand(u) = {}

-----------------------------------------------------------------------------
(* The constants *)

\* Some numbers up to n have a least one.
LEMMA LeastExists ==
  ASSUME NEW n \in Nat, NEW S \in SUBSET (1 .. n), S # {}
  PROVE  \E x \in S : \A y \in S : x <= y
<1> DEFINE R == OpToRel(<, Nat)
<1>1. S \subseteq Nat
  OBVIOUS
<1>2. PICK x \in S : \A y \in S : <<y, x>> \notin R
  BY <1>1, NatLessThanWellFounded, WFMin, Zenon
<1>3. \A y \in S : ~(y < x)
  BY <1>1, <1>2 DEF OpToRel
<1> QED
  BY <1>1, <1>3

\* Rounding up to a unit reaches the number.
LEMMA RoundedUp ==
  ASSUME NEW n \in Nat, NEW u \in Nat \ {0}
  PROVE  /\ ((n + u - 1) \div u) * u \in Nat
         /\ ((n + u - 1) \div u) * u >= n
<1> DEFINE q == (n + u - 1) \div u
<1>1. q \in Int /\ n + u - 1 < (q + 1) * u
  BY SMT
<1>2. (q + 1) * u = q * u + u
  BY <1>1, SMT
<1> QED
  BY <1>1, <1>2

\* A function on 1 .. n is a sequence of length n.
LEMMA FunctionIsSeq ==
  ASSUME NEW n \in Nat, NEW S, NEW f \in [1 .. n -> S]
  PROVE  f \in Seq(S) /\ Len(f) = n /\ (f = <<>> <=> n = 0)
  BY SMT

\* And a sequence is a function on its places.
LEMMA SeqIsFunction ==
  ASSUME NEW S, NEW q \in Seq(S)
  PROVE  Len(q) \in Nat /\ q \in [1 .. Len(q) -> S] /\ (q = <<>> <=> Len(q) = 0)
  BY SMT

\* The pools are numbered from 1, behind them the default heap and the system.
LEMMA HeapNumbers ==
  /\ Len(ItemSize) \in Nat \ {0} /\ Pools = 1 .. Len(ItemSize)
  /\ DHeap \notin Pools /\ OS \notin Pools /\ DHeap # OS
  /\ \A h \in Pools : /\ h \in Heaps /\ ItemSize[h] \in Nat \ {0}
                      /\ h + 1 \in Pools \cup {DHeap}
  /\ MaxAlloc \in Nat \ {0}
<1>1. ItemSize \in Seq(Nat \ {0}) /\ ItemSize # <<>>
  BY HeapReplacerAssumption
<1>2. Len(ItemSize) \in Nat \ {0} /\ ItemSize \in [1 .. Len(ItemSize) -> Nat \ {0}]
  BY <1>1, SeqIsFunction
<1> QED
  BY <1>2 DEF Pools, DHeap, OS, Heaps, MaxAlloc

\* A slot lies in a heap; NULL is none, and no region is at NULL.
LEMMA SlotFacts ==
  /\ NoSlot \notin Slots
  /\ \A s \in Slots : s[1] \in Heaps
  /\ \A r \in Region : r.slot \in Slots /\ r.size \in Requests
  /\ NoRegion \notin Region
  BY HeapReplacerAssumption DEF Slots, Region, NoRegion

\* A request is for at least a byte.
LEMMA RequestFacts == \A n \in Requests : n \in Nat /\ n > 0
  BY HeapReplacerAssumption

\* The search starts at a heap whose memory is large enough.
LEMMA FirstHeapFits ==
  ASSUME NEW size \in Nat, up \in Working
  PROVE  /\ FirstHeap(size) \in Heaps
         /\ FirstHeap(size) \in Pools => ItemSize[FirstHeap(size)] >= size
<1>1. CASE size <= MaxAlloc
  <2> DEFINE fit == {h \in Pools : ItemSize[h] >= size}
             S   == IF fit \cap up = {} THEN fit ELSE fit \cap up
  <2>1. Len(ItemSize) \in fit
    BY <1>1, HeapNumbers DEF MaxAlloc
  <2>2. S \subseteq fit /\ S # {} /\ fit \subseteq 1 .. Len(ItemSize) /\ Len(ItemSize) \in Nat
    BY <2>1, HeapNumbers
  <2> HIDE DEF S
  <2>3. \E x \in S : \A y \in S : x <= y
    BY <2>2, LeastExists
  <2>4. Least(S) \in S
    BY <2>3 DEF Least
  <2>5. FirstPool(size) = Least(S)
    BY DEF FirstPool, S
  <2>6. FirstHeap(size) = FirstPool(size)
    BY <1>1 DEF FirstHeap
  <2> QED
    BY <2>2, <2>4, <2>5, <2>6, HeapNumbers
<1>2. CASE ~(size <= MaxAlloc)
  BY <1>2, HeapNumbers DEF FirstHeap, Heaps
<1> QED
  BY <1>1, <1>2

-----------------------------------------------------------------------------
(* What a call holds *)

\* The call that a thread is in, by its type.
LEMMA CallTypes ==
  ASSUME TypeOK, NEW t \in Threads
  PROVE  /\ pc[t] \in {"idle", "alloc", "copy", "free", "return", "crashed"}
         /\ call[t].op \in {"none", "malloc", "calloc", "realloc", "recalloc", "free"}
         /\ call[t].size \in Requests \cup {0} /\ call[t].size \in Nat
         /\ call[t].old \in Region \cup {NoRegion}
         /\ call[t].old_size \in Nat
         /\ call[t].new \in Slots \cup {NoSlot}
         /\ at[t] \in Heaps
  BY RequestFacts DEF TypeOK

\* Memory that a call answers with is its own, or the game's region still.
LEMMA NewIsHeld ==
  ASSUME IInv, NEW t \in Threads, call[t].new # NoSlot
  PROVE  /\ call[t].new \in Slots
         /\ \/ /\ Stays(t) /\ Uses(t) /\ call[t].op \in Moving
               /\ call[t].old \in live /\ call[t].new \in LiveSlots
            \/ call[t].new # call[t].old.slot /\ call[t].new \in InHand(t)
<1>1. TypeOK /\ ThreadInv(t)
  BY DEF IInv, SlotsAccounted
<1>2. CASE call[t].new = call[t].old.slot
  <2>1. pc[t] = "return"
    BY <1>1, <1>2, CallTypes DEF ThreadInv, PlaceInv, NoCall
  <2>2. call[t].old # NoRegion
    BY <1>2 DEF NoRegion
  <2>3. call[t].op \in Moving
    BY <1>1, <2>2, CallTypes DEF ThreadInv, CallInv, Moving
  <2>4. call[t].old \in live
    BY <1>1, <1>2, <2>1, <2>3 DEF ThreadInv, OldInv, Stays
  <2> QED
    BY <1>1, <1>2, <2>1, <2>2, <2>3, <2>4, CallTypes DEF Stays, Uses, LiveSlots
<1>3. CASE call[t].new # call[t].old.slot
  BY <1>1, <1>3, CallTypes DEF InHand
<1> QED
  BY <1>2, <1>3

\* A region that a call still needs is the game's, or about to be given back.
LEMMA OldIsHeld ==
  ASSUME IInv, NEW t \in Threads, Uses(t)
  PROVE  /\ call[t].old \in Region /\ call[t].old.slot \in Slots
         /\ \/ pc[t] = "free" /\ call[t].old.slot \in InHand(t)
            \/ /\ pc[t] # "free" /\ call[t].op \in Moving
               /\ call[t].old \in live /\ call[t].old.slot \in LiveSlots
               /\ call[t].old_size = MemSize(call[t].old.slot)
<1>1. TypeOK /\ ThreadInv(t)
  BY DEF IInv, SlotsAccounted
<1>2. call[t].old \in Region /\ call[t].old.slot \in Slots
  BY <1>1, CallTypes, SlotFacts DEF Uses
<1>3. CASE pc[t] = "free"
  BY <1>2, <1>3 DEF InHand
<1>4. CASE pc[t] # "free"
  <2>1. call[t].op \in {"malloc", "calloc", "realloc", "recalloc"}
    <3>1. CASE pc[t] = "alloc" \/ pc[t] = "copy"
      BY <1>1, <3>1 DEF ThreadInv, PlaceInv, Moving, Allocating
    <3>2. CASE Stays(t)
      <4>1. call[t].new # NoSlot
        BY <1>2, <3>2, SlotFacts DEF Stays
      <4> QED
        BY <3>2, <4>1, NewIsHeld DEF Moving, Stays
    <3> QED
      BY <1>4, <3>1, <3>2 DEF Uses
  <2>2. call[t].op \in Moving
    BY <1>1, <2>1 DEF ThreadInv, CallInv, Uses, Moving
  <2>3. call[t].old \in live /\ call[t].old_size = MemSize(call[t].old.slot)
    BY <1>1, <1>4, <2>2 DEF ThreadInv, OldInv, Uses
  <2> QED
    BY <1>2, <1>4, <2>2, <2>3 DEF LiveSlots
<1> QED
  BY <1>3, <1>4

\* Slots in the hands of a call are neither free nor the game's, nor another's.
LEMMA HandsApart ==
  ASSUME IInv, NEW t \in Threads
  PROVE  /\ InHand(t) \cap free = {} /\ InHand(t) \cap LiveSlots = {}
         /\ free \cap LiveSlots = {}
         /\ \A u \in Threads \ {t} : InHand(t) \cap InHand(u) = {}
  BY DEF IInv, SlotsAccounted

\* Two calls have nothing in common.
LEMMA CallsApart ==
  ASSUME IInv, NEW t \in Threads, NEW u \in Threads \ {t}
  PROVE  /\ call[t].new # NoSlot => call[t].new # call[u].new
         /\ call[t].new # NoSlot /\ Uses(u) => call[t].new # call[u].old.slot
         /\ call[u].new # NoSlot /\ Uses(t) => call[u].new # call[t].old.slot
         /\ Uses(t) /\ Uses(u) => call[t].old.slot # call[u].old.slot
<1>1. Uses(t) /\ Uses(u) => call[t].old.slot # call[u].old.slot
  BY DEF IInv, OneUser
<1>2. ASSUME NEW v \in Threads, NEW w \in Threads \ {v},
             call[v].new # NoSlot, Uses(w), call[v].new = call[w].old.slot
      PROVE  FALSE
  <2>1. CASE Uses(v) /\ Stays(v)
    BY <1>2, <2>1 DEF IInv, OneUser, Stays
  <2>2. CASE call[v].new \in InHand(v)
    BY <1>2, <2>2, OldIsHeld, HandsApart
  <2> QED
    BY <1>2, <2>1, <2>2, NewIsHeld
<1>3. ASSUME call[t].new # NoSlot, call[t].new = call[u].new PROVE FALSE
  <2>1. CASE Uses(t) /\ Stays(t)
    BY <1>2, <1>3, <2>1 DEF Stays
  <2>2. CASE Uses(u) /\ Stays(u)
    BY <1>2, <1>3, <2>2 DEF Stays
  <2>3. CASE call[t].new \in InHand(t) /\ call[u].new \in InHand(u)
    BY <1>3, <2>3, HandsApart
  <2> QED
    BY <1>3, <2>1, <2>2, <2>3, NewIsHeld
<1> QED
  BY <1>1, <1>2, <1>3

\* A call is not disturbed by a step of another thread that leaves it alone.
LEMMA Undisturbed ==
  ASSUME IInv, NEW u \in Threads,
         pc'[u] = pc[u], call'[u] = call[u], at'[u] = at[u],
         call[u].new # NoSlot => data'[call[u].new] = data[call[u].new],
         Uses(u) /\ call[u].old \in live =>
           call[u].old \in live' /\ Len(data'[call[u].old.slot]) = Len(data[call[u].old.slot])
  PROVE  ThreadInv(u)'
<1>1. ThreadInv(u)
  BY DEF IInv
<1>2. CallInv(u)' /\ PlaceInv(u)'
  BY <1>1 DEF ThreadInv, CallInv, PlaceInv
<1>3. OldInv(u)'
  <2>1. ASSUME call[u].op \in Moving, pc[u] \in {"alloc", "copy"} \/ Stays(u)
        PROVE  call[u].old \in live /\ call[u].old_size = MemSize(call[u].old.slot) /\ Uses(u)
    BY <1>1, <2>1, SlotFacts DEF ThreadInv, OldInv, CallInv, Uses
  <2> QED
    BY <1>1, <2>1 DEF ThreadInv, OldInv, Stays, MemSize
<1>4. NewInv(u)'
  BY <1>1 DEF ThreadInv, NewInv
<1> QED
  BY <1>2, <1>3, <1>4 DEF ThreadInv

-----------------------------------------------------------------------------
(* What every step has in common: thread t moves, the others stay put.     *)

OthersStay(t) ==
  \A u \in Threads \ {t} : pc'[u] = pc[u] /\ call'[u] = call[u] /\ at'[u] = at[u]

\* A step of t leaves alone what the other calls hold and need.
Spares(t) ==
  \A u \in Threads \ {t} :
    /\ call[u].new # NoSlot => data'[call[u].new] = data[call[u].new]
    /\ Uses(u) /\ call[u].old \in live =>
         /\ call[u].old \in live'
         /\ Len(data'[call[u].old.slot]) = Len(data[call[u].old.slot])

\* Each slot still has its one place.
Accounted(t) ==
  /\ free' \cup LiveSlots' \cup InHand(t)' = free \cup LiveSlots \cup InHand(t)
  /\ free' \cap LiveSlots' = {}
  /\ InHand(t)' \cap (free' \cup LiveSlots') = {}
  /\ \A r, q \in live' : r.slot = q.slot => r = q

\* What is to be shown of a step of t.
LEMMA StepKeeps ==
  ASSUME IInv, NEW t \in Threads, TypeOK', OthersStay(t), Spares(t), Accounted(t), LiveInv',
         Uses(t)' => \A u \in Threads \ {t} : Uses(u) => call[u].old.slot # call'[t].old.slot,
         ThreadInv(t)'
  PROVE  IInv'
<1>1. \A u \in Threads \ {t} : InHand(u)' = InHand(u) /\ (Uses(u)' <=> Uses(u))
  BY DEF OthersStay, InHand, Uses, Stays
<1>2. SlotsAccounted'
  <2> DEFINE others == UNION {InHand(u) : u \in Threads \ {t}}
  <2>1. UNION {InHand(u) : u \in Threads} = InHand(t) \cup others
    OBVIOUS
  <2>2. UNION {InHand(u)' : u \in Threads} = InHand(t)' \cup others
    BY <1>1
  <2>3. Slots = free \cup LiveSlots \cup InHand(t) \cup others
    BY <2>1 DEF IInv, SlotsAccounted
  <2>4. \A u \in Threads \ {t} : /\ InHand(u) \cap (free \cup LiveSlots \cup InHand(t)) = {}
                                 /\ \A v \in Threads \ {u} : InHand(u) \cap InHand(v) = {}
    BY DEF IInv, SlotsAccounted
  <2>5. Slots = free' \cup LiveSlots' \cup UNION {InHand(u)' : u \in Threads}
    BY <2>2, <2>3 DEF Accounted
  <2>6. \A u \in Threads \ {t} : InHand(u)' \cap (free' \cup LiveSlots' \cup InHand(t)') = {}
    BY <1>1, <2>4 DEF Accounted
  <2>7. ASSUME NEW u \in Threads
        PROVE  /\ InHand(u)' \cap (free' \cup LiveSlots') = {}
               /\ \A v \in Threads \ {u} : InHand(u)' \cap InHand(v)' = {}
    <3>1. CASE u = t
      BY <2>6, <3>1 DEF Accounted
    <3>2. CASE u # t
      <4>1. ASSUME NEW v \in Threads \ {u} PROVE InHand(u)' \cap InHand(v)' = {}
        BY <1>1, <2>4, <2>6, <3>2
      <4> QED
        BY <2>6, <3>2, <4>1
    <3> QED
      BY <3>1, <3>2
  <2> QED
    BY <2>5, <2>7 DEF SlotsAccounted, Accounted
<1>3. OneUser'
  <2> SUFFICES ASSUME NEW u \in Threads, NEW v \in Threads, u # v, Uses(u)', Uses(v)'
               PROVE  call'[u].old.slot # call'[v].old.slot
    BY DEF OneUser
  <2>1. CASE u # t /\ v # t
    BY <1>1, <2>1 DEF IInv, OneUser, OthersStay
  <2>2. CASE u = t
    BY <1>1, <2>2 DEF OthersStay
  <2>3. CASE v = t
    BY <1>1, <2>3 DEF OthersStay
  <2> QED
    BY <2>1, <2>2, <2>3
<1>4. ASSUME NEW u \in Threads PROVE ThreadInv(u)'
  <2>1. CASE u # t
    BY <2>1, Undisturbed DEF OthersStay, Spares
  <2> QED
    BY <2>1
<1> QED
  BY <1>2, <1>3, <1>4 DEF IInv

\* The game's regions are as they were, or given up.
LEMMA LiveKept ==
  ASSUME IInv, NEW t \in Threads, OthersStay(t), pc[t] # "return", live' \subseteq live,
         \A r \in live' : data'[r.slot] = data[r.slot]
  PROVE  LiveInv'
<1>1. \A s, i : Cleared(s, i) => Cleared(s, i)'
  BY DEF Cleared, OthersStay, Stays
<1>2. ASSUME NEW r \in live' PROVE
        /\ Len(data'[r.slot]) >= r.size
        /\ \A i \in 1 .. r.size : data'[r.slot][i] = "game" \/ Cleared(r.slot, i)'
  BY <1>1 DEF IInv, LiveInv
<1> QED
  BY <1>2 DEF LiveInv

\* Memory that changes is of no other call when t has it, or it is free.
LEMMA TouchesOwn ==
  ASSUME IInv, NEW t \in Threads, NEW s \in Slots,
         s \in free \/ s \in InHand(t) \/ s = call[t].new \/ (Uses(t) /\ s = call[t].old.slot),
         NEW u \in Threads \ {t}
  PROVE  /\ call[u].new # NoSlot => call[u].new # s
         /\ Uses(u) => call[u].old.slot # s
<1>1. s # NoSlot
  BY SlotFacts
<1>2. CASE s \in free
  BY <1>2, NewIsHeld, OldIsHeld, HandsApart
<1>3. CASE s = call[t].new \/ (Uses(t) /\ s = call[t].old.slot)
  BY <1>1, <1>3, CallsApart
<1>4. CASE s \in InHand(t)
  <2>1. s = call[t].new \/ (pc[t] = "free" /\ s = call[t].old.slot)
    BY <1>4 DEF InHand
  <2>2. pc[t] = "free" /\ call[t].old.slot # NoSlot => Uses(t)
    BY DEF Uses, NoRegion
  <2> QED
    BY <1>1, <1>3, <2>1, <2>2
<1> QED
  BY <1>2, <1>3, <1>4

-----------------------------------------------------------------------------
(* The calls begin *)

CallType ==
  [op       : {"none", "malloc", "calloc", "realloc", "recalloc", "free"},
   size     : Requests \cup {0},
   old      : Region \cup {NoRegion},
   old_size : Nat,
   new      : Slots \cup {NoSlot}]

Bytes == Seq({"game", "zero", "junk"})

\* The memory of slots is a sequence of bytes; what is given out has some.
LEMMA DataFacts ==
  ASSUME TypeOK, NEW s \in Slots
  PROVE  /\ data[s] \in Bytes /\ Len(data[s]) \in Nat
         /\ data[s] \in [1 .. Len(data[s]) -> {"game", "zero", "junk"}]
         /\ s \in free <=> Len(data[s]) = 0
         /\ MemSize(s) \in Nat
<1>1. data[s] \in Seq({"game", "zero", "junk"}) /\ (s \in free <=> data[s] = <<>>)
  BY DEF TypeOK
<1> QED
  BY <1>1, SeqIsFunction DEF Bytes, MemSize

\* A thread that begins a call had none.
LEMMA Entered ==
  ASSUME IInv, NEW t \in Threads, NEW c \in CallType,
         NEW l \in {"alloc", "free", "return"}, Enter(t, c, l), up' = up
  PROVE  /\ pc[t] = "idle" /\ call[t] = NoCall
         /\ InHand(t) = {} /\ ~Uses(t)
         /\ pc'[t] = l /\ call'[t] = c /\ at'[t] = FirstHeap(c.size)
         /\ OthersStay(t)
         /\ up' \in Working
         /\ pc' \in [Threads -> {"idle", "alloc", "copy", "free", "return", "crashed"}]
         /\ call' \in [Threads -> CallType]
         /\ at' \in [Threads -> Heaps]
<1>1. TypeOK /\ ThreadInv(t)
  BY DEF IInv, SlotsAccounted
<1>2. pc[t] = "idle" /\ call[t] = NoCall
  BY <1>1 DEF Enter, ThreadInv, PlaceInv
<1>3. InHand(t) = {} /\ ~Uses(t)
  BY <1>2 DEF InHand, Uses, NoCall, NoRegion, Stays
<1>4. up \in Working /\ c.size \in Nat
  BY <1>1, RequestFacts DEF TypeOK, CallType
<1>5. FirstHeap(c.size) \in Heaps
  BY <1>4, FirstHeapFits
<1> QED
  BY <1>1, <1>2, <1>3, <1>4, <1>5 DEF Enter, Goto, TypeOK, CallType, OthersStay

\* A region that a call may begin with is the game's, and no other call's.
LEMMA QuietFacts ==
  ASSUME IInv, NEW r \in Quiet
  PROVE  /\ r \in live /\ r \in Region /\ r.slot \in Slots /\ r.slot \in LiveSlots
         /\ r.slot \notin free /\ r # NoRegion
         /\ \A u \in Threads : /\ Uses(u) => call[u].old.slot # r.slot
                               /\ call[u].new # r.slot
<1>1. TypeOK /\ r \in live /\ r \in Region /\ r.slot \in Slots /\ r.slot \in LiveSlots
  BY SlotFacts DEF Quiet, IInv, SlotsAccounted, TypeOK, LiveSlots
<1>2. r.slot \notin free
  BY <1>1 DEF IInv, SlotsAccounted
<1>3. ASSUME NEW u \in Threads, Uses(u) PROVE call[u].old.slot # r.slot
  BY <1>1, <1>3 DEF Quiet, LetsGo, Uses, Stays
<1>4. ASSUME NEW u \in Threads, call[u].new = r.slot PROVE FALSE
  <2>1. call[u].new # NoSlot
    BY <1>1, <1>4, SlotFacts
  <2> QED
    BY <1>1, <1>3, <1>4, <2>1, NewIsHeld, HandsApart DEF Stays
<1> QED
  BY <1>1, <1>2, <1>3, <1>4, SlotFacts

\* What a call of hr_realloc, hr_recalloc or hr_free is.
LEMMA ResizeFacts ==
  ASSUME IInv, NEW op \in {"realloc", "recalloc", "free"}, NEW r \in Quiet,
         NEW size \in Requests \cup {0}, NEW new \in {r.slot, NoSlot}
  PROVE  Resize(op, r, size, new) \in CallType
<1>1. TypeOK /\ r \in Region /\ r.slot \in Slots
  BY QuietFacts DEF IInv, SlotsAccounted
<1> QED
  BY <1>1, DataFacts DEF Resize, CallType

\* hr_malloc and hr_calloc are called.
LEMMA ObtainKeeps ==
  ASSUME IInv, NEW t \in Threads, NEW op \in {"malloc", "calloc"}, NEW size \in Requests,
         Obtain(t, op, size)
  PROVE  IInv'
<1> DEFINE c == [NoCall EXCEPT !.op = op, !.size = size]
<1>1. c \in CallType
  BY DEF CallType, NoCall
<1>2. /\ c.op = op /\ c.size = size /\ c.old = NoRegion
      /\ c.old_size = 0 /\ c.new = NoSlot
  BY DEF NoCall
<1>3. Enter(t, c, "alloc") /\ up' = up /\ free' = free /\ data' = data /\ live' = live
  BY DEF Obtain
<1> HIDE DEF c
<1>4. /\ pc[t] = "idle" /\ InHand(t) = {}
      /\ pc'[t] = "alloc" /\ call'[t] = c /\ at'[t] = FirstHeap(c.size)
      /\ OthersStay(t)
      /\ up' \in Working
      /\ pc' \in [Threads -> {"idle", "alloc", "copy", "free", "return", "crashed"}]
      /\ call' \in [Threads -> CallType]
      /\ at' \in [Threads -> Heaps]
  BY <1>1, <1>3, Entered
<1>5. TypeOK'
  BY <1>3, <1>4 DEF IInv, SlotsAccounted, TypeOK, CallType
<1>6. LiveInv'
  BY <1>3, <1>4, LiveKept
<1>7. Spares(t)
  BY <1>3 DEF Spares
<1>8. InHand(t)' = {} /\ ~Uses(t)'
  BY <1>2, <1>4 DEF InHand, Uses, NoRegion
<1>9. Accounted(t)
  BY <1>3, <1>4, <1>8 DEF Accounted, LiveSlots, IInv, SlotsAccounted
<1>10. at'[t] \in Pools => ItemSize[at'[t]] >= size
  <2>1. size \in Nat /\ up \in Working
    BY RequestFacts DEF IInv, SlotsAccounted, TypeOK
  <2> QED
    BY <1>2, <1>4, <2>1, FirstHeapFits
<1>11. ThreadInv(t)'
  BY <1>2, <1>4, <1>10 DEF ThreadInv, CallInv, PlaceInv, OldInv, NewInv, Moving, Allocating
<1> QED
  BY <1>4, <1>5, <1>6, <1>7, <1>8, <1>9, <1>11, StepKeeps

\* A region stays where it is; only hr_recalloc changes what is behind its size.
LEMMA InPlaceKeeps ==
  ASSUME IInv, NEW t \in Threads, NEW op \in Moving, NEW size \in Requests, NEW r \in Quiet,
         InPlace(r, size), Enter(t, Resize(op, r, size, r.slot), "return"),
         up' = up, free' = free, live' = live,
         data' = [data EXCEPT ![r.slot] = data'[r.slot]],
         data'[r.slot] \in [1 .. Len(data[r.slot]) -> {"game", "zero", "junk"}],
         \A i \in 1 .. Len(data[r.slot]) : i <= size \/ op # "recalloc" =>
           data'[r.slot][i] = data[r.slot][i]
  PROVE  IInv'
<1> DEFINE c == Resize(op, r, size, r.slot)
           n == Len(data[r.slot])
<1>1. c \in CallType
  BY ResizeFacts DEF Moving
<1>2. /\ c.op = op /\ c.size = size /\ c.old = r
      /\ c.old_size = MemSize(r.slot) /\ c.new = r.slot
  BY DEF Resize
<1> HIDE DEF c
<1>3. /\ pc[t] = "idle" /\ InHand(t) = {}
      /\ pc'[t] = "return" /\ call'[t] = c
      /\ OthersStay(t)
      /\ up' \in Working
      /\ pc' \in [Threads -> {"idle", "alloc", "copy", "free", "return", "crashed"}]
      /\ call' \in [Threads -> CallType]
      /\ at' \in [Threads -> Heaps]
  BY <1>1, Entered DEF c
<1>4. TypeOK /\ Partition /\ LiveInv /\ size \in Nat /\ size > 0
  BY RequestFacts DEF IInv, SlotsAccounted, Partition
<1>5. /\ r \in live /\ r \in Region /\ r.slot \in Slots /\ r.slot \in LiveSlots
      /\ r.slot \notin free /\ r # NoRegion /\ r.size \in Nat
      /\ \A u \in Threads : /\ Uses(u) => call[u].old.slot # r.slot
                            /\ call[u].new # r.slot
  BY QuietFacts, RequestFacts, SlotFacts
<1>6. n \in Nat /\ r.slot[1] # OS /\ n >= size /\ MemSize(r.slot) = n
  BY <1>4, <1>5, DataFacts DEF InPlace, MemSize
<1>7. /\ data'[r.slot] \in Bytes /\ Len(data'[r.slot]) = n
      /\ data'[r.slot] # <<>> /\ data[r.slot] # <<>>
  BY <1>4, <1>5, <1>6, FunctionIsSeq, DataFacts DEF Bytes
<1>8. \A s \in Slots : s # r.slot => data'[s] = data[s]
  BY <1>4 DEF TypeOK
<1>9. TypeOK'
  <2>1. ASSUME NEW s \in Slots
        PROVE  /\ data'[s] \in Seq({"game", "zero", "junk"})
               /\ s \in free' <=> data'[s] = <<>>
               /\ s \notin free' /\ s[1] \in Pools => Len(data'[s]) = ItemSize[s[1]]
    BY <1>4, <1>5, <1>7, <1>8 DEF TypeOK, Bytes
  <2>2. data' \in [Slots -> Seq({"game", "zero", "junk"})]
    BY <1>4, <2>1 DEF TypeOK
  <2> QED
    BY <1>3, <1>4, <2>1, <2>2 DEF TypeOK, CallType
<1>10. LiveInv'
  <2>1. \A s, i : Cleared(s, i) => Cleared(s, i)'
    BY <1>3 DEF Cleared, OthersStay, Stays
  <2>2. ASSUME NEW q \in live, q # r
        PROVE  /\ Len(data'[q.slot]) >= q.size
               /\ \A i \in 1 .. q.size : data'[q.slot][i] = "game" \/ Cleared(q.slot, i)'
    <3>1. q.slot \in Slots /\ q.slot # r.slot
      BY <1>4, <1>5, <2>2, SlotFacts DEF Partition, TypeOK
    <3>2. data'[q.slot] = data[q.slot]
      BY <1>8, <3>1
    <3> QED
      BY <1>4, <2>1, <3>2 DEF LiveInv
  <2>3. \A i : ~Cleared(r.slot, i)
    BY <1>5 DEF Cleared
  <2>4. ASSUME NEW i \in 1 .. r.size
        PROVE  data'[r.slot][i] = "game" \/ Cleared(r.slot, i)'
    <3>1. data[r.slot][i] = "game" /\ i \in 1 .. n
      BY <1>4, <1>5, <1>6, <2>3 DEF LiveInv
    <3>2. CASE i <= size \/ op # "recalloc"
      BY <3>1, <3>2
    <3>3. CASE i > size /\ op = "recalloc"
      BY <1>2, <1>3, <3>3 DEF Cleared, Stays
    <3> QED
      BY <1>4, <3>2, <3>3
  <2>5. Len(data'[r.slot]) >= r.size
    BY <1>4, <1>5, <1>7 DEF LiveInv
  <2> QED
    BY <2>2, <2>4, <2>5 DEF LiveInv
<1>11. Spares(t)
  <2> SUFFICES ASSUME NEW u \in Threads \ {t}
               PROVE  /\ call[u].new # NoSlot => data'[call[u].new] = data[call[u].new]
                      /\ Uses(u) => Len(data'[call[u].old.slot]) = Len(data[call[u].old.slot])
    BY DEF Spares
  <2>1. call[u].new # NoSlot => call[u].new \in Slots
    BY NewIsHeld
  <2>2. Uses(u) => call[u].old.slot \in Slots
    BY OldIsHeld
  <2> QED
    BY <1>5, <1>8, <2>1, <2>2
<1>12. InHand(t)' = {}
  BY <1>2, <1>3 DEF InHand
<1>13. Accounted(t)
  BY <1>3, <1>4, <1>12 DEF Accounted, LiveSlots, Partition
<1>14. NewInv(t)'
  <2>1. \A i \in 1 .. size : i <= r.size => data'[r.slot][i] = "game"
    <3> SUFFICES ASSUME NEW i \in 1 .. size, i <= r.size PROVE data'[r.slot][i] = "game"
      OBVIOUS
    <3>1. data[r.slot][i] = "game"
      BY <1>4, <1>5 DEF LiveInv, Cleared
    <3> QED
      BY <1>4, <1>6, <3>1
  <2> QED
    BY <1>2, <1>3, <1>4, <1>6, <1>7, <2>1 DEF NewInv
<1>15. ThreadInv(t)'
  BY <1>2, <1>3, <1>4, <1>5, <1>6, <1>7, <1>14
  DEF ThreadInv, CallInv, PlaceInv, OldInv, Moving, Allocating, Stays, MemSize
<1> QED
  BY <1>2, <1>3, <1>5, <1>9, <1>10, <1>11, <1>13, <1>15, StepKeeps

\* hr_realloc leaves a region that is large enough where it is.
LEMMA ReallocInPlaceKeeps ==
  ASSUME IInv, NEW t \in Threads, NEW size \in Requests, NEW r \in Quiet,
         ReallocInPlace(t, r, size)
  PROVE  IInv'
<1>1. TypeOK /\ r.slot \in Slots
  BY QuietFacts DEF IInv, SlotsAccounted
<1>2. data[r.slot] \in [1 .. Len(data[r.slot]) -> {"game", "zero", "junk"}]
  BY <1>1, DataFacts
<1> QED
  BY <1>1, <1>2, InPlaceKeeps DEF ReallocInPlace, Moving, TypeOK

\* So does hr_recalloc, and clears what is behind the new size.
LEMMA RecallocInPlaceKeeps ==
  ASSUME IInv, NEW t \in Threads, NEW size \in Requests, NEW r \in Quiet,
         RecallocInPlace(t, r, size)
  PROVE  IInv'
<1>1. TypeOK /\ r.slot \in Slots
  BY QuietFacts DEF IInv, SlotsAccounted
<1>2. data[r.slot] \in [1 .. Len(data[r.slot]) -> {"game", "zero", "junk"}]
  BY <1>1, DataFacts
<1>3. ClearTail(r.slot, size) \in [1 .. Len(data[r.slot]) -> {"game", "zero", "junk"}]
  BY <1>2 DEF ClearTail
<1>4. data'[r.slot] = ClearTail(r.slot, size)
  BY <1>1 DEF RecallocInPlace, TypeOK
<1>5. data' = [data EXCEPT ![r.slot] = data'[r.slot]]
  BY <1>4 DEF RecallocInPlace
<1>6. \A i \in 1 .. Len(data[r.slot]) : i <= size => data'[r.slot][i] = data[r.slot][i]
  BY <1>4, RequestFacts DEF ClearTail
<1> QED
  BY <1>3, <1>4, <1>5, <1>6, InPlaceKeeps DEF RecallocInPlace, Moving

\* A region must move: memory for it is asked for.
LEMMA MoveKeeps ==
  ASSUME IInv, NEW t \in Threads, NEW op \in Moving, NEW r \in Quiet, NEW size \in Requests,
         Move(t, op, r, size)
  PROVE  IInv'
<1> DEFINE c == Resize(op, r, size, NoSlot)
<1>1. c \in CallType
  BY ResizeFacts DEF Moving
<1>2. /\ c.op = op /\ c.size = size /\ c.old = r
      /\ c.old_size = MemSize(r.slot) /\ c.new = NoSlot
  BY DEF Resize
<1>3. /\ Enter(t, c, "alloc") /\ ~InPlace(r, size)
      /\ up' = up /\ free' = free /\ data' = data /\ live' = live
  BY DEF Move
<1> HIDE DEF c
<1>4. /\ pc[t] = "idle" /\ InHand(t) = {}
      /\ pc'[t] = "alloc" /\ call'[t] = c /\ at'[t] = FirstHeap(size)
      /\ OthersStay(t)
      /\ up' \in Working
      /\ pc' \in [Threads -> {"idle", "alloc", "copy", "free", "return", "crashed"}]
      /\ call' \in [Threads -> CallType]
      /\ at' \in [Threads -> Heaps]
  BY <1>1, <1>2, <1>3, Entered
<1>5. TypeOK /\ Partition /\ size \in Nat
  BY RequestFacts DEF IInv, SlotsAccounted, Partition
<1>6. /\ r \in live /\ r \in Region /\ r # NoRegion
      /\ \A u \in Threads : Uses(u) => call[u].old.slot # r.slot
  BY QuietFacts
<1>7. MemSize(r.slot) \in Nat /\ MemSize(r.slot) < size
  BY <1>3, <1>5, <1>6, SlotFacts, DataFacts DEF InPlace
<1>8. TypeOK'
  BY <1>3, <1>4, <1>5 DEF TypeOK, CallType
<1>9. LiveInv'
  BY <1>3, <1>4, LiveKept
<1>10. Spares(t)
  BY <1>3 DEF Spares
<1>11. InHand(t)' = {}
  BY <1>2, <1>4 DEF InHand
<1>12. Accounted(t)
  BY <1>3, <1>4, <1>5, <1>11 DEF Accounted, LiveSlots, Partition
<1>13. at'[t] \in Pools => ItemSize[at'[t]] >= size
  BY <1>4, <1>5, FirstHeapFits DEF TypeOK
<1>14. ThreadInv(t)'
  BY <1>2, <1>3, <1>4, <1>6, <1>7, <1>13
  DEF ThreadInv, CallInv, PlaceInv, OldInv, NewInv, Moving, Allocating, Stays, MemSize
<1> QED
  BY <1>2, <1>4, <1>6, <1>8, <1>9, <1>10, <1>12, <1>14, StepKeeps

\* The game gives a region up.
LEMMA FreeKeeps ==
  ASSUME IInv, NEW t \in Threads, NEW r \in Quiet, Free(t, r)
  PROVE  IInv'
<1> DEFINE c == Resize("free", r, 0, NoSlot)
<1>1. c \in CallType
  BY ResizeFacts
<1>2. c.op = "free" /\ c.size = 0 /\ c.old = r /\ c.new = NoSlot
  BY DEF Resize
<1>3. /\ Enter(t, c, "free")
      /\ up' = up /\ free' = free /\ data' = data /\ live' = live \ {r}
  BY DEF Free
<1> HIDE DEF c
<1>4. /\ pc[t] = "idle" /\ InHand(t) = {}
      /\ pc'[t] = "free" /\ call'[t] = c
      /\ OthersStay(t)
      /\ up' \in Working
      /\ pc' \in [Threads -> {"idle", "alloc", "copy", "free", "return", "crashed"}]
      /\ call' \in [Threads -> CallType]
      /\ at' \in [Threads -> Heaps]
  BY <1>1, <1>3, Entered
<1>5. TypeOK /\ Partition
  BY DEF IInv, SlotsAccounted, Partition
<1>6. /\ r \in live /\ r \in Region /\ r # NoRegion
      /\ r.slot \in Slots /\ r.slot \in LiveSlots /\ r.slot \notin free
      /\ \A u \in Threads : Uses(u) => call[u].old.slot # r.slot
  BY QuietFacts
<1>7. r.slot # NoSlot
  BY <1>6, SlotFacts
<1>8. TypeOK'
  BY <1>3, <1>4, <1>5 DEF TypeOK, CallType
<1>9. LiveInv'
  BY <1>3, <1>4, LiveKept
<1>10. Spares(t)
  BY <1>3, <1>6 DEF Spares
<1>11. InHand(t)' = {r.slot}
  BY <1>2, <1>4 DEF InHand
<1>12. LiveSlots' = LiveSlots \ {r.slot}
  BY <1>3, <1>5, <1>6 DEF LiveSlots, Partition
<1>13. Accounted(t)
  BY <1>3, <1>4, <1>5, <1>6, <1>11, <1>12 DEF Accounted, Partition
<1>14. ThreadInv(t)'
  BY <1>2, <1>4, <1>6, <1>7
  DEF ThreadInv, CallInv, PlaceInv, OldInv, NewInv, Moving, Allocating, Stays
<1> QED
  BY <1>2, <1>4, <1>6, <1>8, <1>9, <1>10, <1>13, <1>14, StepKeeps

-----------------------------------------------------------------------------
(* The calls go on *)

\* Thread t moves on without a change of its call.
LEMMA WentOn ==
  ASSUME TypeOK, NEW t \in Threads,
         NEW l \in {"idle", "alloc", "copy", "free", "return", "crashed"}, Goto(t, l),
         NEW c \in CallType, call' = [call EXCEPT ![t] = c],
         at' = at \/ at' = [at EXCEPT ![t] = 1]
  PROVE  /\ pc'[t] = l /\ call'[t] = c /\ OthersStay(t)
         /\ pc' \in [Threads -> {"idle", "alloc", "copy", "free", "return", "crashed"}]
         /\ call' \in [Threads -> CallType]
         /\ at' \in [Threads -> Heaps]
<1>1. 1 \in Heaps
  BY HeapNumbers DEF Heaps
<1> QED
  BY <1>1 DEF TypeOK, Goto, CallType, OthersStay

\* A heap gives slot s out, with n bytes that suffice.
LEMMA TakeKeeps ==
  ASSUME IInv, NEW t \in Threads, NEW s \in free, Asks(t, s[1]), NEW n \in Nat,
         n > 0, n >= call[t].size, s[1] \in Pools => n = ItemSize[s[1]], Take(t, s, n)
  PROVE  IInv'
<1> DEFINE c == [call[t] EXCEPT !.new = s]
           l == IF call[t].old = NoRegion THEN "return" ELSE "copy"
           zeroed == IF s[1] = OS THEN n
                     ELSE IF Zeroing(t) THEN ZeroedBytes(call[t].size) ELSE 0
           mem == [i \in 1 .. n |-> IF i <= zeroed THEN "zero" ELSE "junk"]
<1>1. TypeOK /\ Partition /\ ThreadInv(t) /\ s \in Slots /\ s # NoSlot
  BY SlotFacts DEF IInv, SlotsAccounted, Partition, TypeOK
<1>2. /\ pc[t] = "alloc" /\ call[t].op \in Allocating /\ call[t].new = NoSlot
      /\ call[t].size \in Requests /\ call[t].size \in Nat
  BY <1>1, RequestFacts DEF Asks, ThreadInv, PlaceInv, CallInv
<1>3. call[t] \in CallType /\ c \in CallType
  <2>1. call[t] \in CallType
    BY <1>1 DEF TypeOK, CallType
  <2> QED
    BY <1>1, <2>1 DEF CallType
<1>4. /\ c.op = call[t].op /\ c.size = call[t].size /\ c.old = call[t].old
      /\ c.old_size = call[t].old_size /\ c.new = s
  BY <1>3 DEF CallType
<1>5. /\ free' = free \ {s} /\ data' = [data EXCEPT ![s] = mem]
      /\ Goto(t, l) /\ up' = up /\ live' = live /\ at' = at
      /\ call' = [call EXCEPT ![t] = c]
  BY DEF Take
<1>6. mem \in [1 .. n -> {"game", "zero", "junk"}]
  OBVIOUS
<1>7. \A i \in 1 .. n : i <= zeroed => mem[i] = "zero"
  OBVIOUS
<1>8. call[t].op \in {"calloc", "recalloc"} => zeroed \in Nat /\ zeroed >= call[t].size
  BY <1>2, RoundedUp, HeapReplacerAssumption DEF Zeroing, ZeroedBytes, RoundUp
<1> HIDE DEF c, zeroed, mem
<1>9. /\ pc'[t] = l /\ call'[t] = c /\ OthersStay(t)
      /\ pc' \in [Threads -> {"idle", "alloc", "copy", "free", "return", "crashed"}]
      /\ call' \in [Threads -> CallType]
      /\ at' \in [Threads -> Heaps]
  BY <1>1, <1>3, <1>5, WentOn
<1>10. mem \in Bytes /\ Len(mem) = n /\ mem # <<>>
  BY <1>6, FunctionIsSeq DEF Bytes
<1>11. data' \in [Slots -> Bytes] /\ data'[s] = mem
       /\ \A q \in Slots : q # s => data'[q] = data[q]
  BY <1>1, <1>5, <1>10 DEF TypeOK, Bytes
<1>12. TypeOK'
  <2>1. ASSUME NEW q \in Slots
        PROVE  /\ q \in free' <=> data'[q] = <<>>
               /\ q \notin free' /\ q[1] \in Pools => Len(data'[q]) = ItemSize[q[1]]
    BY <1>1, <1>5, <1>10, <1>11 DEF TypeOK
  <2> QED
    BY <1>1, <1>5, <1>9, <1>11, <2>1 DEF TypeOK, CallType, Bytes
<1>13. LiveInv'
  <2>1. \A r \in live' : r.slot \in Slots /\ r.slot # s
    BY <1>1, <1>5, SlotFacts DEF TypeOK, Partition, LiveSlots
  <2> QED
    BY <1>2, <1>5, <1>9, <1>11, <2>1, LiveKept
<1>14. Spares(t)
  <2> SUFFICES ASSUME NEW u \in Threads \ {t}
               PROVE  /\ call[u].new # NoSlot => data'[call[u].new] = data[call[u].new]
                      /\ Uses(u) => data'[call[u].old.slot] = data[call[u].old.slot]
    BY <1>5 DEF Spares
  <2> QED
    BY <1>1, <1>11, NewIsHeld, OldIsHeld, TouchesOwn
<1>15. call[t].old.slot # s
  <2>1. CASE call[t].old = NoRegion
    BY <1>1, <2>1 DEF NoRegion
  <2>2. CASE Uses(t)
    BY <1>1, <1>2, <2>2, OldIsHeld DEF Partition
  <2> QED
    BY <1>2, <2>1, <2>2 DEF Uses
<1>16. InHand(t) = {} /\ InHand(t)' = {s}
  BY <1>1, <1>2, <1>4, <1>9, <1>15 DEF InHand
<1>17. Accounted(t)
  BY <1>1, <1>5, <1>16 DEF Accounted, Partition, LiveSlots
<1>18. ASSUME Uses(t)', NEW u \in Threads \ {t}, Uses(u)
       PROVE  call[u].old.slot # call'[t].old.slot
  <2>1. Uses(t)
    BY <1>2, <1>4, <1>9, <1>18 DEF Uses
  <2> QED
    BY <1>4, <1>9, <1>18, <2>1, CallsApart
<1>19. NewInv(t)'
  <2>1. Len(data'[s]) >= call[t].size
    BY <1>10, <1>11
  <2>2. call[t].op \in {"calloc", "recalloc"} =>
          \A i \in call[t].old_size + 1 .. call[t].size : data'[s][i] = "zero"
    BY <1>1, <1>2, <1>7, <1>8, <1>11, CallTypes
  <2>3. call[t].op \in Moving => pc'[t] = "copy"
    BY <1>1, <1>9, SlotFacts DEF ThreadInv, CallInv, Moving
  <2> QED
    BY <1>4, <1>9, <2>1, <2>2, <2>3 DEF NewInv
<1>20. OldInv(t)'
  <2>1. call[t].op \in Moving =>
          call[t].old \in live /\ call[t].old_size = MemSize(call[t].old.slot)
          /\ call[t].old_size < call[t].size /\ call[t].old.slot \in Slots
    BY <1>1, <1>2, SlotFacts DEF ThreadInv, OldInv, CallInv
  <2> QED
    BY <1>4, <1>5, <1>9, <1>11, <1>15, <2>1 DEF OldInv, Stays, MemSize
<1>21. CallInv(t)' /\ PlaceInv(t)'
  BY <1>1, <1>2, <1>4, <1>9, <1>15 DEF ThreadInv, CallInv, PlaceInv, Moving, Allocating
<1> QED
  BY <1>9, <1>12, <1>13, <1>14, <1>17, <1>18, <1>19, <1>20, <1>21, StepKeeps DEF ThreadInv

\* TakeItem, TakeCell and TakePages: what a heap gives is large enough.
LEMMA TakesKeep ==
  ASSUME IInv, NEW t \in Threads, TakeItem(t) \/ TakeCell(t) \/ TakePages(t)
  PROVE  IInv'
<1>1. TypeOK /\ ThreadInv(t)
  BY DEF IInv, SlotsAccounted
<1>2. pc[t] = "alloc" => call[t].size \in Requests /\ call[t].size \in Nat /\ call[t].size > 0
  BY <1>1, RequestFacts DEF ThreadInv, PlaceInv, CallInv
<1>3. ASSUME TakeItem(t) PROVE IInv'
  <2>1. PICK s \in free : Asks(t, s[1]) /\ s[1] \in up /\ Take(t, s, ItemSize[s[1]])
    BY <1>3 DEF TakeItem
  <2>2. s[1] \in Pools
    BY <1>1, <2>1, HeapReplacerAssumption DEF TypeOK
  <2>3. ItemSize[s[1]] \in Nat \ {0} /\ ItemSize[s[1]] >= call[t].size
    BY <1>1, <2>1, <2>2, HeapNumbers DEF ThreadInv, PlaceInv, Asks
  <2> QED
    BY <2>1, <2>3, TakeKeeps
<1>4. ASSUME TakeCell(t) PROVE IInv'
  <2>1. PICK s \in free, extra \in {0, CellSize} :
          Asks(t, s[1]) /\ s[1] = DHeap /\ Take(t, s, RoundUp(call[t].size, CellSize) + extra)
    BY <1>4 DEF TakeCell
  <2> DEFINE n == RoundUp(call[t].size, CellSize) + extra
  <2>2. call[t].size \in Nat /\ call[t].size > 0
    BY <1>2, <2>1 DEF Asks
  <2>3. RoundUp(call[t].size, CellSize) \in Nat /\ RoundUp(call[t].size, CellSize) >= call[t].size
    BY <2>2, RoundedUp, HeapReplacerAssumption DEF RoundUp
  <2>4. n \in Nat /\ n > 0 /\ n >= call[t].size
    BY <2>2, <2>3, HeapReplacerAssumption
  <2>5. s[1] \notin Pools
    BY <2>1, HeapNumbers
  <2> QED
    BY <2>1, <2>4, <2>5, TakeKeeps
<1>5. ASSUME TakePages(t) PROVE IInv'
  <2>1. PICK s \in free : Asks(t, s[1]) /\ s[1] = OS /\ Take(t, s, call[t].size)
    BY <1>5 DEF TakePages
  <2>2. call[t].size \in Nat /\ call[t].size > 0
    BY <1>2, <2>1 DEF Asks
  <2>3. s[1] \notin Pools
    BY <2>1, HeapNumbers
  <2> QED
    BY <2>1, <2>2, <2>3, TakeKeeps
<1> QED
  BY <1>3, <1>4, <1>5

\* PoolFull and DHeapFull: the next pool is larger.
LEMMA GoOnKeeps ==
  ASSUME IInv, NEW t \in Threads, PoolFull(t) \/ DHeapFull(t)
  PROVE  IInv'
<1>1. TypeOK /\ Partition /\ ThreadInv(t)
  BY DEF IInv, SlotsAccounted, Partition
<1>2. /\ pc[t] = "alloc" /\ pc' = pc /\ call' = call /\ up' = up
      /\ free' = free /\ data' = data /\ live' = live
  BY DEF PoolFull, DHeapFull, Asks
<1>3. call[t].size \in Nat
  BY <1>1, CallTypes
<1>4. /\ at' = [at EXCEPT ![t] = at'[t]] /\ at'[t] \in Heaps
      /\ at'[t] \in Pools => ItemSize[at'[t]] >= call[t].size
  <2>1. CASE PoolFull(t)
    <3>1. at[t] \in Pools /\ at' = [at EXCEPT ![t] = at[t] + 1] /\ at'[t] = at[t] + 1
      BY <1>1, <2>1, HeapReplacerAssumption DEF PoolFull, TypeOK, NextHeap
    <3>2. at[t] + 1 \in Pools => ItemSize[at[t]] < ItemSize[at[t] + 1]
      BY <3>1, HeapReplacerAssumption
    <3>3. ItemSize[at[t]] >= call[t].size
      BY <1>1, <1>2, <3>1 DEF ThreadInv, PlaceInv
    <3>4. at[t] + 1 \in Pools \cup {DHeap} /\ at[t] + 1 \in Heaps
      BY <3>1, HeapNumbers DEF Heaps
    <3>5. at[t] + 1 \in Pools => ItemSize[at[t] + 1] >= call[t].size
      BY <1>3, <3>1, <3>2, <3>3, HeapNumbers
    <3> QED
      BY <3>1, <3>4, <3>5
  <2>2. CASE DHeapFull(t)
    BY <1>1, <2>2, HeapNumbers DEF DHeapFull, TypeOK, Heaps
  <2> QED
    BY <2>1, <2>2
<1>5. at' \in [Threads -> Heaps] /\ OthersStay(t)
  BY <1>1, <1>2, <1>4 DEF TypeOK, OthersStay
<1>6. TypeOK'
  BY <1>1, <1>2, <1>5 DEF TypeOK
<1>7. LiveInv'
  BY <1>2, <1>5, LiveKept
<1>8. Spares(t) /\ Accounted(t)
  BY <1>1, <1>2 DEF Spares, Accounted, Partition, InHand, LiveSlots
<1>9. ThreadInv(t)'
  BY <1>1, <1>2, <1>4 DEF ThreadInv, CallInv, PlaceInv, OldInv, NewInv, Stays, MemSize
<1>10. ASSUME Uses(t)', NEW u \in Threads \ {t}, Uses(u)
       PROVE  call[u].old.slot # call'[t].old.slot
  BY <1>2, <1>10, CallsApart DEF Uses, Stays
<1> QED
  BY <1>5, <1>6, <1>7, <1>8, <1>9, <1>10, StepKeeps

\* NoPool, NoPages and CopyToNull: there is no memory.
LEMMA NoMemoryKeeps ==
  ASSUME IInv, NEW t \in Threads, NoPool(t) \/ NoPages(t) \/ CopyToNull(t)
  PROVE  IInv'
<1> DEFINE c == call[t]
<1>1. TypeOK /\ Partition /\ ThreadInv(t) /\ c \in CallType
  BY DEF IInv, SlotsAccounted, Partition, TypeOK, CallType
<1>2. /\ pc[t] \in {"alloc", "copy"} /\ call' = call /\ up' = up
      /\ free' = free /\ data' = data /\ at' = at /\ c.new = NoSlot
  BY <1>1 DEF NoPool, NoPages, CopyToNull, Asks, ThreadInv, PlaceInv
<1>3. Goto(t, pc'[t]) /\ \/ pc'[t] = "crashed" /\ live' = live
                         \/ pc'[t] = "return" /\ c.old = NoRegion /\ live' = live
                         \/ pc'[t] = "copy" /\ c.old # NoRegion /\ pc[t] = "alloc" /\ live' = live
                         \/ pc'[t] = "free" /\ pc[t] = "copy" /\ live' = live \ {c.old}
  BY <1>1 DEF NoPool, NoPages, CopyToNull, Goto, Asks, TypeOK
<1>4. c.op \in Allocating
  BY <1>1, <1>2 DEF ThreadInv, PlaceInv, Moving, Allocating
<1>5. /\ c.old # NoRegion => /\ Uses(t) /\ c.op \in Moving
                             /\ c.old \in live /\ c.old.slot \in LiveSlots
                             /\ c.old.slot \in Slots /\ c.old \in Region
  BY <1>1, <1>2, OldIsHeld DEF Uses
<1>6. pc[t] = "copy" => c.op \in Moving /\ c.old \in Region
  BY <1>1, SlotFacts DEF ThreadInv, PlaceInv, CallInv
<1>7. /\ OthersStay(t)
      /\ pc' \in [Threads -> {"idle", "alloc", "copy", "free", "return", "crashed"}]
  <2>1. call' = [call EXCEPT ![t] = c]
    BY <1>1, <1>2 DEF TypeOK
  <2> QED
    BY <1>1, <1>2, <1>3, <2>1, WentOn, Zenon
<1>8. live' \subseteq live
  BY <1>3
<1>9. TypeOK'
  BY <1>1, <1>2, <1>7, <1>8 DEF TypeOK
<1>10. LiveInv'
  BY <1>2, <1>7, <1>8, LiveKept
<1>11. Spares(t)
  <2>1. ASSUME NEW u \in Threads \ {t}, Uses(u), call[u].old \in live PROVE call[u].old \in live'
    <3>1. Uses(t) => call[u].old # c.old
      BY <2>1, CallsApart
    <3>2. pc'[t] = "free" => Uses(t)
      BY <1>3, <1>5, <1>6, SlotFacts
    <3> QED
      BY <1>3, <2>1, <3>1, <3>2
  <2> QED
    BY <1>2, <2>1 DEF Spares
<1>12. InHand(t) = {} /\ InHand(t)' = IF pc'[t] = "free" THEN {c.old.slot} ELSE {}
  BY <1>2 DEF InHand
<1>13. Accounted(t)
  <2>1. CASE live' = live
    <3>1. pc'[t] # "free"
      BY <1>3, <1>5, <1>6, <2>1, SlotFacts
    <3> QED
      BY <1>1, <1>2, <1>12, <2>1, <3>1 DEF Accounted, Partition, LiveSlots
  <2>2. CASE pc'[t] = "free" /\ pc[t] = "copy" /\ live' = live \ {c.old}
    <3>1. c.old \in live /\ c.old.slot \in LiveSlots
      BY <1>5, <1>6, <2>2, SlotFacts
    <3>2. LiveSlots' = LiveSlots \ {c.old.slot}
      BY <1>1, <2>2, <3>1 DEF LiveSlots, Partition
    <3> QED
      BY <1>1, <1>2, <1>8, <1>12, <2>2, <3>1, <3>2 DEF Accounted, Partition
  <2> QED
    BY <1>3, <2>1, <2>2
<1>14. ASSUME Uses(t)', NEW u \in Threads \ {t}, Uses(u)
       PROVE  call[u].old.slot # call'[t].old.slot
  BY <1>2, <1>14, CallsApart DEF Uses
<1>15. ThreadInv(t)'
  <2>1. CallInv(t)' /\ NewInv(t)'
    BY <1>1, <1>2 DEF ThreadInv, CallInv, NewInv
  <2>2. PlaceInv(t)'
    BY <1>1, <1>2, <1>3, <1>4, <1>5, <1>6, SlotFacts
    DEF PlaceInv, Allocating, Moving
  <2>3. OldInv(t)'
    BY <1>1, <1>2, <1>3, SlotFacts DEF ThreadInv, CallInv, OldInv, Stays, MemSize
  <2> QED
    BY <2>1, <2>2, <2>3 DEF ThreadInv
<1> QED
  BY <1>7, <1>9, <1>10, <1>11, <1>13, <1>14, <1>15, StepKeeps

\* What a change of one slot's memory does to the memory of all.
LEMMA OneSlotWritten ==
  ASSUME TypeOK, NEW s \in Slots, data' = [data EXCEPT ![s] = data'[s]], data'[s] \in Bytes,
         \/ free' = free /\ s \notin free /\ Len(data'[s]) = Len(data[s])
         \/ free' = free \cup {s} /\ data'[s] = <<>>
  PROVE  /\ free' \subseteq Slots
         /\ data' \in [Slots -> Bytes]
         /\ \A q \in Slots :
              /\ q \in free' <=> data'[q] = <<>>
              /\ q \notin free' /\ q[1] \in Pools => Len(data'[q]) = ItemSize[q[1]]
         /\ \A q \in Slots : q # s => data'[q] = data[q]
<1>1. data \in [Slots -> Bytes] /\ free \subseteq Slots
  BY DEF TypeOK, Bytes
<1>2. data' \in [Slots -> Bytes] /\ \A q \in Slots : q # s => data'[q] = data[q]
  BY <1>1
<1>3. s \notin free /\ Len(data'[s]) = Len(data[s]) => data'[s] # <<>>
  BY DataFacts, SeqIsFunction DEF Bytes
<1> QED
  BY <1>1, <1>2, <1>3 DEF TypeOK

\* Copy: the data are in the new place before the old one is given up.
LEMMA CopyKeeps ==
  ASSUME IInv, NEW t \in Threads, Copy(t)
  PROVE  IInv'
<1> DEFINE c == call[t]
           mem == Copied(c, CopySize(c))
           n == Len(data[c.new])
<1>1. TypeOK /\ Partition /\ LiveInv /\ ThreadInv(t) /\ c \in CallType
  BY DEF IInv, SlotsAccounted, Partition, TypeOK, CallType
<1>2. /\ pc[t] = "copy" /\ c.new # NoSlot /\ Goto(t, "free")
      /\ data' = [data EXCEPT ![c.new] = mem] /\ live' = live \ {c.old}
      /\ up' = up /\ free' = free /\ call' = call /\ at' = at
  BY DEF Copy, AfterCopy
<1>3. /\ c.op \in Moving /\ c.new # c.old.slot /\ c.old \in Region
      /\ c.old.slot # NoSlot /\ c.size \in Nat
  BY <1>1, <1>2, SlotFacts, CallTypes DEF ThreadInv, PlaceInv, CallInv
<1>4. /\ Uses(t) /\ c.old \in live /\ c.old.slot \in Slots /\ c.old.slot \in LiveSlots
      /\ c.old_size = MemSize(c.old.slot) /\ c.old_size < c.size
  BY <1>1, <1>2, <1>3, SlotFacts, OldIsHeld DEF Uses, ThreadInv, OldInv
<1>5. c.new \in Slots /\ c.new \in InHand(t) /\ c.new \notin free
  BY <1>1, <1>2, <1>3, NewIsHeld DEF Stays, Partition
<1>6. /\ n \in Nat /\ n >= c.size /\ c.old_size \in Nat
      /\ data[c.new] \in [1 .. n -> {"game", "zero", "junk"}]
      /\ data[c.old.slot] \in [1 .. Len(data[c.old.slot]) -> {"game", "zero", "junk"}]
      /\ c.old_size <= Len(data[c.old.slot]) /\ Len(data[c.old.slot]) \in Nat
  BY <1>1, <1>2, <1>4, <1>5, DataFacts DEF ThreadInv, NewInv, MemSize
<1>7. mem = [i \in 1 .. n |-> IF i <= c.old_size THEN data[c.old.slot][i] ELSE data[c.new][i]]
  BY DEF Copied, CopySize
<1> HIDE DEF mem
<1>8. mem \in [1 .. n -> {"game", "zero", "junk"}]
  BY <1>6, <1>7
<1>9. mem \in Bytes /\ Len(mem) = n
  BY <1>6, <1>8, FunctionIsSeq DEF Bytes
<1>10. data'[c.new] = mem
  BY <1>1, <1>2, <1>5 DEF TypeOK
<1>11. /\ data' \in [Slots -> Bytes]
       /\ \A q \in Slots :
            /\ q \in free' <=> data'[q] = <<>>
            /\ q \notin free' /\ q[1] \in Pools => Len(data'[q]) = ItemSize[q[1]]
       /\ \A q \in Slots : q # c.new => data'[q] = data[q]
  BY <1>1, <1>2, <1>5, <1>9, <1>10, OneSlotWritten
<1>12. /\ OthersStay(t) /\ pc'[t] = "free"
       /\ pc' \in [Threads -> {"idle", "alloc", "copy", "free", "return", "crashed"}]
  <2>1. call' = [call EXCEPT ![t] = c]
    BY <1>1, <1>2 DEF TypeOK
  <2> QED
    BY <1>1, <1>2, <2>1, WentOn
<1>13. TypeOK'
  BY <1>1, <1>2, <1>11, <1>12 DEF TypeOK, Bytes
<1>14. LiveInv'
  <2>1. \A r \in live' : r.slot \in Slots /\ r.slot # c.new
    BY <1>1, <1>2, <1>5, SlotFacts DEF TypeOK, Partition, LiveSlots
  <2> QED
    BY <1>2, <1>11, <1>12, <2>1, LiveKept
<1>15. Spares(t)
  <2> SUFFICES ASSUME NEW u \in Threads \ {t}
               PROVE  /\ call[u].new # NoSlot => data'[call[u].new] = data[call[u].new]
                      /\ Uses(u) => /\ data'[call[u].old.slot] = data[call[u].old.slot]
                                    /\ call[u].old # c.old
    BY <1>2 DEF Spares
  <2> QED
    BY <1>4, <1>5, <1>11, NewIsHeld, OldIsHeld, TouchesOwn, CallsApart
<1>16. InHand(t) = {c.new} /\ InHand(t)' = {c.old.slot, c.new}
  BY <1>2, <1>3, <1>12 DEF InHand
<1>17. LiveSlots' = LiveSlots \ {c.old.slot}
  BY <1>1, <1>2, <1>4 DEF LiveSlots, Partition
<1>18. Accounted(t)
  BY <1>1, <1>2, <1>4, <1>5, <1>16, <1>17 DEF Accounted, Partition
<1>19. ASSUME NEW u \in Threads \ {t}, Uses(u)
       PROVE  call[u].old.slot # call'[t].old.slot
  BY <1>2, <1>4, <1>19, CallsApart
<1>20. NewInv(t)'
  <2>1. c.op \in {"calloc", "recalloc"} =>
          \A i \in c.old_size + 1 .. c.size : mem[i] = "zero"
    BY <1>1, <1>2, <1>3, <1>6, <1>7, SMTT(30) DEF ThreadInv, NewInv
  <2>2. ASSUME c.old.slot[1] # OS, NEW i \in 1 .. c.size, i <= c.old.size
        PROVE  mem[i] = "game"
    <3>1. Len(data[c.old.slot]) >= c.old.size /\ c.old_size = Len(data[c.old.slot])
      BY <1>1, <1>4, <2>2 DEF LiveInv, MemSize
    <3>2. ~Cleared(c.old.slot, i)
      BY <1>2, <1>3, <1>4, CallsApart DEF Cleared, Stays
    <3>3. i \in 1 .. c.old.size
      BY <1>3, <2>2, SlotFacts, RequestFacts
    <3>4. data[c.old.slot][i] = "game"
      BY <1>1, <1>4, <3>2, <3>3 DEF LiveInv
    <3> QED
      BY <1>3, <1>6, <1>7, <2>2, <3>1, <3>4, SlotFacts, RequestFacts, SMTT(30)
  <2> QED
    BY <1>2, <1>6, <1>9, <1>10, <2>1, <2>2 DEF NewInv
<1>21. ThreadInv(t)'
  BY <1>1, <1>2, <1>3, <1>12, <1>20 DEF ThreadInv, CallInv, PlaceInv, OldInv, Stays
<1> QED
  BY <1>12, <1>13, <1>14, <1>15, <1>18, <1>19, <1>21, StepKeeps

\* GiveBack: the heap has the old region again.
LEMMA GiveBackKeeps ==
  ASSUME IInv, NEW t \in Threads, GiveBack(t)
  PROVE  IInv'
<1> DEFINE c == call[t]
           s == call[t].old.slot
<1>1. TypeOK /\ Partition /\ ThreadInv(t) /\ c \in CallType
  BY DEF IInv, SlotsAccounted, Partition, TypeOK, CallType
<1>2. /\ pc[t] = "free" /\ Goto(t, "return")
      /\ data' = [data EXCEPT ![s] = <<>>] /\ free' = free \cup {s}
      /\ up' = up /\ live' = live /\ call' = call /\ at' = at
  BY DEF GiveBack
<1>3. c.op \in Moving \cup {"free"} /\ c.new # s /\ c.old \in Region /\ s # NoSlot
  BY <1>1, <1>2, SlotFacts DEF ThreadInv, PlaceInv, CallInv
<1>4. s \in Slots /\ s \in InHand(t) /\ s \notin LiveSlots
  BY <1>1, <1>2, <1>3, SlotFacts DEF InHand, Partition
<1>5. data'[s] = <<>> /\ <<>> \in Bytes
  BY <1>1, <1>2, <1>4 DEF TypeOK, Bytes
<1>6. /\ data' \in [Slots -> Bytes] /\ free' \subseteq Slots
      /\ \A q \in Slots :
           /\ q \in free' <=> data'[q] = <<>>
           /\ q \notin free' /\ q[1] \in Pools => Len(data'[q]) = ItemSize[q[1]]
      /\ \A q \in Slots : q # s => data'[q] = data[q]
  BY <1>1, <1>2, <1>4, <1>5, OneSlotWritten
<1>7. /\ OthersStay(t) /\ pc'[t] = "return"
      /\ pc' \in [Threads -> {"idle", "alloc", "copy", "free", "return", "crashed"}]
  <2>1. call' = [call EXCEPT ![t] = c]
    BY <1>1, <1>2 DEF TypeOK
  <2> QED
    BY <1>1, <1>2, <2>1, WentOn
<1>8. TypeOK'
  BY <1>1, <1>2, <1>6, <1>7 DEF TypeOK, Bytes
<1>9. LiveInv'
  <2>1. \A r \in live' : r.slot \in Slots /\ r.slot # s
    BY <1>1, <1>2, <1>4, SlotFacts DEF TypeOK, LiveSlots
  <2> QED
    BY <1>2, <1>6, <1>7, <2>1, LiveKept
<1>10. Spares(t)
  <2> SUFFICES ASSUME NEW u \in Threads \ {t}
               PROVE  /\ call[u].new # NoSlot => data'[call[u].new] = data[call[u].new]
                      /\ Uses(u) => data'[call[u].old.slot] = data[call[u].old.slot]
    BY <1>2 DEF Spares
  <2> QED
    BY <1>4, <1>6, NewIsHeld, OldIsHeld, TouchesOwn
<1>11. InHand(t)' = InHand(t) \ {s}
  BY <1>2, <1>3, <1>7 DEF InHand
<1>12. Accounted(t)
  BY <1>1, <1>2, <1>4, <1>11 DEF Accounted, Partition, LiveSlots
<1>13. ~Uses(t)'
  BY <1>2, <1>3, <1>7 DEF Uses, Stays
<1>14. NewInv(t)'
  <2>1. c.new # NoSlot => data'[c.new] = data[c.new]
    BY <1>3, <1>6, CallTypes, <1>1
  <2> QED
    BY <1>1, <1>2, <2>1 DEF ThreadInv, NewInv
<1>15. ThreadInv(t)'
  BY <1>1, <1>2, <1>3, <1>7, <1>14
  DEF ThreadInv, CallInv, PlaceInv, OldInv, Moving, Stays
<1> QED
  BY <1>7, <1>8, <1>9, <1>10, <1>12, <1>13, <1>15, StepKeeps

\* Return: the game gets its answer, and writes into what it got.
LEMMA ReturnKeeps ==
  ASSUME IInv, NEW t \in Threads, Return(t)
  PROVE  IInv'
<1> DEFINE c == call[t]
           n == Len(data[c.new])
           mem == [i \in 1 .. n |-> IF i <= c.size THEN "game" ELSE data[c.new][i]]
           gone == IF c.new = c.old.slot THEN {c.old} ELSE {}
           got == IF c.new = NoSlot THEN {} ELSE {[slot |-> c.new, size |-> c.size]}
<1>1. TypeOK /\ Partition /\ LiveInv /\ ThreadInv(t) /\ c \in CallType /\ NoCall \in CallType
  BY DEF IInv, SlotsAccounted, Partition, TypeOK, CallType, NoCall
<1>2. /\ pc[t] = "return" /\ Goto(t, "idle")
      /\ data' = [s \in Slots |-> IF s # c.new THEN data[s]
                                  ELSE [i \in 1 .. Len(data[s]) |->
                                          IF i <= c.size THEN "game" ELSE data[s][i]]]
      /\ live' = (live \ gone) \cup got
      /\ up' = up /\ free' = free
      /\ call' = [call EXCEPT ![t] = NoCall] /\ at' = [at EXCEPT ![t] = 1]
  BY DEF Return
<1>3. /\ OthersStay(t) /\ pc'[t] = "idle" /\ call'[t] = NoCall
      /\ pc' \in [Threads -> {"idle", "alloc", "copy", "free", "return", "crashed"}]
      /\ call' \in [Threads -> CallType] /\ at' \in [Threads -> Heaps]
  BY <1>1, <1>2, WentOn
<1>4. InHand(t)' = {} /\ ~Uses(t)'
  BY <1>3 DEF InHand, Uses, NoCall, NoRegion
<1>5. ThreadInv(t)'
  BY <1>3 DEF ThreadInv, CallInv, PlaceInv, OldInv, NewInv, NoCall, Moving, Allocating, NoRegion
<1>6. \A s, i : Cleared(s, i) /\ s # c.new => Cleared(s, i)'
  BY <1>3 DEF Cleared, OthersStay, Stays
<1>7. \A s \in Slots : s # c.new => data'[s] = data[s]
  BY <1>2
<1>8. CASE c.new = NoSlot
  <2>1. c.old \notin live \/ gone = {}
    BY <1>1, <1>8, SlotFacts DEF TypeOK
  <2>2. live' = live
    BY <1>2, <1>8, <2>1
  <2>3. data' = data
    BY <1>1, <1>2, <1>7, <1>8, SlotFacts DEF TypeOK
  <2>4. TypeOK'
    <3>1. up' = up /\ free' = free
      BY <1>2
    <3> QED
      BY <1>1, <1>3, <2>2, <2>3, <3>1 DEF TypeOK, CallType
  <2>5. LiveInv'
    <3>1. \A r \in live : r.slot # c.new
      BY <1>1, <1>8, SlotFacts DEF TypeOK
    <3> QED
      BY <1>1, <1>6, <2>2, <2>3, <3>1 DEF LiveInv
  <2>6. Spares(t)
    BY <2>2, <2>3 DEF Spares
  <2>7. InHand(t) = {}
    BY <1>2, <1>8 DEF InHand
  <2>8. Accounted(t)
    BY <1>1, <1>2, <1>4, <2>2, <2>7 DEF Accounted, Partition, LiveSlots
  <2> QED
    BY <1>3, <1>4, <1>5, <2>4, <2>5, <2>6, <2>8, StepKeeps
<1>9. CASE c.new # NoSlot
  <2> DEFINE r == [slot |-> c.new, size |-> c.size]
  <2>1. c.new \in Slots /\ c.size \in Requests /\ c.size \in Nat
    BY <1>1, <1>9, RequestFacts, CallTypes DEF ThreadInv, CallInv, Allocating
  <2>2. r \in Region /\ r.slot = c.new /\ r.size = c.size
    BY <2>1 DEF Region
  <2>3. /\ \/ /\ c.new = c.old.slot /\ c.old \in live /\ c.new \in LiveSlots /\ Uses(t)
              /\ InHand(t) = {}
           \/ c.new # c.old.slot /\ InHand(t) = {c.new} /\ c.new \notin LiveSlots
        /\ c.new \notin free
    <3>1. CASE c.new = c.old.slot
      BY <1>1, <1>2, <1>9, <3>1, NewIsHeld DEF InHand, Partition
    <3>2. CASE c.new # c.old.slot
      BY <1>1, <1>2, <1>9, <3>2 DEF InHand, Partition
    <3> QED
      BY <3>1, <3>2
  <2>4. live' = (live \ gone) \cup {r}
    BY <1>2, <1>9
  <2> HIDE DEF r
  <2>5. \A q \in live \ gone : q \in live /\ q.slot # c.new
    BY <1>1, <2>3 DEF Partition, LiveSlots
  <2>6. /\ n \in Nat /\ n >= c.size
        /\ data[c.new] \in [1 .. n -> {"game", "zero", "junk"}]
    BY <1>1, <1>9, <2>1, DataFacts DEF ThreadInv, NewInv
  <2>7. mem \in Bytes /\ Len(mem) = n /\ data'[c.new] = mem
    <3>1. mem \in [1 .. n -> {"game", "zero", "junk"}]
      BY <2>6
    <3>2. data'[c.new] = mem
      BY <1>2, <2>1
    <3> QED
      BY <2>6, <3>1, <3>2, FunctionIsSeq DEF Bytes
  <2>8. \A i \in 1 .. c.size : mem[i] = "game"
    BY <2>1, <2>6
  <2> HIDE DEF mem
  <2>9. data' = [data EXCEPT ![c.new] = data'[c.new]]
    BY <1>1, <1>2, <1>7 DEF TypeOK
  <2>10. /\ data' \in [Slots -> Bytes]
         /\ \A q \in Slots :
              /\ q \in free' <=> data'[q] = <<>>
              /\ q \notin free' /\ q[1] \in Pools => Len(data'[q]) = ItemSize[q[1]]
    BY <1>1, <1>2, <2>1, <2>3, <2>7, <2>9, OneSlotWritten
  <2>11. TypeOK'
    <3>1. live' \subseteq Region
      BY <1>1, <2>2, <2>4 DEF TypeOK
    <3>2. up' \in Working /\ free' \subseteq Slots
      BY <1>1, <1>2 DEF TypeOK
    <3> QED
      BY <1>3, <2>10, <3>1, <3>2 DEF TypeOK, CallType, Bytes
  <2>12. LiveInv'
    <3>1. ASSUME NEW q \in live \ gone
          PROVE  /\ Len(data'[q.slot]) >= q.size
                 /\ \A i \in 1 .. q.size : data'[q.slot][i] = "game" \/ Cleared(q.slot, i)'
      <4>1. q \in live /\ q.slot # c.new /\ q.slot \in Slots
        BY <1>1, <2>5, SlotFacts DEF TypeOK
      <4> QED
        BY <1>1, <1>6, <1>7, <4>1 DEF LiveInv
    <3>2. Len(data'[r.slot]) >= r.size /\ \A i \in 1 .. r.size : data'[r.slot][i] = "game"
      BY <2>2, <2>6, <2>7, <2>8
    <3> QED
      BY <2>4, <3>1, <3>2 DEF LiveInv
  <2>13. Spares(t)
    <3> SUFFICES ASSUME NEW u \in Threads \ {t}
                 PROVE  /\ call[u].new # NoSlot => data'[call[u].new] = data[call[u].new]
                        /\ Uses(u) => /\ data'[call[u].old.slot] = data[call[u].old.slot]
                                      /\ call[u].old \notin gone
      BY <2>4 DEF Spares
    <3> QED
      BY <1>7, <1>9, <2>1, <2>3, NewIsHeld, OldIsHeld, CallsApart
  <2>14. /\ LiveSlots' = LiveSlots \cup {c.new}
         /\ \A p, q \in live' : p.slot = q.slot => p = q
    <3>1. \A p, q \in live \ gone : p.slot = q.slot => p = q
      BY <1>1 DEF Partition
    <3>2. LiveSlots' = {q.slot : q \in live \ gone} \cup {c.new}
      BY <2>2, <2>4 DEF LiveSlots
    <3>3. LiveSlots \subseteq {q.slot : q \in live \ gone} \cup {c.new}
      BY DEF LiveSlots
    <3>4. {q.slot : q \in live \ gone} \subseteq LiveSlots
      BY DEF LiveSlots
    <3> QED
      BY <2>2, <2>4, <2>5, <3>1, <3>2, <3>3, <3>4
  <2>15. Accounted(t)
    BY <1>1, <1>2, <1>4, <2>3, <2>14 DEF Accounted, Partition
  <2> QED
    BY <1>3, <1>4, <1>5, <2>11, <2>12, <2>13, <2>15, StepKeeps
<1> QED
  BY <1>8, <1>9

-----------------------------------------------------------------------------
(* The specification *)

\* At first every slot is free and no thread calls.
LEMMA InitIInv == Init => IInv
<1> SUFFICES ASSUME Init PROVE IInv
  OBVIOUS
<1>2. TypeOK
  <2>1. 1 \in Heaps
    BY HeapNumbers DEF Heaps
  <2> QED
    BY <2>1 DEF Init, TypeOK, NoCall
<1>3. \A t \in Threads : InHand(t) = {} /\ ~Uses(t)
  BY DEF Init, InHand, Uses, NoCall
<1>4. SlotsAccounted
  BY <1>2, <1>3 DEF Init, SlotsAccounted, LiveSlots
<1>5. \A t \in Threads : ThreadInv(t)
  BY DEF Init, NoCall, ThreadInv, CallInv, PlaceInv, OldInv, NewInv, Moving, Allocating
<1> QED
  BY <1>3, <1>4, <1>5 DEF Init, IInv, LiveInv, OneUser

\* Every step preserves the invariant.
LEMMA NextIInv == IInv /\ [Next]_vars => IInv'
<1> SUFFICES ASSUME IInv, [Next]_vars PROVE IInv'
  OBVIOUS
<1>1. CASE UNCHANGED vars
  <2> USE <1>1 DEF vars
  <2>1. SlotsAccounted'
    <3>1. TypeOK'
      BY DEF IInv, SlotsAccounted, TypeOK
    <3>2. LiveSlots' = LiveSlots /\ free' = free /\ live' = live
      BY DEF LiveSlots
    <3>3. \A t \in Threads : InHand(t)' = InHand(t)
      BY DEF InHand
    <3>4. UNION {InHand(t)' : t \in Threads} = UNION {InHand(t) : t \in Threads}
      BY <3>3
    <3> QED
      BY <3>1, <3>2, <3>3, <3>4 DEF IInv, SlotsAccounted
  <2>2. LiveInv'
    BY DEF IInv, LiveInv, Cleared, Stays
  <2>3. OneUser'
    BY DEF IInv, OneUser, Uses, Stays
  <2>4. ASSUME NEW t \in Threads PROVE ThreadInv(t)'
    BY DEF IInv, ThreadInv, CallInv, PlaceInv, OldInv, NewInv, MemSize, Stays
  <2> QED
    BY <2>1, <2>2, <2>3, <2>4 DEF IInv
<1>2. ASSUME NEW t \in Threads, Begin(t) PROVE IInv'
  <2>1. ASSUME NEW size \in Requests, Malloc(t, size) \/ Calloc(t, size) PROVE IInv'
    BY <2>1, ObtainKeeps DEF Malloc, Calloc
  <2>2. ASSUME NEW size \in Requests, NEW r \in Quiet,
               ReallocInPlace(t, r, size) \/ RecallocInPlace(t, r, size)
        PROVE  IInv'
    BY <2>2, ReallocInPlaceKeeps, RecallocInPlaceKeeps
  <2>3. ASSUME NEW size \in Requests, NEW r \in Quiet, NEW op \in {"realloc", "recalloc"},
               Move(t, op, r, size)
        PROVE  IInv'
    BY <2>3, MoveKeeps DEF Moving
  <2>4. ASSUME NEW r \in Quiet, Free(t, r) PROVE IInv'
    BY <2>4, FreeKeeps
  <2> QED
    BY <1>2, <2>1, <2>2, <2>3, <2>4 DEF Begin
<1>3. ASSUME NEW t \in Threads, Step(t) PROVE IInv'
  BY <1>3, TakesKeep, GoOnKeeps, NoMemoryKeeps, CopyKeeps, GiveBackKeeps, ReturnKeeps DEF Step
<1> QED
  BY <1>1, <1>2, <1>3 DEF Next

\* At each place of each call of hr_malloc to hr_free, IInv holds.
THEOREM Invariance == Spec => []IInv
  BY InitIInv, NextIInv, PTL DEF Spec

\* No two callers get the same memory, and none is lost.
THEOREM SlotsStayAccounted == Spec => []SlotsAccounted
<1>1. IInv => SlotsAccounted
  BY DEF IInv
<1> QED
  BY <1>1, Invariance, PTL

\* A region is as large as was asked for, whatever heap it was found in.
THEOREM RegionsBigEnough == Spec => []BigEnough
<1>1. IInv => BigEnough
  BY DEF IInv, LiveInv, BigEnough, Answers, ThreadInv, NewInv
<1> QED
  BY <1>1, Invariance, PTL

\* hr_calloc returns zeroes, and so is what hr_recalloc adds.
THEOREM CallersGetZeroes == Spec => []ZeroedForCaller
<1>1. IInv => ZeroedForCaller
  BY DEF IInv, ZeroedForCaller, Answers, ThreadInv, NewInv
<1> QED
  BY <1>1, Invariance, PTL

\* The game's data survive hr_realloc and hr_recalloc.
THEOREM DataSurviveMoves == Spec => []DataSurvive
<1>1. IInv => DataSurvive
  BY DEF IInv, DataSurvive, Answers, ThreadInv, NewInv, Moving
<1> QED
  BY <1>1, Invariance, PTL
=============================================================================
