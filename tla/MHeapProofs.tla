---------------------------- MODULE MHeapProofs ----------------------------
(***************************************************************************)
(* The tables of the pools are right for any table of pools, any address   *)
(* space and any pools that fail.                                          *)
(*                                                                         *)
(* The inductive invariant says of the tables, at every step of the set-up,*)
(* what they are to be of the pools set up so far: that the pools ahead of *)
(* the loop have no memory yet (AheadInv), and that each size slot has the *)
(* first of the working pools whose items are large enough (SizesInv).     *)
(***************************************************************************)
EXTENDS MHeap, TLAPS

\* The pools ahead have no memory; those behind lie in the address space.
AheadInv ==
  /\ \A q \in Pools : q >= p => addr[q] = Null
  /\ \A q \in Working : Extent(q, addr[q]) \subseteq Tries

\* The working pools whose items have at least s words.
Serving(s) == {q \in Working : s \in Classes(q)}

SizesInv ==
  /\ pools_by_size[0] = IF 1 \in Working THEN 1 ELSE Null
  /\ \A s \in SizeSlots \ {0} :
       IF Serving(s) = {} THEN pools_by_size[s] = Null
       ELSE /\ pools_by_size[s] \in Serving(s)
            /\ \A q \in Serving(s) : pools_by_size[s] <= q

IInv == AddressesLeadHome /\ AheadInv /\ SizesInv

-----------------------------------------------------------------------------
(* The constants *)

\* The pools are numbered from 1; each has items of at least a word.
LEMMA PoolFacts ==
  /\ Len(PoolDesc) \in Nat \ {0} /\ Pools = 1 .. Len(PoolDesc)
  /\ \A q \in Pools : /\ PoolDesc[q].item_size \in Nat /\ PoolDesc[q].max_size \in Nat \ {0}
                      /\ PoolDesc[q].item_size >= 4 /\ PoolDesc[q].item_size % 4 = 0
                      /\ PoolDesc[q].item_size <= MaxAlloc
  /\ MaxAlloc \in Nat /\ MaxAlloc % 4 = 0
<1>1. Len(PoolDesc) \in Nat \ {0} /\ Pools = 1 .. Len(PoolDesc)
  BY MHeapAssumption DEF Pools
<1>2. ASSUME NEW q \in Pools
      PROVE  /\ PoolDesc[q].item_size \in Nat /\ PoolDesc[q].max_size \in Nat \ {0}
             /\ PoolDesc[q].item_size >= 4 /\ PoolDesc[q].item_size % 4 = 0
             /\ PoolDesc[q].item_size <= MaxAlloc
  <2> DEFINE m == PoolDesc[q].item_size
  <2>1. m \in 1 .. MaxAlloc /\ m % 4 = 0 /\ PoolDesc[q].max_size \in Nat \ {0}
    BY MHeapAssumption DEF Pools
  <2>2. MaxAlloc \in Nat
    BY MHeapAssumption
  <2> HIDE DEF m
  <2>3. m \in Nat /\ m >= 4 /\ m <= MaxAlloc
    BY <2>1, <2>2
  <2> QED
    BY <2>1, <2>3 DEF m
<1>3. PoolDesc[Len(PoolDesc)].item_size = MaxAlloc /\ Len(PoolDesc) \in Pools
  BY <1>1, MHeapAssumption
<1>4. MaxAlloc \in Nat /\ MaxAlloc % 4 = 0
  BY <1>2, <1>3
<1> QED
  BY <1>1, <1>2, <1>4

\* A request finds the pools with large enough items by its number of words.
LEMMA WordsOfSize ==
  ASSUME NEW q \in Pools, NEW size \in 1 .. MaxAlloc
  PROVE  /\ (size + 3) \div 4 \in SizeSlots \ {0}
         /\ (size + 3) \div 4 \in Classes(q) <=> PoolDesc[q].item_size >= size
<1> DEFINE s == (size + 3) \div 4
           m == PoolDesc[q].item_size
           k == m \div 4
           K == MaxAlloc \div 4
<1>1. m \in Nat /\ m % 4 = 0 /\ MaxAlloc \in Nat /\ MaxAlloc % 4 = 0 /\ size \in Nat /\ size > 0
  BY PoolFacts
<1> HIDE DEF m
<1>2. s \in Nat /\ 4 * s <= size + 3 /\ size + 3 < 4 * s + 4
  BY <1>1
<1>3. k \in Nat /\ 4 * k = m /\ K \in Nat /\ 4 * K = MaxAlloc
  BY <1>1
<1> HIDE DEF s, k, K
<1>4. s \in 0 .. K /\ s # 0 /\ (s \in 1 .. k <=> m >= size)
  BY <1>1, <1>2, <1>3
<1> QED
  BY <1>4 DEF SizeSlots, Classes, s, k, K, m

\* The words of a pool's items are size slots, slot 1 among them.
LEMMA ClassFacts ==
  ASSUME NEW q \in Pools
  PROVE  /\ Classes(q) \subseteq SizeSlots \ {0} /\ 1 \in Classes(q)
         /\ \A s \in Classes(q) : \A j \in 1 .. s : j \in Classes(q)
         /\ \A s \in Classes(q) : s \in Nat
<1> DEFINE m == PoolDesc[q].item_size
<1>1. m \in Nat /\ m >= 4 /\ m <= MaxAlloc /\ MaxAlloc \in Nat
  BY PoolFacts
<1> HIDE DEF m
<1>2. m \div 4 \in Nat /\ m \div 4 >= 1 /\ m \div 4 <= MaxAlloc \div 4 /\ MaxAlloc \div 4 \in Nat
  BY <1>1
<1> QED
  BY <1>2 DEF Classes, SizeSlots, m

\* A pool's places from a on are numbers, a the first.
LEMMA ExtentFacts ==
  ASSUME NEW q \in Pools, NEW a \in Nat
  PROVE  a \in Extent(q, a) /\ \A b \in Extent(q, a) : b \in Nat
  BY PoolFacts DEF Extent

-----------------------------------------------------------------------------
(* The steps *)

\* Nothing is set up at first.
LEMMA InitIInv == Init => IInv
<1> SUFFICES ASSUME Init PROVE IInv
  OBVIOUS
<1>1. Working = {}
  BY DEF Init, Working
<1>2. TypeOK
  BY PoolFacts, MHeapAssumption DEF Init, TypeOK, Null, AddrSlots, Tries
<1>3. AddressesLeadHome
  BY <1>1, <1>2 DEF Init, AddressesLeadHome, PoolFromAddr
<1>4. 0 \in SizeSlots
  BY PoolFacts DEF SizeSlots
<1> QED
  BY <1>1, <1>3, <1>4 DEF Init, IInv, AheadInv, SizesInv, Serving

\* A step that leaves the tables alone and the loop where it is or ahead.
LEMMA TablesKept ==
  ASSUME IInv, tables' = tables, p' \in 1 .. Len(PoolDesc) + 1, p' >= p,
         i' \in Tries \cup {Null}, taken' \subseteq Tries
  PROVE  IInv'
<1> USE DEF tables
<1>1. Working' = Working /\ \A s : Serving(s)' = Serving(s)
  BY DEF Working, Serving, Classes
<1>2. AddressesLeadHome'
  BY <1>1 DEF IInv, AddressesLeadHome, TypeOK, PoolFromAddr
<1>3. AheadInv'
  BY <1>1, PoolFacts DEF IInv, AddressesLeadHome, TypeOK, AheadInv
<1>4. SizesInv'
  BY <1>1 DEF IInv, SizesInv
<1> QED
  BY <1>2, <1>3, <1>4 DEF IInv

\* The pool that the loop is at gets its place.
LEMMA SetupKeeps ==
  ASSUME IInv, SetupPool
  PROVE  IInv'
<1>1. TypeOK /\ p \in Pools /\ p \in Nat /\ p' = p + 1 /\ i' = Null /\ taken' = taken
  BY PoolFacts DEF IInv, AddressesLeadHome, SetupPool
<1>2. i \in Tries /\ i \in AddrSlots /\ i \in Nat /\ i # Null
  BY <1>1, MHeapAssumption DEF SetupPool, TypeOK, Tries, AddrSlots, Null
<1>3. Fits(p, i) /\ addr' = [addr EXCEPT ![p] = i]
  BY DEF SetupPool
<1>4. p \notin Working
  BY <1>1 DEF IInv, AheadInv, Working
<1>5. Working' = Working \cup {p} /\ addr'[p] = i /\ \A q \in Working : addr'[q] = addr[q]
  BY <1>1, <1>2, <1>3, <1>4 DEF TypeOK, Working
<1>6. \A q \in Working : q < p
  BY <1>1, PoolFacts DEF IInv, AheadInv, Working
<1>7. /\ Extent(p, i) \subseteq Tries
      /\ \A q \in Working : Extent(q, addr[q]) \cap Extent(p, i) = {}
  BY <1>3 DEF Fits, Ours
<1>8. Tries \subseteq AddrSlots
  BY DEF Tries, AddrSlots
<1>9. pools_by_addr' = [s \in AddrSlots |-> IF s \in Extent(p, i) THEN p ELSE pools_by_addr[s]]
  BY DEF SetupPool, FillAddrs, PlacesOf
<1>10. pools_by_indx' = [pools_by_indx EXCEPT ![p] = p]
  BY DEF SetupPool
<1> DEFINE table == IF p = 1 THEN [pools_by_size EXCEPT ![0] = 1, ![1] = 1] ELSE pools_by_size
<1>11. pools_by_size' = FillSizes(table, p)
  BY DEF SetupPool
<1>12. table \in [SizeSlots -> Pools \cup {Null}]
  BY <1>1, PoolFacts DEF TypeOK
<1> HIDE DEF table
<1>13. TypeOK'
  <2>1. p' \in 1 .. Len(PoolDesc) + 1 /\ i' \in Tries \cup {Null} /\ taken' \subseteq Tries
    BY <1>1, PoolFacts DEF TypeOK
  <2>2. addr' \in [Pools -> AddrSlots] /\ pools_by_indx' \in [Pools -> Pools \cup {Null}]
    BY <1>1, <1>2, <1>3, <1>10 DEF TypeOK
  <2>3. pools_by_addr' \in [AddrSlots -> Pools \cup {Null}]
    BY <1>1, <1>9 DEF TypeOK
  <2>4. pools_by_size' \in [SizeSlots -> Pools \cup {Null}]
    BY <1>1, <1>11, <1>12 DEF FillSizes
  <2> QED
    BY <2>1, <2>2, <2>3, <2>4 DEF TypeOK
<1>14. AddressesLeadHome'
  <2>1. ASSUME NEW a \in AddrSlots, pools_by_addr'[a] # Null
        PROVE  /\ pools_by_addr'[a] \in Working'
               /\ a \in Extent(pools_by_addr'[a], addr'[pools_by_addr'[a]])
    <3>1. CASE a \in Extent(p, i)
      BY <1>5, <1>9, <3>1
    <3>2. CASE a \notin Extent(p, i)
      BY <1>5, <1>9, <2>1, <3>2 DEF IInv, AddressesLeadHome, PoolFromAddr
    <3> QED
      BY <3>1, <3>2
  <2>2. ASSUME NEW q \in Working', NEW a \in Extent(q, addr'[q])
        PROVE  pools_by_addr'[a] = q
    <3>1. CASE q = p
      BY <1>5, <1>7, <1>8, <1>9, <2>2, <3>1
    <3>2. CASE q # p
      <4>1. q \in Working /\ a \in Extent(q, addr[q]) /\ a \in AddrSlots /\ a \notin Extent(p, i)
        BY <1>5, <1>7, <1>8, <2>2, <3>2 DEF IInv, AheadInv
      <4> QED
        BY <1>9, <4>1 DEF IInv, AddressesLeadHome, PoolFromAddr
    <3> QED
      BY <3>1, <3>2
  <2>3. ASSUME NEW q \in Pools
        PROVE  pools_by_indx'[q] = IF q \in Working' THEN q ELSE Null
    BY <1>1, <1>5, <1>10 DEF IInv, AddressesLeadHome, TypeOK
  <2> QED
    BY <1>13, <2>1, <2>2, <2>3 DEF AddressesLeadHome, PoolFromAddr
<1>15. AheadInv'
  <2>1. \A q \in Pools : q >= p + 1 => addr'[q] = Null
    BY <1>1, <1>3, PoolFacts DEF IInv, AheadInv, TypeOK
  <2>2. \A q \in Working' : Extent(q, addr'[q]) \subseteq Tries
    BY <1>5, <1>7 DEF IInv, AheadInv
  <2> QED
    BY <1>1, <2>1, <2>2 DEF AheadInv
<1>16. SizesInv'
  <2>1. /\ table[0] = IF 1 \in Working' THEN 1 ELSE Null
        /\ \A s \in SizeSlots \ {0} : table[s] = IF p = 1 /\ s = 1 THEN 1 ELSE pools_by_size[s]
    BY <1>1, <1>4, <1>5, PoolFacts DEF IInv, SizesInv, TypeOK, table, SizeSlots
  <2>2. pools_by_size'[0] = table[0]
    BY <1>1, <1>11, ClassFacts, PoolFacts DEF FillSizes, SizeSlots
  <2>3. ASSUME NEW s
        PROVE  Serving(s)' = Serving(s) \cup (IF s \in Classes(p) THEN {p} ELSE {})
    BY <1>5 DEF Serving, Classes
  <2>4. ASSUME NEW s \in SizeSlots \ {0}
        PROVE  IF Serving(s)' = {} THEN pools_by_size'[s] = Null
               ELSE /\ pools_by_size'[s] \in Serving(s)'
                    /\ \A q \in Serving(s)' : pools_by_size'[s] <= q
    <3>1. IF Serving(s) = {} THEN pools_by_size[s] = Null
          ELSE /\ pools_by_size[s] \in Serving(s)
               /\ \A q \in Serving(s) : pools_by_size[s] <= q
      BY DEF IInv, SizesInv
    <3>2. CASE s \notin Classes(p)
      <4>1. pools_by_size'[s] = table[s]
        BY <1>11, <3>2 DEF FillSizes
      <4>2. table[s] = pools_by_size[s]
        BY <1>1, <2>1, <3>2, ClassFacts
      <4> QED
        BY <2>3, <3>1, <3>2, <4>1, <4>2
    <3>3. CASE s \in Classes(p) /\ Serving(s) # {}
      <4>1. pools_by_size[s] \in Serving(s) /\ pools_by_size[s] # Null /\ p # 1
        BY <1>1, <1>6, <3>1, <3>3, PoolFacts DEF Serving, Working, Null
      <4>2. pools_by_size'[s] = pools_by_size[s]
        <5>1. s \in Nat /\ table[s] # Null /\ table[s] = pools_by_size[s]
          BY <1>1, <2>1, <3>3, <4>1, ClassFacts
        <5> QED
          BY <1>11, <3>3, <5>1 DEF FillSizes
      <4>3. pools_by_size[s] < p /\ pools_by_size[s] \in Nat
        BY <1>6, <4>1, PoolFacts DEF Serving, Working
      <4> QED
        BY <1>1, <2>3, <3>1, <3>3, <4>1, <4>2, <4>3
    <3>4. CASE s \in Classes(p) /\ Serving(s) = {}
      <4>1. ASSUME NEW j \in Classes(p), j >= s PROVE Serving(j) = {} /\ j \in SizeSlots \ {0}
        <5>1. \A q \in Working : j \in Classes(q) => s \in Classes(q)
          <6> TAKE q \in Working
          <6>1. q \in Pools /\ s \in Nat /\ s >= 1 /\ j \in Nat
            BY <1>1, <3>4, ClassFacts DEF Working, Classes
          <6> QED
            BY <4>1, <6>1, ClassFacts
        <5> QED
          BY <1>1, <3>4, <4>1, <5>1, ClassFacts DEF Serving
      <4>2. \A j \in Classes(p) : j >= s => pools_by_size[j] = Null
        BY <4>1 DEF IInv, SizesInv
      <4>3. pools_by_size'[s] = p
        <5>1. CASE p = 1 /\ s = 1
          BY <1>1, <1>11, <2>1, <5>1, ClassFacts DEF FillSizes
        <5>2. CASE ~(p = 1 /\ s = 1)
          <6>1. \A j \in Classes(p) : j >= s => table[j] = Null
            <7> TAKE j \in Classes(p)
            <7> HAVE j >= s
            <7>1. j \in SizeSlots \ {0} /\ j \in Nat /\ s \in Nat /\ s >= 1
              BY <1>1, <3>4, ClassFacts DEF Classes
            <7> QED
              BY <2>1, <4>2, <5>2, <7>1
          <6> QED
            BY <1>11, <3>4, <6>1 DEF FillSizes
        <5> QED
          BY <5>1, <5>2
      <4> QED
        BY <1>1, <2>3, <3>4, <4>3
    <3> QED
      BY <3>2, <3>3, <3>4
  <2> QED
    BY <2>1, <2>2, <2>4 DEF SizesInv
<1> QED
  BY <1>14, <1>15, <1>16 DEF IInv

\* Every step of the set-up preserves the invariant.
LEMMA NextIInv == IInv /\ [Next]_vars => IInv'
<1> SUFFICES ASSUME IInv, [Next]_vars PROVE IInv'
  OBVIOUS
<1>1. TypeOK
  BY DEF IInv, AddressesLeadHome
<1>2. p \in Nat /\ Len(PoolDesc) \in Nat
  BY <1>1, PoolFacts DEF TypeOK
<1>3. CASE UNCHANGED vars
  BY <1>1, <1>2, <1>3, TablesKept DEF vars, TypeOK
<1>4. CASE InitPool
  <2>1. i' \in Tries
    BY <1>4, MHeapAssumption DEF InitPool, Tries
  <2> QED
    BY <1>1, <1>2, <1>4, <2>1, TablesKept DEF InitPool, TypeOK
<1>5. CASE FailPool
  BY <1>1, <1>2, <1>5, PoolFacts, TablesKept DEF FailPool, TypeOK
<1>6. CASE TryPlace
  <2>1. i' \in Tries
    BY <1>1, <1>6, MHeapAssumption DEF TryPlace, NextTry, TypeOK, Tries, Null
  <2> QED
    BY <1>1, <1>2, <1>6, <2>1, TablesKept DEF TryPlace, TypeOK
<1>7. CASE SetupPool
  BY <1>7, SetupKeeps
<1>8. CASE Move
  <2>1. taken' \subseteq Tries
    BY <1>1, <1>8 DEF Move, TypeOK
  <2> QED
    BY <1>1, <1>2, <1>8, <2>1, TablesKept DEF Move, TypeOK
<1> QED
  BY <1>3, <1>4, <1>5, <1>6, <1>7, <1>8 DEF Next, Step

\* At each step of mheap_init_pools the tables are right for the pools so far.
THEOREM Invariance == Spec => []IInv
  BY InitIInv, NextIInv, PTL DEF Spec

-----------------------------------------------------------------------------

\* hr_free finds the pool of an address, and none for what is not a pool's.
THEOREM AddressesLeadToPools == Spec => []AddressesLeadHome
<1>1. IInv => AddressesLeadHome
  BY DEF IInv
<1> QED
  BY <1>1, Invariance, PTL

\* A request is served by the working pool that wastes least.
THEOREM RequestsGetTightestPool == Spec => []TightestPool
<1>1. IInv => TightestPool
  <2> SUFFICES ASSUME IInv, NEW size \in 0 .. MaxAlloc
               PROVE  LET fit == {q \in Working : PoolDesc[q].item_size >= size} IN
                      IF fit = {} \/ (size = 0 /\ 1 \notin Working)
                      THEN PoolFromSize(size) = Null
                      ELSE /\ PoolFromSize(size) \in fit
                           /\ \A q \in fit : PoolFromSize(size) <= q
    BY DEF TightestPool
  <2> DEFINE fit == {q \in Working : PoolDesc[q].item_size >= size}
             s == (size + 3) \div 4
  <2>1. CASE size = 0
    <3>1. s = 0
      BY <2>1
    <3>2. fit = Working
      BY <2>1, PoolFacts DEF Working
    <3>3. \A q \in Working : q >= 1
      BY PoolFacts DEF Working
    <3>4. PoolFromSize(size) = IF 1 \in Working THEN 1 ELSE Null
      BY <3>1 DEF IInv, SizesInv, PoolFromSize
    <3> HIDE DEF fit
    <3> QED
      BY <2>1, <3>2, <3>3, <3>4 DEF fit
  <2>2. CASE size # 0
    <3>1. size \in 1 .. MaxAlloc
      BY <2>2, PoolFacts
    <3>2. \A q \in Working : s \in Classes(q) <=> PoolDesc[q].item_size >= size
      BY <3>1, WordsOfSize DEF Working
    <3>3. Serving(s) = fit
      BY <3>2 DEF Serving
    <3>4. s \in SizeSlots \ {0}
      <4>1. 1 \in Pools
        BY PoolFacts
      <4> QED
        BY <3>1, <4>1, WordsOfSize
    <3> HIDE DEF s
    <3>5. IF fit = {} THEN pools_by_size[s] = Null
          ELSE pools_by_size[s] \in fit /\ \A q \in fit : pools_by_size[s] <= q
      BY <3>3, <3>4 DEF IInv, SizesInv
    <3>6. PoolFromSize(size) = pools_by_size[s]
      BY DEF PoolFromSize, s
    <3> QED
      BY <2>2, <3>5, <3>6
  <2> QED
    BY <2>1, <2>2
<1> QED
  BY <1>1, Invariance, PTL
=============================================================================
