---------------------------- MODULE ReentryProofs ----------------------------
(***************************************************************************)
(* The default heap may call itself.                                       *)
(*                                                                         *)
(* First, the reentrant lock that lets the thread in again (RLock) is      *)
(* right for any set of threads and any nesting.  Then, what the calls do  *)
(* to the heap in the middle of each other (DNested) is right for any      *)
(* blocks, cells and sizes.                                                *)
(***************************************************************************)
EXTENDS DNested, RLock, DCellsProofs, TLAPS

-----------------------------------------------------------------------------
(* RLock.  What it states of threads between calls is not inductive: a     *)
(* step preserves it only if we know what a thread that is inside of a     *)
(* call has already seen and done.  PcInv says so, place by place.         *)

\* What each thread has seen and done at each place of its call.
PcInv ==
  \A t \in Threads :
    /\ pc[t] \in Locking => holds[t] < MaxDepth
    /\ pc[t] \in Unlocking => holds[t] < MaxDepth
    /\ pc[t] = "inc" => holds[t] > 0 /\ lock_count = holds[t]
    /\ pc[t] = "add" => holds[t] > 0 /\ seen[t] = holds[t]
    /\ pc[t] \in {"cas", "set"} => holds[t] = 0
    /\ pc[t] = "cas" => thread_id # t
    /\ pc[t] = "dec" => lock_count = holds[t] + 1
    /\ pc[t] = "sub" => seen[t] = holds[t] + 1
    /\ pc[t] = "clear" => holds[t] = 0

IInv == TypeOK /\ OwnerIsAlone /\ CountIsDepth /\ PcInv

\* A free lock satisfies the invariant.
LEMMA InitIInv == Init => IInv
  BY RLockAssumption DEF Init, IInv, TypeOK, OwnerIsAlone, CountIsDepth, PcInv,
     Owns, Labels, Locking, Unlocking

\* Every step preserves the invariant.
LEMMA NextIInv == IInv /\ [Next]_vars => IInv'
<1> SUFFICES ASSUME IInv, [Next]_vars PROVE IInv'
  OBVIOUS
<1> USE RLockAssumption DEF IInv, TypeOK, OwnerIsAlone, CountIsDepth, PcInv,
        Owns, Goto, Labels, Locking, Unlocking
<1>1. CASE UNCHANGED vars
  BY <1>1 DEF vars
<1>2. ASSUME NEW t \in Threads, Lock(t) PROVE IInv'
  BY <1>2 DEF Lock
<1>3. ASSUME NEW t \in Threads, Unlock(t) PROVE IInv'
  BY <1>3 DEF Unlock
<1>4. ASSUME NEW t \in Threads, TestOwner(t) PROVE IInv'
  BY <1>4 DEF TestOwner, Mine
<1>5. ASSUME NEW t \in Threads, IncRead(t) PROVE IInv'
  BY <1>5 DEF IncRead
<1>6. ASSUME NEW t \in Threads, IncWrite(t) PROVE IInv'
  BY <1>6 DEF IncWrite
<1>7. ASSUME NEW t \in Threads, SwapOwner(t) PROVE IInv'
  BY <1>7 DEF SwapOwner
<1>8. ASSUME NEW t \in Threads, SetCount(t) PROVE IInv'
  BY <1>8 DEF SetCount
<1>9. ASSUME NEW t \in Threads, DecRead(t) PROVE IInv'
  BY <1>9 DEF DecRead
<1>10. ASSUME NEW t \in Threads, DecWrite(t) PROVE IInv'
  BY <1>10 DEF DecWrite
<1>11. ASSUME NEW t \in Threads, ClearOwner(t) PROVE IInv'
  BY <1>11 DEF ClearOwner, NewOwner
<1> QED
  BY <1>1, <1>2, <1>3, <1>4, <1>5, <1>6, <1>7, <1>8, <1>9, <1>10, <1>11
     DEF Next, Step

\* Every reachable state satisfies the inductive invariant.
THEOREM Invariance == Spec => []IInv
  BY InitIInv, NextIInv, PTL DEF Spec

\* The words of the lock keep their types; the count neither underflows nor
\* exceeds the deepest nesting (rlock_lock, rlock_unlock).
THEOREM TypeCorrect == Spec => []TypeOK
<1>1. IInv => TypeOK
  BY DEF IInv
<1> QED
  BY <1>1, Invariance, PTL

\* Mutual exclusion, and no race on the count: see OwnerIsAlone in RLock.
THEOREM Exclusion == Spec => []OwnerIsAlone
<1>1. IInv => OwnerIsAlone
  BY DEF IInv
<1> QED
  BY <1>1, Invariance, PTL

\* Reentrancy: see NoSelfDeadlock in RLock.
THEOREM Reentrancy == Spec => []NoSelfDeadlock
<1>1. IInv => NoSelfDeadlock
  BY DEF IInv, PcInv, NoSelfDeadlock
<1> QED
  BY <1>1, Invariance, PTL

\* The lock is released when it should be: see CountIsDepth in RLock.
THEOREM CountCorrect == Spec => []CountIsDepth
<1>1. IInv => CountIsDepth
  BY DEF IInv
<1> QED
  BY <1>1, Invariance, PTL

\* Each step takes, nests, undoes or releases the abstract lock, or is a
\* stutter.
LEMMA AbstractStep ==
  ASSUME IInv, [Next]_vars
  PROVE  [Abstract!Next]_holds
<1>1. ASSUME NEW t \in Threads, IncWrite(t) \/ SetCount(t) PROVE Abstract!Take(t)
  <2>1. holds' = [holds EXCEPT ![t] = @ + 1]
    BY <1>1 DEF IncWrite, SetCount
  <2>2. thread_id = t
    BY <1>1 DEF IncWrite, SetCount, IInv, OwnerIsAlone, Owns
  <2>3. \A u \in Threads \ {t} : holds[u] = 0
    BY <2>2 DEF IInv, TypeOK, OwnerIsAlone, Owns
  <2> QED
    BY <2>1, <2>3 DEF Abstract!Take
<1>2. ASSUME NEW t \in Threads, Unlock(t) PROVE Abstract!Drop(t)
  BY <1>2 DEF Unlock, Abstract!Drop
<1>3. ASSUME NEW t \in Threads,
             \/ Lock(t) \/ TestOwner(t) \/ IncRead(t) \/ SwapOwner(t)
             \/ DecRead(t) \/ DecWrite(t) \/ ClearOwner(t)
      PROVE  holds' = holds
  BY <1>3 DEF Lock, TestOwner, Mine, IncRead, SwapOwner, DecRead, DecWrite, ClearOwner, NewOwner
<1>4. CASE UNCHANGED vars
  BY <1>4 DEF vars
<1> QED
  BY <1>1, <1>2, <1>3, <1>4 DEF Next, Step, Abstract!Next

\* rlock_lock and rlock_unlock implement the abstract reentrant lock.
THEOREM Implementation == Spec => ImplementsLock
<1>1. Init => Abstract!Init
  BY DEF Init, Abstract!Init
<1>2. IInv /\ [Next]_vars => [Abstract!Next]_holds
  BY AbstractStep
<1> QED
  BY <1>1, <1>2, Invariance, PTL DEF Spec, ImplementsLock, Abstract!Spec

-----------------------------------------------------------------------------
(* DNested: the calls, from the outermost to the innermost. *)

Gets     == {"get", "take", "split", "create"}
GetWaits == {"split", "create"}
Adds     == {"add", "next", "link"}
AddWaits == {"next", "link"}

Frames ==
  [at : Gets \cup Adds, n : Nat, cell : Nat, next : Cells,
   desc : [addr : Nat, size : Nat, index : Blocks]]

\* The neighbour behind, as dheap_add_free_cell remembers it: there was none,
\* it has been merged since, or it still is what it was.
NextOK(h, f) ==
  \/ f.next = Null
  \/ f.next \in MCells /\ h.desc[f.next] = NoDesc
  \/ f.next \in FreeOf(h) /\ h.desc[f.next] = f.desc /\ f.desc.index = h.desc[f.cell].index

\* What each call may rely on when it goes on.
FrameOK(h, f) ==
  /\ f.at \in Gets => f.n \in 1 .. CellsPerBlock
  /\ f.at = "take" => f.cell \in FreeOf(h) /\ f.n <= h.desc[f.cell].size
  /\ f.at = "split" => f.cell \in MCells /\ h.desc[f.cell].size - f.n >= MinCells
  /\ f.at = "create" => f.cell \in Blocks /\ h.addr_array[f.cell] # <<>> /\ f.cell \notin Occupied(h)
  /\ f.at \in Adds => f.cell \in Held(h)
  /\ f.at = "next" => NextOK(h, f)

\* What a call that waits has for itself: a cell, or the index of a block.
\* These are different numbers.
Grip(f)  == IF f.at = "create" THEN CellsPerBlock - 1 - f.cell ELSE f.cell
Grips(s) == {Grip(s[i]) : i \in 1 .. Len(s)}

CellsIn(s, places) == {s[i].cell : i \in {j \in 1 .. Len(s) : s[j].at \in places}}

\* The calls s all wait at such places for the call that each of them has made.
Wait(s, h, places) ==
  /\ s \in Seq(Frames)
  /\ \A i \in 1 .. Len(s) : s[i].at \in places /\ FrameOK(h, s[i])
  /\ \A i, j \in 1 .. Len(s) : Grip(s[i]) = Grip(s[j]) => i = j

\* The calls s wait for the innermost call f: mallocs for a malloc, or frees for
\* a free.
Calls(s, f, h) ==
  /\ f \in Frames /\ FrameOK(h, f)
  /\ \/ f.at \in Gets /\ Wait(s, h, GetWaits)
     \/ f.at \in Adds /\ Wait(s, h, AddWaits)
  /\ f.at \notin {"get", "take"} => Grip(f) \notin Grips(s)

StackOK(s, h) == s \in Seq(Frames) /\ (s # <<>> => Calls(Front(s), Last(s), h))

\* A call is put on top of others.
LEMMA OnTop ==
  ASSUME NEW s \in Seq(Frames), NEW f \in Frames
  PROVE  LET t == Append(s, f) IN
         /\ t \in Seq(Frames) /\ Len(t) = Len(s) + 1 /\ t # <<>> /\ t[Len(s) + 1] = f
         /\ \A i \in 1 .. Len(s) : t[i] = s[i]
         /\ Front(t) = s /\ Last(t) = f
<1> DEFINE t == Append(s, f)
           n == Len(s)
<1>1. /\ t \in Seq(Frames) /\ Len(t) = n + 1 /\ t # <<>> /\ t[n + 1] = f /\ n \in Nat
      /\ \A i \in 1 .. n : t[i] = s[i]
  OBVIOUS
<1>2. Front(t) = SubSeq(t, 1, n) /\ Last(t) = f
  BY <1>1 DEF Front, Last
<1> HIDE DEF t
<1>3. SubSeq(t, 1, n) = s
  <2>1. SubSeq(t, 1, n) \in Seq(Frames) /\ Len(SubSeq(t, 1, n)) = n /\ \A i \in 1 .. n : SubSeq(t, 1, n)[i] = s[i]
    BY <1>1
  <2> DEFINE r == SubSeq(t, 1, n)
  <2> HIDE DEF r
  <2>2. r \in Seq(Frames) /\ Len(r) = Len(s) /\ \A i \in 1 .. Len(s) : r[i] = s[i]
    BY <2>1 DEF r
  <2>3. r = s
    BY <2>2
  <2> QED
    BY <2>3 DEF r
<1> QED
  BY <1>1, <1>2, <1>3 DEF t

\* And taken off again.
LEMMA TakenOff ==
  ASSUME NEW s \in Seq(Frames), s # <<>>
  PROVE  /\ Front(s) \in Seq(Frames) /\ Last(s) \in Frames /\ s = Append(Front(s), Last(s))
         /\ Len(s) = Len(Front(s)) + 1 /\ Len(s) \in Nat
         /\ \A i \in 1 .. Len(Front(s)) : Front(s)[i] = s[i]
         /\ Last(s) = s[Len(s)]
<1> DEFINE n == Len(s)
           r == SubSeq(s, 1, n - 1)
<1>1. n \in Nat /\ n # 0
  OBVIOUS
<1>2. Front(s) = r /\ Last(s) = s[n] /\ s[n] \in Frames
  BY <1>1 DEF Front, Last
<1>3. r \in Seq(Frames) /\ Len(r) = n - 1 /\ \A i \in 1 .. n - 1 : r[i] = s[i]
  <2>1. ASSUME NEW p \in 1 .. n
        PROVE  LET q == SubSeq(s, 1, p - 1) IN
               q \in Seq(Frames) /\ Len(q) = p - 1 /\ \A i \in 1 .. p - 1 : q[i] = s[i]
    BY <1>1
  <2>2. n \in 1 .. n
    BY <1>1
  <2> HIDE DEF n
  <2> QED
    BY <2>1, <2>2
<1> HIDE DEF r
<1> DEFINE t == Append(r, s[n])
<1>4. t \in Seq(Frames) /\ Len(t) = n /\ \A i \in 1 .. n : t[i] = s[i]
  BY <1>1, <1>2, <1>3
<1> HIDE DEF t
<1>5. t = s
  BY <1>4
<1> QED
  BY <1>1, <1>2, <1>3, <1>5 DEF t

\* The cells and the grips of the calls, with one more.
LEMMA CellsOnTop ==
  ASSUME NEW s \in Seq(Frames), NEW f \in Frames
  PROVE  LET t == Append(s, f) IN
         /\ \A places : CellsIn(t, places) = CellsIn(s, places) \cup (IF f.at \in places THEN {f.cell} ELSE {})
         /\ Grips(t) = Grips(s) \cup {Grip(f)}
<1> DEFINE t == Append(s, f)
           n == Len(s)
<1>1. /\ Len(t) = n + 1 /\ t[n + 1] = f /\ n \in Nat /\ \A i \in 1 .. n : t[i] = s[i]
  BY OnTop
<1> HIDE DEF t, n
<1>2. \A i \in 1 .. n + 1 : i = n + 1 \/ i \in 1 .. n
  BY <1>1
<1>3. n + 1 \in 1 .. n + 1 /\ \A i \in 1 .. n : i \in 1 .. n + 1
  BY <1>1
<1>4. ASSUME NEW places
      PROVE  CellsIn(t, places) = CellsIn(s, places) \cup (IF f.at \in places THEN {f.cell} ELSE {})
  <2>1. ASSUME NEW c \in CellsIn(t, places) PROVE c \in CellsIn(s, places) \cup (IF f.at \in places THEN {f.cell} ELSE {})
    <3>1. PICK i \in 1 .. n + 1 : t[i].at \in places /\ c = t[i].cell
      BY <1>1, <2>1 DEF CellsIn
    <3> QED
      BY <1>1, <1>2, <3>1 DEF CellsIn, n
  <2>2. ASSUME NEW c \in CellsIn(s, places) PROVE c \in CellsIn(t, places)
    <3>1. PICK i \in 1 .. n : s[i].at \in places /\ c = s[i].cell
      BY <2>2 DEF CellsIn, n
    <3>2. i \in 1 .. Len(t) /\ t[i].at \in places /\ c = t[i].cell
      BY <1>1, <1>3, <3>1
    <3> QED
      BY <3>2 DEF CellsIn
  <2>3. ASSUME f.at \in places PROVE f.cell \in CellsIn(t, places)
    <3>1. n + 1 \in 1 .. Len(t) /\ t[n + 1].at \in places /\ f.cell = t[n + 1].cell
      BY <1>1, <1>3, <2>3
    <3> QED
      BY <3>1 DEF CellsIn
  <2> QED
    BY <2>1, <2>2, <2>3
<1>5. Grips(t) = Grips(s) \cup {Grip(f)}
  <2>1. ASSUME NEW c \in Grips(t) PROVE c \in Grips(s) \cup {Grip(f)}
    <3>1. PICK i \in 1 .. n + 1 : c = Grip(t[i])
      BY <1>1, <2>1 DEF Grips
    <3> QED
      BY <1>1, <1>2, <3>1 DEF Grips, n
  <2>2. ASSUME NEW c \in Grips(s) PROVE c \in Grips(t)
    <3>1. PICK i \in 1 .. n : c = Grip(s[i])
      BY <2>2 DEF Grips, n
    <3> QED
      BY <1>1, <1>3, <3>1 DEF Grips
  <2>3. Grip(f) \in Grips(t)
    BY <1>1, <1>3 DEF Grips
  <2> QED
    BY <2>1, <2>2, <2>3
<1> QED
  BY <1>4, <1>5 DEF t

\* A call that makes another one waits like the rest.
LEMMA CallMade ==
  ASSUME NEW s, NEW h, NEW places, Wait(s, h, places), NEW f \in Frames, FrameOK(h, f),
         f.at \in places, Grip(f) \notin Grips(s)
  PROVE  Wait(Append(s, f), h, places)
<1> DEFINE t == Append(s, f)
           n == Len(s)
<1>1. s \in Seq(Frames)
  BY DEF Wait
<1>2. /\ t \in Seq(Frames) /\ Len(t) = n + 1 /\ t[n + 1] = f /\ n \in Nat /\ \A i \in 1 .. n : t[i] = s[i]
  BY <1>1, OnTop
<1> HIDE DEF t
<1>3. \A i \in 1 .. n + 1 : i = n + 1 \/ i \in 1 .. n
  BY <1>2
<1>4. \A i \in 1 .. n : s[i].at \in places /\ FrameOK(h, s[i]) /\ Grip(s[i]) # Grip(f)
  BY DEF Wait, Grips
<1>5. \A i \in 1 .. n + 1 : t[i].at \in places /\ FrameOK(h, t[i])
  BY <1>2, <1>3, <1>4
<1>6. \A i, j \in 1 .. n : Grip(t[i]) = Grip(t[j]) => i = j
  BY <1>2 DEF Wait
<1>7. \A i \in 1 .. n : Grip(t[i]) # Grip(t[n + 1])
  BY <1>2, <1>4
<1>8. \A i, j \in 1 .. n + 1 : Grip(t[i]) = Grip(t[j]) => i = j
  BY <1>3, <1>6, <1>7
<1> QED
  BY <1>2, <1>5, <1>8 DEF Wait, t

\* And goes on when that one returns.
LEMMA CallBack ==
  ASSUME NEW s, NEW h, NEW places, Wait(s, h, places), s # <<>>
  PROVE  /\ Front(s) \in Seq(Frames) /\ Last(s) \in Frames
         /\ Wait(Front(s), h, places) /\ FrameOK(h, Last(s)) /\ Last(s).at \in places
         /\ Grip(Last(s)) \notin Grips(Front(s))
<1> DEFINE r == Front(s)
           n == Len(r)
<1>1. s \in Seq(Frames)
  BY DEF Wait
<1>2. /\ r \in Seq(Frames) /\ Last(s) \in Frames /\ Len(s) = n + 1 /\ n \in Nat
      /\ \A i \in 1 .. n : r[i] = s[i]
      /\ Last(s) = s[n + 1]
  BY <1>1, TakenOff
<1> HIDE DEF r
<1>3. n + 1 \in 1 .. n + 1 /\ \A i \in 1 .. n : i \in 1 .. n + 1 /\ i # n + 1
  BY <1>2
<1>4. \A i \in 1 .. n + 1 : s[i].at \in places /\ FrameOK(h, s[i])
  BY <1>2 DEF Wait
<1>5. \A i, j \in 1 .. n + 1 : Grip(s[i]) = Grip(s[j]) => i = j
  BY <1>2 DEF Wait
<1>6. Wait(r, h, places)
  BY <1>2, <1>3, <1>4, <1>5 DEF Wait
<1>7. Grip(Last(s)) \notin Grips(r)
  BY <1>2, <1>3, <1>5 DEF Grips
<1> QED
  BY <1>2, <1>3, <1>4, <1>6, <1>7 DEF r

\* A step leaves alone what the mallocs that wait rely on.
LEMMA GetsWaitOn ==
  ASSUME NEW s, NEW h, NEW g, Wait(s, h, GetWaits),
         \A k \in CellsIn(s, {"split"}) : g.desc[k].size = h.desc[k].size,
         \A b \in Blocks : h.addr_array[b] # <<>> => g.addr_array[b] # <<>>,
         \A b \in CellsIn(s, {"create"}) : b \notin Occupied(h) => b \notin Occupied(g)
  PROVE  Wait(s, g, GetWaits)
<1> SUFFICES ASSUME NEW i \in 1 .. Len(s) PROVE FrameOK(g, s[i])
  BY DEF Wait
<1>1. s[i].at \in GetWaits /\ FrameOK(h, s[i])
  BY DEF Wait
<1>2. CASE s[i].at = "split"
  <2>1. s[i].cell \in CellsIn(s, {"split"})
    BY <1>2 DEF CellsIn
  <2> QED
    BY <1>1, <1>2, <2>1 DEF FrameOK, Gets, Adds
<1>3. CASE s[i].at = "create"
  <2>1. s[i].cell \in CellsIn(s, {"create"})
    BY <1>3 DEF CellsIn
  <2> QED
    BY <1>1, <1>3, <2>1 DEF FrameOK, Gets, Adds
<1> QED
  BY <1>1, <1>2, <1>3 DEF GetWaits

\* Free cells stay as they are or are merged, and mcells are not handed out.
FreesKept(h, g) ==
  /\ \A k \in MCells : h.desc[k] = NoDesc => g.desc[k] = NoDesc
  /\ \A k \in FreeOf(h) : \/ k \in MCells /\ g.desc[k] = NoDesc
                          \/ k \in FreeOf(g) /\ g.desc[k] = h.desc[k]

\* Then a free may go on.
LEMMA FreeGoesOn ==
  ASSUME NEW h, NEW g, FreesKept(h, g), NEW f, f.at \in Adds, FrameOK(h, f),
         f.cell \in Held(g), g.desc[f.cell].index = h.desc[f.cell].index
  PROVE  FrameOK(g, f)
<1>1. f.at = "next" => NextOK(h, f)
  BY DEF FrameOK
<1>2. f.at = "next" => NextOK(g, f)
  BY <1>1 DEF NextOK, FreesKept
<1> QED
  BY <1>2 DEF FrameOK, Gets, Adds

\* So may the frees that wait.
LEMMA AddsWaitOn ==
  ASSUME NEW s, NEW h, NEW g, Wait(s, h, AddWaits), FreesKept(h, g),
         \A k \in Grips(s) : k \in Held(h) => k \in Held(g) /\ g.desc[k].index = h.desc[k].index
  PROVE  Wait(s, g, AddWaits)
<1> SUFFICES ASSUME NEW i \in 1 .. Len(s) PROVE FrameOK(g, s[i])
  BY DEF Wait
<1>1. s[i].at \in AddWaits /\ FrameOK(h, s[i])
  BY DEF Wait
<1>2. s[i].at \in Adds /\ s[i].cell = Grip(s[i]) /\ Grip(s[i]) \in Grips(s)
  BY <1>1 DEF Adds, AddWaits, Grip, Grips
<1>3. s[i].cell \in Held(h)
  BY <1>1, <1>2 DEF FrameOK
<1> QED
  BY <1>1, <1>2, <1>3, FreeGoesOn

\* The cells of the calls that wait are their grips.
LEMMA CellsAreGrips ==
  ASSUME NEW s, NEW h
  PROVE  /\ Wait(s, h, GetWaits) => /\ CellsIn(s, Adds) = {} /\ CellsIn(s, {"split"} \cup Adds) = CellsIn(s, {"split"})
                                    /\ CellsIn(s, {"split"}) \subseteq Grips(s)
         /\ Wait(s, h, AddWaits) => /\ CellsIn(s, {"split"}) = {} /\ CellsIn(s, {"split"} \cup Adds) = Grips(s)
         /\ \A P, Q \in SUBSET STRING : CellsIn(s, P \cup Q) = CellsIn(s, P) \cup CellsIn(s, Q)
<1>1. ASSUME Wait(s, h, GetWaits)
      PROVE  /\ CellsIn(s, Adds) = {} /\ CellsIn(s, {"split"} \cup Adds) = CellsIn(s, {"split"})
             /\ CellsIn(s, {"split"}) \subseteq Grips(s)
  <2>1. \A i \in 1 .. Len(s) : s[i].at \in GetWaits
    BY <1>1 DEF Wait
  <2> QED
    BY <2>1 DEF CellsIn, Grips, Grip, GetWaits, Adds
<1>2. ASSUME Wait(s, h, AddWaits)
      PROVE  CellsIn(s, {"split"}) = {} /\ CellsIn(s, {"split"} \cup Adds) = Grips(s)
  <2>1. \A i \in 1 .. Len(s) : s[i].at \in AddWaits
    BY <1>2 DEF Wait
  <2>2. CellsIn(s, {"split"}) = {}
    BY <2>1 DEF CellsIn, AddWaits
  <2>3. \A i \in 1 .. Len(s) : s[i].at \in {"split"} \cup Adds /\ Grip(s[i]) = s[i].cell
    BY <2>1 DEF Grip, Adds, AddWaits
  <2>4. CellsIn(s, {"split"} \cup Adds) = Grips(s)
    BY <2>3 DEF CellsIn, Grips
  <2> QED
    BY <2>2, <2>4
<1>3. \A P, Q \in SUBSET STRING : CellsIn(s, P \cup Q) = CellsIn(s, P) \cup CellsIn(s, Q)
  BY DEF CellsIn
<1> QED
  BY <1>1, <1>2, <1>3

\* With the innermost call.
Holding == {"split"} \cup Adds

\* When there is a heap without cells in use: no call, or mallocs only.
LEMMA NoWaits == \A places : CellsIn(<<>>, places) = {} /\ Grips(<<>>) = {}
  BY DEF CellsIn, Grips

-----------------------------------------------------------------------------
(* Who has the cells that are not free. *)

UsedCells(u) == {u[a] : a \in Addresses} \ {Null}
UsedAddrs(u) == {a \in Addresses : u[a] # Null}

\* The calls hold the cells W; the others are in used_cells, where they start.
UsedOK(h, u, W) ==
  /\ u \in [Addresses -> Cells]
  /\ \A a \in Addresses : u[a] # Null => h.desc[u[a]].addr = a
  /\ UsedCells(u) \cap W = {}
  /\ Held(h) = UsedCells(u) \cup W

\* g is f but for the value at x, which is y.
Stored(f, x, y, g) == g = [f EXCEPT ![x] = y]

\* The cell c at the address a is not free any more, and of the cells W that the
\* calls held only V are left to them.
NewlyHeld(h, g, W, V, c, a) ==
  /\ V \subseteq W
  /\ c \in MCells \ Held(h) /\ Held(g) = (Held(h) \ W) \cup V \cup {c}
  /\ a \in Addresses /\ g.desc[c].addr = a
  /\ \A k \in Held(h) \ W : g.desc[k].addr = h.desc[k].addr

\* dheap_malloc stores the cell that it returns.
LEMMA UsedTaken ==
  ASSUME NEW h, NEW g, NEW u, NEW W, NEW V, NEW c, NEW a, UsedOK(h, u, W), NewlyHeld(h, g, W, V, c, a),
         u[a] = Null, NEW v, Stored(u, a, c, v)
  PROVE  UsedOK(g, v, V) /\ UsedAddrs(v) = UsedAddrs(u) \cup {a}
<1>0. /\ V \subseteq W
      /\ c \in MCells \ Held(h) /\ Held(g) = (Held(h) \ W) \cup V \cup {c}
      /\ a \in Addresses /\ g.desc[c].addr = a
      /\ \A k \in Held(h) \ W : g.desc[k].addr = h.desc[k].addr
  BY DEF NewlyHeld
<1>1. c # Null /\ c \in Cells
  BY <1>0, CellsFacts DEF Cells
<1>2. v \in [Addresses -> Cells] /\ v[a] = c /\ \A x \in Addresses \ {a} : v[x] = u[x]
  BY <1>0, <1>1 DEF UsedOK, Stored
<1>3. UsedCells(v) = UsedCells(u) \cup {c}
  BY <1>0, <1>1, <1>2 DEF UsedCells
<1>4. UsedAddrs(v) = UsedAddrs(u) \cup {a}
  BY <1>0, <1>1, <1>2 DEF UsedAddrs
<1>5. \A x \in Addresses : u[x] # Null => u[x] \in Held(h) \ W
  BY DEF UsedOK, UsedCells
<1>6. \A x \in Addresses : v[x] # Null => g.desc[v[x]].addr = x
  BY <1>0, <1>2, <1>5 DEF UsedOK
<1>7. UsedCells(v) \cap V = {} /\ Held(g) = UsedCells(v) \cup V
  BY <1>0, <1>3 DEF UsedOK
<1> QED
  BY <1>2, <1>4, <1>6, <1>7 DEF UsedOK

\* The calls hold other cells than before.
LEMMA UsedKept ==
  ASSUME NEW h, NEW g, NEW u, NEW W, UsedOK(h, u, W), NEW V,
         Held(g) = (Held(h) \ W) \cup V, V \cap Held(h) \subseteq W,
         \A k \in Held(h) \ W : g.desc[k].addr = h.desc[k].addr
  PROVE  UsedOK(g, u, V)
<1>1. \A x \in Addresses : u[x] # Null => u[x] \in Held(h) \ W
  BY DEF UsedOK, UsedCells
<1> QED
  BY <1>1 DEF UsedOK

\* dheap_free takes the cell at the address a out of used_cells: a call has it.
TakenOut(h, u, W, a, v) ==
  /\ u[a] \in Held(h) \ W /\ u[a] \in MCells
  /\ UsedOK(h, v, W \cup {u[a]}) /\ UsedAddrs(v) = UsedAddrs(u) \ {a}

\* That is what the store of NULL in dheap_free does.
LEMMA UsedFreed ==
  ASSUME NEW h, NEW u, NEW W, UsedOK(h, u, W), NEW a \in UsedAddrs(u),
         NEW v, Stored(u, a, Null, v)
  PROVE  TakenOut(h, u, W, a, v)
<1> DEFINE c == u[a]
<1>1. v \in [Addresses -> Cells] /\ v[a] = Null /\ \A x \in Addresses \ {a} : v[x] = u[x]
  BY DEF UsedOK, UsedAddrs, Cells, Stored
<1>2. c # Null /\ a \in Addresses /\ c \in MCells /\ c \in Held(h) \ W
  BY DEF UsedOK, UsedAddrs, UsedCells, Cells
<1>3. \A x \in Addresses : u[x] = c => x = a
  BY <1>2 DEF UsedOK
<1> HIDE DEF c
<1>4. UsedCells(v) = UsedCells(u) \ {c}
  BY <1>1, <1>2, <1>3 DEF UsedCells, c
<1>5. UsedAddrs(v) = UsedAddrs(u) \ {a}
  BY <1>1 DEF UsedAddrs
<1>6. \A x \in Addresses : v[x] # Null => h.desc[v[x]].addr = x
  BY <1>1 DEF UsedOK
<1>7. UsedCells(v) \cap (W \cup {c}) = {} /\ Held(h) = UsedCells(v) \cup (W \cup {c})
  BY <1>2, <1>4 DEF UsedOK
<1> QED
  BY <1>1, <1>2, <1>5, <1>6, <1>7 DEF UsedOK, TakenOut, c

HomesOf(A, hm) == {hm[m] : m \in A} \ {Elsewhere}

\* The addresses U in use: the game's, the homes of the mcells A, and perhaps
\* one on its way to a call that asked for an mcell.
HomeOK(A, hm, U, lv, fl) ==
  /\ U = lv \cup HomesOf(A, hm) \cup fl
  /\ lv \cap HomesOf(A, hm) = {} /\ fl \cap (lv \cup HomesOf(A, hm)) = {}
  /\ \A m, k \in A : m # k /\ hm[m] = hm[k] => hm[m] = Elsewhere

\* The address that hr_malloc returned becomes the home of a new mcell.
LEMMA HomeGiven ==
  ASSUME NEW A \in SUBSET MCells, NEW hm \in [MCells -> Addresses \cup {Elsewhere}], NEW U, NEW lv,
         NEW r \in Addresses \cup {Elsewhere}, HomeOK(A, hm, U, lv, {r} \ {Elsewhere}), NEW c \in MCells \ A,
         NEW im, Stored(hm, c, r, im)
  PROVE  HomeOK(A \cup {c}, im, U, lv, {}) /\ im \in [MCells -> Addresses \cup {Elsewhere}]
<1>1. im[c] = r /\ (\A m \in A : im[m] = hm[m]) /\ im \in [MCells -> Addresses \cup {Elsewhere}]
  BY DEF Stored
<1>2. HomesOf(A \cup {c}, im) = HomesOf(A, hm) \cup ({r} \ {Elsewhere})
  BY <1>1 DEF HomesOf
<1>3. ASSUME NEW m \in A \cup {c}, NEW k \in A \cup {c}, m # k, im[m] = im[k] PROVE im[m] = Elsewhere
  <2>1. \A x \in A : hm[x] = r => r = Elsewhere
    BY DEF HomeOK, HomesOf
  <2> QED
    BY <1>1, <1>3, <2>1 DEF HomeOK
<1> QED
  BY <1>1, <1>2, <1>3 DEF HomeOK

\* The mcell o is freed, and where it lived is not in use any more.
LEMMA HomeLeft ==
  ASSUME NEW A \in SUBSET MCells, NEW hm \in [MCells -> Addresses \cup {Elsewhere}], NEW U, NEW lv, NEW fl,
         HomeOK(A, hm, U, lv, fl), NEW o \in A, NEW im, Stored(hm, o, Elsewhere, im)
  PROVE  /\ im \in [MCells -> Addresses \cup {Elsewhere}]
         /\ hm[o] = Elsewhere => HomeOK(A \ {o}, im, U, lv, fl)
         /\ hm[o] # Elsewhere => HomeOK(A \ {o}, im, U \ {hm[o]}, lv, fl) /\ hm[o] \in U
<1> DEFINE at == hm[o]
<1>1. (\A m \in A \ {o} : im[m] = hm[m]) /\ im \in [MCells -> Addresses \cup {Elsewhere}]
  BY DEF Stored, Elsewhere
<1>2. \A m \in A \ {o} : hm[m] = at => at = Elsewhere
  BY DEF HomeOK
<1>3. HomesOf(A \ {o}, im) = HomesOf(A, hm) \ {at}
  BY <1>1, <1>2 DEF HomesOf
<1>4. \A m, k \in A \ {o} : m # k /\ im[m] = im[k] => im[m] = Elsewhere
  BY <1>1 DEF HomeOK
<1>5. at # Elsewhere => at \in HomesOf(A, hm)
  BY DEF HomesOf
<1>6. Elsewhere \notin HomesOf(A, hm)
  BY DEF HomesOf
<1> HIDE DEF at
<1>7. at # Elsewhere => HomeOK(A \ {o}, im, U \ {at}, lv, fl)
  BY <1>3, <1>4, <1>5 DEF HomeOK
<1>8. at = Elsewhere => HomeOK(A \ {o}, im, U, lv, fl)
  <2>1. at = Elsewhere => HomesOf(A \ {o}, im) = HomesOf(A, hm)
    BY <1>3, <1>6
  <2> QED
    BY <1>4, <2>1 DEF HomeOK
<1> QED
  BY <1>1, <1>5, <1>7, <1>8 DEF HomeOK, at

\* A new address goes to the game, or is on its way.
LEMMA HomeTaken ==
  ASSUME NEW A, NEW hm, NEW U, NEW lv, HomeOK(A, hm, U, lv, {}), NEW r, r \notin U
  PROVE  HomeOK(A, hm, U \cup {r}, lv \cup {r}, {}) /\ HomeOK(A, hm, U \cup {r}, lv, {r})
  BY DEF HomeOK


\* The mcell that hr_malloc returned, when it lives in the default heap.
InFlightOf(s, res) ==
  IF s # <<>> /\ Last(s).at \in GetWaits THEN {res} \ {Elsewhere, Nothing} ELSE {}

\* What holds however deep the calls are nested.  The cells that are being split
\* are on the lists of their blocks only.
AllOK(h, u, hm, s, res, lv) ==
  /\ StackOK(s, h)
  /\ PartOK(h, CellsIn(s, {"split"}))
  /\ \A b \in Blocks : h.block_addr[b] \in {0, CellsPerBlock * (b + 1)}
  /\ UsedOK(h, u, CellsIn(s, Holding))
  /\ hm \in [MCells -> Addresses \cup {Elsewhere}]
  /\ res \in Addresses \cup {Elsewhere, Nothing} /\ lv \subseteq Addresses
  /\ HomeOK(Allocated(h), hm, UsedAddrs(u), lv, InFlightOf(s, res))

NestedInv ==
  /\ AllOK(heap, used, home, stack, result, live)
  /\ fault \in {"none", "null", "dangling"}

-----------------------------------------------------------------------------
(* DNested: what the calls do to the lists while others split cells. *)

\* A free cell is taken whole.
LEMMA PartTaken ==
  ASSUME NEW h, NEW S, PartOK(h, S), NEW m \in FreeOf(h)
  PROVE  LET g == RmvFreeCell(h, m) IN
         /\ PartOK(g, S) /\ FreeOf(g) = FreeOf(h) \ {m} /\ Allocated(g) = Allocated(h)
         /\ SameCells(h, g) /\ SameArrays(h, g)
<1> DEFINE g == RmvFreeCell(h, m)
<1>1. /\ h \in Heaps /\ PartFree(h, S) /\ BlocksOK(h) /\ TilesOK(h)
      /\ FreeOf(h) \cup S \subseteq Allocated(h)
  BY DEF PartOK
<1>2. /\ g \in Heaps /\ PartFree(g, S) /\ FreeOf(g) = FreeOf(h) \ {m}
      /\ SameCells(h, g) /\ SameArrays(h, g)
  BY <1>1, PartRemoved
<1> HIDE DEF g
<1>3. BlocksOK(g) /\ TilesOK(g) /\ Allocated(g) = Allocated(h)
  BY <1>1, <1>2, SameTiles
<1>4. PartOK(g, S)
  BY <1>1, <1>2, <1>3 DEF PartOK
<1> QED
  BY <1>2, <1>3, <1>4 DEF g

\* A cell that nobody has any more goes on the lists.
LEMMA PartFreed ==
  ASSUME NEW h, NEW S, PartOK(h, S), NEW m \in Allocated(h), m \notin FreeOf(h) \cup S
  PROVE  LET g == LinkFreeCell(h, m) IN
         /\ PartOK(g, S) /\ FreeOf(g) = FreeOf(h) \cup {m} /\ Allocated(g) = Allocated(h)
         /\ SameCells(h, g) /\ SameArrays(h, g)
<1> DEFINE g == LinkFreeCell(h, m)
           b == h.desc[m].index
<1>1. /\ h \in Heaps /\ PartFree(h, S) /\ BlocksOK(h) /\ TilesOK(h)
      /\ FreeOf(h) \cup S \subseteq Allocated(h)
  BY DEF PartOK
<1>2. /\ m \in MCells /\ b \in Blocks /\ h.addr_array[b] # <<>>
      /\ h.desc[m].size \in 1 .. CellsPerBlock /\ h.desc[m].addr - h.block_addr[b] \in Offs
  BY <1>1, HeldFacts
<1>3. /\ g \in Heaps /\ PartFree(g, S) /\ FreeOf(g) = FreeOf(h) \cup {m}
      /\ SameCells(h, g) /\ SameArrays(h, g)
  <2> HIDE DEF b
  <2> QED
    BY <1>1, <1>2, PartLinked DEF b
<1> HIDE DEF g
<1>4. BlocksOK(g) /\ TilesOK(g) /\ Allocated(g) = Allocated(h)
  BY <1>1, <1>3, SameTiles
<1>5. PartOK(g, S)
  BY <1>1, <1>3, <1>4 DEF PartOK
<1> QED
  BY <1>3, <1>4, <1>5 DEF g

\* A block without cells has no hints.
LEMMA EmptyIsBlank ==
  ASSUME NEW h, NEW S, PartOK(h, S), NEW b \in Blocks, h.addr_array[b] # <<>>, b \notin Occupied(h)
  PROVE  h.addr_array[b] = Blank
<1> DEFINE list  == h.addr_list[b]
           array == h.addr_array[b]
<1>1. h \in Heaps /\ AddrOK(h) /\ FreeOf(h) \cup S \subseteq Allocated(h)
  BY DEF PartOK, PartFree
<1>2. list \in Lists /\ array \in [Offs -> Cells]
  BY <1>1, HeapFacts
<1>3. Listed(list) = {}
  BY <1>1 DEF PartOK, PartFree, Occupied
<1>4. Indexed(list, AddrKey(h, b), array)
  BY <1>1 DEF AddrOK
<1> HIDE DEF list, array
<1>5. \A i \in 1 .. Len(list) : FALSE
  BY <1>3 DEF Listed
<1>6. \A n \in Offs : array[n] = Null
  BY <1>4, <1>5 DEF Indexed, IsFirst
<1> QED
  BY <1>2, <1>6 DEF Blank, array

\* The new block is one free cell, which a call has in mind.
BlockIsFree(h, S, b, m, g) ==
  /\ m \in MCells \ Allocated(h)
  /\ PartOK(g, S) /\ FreeOf(g) = FreeOf(h) \cup {m} /\ Allocated(g) = Allocated(h) \cup {m}
  /\ g.block_addr = h.block_addr /\ SameArrays(h, g)
  /\ \A k \in MCells \ {m} : g.desc[k] = h.desc[k]
  /\ g.desc[m].size = CellsPerBlock /\ g.desc[m].index = b

\* dheap_create_new_block ends with dheap_add_free_cell, which finds no
\* neighbours.
LEMMA BlockFreed ==
  ASSUME NEW h, NEW S, PartOK(h, S), NEW b \in Blocks, h.addr_array[b] # <<>>, b \notin Occupied(h)
  PROVE  LET m == NewCell(h, h.block_addr[b]) IN
         BlockIsFree(h, S, b, m, AddFreeCell(FillBlock(h, b, m), m))
<1> DEFINE m   == NewCell(h, h.block_addr[b])
           new == [addr |-> h.block_addr[b], size |-> CellsPerBlock, index |-> b]
           f   == [h EXCEPT !.desc[m] = new]
           g   == LinkFreeCell(f, m)
<1>1. h \in Heaps /\ h.block_addr[b] \in Nat /\ FreeOf(h) \cup S \subseteq Allocated(h)
  BY HeapFacts DEF PartOK
<1>2. h.addr_array[b] = Blank
  BY EmptyIsBlank
<1>3. BlockIsCell(h, S, b, m, f)
  <2>1. \A k \in Allocated(h) : h.desc[k].index # b
    BY DEF Occupied
  <2> QED
    BY <2>1, CellPlaced
<1>4. FillBlock(h, b, m) = f
  <2>1. [h EXCEPT !.addr_array[b] = Blank] = h
    BY <1>1, <1>2 DEF Heaps
  <2>2. FillBlock(h, b, m) = [[h EXCEPT !.addr_array[b] = Blank] EXCEPT !.desc[m] = new]
    BY <1>1 DEF FillBlock, Heaps
  <2> QED
    BY <2>1, <2>2
<1> HIDE DEF m, f
<1>5. AddFreeCell(f, m) = g
  <2>1. f.desc[m] = new /\ f.block_addr = h.block_addr /\ f.addr_array[b] = Blank
    BY <1>2, <1>3 DEF BlockIsCell
  <2>2. f.addr_array[f.desc[m].index][AddrIndex(f, m)] = Null
    BY <1>1, <2>1, CellsFacts DEF AddrIndex, Blank
  <2> HIDE DEF g
  <2> QED
    BY <2>2 DEF AddFreeCell, g
<1>6. m \in Allocated(f) /\ m \notin FreeOf(f) \cup S /\ PartOK(f, S)
  BY <1>1, <1>3 DEF BlockIsCell
<1>7. /\ PartOK(g, S) /\ FreeOf(g) = FreeOf(f) \cup {m} /\ Allocated(g) = Allocated(f)
      /\ SameCells(f, g) /\ SameArrays(f, g)
  BY <1>6, PartFreed
<1> HIDE DEF g
<1>8. BlockIsFree(h, S, b, m, g)
  BY <1>3, <1>7 DEF BlockIsCell, BlockIsFree, SameCells, SameArrays
<1> QED
  BY <1>4, <1>5, <1>8 DEF m

-----------------------------------------------------------------------------
(* DNested: how calls are made and return. *)

\* Between two calls of the game nothing waits.
LEMMA NothingWaits ==
  /\ <<>> \in Seq(Frames)
  /\ \A h, places : Wait(<<>>, h, places)
  /\ \A f \in Frames : <<f>> = Append(<<>>, f)
<1>1. <<>> \in Seq(Frames) /\ Len(<<>>) = 0 /\ \A i \in 1 .. 0 : FALSE
  OBVIOUS
<1>2. \A f \in Frames : <<f>> = Append(<<>>, f)
  OBVIOUS
<1> QED
  BY <1>1, <1>2 DEF Wait

\* The innermost call returns: the one that waits for it goes on.
LEMMA StackReturned ==
  ASSUME NEW s, NEW h, NEW places \in {GetWaits, AddWaits}, Wait(s, h, places)
  PROVE  StackOK(s, h)
<1>1. s \in Seq(Frames)
  BY DEF Wait
<1>2. ASSUME s # <<>> PROVE Calls(Front(s), Last(s), h)
  <2>1. /\ Last(s) \in Frames /\ Wait(Front(s), h, places) /\ FrameOK(h, Last(s))
        /\ Last(s).at \in places /\ Grip(Last(s)) \notin Grips(Front(s))
    BY <1>2, CallBack
  <2> QED
    BY <2>1 DEF Calls, GetWaits, AddWaits, Gets, Adds
<1> QED
  BY <1>1, <1>2 DEF StackOK

\* The innermost call and those that wait for it.
LEMMA StackMade ==
  ASSUME NEW s, NEW f, NEW h, Calls(s, f, h)
  PROVE  LET t == Append(s, f) IN
         /\ s \in Seq(Frames) /\ StackOK(t, h) /\ t # <<>> /\ Front(t) = s /\ Last(t) = f
         /\ Len(t) = Len(s) + 1 /\ Len(s) \in Nat
<1>1. s \in Seq(Frames) /\ f \in Frames
  BY DEF Calls, Wait
<1> QED
  BY <1>1, OnTop DEF StackOK

\* A new frame.
IsFrame(f, at, n, c) == f \in Frames /\ f.at = at /\ f.n = n /\ f.cell = c

\* Frame makes one.
LEMMA FrameMade ==
  ASSUME NEW at \in Gets \cup Adds, NEW n \in Nat, NEW c \in Nat
  PROVE  IsFrame(Frame(at, n, c), at, n, c)
  BY CellsFacts DEF IsFrame, Frame, Frames, Cells, NoDesc, Blocks

\* The innermost malloc makes another, and waits for it as f.
LEMMA GetCallsGet ==
  ASSUME NEW s, NEW f, NEW h, Calls(s, f, h), f.at \in GetWaits
  PROVE  Calls(Append(s, f), GetFrame(McellUnits), h)
<1> DEFINE e == GetFrame(McellUnits)
<1>1. f \in Frames /\ FrameOK(h, f) /\ Wait(s, h, GetWaits) /\ Grip(f) \notin Grips(s)
  BY DEF Calls, GetWaits, Gets, Adds
<1>2. Wait(Append(s, f), h, GetWaits)
  BY <1>1, CallMade
<1>3. e.at = "get" /\ e.n = 1 /\ e \in Frames
  BY CellsFacts DEF GetFrame, Frame, McellUnits, Frames, Gets, Adds, Cells, Null, NoDesc, Blocks
<1>4. FrameOK(h, e)
  BY <1>3, CellsFacts DEF FrameOK, Gets, Adds
<1> QED
  BY <1>2, <1>3, <1>4 DEF Calls, Gets

\* The cells that the calls t split and hold: those of the waiting calls s, and
\* the one of the innermost call f.
CallCells(s, f, t) ==
  /\ f.at = "split" => CellsIn(t, {"split"}) = CellsIn(s, {"split"}) \cup {f.cell}
  /\ f.at # "split" => CellsIn(t, {"split"}) = CellsIn(s, {"split"})
  /\ f.at \in Holding => CellsIn(t, Holding) = CellsIn(s, Holding) \cup {f.cell}
  /\ f.at \notin Holding => CellsIn(t, Holding) = CellsIn(s, Holding)
  /\ f.at \in Gets => CellsIn(s, Holding) = CellsIn(s, {"split"}) /\ CellsIn(t, Holding) = CellsIn(t, {"split"})
  /\ f.at = "split" => f.cell \notin CellsIn(s, Holding)
  /\ f.at \in Adds => /\ CellsIn(t, {"split"}) = {} /\ f.cell \notin CellsIn(s, Holding)
                       /\ f.cell \in CellsIn(t, Holding) /\ Grips(s) = CellsIn(s, Holding)

\* The calls s with f on top have these cells.
LEMMA CellsOfCalls ==
  ASSUME NEW s, NEW f, NEW h, Calls(s, f, h)
  PROVE  CallCells(s, f, Append(s, f))
<1> DEFINE t == Append(s, f)
<1>1. s \in Seq(Frames) /\ f \in Frames
  BY DEF Calls, Wait
<1>2. \A places : CellsIn(t, places) = CellsIn(s, places) \cup (IF f.at \in places THEN {f.cell} ELSE {})
  BY <1>1, CellsOnTop
<1> HIDE DEF t
<1>3. /\ f.at = "split" => CellsIn(t, {"split"}) = CellsIn(s, {"split"}) \cup {f.cell}
      /\ f.at # "split" => CellsIn(t, {"split"}) = CellsIn(s, {"split"})
  BY <1>2, f.at \in {"split"} <=> f.at = "split"
<1>4. /\ f.at \in Holding => CellsIn(t, Holding) = CellsIn(s, Holding) \cup {f.cell}
      /\ f.at \notin Holding => CellsIn(t, Holding) = CellsIn(s, Holding)
  BY <1>2
<1>5. ASSUME f.at \in Gets
      PROVE  /\ CellsIn(s, Holding) = CellsIn(s, {"split"}) /\ CellsIn(t, Holding) = CellsIn(t, {"split"})
             /\ f.at = "split" => f.cell \notin CellsIn(s, Holding)
  <2>1. Wait(s, h, GetWaits)
    BY <1>5 DEF Calls, Gets, Adds
  <2>2. CellsIn(s, Holding) = CellsIn(s, {"split"}) /\ CellsIn(s, {"split"}) \subseteq Grips(s)
    BY <2>1, CellsAreGrips DEF Holding
  <2>3. f.at = "split" => f.cell \notin CellsIn(s, Holding)
    BY <2>2 DEF Calls, Grip
  <2>4. f.at \in Holding <=> f.at = "split"
    BY <1>5 DEF Holding, Gets, Adds
  <2> QED
    BY <1>3, <1>4, <2>2, <2>3, <2>4
<1>6. ASSUME f.at \in Adds
      PROVE  /\ CellsIn(t, {"split"}) = {} /\ f.cell \notin CellsIn(s, Holding)
             /\ f.cell \in CellsIn(t, Holding) /\ Grips(s) = CellsIn(s, Holding)
  <2>1. Wait(s, h, AddWaits)
    BY <1>6 DEF Calls, Gets, Adds
  <2>2. CellsIn(s, {"split"}) = {} /\ CellsIn(s, Holding) = Grips(s)
    BY <2>1, CellsAreGrips DEF Holding
  <2>3. f.cell \notin CellsIn(s, Holding)
    BY <1>6, <2>2 DEF Calls, Grip, Adds
  <2>4. f.at \in Holding /\ f.at # "split"
    BY <1>6 DEF Holding, Adds
  <2> QED
    BY <1>3, <1>4, <2>2, <2>3, <2>4
<1>7. f.at = "split" => f.at \in Gets
  BY DEF Gets
<1> QED
  BY <1>3, <1>4, <1>5, <1>6, <1>7 DEF CallCells, t

\* What the innermost malloc returns goes to the game, or is on its way to the
\* call that waits.
Ends(s, a, lv, lw, ret) ==
  IF Len(s) = 1 THEN lw = lv \cup ({a} \ {Nothing}) /\ ret = Elsewhere
  ELSE ret \in (IF a = Nothing THEN {Elsewhere, Nothing} ELSE {a}) /\ lw = lv

\* Then it has an owner.
Owned(A, hm, U, s, a, lw, ret) ==
  /\ HomeOK(A, hm, U \cup ({a} \ {Nothing}), lw, InFlightOf(Front(s), ret))
  /\ ret \in Addresses \cup {Elsewhere, Nothing} /\ lw \subseteq Addresses

\* When the innermost malloc returns, to the game or to hr_malloc, the address has
\* an owner.
LEMMA Returned ==
  ASSUME NEW s, NEW h, StackOK(s, h), s # <<>>, Last(s).at \in Gets, NEW A, NEW hm, NEW U, NEW lv, lv \subseteq Addresses,
         HomeOK(A, hm, U, lv, {}), NEW a \in Addresses \cup {Nothing}, a \notin U,
         NEW lw, NEW ret, Ends(s, a, lv, lw, ret)
  PROVE  Owned(A, hm, U, s, a, lw, ret)
<1> DEFINE r == Front(s)
           fl == InFlightOf(r, ret)
<1>1. Nothing \notin Addresses /\ Elsewhere \notin Addresses /\ Nothing # Elsewhere
  BY CellsFacts DEF Addresses, Nothing, Elsewhere, Null
<1>2. r \in Seq(Frames) /\ Len(s) = Len(r) + 1 /\ Len(r) \in Nat
  BY TakenOff DEF StackOK
<1>3. r # <<>> => Last(r).at \in GetWaits
  <2>1. Wait(r, h, GetWaits)
    BY DEF StackOK, Calls, Gets, Adds
  <2> QED
    BY <2>1, CallBack
<1> HIDE DEF r
<1>4. Len(s) = 1 <=> r = <<>>
  BY <1>2
<1>5. CASE a = Nothing
  <2>1. lw = lv /\ ret \in {Elsewhere, Nothing}
    BY <1>5 DEF Ends
  <2>2. fl = {}
    BY <2>1 DEF InFlightOf
  <2> HIDE DEF fl
  <2>3. U \cup ({a} \ {Nothing}) = U
    BY <1>5
  <2> QED
    BY <2>1, <2>2, <2>3 DEF Owned, fl, r
<1>6. CASE a # Nothing
  <2>1. {a} \ {Nothing} = {a} /\ a \in Addresses
    BY <1>6
  <2>2. HomeOK(A, hm, U \cup {a}, lv \cup {a}, {}) /\ HomeOK(A, hm, U \cup {a}, lv, {a})
    BY HomeTaken
  <2>3. CASE r = <<>>
    <3>1. lw = lv \cup {a} /\ ret = Elsewhere /\ fl = {}
      BY <1>4, <2>1, <2>3 DEF Ends, InFlightOf
    <3> HIDE DEF fl
    <3> QED
      BY <2>1, <2>2, <3>1 DEF Owned, fl, r
  <2>4. CASE r # <<>>
    <3>1. lw = lv /\ ret = a
      BY <1>4, <1>6, <2>4 DEF Ends
    <3>2. fl = {a}
      BY <1>1, <1>3, <2>1, <2>4, <3>1 DEF InFlightOf
    <3> HIDE DEF fl
    <3> QED
      BY <2>1, <2>2, <3>1, <3>2 DEF Owned, fl, r
  <2> QED
    BY <2>3, <2>4
<1> QED
  BY <1>5, <1>6

-----------------------------------------------------------------------------
(* DNested: dheap_get_free_cell. *)

\* The innermost call, and what it may rely on.
LEMMA TopFacts ==
  ASSUME NEW h, NEW u, NEW hm, NEW s, NEW res, NEW lv, AllOK(h, u, hm, s, res, lv), s # <<>>
  PROVE  LET r == Front(s)
             f == Last(s)
             S == CellsIn(s, {"split"})
             W == CellsIn(s, Holding) IN
         /\ r \in Seq(Frames) /\ f \in Frames /\ s = Append(r, f) /\ Calls(r, f, h) /\ FrameOK(h, f)
         /\ CallCells(r, f, s)
         /\ h \in Heaps /\ PartFree(h, S) /\ BlocksOK(h) /\ TilesOK(h)
         /\ FreeOf(h) \cup S \subseteq Allocated(h) /\ FreeOf(h) \cap S = {} /\ Allocated(h) \subseteq MCells
         /\ W \subseteq Held(h)
         /\ f.at \in Gets => W = S /\ Wait(r, h, GetWaits)
         /\ f.at \in Adds => S = {} /\ Wait(r, h, AddWaits) /\ HeapOK(h) /\ f.cell \in W
<1> DEFINE r == Front(s)
           f == Last(s)
           S == CellsIn(s, {"split"})
           W == CellsIn(s, Holding)
<1>1. s \in Seq(Frames) /\ Calls(r, f, h) /\ PartOK(h, S) /\ UsedOK(h, u, W)
  BY DEF AllOK, StackOK
<1>2. r \in Seq(Frames) /\ f \in Frames /\ s = Append(r, f)
  BY <1>1, TakenOff
<1>3. FrameOK(h, f) /\ (f.at \in Gets => Wait(r, h, GetWaits)) /\ (f.at \in Adds => Wait(r, h, AddWaits))
  BY <1>1 DEF Calls, Gets, Adds
<1>4. /\ h \in Heaps /\ PartFree(h, S) /\ BlocksOK(h) /\ TilesOK(h)
      /\ FreeOf(h) \cup S \subseteq Allocated(h) /\ FreeOf(h) \cap S = {} /\ Allocated(h) \subseteq MCells
  BY <1>1, AllocatedFacts DEF PartOK, PartFree
<1>5. W \subseteq Held(h)
  BY <1>1 DEF UsedOK
<1> HIDE DEF r, f
<1> HIDE DEF S, W
<1> CallCells(r, f, s)
  BY <1>1, <1>2, CellsOfCalls
<1>6. f.at \in Gets => W = S
  BY DEF CallCells, S, W
<1>7. f.at \in Adds => S = {} /\ f.cell \in W
  BY DEF CallCells, S, W
<1>8. f.at \in Adds => HeapOK(h)
  BY <1>1, <1>7, HeapIsPart
<1> QED
  BY <1>1, <1>2, <1>3, <1>4, <1>5, <1>6, <1>7, <1>8 DEF r, f, S, W

\* The cell to take fits.
LEMMA ChosenFits ==
  ASSUME NEW h, NEW S, PartOK(h, S), NEW f, FrameOK(h, f), f.at \in {"get", "take"},
         NEW m, m = IF f.at = "take" THEN f.cell ELSE h.size_array[f.n - 1], m # Null
  PROVE  m \in FreeOf(h) /\ f.n \in 1 .. CellsPerBlock /\ f.n <= h.desc[m].size
<1>1. f.n \in 1 .. CellsPerBlock
  BY DEF FrameOK, Gets
<1>2. CASE f.at = "take"
  BY <1>1, <1>2 DEF FrameOK
<1>3. CASE f.at # "take"
  <2>1. h \in Heaps /\ SizeOK(h)
    BY DEF PartOK, PartFree
  <2> QED
    BY <1>1, <1>3, <2>1, SizeHintFits
<1> QED
  BY <1>2, <1>3

\* A free cell of the size, or hardly more, is returned.
LEMMA WholeGot ==
  ASSUME NEW h, NEW u, NEW hm, NEW s, NEW res, NEW lv, AllOK(h, u, hm, s, res, lv), s # <<>>,
         Last(s).at \in {"get", "take"}, NEW m \in FreeOf(h),
         NEW lw, NEW ret, Ends(s, h.desc[m].addr, lv, lw, ret)
  PROVE  AllOK(RmvFreeCell(h, m), [u EXCEPT ![h.desc[m].addr] = m], hm, Front(s), ret, lw)
<1> DEFINE r == Front(s)
           f == Last(s)
           S == CellsIn(s, {"split"})
           W == CellsIn(s, Holding)
           a == h.desc[m].addr
           v == [u EXCEPT ![a] = m]
           g == RmvFreeCell(h, m)
<1>1. /\ r \in Seq(Frames) /\ f \in Frames /\ s = Append(r, f) /\ Calls(r, f, h) /\ CallCells(r, f, s)
      /\ h \in Heaps /\ BlocksOK(h) /\ TilesOK(h)
      /\ FreeOf(h) \cup S \subseteq Allocated(h) /\ FreeOf(h) \cap S = {} /\ Allocated(h) \subseteq MCells
  BY TopFacts
<1>2. W = S /\ Wait(r, h, GetWaits) /\ f.at \notin Holding /\ f.at # "split" /\ f.at \in Gets /\ f.at \notin GetWaits
  BY TopFacts DEF Gets, Holding, Adds, GetWaits
<1>3. /\ PartOK(h, S) /\ UsedOK(h, u, W) /\ hm \in [MCells -> Addresses \cup {Elsewhere}] /\ lv \subseteq Addresses
      /\ HomeOK(Allocated(h), hm, UsedAddrs(u), lv, InFlightOf(s, res))
      /\ \A b \in Blocks : h.block_addr[b] \in {0, CellsPerBlock * (b + 1)}
  BY DEF AllOK
<1>4. InFlightOf(s, res) = {}
  BY <1>2 DEF InFlightOf
<1>5. /\ PartOK(g, S) /\ FreeOf(g) = FreeOf(h) \ {m} /\ Allocated(g) = Allocated(h)
      /\ SameCells(h, g) /\ SameArrays(h, g)
  BY <1>3, PartTaken
<1> HIDE DEF g, r, f, S, W
<1>6. CellsIn(r, {"split"}) = S /\ CellsIn(r, Holding) = W
  BY <1>1, <1>2 DEF CallCells, S, W
<1>7. a \in Addresses
  <2>1. m \in Allocated(h)
    BY <1>1
  <2>2. h.block_addr[h.desc[m].index] \in Places /\ a \in Nat
        /\ a - h.block_addr[h.desc[m].index] \in Offs /\ h.block_addr[h.desc[m].index] \in Nat
    BY <1>1, <2>1, HeldFacts
  <2>3. \A i \in Offs : h.block_addr[h.desc[m].index] + i \in MCells
    BY <2>2, PlacesApart
  <2>4. h.block_addr[h.desc[m].index] + (a - h.block_addr[h.desc[m].index]) = a
    BY <2>2
  <2> QED
    BY <2>2, <2>3, <2>4 DEF Addresses
<1>8. u[a] = Null
  <2>1. SUFFICES ASSUME u[a] # Null PROVE FALSE
    OBVIOUS
  <2> DEFINE k == u[a]
  <2>2. h.desc[k].addr = a /\ k \in Held(h)
    BY <1>3, <1>7, <2>1 DEF UsedOK, UsedCells
  <2>3. a \in a .. EndOf(h.desc[m]) - 1 /\ m \in Allocated(h)
    BY <1>1, HeldFacts, CellsFacts DEF EndOf
  <2>4. k \in Allocated(h) /\ k # m
    BY <2>2 DEF Held
  <2> HIDE DEF k
  <2> QED
    BY <1>1, <2>2, <2>3, <2>4, StartsDiffer
<1>9. UsedOK(g, v, CellsIn(r, Holding)) /\ UsedAddrs(v) = UsedAddrs(u) \cup {a}
  <2>1. NewlyHeld(h, g, W, W, m, a)
    BY <1>1, <1>3, <1>5, <1>7 DEF Held, SameCells, NewlyHeld, UsedOK
  <2> HIDE DEF a
  <2>2. Stored(u, a, m, v)
    BY DEF Stored
  <2> HIDE DEF v
  <2>3. UsedOK(g, v, W) /\ UsedAddrs(v) = UsedAddrs(u) \cup {a}
    BY <1>3, <1>8, <2>1, <2>2, UsedTaken
  <2> QED
    BY <1>6, <2>3
<1>10. Wait(r, g, GetWaits)
  <2>1. Occupied(g) = Occupied(h) /\ g.desc = h.desc /\ \A b \in Blocks : h.addr_array[b] # <<>> => g.addr_array[b] # <<>>
    BY <1>5 DEF Occupied, SameCells, SameArrays
  <2> QED
    BY <1>2, <2>1, GetsWaitOn
<1>11. StackOK(r, g)
  BY <1>10, StackReturned
<1>12. /\ HomeOK(Allocated(g), hm, UsedAddrs(v), lw, InFlightOf(r, ret))
       /\ ret \in Addresses \cup {Elsewhere, Nothing} /\ lw \subseteq Addresses
  <2>1. a \notin UsedAddrs(u) /\ {a} \ {Nothing} = {a}
    BY <1>7, <1>8, CellsFacts DEF UsedAddrs, Addresses, Nothing
  <2>2. StackOK(s, h) /\ Last(s).at \in Gets /\ Ends(s, a, lv, lw, ret)
    BY <1>2 DEF f, AllOK
  <2>3. HomeOK(Allocated(g), hm, UsedAddrs(u), lv, {})
    BY <1>3, <1>4, <1>5
  <2> HIDE DEF a, v
  <2>4. Owned(Allocated(g), hm, UsedAddrs(u), s, a, lw, ret)
    BY <1>3, <1>7, <2>1, <2>2, <2>3, Returned
  <2> QED
    BY <1>9, <2>1, <2>4 DEF Owned, r
<1>13. \A b \in Blocks : g.block_addr[b] \in {0, CellsPerBlock * (b + 1)}
  BY <1>3, <1>5 DEF SameCells
<1> HIDE DEF v
<1>14. AllOK(g, v, hm, r, ret, lw)
  BY <1>3, <1>5, <1>6, <1>9, <1>11, <1>12, <1>13 DEF AllOK
<1> QED
  BY <1>14 DEF v, g, r

\* The call that waited for an mcell splits its cell.
LEMMA TailGot ==
  ASSUME NEW h, NEW u, NEW hm, NEW s, NEW res, NEW lv, AllOK(h, u, hm, s, res, lv), s # <<>>,
         Last(s).at = "split", res # Nothing,
         NEW m, m = Last(s).cell, NEW n, n = Last(s).n, NEW c, c = NewTail(h, m, n),
         NEW a, a = Split(h, m, n).desc[c].addr, NEW lw, NEW ret, Ends(s, a, lv, lw, ret)
  PROVE  AllOK(LinkBySize(Split(h, m, n), m), [u EXCEPT ![a] = c], [hm EXCEPT ![c] = res], Front(s), ret, lw)
<1> DEFINE r  == Front(s)
           f  == Last(s)
           S  == CellsIn(s, {"split"})
           W  == CellsIn(s, Holding)
           v  == [u EXCEPT ![a] = c]
           im == [hm EXCEPT ![c] = res]
           g  == LinkBySize(Split(h, m, n), m)
<1>1. /\ r \in Seq(Frames) /\ f \in Frames /\ s = Append(r, f) /\ Calls(r, f, h) /\ FrameOK(h, f) /\ CallCells(r, f, s)
      /\ h \in Heaps /\ BlocksOK(h) /\ TilesOK(h) /\ W \subseteq Held(h)
      /\ FreeOf(h) \cup S \subseteq Allocated(h) /\ FreeOf(h) \cap S = {} /\ Allocated(h) \subseteq MCells
  BY TopFacts
<1>2. W = S /\ Wait(r, h, GetWaits) /\ f.at \in Holding /\ f.at \in Gets /\ f.at \in GetWaits
  BY TopFacts DEF Gets, Holding, GetWaits
<1>3. /\ PartOK(h, S) /\ UsedOK(h, u, W) /\ hm \in [MCells -> Addresses \cup {Elsewhere}] /\ lv \subseteq Addresses
      /\ HomeOK(Allocated(h), hm, UsedAddrs(u), lv, InFlightOf(s, res))
      /\ \A b \in Blocks : h.block_addr[b] \in {0, CellsPerBlock * (b + 1)}
      /\ res \in Addresses \cup {Elsewhere}
  BY DEF AllOK
<1>4. InFlightOf(s, res) = {res} \ {Elsewhere}
  BY <1>2 DEF InFlightOf
<1> HIDE DEF r, f
<1>5. n \in Nat \ {0} /\ n \in 1 .. CellsPerBlock /\ m \in MCells /\ h.desc[m].size - n >= MinCells
  BY <1>1, <1>2 DEF FrameOK, f
<1>6. /\ CellsIn(r, {"split"}) = S \ {m} /\ CellsIn(r, Holding) = S \ {m} /\ m \in S
      /\ CellsIn(r, {"split"}) \subseteq S
  <2>1. CellsIn(s, {"split"}) = CellsIn(r, {"split"}) \cup {m} /\ m \notin CellsIn(r, Holding)
        /\ CellsIn(r, Holding) = CellsIn(r, {"split"})
    BY <1>1, <1>2 DEF CallCells, f
  <2> QED
    BY <2>1
<1> HIDE DEF S, W, g
<1>7. CellSplit(h, S, m, n, g, c)
  BY <1>3, <1>5, <1>6, PartSplit DEF g
<1>8. /\ PartOK(g, S \ {m}) /\ FreeOf(g) = FreeOf(h) \cup {m}
      /\ c \in MCells \ Allocated(h) /\ Allocated(g) = Allocated(h) \cup {c}
      /\ SameArrays(h, g) /\ g.block_addr = h.block_addr
      /\ g.desc = Split(h, m, n).desc /\ \A k \in MCells \ {m, c} : g.desc[k] = h.desc[k]
      /\ g.desc[m].index = h.desc[m].index /\ g.desc[c].index = h.desc[m].index
      /\ g.desc[c].addr \in MCells /\ g.desc[c].addr \in h.desc[m].addr .. EndOf(h.desc[m]) - 1
  <2>1. /\ g.desc[c].addr \in MCells /\ h.desc[m].addr \in Nat /\ EndOf(h.desc[m]) \in Nat
        /\ h.desc[m].addr < g.desc[c].addr /\ g.desc[c].addr < EndOf(h.desc[m])
    BY <1>7 DEF CellSplit
  <2>2. \A x, y \in Nat : \A z \in MCells : x < z /\ z < y => z \in x .. y - 1
    BY CellsFacts
  <2>3. g.desc[c].addr \in h.desc[m].addr .. EndOf(h.desc[m]) - 1
    BY <2>1, <2>2
  <2> QED
    BY <1>7, <2>1, <2>3 DEF CellSplit
<1>9. g.desc[c].addr = a /\ a \in Addresses
  BY <1>8 DEF Addresses
<1>10. u[a] = Null
  <2>1. SUFFICES ASSUME u[a] # Null PROVE FALSE
    OBVIOUS
  <2> DEFINE k == u[a]
  <2>2. h.desc[k].addr = a /\ k \in Held(h) /\ k \notin W
    BY <1>3, <1>9, <2>1 DEF UsedOK, UsedCells
  <2>3. k \in Allocated(h) /\ k # m /\ m \in Allocated(h)
    BY <1>1, <1>2, <1>6, <2>2 DEF Held
  <2> HIDE DEF k
  <2> QED
    BY <1>1, <1>8, <1>9, <2>2, <2>3, StartsDiffer
<1>11. UsedOK(g, v, CellsIn(r, Holding)) /\ UsedAddrs(v) = UsedAddrs(u) \cup {a}
  <2>1. c # m /\ m \in W /\ W \subseteq Held(h)
    BY <1>1, <1>2, <1>6, <1>8
  <2>2. Held(g) = (Held(h) \ W) \cup (W \ {m}) \cup {c}
    BY <1>1, <1>8, <2>1 DEF Held
  <2>3. \A k \in Held(h) \ W : g.desc[k].addr = h.desc[k].addr
    BY <1>1, <1>8, <2>1 DEF Held
  <2>4. NewlyHeld(h, g, W, W \ {m}, c, a)
    BY <1>8, <1>9, <2>2, <2>3 DEF NewlyHeld, Held
  <2>5. Stored(u, a, c, v)
    BY DEF Stored
  <2> HIDE DEF v
  <2>6. UsedOK(g, v, W \ {m}) /\ UsedAddrs(v) = UsedAddrs(u) \cup {a}
    BY <1>3, <1>10, <2>4, <2>5, UsedTaken
  <2> QED
    BY <1>2, <1>6, <2>6
<1>12. Occupied(g) = Occupied(h)
  <2>1. m \in Allocated(h) /\ c # m
    BY <1>1, <1>6, <1>8
  <2>2. \A k \in Allocated(h) : g.desc[k].index = h.desc[k].index
    BY <1>1, <1>8
  <2> QED
    BY <1>8, <2>1, <2>2 DEF Occupied
<1>13. Wait(r, g, GetWaits)
  <2>1. \A b \in Blocks : h.addr_array[b] # <<>> => g.addr_array[b] # <<>>
    BY <1>8 DEF SameArrays
  <2>2. \A k \in CellsIn(r, {"split"}) : g.desc[k].size = h.desc[k].size
    BY <1>1, <1>6, <1>8
  <2> QED
    BY <1>2, <1>12, <2>1, <2>2, GetsWaitOn
<1>14. StackOK(r, g)
  BY <1>13, StackReturned
<1>15. /\ HomeOK(Allocated(g), im, UsedAddrs(v), lw, InFlightOf(r, ret))
       /\ ret \in Addresses \cup {Elsewhere, Nothing} /\ lw \subseteq Addresses
       /\ im \in [MCells -> Addresses \cup {Elsewhere}]
  <2>1. Stored(hm, c, res, im)
    BY DEF Stored
  <2>2. a \notin UsedAddrs(u) /\ a \in Addresses \cup {Nothing}
    BY <1>9, <1>10 DEF UsedAddrs
  <2>3. StackOK(s, h) /\ Last(s).at \in Gets
    BY <1>2 DEF f, AllOK
  <2> HIDE DEF v, im
  <2>4. HomeOK(Allocated(g), im, UsedAddrs(u), lv, {}) /\ im \in [MCells -> Addresses \cup {Elsewhere}]
    <3>1. HomeOK(Allocated(h), hm, UsedAddrs(u), lv, {res} \ {Elsewhere})
      BY <1>3, <1>4
    <3>2. HomeOK(Allocated(h) \cup {c}, im, UsedAddrs(u), lv, {}) /\ im \in [MCells -> Addresses \cup {Elsewhere}]
      BY <1>1, <1>3, <1>8, <2>1, <3>1, HomeGiven
    <3> QED
      BY <1>8, <3>2
  <2>5. Owned(Allocated(g), im, UsedAddrs(u), s, a, lw, ret)
    BY <1>3, <2>2, <2>3, <2>4, Returned
  <2>6. {a} \ {Nothing} = {a}
    BY <1>9, CellsFacts DEF Addresses, Nothing
  <2> QED
    BY <1>11, <2>4, <2>5, <2>6 DEF Owned, r
<1>16. \A b \in Blocks : g.block_addr[b] \in {0, CellsPerBlock * (b + 1)}
  BY <1>3, <1>8
<1> HIDE DEF v, im
<1>17. AllOK(g, v, im, r, ret, lw)
  BY <1>6, <1>8, <1>11, <1>14, <1>15, <1>16 DEF AllOK
<1> QED
  BY <1>17 DEF v, im, g, r

\* The innermost call asks hr_malloc for an mcell, and waits as f: the pools have
\* one, or hr_malloc calls the heap again.
Asked(s, f, t, ret, res) ==
  \/ t = Append(Front(s), f) /\ ret = Elsewhere
  \/ t = Append(Append(Front(s), f), GetFrame(McellUnits)) /\ ret = res

\* It may do so when it has a cell, or a block, of its own.
LEMMA AskedFor ==
  ASSUME NEW h, NEW u, NEW hm, NEW s, NEW res, NEW lv, AllOK(h, u, hm, s, res, lv), s # <<>>,
         Last(s).at \in {"get", "take"}, NEW g, NEW f, f.at \in GetWaits, Calls(Front(s), f, g),
         NEW t, NEW ret, Asked(s, f, t, ret, res)
  PROVE  /\ StackOK(t, g) /\ InFlightOf(t, ret) = {} /\ InFlightOf(s, res) = {}
         /\ ret \in Addresses \cup {Elsewhere, Nothing}
         /\ f.at = "split" => /\ CellsIn(t, {"split"}) = CellsIn(s, {"split"}) \cup {f.cell}
                              /\ CellsIn(t, Holding) = CellsIn(s, Holding) \cup {f.cell}
         /\ f.at # "split" => CellsIn(t, {"split"}) = CellsIn(s, {"split"}) /\ CellsIn(t, Holding) = CellsIn(s, Holding)
<1> DEFINE r == Front(s)
           e == GetFrame(McellUnits)
           w == Append(r, f)
<1>1. CallCells(r, Last(s), s) /\ res \in Addresses \cup {Elsewhere, Nothing}
  BY TopFacts DEF AllOK
<1>2. CellsIn(s, {"split"}) = CellsIn(r, {"split"}) /\ CellsIn(s, Holding) = CellsIn(r, Holding)
  BY <1>1 DEF CallCells, Holding, Adds
<1>3. CallCells(r, f, w)
  BY CellsOfCalls
<1>4. f.at \in Holding <=> f.at = "split"
  BY DEF Holding, Adds, GetWaits
<1>5. /\ f.at = "split" => /\ CellsIn(w, {"split"}) = CellsIn(s, {"split"}) \cup {f.cell}
                           /\ CellsIn(w, Holding) = CellsIn(s, Holding) \cup {f.cell}
      /\ f.at # "split" => CellsIn(w, {"split"}) = CellsIn(s, {"split"}) /\ CellsIn(w, Holding) = CellsIn(s, Holding)
  BY <1>2, <1>3, <1>4 DEF CallCells
<1>6. InFlightOf(s, res) = {}
  BY DEF InFlightOf, GetWaits
<1>7. CASE t = w /\ ret = Elsewhere
  <2>1. StackOK(w, g)
    BY StackMade
  <2>2. InFlightOf(t, ret) = {}
    BY <1>7 DEF InFlightOf
  <2> HIDE DEF w
  <2> QED
    BY <1>5, <1>6, <1>7, <2>1, <2>2
<1>8. CASE t = Append(w, e) /\ ret = res
  <2>1. Calls(w, e, g)
    BY GetCallsGet
  <2> HIDE DEF w
  <2>2. CallCells(w, e, t)
    BY <1>8, <2>1, CellsOfCalls
  <2>3. StackOK(t, g) /\ Last(t) = e
    BY <1>8, <2>1, StackMade
  <2>4. e.at = "get"
    BY DEF GetFrame, Frame
  <2>5. InFlightOf(t, ret) = {}
    BY <2>3, <2>4 DEF InFlightOf, GetWaits
  <2>6. CellsIn(t, {"split"}) = CellsIn(w, {"split"}) /\ CellsIn(t, Holding) = CellsIn(w, Holding)
    BY <2>2, <2>4 DEF CallCells, Holding, Adds
  <2> QED
    BY <1>1, <1>5, <1>6, <1>8, <2>3, <2>5, <2>6
<1> QED
  BY <1>7, <1>8 DEF Asked

\* What the grips of mallocs are: cells that are being split, or blocks that are
\* being created.
LEMMA GripsOfGets ==
  ASSUME NEW s, NEW h, Wait(s, h, GetWaits), NEW k \in Grips(s)
  PROVE  \/ k \in CellsIn(s, {"split"}) /\ k \in MCells
         \/ \E b \in CellsIn(s, {"create"}) : /\ k = CellsPerBlock - 1 - b /\ b \in Blocks
                                              /\ h.addr_array[b] # <<>> /\ b \notin Occupied(h)
<1>1. PICK i \in 1 .. Len(s) : k = Grip(s[i])
  BY DEF Grips
<1>2. s[i].at \in GetWaits /\ FrameOK(h, s[i])
  BY DEF Wait
<1>3. CASE s[i].at = "split"
  <2>1. k = s[i].cell /\ s[i].cell \in CellsIn(s, {"split"})
    BY <1>1, <1>3 DEF Grip, CellsIn
  <2>2. s[i].cell \in MCells
    BY <1>2, <1>3 DEF FrameOK
  <2> QED
    BY <2>1, <2>2
<1>4. CASE s[i].at = "create"
  <2>1. k = CellsPerBlock - 1 - s[i].cell /\ s[i].cell \in CellsIn(s, {"create"})
    BY <1>1, <1>4 DEF Grip, CellsIn
  <2>2. s[i].cell \in Blocks /\ h.addr_array[s[i].cell] # <<>> /\ s[i].cell \notin Occupied(h)
    BY <1>2, <1>4 DEF FrameOK
  <2> QED
    BY <2>1, <2>2
<1> QED
  BY <1>2, <1>3, <1>4 DEF GetWaits

\* A cell that is too large leaves the size list, and the call waits for an mcell
\* for its tail.
LEMMA TailAsked ==
  ASSUME NEW h, NEW u, NEW hm, NEW s, NEW res, NEW lv, AllOK(h, u, hm, s, res, lv), s # <<>>,
         Last(s).at \in {"get", "take"}, NEW m \in FreeOf(h),
         NEW n \in 1 .. CellsPerBlock, h.desc[m].size - n >= MinCells,
         NEW t, NEW ret, Asked(s, Frame("split", n, m), t, ret, res)
  PROVE  AllOK(UnlinkBySize(h, m), u, hm, t, ret, lv)
<1> DEFINE r == Front(s)
           S == CellsIn(s, {"split"})
           W == CellsIn(s, Holding)
           f == Frame("split", n, m)
           g == UnlinkBySize(h, m)
<1>1. /\ r \in Seq(Frames) /\ CallCells(r, Last(s), s) /\ W = S /\ Wait(r, h, GetWaits)
      /\ h \in Heaps /\ BlocksOK(h) /\ TilesOK(h) /\ W \subseteq Held(h)
      /\ FreeOf(h) \cup S \subseteq Allocated(h) /\ FreeOf(h) \cap S = {} /\ Allocated(h) \subseteq MCells
  BY TopFacts DEF Gets
<1>2. /\ PartOK(h, S) /\ UsedOK(h, u, W) /\ hm \in [MCells -> Addresses \cup {Elsewhere}] /\ lv \subseteq Addresses
      /\ HomeOK(Allocated(h), hm, UsedAddrs(u), lv, InFlightOf(s, res))
      /\ \A b \in Blocks : h.block_addr[b] \in {0, CellsPerBlock * (b + 1)}
  BY DEF AllOK
<1>3. /\ PartOK(g, S \cup {m}) /\ FreeOf(g) = FreeOf(h) \ {m} /\ Allocated(g) = Allocated(h)
      /\ SameByAddr(h, g) /\ g.desc = h.desc /\ g.block_addr = h.block_addr
  BY <1>2, PartUnlisted DEF SameCells
<1>4. CellsIn(r, {"split"}) = S
  BY <1>1 DEF CallCells
<1>5. f \in Frames /\ f.at = "split" /\ f.n = n /\ f.cell = m /\ f.at \in GetWaits
  <2> HIDE DEF S, W, r, f
  <2>1. m \in MCells
    BY <1>1
  <2>2. m \in Nat /\ n \in Nat
    BY <2>1, CellsFacts
  <2>3. "split" \in Gets \cup Adds /\ "split" \in GetWaits
    BY DEF Gets, GetWaits
  <2>4. IsFrame(f, "split", n, m)
    BY <2>2, <2>3, FrameMade DEF f
  <2> QED
    BY <2>3, <2>4 DEF IsFrame
<1> HIDE DEF r, S, W, f, g
<1>6. Wait(r, g, GetWaits)
  <2>1. \A k \in CellsIn(r, {"split"}) : g.desc[k].size = h.desc[k].size
    BY <1>3
  <2>2. \A b \in Blocks : h.addr_array[b] # <<>> => g.addr_array[b] # <<>>
    BY <1>3 DEF SameByAddr
  <2>3. Occupied(g) = Occupied(h)
    BY <1>3 DEF Occupied
  <2> QED
    BY <1>1, <2>1, <2>2, <2>3, GetsWaitOn
<1>7. Grip(f) \notin Grips(r)
  <2>1. Grip(f) = m /\ m \in MCells /\ m \notin S
    BY <1>1, <1>5 DEF Grip
  <2>2. \A b \in Blocks : m # CellsPerBlock - 1 - b
    <3>1. \A x \in MCells : x >= CellsPerBlock
      BY CellsFacts DEF MCells
    <3>2. \A b \in Blocks : CellsPerBlock - 1 - b < CellsPerBlock /\ CellsPerBlock - 1 - b \in Int
      BY CellsFacts DEF Blocks
    <3> QED
      BY <2>1, <3>1, <3>2, CellsFacts
  <2>3. ASSUME m \in Grips(r) PROVE FALSE
    BY <1>1, <1>4, <2>1, <2>2, <2>3, GripsOfGets
  <2> QED
    BY <2>1, <2>3
<1>8. Calls(r, f, g)
  <2>1. FrameOK(g, f)
    BY <1>1, <1>3, <1>5 DEF FrameOK, Gets, Adds
  <2> QED
    BY <1>5, <1>6, <1>7, <2>1 DEF Calls, Gets
<1>9. /\ StackOK(t, g) /\ InFlightOf(t, ret) = {} /\ InFlightOf(s, res) = {}
      /\ ret \in Addresses \cup {Elsewhere, Nothing}
      /\ CellsIn(t, {"split"}) = S \cup {m} /\ CellsIn(t, Holding) = W \cup {m}
  <2>1. Asked(s, f, t, ret, res) /\ Calls(Front(s), f, g)
    BY <1>8 DEF f, r
  <2> QED
    BY <1>5, <2>1, AskedFor DEF S, W
<1>10. UsedOK(g, u, W \cup {m})
  <2>1. Held(g) = (Held(h) \ W) \cup (W \cup {m}) /\ (W \cup {m}) \cap Held(h) \subseteq W
    BY <1>1, <1>3 DEF Held
  <2>2. \A k \in Held(h) \ W : g.desc[k].addr = h.desc[k].addr
    BY <1>3
  <2> QED
    BY <1>2, <2>1, <2>2, UsedKept
<1>11. AllOK(g, u, hm, t, ret, lv)
  BY <1>2, <1>3, <1>9, <1>10 DEF AllOK
<1> QED
  BY <1>11 DEF g

\* No cell fits: a new block is registered, and the call waits for an mcell for
\* it.
LEMMA BlockAsked ==
  ASSUME NEW h, NEW u, NEW hm, NEW s, NEW res, NEW lv, AllOK(h, u, hm, s, res, lv), s # <<>>,
         Last(s).at = "get", NEW b, b = NextFreeBlockIndex(h), b # BlockCount,
         NEW n \in 1 .. CellsPerBlock,
         NEW t, NEW ret, Asked(s, Frame("create", n, b), t, ret, res)
  PROVE  AllOK(WithBlock(h, b, CellsPerBlock * (b + 1)), u, hm, t, ret, lv)
<1> DEFINE r == Front(s)
           S == CellsIn(s, {"split"})
           W == CellsIn(s, Holding)
           f == Frame("create", n, b)
           a == CellsPerBlock * (b + 1)
           g == Registered(h, b, a, Blank)
<1>1. /\ r \in Seq(Frames) /\ CallCells(r, Last(s), s) /\ W = S /\ Wait(r, h, GetWaits)
      /\ h \in Heaps /\ BlocksOK(h) /\ TilesOK(h) /\ Allocated(h) \subseteq MCells
  BY TopFacts DEF Gets
<1>2. /\ PartOK(h, S) /\ UsedOK(h, u, W) /\ hm \in [MCells -> Addresses \cup {Elsewhere}] /\ lv \subseteq Addresses
      /\ HomeOK(Allocated(h), hm, UsedAddrs(u), lv, InFlightOf(s, res))
      /\ \A c \in Blocks : h.block_addr[c] \in {0, CellsPerBlock * (c + 1)}
  BY DEF AllOK
<1>3. b \in Blocks /\ h.block_addr[b] = 0
  BY <1>1, NextFreeBlockIndexFacts
<1>4. a \in Places /\ \A c \in Blocks : h.block_addr[c] # a
  <2>1. b + 1 \in 1 .. BlockCount
    BY <1>3, CellsFacts DEF Blocks
  <2>2. a \in Places
    BY <2>1 DEF Places
  <2>3. a # 0
    BY <2>2, PlacesApart
  <2>4. ASSUME NEW c \in Blocks, CellsPerBlock * (c + 1) = a PROVE c = b
    <3>1. \A x, y \in Int : x < y => CellsPerBlock * x < CellsPerBlock * y
      BY CellsFacts
    <3>2. b \in Int /\ c \in Int /\ CellsPerBlock * (b + 1) \in Int /\ CellsPerBlock * (c + 1) \in Int
      BY <1>3, CellsFacts DEF Blocks
    <3>3. ~(c + 1 < b + 1) /\ ~(b + 1 < c + 1)
      BY <2>4, <3>1, <3>2
    <3> QED
      BY <3>2, <3>3
  <2> HIDE DEF a
  <2>5. \A c \in Blocks : h.block_addr[c] = a => c = b
    BY <1>2, <2>3, <2>4
  <2> QED
    BY <1>3, <2>2, <2>3, <2>5
<1>5. WithBlock(h, b, a) = g
  BY <1>1, <1>3 DEF WithBlock, RegisterBlock, Registered, Heaps
<1> HIDE DEF g
<1>6. /\ PartOK(g, S) /\ FreeOf(g) = FreeOf(h) /\ Allocated(g) = Allocated(h) /\ g.desc = h.desc
      /\ g.block_addr = [h.block_addr EXCEPT ![b] = a]
      /\ g.addr_array = [h.addr_array EXCEPT ![b] = Blank]
      /\ \A m \in Allocated(h) : h.desc[m].index # b
  <2> HIDE DEF a, S
  <2>1. BlockIsNew(h, S, b, a, Blank, g)
    BY <1>2, <1>3, <1>4, PartRegistered DEF g
  <2> QED
    BY <2>1 DEF BlockIsNew
<1>7. Occupied(g) = Occupied(h) /\ b \notin Occupied(g)
  BY <1>6 DEF Occupied
<1>8. /\ g.addr_array[b] # <<>>
      /\ \A c \in Blocks : h.addr_array[c] # <<>> => g.addr_array[c] # <<>> /\ c # b
  <2>1. Blank # <<>>
    BY CellsFacts DEF Blank
  <2>2. DOMAIN h.addr_array = Blocks
    BY <1>1 DEF Heaps
  <2> QED
    BY <1>1, <1>3, <1>6, <2>1, <2>2 DEF BlocksOK
<1>9. CellsIn(r, {"split"}) = S
  BY <1>1 DEF CallCells
<1>10. f \in Frames /\ f.at = "create" /\ f.n = n /\ f.cell = b /\ f.at \in GetWaits
  <2>1. b \in Nat /\ n \in Nat
    BY <1>3, CellsFacts DEF Blocks
  <2> HIDE DEF f
  <2>2. "create" \in Gets \cup Adds /\ "create" \in GetWaits
    BY DEF Gets, GetWaits
  <2>3. IsFrame(f, "create", n, b)
    BY <2>1, <2>2, FrameMade DEF f
  <2> QED
    BY <2>2, <2>3 DEF IsFrame
<1> HIDE DEF r, S, W, f
<1>11. Wait(r, g, GetWaits)
  <2>1. \A k \in CellsIn(r, {"split"}) : g.desc[k].size = h.desc[k].size
    BY <1>6
  <2>2. \A c \in Blocks : h.addr_array[c] # <<>> => g.addr_array[c] # <<>>
    BY <1>8
  <2> QED
    BY <1>1, <1>7, <2>1, <2>2, GetsWaitOn
<1>12. Grip(f) \notin Grips(r)
  <2>1. Grip(f) = CellsPerBlock - 1 - b
    BY <1>10 DEF Grip
  <2>2. ASSUME NEW k \in Grips(r), k = CellsPerBlock - 1 - b PROVE FALSE
    <3>1. k \notin MCells
      BY <1>3, <2>2, CellsFacts DEF Blocks, MCells
    <3>2. PICK c \in Blocks : k = CellsPerBlock - 1 - c /\ h.addr_array[c] # <<>>
      BY <1>1, <3>1, GripsOfGets
    <3>3. c = b
      BY <1>3, <2>2, <3>2, CellsFacts DEF Blocks
    <3> QED
      BY <1>8, <3>2, <3>3
  <2> QED
    BY <2>1, <2>2
<1>13. Calls(r, f, g)
  <2>1. FrameOK(g, f)
    BY <1>3, <1>7, <1>8, <1>10 DEF FrameOK, Gets, Adds
  <2> QED
    BY <1>10, <1>11, <1>12, <2>1 DEF Calls, Gets
<1>14. /\ StackOK(t, g) /\ InFlightOf(t, ret) = {} /\ InFlightOf(s, res) = {}
       /\ ret \in Addresses \cup {Elsewhere, Nothing}
       /\ CellsIn(t, {"split"}) = S /\ CellsIn(t, Holding) = W
  <2>1. Asked(s, f, t, ret, res) /\ Calls(Front(s), f, g)
    BY <1>13 DEF f, r
  <2> QED
    BY <1>10, <2>1, AskedFor DEF S, W
<1>15. UsedOK(g, u, W)
  BY <1>2, <1>6 DEF UsedOK, Held
<1>16. \A c \in Blocks : g.block_addr[c] \in {0, CellsPerBlock * (c + 1)}
  <2>1. DOMAIN h.block_addr = Blocks
    BY <1>1 DEF Heaps
  <2> QED
    BY <1>2, <1>3, <1>6, <2>1
<1>17. AllOK(g, u, hm, t, ret, lv)
  BY <1>2, <1>6, <1>14, <1>15, <1>16 DEF AllOK
<1> QED
  BY <1>5, <1>17

\* The mcell for the block is there: the block becomes one free cell, which the
\* call takes next.
LEMMA BlockGot ==
  ASSUME NEW h, NEW u, NEW hm, NEW s, NEW res, NEW lv, AllOK(h, u, hm, s, res, lv), s # <<>>,
         Last(s).at = "create", res # Nothing,
         NEW b, b = Last(s).cell, NEW m, m = NewCell(h, h.block_addr[b])
  PROVE  AllOK(AddFreeCell(FillBlock(h, b, m), m), u, [hm EXCEPT ![m] = res],
               Append(Front(s), Frame("take", Last(s).n, m)), res, lv)
<1> DEFINE r  == Front(s)
           S  == CellsIn(s, {"split"})
           W  == CellsIn(s, Holding)
           n  == Last(s).n
           f  == Frame("take", n, m)
           t  == Append(r, f)
           im == [hm EXCEPT ![m] = res]
           g  == AddFreeCell(FillBlock(h, b, m), m)
<1>1. /\ r \in Seq(Frames) /\ Last(s) \in Frames /\ Calls(r, Last(s), h) /\ CallCells(r, Last(s), s) /\ W = S
      /\ Wait(r, h, GetWaits) /\ FrameOK(h, Last(s))
      /\ h \in Heaps /\ BlocksOK(h) /\ TilesOK(h) /\ W \subseteq Held(h)
      /\ FreeOf(h) \cup S \subseteq Allocated(h) /\ FreeOf(h) \cap S = {} /\ Allocated(h) \subseteq MCells
  BY TopFacts DEF Gets
<1>2. /\ PartOK(h, S) /\ UsedOK(h, u, W) /\ hm \in [MCells -> Addresses \cup {Elsewhere}] /\ lv \subseteq Addresses
      /\ HomeOK(Allocated(h), hm, UsedAddrs(u), lv, InFlightOf(s, res))
      /\ \A c \in Blocks : h.block_addr[c] \in {0, CellsPerBlock * (c + 1)}
      /\ res \in Addresses \cup {Elsewhere}
  BY DEF AllOK
<1>3. InFlightOf(s, res) = {res} \ {Elsewhere}
  BY DEF InFlightOf, GetWaits
<1>4. b \in Blocks /\ h.addr_array[b] # <<>> /\ b \notin Occupied(h) /\ n \in 1 .. CellsPerBlock
  BY <1>1 DEF FrameOK, Gets
<1> HIDE DEF S, W, n, g
<1>5. BlockIsFree(h, S, b, m, g)
  BY <1>2, <1>4, BlockFreed DEF g
<1>6. /\ m \in MCells \ Allocated(h)
      /\ PartOK(g, S) /\ FreeOf(g) = FreeOf(h) \cup {m} /\ Allocated(g) = Allocated(h) \cup {m}
      /\ g.block_addr = h.block_addr /\ SameArrays(h, g)
      /\ \A k \in MCells \ {m} : g.desc[k] = h.desc[k]
      /\ g.desc[m].size = CellsPerBlock /\ g.desc[m].index = b
  BY <1>5 DEF BlockIsFree
<1>7. CellsIn(r, {"split"}) = S /\ CellsIn(r, Holding) = W
  BY <1>1 DEF CallCells, S, W, Holding, Adds
<1>8. f \in Frames /\ f.at = "take" /\ f.n = n /\ f.cell = m /\ f.at \in Gets
  <2> HIDE DEF f, r
  <2>1. m \in MCells
    BY <1>6
  <2>2. m \in Nat
    BY <2>1, CellsFacts
  <2>3. n \in Nat
    BY <1>4, CellsFacts
  <2>4. "take" \in Gets \cup Adds /\ "take" \in Gets
    BY DEF Gets
  <2>5. IsFrame(f, "take", n, m)
    BY <2>2, <2>3, <2>4, FrameMade DEF f
  <2> QED
    BY <2>4, <2>5 DEF IsFrame
<1> HIDE DEF r, f
<1>9. Occupied(g) = Occupied(h) \cup {b}
  <2>1. \A k \in Allocated(h) : g.desc[k] = h.desc[k]
    BY <1>1, <1>6
  <2> QED
    BY <1>6, <2>1 DEF Occupied
<1>10. Wait(r, g, GetWaits)
  <2>1. \A k \in CellsIn(r, {"split"}) : g.desc[k].size = h.desc[k].size
    BY <1>1, <1>6, <1>7
  <2>2. \A c \in Blocks : h.addr_array[c] # <<>> => g.addr_array[c] # <<>>
    BY <1>6 DEF SameArrays
  <2>3. b \notin CellsIn(r, {"create"})
    <3>1. CellsPerBlock - 1 - b \notin Grips(r)
      BY <1>1 DEF Calls, Grip, r
    <3>2. ASSUME b \in CellsIn(r, {"create"}) PROVE FALSE
      <4>1. PICK i \in 1 .. Len(r) : r[i].at = "create" /\ b = r[i].cell
        BY <3>2 DEF CellsIn
      <4>2. Grip(r[i]) = CellsPerBlock - 1 - b
        BY <4>1 DEF Grip
      <4> QED
        BY <3>1, <4>2 DEF Grips
    <3> QED
      BY <3>2
  <2>4. \A c \in CellsIn(r, {"create"}) : c \notin Occupied(h) => c \notin Occupied(g)
    BY <1>9, <2>3
  <2> QED
    BY <1>1, <2>1, <2>2, <2>4, GetsWaitOn
<1>11. Calls(r, f, g)
  <2>1. FrameOK(g, f)
    BY <1>4, <1>6, <1>8, CellsFacts DEF FrameOK, Gets, Adds
  <2> QED
    BY <1>8, <1>10, <2>1 DEF Calls
<1>12. StackOK(t, g) /\ Last(t) = f /\ CallCells(r, f, t)
  BY <1>11, StackMade, CellsOfCalls
<1> HIDE DEF t
<1>13. InFlightOf(t, res) = {} /\ CellsIn(t, {"split"}) = S /\ CellsIn(t, Holding) = W
  BY <1>7, <1>8, <1>12 DEF InFlightOf, GetWaits, CallCells, Holding, Adds
<1>14. UsedOK(g, u, W)
  <2>1. Held(g) = (Held(h) \ W) \cup W /\ W \cap Held(h) \subseteq W
    BY <1>1, <1>6 DEF Held
  <2>2. \A k \in Held(h) \ W : g.desc[k].addr = h.desc[k].addr
    BY <1>1, <1>6 DEF Held
  <2> QED
    BY <1>2, <2>1, <2>2, UsedKept
<1>15. HomeOK(Allocated(g), im, UsedAddrs(u), lv, {}) /\ im \in [MCells -> Addresses \cup {Elsewhere}]
  <2>1. Stored(hm, m, res, im)
    BY DEF Stored
  <2>2. HomeOK(Allocated(h), hm, UsedAddrs(u), lv, {res} \ {Elsewhere})
    BY <1>2, <1>3
  <2> HIDE DEF im
  <2>3. HomeOK(Allocated(h) \cup {m}, im, UsedAddrs(u), lv, {}) /\ im \in [MCells -> Addresses \cup {Elsewhere}]
    BY <1>1, <1>2, <1>6, <2>1, <2>2, HomeGiven
  <2> QED
    BY <1>6, <2>3
<1> HIDE DEF im
<1>16. AllOK(g, u, im, t, res, lv)
  BY <1>2, <1>6, <1>12, <1>13, <1>14, <1>15 DEF AllOK
<1> QED
  BY <1>16 DEF g, im, t, r, f, n

\* There is no cell, and no block or no mcell for one: NULL is returned.
LEMMA NothingGot ==
  ASSUME NEW h, NEW u, NEW hm, NEW s, NEW res, NEW lv, AllOK(h, u, hm, s, res, lv), s # <<>>,
         Last(s).at = "get" \/ (Last(s).at = "create" /\ res = Nothing),
         NEW lw, NEW ret, Ends(s, Nothing, lv, lw, ret)
  PROVE  AllOK(h, u, hm, Front(s), ret, lw)
<1> DEFINE r == Front(s)
           S == CellsIn(s, {"split"})
           W == CellsIn(s, Holding)
<1>1. /\ CallCells(r, Last(s), s) /\ Wait(r, h, GetWaits) /\ Last(s).at \in Gets
      /\ Last(s).at \notin Holding /\ Last(s).at # "split"
  BY TopFacts DEF Gets, Holding, Adds
<1>2. /\ PartOK(h, S) /\ UsedOK(h, u, W) /\ hm \in [MCells -> Addresses \cup {Elsewhere}] /\ lv \subseteq Addresses
      /\ HomeOK(Allocated(h), hm, UsedAddrs(u), lv, InFlightOf(s, res)) /\ StackOK(s, h)
      /\ \A c \in Blocks : h.block_addr[c] \in {0, CellsPerBlock * (c + 1)}
  BY DEF AllOK
<1>3. InFlightOf(s, res) = {}
  BY DEF InFlightOf, GetWaits
<1>4. CellsIn(r, {"split"}) = S /\ CellsIn(r, Holding) = W
  BY <1>1 DEF CallCells
<1>5. StackOK(r, h)
  BY <1>1, StackReturned
<1>6. Owned(Allocated(h), hm, UsedAddrs(u), s, Nothing, lw, ret)
  <2>1. Nothing \notin UsedAddrs(u)
    BY CellsFacts DEF UsedAddrs, Addresses, Nothing
  <2>2. HomeOK(Allocated(h), hm, UsedAddrs(u), lv, {}) /\ Nothing \in Addresses \cup {Nothing}
    BY <1>2, <1>3
  <2> QED
    BY <1>1, <1>2, <2>1, <2>2, Returned
<1>7. /\ HomeOK(Allocated(h), hm, UsedAddrs(u), lw, InFlightOf(r, ret))
      /\ ret \in Addresses \cup {Elsewhere, Nothing} /\ lw \subseteq Addresses
  <2>1. UsedAddrs(u) \cup ({Nothing} \ {Nothing}) = UsedAddrs(u)
    OBVIOUS
  <2> QED
    BY <1>6, <2>1 DEF Owned
<1> QED
  BY <1>2, <1>4, <1>5, <1>7 DEF AllOK

-----------------------------------------------------------------------------
(* DNested: dheap_add_free_cell. *)

\* What a free that goes on has at its next place, f, in the heap g as it is then.
\* The cells W are still those that the calls hold.
LEMMA FreeGoesTo ==
  ASSUME NEW h, NEW u, NEW hm, NEW s, NEW res, NEW lv, AllOK(h, u, hm, s, res, lv), s # <<>>,
         Last(s).at \in Adds, NEW g, HeapOK(g), FreesKept(h, g), Held(g) = Held(h),
         \A k \in Held(h) : g.desc[k].index = h.desc[k].index,
         NEW f \in Frames, f.at \in AddWaits, f.cell = Last(s).cell, FrameOK(g, f)
  PROVE  LET t == Append(Front(s), f) IN
         /\ Calls(Front(s), f, g) /\ Wait(t, g, AddWaits) /\ StackOK(t, g) /\ t # <<>> /\ Last(t) = f
         /\ CellsIn(t, {"split"}) = {} /\ CellsIn(t, Holding) = CellsIn(s, Holding) /\ Grips(t) = CellsIn(s, Holding)
<1> DEFINE r == Front(s)
           e == Last(s)
           t == Append(r, f)
           W == CellsIn(s, Holding)
<1>1. /\ Calls(r, e, h) /\ CallCells(r, e, s) /\ Wait(r, h, AddWaits) /\ r \in Seq(Frames)
  BY TopFacts
<1>2. e.at \in Holding /\ f.at \in Adds /\ f.at \in Holding
  BY DEF Holding, Adds, AddWaits
<1>3. W = CellsIn(r, Holding) \cup {f.cell} /\ Grips(r) = CellsIn(r, Holding) /\ f.cell \notin Grips(r)
  BY <1>1, <1>2 DEF CallCells
<1> HIDE DEF W
<1>4. W \subseteq Held(h)
  BY TopFacts DEF W
<1> HIDE DEF r, e
<1>5. Wait(r, g, AddWaits)
  BY <1>1, AddsWaitOn
<1>6. Grip(f) = f.cell
  BY DEF Grip, AddWaits
<1>7. Calls(r, f, g)
  BY <1>2, <1>3, <1>5, <1>6 DEF Calls
<1>8. Wait(t, g, AddWaits)
  BY <1>3, <1>5, <1>6, CallMade
<1>9. StackOK(t, g) /\ t # <<>> /\ Last(t) = f /\ CallCells(r, f, t)
  BY <1>7, StackMade, CellsOfCalls
<1>10. Grips(t) = Grips(r) \cup {Grip(f)}
  BY <1>1, CellsOnTop
<1> HIDE DEF t
<1>11. CellsIn(t, {"split"}) = {} /\ CellsIn(t, Holding) = W /\ Grips(t) = W
  BY <1>2, <1>3, <1>6, <1>9, <1>10 DEF CallCells
<1> QED
  BY <1>7, <1>8, <1>9, <1>11 DEF r, t, W

\* There is no neighbour to merge.
LEMMA GoesOn ==
  ASSUME NEW h, NEW u, NEW hm, NEW s, NEW res, NEW lv, AllOK(h, u, hm, s, res, lv), s # <<>>,
         Last(s).at \in Adds,
         NEW f \in Frames, f.at \in AddWaits, f.cell = Last(s).cell, FrameOK(h, f)
  PROVE  AllOK(h, u, hm, Append(Front(s), f), res, lv)
<1> DEFINE t == Append(Front(s), f)
           W == CellsIn(s, Holding)
           S == CellsIn(s, {"split"})
<1>1. HeapOK(h) /\ S = {}
  BY TopFacts
<1>2. FreesKept(h, h)
  BY DEF FreesKept
<1>3. /\ StackOK(t, h) /\ Last(t) = f
      /\ CellsIn(t, {"split"}) = {} /\ CellsIn(t, Holding) = W
  BY <1>1, <1>2, FreeGoesTo
<1> HIDE DEF t, W, S
<1>4. InFlightOf(t, res) = {} /\ InFlightOf(s, res) = {}
  BY <1>3 DEF InFlightOf, GetWaits, Adds, AddWaits
<1>5. AllOK(h, u, hm, t, res, lv)
  BY <1>1, <1>3, <1>4 DEF AllOK, S, W
<1> QED
  BY <1>5 DEF t

\* hr_free(o), and on to f: o lived in a pool, or the heap calls itself to free
\* it.
McellFreed(s, f, u, hm, o, t, v, im) ==
  /\ Stored(hm, o, Elsewhere, im)
  /\ IF hm[o] = Elsewhere
     THEN t = Append(Front(s), f) /\ v = u
     ELSE t = Append(Append(Front(s), f), AddFrame(u[hm[o]])) /\ Stored(u, hm[o], Null, v)

\* A neighbour is merged and its mcell is freed.
LEMMA NeighbourMerged ==
  ASSUME NEW h, NEW u, NEW hm, NEW s, NEW res, NEW lv, AllOK(h, u, hm, s, res, lv), s # <<>>,
         Last(s).at \in Adds, NEW m, m = Last(s).cell,
         NEW o \in FreeOf(h), NEW a, h.desc[o].index = h.desc[m].index,
         \/ EndOf(h.desc[o]) = h.desc[m].addr /\ a = h.desc[o].addr
         \/ EndOf(h.desc[m]) = h.desc[o].addr /\ a = h.desc[m].addr,
         NEW f \in Frames, f.at \in AddWaits, f.cell = m, FrameOK(h, f),
         NEW t, NEW v, NEW im, McellFreed(s, f, u, hm, o, t, v, im)
  PROVE  AllOK(Merge(h, m, o, a), v, im, t, res, lv)
<1> DEFINE r == Front(s)
           w == Append(r, f)
           W == CellsIn(s, Holding)
           S == CellsIn(s, {"split"})
           g == Merge(h, m, o, a)
<1>1. /\ HeapOK(h) /\ S = {} /\ m \in W /\ W \subseteq Held(h) /\ h \in Heaps /\ Allocated(h) \subseteq MCells
      /\ FreeOf(h) \subseteq Allocated(h)
  BY TopFacts
<1>2. /\ UsedOK(h, u, W) /\ hm \in [MCells -> Addresses \cup {Elsewhere}] /\ lv \subseteq Addresses
      /\ HomeOK(Allocated(h), hm, UsedAddrs(u), lv, InFlightOf(s, res))
      /\ (\A c \in Blocks : h.block_addr[c] \in {0, CellsPerBlock * (c + 1)})
      /\ res \in Addresses \cup {Elsewhere, Nothing}
  BY DEF AllOK
<1> HIDE DEF W, S
<1>3. m \in Held(h) /\ m # o /\ o \in MCells /\ m \in MCells
  BY <1>1 DEF Held
<1>4. /\ HeapOK(g) /\ g.block_addr = h.block_addr
      /\ FreeOf(g) = FreeOf(h) \ {o} /\ Allocated(g) = Allocated(h) \ {o}
      /\ g.desc[m].index = h.desc[m].index
      /\ \A k \in MCells \ {m, o} : g.desc[k] = h.desc[k]
  BY <1>1, <1>3, Merged
<1> HIDE DEF g
<1>5. Held(g) = Held(h) /\ o \notin Held(h) /\ g.desc[o] = NoDesc
  BY <1>1, <1>3, <1>4 DEF Held, Allocated
<1>6. FreesKept(h, g)
  <2>1. ASSUME NEW k \in MCells, h.desc[k] = NoDesc PROVE g.desc[k] = NoDesc
    BY <1>1, <1>3, <1>4, <1>5, <2>1 DEF Held, Allocated
  <2>2. ASSUME NEW k \in FreeOf(h), k # o PROVE k \in FreeOf(g) /\ g.desc[k] = h.desc[k]
    BY <1>1, <1>3, <1>4, <2>2 DEF Held
  <2> QED
    BY <1>3, <1>5, <2>1, <2>2 DEF FreesKept
<1>7. \A k \in Held(h) : g.desc[k].index = h.desc[k].index
  BY <1>1, <1>3, <1>4, <1>5 DEF Held
<1>8. FrameOK(g, f)
  <2>1. f.at \in Adds
    BY DEF Adds, AddWaits
  <2> QED
    BY <1>3, <1>4, <1>5, <1>6, <2>1, FreeGoesOn
<1>9. /\ Calls(r, f, g) /\ Wait(w, g, AddWaits) /\ StackOK(w, g) /\ Last(w) = f
      /\ CellsIn(w, {"split"}) = {} /\ CellsIn(w, Holding) = W /\ Grips(w) = W
  BY <1>4, <1>5, <1>6, <1>7, <1>8, FreeGoesTo DEF W
<1> HIDE DEF w
<1>10. InFlightOf(s, res) = {} /\ InFlightOf(w, res) = {}
  BY <1>9 DEF InFlightOf, GetWaits, Adds, AddWaits
<1>11. UsedOK(g, u, W)
  <2>1. Held(g) = (Held(h) \ W) \cup W /\ W \cap Held(h) \subseteq W
    BY <1>1, <1>5
  <2>2. \A k \in Held(h) \ W : g.desc[k].addr = h.desc[k].addr
    BY <1>1, <1>4, <1>5 DEF Held
  <2> QED
    BY <1>2, <2>1, <2>2, UsedKept
<1>12. PartOK(g, {})
  BY <1>4, HeapIsPart
<1>13. /\ im \in [MCells -> Addresses \cup {Elsewhere}]
       /\ hm[o] = Elsewhere => HomeOK(Allocated(g), im, UsedAddrs(u), lv, {})
       /\ hm[o] # Elsewhere => HomeOK(Allocated(g), im, UsedAddrs(u) \ {hm[o]}, lv, {}) /\ hm[o] \in UsedAddrs(u)
  <2>1. Stored(hm, o, Elsewhere, im) /\ o \in Allocated(h) /\ HomeOK(Allocated(h), hm, UsedAddrs(u), lv, {})
    BY <1>1, <1>2, <1>10 DEF McellFreed
  <2>2. /\ im \in [MCells -> Addresses \cup {Elsewhere}]
        /\ hm[o] = Elsewhere => HomeOK(Allocated(h) \ {o}, im, UsedAddrs(u), lv, {})
        /\ hm[o] # Elsewhere => HomeOK(Allocated(h) \ {o}, im, UsedAddrs(u) \ {hm[o]}, lv, {}) /\ hm[o] \in UsedAddrs(u)
    BY <1>1, <1>2, <2>1, HomeLeft
  <2> QED
    BY <1>4, <2>2
<1>14. CASE hm[o] = Elsewhere
  <2>1. t = w /\ v = u
    BY <1>14 DEF McellFreed, w
  <2> QED
    BY <1>2, <1>4, <1>9, <1>10, <1>11, <1>12, <1>13, <1>14, <2>1 DEF AllOK, g
<1>15. CASE hm[o] # Elsewhere
  <2> DEFINE at == hm[o]
             c  == u[at]
             e  == AddFrame(c)
  <2>1. t = Append(w, e) /\ Stored(u, at, Null, v) /\ at \in UsedAddrs(u)
    BY <1>13, <1>15 DEF McellFreed, w
  <2> HIDE DEF at
  <2>2. /\ c \in Held(g) \ W /\ c \in MCells
        /\ UsedOK(g, v, W \cup {c}) /\ UsedAddrs(v) = UsedAddrs(u) \ {at}
    <3>1. TakenOut(g, u, W, at, v)
      BY <1>11, <2>1, UsedFreed
    <3> QED
      BY <3>1 DEF TakenOut
  <2>3. e \in Frames /\ e.at = "add" /\ e.cell = c /\ e.at \in Adds
    <3>1. c \in Nat /\ 0 \in Nat /\ "add" \in Gets \cup Adds /\ "add" \in Adds
      BY <2>2, CellsFacts DEF Adds
    <3> HIDE DEF c, e
    <3>2. IsFrame(e, "add", 0, c)
      BY <3>1, FrameMade DEF e, AddFrame
    <3> QED
      BY <3>1, <3>2 DEF IsFrame
  <2> HIDE DEF c, e
  <2>4. FrameOK(g, e)
    BY <2>2, <2>3 DEF FrameOK, Gets
  <2>5. Calls(w, e, g)
    <3>1. Grip(e) = c
      BY <2>3 DEF Grip
    <3> QED
      BY <1>9, <2>2, <2>3, <2>4, <3>1 DEF Calls
  <2>6. StackOK(t, g) /\ Last(t) = e /\ CallCells(w, e, t)
    BY <2>1, <2>5, StackMade, CellsOfCalls
  <2>7. CellsIn(t, {"split"}) = {} /\ CellsIn(t, Holding) = W \cup {c}
    BY <1>9, <2>3, <2>6 DEF CallCells, Holding
  <2>8. InFlightOf(t, res) = {}
    BY <2>3, <2>6 DEF InFlightOf, GetWaits
  <2>9. HomeOK(Allocated(g), im, UsedAddrs(v), lv, {})
    BY <1>13, <1>15, <2>2 DEF at
  <2>10. AllOK(g, v, im, t, res, lv)
    BY <1>2, <1>4, <1>12, <1>13, <2>2, <2>6, <2>7, <2>8, <2>9 DEF AllOK
  <2> QED
    BY <2>10 DEF g
<1> QED
  BY <1>14, <1>15

\* The cell goes on the lists, and the call is done.
LEMMA CellLinked ==
  ASSUME NEW h, NEW u, NEW hm, NEW s, NEW res, NEW lv, AllOK(h, u, hm, s, res, lv), s # <<>>,
         Last(s).at \in Adds, NEW m, m = Last(s).cell
  PROVE  AllOK(LinkFreeCell(h, m), u, hm, Front(s), res, lv)
<1> DEFINE r == Front(s)
           W == CellsIn(s, Holding)
           S == CellsIn(s, {"split"})
           g == LinkFreeCell(h, m)
<1>1. /\ HeapOK(h) /\ S = {} /\ m \in W /\ W \subseteq Held(h) /\ Allocated(h) \subseteq MCells
      /\ Calls(r, Last(s), h) /\ CallCells(r, Last(s), s) /\ Wait(r, h, AddWaits) /\ r \in Seq(Frames)
  BY TopFacts
<1>2. /\ UsedOK(h, u, W) /\ hm \in [MCells -> Addresses \cup {Elsewhere}] /\ lv \subseteq Addresses
      /\ HomeOK(Allocated(h), hm, UsedAddrs(u), lv, InFlightOf(s, res))
      /\ (\A c \in Blocks : h.block_addr[c] \in {0, CellsPerBlock * (c + 1)})
      /\ res \in Addresses \cup {Elsewhere, Nothing}
  BY DEF AllOK
<1> HIDE DEF S
<1>3. /\ CellsIn(r, Holding) = W \ {m} /\ Grips(r) = W \ {m}
  <2>1. Last(s).at \in Holding
    BY DEF Holding
  <2> QED
    BY <1>1, <2>1 DEF CallCells
<1>4. CellsIn(r, {"split"}) = {}
  BY <1>1, CellsAreGrips
<1> HIDE DEF W, r, g
<1>5. /\ PartOK(g, {}) /\ FreeOf(g) = FreeOf(h) \cup {m} /\ Allocated(g) = Allocated(h)
      /\ g.desc = h.desc /\ g.block_addr = h.block_addr
  <2>1. m \in Allocated(h) /\ m \notin FreeOf(h) \cup {} /\ PartOK(h, {})
    BY <1>1, HeapIsPart DEF Held
  <2> QED
    BY <2>1, PartFreed DEF g, SameCells
<1>6. Held(g) = Held(h) \ {m}
  BY <1>5 DEF Held
<1>7. Wait(r, g, AddWaits)
  <2>1. FreesKept(h, g)
    BY <1>5 DEF FreesKept
  <2>2. \A k \in Grips(r) : k \in Held(h) => k \in Held(g) /\ g.desc[k].index = h.desc[k].index
    BY <1>3, <1>5, <1>6
  <2> QED
    BY <1>1, <2>1, <2>2, AddsWaitOn
<1>8. StackOK(r, g)
  BY <1>7, StackReturned
<1>9. InFlightOf(r, res) = {} /\ InFlightOf(s, res) = {}
  <2>1. r # <<>> => Last(r).at \in AddWaits
    BY <1>7, CallBack
  <2> QED
    BY <2>1 DEF InFlightOf, GetWaits, Adds, AddWaits
<1>10. UsedOK(g, u, W \ {m})
  <2>1. Held(g) = (Held(h) \ W) \cup (W \ {m}) /\ (W \ {m}) \cap Held(h) \subseteq W
    BY <1>1, <1>6
  <2>2. \A k \in Held(h) \ W : g.desc[k].addr = h.desc[k].addr
    BY <1>5
  <2> QED
    BY <1>2, <2>1, <2>2, UsedKept
<1>11. AllOK(g, u, hm, r, res, lv)
  BY <1>2, <1>3, <1>4, <1>5, <1>8, <1>9, <1>10 DEF AllOK
<1> QED
  BY <1>11 DEF g, r

-----------------------------------------------------------------------------
(* DNested: the steps. *)

\* The game calls hr_malloc.
LEMMA GameGets ==
  ASSUME NEW h, NEW u, NEW hm, NEW res, NEW lv, AllOK(h, u, hm, <<>>, res, lv), NEW n \in 1 .. CellsPerBlock
  PROVE  AllOK(h, u, hm, <<GetFrame(n)>>, res, lv)
<1> DEFINE f == GetFrame(n)
           t == <<f>>
<1>1. f \in Frames /\ f.at = "get" /\ f.n = n /\ f.at \in Gets
  <2> HIDE DEF f
  <2>1. n \in Nat /\ Null \in Nat /\ "get" \in Gets \cup Adds /\ "get" \in Gets
    BY CellsFacts DEF Gets, Null
  <2>2. IsFrame(f, "get", n, Null)
    BY <2>1, FrameMade DEF f, GetFrame
  <2> QED
    BY <2>1, <2>2 DEF IsFrame
<1> HIDE DEF f
<1>2. Calls(<<>>, f, h)
  <2>1. FrameOK(h, f)
    BY <1>1 DEF FrameOK, Adds
  <2> QED
    BY <1>1, <2>1, NothingWaits DEF Calls
<1>3. t = Append(<<>>, f)
  BY <1>1, NothingWaits
<1> HIDE DEF t
<1>4. StackOK(t, h) /\ Last(t) = f /\ CallCells(<<>>, f, t)
  BY <1>2, <1>3, StackMade, CellsOfCalls
<1>5. CellsIn(t, {"split"}) = CellsIn(<<>>, {"split"}) /\ CellsIn(t, Holding) = CellsIn(<<>>, Holding)
  BY <1>1, <1>4 DEF CallCells, Holding, Adds
<1>6. InFlightOf(t, res) = {} /\ InFlightOf(<<>>, res) = {}
  BY <1>1, <1>4 DEF InFlightOf, GetWaits
<1>7. AllOK(h, u, hm, t, res, lv)
  BY <1>4, <1>5, <1>6 DEF AllOK
<1> QED
  BY <1>7 DEF t, f

\* The game calls hr_free with an address it owns.
LEMMA GameFrees ==
  ASSUME NEW h, NEW u, NEW hm, NEW res, NEW lv, AllOK(h, u, hm, <<>>, res, lv), NEW a \in lv
  PROVE  AllOK(h, [u EXCEPT ![a] = Null], hm, <<AddFrame(u[a])>>, res, lv \ {a})
<1> DEFINE c == u[a]
           v == [u EXCEPT ![a] = Null]
           f == AddFrame(c)
           t == <<f>>
           S == CellsIn(<<>>, {"split"})
           W == CellsIn(<<>>, Holding)
<1>1. /\ UsedOK(h, u, W) /\ hm \in [MCells -> Addresses \cup {Elsewhere}] /\ lv \subseteq Addresses
      /\ HomeOK(Allocated(h), hm, UsedAddrs(u), lv, InFlightOf(<<>>, res)) /\ PartOK(h, S)
      /\ (\A b \in Blocks : h.block_addr[b] \in {0, CellsPerBlock * (b + 1)})
      /\ res \in Addresses \cup {Elsewhere, Nothing}
  BY DEF AllOK
<1>2. W = {} /\ S = {}
  BY NoWaits
<1> HIDE DEF S, W
<1>3. InFlightOf(<<>>, res) = {}
  BY DEF InFlightOf
<1>4. a \in UsedAddrs(u) /\ HomeOK(Allocated(h), hm, UsedAddrs(u) \ {a}, lv \ {a}, {})
  BY <1>1, <1>3 DEF HomeOK
<1>5. c \in Held(h) \ W /\ c \in MCells /\ UsedOK(h, v, W \cup {c}) /\ UsedAddrs(v) = UsedAddrs(u) \ {a}
  <2>1. Stored(u, a, Null, v)
    BY DEF Stored
  <2> HIDE DEF v
  <2>2. TakenOut(h, u, W, a, v)
    BY <1>1, <1>4, <2>1, UsedFreed
  <2> QED
    BY <2>2 DEF TakenOut
<1> HIDE DEF c, v
<1>6. f \in Frames /\ f.at = "add" /\ f.cell = c /\ f.at \in Adds
  <2>1. c \in Nat /\ 0 \in Nat /\ "add" \in Gets \cup Adds /\ "add" \in Adds
    BY <1>5, CellsFacts DEF Adds
  <2> HIDE DEF f
  <2>2. IsFrame(f, "add", 0, c)
    BY <2>1, FrameMade DEF f, AddFrame
  <2> QED
    BY <2>1, <2>2 DEF IsFrame
<1> HIDE DEF f
<1>7. Calls(<<>>, f, h)
  <2>1. FrameOK(h, f)
    BY <1>5, <1>6 DEF FrameOK, Gets
  <2>2. Grip(f) \notin Grips(<<>>)
    BY NoWaits
  <2> QED
    BY <1>6, <2>1, <2>2, NothingWaits DEF Calls
<1>8. t = Append(<<>>, f)
  BY <1>6, NothingWaits
<1> HIDE DEF t
<1>9. StackOK(t, h) /\ Last(t) = f /\ CallCells(<<>>, f, t)
  BY <1>7, <1>8, StackMade, CellsOfCalls
<1>10. CellsIn(t, {"split"}) = S /\ CellsIn(t, Holding) = W \cup {c}
  BY <1>2, <1>6, <1>9 DEF CallCells, Holding, W
<1>11. InFlightOf(t, res) = {}
  BY <1>6, <1>9 DEF InFlightOf, GetWaits
<1>12. AllOK(h, v, hm, t, res, lv \ {a})
  BY <1>1, <1>4, <1>5, <1>9, <1>10, <1>11 DEF AllOK
<1> QED
  BY <1>12 DEF v, t, f, c

\* In a new process there are no blocks, cells or calls.
LEMMA InitNestedInv == NestedInit => NestedInv
<1> SUFFICES ASSUME NestedInit PROVE NestedInv
  OBVIOUS
<1>1. /\ heap = Empty /\ used = [a \in Addresses |-> Null] /\ home = [m \in MCells |-> Elsewhere]
      /\ stack = <<>> /\ result = Elsewhere /\ live = {} /\ fault = "none"
  BY DEF NestedInit
<1>2. HeapOK(Empty) /\ Allocated(Empty) = {} /\ FreeOf(Empty) = {} /\ PartOK(Empty, {})
  BY EmptyIsOK, HeapIsPart
<1>3. StackOK(stack, heap)
  BY <1>1, NothingWaits DEF StackOK
<1>4. CellsIn(stack, {"split"}) = {} /\ CellsIn(stack, Holding) = {}
  BY <1>1, NoWaits
<1>5. UsedCells(used) = {} /\ UsedAddrs(used) = {}
  BY <1>1 DEF UsedCells, UsedAddrs
<1>6. used \in [Addresses -> Cells] /\ \A a \in Addresses : used[a] = Null
  BY <1>1 DEF Cells
<1>7. UsedOK(heap, used, {})
  BY <1>1, <1>2, <1>5, <1>6 DEF UsedOK, Held
<1>8. \A b \in Blocks : heap.block_addr[b] = 0
  BY <1>1 DEF Empty
<1>9. InFlightOf(stack, result) = {}
  BY <1>1 DEF InFlightOf
<1>10. HomeOK(Allocated(heap), home, UsedAddrs(used), live, {})
  BY <1>1, <1>2, <1>5 DEF HomeOK, HomesOf
<1>11. home \in [MCells -> Addresses \cup {Elsewhere}] /\ result \in Addresses \cup {Elsewhere, Nothing} /\ live \subseteq Addresses
  BY <1>1
<1>12. PartOK(heap, CellsIn(stack, {"split"})) /\ UsedOK(heap, used, CellsIn(stack, Holding))
  BY <1>1, <1>2, <1>4, <1>7
<1>13. AllOK(heap, used, home, stack, result, live)
  BY <1>3, <1>8, <1>9, <1>10, <1>11, <1>12 DEF AllOK
<1> QED
  BY <1>1, <1>13 DEF NestedInv

\* malloc: the game's size is one that dheap_malloc serves.
LEMMA MallocInv == ASSUME NestedInv, NEW n \in Sizes, Malloc(n) PROVE NestedInv'
<1>1. n \in 1 .. CellsPerBlock
  BY DNestedAssumption
<1>2. AllOK(heap, used, home, <<>>, result, live)
  BY DEF NestedInv, Malloc
<1>3. AllOK(heap, used, home, <<GetFrame(n)>>, result, live)
  BY <1>1, <1>2, GameGets
<1> QED
  BY <1>3 DEF NestedInv, Malloc

\* The game frees a region.
LEMMA FreeInv == ASSUME NestedInv, NEW a \in Addresses, Free(a) PROVE NestedInv'
<1>1. AllOK(heap, used, home, <<>>, result, live) /\ a \in live
  BY DEF NestedInv, Free
<1>2. AllOK(heap, [used EXCEPT ![a] = Null], home, <<AddFrame(used[a])>>, result, live \ {a})
  BY <1>1, GameFrees
<1> QED
  BY <1>2 DEF NestedInv, Free

\* The innermost call, in the state.
LEMMA Innermost ==
  ASSUME NestedInv, NEW places, In(places)
  PROVE  /\ AllOK(heap, used, home, stack, result, live) /\ fault = "none"
         /\ stack # <<>> /\ Last(stack).at \in places /\ FrameOK(heap, Last(stack))
         /\ PartOK(heap, CellsIn(stack, {"split"}))
<1>1. AllOK(heap, used, home, stack, result, live) /\ fault = "none" /\ stack # <<>> /\ Last(stack).at \in places
  BY DEF NestedInv, In
<1> QED
  BY <1>1, TopFacts DEF AllOK

\* The cell that dheap_get_free_cell chooses is free and fits.
LEMMA ChosenIs ==
  ASSUME NestedInv, In({"get", "take"}), Chosen # Null
  PROVE  Chosen \in FreeOf(heap) /\ Top.n \in 1 .. CellsPerBlock /\ Top.n <= heap.desc[Chosen].size
<1>1. /\ PartOK(heap, CellsIn(stack, {"split"})) /\ FrameOK(heap, Top) /\ Top.at \in {"get", "take"}
  BY Innermost DEF Top
<1>2. Chosen = IF Top.at = "take" THEN Top.cell ELSE heap.size_array[Top.n - 1]
  BY DEF Chosen
<1> HIDE DEF Top, Chosen
<1> QED
  BY <1>1, <1>2, ChosenFits

\* dheap_get_free_cell takes all of the cell.
LEMMA GetWholeInv == ASSUME NestedInv, GetWhole PROVE NestedInv'
<1> DEFINE m == Chosen
           a == heap.desc[m].addr
<1>1. In({"get", "take"}) /\ m # Null /\ heap' = RmvFreeCell(heap, m) /\ used' = [used EXCEPT ![a] = m]
      /\ Finish(a) /\ home' = home /\ fault' = fault
  BY DEF GetWhole
<1>2. m \in FreeOf(heap)
  BY <1>1, ChosenIs
<1>3. stack' = Front(stack) /\ Ends(stack, a, live, live', result')
  BY <1>1 DEF Finish, Ends
<1>4. AllOK(heap, used, home, stack, result, live) /\ fault = "none" /\ stack # <<>> /\ Last(stack).at \in {"get", "take"}
  BY <1>1, Innermost
<1> HIDE DEF m
<1>5. AllOK(RmvFreeCell(heap, m), [used EXCEPT ![a] = m], home, Front(stack), result', live')
  BY <1>2, <1>3, <1>4, WholeGot
<1> QED
  BY <1>1, <1>3, <1>4, <1>5 DEF NestedInv

\* It takes the cell off the size list and asks for an mcell.
LEMMA AskForTailInv == ASSUME NestedInv, AskForTail PROVE NestedInv'
<1> DEFINE m == Chosen
           n == Top.n
           f == Frame("split", n, m)
<1>1. In({"get", "take"}) /\ m # Null /\ ~(heap.desc[m].size - n < MinCells) /\ heap' = UnlinkBySize(heap, m)
      /\ Ask(f) /\ used' = used /\ home' = home /\ live' = live /\ fault' = fault
  BY DEF AskForTail, Whole, Unlisted, UnlinkBySize
<1>2. m \in FreeOf(heap) /\ n \in 1 .. CellsPerBlock
  BY <1>1, ChosenIs
<1>3. Asked(stack, f, stack', result', result)
  BY <1>1 DEF Ask, Asked, To
<1>4. AllOK(heap, used, home, stack, result, live) /\ fault = "none" /\ stack # <<>> /\ Last(stack).at \in {"get", "take"}
  BY <1>1, Innermost
<1>5. heap.desc[m].size - n >= MinCells
  <2>1. heap \in Heaps /\ m \in MCells
    BY <1>2, <1>4, TopFacts
  <2>2. heap.desc[m].size \in Nat /\ n \in Nat /\ MinCells \in Nat
    BY <1>2, <2>1, HeapFacts, CellsFacts
  <2> HIDE DEF m, n
  <2> QED
    BY <1>1, <2>2
<1> HIDE DEF m, n
<1>6. AllOK(UnlinkBySize(heap, m), used, home, stack', result', live)
  BY <1>2, <1>3, <1>4, <1>5, TailAsked
<1> QED
  BY <1>1, <1>4, <1>6 DEF NestedInv

\* It has the mcell and splits.
LEMMA SplitOffInv == ASSUME NestedInv, SplitOff PROVE NestedInv'
<1> DEFINE m == Top.cell
           n == Top.n
           c == NewTail(heap, m, n)
           a == Split(heap, m, n).desc[c].addr
<1>1. /\ In({"split"}) /\ result # Nothing /\ heap' = LinkBySize(Split(heap, m, n), m)
      /\ home' = [home EXCEPT ![c] = result] /\ used' = [used EXCEPT ![a] = c]
      /\ Finish(a) /\ fault' = fault
  BY DEF SplitOff, LinkBySize
<1>2. stack' = Front(stack) /\ Ends(stack, a, live, live', result')
  BY <1>1 DEF Finish, Ends
<1>3. AllOK(heap, used, home, stack, result, live) /\ fault = "none" /\ stack # <<>> /\ Last(stack).at = "split"
  BY <1>1, Innermost
<1>4. m = Last(stack).cell /\ n = Last(stack).n
  BY DEF Top
<1> DEFINE tail == c
           addr == a
<1>5. tail = NewTail(heap, m, n) /\ addr = Split(heap, m, n).desc[tail].addr
  OBVIOUS
<1>6. /\ heap' = LinkBySize(Split(heap, m, n), m) /\ home' = [home EXCEPT ![tail] = result]
      /\ used' = [used EXCEPT ![addr] = tail] /\ Ends(stack, addr, live, live', result')
  BY <1>1, <1>2
<1> HIDE DEF m, n, tail, addr
<1>7. AllOK(LinkBySize(Split(heap, m, n), m), [used EXCEPT ![addr] = tail], [home EXCEPT ![tail] = result],
            Front(stack), result', live')
  BY <1>1, <1>3, <1>4, <1>5, <1>6, TailGot
<1> QED
  BY <1>1, <1>2, <1>3, <1>6, <1>7 DEF NestedInv

\* dheap_create_new_block registers a block and asks for an mcell.
LEMMA AskForBlockInv == ASSUME NestedInv, AskForBlock PROVE NestedInv'
<1> DEFINE b == NextFreeBlockIndex(heap)
           n == Top.n
           f == Frame("create", n, b)
<1>1. /\ In({"get"}) /\ b # BlockCount /\ heap' = WithBlock(heap, b, CellsPerBlock * (b + 1)) /\ Ask(f)
      /\ used' = used /\ home' = home /\ live' = live /\ fault' = fault
  BY DEF AskForBlock
<1>2. AllOK(heap, used, home, stack, result, live) /\ fault = "none" /\ stack # <<>> /\ Last(stack).at = "get"
      /\ FrameOK(heap, Last(stack))
  BY <1>1, Innermost
<1>3. n \in 1 .. CellsPerBlock
  BY <1>2 DEF FrameOK, Gets, Top
<1>4. Asked(stack, f, stack', result', result)
  BY <1>1 DEF Ask, Asked, To
<1> DEFINE c == b
<1>5. c = NextFreeBlockIndex(heap) /\ c # BlockCount /\ Asked(stack, Frame("create", n, c), stack', result', result)
      /\ heap' = WithBlock(heap, c, CellsPerBlock * (c + 1))
  BY <1>1, <1>4
<1> HIDE DEF n, c
<1>6. AllOK(WithBlock(heap, c, CellsPerBlock * (c + 1)), used, home, stack', result', live)
  BY <1>2, <1>3, <1>5, BlockAsked
<1> QED
  BY <1>1, <1>2, <1>5, <1>6 DEF NestedInv

\* It has the mcell: the block becomes a free cell.
LEMMA CreateBlockInv == ASSUME NestedInv, CreateBlock PROVE NestedInv'
<1> DEFINE b == Top.cell
           m == NewCell(heap, heap.block_addr[b])
           f == Frame("take", Top.n, m)
<1>1. /\ In({"create"}) /\ result # Nothing /\ heap' = AddFreeCell(FillBlock(heap, b, m), m)
      /\ home' = [home EXCEPT ![m] = result] /\ stack' = Append(Front(stack), f)
      /\ used' = used /\ result' = result /\ live' = live /\ fault' = fault
  BY DEF CreateBlock, To
<1>2. AllOK(heap, used, home, stack, result, live) /\ fault = "none" /\ stack # <<>> /\ Last(stack).at = "create"
  BY <1>1, Innermost
<1>3. b = Last(stack).cell /\ f = Frame("take", Last(stack).n, m)
  BY DEF Top
<1> DEFINE new == m
<1>4. /\ new = NewCell(heap, heap.block_addr[b]) /\ heap' = AddFreeCell(FillBlock(heap, b, new), new)
      /\ home' = [home EXCEPT ![new] = result] /\ stack' = Append(Front(stack), Frame("take", Last(stack).n, new))
  BY <1>1, <1>3
<1> HIDE DEF b, new
<1>5. AllOK(AddFreeCell(FillBlock(heap, b, new), new), used, [home EXCEPT ![new] = result],
            Append(Front(stack), Frame("take", Last(stack).n, new)), result, live)
  BY <1>1, <1>2, <1>3, <1>4, BlockGot
<1> QED
  BY <1>1, <1>2, <1>4, <1>5 DEF NestedInv

\* Nothing is left to take.
LEMMA GetNothingInv == ASSUME NestedInv, GetNothing PROVE NestedInv'
<1>1. /\ In({"get"}) \/ (In({"create"}) /\ result = Nothing)
      /\ Finish(Nothing) /\ heap' = heap /\ used' = used /\ home' = home /\ fault' = fault
  BY DEF GetNothing
<1>2. stack' = Front(stack) /\ Ends(stack, Nothing, live, live', result')
  BY <1>1 DEF Finish, Ends
<1>3. AllOK(heap, used, home, stack, result, live) /\ fault = "none" /\ stack # <<>>
      /\ (Last(stack).at = "get" \/ (Last(stack).at = "create" /\ result = Nothing))
  <2>1. CASE In({"get"})
    <3>1. AllOK(heap, used, home, stack, result, live) /\ fault = "none" /\ stack # <<>> /\ Last(stack).at \in {"get"}
      BY <2>1, Innermost
    <3> QED
      BY <3>1
  <2>2. CASE In({"create"}) /\ result = Nothing
    <3>1. AllOK(heap, used, home, stack, result, live) /\ fault = "none" /\ stack # <<>> /\ Last(stack).at \in {"create"}
      BY <2>2, Innermost
    <3> QED
      BY <2>2, <3>1
  <2> QED
    BY <1>1, <2>1, <2>2
<1>4. AllOK(heap, used, home, Front(stack), result', live')
  BY <1>2, <1>3, NothingGot
<1> QED
  BY <1>1, <1>2, <1>3, <1>4 DEF NestedInv

\* dheap_add_free_cell is done with the neighbours and links the cell.
LEMMA LinkInv == ASSUME NestedInv, Link PROVE NestedInv'
<1> DEFINE m == Top.cell
<1>1. /\ In({"link"}) /\ heap' = LinkFreeCell(heap, m) /\ stack' = Front(stack)
      /\ used' = used /\ home' = home /\ result' = result /\ live' = live /\ fault' = fault
  BY DEF Link
<1>2. AllOK(heap, used, home, stack, result, live) /\ fault = "none" /\ stack # <<>> /\ Last(stack).at \in Adds
  BY <1>1, Innermost DEF Adds
<1>3. m = Last(stack).cell
  BY DEF Top
<1> HIDE DEF m
<1>4. AllOK(LinkFreeCell(heap, m), used, home, Front(stack), result, live)
  BY <1>2, <1>3, CellLinked
<1> QED
  BY <1>1, <1>2, <1>4 DEF NestedInv

\* A frame that goes on.
IsNext(f, e, at, next, desc) ==
  f \in Frames /\ f.at = at /\ f.cell = e.cell /\ f.next = next /\ f.desc = desc

\* A free goes on to its next place.
LEMMA FrameGoesOn ==
  ASSUME NEW e \in Frames, NEW at \in Adds, NEW next \in Cells,
         NEW desc, desc \in [addr : Nat, size : Nat, index : Blocks]
  PROVE  IsNext([e EXCEPT !.at = at, !.next = next, !.desc = desc], e, at, next, desc)
  BY DEF Frames, IsNext

\* What a frame may remember of a neighbour.
LEMMA DescIsDesc ==
  ASSUME NEW h \in Heaps
  PROVE  /\ NoDesc \in [addr : Nat, size : Nat, index : Blocks]
         /\ \A m \in MCells : h.desc[m] \in [addr : Nat, size : Nat, index : Blocks]
  BY CellsFacts DEF Heaps, NoDesc, Blocks

\* dheap_add_free_cell looks up both neighbours and merges the one in front.
LEMMA MergePrevInv == ASSUME NestedInv, MergePrev PROVE NestedInv'
<1> DEFINE m    == Top.cell
           next == NextOf(heap, m)
           prev == PrevOf(heap, m)
           desc == IF next = Null THEN NoDesc ELSE heap.desc[next]
           f    == [Top EXCEPT !.at = "next", !.next = next, !.desc = desc]
           cond == prev # Null /\ Precedes(heap, prev, m)
           a    == heap.desc[prev].addr
<1>1. /\ In({"add"}) /\ result' = result /\ live' = live /\ fault' = fault
      /\ cond => heap' = Merge(heap, m, prev, a) /\ FreeMcell(prev, f)
      /\ ~cond => Goes(f)
  BY DEF MergePrev, NextOf, PrevOf, StartBefore
<1>2. AllOK(heap, used, home, stack, result, live) /\ fault = "none" /\ stack # <<>> /\ Top.at \in Adds
      /\ Last(stack) = Top
  BY <1>1, Innermost DEF Adds, Top
<1>3. /\ HeapOK(heap) /\ heap \in Heaps /\ Top \in Frames /\ m \in Held(heap) /\ Allocated(heap) \subseteq MCells
      /\ FreeOf(heap) \subseteq Allocated(heap)
  BY <1>2, TopFacts
<1> HIDE DEF next, prev
<1>4. /\ next # Null => next \in FreeOf(heap) /\ heap.desc[next].index = heap.desc[m].index
      /\ prev # Null => prev \in FreeOf(heap) /\ heap.desc[prev].index = heap.desc[m].index
  <2> DEFINE d    == heap.desc[m]
             Near == {k \in FreeOf(heap) : heap.desc[k].index = d.index}
  <2>1. /\ next # Null => next \in Near
        /\ prev # Null => prev \in Near
    BY <1>3, Neighbours DEF next, prev
  <2> QED
    BY <2>1
<1>5. next \in Cells /\ desc \in [addr : Nat, size : Nat, index : Blocks]
  <2>1. next # Null => next \in MCells
    BY <1>3, <1>4
  <2> QED
    BY <1>3, <2>1, DescIsDesc DEF Cells
<1> HIDE DEF desc
<1>6. f \in Frames /\ f.at = "next" /\ f.cell = m /\ f.next = next /\ f.desc = desc
  <2>1. "next" \in Adds
    BY DEF Adds
  <2>2. IsNext(f, Top, "next", next, desc)
    BY <1>3, <1>5, <2>1, FrameGoesOn
  <2> QED
    BY <2>2 DEF IsNext
<1> HIDE DEF f
<1>7. FrameOK(heap, f) /\ f.at \in AddWaits
  <2>1. NextOK(heap, f)
    BY <1>4, <1>6 DEF NextOK, desc
  <2> QED
    BY <1>3, <1>6, <2>1 DEF FrameOK, Gets, Adds, AddWaits
<1>8. CASE cond
  <2>1. prev \in FreeOf(heap) /\ heap.desc[prev].index = heap.desc[m].index
        /\ EndOf(heap.desc[prev]) = heap.desc[m].addr /\ heap' = Merge(heap, m, prev, a)
    BY <1>1, <1>4, <1>8 DEF Precedes
  <2>2. McellFreed(stack, f, used, home, prev, stack', used', home')
    BY <1>1, <1>8 DEF FreeMcell, McellFreed, Stored, To
  <2> HIDE DEF m
  <2>3. m = Last(stack).cell
    BY <1>2 DEF m
  <2>4. a = heap.desc[prev].addr
    OBVIOUS
  <2> HIDE DEF a
  <2>5. AllOK(Merge(heap, m, prev, a), used', home', stack', result, live)
    BY <1>2, <1>6, <1>7, <2>1, <2>2, <2>3, <2>4, NeighbourMerged
  <2> QED
    BY <1>1, <1>2, <2>1, <2>5 DEF NestedInv
<1>9. CASE ~cond
  <2>1. stack' = Append(Front(stack), f) /\ heap' = heap /\ used' = used /\ home' = home
    BY <1>1, <1>9 DEF Goes, To
  <2>2. AllOK(heap, used, home, Append(Front(stack), f), result, live)
    BY <1>2, <1>6, <1>7, GoesOn
  <2> QED
    BY <1>1, <1>2, <2>1, <2>2 DEF NestedInv
<1> QED
  BY <1>8, <1>9

\* Then the one behind, unless an inner free has merged it.
LEMMA MergeNextInv == ASSUME NestedInv, MergeNext PROVE NestedInv'
<1> DEFINE m    == Top.cell
           next == Top.next
           f    == [Top EXCEPT !.at = "link", !.next = Null, !.desc = NoDesc]
           a    == heap.desc[m].addr
<1>1. /\ In({"next"}) /\ result' = result /\ live' = live
      /\ ~Adjacent => Goes(f) /\ fault' = fault
      /\ Adjacent /\ Freed => fault' = "dangling" /\ heap' = heap /\ used' = used /\ home' = home /\ stack' = stack
      /\ Adjacent /\ ~Freed => heap' = Merge(heap, m, next, a) /\ FreeMcell(next, f) /\ fault' = fault
  BY DEF MergeNext
<1>2. AllOK(heap, used, home, stack, result, live) /\ fault = "none" /\ stack # <<>> /\ Top.at \in Adds
      /\ Last(stack) = Top /\ FrameOK(heap, Top) /\ Top.at = "next"
  BY <1>1, Innermost DEF Adds, Top
<1>3. /\ HeapOK(heap) /\ heap \in Heaps /\ Top \in Frames /\ m \in Held(heap)
  BY <1>2, TopFacts
<1>4. f \in Frames /\ f.at = "link" /\ f.cell = m
  <2>1. "link" \in Adds /\ Null \in Cells
    BY DEF Adds, Cells
  <2>2. IsNext(f, Top, "link", Null, NoDesc)
    BY <1>3, <2>1, DescIsDesc, FrameGoesOn
  <2> QED
    BY <2>2 DEF IsNext
<1> HIDE DEF f
<1>5. FrameOK(heap, f) /\ f.at \in AddWaits
  BY <1>3, <1>4 DEF FrameOK, Gets, Adds, AddWaits
<1>6. CASE ~Adjacent
  <2>1. stack' = Append(Front(stack), f) /\ heap' = heap /\ used' = used /\ home' = home /\ fault' = fault
    BY <1>1, <1>6 DEF Goes, To
  <2>2. AllOK(heap, used, home, Append(Front(stack), f), result, live)
    BY <1>2, <1>4, <1>5, GoesOn
  <2> QED
    BY <1>1, <1>2, <2>1, <2>2 DEF NestedInv
<1>7. CASE Adjacent /\ Freed
  BY <1>1, <1>2, <1>7 DEF NestedInv
<1>8. CASE Adjacent /\ ~Freed
  <2>1. next # Null /\ EndOf(heap.desc[m]) = Top.desc.addr /\ heap.desc[next] # NoDesc
    BY <1>8 DEF Adjacent, Freed
  <2>2. next \in FreeOf(heap) /\ heap.desc[next].index = heap.desc[m].index
        /\ EndOf(heap.desc[m]) = heap.desc[next].addr
    BY <1>2, <2>1 DEF FrameOK, NextOK
  <2>3. heap' = Merge(heap, m, next, a) /\ McellFreed(stack, f, used, home, next, stack', used', home') /\ fault' = fault
    BY <1>1, <1>8 DEF FreeMcell, McellFreed, Stored, To
  <2> HIDE DEF m, next
  <2>4. m = Last(stack).cell /\ a = heap.desc[m].addr
    BY <1>2 DEF m
  <2> HIDE DEF a
  <2>5. AllOK(Merge(heap, m, next, a), used', home', stack', result, live)
    BY <1>2, <1>4, <1>5, <2>2, <2>3, <2>4, NeighbourMerged
  <2> QED
    BY <1>1, <1>2, <2>3, <2>5 DEF NestedInv
<1> QED
  BY <1>6, <1>7, <1>8

\* Every step of the game and of the heap preserves the invariant.
LEMMA NextNestedInv == ASSUME NestedInv, [NestedNext]_nestedVars PROVE NestedInv'
<1>1. ASSUME UNCHANGED nestedVars PROVE NestedInv'
  BY <1>1 DEF nestedVars, NestedInv
<1>2. ASSUME SplitThroughNull PROVE NestedInv'
  BY <1>2 DEF SplitThroughNull, NestedInv
<1> QED
  BY <1>1, <1>2, MallocInv, FreeInv, GetWholeInv, AskForTailInv, SplitOffInv, AskForBlockInv, CreateBlockInv,
     GetNothingInv, MergePrevInv, MergeNextInv, LinkInv DEF NestedNext, NestedStep

\* Every reachable state satisfies the inductive invariant.
THEOREM NestedInvariance == NestedSpec => []NestedInv
  BY InitNestedInv, NextNestedInv, PTL DEF NestedSpec

-----------------------------------------------------------------------------
(* What follows from the invariant. *)

\* What a grip can be.
AllGrips == CellsPerBlock - BlockCount .. CellsPerBlock * (BlockCount + 1) - 1

\* The grips of the calls that wait are different numbers of a finite set: so
\* many calls can wait and no more.
LEMMA WaitsFit ==
  ASSUME NEW s, NEW h, NEW places \in {GetWaits, AddWaits}, Wait(s, h, places), Allocated(h) \subseteq MCells
  PROVE  Len(s) <= BlockCount * (CellsPerBlock + 1)
<1> DEFINE n == Len(s)
           f == [i \in 1 .. n |-> Grip(s[i])]
           p == CellsPerBlock * BlockCount
<1>1. n \in Nat /\ \A i \in 1 .. n : s[i] \in Frames /\ s[i].at \in places /\ FrameOK(h, s[i])
  BY DEF Wait
<1>2. CellsPerBlock \in Nat \ {0} /\ BlockCount \in Nat \ {0} /\ p \in Nat
  BY CellsFacts
<1>3. CellsPerBlock * (BlockCount + 1) = p + CellsPerBlock /\ BlockCount * (CellsPerBlock + 1) = p + BlockCount
  BY <1>2
<1>4. p >= CellsPerBlock
  <2>1. \A x, y \in Nat : y # 0 => x * y >= x
    <3> TAKE x, y \in Nat
    <3>1. ASSUME y # 0 PROVE x * y >= x
      <4>1. PICK z \in Nat : y = z + 1
        <5>1. y - 1 \in Nat /\ y = (y - 1) + 1
          BY <3>1
        <5> QED
          BY <5>1
      <4>2. x * y = x * z + x /\ x * z \in Nat
        BY <4>1
      <4> QED
        BY <4>2
    <3> QED
      BY <3>1
  <2> QED
    BY <1>2, <2>1
<1> HIDE DEF p
<1>5. AllGrips = CellsPerBlock - BlockCount .. p + CellsPerBlock - 1 /\ MCells = CellsPerBlock .. p + CellsPerBlock - 1
  <2> DEFINE q == CellsPerBlock * (BlockCount + 1)
  <2>1. AllGrips = CellsPerBlock - BlockCount .. q - 1 /\ MCells = CellsPerBlock .. q - 1
    BY DEF AllGrips, MCells
  <2>2. q = p + CellsPerBlock
    BY <1>3
  <2> HIDE DEF q
  <2>3. q - 1 = p + CellsPerBlock - 1
    BY <1>2, <2>2
  <2> QED
    BY <2>1, <2>3
<1>6. MCells \subseteq AllGrips /\ \A b \in Blocks : CellsPerBlock - 1 - b \in AllGrips
  BY <1>2, <1>4, <1>5 DEF Blocks
<1>7. ASSUME NEW i \in 1 .. n PROVE Grip(s[i]) \in AllGrips
  <2>1. s[i].at \in places /\ FrameOK(h, s[i])
    BY <1>1
  <2>2. CASE s[i].at = "create"
    <3>1. s[i].cell \in Blocks
      BY <2>1, <2>2 DEF FrameOK
    <3> QED
      BY <1>6, <2>2, <3>1 DEF Grip
  <2>3. CASE s[i].at # "create"
    <3>1. s[i].at = "split" \/ s[i].at \in Adds
      BY <2>1, <2>3 DEF GetWaits, AddWaits, Adds
    <3>2. s[i].cell \in MCells
      BY <2>1, <3>1 DEF FrameOK, Held
    <3> QED
      BY <1>6, <2>3, <3>2 DEF Grip
  <2> QED
    BY <2>2, <2>3
<1>8. f \in Injection(1 .. n, AllGrips)
  <2>1. f \in [1 .. n -> AllGrips]
    BY <1>7
  <2>2. \A i, j \in 1 .. n : f[i] = f[j] => i = j
    BY DEF Wait
  <2> QED
    BY <2>1, <2>2 DEF Injection, IsInjective
<1> HIDE DEF f, n
<1>9. CellsPerBlock - BlockCount \in Int /\ p + CellsPerBlock - 1 \in Int
  BY <1>2
<1>10. IsFiniteSet(AllGrips) /\ Cardinality(AllGrips) = p + BlockCount
  <2> DEFINE x == CellsPerBlock - BlockCount
             y == p + CellsPerBlock - 1
  <2>1. x \in Int /\ y \in Int /\ ~(x > y) /\ y - x + 1 = p + BlockCount
    BY <1>2, <1>4
  <2>2. AllGrips = x .. y
    BY <1>5
  <2> HIDE DEF x, y
  <2> QED
    BY <2>1, <2>2, FS_Interval
<1>11. Cardinality(1 .. n) = n
  BY <1>1, FS_Interval
<1>12. Cardinality(1 .. n) <= Cardinality(AllGrips)
  BY <1>8, <1>10, FS_Injection
<1> QED
  BY <1>3, <1>10, <1>11, <1>12 DEF n

\* The calls never need more of the stack than this.
LEMMA CallsFit ==
  ASSUME NestedInv
  PROVE  stack \in Seq(Frames) /\ Len(stack) <= BlockCount * (CellsPerBlock + 1) + 1
<1> DEFINE p == BlockCount * (CellsPerBlock + 1)
<1>1. AllOK(heap, used, home, stack, result, live)
  BY DEF NestedInv
<1>2. stack \in Seq(Frames) /\ (stack # <<>> => Calls(Front(stack), Last(stack), heap))
  BY <1>1 DEF AllOK, StackOK
<1>3. p \in Nat
  BY CellsFacts
<1>4. CASE stack = <<>>
  BY <1>2, <1>3, <1>4
<1>5. CASE stack # <<>>
  <2>1. Wait(Front(stack), heap, GetWaits) \/ Wait(Front(stack), heap, AddWaits)
    BY <1>2, <1>5 DEF Calls
  <2>2. Allocated(heap) \subseteq MCells
    BY DEF Allocated
  <2>3. Len(Front(stack)) <= p
    BY <2>1, <2>2, WaitsFit
  <2>4. Len(stack) = Len(Front(stack)) + 1 /\ Len(stack) \in Nat
    BY <1>2, <1>5, TakenOff
  <2> QED
    BY <1>2, <1>3, <2>3, <2>4
<1> QED
  BY <1>4, <1>5

\* The types.
LEMMA NestedTypes == ASSUME NestedInv, StackSize > BlockCount * (CellsPerBlock + 1) + 1 PROVE NestedTypeOK
<1> DEFINE p == BlockCount * (CellsPerBlock + 1)
<1>1. AllOK(heap, used, home, stack, result, live) /\ fault \in {"none", "null", "dangling"}
  BY DEF NestedInv
<1>2. /\ heap \in Heaps /\ BlocksOK(heap) /\ TilesOK(heap)
      /\ home \in [MCells -> Addresses \cup {Elsewhere}]
      /\ result \in Addresses \cup {Elsewhere, Nothing} /\ live \subseteq Addresses
      /\ used \in [Addresses -> Cells]
  BY <1>1 DEF AllOK, PartOK, UsedOK
<1>3. Len(stack) < StackSize
  <2>1. p \in Nat /\ StackSize \in Nat
    BY CellsFacts, DNestedAssumption
  <2>2. Len(stack) <= p + 1 /\ Len(stack) \in Nat
    BY CallsFit
  <2> QED
    BY <2>1, <2>2
<1>4. ASSUME NEW m \in MCells
      PROVE  heap.desc[m] \in [addr : Addresses \cup {0}, size : 0 .. CellsPerBlock, index : Blocks]
  <2>1. CASE m \in Allocated(heap)
    <3> DEFINE d == heap.desc[m]
               a == heap.block_addr[d.index]
    <3>1. d \in [addr : Nat, size : Nat, index : Blocks]
      BY <1>2 DEF Heaps
    <3>2. /\ a \in Places /\ a \in Nat /\ d.addr \in Nat
          /\ d.size \in 1 .. CellsPerBlock /\ d.addr - a \in Offs
      BY <1>2, <2>1, HeldFacts
    <3> HIDE DEF d, a
    <3>3. a + (d.addr - a) \in MCells
      BY <3>2, PlacesApart
    <3>4. a + (d.addr - a) = d.addr
      BY <3>2
    <3>5. d.addr \in Addresses /\ d.size \in 0 .. CellsPerBlock
      BY <3>2, <3>3, <3>4, CellsFacts DEF Addresses
    <3> QED
      BY <3>1, <3>5 DEF d
  <2>2. CASE m \notin Allocated(heap)
    <3>1. heap.desc[m] = NoDesc
      BY <2>2 DEF Allocated
    <3>2. 0 \in Blocks /\ 0 \in 0 .. CellsPerBlock
      BY CellsFacts DEF Blocks
    <3> QED
      BY <3>1, <3>2 DEF NoDesc
  <2> QED
    BY <2>1, <2>2
<1>5. heap.desc \in [MCells -> [addr : Addresses \cup {0}, size : 0 .. CellsPerBlock, index : Blocks]]
  BY <1>2, <1>4 DEF Heaps
<1> QED
  BY <1>1, <1>2, <1>3, <1>5 DEF NestedTypeOK, Cells

\* A list without repetitions is as long as it has cells.
LEMMA CountListed ==
  ASSUME NEW list \in Lists, \A i, j \in 1 .. Len(list) : list[i] = list[j] => i = j
  PROVE  Len(list) = Cardinality(Listed(list))
<1> DEFINE n == Len(list)
<1>1. n \in Nat /\ DOMAIN list = 1 .. n /\ list \in [1 .. n -> Listed(list)]
  BY DEF Lists, Listed
<1>2. list \in Bijection(1 .. n, Listed(list))
  BY <1>1 DEF Bijection, Injection, Surjection, IsInjective, Listed
<1> HIDE DEF n
<1>3. IsFiniteSet(1 .. n) /\ Cardinality(1 .. n) = n
  BY <1>1, FS_Interval
<1>4. ExistsBijection(1 .. n, Listed(list))
  BY <1>2 DEF ExistsBijection
<1> QED
  BY <1>3, <1>4, FS_Bijection DEF n

\* The sets of cells that NestingKeepsCells names are those of the invariant.
LEMMA CellSets ==
  ASSUME NestedInv
  PROVE  LET S == CellsIn(stack, {"split"}) IN
         /\ CellsAt({"split"}) = S /\ Freeing = CellsIn(stack, Adds)
         /\ OnLists = FreeOf(heap) \cup S /\ FreeOf(heap) \cap S = {}
         /\ {heap.size_list[i] : i \in DOMAIN heap.size_list} = FreeOf(heap)
         /\ Len(heap.size_list) = Cardinality(FreeOf(heap))
<1> DEFINE S == CellsIn(stack, {"split"})
<1>1. AllOK(heap, used, home, stack, result, live)
  BY DEF NestedInv
<1>2. stack \in Seq(Frames) /\ heap \in Heaps /\ PartFree(heap, S) /\ FreeOf(heap) \cup S \subseteq Allocated(heap)
  BY <1>1 DEF AllOK, StackOK, PartOK
<1>3. \A places : CellsAt(places) = CellsIn(stack, places)
  <2>1. DOMAIN stack = 1 .. Len(stack)
    BY <1>2
  <2> QED
    BY <2>1 DEF CellsAt, CellsIn
<1>4. CellsAt({"split"}) = S /\ Freeing = CellsIn(stack, Adds)
  BY <1>3 DEF Freeing, Adds
<1> HIDE DEF S
<1>5. \A list \in Lists : DOMAIN list = 1 .. Len(list)
  BY DEF Lists
<1>6. heap.size_list \in Lists /\ \A b \in Blocks : heap.addr_list[b] \in Lists
  BY <1>2, HeapFacts
<1>7. {heap.size_list[i] : i \in DOMAIN heap.size_list} = FreeOf(heap)
  BY <1>5, <1>6 DEF FreeOf, Listed
<1>8. OnLists = UNION {Listed(heap.addr_list[b]) : b \in Blocks}
  BY <1>5, <1>6 DEF OnLists, Listed
<1>9. OnLists = FreeOf(heap) \cup S
  <2>1. \A b \in Blocks : Listed(heap.addr_list[b]) = {m \in FreeOf(heap) \cup S : heap.desc[m].index = b}
    BY <1>2 DEF PartFree
  <2>2. \A m \in FreeOf(heap) \cup S : heap.desc[m].index \in Blocks
    <3>1. \A m \in FreeOf(heap) \cup S : m \in MCells
      BY <1>2 DEF Allocated
    <3> QED
      BY <1>2, <3>1, HeapFacts
  <2> QED
    BY <1>8, <2>1, <2>2
<1>10. Len(heap.size_list) = Cardinality(FreeOf(heap))
  <2>1. \A i, j \in 1 .. Len(heap.size_list) : heap.size_list[i] = heap.size_list[j] => i = j
    BY <1>2 DEF PartFree, SizeOK, Indexed, Ordered
  <2> QED
    BY <1>6, <2>1, CountListed DEF FreeOf
<1>11. FreeOf(heap) \cap S = {}
  BY <1>2 DEF PartFree
<1> QED
  BY <1>4, <1>7, <1>9, <1>10, <1>11 DEF S

\* Each cell is in one place.
CellsPlaced ==
  /\ Allocated(heap) = OnLists \cup Used \cup Freeing
  /\ OnLists \cap Used = {} /\ Freeing \cap (OnLists \cup Used) = {}
  /\ {heap.size_list[i] : i \in DOMAIN heap.size_list} = OnLists \ CellsAt({"split"})
  /\ Len(heap.size_list) = Cardinality(OnLists \ CellsAt({"split"}))

\* What is being split is not being freed.
LEMMA SplitOrFreed ==
  ASSUME NestedInv
  PROVE  /\ CellsIn(stack, Holding) = CellsIn(stack, {"split"}) \cup CellsIn(stack, Adds)
         /\ CellsIn(stack, {"split"}) \cap CellsIn(stack, Adds) = {}
<1> DEFINE S == CellsIn(stack, {"split"})
           F == CellsIn(stack, Adds)
           W == CellsIn(stack, Holding)
<1>1. AllOK(heap, used, home, stack, result, live)
  BY DEF NestedInv
<1>2. W = S \cup F
  BY DEF CellsIn, Holding, Adds
<1>3. CASE stack = <<>>
  BY <1>2, <1>3, NoWaits
<1>4. CASE stack # <<>>
  <2> DEFINE r == Front(stack)
             f == Last(stack)
  <2>1. /\ f \in Frames /\ r \in Seq(Frames) /\ stack = Append(r, f)
        /\ f.at \in Gets => Wait(r, heap, GetWaits)
        /\ f.at \in Adds => S = {}
    BY <1>1, <1>4, TopFacts
  <2>2. f.at \in Gets \/ f.at \in Adds
    BY <2>1 DEF Frames
  <2>3. ASSUME f.at \in Gets PROVE F = {}
    <3>1. CellsIn(r, Adds) = {}
      BY <2>1, <2>3, CellsAreGrips
    <3>2. f.at \notin Adds
      BY <2>3 DEF Gets, Adds
    <3>3. CellsIn(Append(r, f), Adds) = CellsIn(r, Adds) \cup (IF f.at \in Adds THEN {f.cell} ELSE {})
      BY <2>1, CellsOnTop
    <3> QED
      BY <2>1, <3>1, <3>2, <3>3
  <2> QED
    BY <1>2, <2>1, <2>2, <2>3
<1> QED
  BY <1>3, <1>4

\* What is free, in use and being freed is all that is allocated.
LEMMA CellsArePlaced == ASSUME NestedInv PROVE CellsPlaced
<1> DEFINE S == CellsIn(stack, {"split"})
           F == CellsIn(stack, Adds)
           W == CellsIn(stack, Holding)
           U == UsedCells(used)
           A == Allocated(heap)
           L == FreeOf(heap)
<1>1. AllOK(heap, used, home, stack, result, live)
  BY DEF NestedInv
<1>2. L \cup S \subseteq A /\ U \cap W = {} /\ A \ L = U \cup W
  BY <1>1 DEF AllOK, PartOK, UsedOK, Held
<1>3. W = S \cup F /\ S \cap F = {}
  BY SplitOrFreed
<1>4. /\ CellsAt({"split"}) = S /\ Freeing = F
      /\ OnLists = L \cup S /\ L \cap S = {}
      /\ {heap.size_list[i] : i \in DOMAIN heap.size_list} = L
      /\ Len(heap.size_list) = Cardinality(L)
  BY CellSets
<1>5. Used = U
  BY DEF Used, UsedCells
<1> HIDE DEF S, F, W, U, A, L
<1>6. OnLists \ S = L
  BY <1>4
<1>7. A = OnLists \cup Used \cup Freeing
  BY <1>2, <1>3, <1>4, <1>5
<1>8. OnLists \cap Used = {} /\ Freeing \cap (OnLists \cup Used) = {}
  BY <1>2, <1>3, <1>4, <1>5
<1> QED
  BY <1>4, <1>6, <1>7, <1>8 DEF CellsPlaced, A

\* What is in use belongs to the game, holds one mcell, or is on its way.
UsePlaced ==
  /\ {a \in Addresses : used[a] # Null} = live \cup Homes \cup InFlight
  /\ live \cap Homes = {} /\ InFlight \cap (live \cup Homes) = {}
  /\ \A m, k \in Allocated(heap) : m # k => (home[m] = home[k] => home[m] = Elsewhere)

\* Each address in use has one owner.
LEMMA UseIsPlaced == ASSUME NestedInv PROVE UsePlaced
<1> DEFINE A == Allocated(heap)
<1>1. HomeOK(A, home, UsedAddrs(used), live, InFlightOf(stack, result))
  BY DEF NestedInv, AllOK
<1>2. Homes = HomesOf(A, home) /\ InFlight = InFlightOf(stack, result)
  BY DEF Homes, HomesOf, InFlight, InFlightOf, Top, GetWaits
<1>3. {a \in Addresses : used[a] # Null} = UsedAddrs(used)
  BY DEF UsedAddrs
<1>4. \A m, k \in A : m # k => (home[m] = home[k] => home[m] = Elsewhere)
  BY <1>1 DEF HomeOK
<1> QED
  BY <1>1, <1>2, <1>3, <1>4 DEF HomeOK, UsePlaced

\* The cells of a block cover it once.
Tiled ==
  /\ \A m, k \in Allocated(heap) : m # k => UnitsOf(m) \cap UnitsOf(k) = {}
  /\ \A b \in Blocks :
       LET mine == {m \in Allocated(heap) : heap.desc[m].index = b} IN
       mine # {} => UNION {UnitsOf(m) : m \in mine}
                      = heap.block_addr[b] .. heap.block_addr[b] + CellsPerBlock - 1

\* Cells of a block are apart, blocks are apart, and each unit is in a cell.
LEMMA BlocksAreTiled == ASSUME NestedInv PROVE Tiled
<1> DEFINE A == Allocated(heap)
           d(m) == heap.desc[m]
           at(m) == heap.block_addr[heap.desc[m].index]
<1>1. heap \in Heaps /\ TilesOK(heap) /\ BlocksOK(heap)
  BY DEF NestedInv, AllOK, PartOK
<1>2. CellsPerBlock \in Nat \ {0} /\ Offs = 0 .. CellsPerBlock - 1
  BY CellsFacts
<1>3. ASSUME NEW m \in A
      PROVE  /\ d(m).index \in Blocks /\ at(m) \in Places /\ at(m) \in Nat
             /\ d(m).addr \in Nat /\ d(m).size \in Nat
             /\ at(m) <= d(m).addr /\ d(m).addr + d(m).size <= at(m) + CellsPerBlock
  <2>1. /\ d(m).index \in Blocks /\ at(m) \in Places /\ at(m) \in Nat
        /\ d(m).addr \in Nat /\ d(m).size \in 1 .. CellsPerBlock
        /\ at(m) <= d(m).addr /\ d(m).addr + d(m).size <= at(m) + CellsPerBlock
    BY <1>1, HeldFacts
  <2>2. \A x \in 1 .. CellsPerBlock : x \in Nat
    BY <1>2
  <2> HIDE DEF d, at
  <2> QED
    BY <2>1, <2>2
<1>4. ASSUME NEW m \in A
      PROVE  \A u \in Int : u \in UnitsOf(m) <=> Has(d(m), u)
  <2>1. \A x, y \in Nat : \A u \in Int : u \in x .. x + y - 1 <=> x <= u /\ u < x + y
    OBVIOUS
  <2> QED
    BY <1>3, <2>1 DEF UnitsOf, EndOf, Has
<1>5. \A m \in A : UnitsOf(m) \subseteq Int
  <2>1. \A x, y \in Nat : x .. x + y - 1 \subseteq Int
    OBVIOUS
  <2> QED
    BY <1>3, <2>1 DEF UnitsOf, EndOf
<1>6. ASSUME NEW m \in A, NEW k \in A, m # k, NEW u \in UnitsOf(m), u \in UnitsOf(k)
      PROVE  FALSE
  <2>1. u \in Int /\ Has(d(m), u) /\ Has(d(k), u)
    BY <1>4, <1>5, <1>6
  <2>2. Apart(d(m), d(k))
    <3>1. CASE d(m).index = d(k).index
      BY <1>1, <1>6, <3>1 DEF TilesOK
    <3>2. CASE d(m).index # d(k).index
      <4>1. at(m) # at(k)
        BY <1>1, <1>3, <1>6, <3>2, PlacesApart DEF BlocksOK
      <4>2. at(m) + CellsPerBlock <= at(k) \/ at(k) + CellsPerBlock <= at(m)
        <5>1. at(m) < at(k) \/ at(k) < at(m)
          BY <1>3, <1>6, <4>1
        <5> QED
          BY <1>3, <1>6, <5>1, PlacesApart
      <4>3. \A x, xs, y, ys, p, q, c \in Nat : p <= x /\ x + xs <= p + c /\ q <= y /\ y + ys <= q + c
              /\ (p + c <= q \/ q + c <= p) => x + xs <= y \/ y + ys <= x
        OBVIOUS
      <4>4. /\ at(m) \in Nat /\ d(m).addr \in Nat /\ d(m).size \in Nat
            /\ at(m) <= d(m).addr /\ d(m).addr + d(m).size <= at(m) + CellsPerBlock
        BY <1>3
      <4>5. /\ at(k) \in Nat /\ d(k).addr \in Nat /\ d(k).size \in Nat
            /\ at(k) <= d(k).addr /\ d(k).addr + d(k).size <= at(k) + CellsPerBlock
        BY <1>3
      <4> HIDE DEF d, at
      <4>6. d(m).addr + d(m).size <= d(k).addr \/ d(k).addr + d(k).size <= d(m).addr
        BY <1>2, <4>2, <4>3, <4>4, <4>5
      <4> QED
        BY <4>6 DEF Apart
    <3> QED
      BY <3>1, <3>2
  <2>3. \A x, xs, y, ys \in Nat : (x + xs <= y \/ y + ys <= x) => \A z \in Int : ~(x <= z /\ z < x + xs /\ y <= z /\ z < y + ys)
    OBVIOUS
  <2> QED
    BY <1>3, <1>6, <2>1, <2>2, <2>3 DEF Has, Apart
<1>7. ASSUME NEW b \in Blocks, NEW o \in A, d(o).index = b
      PROVE  UNION {UnitsOf(m) : m \in {m \in A : d(m).index = b}}
               = heap.block_addr[b] .. heap.block_addr[b] + CellsPerBlock - 1
  <2> DEFINE p == heap.block_addr[b]
             mine == {m \in A : d(m).index = b}
  <2>1. p \in Nat
    BY <1>3, <1>7
  <2>2. ASSUME NEW m \in mine, NEW u \in UnitsOf(m) PROVE u \in p .. p + CellsPerBlock - 1
    <3>1. u \in Int /\ Has(d(m), u) /\ at(m) = p
      BY <1>4, <1>5
    <3>2. \A x, xs, q, c \in Nat : \A z \in Int : q <= x /\ x + xs <= q + c /\ x <= z /\ z < x + xs => z \in q .. q + c - 1
      OBVIOUS
    <3>3. d(m).addr <= u /\ u < d(m).addr + d(m).size
      BY <3>1 DEF Has
    <3>4. d(m).addr \in Nat /\ d(m).size \in Nat /\ p <= d(m).addr /\ d(m).addr + d(m).size <= p + CellsPerBlock
      BY <1>3, <3>1
    <3> HIDE DEF d, at, p
    <3> QED
      BY <1>2, <2>1, <3>1, <3>2, <3>3, <3>4
  <2>3. ASSUME NEW u \in p .. p + CellsPerBlock - 1 PROVE \E m \in mine : u \in UnitsOf(m)
    <3>1. u \in Int /\ u - p \in Offs /\ p + (u - p) = u
      BY <1>2, <2>1
    <3>2. PICK k \in A : d(k).index = d(o).index /\ Has(d(k), at(o) + (u - p))
      BY <1>1, <1>7, <3>1 DEF TilesOK
    <3>3. at(o) + (u - p) = u
      BY <1>7, <3>1
    <3>4. k \in mine /\ Has(d(k), u)
      BY <1>7, <3>2, <3>3
    <3> QED
      BY <1>4, <3>1, <3>4
  <2> HIDE DEF p, mine
  <2>4. UNION {UnitsOf(m) : m \in mine} = p .. p + CellsPerBlock - 1
    BY <2>2, <2>3
  <2> QED
    BY <2>4 DEF p, mine
<1>8. \A m, k \in A : m # k => UnitsOf(m) \cap UnitsOf(k) = {}
  BY <1>6
<1> QED
  BY <1>7, <1>8 DEF Tiled

(***************************************************************************)
(* However deep the default heap calls itself, each cell is in one place,  *)
(* each address in use has one owner, and the cells of a block cover it    *)
(* once: for any numbers of blocks and of cells in them, any sizes, and a  *)
(* stack of a call per cell and per block index, and one more.             *)
(***************************************************************************)
THEOREM NestingIsSafe ==
  ASSUME StackSize > BlockCount * (CellsPerBlock + 1) + 1
  PROVE  NestedSpec => []NestingKeepsCells
<1>1. ASSUME NestedInv PROVE NestingKeepsCells
  <2>1. NestedTypeOK
    BY <1>1, NestedTypes
  <2>2. CellsPlaced /\ UsePlaced /\ Tiled
    BY <1>1, CellsArePlaced, UseIsPlaced, BlocksAreTiled
  <2> QED
    BY <2>1, <2>2 DEF NestingKeepsCells, CellsPlaced, UsePlaced, Tiled
<1>2. NestedInv => NestingKeepsCells
  BY <1>1
<1> QED
  BY <1>2, NestedInvariance, PTL
=============================================================================
