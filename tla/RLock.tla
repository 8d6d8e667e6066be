------------------------------- MODULE RLock -------------------------------
(***************************************************************************)
(* The reentrant spin lock of the default heap                             *)
(* (src/heap_replacer/locks/rlock.h).  A thread's id is the thread itself; *)
(* Nobody stands for the id 0, which no Windows thread has.                *)
(*                                                                         *)
(* Each access to the two words of the lock is a step.  lock_count is not  *)
(* atomic: its increment and decrement are a read and a later write, safe  *)
(* only if no other thread touches it in between.                          *)
(***************************************************************************)
EXTENDS Integers

CONSTANTS
  Threads,
  Nobody,     \* the thread_id of a free lock
  MaxDepth    \* bound: how often a thread nests calls

ASSUME RLockAssumption ==
  /\ Nobody \notin Threads
  /\ MaxDepth \in Nat \ {0}

VARIABLES
  thread_id,
  lock_count,
  pc,
  seen,    \* the lock_count a thread read
  holds    \* ghost: the calls of rlock_lock a thread has not yet undone

vars == <<thread_id, lock_count, pc, seen, holds>>

Goto(t, l) == pc' = [pc EXCEPT ![t] = l]

Locking   == {"test", "inc", "add", "cas", "set"}
Unlocking == {"dec", "sub", "clear"}
Labels    == {"idle"} \cup Locking \cup Unlocking

Init ==
  /\ thread_id = Nobody
  /\ lock_count = 0
  /\ pc = [t \in Threads |-> "idle"]
  /\ seen = [t \in Threads |-> 0]
  /\ holds = [t \in Threads |-> 0]

-----------------------------------------------------------------------------
(* rlock_lock *)

Lock(t) ==
  /\ pc[t] = "idle"
  /\ holds[t] < MaxDepth
  /\ Goto(t, "test")
  /\ UNCHANGED <<thread_id, lock_count, seen, holds>>

\* BUG: not reentrant, the owner waits for itself.
Mine_Never(t) == FALSE

\* BUG: any owner will do.
Mine_Any(t) == thread_id # Nobody

Mine(t) == thread_id = t

\* The read that no lock protects: thread_id == id.
TestOwner(t) ==
  /\ pc[t] = "test"
  /\ Goto(t, IF Mine(t) THEN "inc" ELSE "cas")
  /\ UNCHANGED <<thread_id, lock_count, seen, holds>>

\* lock_count++, the read ...
IncRead(t) ==
  /\ pc[t] = "inc"
  /\ seen' = [seen EXCEPT ![t] = lock_count]
  /\ Goto(t, "add")
  /\ UNCHANGED <<thread_id, lock_count, holds>>

\* ... and the write.
IncWrite(t) ==
  /\ pc[t] = "add"
  /\ lock_count' = seen[t] + 1
  /\ seen' = [seen EXCEPT ![t] = 0]
  /\ holds' = [holds EXCEPT ![t] = @ + 1]
  /\ Goto(t, "idle")
  /\ UNCHANGED thread_id

\* The compare-and-swap that lets the spinning thread through.
SwapOwner(t) ==
  /\ pc[t] = "cas"
  /\ thread_id = Nobody
  /\ thread_id' = t
  /\ Goto(t, "set")
  /\ UNCHANGED <<lock_count, seen, holds>>

SetCount(t) ==
  /\ pc[t] = "set"
  /\ lock_count' = 1
  /\ holds' = [holds EXCEPT ![t] = @ + 1]
  /\ Goto(t, "idle")
  /\ UNCHANGED <<thread_id, seen>>

-----------------------------------------------------------------------------
(* rlock_unlock *)

\* The callers unlock only what they locked.
Unlock(t) ==
  /\ pc[t] = "idle"
  /\ holds[t] > 0
  /\ holds' = [holds EXCEPT ![t] = @ - 1]
  /\ Goto(t, "dec")
  /\ UNCHANGED <<thread_id, lock_count, seen>>

\* --lock_count, the read ...
DecRead(t) ==
  /\ pc[t] = "dec"
  /\ seen' = [seen EXCEPT ![t] = lock_count]
  /\ Goto(t, "sub")
  /\ UNCHANGED <<thread_id, lock_count, holds>>

\* ... and the write; the outermost unlock goes on to give the lock up.
DecWrite(t) ==
  /\ pc[t] = "sub"
  /\ lock_count' = seen[t] - 1
  /\ seen' = [seen EXCEPT ![t] = 0]
  /\ Goto(t, IF seen[t] = 1 THEN "clear" ELSE "idle")
  /\ UNCHANGED <<thread_id, holds>>

\* BUG: the outermost unlock does not give the lock up.
NewOwner_Kept == thread_id

NewOwner == Nobody

ClearOwner(t) ==
  /\ pc[t] = "clear"
  /\ thread_id' = NewOwner
  /\ Goto(t, "idle")
  /\ UNCHANGED <<lock_count, seen, holds>>

-----------------------------------------------------------------------------

Step(t) ==
  \/ TestOwner(t)
  \/ IncRead(t)
  \/ IncWrite(t)
  \/ SwapOwner(t)
  \/ SetCount(t)
  \/ DecRead(t)
  \/ DecWrite(t)
  \/ ClearOwner(t)

Next == \E t \in Threads : Lock(t) \/ Unlock(t) \/ Step(t)

Spec == Init /\ [][Next]_vars

\* Inside of a call the operating system keeps running the thread.
FairSpec == Spec /\ \A t \in Threads : WF_vars(Step(t))

-----------------------------------------------------------------------------

TypeOK ==
  /\ thread_id \in Threads \cup {Nobody}
  /\ lock_count \in 0 .. MaxDepth
  /\ pc \in [Threads -> Labels]
  /\ seen \in [Threads -> 0 .. MaxDepth]
  /\ holds \in [Threads -> 0 .. MaxDepth]

\* From the compare-and-swap to the end of the outermost unlock.
Owns(t) ==
  \/ holds[t] > 0
  \/ pc[t] \in {"inc", "add", "set", "dec", "sub", "clear"}

(***************************************************************************)
(* Only the owner is inside, and the word says who it is: the owner is the *)
(* one thread that reads or writes lock_count, so the unlocked increment   *)
(* and decrement race with nobody, and the unlocked read of thread_id      *)
(* takes the fast path for the owner alone.                                *)
(***************************************************************************)
OwnerIsAlone == \A t \in Threads : Owns(t) => thread_id = t

(***************************************************************************)
(* A thread that holds the lock never waits for it: dheap_malloc may come  *)
(* back to the heap through hr_malloc with the lock taken.                 *)
(***************************************************************************)
NoSelfDeadlock == \A t \in Threads : pc[t] = "cas" => holds[t] = 0

(***************************************************************************)
(* The count is the depth of the owner between calls: the lock is given up *)
(* by the outermost unlock and by no other.                                *)
(***************************************************************************)
CountIsDepth ==
  \A t \in Threads : pc[t] \in {"idle", "test"} =>
    IF holds[t] > 0 THEN thread_id = t /\ lock_count = holds[t]
    ELSE thread_id # t

\* The lock implements the abstract one.
Abstract == INSTANCE ReentrantLock

ImplementsLock == Abstract!Spec

\* What the lock may expect of its callers: nobody stays inside forever.
CriticalSectionsEnd == \A t \in Threads : []<>(holds[t] = 0)

(***************************************************************************)
(* When threads wait one of them gets the lock, as long as critical        *)
(* sections end.  Which one is a matter of luck: the lock is not fair.     *)
(***************************************************************************)
SomeoneGetsIn ==
  CriticalSectionsEnd =>
    ((\E t \in Threads : pc[t] = "cas") ~> (\E t \in Threads : pc[t] = "set"))
=============================================================================
