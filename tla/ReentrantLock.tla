--------------------------- MODULE ReentrantLock ---------------------------
(***************************************************************************)
(* What a reentrant lock promises: whoever holds it may take it again, and *)
(* nobody else can take it until it was released as often as taken.        *)
(***************************************************************************)
EXTENDS Integers

CONSTANT Threads

VARIABLE holds   \* how many times each thread holds the lock

Init == holds = [t \in Threads |-> 0]

Take(t) ==
  /\ \A u \in Threads \ {t} : holds[u] = 0
  /\ holds' = [holds EXCEPT ![t] = @ + 1]

Drop(t) ==
  /\ holds[t] > 0
  /\ holds' = [holds EXCEPT ![t] = @ - 1]

Next == \E t \in Threads : Take(t) \/ Drop(t)

Spec == Init /\ [][Next]_holds
=============================================================================
