----------------------------- MODULE Allocator -----------------------------
(***************************************************************************)
(* What every heap of the Heap Replacer promises to the program above it:  *)
(* the regions of memory it has handed out and not yet taken back never    *)
(* overlap, and only a region that was handed out is taken back.           *)
(*                                                                         *)
(* It is the abstract side of the refinements: mpool, dheap and sheap each *)
(* implement it under a mapping from their own state to "live".            *)
(***************************************************************************)
EXTENDS Integers

CONSTANTS
  Arena,   \* the addresses a region may start at (natural numbers)
  Sizes    \* the lengths a region may have (positive)

VARIABLE live   \* the regions in the hands of the program

Regions == [addr : Arena, size : Sizes]

Disjoint(r, s) ==
  \/ r.addr + r.size <= s.addr
  \/ s.addr + s.size <= r.addr

Init == live = {}

\* A successful malloc: the region overlaps nothing that is live.
Grant(r) ==
  /\ \A s \in live : Disjoint(r, s)
  /\ live' = live \cup {r}

\* A free of a live region.
Release(r) ==
  /\ r \in live
  /\ live' = live \ {r}

Next == \E r \in Regions : Grant(r) \/ Release(r)

Spec == Init /\ [][Next]_live

=============================================================================
