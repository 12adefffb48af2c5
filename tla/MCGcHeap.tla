----------------------------- MODULE MCGcHeap -----------------------------
EXTENDS GcHeap, TLC

CONSTANTS a1, a2, u1

MCObj == {a1, a2, u1}
MCBlockOf == (u1 :> 1) @@ (a1 :> 2) @@ (a2 :> 2)
MCFields == <<0, 1>>
MCFlat == <<1, 0>>
MCSym == Permutations({a1, a2}) \cup Permutations(Reg)

\* A state without the values that are overwritten before they are read again:
\* the contents, protection and dirty bits of free blocks, the grungy pages
\* outside the scan of dirty blocks, the scan's state between collections.
MCView ==
  <<incremental,
    [o \in Obj |-> IF BlockOf[o] \in freeBlocks THEN {} ELSE ptr[o]],
    reg, held, freelist, freeBlocks, reclaim, marked, stack, stackSize, tooSmall,
    markState,
    IF markState = "none" THEN <<>> ELSE <<scanPtr, areMarked>>,
    dirty \ freeBlocks, protected \ freeBlocks, fault,
    IF markState = "push_rescuers" THEN grungy ELSE {},
    pc, caller, never, outer, attempts, isFull /\ pc \in {"stop", "mark"}>>

=============================================================================
