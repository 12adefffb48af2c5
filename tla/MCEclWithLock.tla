---------------------------- MODULE MCEclWithLock ----------------------------
(* EclWithLock for TLC.  SafePoints leaves out the windows in which the    *)
(* mutex and the fields of a lock disagree.                                *)
EXTENDS EclWithLock, TLC

CONSTANTS r1, n1

MCLock == {r1, n1}
MCRecursive == {r1}
Symmetry == Permutations(Process)
=============================================================================
