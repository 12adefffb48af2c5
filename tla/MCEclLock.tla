------------------------------ MODULE MCEclLock ------------------------------
(* EclLock for TLC: a recursive and a non-recursive lock.                  *)
EXTENDS EclLock, TLC

CONSTANTS r1, n1

MCLock == {r1, n1}
MCRecursive == {r1}
Symmetry == Permutations(Process)
=============================================================================
