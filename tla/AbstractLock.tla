----------------------------- MODULE AbstractLock -----------------------------
(***************************************************************************)
(* What a lock promises its users: it belongs to nobody or to one process, *)
(* the process it belongs to may take it again if it is recursive, and it  *)
(* becomes free when it has been given up as often as it was taken.        *)
(***************************************************************************)
EXTENDS Naturals

CONSTANTS Process, Lock, Recursive, Nil

VARIABLES user, count

Init ==
    /\ user  = [l \in Lock |-> Nil]
    /\ count = [l \in Lock |-> 0]

Acquire(p, l) ==
    /\ user[l] = Nil
    /\ user'  = [user EXCEPT ![l] = p]
    /\ count' = [count EXCEPT ![l] = 1]

AcquireAgain(p, l) ==
    /\ user[l] = p
    /\ l \in Recursive
    /\ count' = [count EXCEPT ![l] = @ + 1]
    /\ UNCHANGED user

Release(p, l) ==
    /\ user[l] = p
    /\ user'  = [user EXCEPT ![l] = IF count[l] = 1 THEN Nil ELSE p]
    /\ count' = [count EXCEPT ![l] = @ - 1]

Next == \E p \in Process, l \in Lock :
            Acquire(p, l) \/ AcquireAgain(p, l) \/ Release(p, l)

Spec == Init /\ [][Next]_<<user, count>>
=============================================================================
