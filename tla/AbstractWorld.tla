---------------------------- MODULE AbstractWorld ----------------------------
(***************************************************************************)
(* What GC_stop_world and GC_start_world promise the collector: from the   *)
(* one to the other the stacks of the other threads do not change, and are *)
(* known.                                                                  *)
(***************************************************************************)
CONSTANTS Thread, Depth, Nil

VARIABLES
  sp,        \* the stack of each thread
  stopper,   \* the thread that has stopped the world
  seen       \* the stacks it can scan while it has

vars == <<sp, stopper, seen>>

Init ==
  /\ sp \in [Thread -> Depth]
  /\ stopper = Nil
  /\ seen = [t \in {} |-> 0]

Run(t) ==
  /\ stopper = Nil
  /\ \E d \in Depth : sp' = [sp EXCEPT ![t] = d]
  /\ UNCHANGED <<stopper, seen>>

Stop(t, S) ==
  /\ stopper = Nil
  /\ stopper' = t
  /\ seen' = [u \in S |-> sp[u]]
  /\ UNCHANGED sp

Start ==
  /\ stopper # Nil
  /\ stopper' = Nil
  /\ seen' = [u \in {} |-> 0]
  /\ UNCHANGED sp

Next ==
  \/ Start
  \/ \E t \in Thread : Run(t) \/ \E S \in SUBSET Thread : Stop(t, S)

Spec == Init /\ [][Next]_vars

=============================================================================
