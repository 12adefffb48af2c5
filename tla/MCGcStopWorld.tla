---------------------------- MODULE MCGcStopWorld ----------------------------
EXTENDS GcStopWorld, TLC

MCMaxStops == (FALSE :> 2) @@ (TRUE :> 1)

\* A state without values that are overwritten before they are read again: the
\* local variables of a handler that has returned and of loops that are over, and
\* the stack pointers except whether a saved one is still right.
MCView ==
  LET looping == {pc[t] : t \in Thread} \cap {"suspend", "acks", "resend", "wait"} # {}
  IN <<retry, lock, table, finished, blocked,
       [t \in Thread |->
          IF hpc[t] \in {"none", "return", "fault"} THEN 0 ELSE myCount[t]],
       {t \in Thread : /\ t \in blocked \/ hpc[t] \notin {"none", "return", "fault"}
                       /\ stackPtr[t] # sp[t]},
       [t \in Thread |-> IF t \in table THEN lastStop[t] ELSE 0],
       stopCount, stopped, ack, suspend, restart, hpc, pc, todo,
       IF looping THEN nLive ELSE 0,
       IF \E t \in Thread : pc[t] = "resend" THEN newlySent ELSE 0, lost>>

=============================================================================
