---------------------------- MODULE MCEclProcess ----------------------------
(* EclProcess for TLC; the configurations choose the calls.                *)
EXTENDS EclProcess, TLC

Symmetry == Permutations(Thread) \cup Permutations(User)

\* A state without the values that nothing reads again: what a thread that is
\* gone had (its process is still known to those who wait for it), interrupts
\* of one that no longer takes any, the list of a quit that has made the last
\* use of it, and what a join that is over was about.
MCView ==
    LET awaited(t) == \E u \in User : t \in usr[u].exits
        gone(t) == pc[t] = "dead"
        seen(r) ==
            CASE r.at = "joined" -> [Idle EXCEPT !.at = r.at]
              [] r.at = "waited" -> [r EXCEPT !.p = Nil]
              [] r.at \in {"quitJoin", "joinCheck", "wait", "release"} ->
                    [r EXCEPT !.all = <<>>]
              [] OTHER -> r
    IN <<procVars, careful, pc,
         [t \in Thread |-> IF gone(t) /\ ~awaited(t) THEN Nil ELSE proc[t]],
         [t \in Thread |-> IF gone(t) THEN "none" ELSE mem[t]],
         [t \in Thread |-> IF gone(t) THEN 0 ELSE dis[t]],
         [t \in Thread |-> IF pc[t] \in {"dead", "wild"} THEN FALSE ELSE pending[t]],
         [u \in User |-> seen(usr[u])]>>
=============================================================================
