---------------------------- MODULE MCEclBinding ----------------------------
EXTENDS EclBindingCells

CONSTANTS p1, p2

\* All symbols collide, and so does a slot that was never written.
MCHash == [s \in Key \cup {OBJNULL} |-> 1]
Depth(m) == CASE m = "calm" -> 3 [] m = "overflow" -> 2 [] m = "free" -> 1
MCDepth == [m \in Modes |-> [p \in Process |-> IF p = p1 THEN Depth(m) ELSE 0]]
MCNest == [m \in Modes |-> IF m = "free" THEN 1 ELSE 2]
MCSetters == [m \in Modes |-> IF m = "free" THEN {} ELSE Process]
MCSym == Permutations(Key) \cup Permutations(Value)

\* A state without the slots that are written before they are read: except in
\* mode "free" those above the top, and those of bindings that wait.  Only in
\* mode "calm" do the properties tell the values of symbols apart, and the steps
\* never do: elsewhere they are all alike, and the cells as they were.
MCView ==
    LET like(v) == IF v \in Value THEN "value" ELSE v
        entry(e) == [e EXCEPT !.value = like(@)]
        entries(data) == [i \in DOMAIN data |-> entry(data[i])]
        unread == [p \in Process |->
            IF mode = "free" THEN {}
            ELSE LET undone == IF within[p] # <<>> /\ Innermost(p).op = "unwind" THEN 1 ELSE 0
                 IN  top[p] + undone + 1 .. MaxDepth[mode][p]
                     \cup {within[p][i].slot : i \in {j \in DOMAIN within[p] :
                                                         within[p][j].op # "unwind"}}]
        slots == [p \in Process |-> [i \in DOMAIN mem[p] |->
                    IF i \in unread[p] THEN Blank ELSE mem[p][i]]]
    IN IF mode = "calm"
       THEN <<mode, global, dynamic, old, table, top, within, slots, shared, cell, saved>>
       ELSE <<mode, [s \in Symbol |-> like(global[s])], dynamic, top,
              [p \in Process |-> [i \in DOMAIN old[p] |-> entries(old[p][i])]],
              [p \in Process |-> [table[p] EXCEPT !.data = entries(@)]],
              [p \in Process |-> entries(within[p])],
              [p \in Process |-> entries(slots[p])]>>

=============================================================================
