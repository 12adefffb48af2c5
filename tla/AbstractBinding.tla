--------------------------- MODULE AbstractBinding ---------------------------
(***************************************************************************)
(* What the dynamic bindings of stacks.d amount to.  Each process has a    *)
(* cell for each symbol, which is shared with the other processes (the     *)
(* global value) until the process binds the symbol; a binding gives the   *)
(* process a cell of its own, and undoing it puts back what the cell held. *)
(* If the symbol had a global value, that is a copy of it: the cell is     *)
(* shared again only if it had none.                                       *)
(***************************************************************************)
EXTENDS Integers, Sequences

CONSTANTS Process, Symbol, Value, Unbound, Shared

VARIABLES global, cell, saved

vars == <<global, cell, saved>>

Init ==
    /\ global \in [Symbol -> Value \cup {Unbound}]
    /\ cell = [p \in Process |-> [s \in Symbol |-> Shared]]
    /\ saved = [p \in Process |-> <<>>]

Previous(p, s) ==
    IF cell[p][s] = Shared /\ global[s] # Unbound THEN global[s] ELSE cell[p][s]

SetGlobal(p, s, v) ==
    /\ cell[p][s] = Shared
    /\ global' = [global EXCEPT ![s] = v]
    /\ UNCHANGED <<cell, saved>>

MakeUnbound(s) ==
    /\ global' = [global EXCEPT ![s] = Unbound]
    /\ UNCHANGED <<cell, saved>>

SetOwn(p, s, v) ==
    /\ UNCHANGED <<global, saved>>
    /\ cell[p][s] # Shared
    /\ cell' = [cell EXCEPT ![p][s] = v]

Bind(p, s, v) ==
    /\ UNCHANGED global
    /\ saved' = [saved EXCEPT ![p] = Append(@, [symbol |-> s, value |-> Previous(p, s)])]
    /\ cell' = [cell EXCEPT ![p][s] = v]

Unwind(p) ==
    /\ UNCHANGED global
    /\ saved[p] # <<>>
    /\ saved' = [saved EXCEPT ![p] = SubSeq(@, 1, Len(@) - 1)]
    /\ LET slot == saved[p][Len(saved[p])]
       IN cell' = [cell EXCEPT ![p][slot.symbol] = slot.value]

Next ==
    \/ \E s \in Symbol : MakeUnbound(s)
    \/ \E p \in Process : Unwind(p)
    \/ \E p \in Process, s \in Symbol, v \in Value :
          SetGlobal(p, s, v) \/ SetOwn(p, s, v) \/ Bind(p, s, v)

Spec == Init /\ [][Next]_vars

=============================================================================
