--------------------------- MODULE EclBindingCells ---------------------------
(***************************************************************************)
(* The dynamic bindings of EclBinding side by side with the cells of       *)
(* AbstractBinding they are meant to be.  Every step of the code is taken  *)
(* together with the abstract step it stands for, as long as what runs     *)
(* within bindings is calm.                                                *)
(***************************************************************************)
EXTENDS EclBinding

VARIABLES
    shared,     \* the global values, in the abstraction
    cell, saved

Cells == INSTANCE AbstractBinding WITH Unbound <- OBJNULL, global <- shared

cellVars == <<shared, cell, saved>>

Seen(p, s) == IF cell[p][s] = Shared THEN shared[s] ELSE cell[p][s]

As(step) == IF mode = "calm" THEN step ELSE UNCHANGED cellVars

CellsInit == Init /\ Cells!Init /\ shared = global

CellsNext ==
    \/ \E p \in Process :
          \/ BindEntry(p) /\ As(Cells!Bind(p, Innermost(p).symbol, Innermost(p).value))
          \/ /\ PushEntry(p)
             /\ As(Cells!Bind(p, Innermost(p).symbol, Seen(p, Innermost(p).symbol)))
          \/ UnwindEntry(p) /\ As(Cells!Unwind(p))
          \/ (ecl_bds_unwind1(p) \/ NonLocalExit(p)) /\ UNCHANGED cellVars
          \/ \E s \in Symbol :
                \/ ecl_bds_push(p, s) /\ UNCHANGED cellVars
                \/ \E v \in Value \cup {OBJNULL} :
                      ecl_bds_bind(p, s, v) /\ UNCHANGED cellVars
                \/ \E v \in Value :
                      /\ ecl_set_symbol(p, s, v)
                      /\ As(Cells!SetOwn(p, s, v) \/ Cells!SetGlobal(p, s, v))
    \/ \E s \in Symbol : cl_makunbound(s) /\ As(Cells!MakeUnbound(s))

CellsSpec == CellsInit /\ [][CellsNext]_<<vars, cellVars>>

-----------------------------------------------------------------------------

(* The slots of the stack that have been written and not been undone.      *)
Written(p) ==
    LET waiting == {within[p][i].slot : i \in {j \in DOMAIN within[p] :
                                                  within[p][j].op # "unwind"}}
        undone == IF within[p] # <<>> /\ Innermost(p).op = "unwind" THEN 1 ELSE 0
        written == {i \in 1 .. top[p] + undone : i \notin waiting}
    IN [i \in 1 .. Cardinality(written) |->
          mem[p][CHOOSE j \in written :
                    Cardinality({k \in written : k <= j}) = i]]

(* The table, the stack and the flag of the symbols that stand for them    *)
(* (ecl_bds_bind, ecl_bds_unwind1, ecl_set_symbol) implement the cells,    *)
(* when what runs within a binding is calm: a process sees what it bound   *)
(* or set last, undoing a binding puts back what was there, no process     *)
(* changes what another one has bound, and a global value is changed only  *)
(* by those who have not bound the symbol.                                 *)
ImplementsCells ==
    mode = "calm" =>
       /\ shared = global
       /\ \A p \in Process :
             /\ \A s \in Symbol :
                   /\ ecl_symbol_slot(p, s) = Seen(p, s)
                   /\ Present(s, table[p]) <=> cell[p][s] # Shared
             /\ Len(saved[p]) = Len(Written(p))
             /\ \A i \in DOMAIN saved[p] :
                   /\ Written(p)[i].symbol = saved[p][i].symbol
                   /\ Written(p)[i].value =
                        (IF saved[p][i].value = Shared THEN OBJNULL ELSE saved[p][i].value)

=============================================================================
