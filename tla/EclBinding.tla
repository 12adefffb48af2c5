----------------------------- MODULE EclBinding -----------------------------
(***************************************************************************)
(* The dynamic bindings of special variables (stacks.d): each process has  *)
(* a hash table of the values it gives to symbols and a stack of what to   *)
(* put back.                                                               *)
(*                                                                         *)
(* Binding and unbinding look the entry of the symbol up first and use it  *)
(* later, with interrupts enabled.  In between other code of the same      *)
(* process can run: the handlers of a stack overflow, which ecl_bds_bind   *)
(* signals, or an interrupt.  That code binds symbols itself, and inserts  *)
(* them into the table, which can take the entry or move the table to a    *)
(* new array.  mode says what such code does:                              *)
(*   calm      it runs within bindings only, and inserts a symbol only     *)
(*             when the ones being bound have entries and the table need   *)
(*             not grow;                                                   *)
(*   overflow  it runs within bindings only, and always returns;           *)
(*   free      anything, and symbols are bound to no value as well.        *)
(***************************************************************************)
EXTENDS EclHash

CONSTANTS
    Process,
    Value,
    Shared,
    Modes,
    InitialSize,    \* bound: the size of a new table (1024 in the code)
    MaxDepth,       \* bound, in each mode: the slots of each process' stack
    MaxNest,        \* bound, in each mode: operations of one process within another
    Setters,        \* bound, in each mode: the processes that assign
    MaxSize         \* bound: the size of a table

Symbol == Key

ASSUME BindingAssumption ==
    /\ {OBJNULL, Shared} \cap Value = {} /\ Shared # OBJNULL
    /\ Modes \subseteq {"calm", "overflow", "free"}
    /\ InitialSize \in Nat \ {0, 1}
    /\ MaxDepth \in [Modes -> [Process -> Nat]]
    /\ MaxNest \in [Modes -> Nat] /\ MaxSize \in Nat
    /\ Setters \in [Modes -> SUBSET Process]

VARIABLES
    mode,
    global,     \* symbol.value
    dynamic,    \* symbol.dynamic
    old,        \* the arrays the table of each process had before
    table,      \* env->bindings_hash
    mem,        \* env->bds_org: the slots, those above the top included
    top,        \* env->bds_top
    within      \* the operations each process is in, the innermost last

vars == <<mode, global, dynamic, old, table, mem, top, within>>

Blank == [symbol |-> OBJNULL, value |-> OBJNULL]

Init ==
    /\ mode \in Modes
    /\ global \in [Symbol -> Value \cup {OBJNULL}]
    /\ dynamic = [s \in Symbol |-> FALSE]
    /\ old = [p \in Process |-> <<>>]
    /\ table = [p \in Process |-> make_hash_table(InitialSize)]
    /\ mem = [p \in Process |-> [i \in 1 .. MaxDepth[mode][p] |-> Blank]]
    /\ top = [p \in Process |-> 0]
    /\ within = [p \in Process |-> <<>>]

(* An entry of a table, as a pointer into one of its arrays.               *)
Pointer(p, s) ==
    [array |-> Len(old[p]) + 1, index |-> ecl_search_hash(s, table[p])]

Array(p, n) == IF n > Len(old[p]) THEN table[p].data ELSE old[p][n]

Innermost(p) == within[p][Len(within[p])]

(* The code that runs is not what an operation was interrupted by, or it   *)
(* is, in the operations and with the symbols the mode allows.             *)
MayRun(p) ==
    within[p] # <<>> => mode = "free" \/ Innermost(p).op # "unwind"

MayInsert(p, s) ==
    \/ within[p] = <<>> \/ mode # "calm"
    \/ Present(s, table[p])
    \/ /\ ~Full(table[p])
       /\ \A i \in DOMAIN within[p] : Present(within[p][i].symbol, table[p])

(* ecl_bds_bind and ecl_bds_push, up to the use of the entry; ecl_progv    *)
(* binds symbols for which it has no value to OBJNULL.                     *)
Begin(p, op, s, v) ==
    /\ MayRun(p) /\ MayInsert(p, s)
    /\ Len(within[p]) < MaxNest[mode] /\ top[p] < MaxDepth[mode][p]
    /\ Pointer(p, s).index < table[p].size
    /\ top' = [top EXCEPT ![p] = @ + 1]
    /\ within' = [within EXCEPT ![p] = Append(@,
                    [op |-> op, symbol |-> s, value |-> v, h |-> Pointer(p, s),
                     slot |-> top[p] + 1])]
    /\ UNCHANGED <<mode, global, dynamic, old, table, mem>>

ecl_bds_bind(p, s, v) ==
    /\ v = OBJNULL => mode = "free"
    /\ Begin(p, "bind", s, v)

ecl_bds_push(p, s) ==
    /\ ~Present(s, table[p]) /\ global[s] = OBJNULL => mode = "free"
    /\ Begin(p, "push", s, OBJNULL)

(* The operation the process is in uses its entry; what ran within it has  *)
(* undone its own bindings.                                                *)
Resumes(p, op, depth) ==
    /\ within[p] # <<>> /\ Innermost(p).op = op /\ top[p] = depth

(* An operation ends.  The arrays nobody points to any more are garbage.   *)
Leave(p, arrays) ==
    /\ within' = [within EXCEPT ![p] = SubSeq(@, 1, Len(@) - 1)]
    /\ old' = [old EXCEPT ![p] = IF Len(within[p]) = 1 THEN <<>> ELSE arrays]

(* Writing an entry through a pointer to it.                               *)
Write(p, h, entry) ==
    IF h.array > Len(old[p])
    THEN /\ table' = [table EXCEPT ![p].data[h.index] = entry]
         /\ Leave(p, old[p])
    ELSE /\ Leave(p, [old[p] EXCEPT ![h.array][h.index] = entry])
         /\ UNCHANGED table

(* ecl_sethash; the array it replaces remains for those who point to it.   *)
SetHash(p, s, v) ==
    LET grown == ecl_sethash(s, table[p], v).size # table[p].size
    IN /\ \E i \in DOMAIN table[p].data : table[p].data[i].key = OBJNULL
       /\ grown => (3 * table[p].size + 1) \div 2 <= MaxSize
       /\ table' = [table EXCEPT ![p] = ecl_sethash(s, @, v)]
       /\ Leave(p, IF grown THEN Append(old[p], table[p].data) ELSE old[p])

UseEntry(p, op) ==
    LET w == Innermost(p)
        h == Array(p, w.h.array)[w.h.index]
    IN /\ Resumes(p, op, w.slot)
       /\ IF h.key = OBJNULL
          THEN /\ mem' = [mem EXCEPT ![p][w.slot] =
                                [symbol |-> w.symbol, value |-> global[w.symbol]]]
               /\ SetHash(p, w.symbol, IF op = "push" THEN global[w.symbol] ELSE w.value)
          ELSE /\ mem' = [mem EXCEPT ![p][w.slot] = [symbol |-> h.key, value |-> h.value]]
               /\ Write(p, w.h, IF op = "push" THEN h ELSE [h EXCEPT !.value = w.value])
       /\ dynamic' = [dynamic EXCEPT ![w.symbol] = TRUE]
       /\ UNCHANGED <<mode, global, top>>

BindEntry(p) == UseEntry(p, "bind")

PushEntry(p) == UseEntry(p, "push")

(* ecl_bds_unwind1: the top goes down first, and the slot above it is read *)
(* after the search.                                                       *)
ecl_bds_unwind1(p) ==
    LET s == mem[p][top[p]].symbol
    IN /\ MayRun(p)
       /\ Len(within[p]) < MaxNest[mode]
       /\ top[p] > (IF within[p] = <<>> THEN 0
                    ELSE IF Innermost(p).op = "unwind" THEN Innermost(p).slot - 1
                    ELSE Innermost(p).slot)
       /\ Pointer(p, s).index < table[p].size
       /\ top' = [top EXCEPT ![p] = @ - 1]
       /\ within' = [within EXCEPT ![p] = Append(@,
                        [op |-> "unwind", symbol |-> s, value |-> OBJNULL,
                         h |-> Pointer(p, s), slot |-> top[p]])]
       /\ UNCHANGED <<mode, global, dynamic, old, table, mem>>

DeleteThrough(p, h) ==
    IF h.array > Len(old[p])
    THEN /\ table' = [table EXCEPT ![p] = DeleteEntry(h.index, @)]
         /\ Leave(p, old[p])
    ELSE /\ table' = [table EXCEPT ![p].entries = (@ - 1) % Word]
         /\ Leave(p, [old[p] EXCEPT ![h.array][h.index] = [key |-> OBJNULL, value |-> Cnil]])

(* Mutant: the entry stays when there is nothing to put back.              *)
UnwindEntry_Kept(p) ==
    LET w == Innermost(p)
        v == mem[p][w.slot].value
        h == Array(p, w.h.array)[w.h.index]
    IN /\ Resumes(p, "unwind", w.slot - 1)
       /\ Write(p, w.h, IF v = OBJNULL THEN h ELSE [h EXCEPT !.value = v])
       /\ UNCHANGED <<mode, global, dynamic, mem, top>>

UnwindEntry(p) ==
    LET w == Innermost(p)
        v == mem[p][w.slot].value
        h == Array(p, w.h.array)[w.h.index]
    IN /\ Resumes(p, "unwind", w.slot - 1)
       /\ IF v = OBJNULL THEN DeleteThrough(p, w.h)
          ELSE Write(p, w.h, [h EXCEPT !.value = v])
       /\ UNCHANGED <<mode, global, dynamic, mem, top>>

(* The code within an operation does not return to it: the slot of a       *)
(* binding stays on the stack as it was found, what an unbinding was to    *)
(* put back is lost.                                                       *)
NonLocalExit(p) ==
    /\ mode = "free"
    /\ within[p] # <<>>
    /\ Leave(p, old[p])
    /\ UNCHANGED <<mode, global, dynamic, table, mem, top>>

(* ecl_set_symbol (ECL_SETQ), as cl_set and SETQ use it.                   *)
ecl_set_symbol(p, s, v) ==
    LET i == ecl_search_hash(s, table[p])
    IN /\ p \in Setters[mode]
       /\ IF dynamic[s] /\ Present(s, table[p])
          THEN table' = [table EXCEPT ![p].data[i].value = v] /\ UNCHANGED global
          ELSE global' = [global EXCEPT ![s] = v] /\ UNCHANGED table
       /\ UNCHANGED <<mode, dynamic, old, mem, top, within>>

(* cl_makunbound: the global value, whoever has bound the symbol.          *)
cl_makunbound(s) ==
    /\ Setters[mode] # {}
    /\ mode = "free" \/ \A p \in Process, i \in 1 .. MaxNest[mode] :
          i \in DOMAIN within[p] => <<"push", s>> # <<within[p][i].op, within[p][i].symbol>>
    /\ global' = [global EXCEPT ![s] = OBJNULL]
    /\ UNCHANGED <<mode, dynamic, old, table, mem, top, within>>

(* ecl_symbol_slot: what a process sees of a symbol.                       *)
ecl_symbol_slot(p, s) ==
    IF dynamic[s] /\ Present(s, table[p])
    THEN table[p].data[ecl_search_hash(s, table[p])].value
    ELSE global[s]

Next ==
    \/ \E p \in Process :
          \/ BindEntry(p) \/ PushEntry(p)
          \/ ecl_bds_unwind1(p) \/ UnwindEntry(p)
          \/ NonLocalExit(p)
          \/ \E s \in Symbol :
                \/ ecl_bds_push(p, s)
                \/ \E v \in Value \cup {OBJNULL} : ecl_bds_bind(p, s, v)
                \/ \E v \in Value : ecl_set_symbol(p, s, v)
    \/ \E s \in Symbol : cl_makunbound(s)

Spec == Init /\ [][Next]_vars

-----------------------------------------------------------------------------

Entry == [key : Symbol \cup {OBJNULL}, value : Value \cup {OBJNULL, Cnil}]

(* The types of the state: arrays of entries, slots of the binding stack   *)
(* and the bindings a process is in the middle of.                         *)
BindingTypeOK ==
    /\ mode \in Modes
    /\ global \in [Symbol -> Value \cup {OBJNULL}]
    /\ dynamic \in [Symbol -> BOOLEAN]
    /\ \A p \in Process :
          /\ table[p].data \in [0 .. table[p].size - 1 -> Entry]
          /\ table[p].entries \in 0 .. Word - 1
          /\ \A i \in DOMAIN old[p] : Range(old[p][i]) \subseteq Entry
          /\ top[p] \in 0 .. MaxDepth[mode][p]
          /\ mem[p] \in [1 .. MaxDepth[mode][p] ->
                [symbol : Symbol \cup {OBJNULL}, value : Value \cup {OBJNULL, Cnil}]]
          /\ \A i \in DOMAIN within[p] :
                LET w == within[p][i]
                IN /\ w.op \in {"bind", "push", "unwind"}
                   /\ w.slot \in 1 .. MaxDepth[mode][p]
                   /\ w.h.array \in 1 .. Len(old[p]) + 1
                   /\ w.h.index \in DOMAIN Array(p, w.h.array)

(* Bindings keep the table they are in well formed as long as symbols are  *)
(* bound to values and nothing interrupts an unbinding, even when the      *)
(* handlers of a stack overflow move the table while a binding holds a     *)
(* pointer into it (ecl_bds_bind, ecl_bds_unwind1, ecl_sethash): every     *)
(* search and every insertion ends, and finds the entry there is.          *)
(* Whatever happens within them, pointers into a table stay inside their   *)
(* array.                                                                  *)
TableOK ==
    /\ BindingTypeOK
    /\ mode # "free" => \A p \in Process : WellFormed(table[p])

=============================================================================
