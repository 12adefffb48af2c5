---------------------------- MODULE EclStackSize ----------------------------
(***************************************************************************)
(* How the binding stack and the frame stack of a process grow (stacks.d). *)
(*                                                                         *)
(* A stack has an array of size slots and a limit 2*margin below its end.  *)
(* Pushing at the limit raises the limit by one margin, so that there is   *)
(* room for handlers, and signals a continuable error: continuing moves    *)
(* the stack to a larger array, aborting unwinds it.  The slot of the push *)
(* that overflowed is already part of the stack while the error is being   *)
(* handled, and has not been written yet (Junk).                           *)
(***************************************************************************)
EXTENDS Integers, Sequences

CONSTANTS
    Kinds,      \* the stacks looked at: "bds", "frs" or both
    Base,       \* ECL_OPT_BIND_STACK_SIZE, ECL_OPT_FRAME_STACK_SIZE
    Margin,     \* ECL_OPT_..._STACK_SAFETY_AREA
    Tag,        \* what is pushed
    Junk,
    MaxSize,    \* bound on the size a stack is extended to
    MaxErrors,  \* bound on overflow errors within overflow errors
    Limits      \* the sizes given to ext:set-limit for each of them

ASSUME StackAssumption ==
    /\ Kinds \subseteq {"bds", "frs"}
    /\ Base \in Nat /\ Base >= 2
    /\ Margin \in Nat
    /\ Junk \notin Tag
    /\ MaxSize \in Nat /\ MaxErrors \in Nat
    /\ Limits \in [Kinds -> SUBSET Nat]

VARIABLES
    kind,       \* which of the two stacks of the process this is
    items,      \* the slots up to the top
    size, limit,
    errors,     \* the overflow errors being handled, innermost last
    dead        \* ecl_internal_error has ended the program

vars == <<kind, items, size, limit, errors, dead>>

(* init_stacks.                                                            *)
StackInit ==
    /\ kind \in Kinds
    /\ items = <<>>
    /\ size = Base + 2 * Margin
    /\ limit = Base
    /\ errors = <<>>
    /\ dead = FALSE

(* ecl_bds_bind and ecl_bds_push, _ecl_frs_push: the top goes up first.    *)
Push(v) ==
    /\ ~dead
    /\ Len(items) < limit
    /\ items' = Append(items, v)
    /\ UNCHANGED <<size, limit, errors, dead>>

(* Mutant: whether the array has an end is not tested.                     *)
Overflow_NoTest(v) ==
    /\ ~dead
    /\ Len(items) >= limit /\ Len(errors) < MaxErrors
    /\ limit' = limit + Margin
    /\ items' = Append(items, Junk)
    /\ errors' = Append(errors, [len |-> Len(items) + 1, size |-> size, v |-> v])
    /\ UNCHANGED <<size, dead>>

(* ecl_bds_overflow, frs_overflow up to the call of cl_cerror.             *)
Overflow(v) ==
    /\ ~dead
    /\ Len(items) >= limit
    /\ IF limit >= size
       THEN dead' = TRUE /\ UNCHANGED <<items, size, limit, errors>>
       ELSE /\ Len(errors) < MaxErrors
            /\ limit' = limit + Margin
            /\ items' = Append(items, Junk)
            /\ errors' = Append(errors, [len |-> Len(items) + 1, size |-> size, v |-> v])
            /\ UNCHANGED <<size, dead>>

(* Mutant: the binding stack is copied the way the frame stack is.         *)
SetSize_CopiesTop(n, stack) ==
    /\ n > 0
    /\ size' = n
    /\ limit' = n - 2 * Margin
    /\ items' = SubSeq(stack, Len(stack), Len(stack))

(* ecl_bds_set_size copies the stack; frs_set_size takes the top for the   *)
(* origin of the old array, so that it copies one frame.                   *)
SetSize(n, stack) ==
    IF kind = "bds"
    THEN /\ n > Len(stack) - 1
         /\ size' = n
         /\ limit' = n - 2 * Margin
         /\ items' = stack
    ELSE /\ n > 0
         /\ size' = n + 2 * Margin
         /\ limit' = n
         /\ items' = SubSeq(stack, Len(stack), Len(stack))

LastError == errors[Len(errors)]
Floor == IF errors = <<>> THEN 0 ELSE LastError.len

(* Mutant: the slot of the old array is written.                           *)
Extend_WritesOldSlot ==
    LET e == LastError
        n == e.size + e.size \div 2
    IN  /\ ~dead
        /\ errors # <<>> /\ Len(items) = e.len
        /\ n <= MaxSize
        /\ SetSize(n, items)
        /\ errors' = SubSeq(errors, 1, Len(errors) - 1)
        /\ UNCHANGED dead

(* The error is continued: the stack is extended and the push completed.   *)
Extend ==
    LET e == LastError
        n == e.size + e.size \div 2
    IN  /\ ~dead
        /\ errors # <<>> /\ Len(items) = e.len
        /\ n <= MaxSize
        /\ SetSize(n, [items EXCEPT ![Len(items)] = e.v])
        /\ errors' = SubSeq(errors, 1, Len(errors) - 1)
        /\ UNCHANGED dead

(* ecl_bds_unwind1, ecl_frs_pop.                                           *)
Pop ==
    /\ ~dead
    /\ Len(items) > Floor
    /\ items' = SubSeq(items, 1, Len(items) - 1)
    /\ UNCHANGED <<size, limit, errors, dead>>

(* ecl_unwind to a frame at level k; the errors signalled above it are   *)
(* abandoned, and the limit stays where they left it.                      *)
Unwind(k) ==
    /\ ~dead
    /\ k < Len(items)
    /\ items' = SubSeq(items, 1, k)
    /\ \E j \in 0 .. Len(errors) :
           /\ \A i \in 1 .. j : errors[i].len <= k
           /\ j < Len(errors) => errors[j + 1].len > k
           /\ errors' = SubSeq(errors, 1, j)
    /\ UNCHANGED <<size, limit, dead>>

(* (ext:set-limit ...), called by code that runs inside some frame.        *)
SetLimit(n) ==
    /\ ~dead
    /\ items # <<>>
    /\ n <= MaxSize
    /\ SetSize(n, items)
    /\ UNCHANGED <<errors, dead>>

StackNext ==
    /\ \/ \E v \in Tag : Push(v) \/ Overflow(v)
       \/ Extend \/ Pop
       \/ \E k \in 0 .. Len(items) - 1 : Unwind(k)
       \/ \E n \in Limits[kind] : SetLimit(n)
    /\ UNCHANGED kind

StackSpec == StackInit /\ [][StackNext]_vars

-----------------------------------------------------------------------------
(* The limit is two, one or no margin below the end of the array.          *)
StackTypeOK ==
    /\ kind \in Kinds
    /\ items \in Seq(Tag \cup {Junk})
    /\ size \in Nat /\ limit \in {size - 2 * Margin, size - Margin, size}
    /\ errors \in Seq([len : Nat, size : Nat, v : Tag])
    /\ dead \in BOOLEAN

(* The top is inside the array, even while an overflow is handled: no push *)
(* writes, and no extension copies, beyond the end.  The program dies of   *)
(* an overflow only when the array is really full.                         *)
TopInArray ==
    /\ Len(items) <= size
    /\ dead => Len(items) = size

(* The only unwritten slots of the binding stack are those of the          *)
(* overflow errors being handled (ecl_bds_overflow, ecl_bds_push).         *)
JunkIsPending ==
    kind = "bds" =>
        \A i \in DOMAIN items : items[i] = Junk =>
            \E j \in DOMAIN errors : errors[j].len = i

(* The overflowing push is completed on top of everything that was there.  *)
PushedOnTop ==
    /\ Len(items') = Len(items)
    /\ \A i \in 1 .. Len(items) - 1 : items'[i] = items[i]

(* Extending the binding stack loses no binding (ecl_bds_set_size).        *)
ExtendKeepsBindings == [][Extend /\ kind = "bds" => PushedOnTop]_vars

(* "Extend stack size" continues the computation with the frames it had    *)
(* (frs_overflow, frs_set_size).                                           *)
ExtendKeepsFrames == [][Extend /\ kind = "frs" => PushedOnTop]_vars
=============================================================================
