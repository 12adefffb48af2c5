------------------------------- MODULE GcHeap -------------------------------
(***************************************************************************)
(* The Boehm collector (src/bdwgc) as the Lisp runtime uses it: small      *)
(* objects in heap blocks, marking with a mark stack that can overflow,    *)
(* collections done at one go or piece by piece while the program runs,    *)
(* page protection as the write barrier, and lazy sweeping (mark.c,        *)
(* alloc.c, reclaim.c, malloc.c, new_hblk.c, the dirty bits of os_dep.c).  *)
(*                                                                         *)
(* The collector runs with the allocation lock held: pc says what the      *)
(* holder is doing.  Program threads go on reading and writing objects     *)
(* whenever the world is not stopped (pc # "mark"), and allocate or free   *)
(* only when nobody holds the lock (pc = "idle").                          *)
(***************************************************************************)
EXTENDS Naturals, FiniteSets

CONSTANTS
  Obj,            \* places for small objects
  Reg,            \* roots: registers and stack slots of the threads
  Nil,            \* no object
  NBlocks,        \* heap blocks are 1 .. NBlocks, in address order
  BlockOf,        \* the block of every object
  UncBlocks,      \* blocks used for GC_malloc_uncollectable
  InPlace,        \* blocks GC_push_marked scans on the spot (GC_push_marked1..4)
  Fields,         \* how many pointers an object of a block can hold
  Modes,          \* may GC_incremental be set, may it be clear
  StopFuncs,      \* kinds of stop functions GC_try_to_collect is called with
  InitialStack,   \* INITIAL_MARK_STACK_SIZE
  MaxStack        \* bound: the mark stack is not grown beyond it

Block == 1 .. NBlocks

ASSUME ObjAssumption == Nil \notin Obj /\ IsFiniteSet(Obj)

ASSUME BlockAssumption ==
  /\ NBlocks \in Nat
  /\ BlockOf \in [Obj -> Block]
  /\ UncBlocks \subseteq Block
  /\ InPlace \subseteq Block
  /\ Fields \in [Block -> Nat]

ASSUME ModeAssumption == Modes \subseteq BOOLEAN /\ StopFuncs \subseteq {"stop", "never"}

ASSUME StackAssumption == InitialStack \in Nat \ {0} /\ MaxStack \in Nat

VARIABLES
  incremental,    \* GC_incremental, with GC_dirty_maintained
  ptr,            \* the objects each object points to
  reg,            \* contents of the roots
  held,           \* uncollectable objects the program has and has not freed
  freelist,       \* objects on the free lists
  freeBlocks,     \* blocks without objects (HBLK_IS_FREE)
  reclaim,        \* blocks on a reclaim list, not yet swept
  marked,         \* objects whose mark bit is set
  stack,          \* objects on the mark stack
  stackSize,      \* GC_mark_stack_size
  tooSmall,       \* GC_mark_stack_too_small
  markState,      \* GC_mark_state
  scanPtr,        \* scan_ptr: 0 is the null pointer
  areMarked,      \* GC_objects_are_marked
  dirty,          \* GC_dirty_pages
  grungy,         \* GC_grungy_pages
  protected,      \* blocks whose page is write-protected
  fault,          \* blocks between UNPROTECT and the dirty bit in a handler
  pc,             \* what the holder of the allocation lock is doing
  caller,         \* who called GC_stopped_mark
  never,          \* its stop function is GC_never_stop_func
  outer,          \* stop function of the GC_try_to_collect_inner in progress
  attempts,       \* GC_n_attempts
  isFull          \* GC_is_full_gc

heapVars == <<ptr, reg, held, freelist, freeBlocks, reclaim>>
markVars == <<marked, stack, stackSize, tooSmall, markState, scanPtr, areMarked>>
pageVars == <<dirty, grungy, protected, fault>>
ctlVars == <<pc, caller, never, outer, attempts, isFull>>
vars == <<incremental, heapVars, markVars, pageVars, ctlVars>>

Objs(b) == {o \in Obj : BlockOf[o] = b}
Unc == {o \in Obj : BlockOf[o] \in UncBlocks}

-----------------------------------------------------------------------------
(* What the program can still get at. *)

RootObjs == {reg[r] : r \in Reg} \ {Nil}

Closed(S, R, p) == R \subseteq S /\ \A o \in S : p[o] \subseteq S

ReachableFrom(R, p) ==
  LET closed == {S \in SUBSET Obj : Closed(S, R, p)}
  IN {o \in Obj : \A S \in closed : o \in S}

Reachable == ReachableFrom(RootObjs \cup held, ptr)

-----------------------------------------------------------------------------
Init ==
  /\ incremental \in Modes
  /\ ptr = [o \in Obj |-> {}]
  /\ reg = [r \in Reg |-> Nil]
  /\ held = {}
  /\ freelist = {}
  /\ freeBlocks = Block
  /\ reclaim = {}
  /\ marked = {}
  /\ stack = {}
  /\ stackSize = InitialStack
  /\ tooSmall = FALSE
  /\ markState = "none"
  /\ scanPtr = 0
  /\ areMarked = FALSE
  /\ dirty = {}
  /\ grungy = {}
  /\ protected = {}
  /\ fault = {}
  /\ pc = "idle"
  /\ caller = "none"
  /\ never = FALSE
  /\ outer = "none"
  /\ attempts = 0
  /\ isFull = FALSE

-----------------------------------------------------------------------------
(* The program. *)

WorldRuns == pc # "mark"

\* A thread copies a root, or a pointer it finds in an object, or forgets one.
Load(r) ==
  /\ WorldRuns
  /\ \E v \in {Nil} \cup RootObjs \cup UNION {ptr[o] : o \in RootObjs \cup held} :
       reg' = [reg EXCEPT ![r] = v]
  /\ UNCHANGED <<incremental, ptr, held, freelist, freeBlocks, reclaim,
                 markVars, pageVars, ctlVars>>

\* The program writes to an object it can get at directly.  A write to a
\* protected page faults first.
Writable(o) == BlockOf[o] \notin protected

Store(o) ==
  /\ WorldRuns
  /\ o \in RootObjs \cup held
  /\ Writable(o)
  /\ \E v \in SUBSET (ptr[o] \cup RootObjs) :
       /\ Cardinality(v) <= Fields[BlockOf[o]]
       /\ ptr' = [ptr EXCEPT ![o] = v]
  /\ UNCHANGED <<incremental, reg, held, freelist, freeBlocks, reclaim,
                 markVars, pageVars, ctlVars>>

\* GC_write_fault_handler, up to and including UNPROTECT.
WriteFault(b) ==
  /\ WorldRuns
  /\ b \in protected
  /\ Objs(b) \cap (RootObjs \cup held \cup freelist) # {}
  /\ protected' = protected \ {b}
  /\ fault' = fault \cup {b}
  /\ UNCHANGED <<incremental, heapVars, markVars, dirty, grungy, ctlVars>>

WriteFaultDone_NotDirty(b) ==
  /\ WorldRuns
  /\ b \in fault
  /\ fault' = fault \ {b}
  /\ UNCHANGED <<incremental, heapVars, markVars, dirty, grungy, protected, ctlVars>>

\* The rest of the handler: the dirty bit.
WriteFaultDone(b) ==
  /\ WorldRuns
  /\ b \in fault
  /\ fault' = fault \ {b}
  /\ dirty' = dirty \cup {b}
  /\ UNCHANGED <<incremental, heapVars, markVars, grungy, protected, ctlVars>>

\* GC_malloc and GC_malloc_uncollectable with an object on the free list; the
\* link word of the object is cleared.
Malloc(r, o) ==
  /\ pc = "idle"
  /\ o \in freelist
  /\ Writable(o)
  /\ freelist' = freelist \ {o}
  /\ reg' = [reg EXCEPT ![r] = o]
  /\ held' = IF o \in Unc THEN held \cup {o} ELSE held
  /\ UNCHANGED <<incremental, ptr, freeBlocks, reclaim, markVars, pageVars, ctlVars>>

\* GC_free of an object nothing else refers to: the mark bit stays.
Free(r) ==
  LET o == reg[r]
  IN /\ pc = "idle"
     /\ o # Nil
     /\ Writable(o)
     /\ reg' = [reg EXCEPT ![r] = Nil]
     /\ held' = held \ {o}
     /\ ptr' = [ptr EXCEPT ![o] = {}]
     /\ o \notin Reachable'
     /\ freelist' = freelist \cup {o}
     /\ UNCHANGED <<incremental, freeBlocks, reclaim, markVars, pageVars, ctlVars>>

-----------------------------------------------------------------------------
(* Sweeping and block allocation (allocation lock held). *)

RemoveProtection_NotDirty(S) ==
  /\ UNCHANGED dirty
  /\ protected' = protected \ S

\* GC_remove_protection: nothing is protected, or dirty, without dirty bits.
RemoveProtection(S) ==
  /\ dirty' = IF incremental THEN dirty \cup S ELSE dirty
  /\ protected' = protected \ S

\* GC_reclaim_small_nonempty_block for every block of S: unmarked objects are
\* cleared and put on the free list; all mark bits of an uncollectable block
\* are set again.
ReclaimBlocks(S) ==
  LET found == {o \in Obj : BlockOf[o] \in S /\ o \notin marked}
  IN /\ RemoveProtection(S)
     /\ freelist' = freelist \cup found
     /\ ptr' = [o \in Obj |-> IF o \in found THEN {} ELSE ptr[o]]

SweptMarks(S) == marked \cup {o \in Unc : BlockOf[o] \in S}

\* GC_continue_reclaim: the next block of the reclaim list.
ContinueReclaim(b) ==
  /\ pc = "idle"
  /\ b \in reclaim
  /\ ReclaimBlocks({b})
  /\ marked' = SweptMarks({b})
  /\ reclaim' = reclaim \ {b}
  /\ UNCHANGED <<incremental, reg, held, freeBlocks, stack, stackSize, tooSmall,
                 markState, scanPtr, areMarked, grungy, fault, ctlVars>>

\* GC_new_hblk: the objects of a free block make a new free list.
NewHblk(b) ==
  /\ pc = "idle"
  /\ b \in freeBlocks
  /\ RemoveProtection({b})
  /\ freeBlocks' = freeBlocks \ {b}
  /\ freelist' = freelist \cup Objs(b)
  /\ ptr' = [o \in Obj |-> IF o \in Objs(b) THEN {} ELSE ptr[o]]
  /\ marked' = IF b \in UncBlocks THEN marked \cup Objs(b) ELSE marked \ Objs(b)
  /\ UNCHANGED <<incremental, reg, held, reclaim, stack, stackSize, tooSmall,
                 markState, scanPtr, areMarked, grungy, fault, ctlVars>>

-----------------------------------------------------------------------------
(* Marking. *)

ClearMarks_Missing(m) ==
  /\ marked' = m
  /\ areMarked' = FALSE
  /\ markState' = "invalid"
  /\ scanPtr' = 0

\* GC_clear_marks: the marks of uncollectable objects stay.
ClearMarks(m) ==
  /\ marked' = m \cap Unc
  /\ areMarked' = FALSE
  /\ markState' = "invalid"
  /\ scanPtr' = 0

PushObjs_Forgotten(base, new, ok, small) ==
  \E S \in SUBSET (base \cup new) :
    /\ Cardinality(S) <= stackSize'
    /\ S = base \cup new \/ Cardinality(base \cup new) > stackSize'
    /\ stack' = S
    /\ markState' = ok
    /\ tooSmall' = small

\* Push the objects of new over what is left of the stack, base.  On overflow
\* entries are discarded and the mark state becomes invalid
\* (GC_signal_mark_stack_overflow); otherwise the state is ok.
PushObjs(base, new, ok, small) ==
  LET fits(S) == Cardinality(S) <= stackSize'
  IN \/ /\ fits(base \cup new)
        /\ stack' = base \cup new
        /\ markState' = ok
        /\ tooSmall' = small
     \/ /\ ~ fits(base \cup new)
        /\ \E S \in SUBSET (base \cup new) :
             /\ fits(S)
             /\ Cardinality(S) + InitialStack \div 8 >= stackSize'
             /\ stack' = S
        /\ markState' = "invalid"
        /\ tooSmall' = TRUE

\* Mark the unmarked objects of S and push them (PUSH_CONTENTS); a pointer to
\* a free block is not followed (GC_header_cache_miss).
PushContents(base, S, ok, small) ==
  LET valid == {o \in S : BlockOf[o] \notin freeBlocks}
  IN /\ PushObjs(base, valid \ marked, ok, small)
     /\ marked' = marked \cup valid

\* GC_mark_from, one object of the mark stack.
MarkFrom(small) ==
  /\ UNCHANGED <<stackSize, scanPtr>>
  /\ areMarked' = TRUE
  /\ \E o \in stack : PushContents(stack \ {o}, ptr[o], markState, small)

\* GC_push_marked: the marked objects of block b, or, for small sizes, what
\* they point to.
PushMarked(b, ok, small) ==
  LET S == Objs(b) \cap marked
  IN /\ IF b \in InPlace
        THEN PushContents(stack, UNION {ptr[o] : o \in S}, ok, small)
        ELSE PushObjs(stack, S, ok, small) /\ UNCHANGED marked
     /\ areMarked' = (areMarked \/ S # {})

PushNext_Again(S, ok, small) ==
  \E b \in S \ freeBlocks :
    /\ b >= scanPtr
    /\ \A c \in S \ freeBlocks : c >= scanPtr => b <= c
    /\ PushMarked(b, ok, small)
    /\ scanPtr' = b

\* GC_push_next_marked and its variants: push the first block at or after the
\* scan pointer that is in use and is in S.
PushNext(S, ok, small) ==
  \E b \in S \ freeBlocks :
    /\ b >= scanPtr
    /\ \A c \in S \ freeBlocks : c >= scanPtr => b <= c
    /\ PushMarked(b, ok, small)
    /\ scanPtr' = b + 1

NoneLeft(S) == \A c \in S \ freeBlocks : c < scanPtr

\* GC_push_roots: with the world running some roots may be missed.
PushRoots(small) ==
  /\ \E R \in SUBSET RootObjs :
       /\ WorldRuns \/ R = RootObjs
       /\ PushContents(stack, R, "roots_pushed", small)
  /\ scanPtr' = 0
  /\ areMarked' = TRUE

\* alloc_mark_stack(2 * size), when the stack was found too small; it may
\* silently fail.
GrowStack ==
  stackSize' \in IF tooSmall /\ 2 * stackSize <= MaxStack
                 THEN {stackSize, 2 * stackSize} ELSE {stackSize}

Depth == Cardinality(stack)

\* The cases of GC_mark_some, without the one that ends a mark phase.
MarkRescuers ==
  /\ markState = "push_rescuers"
  /\ \/ Depth > stackSize - InitialStack \div 2 /\ MarkFrom(TRUE)
     \/ /\ Depth <= stackSize - InitialStack \div 2
        /\ UNCHANGED stackSize
        /\ \/ PushNext(grungy, markState, tooSmall)
           \/ NoneLeft(grungy) /\ PushRoots(tooSmall)

MarkUncollectable ==
  /\ markState = "push_uncollectable"
  /\ \/ Depth > stackSize \div 4 /\ MarkFrom(tooSmall)
     \/ /\ Depth <= stackSize \div 4
        /\ UNCHANGED stackSize
        /\ \/ PushNext(UncBlocks, markState, tooSmall)
           \/ NoneLeft(UncBlocks) /\ PushRoots(tooSmall)

MarkRootsPushed == markState = "roots_pushed" /\ MarkFrom(tooSmall)

\* The scan of the whole heap for marked objects.
HeapScan ==
  LET start == scanPtr = 0 /\ markState = "invalid"
      ok    == IF start THEN "partially_invalid" ELSE markState
      small == tooSmall /\ ~ start
  IN /\ IF start THEN GrowStack ELSE UNCHANGED stackSize
     /\ \/ PushNext(Block, ok, small)
        \/ NoneLeft(Block) /\ ok = "partially_invalid" /\ PushRoots(small)
        \/ /\ NoneLeft(Block)
           /\ ok = "invalid"
           /\ scanPtr' = 0
           /\ UNCHANGED <<marked, stack, tooSmall, markState, areMarked>>

MarkInvalid ==
  /\ markState \in {"invalid", "partially_invalid"}
  /\ \/ /\ ~ areMarked
        /\ markState' = "push_uncollectable"
        /\ UNCHANGED <<marked, stack, stackSize, tooSmall, scanPtr, areMarked>>
     \/ areMarked /\ MarkFrom(tooSmall)
     \/ areMarked /\ stack = {} /\ HeapScan

\* Where a call of GC_collect_a_little_inner returns to.
Home == IF outer = "none" THEN "idle" ELSE "trying"

\* The lock holder marks with the world running (GC_collect_a_little_inner,
\* called by an allocation or by GC_try_to_collect_inner) or stopped.
Marking ==
  \/ pc = "mark" /\ UNCHANGED pc
  \/ incremental /\ pc \in {"idle", "little", "trying"} /\ pc' \in {"little", Home}

GC_mark_some ==
  /\ Marking
  /\ MarkRescuers \/ MarkUncollectable \/ MarkRootsPushed \/ MarkInvalid
  /\ UNCHANGED <<incremental, heapVars, pageVars, caller, never, outer, attempts,
                 isFull>>

\* GC_mark_some returns TRUE: with the world stopped the collection is
\* finished, otherwise the world is stopped for the rest of the marking, the
\* first time (MAX_PRIOR_ATTEMPTS) with a time limit.
MarkDone ==
  /\ markState = "roots_pushed"
  /\ stack = {}
  /\ markState' = "none"
  /\ GrowStack
  /\ tooSmall' = FALSE
  /\ \/ pc = "mark" /\ pc' = "finish" /\ UNCHANGED <<caller, never>>
     \/ /\ incremental
        /\ pc \in {"idle", "little", "trying"}
        /\ pc' = "stop"
        /\ caller' = "little"
        /\ never' = (attempts >= 1)
  /\ UNCHANGED <<incremental, heapVars, marked, stack, scanPtr, areMarked, pageVars,
                 outer, attempts, isFull>>

-----------------------------------------------------------------------------
(* Collections. *)

InProgress == markState # "none"

\* GC_maybe_gc in incremental mode, called by an allocation: a partial
\* collection keeps the marks; a full one sweeps some blocks of the reclaim
\* lists, drops the others, and clears the marks.
GC_maybe_gc ==
  /\ pc = "idle"
  /\ incremental
  /\ ~ InProgress
  /\ pc' = "stop"
  /\ caller' = "maybe"
  /\ \/ /\ UNCHANGED <<heapVars, markVars, dirty, protected, isFull>>
     \/ /\ \E S \in SUBSET reclaim :
             ReclaimBlocks(S) /\ ClearMarks(SweptMarks(S))
        /\ reclaim' = {}
        /\ isFull' = TRUE
        /\ UNCHANGED <<reg, held, freeBlocks, stack, stackSize, tooSmall>>
  /\ UNCHANGED <<incremental, grungy, fault, never, outer, attempts>>

\* GC_try_to_collect_inner, with a stop function or with GC_never_stop_func.
TryToCollect(f) ==
  /\ pc = "idle"
  /\ pc' = "trying"
  /\ outer' = f
  /\ UNCHANGED <<incremental, heapVars, markVars, pageVars, caller, never, attempts,
                 isFull>>

\* The stop function says stop while a collection in progress is finished, or
\* between two blocks of GC_reclaim_all.
TryStopped ==
  /\ pc = "trying"
  /\ outer = "stop"
  /\ (incremental /\ InProgress) \/ reclaim # {}
  /\ pc' = "idle"
  /\ outer' = "none"
  /\ UNCHANGED <<incremental, heapVars, markVars, pageVars, caller, never, attempts,
                 isFull>>

\* GC_reclaim_all, one block.
TryReclaim(b) ==
  /\ pc = "trying"
  /\ ~ (incremental /\ InProgress)
  /\ outer = "stop"
  /\ b \in reclaim
  /\ ReclaimBlocks({b})
  /\ marked' = SweptMarks({b})
  /\ reclaim' = reclaim \ {b}
  /\ UNCHANGED <<incremental, reg, held, freeBlocks, stack, stackSize, tooSmall,
                 markState, scanPtr, areMarked, grungy, fault, ctlVars>>

\* GC_invalidate_mark_state and GC_clear_marks.  A collection that cannot be
\* stopped leaves the reclaim lists as they are.
TryBegin ==
  /\ pc = "trying"
  /\ ~ (incremental /\ InProgress)
  /\ outer = "never" \/ reclaim = {}
  /\ stack' = {}
  /\ ClearMarks(marked)
  /\ isFull' = TRUE
  /\ pc' = "stop"
  /\ caller' = "try"
  /\ never' = (outer = "never")
  /\ UNCHANGED <<incremental, heapVars, stackSize, tooSmall, pageVars, outer, attempts>>

\* GC_stopped_mark: STOP_WORLD, which waits for the fault handlers
\* (SIG_SUSPEND is masked in them), and GC_initiate_gc with GC_read_dirty.
StopWorld ==
  /\ pc = "stop"
  /\ fault = {}
  /\ IF incremental
     THEN /\ grungy' = dirty
          /\ dirty' = {}
          /\ protected' = protected \cup (Block \ freeBlocks)
     ELSE UNCHANGED <<grungy, dirty, protected>>
  /\ pc' = IF markState \in {"none", "invalid"} THEN "mark" ELSE "abort"
  /\ markState' = IF markState = "none" THEN "push_rescuers" ELSE markState
  /\ scanPtr' = 0
  /\ UNCHANGED <<incremental, heapVars, marked, stack, stackSize, tooSmall, areMarked,
                 fault, caller, never, outer, attempts, isFull>>

Abandon_NotCounted ==
  /\ pc = "mark"
  /\ ~ never
  /\ pc' = IF caller = "little" THEN Home ELSE "idle"
  /\ outer' = IF caller = "try" THEN "none" ELSE outer
  /\ IF caller = "try" /\ ~ incremental
     THEN markState' = "invalid" /\ stack' = {}
     ELSE UNCHANGED <<markState, stack>>
  /\ caller' = "none"
  /\ UNCHANGED <<incremental, heapVars, marked, stackSize, tooSmall, scanPtr, areMarked,
                 pageVars, never, attempts, isFull>>

\* The stop function ends the marking before it is complete: START_WORLD, and
\* the caller's way of going on.
Abandon ==
  /\ pc = "mark"
  /\ ~ never
  /\ pc' = IF caller = "little" THEN Home ELSE "idle"
  /\ outer' = IF caller = "try" THEN "none" ELSE outer
  /\ attempts' = IF caller = "little" \/ (caller = "maybe" /\ ~ isFull)
                 THEN attempts + 1 ELSE attempts
  /\ IF caller = "try" /\ ~ incremental
     THEN markState' = "invalid" /\ stack' = {}
     ELSE UNCHANGED <<markState, stack>>
  /\ caller' = "none"
  /\ UNCHANGED <<incremental, heapVars, marked, stackSize, tooSmall, scanPtr, areMarked,
                 pageVars, never, isFull>>

\* GC_finish_collection, the world running again: the marks of objects on free
\* lists are cleared, the free lists emptied, and the blocks in use given up,
\* put on a reclaim list, or, when nearly full, left alone.
NearlyFull(b, m) ==
  Cardinality(Objs(b) \cap m) > (7 * Cardinality(Objs(b))) \div 8

GC_finish_collection ==
  LET m     == marked \ freelist
      used  == Block \ freeBlocks
      empty == {b \in used : Objs(b) \cap m = {}}
  IN /\ pc = "finish"
     /\ marked' = m
     /\ freelist' = {}
     /\ freeBlocks' = freeBlocks \cup empty
     /\ reclaim' = {b \in used \ empty : ~ NearlyFull(b, m)}
     /\ attempts' = 0
     /\ isFull' = FALSE
     /\ pc' = IF caller = "little" THEN Home ELSE "idle"
     /\ outer' = IF caller = "try" THEN "none" ELSE outer
     /\ caller' = "none"
     /\ never' = FALSE
     /\ UNCHANGED <<incremental, ptr, reg, held, stack, stackSize, tooSmall, markState,
                    scanPtr, areMarked, pageVars>>

-----------------------------------------------------------------------------
Program ==
  \/ \E r \in Reg : Load(r) \/ Free(r)
  \/ \E o \in Obj : Store(o)
  \/ \E r \in Reg, o \in Obj : Malloc(r, o)
  \/ \E b \in Block : WriteFault(b) \/ ContinueReclaim(b) \/ NewHblk(b)

Collector ==
  \/ GC_mark_some \/ MarkDone \/ StopWorld \/ Abandon \/ GC_finish_collection
  \/ TryStopped \/ TryBegin
  \/ \E b \in Block : TryReclaim(b)

Calls == GC_maybe_gc \/ \E f \in StopFuncs : TryToCollect(f)

Next == Program \/ Collector \/ Calls \/ \E b \in Block : WriteFaultDone(b)

Spec == Init /\ [][Next]_vars

\* The lock holder goes on with its collection, and a fault handler returns.
FairSpec ==
  /\ Spec
  /\ WF_vars(Collector)
  /\ \A b \in Block : WF_vars(WriteFaultDone(b))

-----------------------------------------------------------------------------
MarkStates == {"none", "push_rescuers", "push_uncollectable", "roots_pushed",
               "partially_invalid", "invalid"}

TypeOK ==
  /\ incremental \in BOOLEAN
  /\ ptr \in [Obj -> SUBSET Obj]
  /\ reg \in [Reg -> Obj \cup {Nil}]
  /\ held \subseteq Unc
  /\ freelist \subseteq Obj
  /\ freeBlocks \subseteq Block
  /\ reclaim \subseteq Block
  /\ marked \subseteq Obj
  /\ stack \subseteq Obj
  /\ stackSize \in Nat
  /\ tooSmall \in BOOLEAN
  /\ markState \in MarkStates
  /\ scanPtr \in Nat
  /\ areMarked \in BOOLEAN
  /\ dirty \subseteq Block
  /\ grungy \subseteq Block
  /\ protected \subseteq Block
  /\ fault \subseteq Block
  /\ pc \in {"idle", "little", "trying", "stop", "mark", "finish", "abort"}
  /\ caller \in {"none", "maybe", "little", "try"}
  /\ never \in BOOLEAN
  /\ outer \in {"none", "stop", "never"}
  /\ attempts \in Nat
  /\ isFull \in BOOLEAN

\* An object the program can still reach is never put on a free list by
\* GC_reclaim_block, and its block is never given up by GC_finish_collection, so
\* GC_malloc never hands out memory that is in use.
LiveKept ==
  \A o \in Reachable : o \notin freelist /\ BlockOf[o] \notin freeBlocks

\* When GC_mark_some has returned TRUE in a stopped world, and until
\* GC_finish_collection is through, every object the program can reach is marked.
MarkComplete == pc = "finish" => Reachable \subseteq marked

\* GC_initiate_gc always finds the mark phase not begun, or just invalidated; it
\* never comes to its ABORT("unexpected state").
NoAbort == pc # "abort"

\* A full collection done at one go with the world stopped (GC_try_to_collect_inner,
\* or GC_maybe_gc) marks nothing the program cannot reach, except the objects of
\* uncollectable blocks: no mark of an earlier collection survives GC_clear_marks.
NothingElseMarked ==
  [][pc = "mark" /\ pc' = "finish" /\ (caller = "try" \/ (caller = "maybe" /\ isFull))
       => marked' \subseteq Reachable \cup Unc]_vars

\* A world stopped by GC_stopped_mark is started again: the marking gets through,
\* or its stop function ends it, overflows of the mark stack included.
WorldRestarts == pc = "mark" ~> WorldRuns

\* A GC_try_to_collect_inner that cannot be stopped returns, even when it finds an
\* incremental collection in progress that is stopped again and again by its time
\* limit (GC_n_attempts against MAX_PRIOR_ATTEMPTS).
CollectReturns == outer = "never" ~> outer = "none"

-----------------------------------------------------------------------------
(* The inductive invariant behind LiveKept, MarkComplete and NoAbort. *)

\* A collection that cannot be stopped has cleared the marks of blocks that are
\* still on the reclaim lists.
MarksCleared == pc \in {"stop", "mark", "finish"} /\ caller = "try" /\ never

Unswept(o) == ~ MarksCleared /\ BlockOf[o] \in reclaim /\ o \notin marked

\* What is on free lists and reclaim lists.
HeapInv ==
  /\ \A o \in Reachable :
       /\ o \notin freelist
       /\ BlockOf[o] \notin freeBlocks
       /\ ~ Unswept(o)
       /\ o \in Unc => o \in held
  /\ \A o \in freelist :
       /\ ptr[o] = {}
       /\ BlockOf[o] \notin freeBlocks
       /\ ~ Unswept(o)
       /\ o \in Unc => o \in marked
  /\ held \subseteq marked
  /\ reclaim \cap freeBlocks = {}

\* A page that can be written is known to be dirty, or will be.
BarrierInv ==
  /\ incremental => Block \ freeBlocks \subseteq protected \cup dirty \cup fault
  /\ ~ incremental => protected \cup dirty \cup fault = {}
  /\ pc = "mark" => dirty \cup fault = {}

\* How the mark state goes with what the lock holder does.
ControlInv ==
  /\ pc # "abort"
  /\ pc = "stop" => markState = "invalid" \/ (incremental /\ markState = "none")
  /\ pc = "mark" => markState # "none"
  /\ pc = "finish" => markState = "none"
  /\ markState = "none" => stack = {}
  /\ markState = "partially_invalid" => areMarked
  /\ Cardinality(stack) <= stackSize

\* The marks are meaningful: not so in a collection given up for good.
MarksMatter == incremental \/ pc \in {"stop", "mark"}

\* What is still to be scanned because the mark state says so.
ToScan(o) ==
  \/ o \in stack
  \/ BlockOf[o] \in dirty \cup fault
  \/ markState = "invalid"
  \/ /\ BlockOf[o] >= scanPtr
     /\ \/ markState = "push_rescuers" /\ BlockOf[o] \in grungy
        \/ markState = "push_uncollectable" /\ o \in Unc
        \/ markState = "partially_invalid"

\* A marked object the program can reach is still to be scanned, or all it
\* points to is marked.
TriColour ==
  MarksMatter => \A o \in marked \cap Reachable : ToScan(o) \/ ptr[o] \subseteq marked

\* When nothing is known to be marked (GC_objects_are_marked), nothing is but
\* uncollectable objects, and the scan begins at the first block.
FreshMarks ==
  MarksMatter /\ markState = "invalid" /\ ~ areMarked => scanPtr = 0 /\ marked \subseteq Unc

\* Roots pushed with the world stopped stay marked.
RootsMarked == pc = "mark" /\ markState = "roots_pushed" => RootObjs \subseteq marked

MarkInv == TriColour /\ FreshMarks /\ RootsMarked /\ MarkComplete

\* The inductive invariant: types, free lists, write barrier, control and marks of
\* GC_mark_some, GC_stopped_mark, GC_finish_collection and the program together.
Inv == TypeOK /\ HeapInv /\ BarrierInv /\ ControlInv /\ MarkInv

=============================================================================
