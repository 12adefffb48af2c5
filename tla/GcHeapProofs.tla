---------------------------- MODULE GcHeapProofs ----------------------------
(***************************************************************************)
(* Proofs about GcHeap: no object the program can reach is ever put on a   *)
(* free list, for every number of objects, blocks and roots, every size of *)
(* the mark stack, every interleaving of the program, the write-fault      *)
(* handler and the collector.                                              *)
(***************************************************************************)
EXTENDS GcHeap, FiniteSetTheorems, TLAPS

-----------------------------------------------------------------------------
(* Reachability. *)

\* What is reachable is itself closed: it holds the roots and all they lead to.
LEMMA ReachableClosed ==
  ASSUME NEW R \in SUBSET Obj, NEW p \in [Obj -> SUBSET Obj]
  PROVE  /\ ReachableFrom(R, p) \in SUBSET Obj
         /\ Closed(ReachableFrom(R, p), R, p)
BY DEF ReachableFrom, Closed

\* It is the least such set.
LEMMA ReachableLeast ==
  ASSUME NEW R, NEW p, NEW S \in SUBSET Obj, Closed(S, R, p)
  PROVE  ReachableFrom(R, p) \subseteq S
BY DEF ReachableFrom

\* The roots, the objects held and everything a reachable object points to are
\* reachable.
LEMMA ReachableFacts ==
  ASSUME TypeOK
  PROVE  /\ Reachable \subseteq Obj
         /\ RootObjs \subseteq Reachable
         /\ held \subseteq Reachable
         /\ \A o \in Reachable : ptr[o] \subseteq Reachable
<1>1. RootObjs \cup held \in SUBSET Obj
  BY DEF TypeOK, RootObjs, Unc
<1>2. ptr \in [Obj -> SUBSET Obj]
  BY DEF TypeOK
<1>3. QED
  BY <1>1, <1>2, ReachableClosed DEF Reachable, Closed

\* The reachable objects after a step lie in any set that is closed then.
LEMMA ReachableAfter ==
  ASSUME NEW T \in SUBSET Obj,
         RootObjs' \subseteq T, held' \subseteq T,
         \A o \in T : ptr'[o] \subseteq T
  PROVE  Reachable' \subseteq T
<1>1. Closed(T, (RootObjs \cup held)', ptr')
  BY DEF Closed
<1>2. ReachableFrom((RootObjs \cup held)', ptr') \subseteq T
  BY <1>1, ReachableLeast
<1>3. QED
  BY <1>2 DEF Reachable

-----------------------------------------------------------------------------
(* What the operators of the marker do. *)

\* What PushObjs leaves on the mark stack: everything, unless it overflowed.
LEMMA PushObjsFacts ==
  ASSUME NEW base, NEW new, NEW ok, NEW small, PushObjs(base, new, ok, small)
  PROVE  /\ stack' \subseteq base \cup new
         /\ markState' \in {ok, "invalid"}
         /\ markState' # "invalid" => stack' = base \cup new
         /\ tooSmall' \in {small, TRUE}
         /\ Cardinality(stack') <= stackSize'
BY DEF PushObjs

\* What a push of unmarked objects (PUSH_CONTENTS) does to stack and marks.
LEMMA PushContentsFacts ==
  ASSUME TypeOK, NEW base \in SUBSET Obj, NEW S \in SUBSET Obj, NEW ok, NEW small,
         PushContents(base, S, ok, small)
  PROVE  /\ stack' \subseteq Obj
         /\ markState' \in {ok, "invalid"}
         /\ tooSmall' \in {small, TRUE}
         /\ Cardinality(stack') <= stackSize'
         /\ marked \subseteq marked'
         /\ marked' \subseteq Obj
         /\ \A o \in S : BlockOf[o] \notin freeBlocks => o \in marked'
         /\ markState' # "invalid" => base \subseteq stack' /\ marked' \subseteq marked \cup stack'
<1> DEFINE valid == {o \in S : BlockOf[o] \notin freeBlocks}
<1>1. PushObjs(base, valid \ marked, ok, small) /\ marked' = marked \cup valid
  BY DEF PushContents
<1>2. marked \subseteq Obj
  BY DEF TypeOK
<1>3. /\ stack' \subseteq base \cup (valid \ marked)
      /\ markState' \in {ok, "invalid"}
      /\ markState' # "invalid" => stack' = base \cup (valid \ marked)
      /\ tooSmall' \in {small, TRUE}
      /\ Cardinality(stack') <= stackSize'
  <2> HIDE DEF valid
  <2> QED BY <1>1, PushObjsFacts
<1>4. QED
  BY <1>1, <1>2, <1>3

\* The same for the marked objects of a block (GC_push_marked).
LEMMA PushMarkedFacts ==
  ASSUME TypeOK, NEW b \in Block, NEW ok, NEW small, PushMarked(b, ok, small)
  PROVE  /\ stack' \subseteq Obj
         /\ markState' \in {ok, "invalid"}
         /\ tooSmall' \in {small, TRUE}
         /\ Cardinality(stack') <= stackSize'
         /\ marked \subseteq marked'
         /\ marked' \subseteq Obj
         /\ areMarked' \in BOOLEAN
         /\ areMarked => areMarked'
         /\ markState' # "invalid" => stack \subseteq stack' /\ marked' \subseteq marked \cup stack'
         /\ markState' # "invalid" =>
              \A o \in Objs(b) \cap marked :
                 \/ o \in stack'
                 \/ \A c \in ptr[o] : BlockOf[c] \notin freeBlocks => c \in marked'
<1> DEFINE S == Objs(b) \cap marked
           C == UNION {ptr[o] : o \in S}
<1>1. stack \in SUBSET Obj /\ S \in SUBSET Obj /\ C \in SUBSET Obj /\ areMarked \in BOOLEAN
  BY DEF TypeOK, Objs
<1>2. areMarked' = (areMarked \/ S # {})
  BY DEF PushMarked
<1>3. CASE b \in InPlace
  <2>1. PushContents(stack, C, ok, small)
    BY <1>3 DEF PushMarked
  <2>2. /\ stack' \subseteq Obj
        /\ markState' \in {ok, "invalid"}
        /\ tooSmall' \in {small, TRUE}
        /\ Cardinality(stack') <= stackSize'
        /\ marked \subseteq marked'
        /\ marked' \subseteq Obj
        /\ \A o \in C : BlockOf[o] \notin freeBlocks => o \in marked'
        /\ markState' # "invalid" => stack \subseteq stack' /\ marked' \subseteq marked \cup stack'
    <3> HIDE DEF C
    <3> QED BY <1>1, <2>1, PushContentsFacts
  <2>3. \A o \in S : ptr[o] \subseteq C
    OBVIOUS
  <2>4. QED
    BY <1>1, <1>2, <2>2, <2>3
<1>4. CASE b \notin InPlace
  <2>1. PushObjs(stack, S, ok, small) /\ marked' = marked
    BY <1>4 DEF PushMarked
  <2>2. marked \subseteq Obj
    BY DEF TypeOK
  <2>3. /\ stack' \subseteq stack \cup S
        /\ markState' \in {ok, "invalid"}
        /\ markState' # "invalid" => stack' = stack \cup S
        /\ tooSmall' \in {small, TRUE}
        /\ Cardinality(stack') <= stackSize'
    <3> HIDE DEF S
    <3> QED BY <2>1, PushObjsFacts
  <2>4. QED
    BY <1>1, <1>2, <2>1, <2>2, <2>3
<1>5. QED
  BY <1>3, <1>4

\* What every step of the marker does: it adds marks and keeps the stack within
\* its size.
MarkStep ==
  /\ stack' \subseteq Obj
  /\ marked \subseteq marked'
  /\ marked' \subseteq Obj
  /\ tooSmall' \in BOOLEAN
  /\ Cardinality(stack') <= stackSize'
  /\ stackSize' \in Nat
  /\ scanPtr' \in Nat
  /\ areMarked' \in BOOLEAN
  /\ areMarked => areMarked'

\* One object of the mark stack is scanned (GC_mark_from).
LEMMA MarkFromFacts ==
  ASSUME TypeOK, NEW small \in BOOLEAN, MarkFrom(small)
  PROVE  /\ MarkStep
         /\ areMarked'
         /\ scanPtr' = scanPtr
         /\ markState' \in {markState, "invalid"}
         /\ markState' # "invalid" =>
              \E o \in stack :
                 /\ stack \ {o} \subseteq stack'
                 /\ marked' \subseteq marked \cup stack'
                 /\ \A c \in ptr[o] : BlockOf[c] \notin freeBlocks => c \in marked'
<1>1. PICK o \in stack : PushContents(stack \ {o}, ptr[o], markState, small)
  BY DEF MarkFrom
<1>2. stack \ {o} \in SUBSET Obj /\ ptr[o] \in SUBSET Obj
  BY DEF TypeOK
<1>3. stackSize' \in Nat /\ scanPtr' = scanPtr /\ scanPtr' \in Nat /\ areMarked' = TRUE
  BY DEF TypeOK, MarkFrom
<1>4. /\ stack' \subseteq Obj
      /\ markState' \in {markState, "invalid"}
      /\ tooSmall' \in {small, TRUE}
      /\ Cardinality(stack') <= stackSize'
      /\ marked \subseteq marked'
      /\ marked' \subseteq Obj
      /\ \A c \in ptr[o] : BlockOf[c] \notin freeBlocks => c \in marked'
      /\ markState' # "invalid" =>
           stack \ {o} \subseteq stack' /\ marked' \subseteq marked \cup stack'
  BY <1>1, <1>2, PushContentsFacts
<1>5. QED
  BY <1>3, <1>4 DEF MarkStep

\* One block is scanned and the scan pointer moves past it (GC_push_next_marked).
LEMMA PushNextFacts ==
  ASSUME TypeOK, NEW S \in SUBSET Block, NEW ok, NEW small \in BOOLEAN,
         stackSize' \in Nat, PushNext(S, ok, small)
  PROVE  /\ MarkStep
         /\ markState' \in {ok, "invalid"}
         /\ markState' # "invalid" =>
              /\ stack \subseteq stack'
              /\ marked' \subseteq marked \cup stack'
              /\ \A o \in marked :
                   BlockOf[o] \in S \ freeBlocks /\ BlockOf[o] >= scanPtr =>
                     \/ BlockOf[o] >= scanPtr'
                     \/ o \in stack'
                     \/ \A c \in ptr[o] : BlockOf[c] \notin freeBlocks => c \in marked'
<1>1. PICK b \in S \ freeBlocks :
        /\ b >= scanPtr
        /\ \A c \in S \ freeBlocks : c >= scanPtr => b <= c
        /\ PushMarked(b, ok, small)
        /\ scanPtr' = b + 1
  BY DEF PushNext
<1>2. b \in Block /\ b \in Nat /\ S \subseteq Nat
  BY BlockAssumption DEF Block
<1>3. /\ stack' \subseteq Obj
      /\ markState' \in {ok, "invalid"}
      /\ tooSmall' \in {small, TRUE}
      /\ Cardinality(stack') <= stackSize'
      /\ marked \subseteq marked'
      /\ marked' \subseteq Obj
      /\ areMarked' \in BOOLEAN
      /\ areMarked => areMarked'
      /\ markState' # "invalid" => stack \subseteq stack' /\ marked' \subseteq marked \cup stack'
      /\ markState' # "invalid" =>
           \A o \in Objs(b) \cap marked :
              \/ o \in stack'
              \/ \A c \in ptr[o] : BlockOf[c] \notin freeBlocks => c \in marked'
  BY <1>1, <1>2, PushMarkedFacts
<1>4. MarkStep
  <2>1. scanPtr' \in Nat
    BY <1>1, <1>2
  <2>2. tooSmall' \in BOOLEAN
    BY <1>3
  <2>3. QED
    BY <1>3, <2>1, <2>2, Zenon DEF MarkStep
<1>5. ASSUME NEW o \in marked, BlockOf[o] \in S \ freeBlocks, BlockOf[o] >= scanPtr,
             ~ (BlockOf[o] >= scanPtr')
      PROVE  o \in Objs(b) \cap marked
  <2>1. b <= BlockOf[o] /\ BlockOf[o] \in Nat
    BY <1>1, <1>2, <1>5
  <2>2. BlockOf[o] = b
    BY <1>1, <1>2, <1>5, <2>1
  <2>3. QED
    BY <2>2, <1>5 DEF Objs, TypeOK
<1>6. QED
  BY <1>3, <1>4, <1>5

\* An overflow is caused by a marked object.
LEMMA PushNextOverflow ==
  ASSUME TypeOK, NEW S \in SUBSET Block, NEW ok, NEW small, PushNext(S, ok, small),
         ok # "invalid", markState' = "invalid", Cardinality(stack) <= stackSize'
  PROVE  areMarked'
<1>1. PICK b \in S \ freeBlocks : PushMarked(b, ok, small)
  BY DEF PushNext
<1> DEFINE T == Objs(b) \cap marked
           C == UNION {ptr[o] : o \in T}
           V == {o \in C : BlockOf[o] \notin freeBlocks}
<1>2. PushObjs(stack, V \ marked, ok, small) \/ PushObjs(stack, T, ok, small)
  BY <1>1 DEF PushMarked, PushContents
<1>3. ASSUME NEW new, PushObjs(stack, new, ok, small) PROVE new # {}
  <2>1. stack \cup {} = stack
    OBVIOUS
  <2>2. QED
    BY <1>3, <2>1 DEF PushObjs
<1>4. V \ marked # {} => T # {}
  OBVIOUS
<1>5. T # {}
  <2> HIDE DEF T, V
  <2> QED BY <1>2, <1>3, <1>4
<1>6. QED
  BY <1>1, <1>5 DEF PushMarked, TypeOK

\* The roots are pushed and the scan pointer is reset (GC_push_roots).
LEMMA PushRootsFacts ==
  ASSUME TypeOK, NEW small \in BOOLEAN, stackSize' \in Nat, PushRoots(small)
  PROVE  /\ MarkStep
         /\ areMarked'
         /\ scanPtr' = 0
         /\ markState' \in {"roots_pushed", "invalid"}
         /\ markState' # "invalid" =>
              stack \subseteq stack' /\ marked' \subseteq marked \cup stack'
         /\ ~ WorldRuns =>
              \A o \in RootObjs : BlockOf[o] \notin freeBlocks => o \in marked'
<1>1. PICK R \in SUBSET RootObjs :
        /\ WorldRuns \/ R = RootObjs
        /\ PushContents(stack, R, "roots_pushed", small)
  BY DEF PushRoots
<1>2. R \in SUBSET Obj /\ stack \in SUBSET Obj
  BY DEF TypeOK, RootObjs
<1>3. /\ stack' \subseteq Obj
      /\ markState' \in {"roots_pushed", "invalid"}
      /\ tooSmall' \in {small, TRUE}
      /\ Cardinality(stack') <= stackSize'
      /\ marked \subseteq marked'
      /\ marked' \subseteq Obj
      /\ \A o \in R : BlockOf[o] \notin freeBlocks => o \in marked'
      /\ markState' # "invalid" => stack \subseteq stack' /\ marked' \subseteq marked \cup stack'
  BY <1>1, <1>2, PushContentsFacts
<1>4. scanPtr' = 0 /\ areMarked' = TRUE
  BY DEF PushRoots
<1>5. QED
  BY <1>1, <1>3, <1>4 DEF MarkStep

\* The size of a mark stack that may have grown is a number.
LEMMA GrowStackType ==
  ASSUME TypeOK, GrowStack
  PROVE  stackSize' \in Nat
BY DEF TypeOK, GrowStack

\* Whatever case of GC_mark_some is taken, it only adds marks.
LEMMA MarkSomeStep ==
  ASSUME TypeOK, Cardinality(stack) <= stackSize, GC_mark_some
  PROVE  /\ MarkStep
         /\ markState' \in MarkStates \ {"none"}
         /\ markState' = "partially_invalid" => areMarked
<1>1. /\ tooSmall \in BOOLEAN /\ TRUE \in BOOLEAN
      /\ grungy \in SUBSET Block /\ UncBlocks \in SUBSET Block /\ Block \in SUBSET Block
      /\ markState \in MarkStates
      /\ stackSize \in Nat
  BY BlockAssumption DEF TypeOK
<1>2. CASE MarkRescuers
  <2>1. CASE MarkFrom(TRUE)
    BY <1>1, <1>2, <2>1, MarkFromFacts DEF MarkRescuers, MarkStates
  <2>2. CASE stackSize' = stackSize /\ PushNext(grungy, markState, tooSmall)
    <3>1. MarkStep /\ markState' \in {markState, "invalid"}
      BY <1>1, <2>2, PushNextFacts
    <3>2. QED
      BY <1>2, <3>1 DEF MarkRescuers, MarkStates
  <2>3. CASE stackSize' = stackSize /\ PushRoots(tooSmall)
    BY <1>1, <2>3, PushRootsFacts DEF MarkStates
  <2>4. QED
    BY <1>2, <2>1, <2>2, <2>3 DEF MarkRescuers
<1>3. CASE MarkUncollectable
  <2>1. CASE MarkFrom(tooSmall)
    BY <1>1, <1>3, <2>1, MarkFromFacts DEF MarkUncollectable, MarkStates
  <2>2. CASE stackSize' = stackSize /\ PushNext(UncBlocks, markState, tooSmall)
    <3>1. MarkStep /\ markState' \in {markState, "invalid"}
      BY <1>1, <2>2, PushNextFacts
    <3>2. QED
      BY <1>3, <3>1 DEF MarkUncollectable, MarkStates
  <2>3. CASE stackSize' = stackSize /\ PushRoots(tooSmall)
    BY <1>1, <2>3, PushRootsFacts DEF MarkStates
  <2>4. QED
    BY <1>3, <2>1, <2>2, <2>3 DEF MarkUncollectable
<1>4. CASE MarkRootsPushed
  BY <1>1, <1>4, MarkFromFacts DEF MarkRootsPushed, MarkStates
<1>5. CASE MarkInvalid
  <2>1. CASE /\ markState' = "push_uncollectable"
             /\ UNCHANGED <<marked, stack, stackSize, tooSmall, scanPtr, areMarked>>
    BY <2>1 DEF TypeOK, MarkStates, MarkStep
  <2>2. CASE areMarked /\ MarkFrom(tooSmall)
    BY <1>1, <1>5, <2>2, MarkFromFacts DEF MarkInvalid, MarkStates
  <2>3. CASE areMarked /\ HeapScan
    <3> DEFINE start == scanPtr = 0 /\ markState = "invalid"
               ok    == IF start THEN "partially_invalid" ELSE markState
               small == tooSmall /\ ~ start
    <3>1. stackSize' \in Nat
      BY <1>1, <2>3, GrowStackType DEF HeapScan
    <3>2. small \in BOOLEAN /\ ok \in {"invalid", "partially_invalid"}
      BY <1>5 DEF MarkInvalid
    <3>3. CASE PushNext(Block, ok, small)
      <4> HIDE DEF ok, small
      <4>1. MarkStep /\ markState' \in {ok, "invalid"}
        BY <1>1, <3>1, <3>2, <3>3, PushNextFacts
      <4>2. QED
        BY <2>3, <3>2, <4>1 DEF MarkStates
    <3>4. CASE PushRoots(small)
      <4> HIDE DEF small
      <4> QED BY <3>1, <3>2, <3>4, PushRootsFacts DEF MarkStates
    <3>5. CASE /\ ok = "invalid"
               /\ scanPtr' = 0
               /\ UNCHANGED <<marked, stack, tooSmall, markState, areMarked>>
      <4>1. stackSize' = stackSize
        BY <2>3, <3>5 DEF HeapScan
      <4>2. markState' = "invalid"
        BY <3>5
      <4>3. QED
        BY <3>5, <4>1, <4>2 DEF TypeOK, MarkStep, MarkStates
    <3>6. QED
      BY <2>3, <3>3, <3>4, <3>5 DEF HeapScan
  <2>4. QED
    BY <1>5, <2>1, <2>2, <2>3 DEF MarkInvalid
<1>6. QED
  BY <1>2, <1>3, <1>4, <1>5 DEF GC_mark_some

-----------------------------------------------------------------------------
(* Types. *)

\* The initial state has the types.
LEMMA InitType == Init => TypeOK
<1> SUFFICES ASSUME Init PROVE TypeOK
  OBVIOUS
<1>1. incremental \in BOOLEAN
  BY ModeAssumption DEF Init
<1>2. ptr \in [Obj -> SUBSET Obj] /\ reg \in [Reg -> Obj \cup {Nil}]
  BY DEF Init
<1>3. stackSize \in Nat /\ scanPtr \in Nat /\ attempts \in Nat
  BY StackAssumption DEF Init
<1>4. QED
  BY <1>1, <1>2, <1>3 DEF Init, TypeOK, MarkStates

\* Every step keeps the types.
LEMMA NextType ==
  ASSUME TypeOK, Cardinality(stack) <= stackSize, [Next]_vars
  PROVE  TypeOK'
<1> USE BlockAssumption DEF TypeOK
<1>1. CASE \E r \in Reg : Load(r)
  BY <1>1 DEF Load, RootObjs, Unc, markVars, pageVars, ctlVars
<1>2. CASE \E o \in Obj : Store(o)
  BY <1>2 DEF Store, RootObjs, markVars, pageVars, ctlVars
<1>3. CASE \E b \in Block : WriteFault(b) \/ WriteFaultDone(b)
  BY <1>3 DEF WriteFault, WriteFaultDone, heapVars, markVars, ctlVars
<1>4. CASE \E r \in Reg, o \in Obj : Malloc(r, o)
  BY <1>4 DEF Malloc, Unc, markVars, pageVars, ctlVars
<1>5. CASE \E r \in Reg : Free(r)
  BY <1>5 DEF Free, markVars, pageVars, ctlVars
<1>6. CASE \E b \in Block : ContinueReclaim(b) \/ TryReclaim(b)
  BY <1>6, SMTT(30) DEF ContinueReclaim, TryReclaim, ReclaimBlocks, SweptMarks, RemoveProtection,
              Unc, ctlVars
<1>7. CASE \E b \in Block : NewHblk(b)
  BY <1>7 DEF NewHblk, RemoveProtection, Objs, ctlVars
<1>8. CASE GC_mark_some
  <2>1. MarkStep /\ markState' \in MarkStates
    BY <1>8, MarkSomeStep
  <2>2. pc' \in {"mark", "little", "idle", "trying"}
    BY <1>8 DEF GC_mark_some, Marking, Home
  <2>3. QED
    BY <1>8, <2>1, <2>2 DEF GC_mark_some, MarkStep, heapVars, pageVars
<1>9. CASE MarkDone
  <2>1. stackSize' \in Nat
    BY <1>9 DEF MarkDone, GrowStack
  <2>2. never' \in BOOLEAN
    <3>1. never' = never \/ never' = (attempts >= 1)
      BY <1>9, Zenon DEF MarkDone
    <3>2. (attempts >= 1) \in BOOLEAN /\ never \in BOOLEAN
      OBVIOUS
    <3>3. QED
      BY <3>1, <3>2, Zenon
  <2>3. QED
    BY <1>9, <2>1, <2>2 DEF MarkDone, heapVars, pageVars, MarkStates
<1>10. CASE GC_maybe_gc
  <2>1. CASE UNCHANGED <<heapVars, markVars, dirty, protected, isFull>>
    BY <1>10, <2>1 DEF GC_maybe_gc, heapVars, markVars
  <2>2. ASSUME NEW S \in SUBSET reclaim,
               ReclaimBlocks(S), ClearMarks(SweptMarks(S)), reclaim' = {}, isFull' = TRUE,
               UNCHANGED <<reg, held, freeBlocks, stack, stackSize, tooSmall>>
        PROVE  TypeOK'
    <3>1. /\ dirty' \subseteq Block /\ protected' \subseteq Block
          /\ freelist' \subseteq Obj /\ ptr' \in [Obj -> SUBSET Obj]
      BY <2>2 DEF ReclaimBlocks, RemoveProtection
    <3>2. marked' \subseteq Obj /\ areMarked' = FALSE /\ markState' = "invalid" /\ scanPtr' = 0
      BY <2>2 DEF ClearMarks, SweptMarks, Unc
    <3>3. QED
      BY <1>10, <2>2, <3>1, <3>2 DEF GC_maybe_gc, MarkStates
  <2>3. QED
    BY <1>10, <2>1, <2>2 DEF GC_maybe_gc
<1>11. CASE \E f \in StopFuncs : TryToCollect(f)
  BY <1>11, ModeAssumption DEF TryToCollect, heapVars, markVars, pageVars
<1>12. CASE TryStopped
  BY <1>12 DEF TryStopped, heapVars, markVars, pageVars
<1>13. CASE TryBegin
  BY <1>13 DEF TryBegin, ClearMarks, heapVars, pageVars, MarkStates
<1>14. CASE StopWorld
  BY <1>14 DEF StopWorld, heapVars, MarkStates
<1>15. CASE Abandon
  BY <1>15 DEF Abandon, Home, heapVars, pageVars, MarkStates
<1>16. CASE GC_finish_collection
  BY <1>16 DEF GC_finish_collection, Home, pageVars
<1>17. CASE UNCHANGED vars
  BY <1>17, SMTT(30) DEF vars, heapVars, markVars, pageVars, ctlVars
<1>18. QED
  BY <1>1, <1>2, <1>3, <1>4, <1>5, <1>6, <1>7, <1>8, <1>9, <1>10, <1>11, <1>12, <1>13,
     <1>14, <1>15, <1>16, <1>17 DEF Next, Program, Collector, Calls

-----------------------------------------------------------------------------
(* What a step makes reachable: nothing but the object it allocates. *)

\* Sweeping, block allocation and the steps of the collector only remove
\* pointers.
LEMMA FewerPointers ==
  ASSUME TypeOK, reg' = reg, held' = held, \A o \in Obj : ptr'[o] \subseteq ptr[o]
  PROVE  Reachable' \subseteq Reachable
<1>1. RootObjs' = RootObjs
  BY DEF RootObjs
<1>2. \A o \in Reachable : ptr'[o] \subseteq Reachable
  BY ReachableFacts
<1>3. QED
  BY <1>1, <1>2, ReachableFacts, ReachableAfter

\* Loading a pointer makes nothing reachable that was not.
LEMMA LoadReaches ==
  ASSUME TypeOK, NEW r \in Reg, Load(r)
  PROVE  Reachable' \subseteq Reachable
<1>1. PICK v \in {Nil} \cup RootObjs \cup UNION {ptr[o] : o \in RootObjs \cup held} :
        reg' = [reg EXCEPT ![r] = v]
  BY DEF Load
<1>2. v \in {Nil} \cup Reachable
  BY ReachableFacts
<1>3. RootObjs' \subseteq Reachable
  BY <1>1, <1>2, ReachableFacts DEF RootObjs, TypeOK
<1>4. held' \subseteq Reachable /\ \A o \in Reachable : ptr'[o] \subseteq Reachable
  BY ReachableFacts DEF Load
<1>5. QED
  BY <1>3, <1>4, ReachableFacts, ReachableAfter

\* Nor does storing one.
LEMMA StoreReaches ==
  ASSUME TypeOK, NEW o \in Obj, Store(o)
  PROVE  Reachable' \subseteq Reachable
<1>1. PICK v \in SUBSET (ptr[o] \cup RootObjs) : ptr' = [ptr EXCEPT ![o] = v]
  BY DEF Store
<1>2. o \in Reachable /\ v \subseteq Reachable
  BY ReachableFacts DEF Store
<1>3. RootObjs' \subseteq Reachable /\ held' \subseteq Reachable
  BY ReachableFacts DEF Store, RootObjs
<1>4. \A x \in Reachable : ptr'[x] \subseteq Reachable
  BY <1>1, <1>2, ReachableFacts DEF TypeOK
<1>5. QED
  BY <1>3, <1>4, ReachableFacts, ReachableAfter

\* An allocation makes the new object reachable and nothing else.
LEMMA MallocReaches ==
  ASSUME TypeOK, HeapInv, NEW r \in Reg, NEW o \in Obj, Malloc(r, o)
  PROVE  Reachable' \subseteq Reachable \cup {o}
<1>1. RootObjs' \subseteq Reachable \cup {o}
  BY ReachableFacts DEF Malloc, RootObjs, TypeOK
<1>2. held' \subseteq Reachable \cup {o}
  BY ReachableFacts DEF Malloc
<1>3. \A x \in Reachable \cup {o} : ptr'[x] \subseteq Reachable \cup {o}
  BY ReachableFacts DEF Malloc, HeapInv
<1>4. QED
  BY <1>1, <1>2, <1>3, ReachableFacts, ReachableAfter

\* Freeing makes the object unreachable, and nothing reachable.
LEMMA FreeReaches ==
  ASSUME TypeOK, NEW r \in Reg, Free(r)
  PROVE  Reachable' \subseteq Reachable /\ reg[r] \in Reachable /\ reg[r] \notin Reachable'
<1>1. reg[r] \in RootObjs
  BY DEF Free, RootObjs
<1>2. RootObjs' \subseteq RootObjs
  BY DEF Free, RootObjs, TypeOK
<1>3. held' \subseteq Reachable
  BY ReachableFacts DEF Free
<1>4. \A x \in Reachable : ptr'[x] \subseteq Reachable
  BY ReachableFacts DEF Free, TypeOK
<1>5. Reachable' \subseteq Reachable
  BY <1>2, <1>3, <1>4, ReachableFacts, ReachableAfter
<1>6. QED
  BY <1>1, <1>5, ReachableFacts DEF Free

\* Sweeping only clears pointers.
LEMMA ReclaimPointers ==
  ASSUME TypeOK, NEW S, ReclaimBlocks(S)
  PROVE  \A o \in Obj : ptr'[o] \subseteq ptr[o]
BY DEF ReclaimBlocks, TypeOK

\* The steps other than an allocation.
LEMMA OtherReaches ==
  ASSUME TypeOK, [Next]_vars, ~ \E r \in Reg, o \in Obj : Malloc(r, o)
  PROVE  Reachable' \subseteq Reachable
<1>1. CASE \E r \in Reg : Load(r)
  BY <1>1, LoadReaches
<1>2. CASE \E o \in Obj : Store(o)
  BY <1>2, StoreReaches
<1>3. CASE \E r \in Reg : Free(r)
  BY <1>3, FreeReaches
<1>4. CASE \E b \in Block : ContinueReclaim(b) \/ TryReclaim(b)
  BY <1>4, ReclaimPointers, FewerPointers DEF ContinueReclaim, TryReclaim
<1>5. CASE \E b \in Block : NewHblk(b)
  <2>1. \A o \in Obj : ptr'[o] \subseteq ptr[o]
    BY <1>5 DEF NewHblk, TypeOK
  <2>2. QED
    BY <1>5, <2>1, FewerPointers DEF NewHblk
<1>6. CASE GC_maybe_gc
  <2>1. reg' = reg /\ held' = held
    BY <1>6 DEF GC_maybe_gc, heapVars
  <2>2. \A o \in Obj : ptr'[o] \subseteq ptr[o]
    BY <1>6, ReclaimPointers DEF GC_maybe_gc, heapVars
  <2>3. QED
    BY <2>1, <2>2, FewerPointers
<1>7. CASE UNCHANGED <<ptr, reg, held>>
  BY <1>7, FewerPointers
<1>8. QED
  <2>1. CASE \E b \in Block : WriteFault(b) \/ WriteFaultDone(b)
    BY <2>1, <1>7 DEF WriteFault, WriteFaultDone, heapVars
  <2>2. CASE GC_mark_some \/ MarkDone \/ StopWorld \/ Abandon \/ GC_finish_collection
    BY <2>2, <1>7 DEF GC_mark_some, MarkDone, StopWorld, Abandon, GC_finish_collection,
                      heapVars
  <2>3. CASE TryStopped \/ TryBegin \/ \E f \in StopFuncs : TryToCollect(f)
    BY <2>3, <1>7 DEF TryStopped, TryBegin, TryToCollect, heapVars
  <2>4. CASE UNCHANGED vars
    BY <2>4, <1>7 DEF vars, heapVars
  <2>5. QED
    BY <1>1, <1>2, <1>3, <1>4, <1>5, <1>6, <2>1, <2>2, <2>3, <2>4
       DEF Next, Program, Collector, Calls

-----------------------------------------------------------------------------
(* The free lists and the blocks to sweep. *)

\* Steps that neither sweep nor clear marks.
LEMMA HeapQuiet ==
  ASSUME TypeOK, HeapInv, Reachable' \subseteq Reachable,
         UNCHANGED <<held, freelist, freeBlocks, reclaim>>,
         marked \subseteq marked', MarksCleared => MarksCleared',
         \A o \in freelist : ptr'[o] = ptr[o]
  PROVE  HeapInv'
<1>1. \A o : Unswept(o)' => Unswept(o)
  BY DEF Unswept
<1>2. QED
  BY <1>1 DEF HeapInv, TypeOK

\* Sweeping blocks of the reclaim list keeps the free lists right.
LEMMA HeapReclaim ==
  ASSUME TypeOK, HeapInv, Reachable' \subseteq Reachable,
         NEW S \in SUBSET reclaim, ReclaimBlocks(S), S \cap reclaim' = {},
         reclaim' \subseteq reclaim, UNCHANGED <<held, freeBlocks>>,
         marked' \cap Unc = SweptMarks(S) \cap Unc,
         reclaim' # {} => marked \subseteq marked',
         ~ MarksCleared
  PROVE  HeapInv'
<1> DEFINE found == {o \in Obj : BlockOf[o] \in S /\ o \notin marked}
<1>1. /\ freelist' = freelist \cup found
      /\ \A o \in Obj : ptr'[o] = IF o \in found THEN {} ELSE ptr[o]
  BY DEF ReclaimBlocks, TypeOK
<1>2. \A o \in found : Unswept(o) /\ BlockOf[o] \notin freeBlocks
  BY DEF Unswept, HeapInv
<1>3. \A o \in Reachable : o \notin found
  BY <1>2 DEF HeapInv
<1>4. \A o : Unswept(o)' => Unswept(o) /\ BlockOf[o] \notin S
  BY DEF Unswept
<1>5. \A o \in Unc : o \in marked \/ o \in found => o \in marked'
  BY DEF SweptMarks, Unc
<1>6. ASSUME NEW o \in Reachable'
      PROVE  /\ o \notin freelist'
             /\ BlockOf[o] \notin freeBlocks'
             /\ ~ Unswept(o)'
             /\ o \in Unc => o \in held'
  BY <1>1, <1>3, <1>4, <1>6 DEF HeapInv
<1>7. ASSUME NEW o \in freelist'
      PROVE  /\ ptr'[o] = {}
             /\ BlockOf[o] \notin freeBlocks'
             /\ ~ Unswept(o)'
             /\ o \in Unc => o \in marked'
  <2>1. CASE o \in found
    BY <1>1, <1>2, <1>4, <1>5, <2>1
  <2>2. CASE o \in freelist /\ o \notin found
    BY <1>1, <1>4, <1>5, <2>2 DEF HeapInv, TypeOK
  <2>3. QED
    BY <1>1, <1>7, <2>1, <2>2
<1>8. held' \subseteq marked' /\ reclaim' \cap freeBlocks' = {}
  BY <1>5 DEF HeapInv, TypeOK
<1>9. QED
  BY <1>6, <1>7, <1>8 DEF HeapInv, Unc

\* Allocation keeps the free lists right.
LEMMA HeapMalloc ==
  ASSUME TypeOK, HeapInv, NEW r \in Reg, NEW o \in Obj, Malloc(r, o)
  PROVE  HeapInv'
<1>1. Reachable' \subseteq Reachable \cup {o}
  BY MallocReaches
<1>2. /\ freelist' = freelist \ {o} /\ o \in freelist
      /\ held' = IF o \in Unc THEN held \cup {o} ELSE held
      /\ UNCHANGED <<ptr, freeBlocks, reclaim, marked, pc, caller, never>>
  BY DEF Malloc, markVars, ctlVars
<1>3. \A x : Unswept(x)' = Unswept(x)
  BY <1>2 DEF Unswept, MarksCleared
<1>4. QED
  BY <1>1, <1>2, <1>3 DEF HeapInv, Unc

\* GC_free keeps the free lists right.
LEMMA HeapFree ==
  ASSUME TypeOK, HeapInv, NEW r \in Reg, Free(r)
  PROVE  HeapInv'
<1> DEFINE x == reg[r]
<1>1. Reachable' \subseteq Reachable /\ x \in Reachable /\ x \notin Reachable'
  BY FreeReaches
<1>2. /\ freelist' = freelist \cup {x}
      /\ held' = held \ {x}
      /\ ptr' = [ptr EXCEPT ![x] = {}]
      /\ UNCHANGED <<freeBlocks, reclaim, marked, pc, caller, never>>
  BY DEF Free, markVars, ctlVars
<1>3. \A y : Unswept(y)' = Unswept(y)
  BY <1>2 DEF Unswept, MarksCleared
<1>4. x \in Obj
  BY <1>1, ReachableFacts
<1>5. ptr'[x] = {} /\ \A y \in freelist : ptr'[y] = {}
  BY <1>2, <1>4 DEF HeapInv, TypeOK
<1> HIDE DEF x
<1>6. QED
  BY <1>1, <1>2, <1>3, <1>4, <1>5 DEF HeapInv, Unc

\* A new block keeps the free lists right.
LEMMA HeapNewHblk ==
  ASSUME TypeOK, HeapInv, Reachable' \subseteq Reachable, NEW b \in Block, NewHblk(b)
  PROVE  HeapInv'
<1>1. /\ b \in freeBlocks /\ freeBlocks' = freeBlocks \ {b}
      /\ freelist' = freelist \cup Objs(b)
      /\ \A o \in Obj : ptr'[o] = IF o \in Objs(b) THEN {} ELSE ptr[o]
      /\ marked' = IF b \in UncBlocks THEN marked \cup Objs(b) ELSE marked \ Objs(b)
      /\ UNCHANGED <<held, reclaim, pc, caller, never>>
  BY DEF NewHblk, ctlVars, TypeOK
<1>2. \A o \in Reachable \cup freelist : o \notin Objs(b)
  BY <1>1 DEF HeapInv, Objs
<1>3. \A o \in Obj : Unswept(o)' => Unswept(o) \/ o \in Objs(b)
  BY <1>1 DEF Unswept, MarksCleared
<1>4. b \notin reclaim
  BY <1>1 DEF HeapInv
<1>5. \A o \in Objs(b) : ~ Unswept(o)' /\ BlockOf[o] = b /\ o \in Obj
  BY <1>1, <1>4 DEF Unswept, Objs
<1>6. ASSUME NEW o \in Reachable'
      PROVE  /\ o \notin freelist'
             /\ BlockOf[o] \notin freeBlocks'
             /\ ~ Unswept(o)'
             /\ o \in Unc => o \in held'
  BY <1>1, <1>2, <1>3, <1>6, ReachableFacts DEF HeapInv
<1>7. ASSUME NEW o \in freelist'
      PROVE  /\ ptr'[o] = {}
             /\ BlockOf[o] \notin freeBlocks'
             /\ ~ Unswept(o)'
             /\ o \in Unc => o \in marked'
  <2>1. CASE o \in Objs(b)
    <3>1. o \in Unc => b \in UncBlocks
      BY <1>5, <2>1 DEF Unc
    <3>2. QED
      BY <1>1, <1>5, <2>1, <3>1
  <2>2. CASE o \in freelist
    BY <1>1, <1>2, <1>3, <2>2 DEF HeapInv, TypeOK
  <2>3. QED
    BY <1>1, <1>7, <2>1, <2>2
<1>8. held' \subseteq marked' /\ reclaim' \cap freeBlocks' = {}
  BY <1>1, <1>2, ReachableFacts DEF HeapInv
<1>9. QED
  BY <1>6, <1>7, <1>8 DEF HeapInv, Unc

\* Clearing the marks at the start of a full collection keeps them right.
LEMMA HeapTryBegin ==
  ASSUME TypeOK, HeapInv, Reachable' \subseteq Reachable, TryBegin
  PROVE  HeapInv'
<1>1. /\ UNCHANGED <<ptr, held, freelist, freeBlocks, reclaim>>
      /\ marked' = marked \cap Unc
  BY DEF TryBegin, ClearMarks, heapVars
<1>2. reclaim' = {} \/ MarksCleared'
  BY <1>1 DEF TryBegin, MarksCleared
<1>3. \A o : ~ Unswept(o)'
  BY <1>2 DEF Unswept
<1>4. QED
  BY <1>1, <1>3 DEF HeapInv, TypeOK

\* The end of a collection keeps them right, as everything reachable is marked.
LEMMA HeapFinish ==
  ASSUME TypeOK, HeapInv, MarkInv, Reachable' \subseteq Reachable, GC_finish_collection
  PROVE  HeapInv'
<1> DEFINE m     == marked \ freelist
           used  == Block \ freeBlocks
           empty == {b \in used : Objs(b) \cap m = {}}
<1>1. /\ pc = "finish"
      /\ marked' = m /\ freelist' = {} /\ freeBlocks' = freeBlocks \cup empty
      /\ reclaim' = {b \in used \ empty : ~ NearlyFull(b, m)}
      /\ UNCHANGED <<ptr, held>>
  BY DEF GC_finish_collection
<1>2. Reachable \subseteq m
  BY <1>1 DEF MarkInv, MarkComplete, HeapInv
<1>3. \A o \in Reachable : BlockOf[o] \notin freeBlocks'
  BY <1>1, <1>2, ReachableFacts DEF Objs, HeapInv
<1>4. \A o \in Reachable : ~ Unswept(o)'
  BY <1>1, <1>2 DEF Unswept
<1>5. held' \subseteq marked'
  BY <1>1, <1>2, ReachableFacts
<1>6. reclaim' \cap freeBlocks' = {}
  BY <1>1
<1>7. QED
  BY <1>1, <1>3, <1>4, <1>5, <1>6 DEF HeapInv, Unc

\* Every step keeps HeapInv.
LEMMA NextHeap ==
  ASSUME Inv, TypeOK', [Next]_vars
  PROVE  HeapInv'
<1> USE DEF Inv
<1>1. CASE \E r \in Reg, o \in Obj : Malloc(r, o)
  BY <1>1, HeapMalloc
<1>2. CASE ~ \E r \in Reg, o \in Obj : Malloc(r, o)
  <2>0. Reachable' \subseteq Reachable
    BY <1>2, OtherReaches
  <2>1. CASE \E r \in Reg : Load(r)
    BY <2>0, <2>1, HeapQuiet, SMTT(30) DEF Load, markVars, ctlVars, MarksCleared
  <2>2. CASE \E o \in Obj : Store(o)
    <3>1. PICK o \in Obj : Store(o)
      BY <2>2
    <3>2. o \notin freelist
      BY <3>1, ReachableFacts DEF Store, HeapInv
    <3>3. \A x \in freelist : ptr'[x] = ptr[x]
      BY <3>1, <3>2 DEF Store, TypeOK
    <3>4. QED
      BY <2>0, <3>1, <3>3, HeapQuiet DEF Store, markVars, ctlVars, MarksCleared
  <2>3. CASE \E b \in Block : WriteFault(b) \/ WriteFaultDone(b)
    BY <2>0, <2>3, HeapQuiet, SMTT(30)
       DEF WriteFault, WriteFaultDone, heapVars, markVars, ctlVars, MarksCleared
  <2>4. CASE \E r \in Reg : Free(r)
    BY <2>4, HeapFree
  <2>5. CASE \E b \in Block : ContinueReclaim(b) \/ TryReclaim(b)
    <3>1. PICK b \in Block : ContinueReclaim(b) \/ TryReclaim(b)
      BY <2>5
    <3>2. /\ b \in reclaim /\ reclaim' = reclaim \ {b}
          /\ ReclaimBlocks({b}) /\ marked' = SweptMarks({b})
          /\ UNCHANGED <<held, freeBlocks>>
          /\ pc \in {"idle", "trying"}
      BY <3>1 DEF ContinueReclaim, TryReclaim
    <3>3. ~ MarksCleared
      BY <3>2 DEF MarksCleared
    <3>4. {b} \in SUBSET reclaim /\ {b} \cap reclaim' = {} /\ reclaim' \subseteq reclaim
      BY <3>2
    <3>5. marked \subseteq marked'
      BY <3>2 DEF SweptMarks
    <3>6. QED
      BY <2>0, <3>2, <3>3, <3>4, <3>5, HeapReclaim
  <2>6. CASE \E b \in Block : NewHblk(b)
    BY <2>0, <2>6, HeapNewHblk
  <2>7. CASE GC_mark_some
    <3>1. marked \subseteq marked'
      BY <2>7, MarkSomeStep DEF ControlInv, MarkStep
    <3>2. MarksCleared => MarksCleared'
      BY <2>7 DEF GC_mark_some, Marking, MarksCleared
    <3>3. QED
      BY <2>0, <2>7, <3>1, <3>2, HeapQuiet DEF GC_mark_some, heapVars
  <2>8. CASE MarkDone
    <3>1. MarksCleared => MarksCleared'
      BY <2>8 DEF MarkDone, MarksCleared
    <3>2. QED
      BY <2>0, <2>8, <3>1, HeapQuiet DEF MarkDone, heapVars
  <2>9. CASE GC_maybe_gc
    <3>1. CASE UNCHANGED <<heapVars, markVars, dirty, protected, isFull>>
      <4>1. MarksCleared => MarksCleared'
        BY <2>9 DEF GC_maybe_gc, MarksCleared
      <4>2. QED
        BY <2>0, <3>1, <4>1, HeapQuiet DEF heapVars, markVars
    <3>2. ASSUME NEW S \in SUBSET reclaim,
                 ReclaimBlocks(S), ClearMarks(SweptMarks(S)), reclaim' = {},
                 UNCHANGED <<held, freeBlocks>>
          PROVE  HeapInv'
      <4>1. marked' \cap Unc = SweptMarks(S) \cap Unc
        BY <3>2 DEF ClearMarks
      <4>2. ~ MarksCleared
        BY <2>9 DEF GC_maybe_gc, MarksCleared
      <4>3. S \cap reclaim' = {} /\ reclaim' \subseteq reclaim
        BY <3>2
      <4>4. QED
        BY <2>0, <3>2, <4>1, <4>2, <4>3, HeapReclaim
    <3>3. QED
      BY <2>9, <3>1, <3>2 DEF GC_maybe_gc
  <2>10. CASE \E f \in StopFuncs : TryToCollect(f)
    <3>1. MarksCleared => MarksCleared'
      BY <2>10 DEF TryToCollect, MarksCleared
    <3>2. QED
      BY <2>0, <2>10, <3>1, HeapQuiet DEF TryToCollect, heapVars, markVars
  <2>11. CASE TryStopped
    <3>1. MarksCleared => MarksCleared'
      BY <2>11 DEF TryStopped, MarksCleared
    <3>2. QED
      BY <2>0, <2>11, <3>1, HeapQuiet DEF TryStopped, heapVars, markVars
  <2>12. CASE TryBegin
    BY <2>0, <2>12, HeapTryBegin
  <2>13. CASE StopWorld
    <3>1. MarksCleared => MarksCleared'
      BY <2>13 DEF StopWorld, MarksCleared, ControlInv
    <3>2. QED
      BY <2>0, <2>13, <3>1, HeapQuiet DEF StopWorld, heapVars
  <2>14. CASE Abandon
    <3>1. MarksCleared => MarksCleared'
      BY <2>14 DEF Abandon, MarksCleared
    <3>2. QED
      BY <2>0, <2>14, <3>1, HeapQuiet DEF Abandon, heapVars
  <2>15. CASE GC_finish_collection
    BY <2>0, <2>15, HeapFinish
  <2>16. CASE UNCHANGED vars
    BY <2>0, <2>16, HeapQuiet DEF vars, heapVars, markVars, ctlVars, MarksCleared
  <2>17. QED
    BY <1>2, <2>1, <2>2, <2>3, <2>4, <2>5, <2>6, <2>7, <2>8, <2>9, <2>10, <2>11, <2>12,
       <2>13, <2>14, <2>15, <2>16 DEF Next, Program, Collector, Calls
<1>3. QED
  BY <1>1, <1>2

-----------------------------------------------------------------------------
(* The write barrier and the control of the collector. *)

\* Every step keeps the write barrier: BarrierInv.
LEMMA NextBarrier ==
  ASSUME Inv, [Next]_vars
  PROVE  BarrierInv'
<1> USE DEF BarrierInv
<1>0. /\ BarrierInv
      /\ freeBlocks \subseteq Block /\ dirty \subseteq Block
      /\ protected \subseteq Block /\ fault \subseteq Block
  BY DEF Inv, TypeOK
<1>u. CASE UNCHANGED <<incremental, freeBlocks, dirty, protected, fault, pc>>
  BY <1>0, <1>u
<1>1. CASE \E r \in Reg : Load(r)
  BY <1>1, <1>u DEF Load, pageVars, ctlVars
<1>2. CASE \E o \in Obj : Store(o)
  BY <1>2, <1>u DEF Store, pageVars, ctlVars
<1>3. CASE \E b \in Block : WriteFault(b)
  BY <1>0, <1>3 DEF WriteFault, WorldRuns, heapVars, ctlVars
<1>4. CASE \E b \in Block : WriteFaultDone(b)
  BY <1>0, <1>4 DEF WriteFaultDone, WorldRuns, heapVars, ctlVars
<1>5. CASE \E r \in Reg, o \in Obj : Malloc(r, o)
  BY <1>5, <1>u DEF Malloc, pageVars, ctlVars
<1>6. CASE \E r \in Reg : Free(r)
  BY <1>6, <1>u DEF Free, pageVars, ctlVars
<1>7. CASE \E b \in Block : ContinueReclaim(b) \/ TryReclaim(b)
  <2>1. PICK b \in Block :
           /\ dirty' = IF incremental THEN dirty \cup {b} ELSE dirty
           /\ protected' = protected \ {b}
    BY <1>0, <1>7 DEF ContinueReclaim, TryReclaim, ReclaimBlocks, RemoveProtection
  <2>2. UNCHANGED <<incremental, freeBlocks, fault, pc>> /\ pc # "mark"
    BY <1>0, <1>7 DEF ContinueReclaim, TryReclaim, ctlVars
  <2>3. QED
    BY <1>0, <2>1, <2>2
<1>8. CASE \E b \in Block : NewHblk(b)
  <2>1. PICK b \in Block :
           /\ dirty' = IF incremental THEN dirty \cup {b} ELSE dirty
           /\ protected' = protected \ {b}
           /\ freeBlocks' = freeBlocks \ {b}
    BY <1>8 DEF NewHblk, RemoveProtection
  <2>2. UNCHANGED <<incremental, fault, pc>> /\ pc # "mark"
    BY <1>8 DEF NewHblk, ctlVars
  <2>3. QED
    BY <1>0, <2>1, <2>2
<1>9. CASE GC_mark_some
  BY <1>0, <1>9 DEF GC_mark_some, Marking, Home, heapVars, pageVars
<1>10. CASE MarkDone
  BY <1>0, <1>10 DEF MarkDone, heapVars, pageVars
<1>11. CASE GC_maybe_gc
  BY <1>0, <1>11 DEF GC_maybe_gc, ReclaimBlocks, RemoveProtection, heapVars
<1>12. CASE TryStopped \/ TryBegin \/ \E f \in StopFuncs : TryToCollect(f)
  <2>1. UNCHANGED <<incremental, freeBlocks, dirty, protected, fault>>
    BY <1>12 DEF TryStopped, TryBegin, TryToCollect, heapVars, pageVars
  <2>2. pc' # "mark"
    BY <1>12 DEF TryStopped, TryBegin, TryToCollect
  <2>3. QED
    BY <1>0, <2>1, <2>2
<1>13. CASE StopWorld
  BY <1>0, <1>13 DEF StopWorld, heapVars
<1>14. CASE Abandon
  BY <1>0, <1>14 DEF Abandon, Home, heapVars, pageVars
<1>15. CASE GC_finish_collection
  BY <1>0, <1>15 DEF GC_finish_collection, Home, pageVars
<1>16. CASE UNCHANGED vars
  BY <1>16, <1>u DEF vars, heapVars, pageVars, ctlVars
<1>17. QED
  BY <1>1, <1>2, <1>3, <1>4, <1>5, <1>6, <1>7, <1>8, <1>9, <1>10, <1>11, <1>12, <1>13,
     <1>14, <1>15, <1>16 DEF Next, Program, Collector, Calls

\* Every step keeps ControlInv.
LEMMA NextControl ==
  ASSUME Inv, [Next]_vars
  PROVE  ControlInv'
<1> USE DEF Inv, ControlInv
<1>0. Cardinality({}) = 0
  BY FS_EmptySet
<1>1. CASE UNCHANGED <<incremental, pc, stack, stackSize, markState, areMarked>>
  BY <1>1
<1>2. CASE \E b \in Block : ContinueReclaim(b) \/ NewHblk(b) \/ TryReclaim(b)
  BY <1>1, <1>2 DEF ContinueReclaim, NewHblk, TryReclaim, ctlVars
<1>3. CASE GC_mark_some
  <2>1. /\ MarkStep
        /\ markState' \in MarkStates \ {"none"}
        /\ markState' = "partially_invalid" => areMarked
    BY <1>3, MarkSomeStep
  <2>2. pc' \in {"mark", "little", "idle", "trying"}
    BY <1>3 DEF GC_mark_some, Marking, Home
  <2>3. QED
    BY <1>3, <2>1, <2>2 DEF MarkStep
<1>4. CASE MarkDone
  <2>1. stackSize' \in Nat
    BY <1>4, GrowStackType DEF MarkDone
  <2>2. QED
    BY <1>0, <1>4, <2>1 DEF MarkDone
<1>5. CASE GC_maybe_gc
  <2>1. CASE UNCHANGED markVars
    BY <1>5, <2>1 DEF GC_maybe_gc, InProgress, markVars
  <2>2. CASE markState' = "invalid" /\ UNCHANGED <<stack, stackSize>>
    BY <1>5, <2>2 DEF GC_maybe_gc
  <2>3. QED
    BY <1>5, <2>1, <2>2 DEF GC_maybe_gc, ClearMarks
<1>6. CASE TryStopped \/ \E f \in StopFuncs : TryToCollect(f)
  BY <1>6 DEF TryStopped, TryToCollect, markVars
<1>7. CASE TryBegin
  BY <1>0, <1>7, SMTT(30) DEF TryBegin, ClearMarks, TypeOK
<1>8. CASE StopWorld
  BY <1>8 DEF StopWorld
<1>9. CASE Abandon
  <2>1. pc' \in {"idle", "trying"}
    BY <1>9 DEF Abandon, Home
  <2>2. QED
    BY <1>0, <1>9, <2>1, SMTT(30) DEF Abandon, TypeOK
<1>10. CASE GC_finish_collection
  BY <1>10 DEF GC_finish_collection, Home
<1>11. QED
  <2>1. CASE \E r \in Reg : Load(r) \/ Free(r)
    BY <1>1, <2>1 DEF Load, Free, markVars, ctlVars
  <2>2. CASE \E o \in Obj : Store(o)
    BY <1>1, <2>2 DEF Store, markVars, ctlVars
  <2>3. CASE \E r \in Reg, o \in Obj : Malloc(r, o)
    BY <1>1, <2>3 DEF Malloc, markVars, ctlVars
  <2>4. CASE \E b \in Block : WriteFault(b) \/ WriteFaultDone(b)
    BY <1>1, <2>4 DEF WriteFault, WriteFaultDone, markVars, ctlVars
  <2>5. CASE UNCHANGED vars
    BY <1>1, <2>5 DEF vars, markVars, ctlVars
  <2>6. QED
    BY <1>2, <1>3, <1>4, <1>5, <1>6, <1>7, <1>8, <1>9, <1>10, <2>1, <2>2, <2>3, <2>4, <2>5
       DEF Next, Program, Collector, Calls

-----------------------------------------------------------------------------
(* The marks. *)

\* A step of the marker keeps the tri-colour invariant.
LEMMA MarkSomeTriColour ==
  ASSUME Inv, GC_mark_some, markState' # "invalid",
         NEW o \in marked' \cap Reachable
  PROVE  ToScan(o)' \/ ptr[o] \subseteq marked'
<1> USE DEF Inv
<1>0. /\ UNCHANGED <<ptr, dirty, fault, grungy>>
      /\ o \in Obj /\ BlockOf[o] \in Block \ freeBlocks
      /\ BlockOf[o] \in Nat
      /\ \A c \in ptr[o] : BlockOf[c] \notin freeBlocks
  BY ReachableFacts, BlockAssumption, SMTT(30) DEF GC_mark_some, heapVars, pageVars, HeapInv, Block
<1>1. MarksMatter
  BY DEF GC_mark_some, Marking, MarksMatter
<1>2. MarkStep
  BY MarkSomeStep DEF ControlInv
<1>3. SUFFICES ASSUME o \in marked, ~ (o \in stack'), ~ (ptr[o] \subseteq marked')
               PROVE  ToScan(o)' \/ ptr[o] \subseteq marked'
  <2>1. CASE o \in stack'
    BY <2>1 DEF ToScan
  <2>2. CASE o \notin marked /\ o \notin stack'
    <3>1. marked' \subseteq marked \cup stack'
      <4> DEFINE start == scanPtr = 0 /\ markState = "invalid"
                 ok    == IF start THEN "partially_invalid" ELSE markState
                 small == tooSmall /\ ~ start
      <4>1. /\ tooSmall \in BOOLEAN /\ small \in BOOLEAN
            /\ grungy \in SUBSET Block /\ UncBlocks \in SUBSET Block
            /\ Block \in SUBSET Block /\ stackSize' \in Nat
        BY <1>2, BlockAssumption DEF TypeOK, MarkStep
      <4>2. CASE MarkFrom(TRUE) \/ MarkFrom(tooSmall)
        BY <4>1, <4>2, MarkFromFacts
      <4>3. CASE PushNext(grungy, markState, tooSmall)
        BY <4>1, <4>3, PushNextFacts
      <4>4. CASE PushNext(UncBlocks, markState, tooSmall)
        BY <4>1, <4>4, PushNextFacts
      <4>5. CASE PushNext(Block, ok, small)
        <5> HIDE DEF ok, small
        <5> QED BY <4>1, <4>5, PushNextFacts
      <4>6. CASE PushRoots(tooSmall) \/ PushRoots(small)
        <5> HIDE DEF small
        <5> QED BY <4>1, <4>6, PushRootsFacts
      <4>7. CASE marked' = marked
        BY <4>7
      <4>8. QED
        BY <4>2, <4>3, <4>4, <4>5, <4>6, <4>7
           DEF GC_mark_some, MarkRescuers, MarkUncollectable, MarkRootsPushed, MarkInvalid,
               HeapScan
    <3>2. QED
      BY <2>2, <3>1
  <2>3. QED
    BY <1>3, <2>1, <2>2
<1>4. ToScan(o)
  BY <1>1, <1>2, <1>3 DEF MarkInv, TriColour, MarkStep
<1>5. tooSmall \in BOOLEAN /\ TRUE \in BOOLEAN /\ stackSize' \in Nat
  BY <1>2 DEF TypeOK, MarkStep
<1>6. ASSUME NEW small \in BOOLEAN, MarkFrom(small)
      PROVE  ToScan(o)'
  <2>1. PICK x \in stack :
                 /\ stack \ {x} \subseteq stack'
                 /\ \A c \in ptr[x] : BlockOf[c] \notin freeBlocks => c \in marked'
    BY <1>6, MarkFromFacts
  <2>2. o # x
    BY <1>0, <1>3, <2>1
  <2>3. o \notin stack
    BY <1>3, <2>1, <2>2
  <2>4. markState' = markState /\ scanPtr' = scanPtr
    BY <1>6, MarkFromFacts
  <2>5. QED
    BY <1>0, <1>4, <2>3, <2>4 DEF ToScan
<1>7. CASE MarkRescuers
  <2>1. CASE MarkFrom(TRUE)
    BY <1>5, <1>6, <2>1
  <2>2. CASE PushNext(grungy, markState, tooSmall)
    <3>1. grungy \in SUBSET Block /\ markState = "push_rescuers"
      BY <1>7 DEF TypeOK, MarkRescuers
    <3>2. /\ markState' = markState
          /\ stack \subseteq stack'
          /\ BlockOf[o] \in grungy \ freeBlocks /\ BlockOf[o] >= scanPtr =>
               \/ BlockOf[o] >= scanPtr'
               \/ o \in stack'
               \/ \A c \in ptr[o] : BlockOf[c] \notin freeBlocks => c \in marked'
      BY <1>3, <1>5, <2>2, <3>1, PushNextFacts
    <3>3. QED
      BY <1>0, <1>3, <1>4, <3>1, <3>2 DEF ToScan
  <2>3. CASE NoneLeft(grungy) /\ PushRoots(tooSmall)
    <3>1. stack \subseteq stack'
      BY <1>5, <2>3, PushRootsFacts
    <3>2. BlockOf[o] \in grungy => ~ (BlockOf[o] >= scanPtr)
      BY <1>0, <2>3, SMTT(30) DEF NoneLeft, TypeOK
    <3>3. QED
      BY <1>0, <1>3, <1>4, <1>7, <3>1, <3>2 DEF ToScan, MarkRescuers
  <2>4. QED
    BY <1>7, <2>1, <2>2, <2>3 DEF MarkRescuers
<1>8. CASE MarkUncollectable
  <2>1. CASE MarkFrom(tooSmall)
    BY <1>5, <1>6, <2>1
  <2>2. CASE PushNext(UncBlocks, markState, tooSmall)
    <3>1. UncBlocks \in SUBSET Block /\ markState = "push_uncollectable"
      BY <1>8, BlockAssumption DEF MarkUncollectable
    <3>2. /\ markState' = markState
          /\ stack \subseteq stack'
          /\ BlockOf[o] \in UncBlocks \ freeBlocks /\ BlockOf[o] >= scanPtr =>
               \/ BlockOf[o] >= scanPtr'
               \/ o \in stack'
               \/ \A c \in ptr[o] : BlockOf[c] \notin freeBlocks => c \in marked'
      BY <1>3, <1>5, <2>2, <3>1, PushNextFacts
    <3>3. QED
      BY <1>0, <1>3, <1>4, <3>1, <3>2 DEF ToScan, Unc
  <2>3. CASE NoneLeft(UncBlocks) /\ PushRoots(tooSmall)
    <3>1. stack \subseteq stack'
      BY <1>5, <2>3, PushRootsFacts
    <3>2. o \in Unc => ~ (BlockOf[o] >= scanPtr)
      BY <1>0, <2>3, SMTT(30) DEF NoneLeft, TypeOK, Unc
    <3>3. QED
      BY <1>0, <1>3, <1>4, <1>8, <3>1, <3>2 DEF ToScan, MarkUncollectable
  <2>4. QED
    BY <1>8, <2>1, <2>2, <2>3 DEF MarkUncollectable
<1>9. CASE MarkRootsPushed
  BY <1>5, <1>6, <1>9 DEF MarkRootsPushed
<1>10. CASE MarkInvalid
  <2>1. CASE /\ ~ areMarked
             /\ markState' = "push_uncollectable"
             /\ UNCHANGED <<marked, stack, stackSize, tooSmall, scanPtr, areMarked>>
    <3>1. markState = "invalid"
      BY <1>10, <2>1 DEF MarkInvalid, ControlInv
    <3>2. scanPtr = 0 /\ o \in Unc
      BY <1>1, <1>3, <2>1, <3>1 DEF MarkInv, FreshMarks
    <3>3. QED
      BY <1>0, <2>1, <3>2, SMTT(30) DEF ToScan, Unc
  <2>2. CASE MarkFrom(tooSmall)
    BY <1>5, <1>6, <2>2
  <2>3. CASE stack = {} /\ HeapScan
    <3> DEFINE start == scanPtr = 0 /\ markState = "invalid"
               ok    == IF start THEN "partially_invalid" ELSE markState
               small == tooSmall /\ ~ start
    <3>1. small \in BOOLEAN /\ Block \in SUBSET Block
      OBVIOUS
    <3>2. ok = "partially_invalid" /\ BlockOf[o] \notin dirty \cup fault =>
             BlockOf[o] >= scanPtr
      BY <1>0, <1>4, <2>3, SMTT(30) DEF ToScan
    <3>3. ok = "invalid" \/ ok = "partially_invalid"
      BY <1>10 DEF MarkInvalid
    <3>4. CASE PushNext(Block, ok, small)
      <4> HIDE DEF ok, small
      <4>1. /\ markState' = ok
            /\ BlockOf[o] \in Block \ freeBlocks /\ BlockOf[o] >= scanPtr =>
               \/ BlockOf[o] >= scanPtr'
               \/ o \in stack'
               \/ \A c \in ptr[o] : BlockOf[c] \notin freeBlocks => c \in marked'
        BY <1>3, <1>5, <3>1, <3>4, PushNextFacts
      <4>2. QED
        BY <1>0, <1>3, <3>2, <3>3, <4>1 DEF ToScan
    <3>5. CASE NoneLeft(Block) /\ ok = "partially_invalid" /\ PushRoots(small)
      <4>1. ~ (BlockOf[o] >= scanPtr)
        BY <1>0, <3>5, SMTT(30) DEF NoneLeft, TypeOK
      <4>2. QED
        BY <1>0, <3>2, <3>5, <4>1 DEF ToScan
    <3>6. CASE ok = "invalid" /\ markState' = markState
      BY <3>6
    <3>7. QED
      BY <2>3, <3>4, <3>5, <3>6 DEF HeapScan
  <2>4. QED
    BY <1>10, <2>1, <2>2, <2>3 DEF MarkInvalid
<1>11. QED
  BY <1>7, <1>8, <1>9, <1>10 DEF GC_mark_some

\* GC_mark_some keeps the invariant of marking.
LEMMA MarkSomeMarks ==
  ASSUME Inv, GC_mark_some
  PROVE  MarkInv'
<1> USE DEF Inv
<1>1. Reachable' = Reachable /\ RootObjs' = RootObjs /\ ptr' = ptr
  BY DEF GC_mark_some, heapVars, Reachable, RootObjs
<1>2. MarkStep /\ Cardinality(stack) <= stackSize
  BY MarkSomeStep DEF ControlInv
<1>3. TriColour'
  <2>1. CASE markState' = "invalid"
    BY <2>1 DEF TriColour, ToScan
  <2>2. CASE markState' # "invalid"
    BY <1>1, <2>2, MarkSomeTriColour DEF TriColour
  <2>3. QED
    BY <2>1, <2>2
<1>4. /\ tooSmall \in BOOLEAN /\ TRUE \in BOOLEAN
      /\ grungy \in SUBSET Block /\ UncBlocks \in SUBSET Block
      /\ stackSize' \in Nat
  BY <1>2, BlockAssumption DEF TypeOK, MarkStep
<1>5. FreshMarks'
  <2>1. areMarked => areMarked'
    BY <1>2 DEF MarkStep
  <2>2. CASE MarkRescuers \/ MarkUncollectable
    <3>1. CASE MarkFrom(TRUE) \/ MarkFrom(tooSmall)
      BY <1>4, <3>1, MarkFromFacts DEF FreshMarks
    <3>2. CASE PushRoots(tooSmall)
      BY <1>4, <3>2, PushRootsFacts DEF FreshMarks
    <3>3. CASE stackSize' = stackSize /\ PushNext(grungy, markState, tooSmall)
      BY <1>2, <1>4, <2>2, <3>3, PushNextOverflow
         DEF FreshMarks, MarkRescuers, MarkUncollectable
    <3>4. CASE stackSize' = stackSize /\ PushNext(UncBlocks, markState, tooSmall)
      BY <1>2, <1>4, <2>2, <3>4, PushNextOverflow
         DEF FreshMarks, MarkRescuers, MarkUncollectable
    <3>5. QED
      BY <2>2, <3>1, <3>2, <3>3, <3>4 DEF MarkRescuers, MarkUncollectable
  <2>3. CASE MarkRootsPushed
    BY <1>4, <2>3, MarkFromFacts DEF FreshMarks, MarkRootsPushed
  <2>4. CASE MarkInvalid
    BY <2>1, <2>4 DEF FreshMarks, MarkInvalid
  <2>5. QED
    BY <2>2, <2>3, <2>4 DEF GC_mark_some
<1>6. RootsMarked'
  <2> SUFFICES ASSUME pc' = "mark", markState' = "roots_pushed"
               PROVE  RootObjs \subseteq marked'
    BY <1>1 DEF RootsMarked
  <2>1. pc = "mark" /\ ~ WorldRuns
    BY DEF GC_mark_some, Marking, Home, WorldRuns
  <2>2. \A x \in RootObjs : BlockOf[x] \notin freeBlocks
    BY ReachableFacts DEF HeapInv
  <2>3. ASSUME NEW small \in BOOLEAN, PushRoots(small)
        PROVE  RootObjs \subseteq marked'
    BY <1>4, <2>1, <2>2, <2>3, PushRootsFacts
  <2>0. ASSUME NEW S \in SUBSET Block, NEW ok, NEW small \in BOOLEAN,
               ok # "roots_pushed"
        PROVE  ~ PushNext(S, ok, small)
    <3>1. PushNext(S, ok, small) => markState' \in {ok, "invalid"}
      BY <1>4, PushNextFacts
    <3>2. QED
      BY <2>0, <3>1
  <2>4. CASE markState = "roots_pushed"
    BY <1>2, <2>1, <2>4 DEF MarkInv, RootsMarked, MarkStep
  <2>5. CASE MarkRescuers
    <3>1. ~ MarkFrom(TRUE)
      BY <1>4, <2>5, MarkFromFacts DEF MarkRescuers
    <3>2. ~ PushNext(grungy, markState, tooSmall)
      BY <1>4, <2>0, <2>5 DEF MarkRescuers
    <3>3. QED
      BY <1>4, <2>3, <2>5, <3>1, <3>2 DEF MarkRescuers
  <2>6. CASE MarkUncollectable
    <3>1. ~ MarkFrom(tooSmall)
      BY <1>4, <2>6, MarkFromFacts DEF MarkUncollectable
    <3>2. ~ PushNext(UncBlocks, markState, tooSmall)
      BY <1>4, <2>0, <2>6 DEF MarkUncollectable
    <3>3. QED
      BY <1>4, <2>3, <2>6, <3>1, <3>2 DEF MarkUncollectable
  <2>7. CASE MarkInvalid
    <3>1. ~ MarkFrom(tooSmall)
      BY <1>4, <2>7, MarkFromFacts DEF MarkInvalid
    <3> DEFINE start == scanPtr = 0 /\ markState = "invalid"
               ok    == IF start THEN "partially_invalid" ELSE markState
               small == tooSmall /\ ~ start
    <3>2. small \in BOOLEAN /\ ok # "roots_pushed" /\ Block \in SUBSET Block
      BY <2>7 DEF MarkInvalid
    <3>3. ~ PushNext(Block, ok, small)
      <4> HIDE DEF ok, small
      <4> QED BY <2>0, <3>2
    <3>4. HeapScan
      BY <2>7, <3>1 DEF MarkInvalid
    <3>5. PushRoots(small)
      BY <2>7, <3>3, <3>4 DEF HeapScan, MarkInvalid
    <3>6. QED
      <4> HIDE DEF small
      <4> QED BY <2>3, <3>2, <3>5
  <2>8. QED
    BY <2>4, <2>5, <2>6, <2>7 DEF GC_mark_some, MarkRootsPushed
<1>7. MarkComplete'
  BY DEF MarkComplete, GC_mark_some, Marking, Home
<1>8. QED
  BY <1>3, <1>5, <1>6, <1>7 DEF MarkInv

\* When the marking of a stopped world is done, everything reachable is marked.
LEMMA DoneComplete ==
  ASSUME Inv, pc = "mark", MarkDone
  PROVE  Reachable \subseteq marked
<1> USE DEF Inv
<1> DEFINE T == marked \cap Reachable
<1>1. \A o \in T : ~ ToScan(o)
  BY DEF MarkDone, BarrierInv, ToScan
<1>2. \A o \in T : ptr[o] \subseteq marked
  BY <1>1 DEF MarkInv, TriColour, MarksMatter
<1>3. RootObjs \subseteq marked /\ held \subseteq marked
  BY DEF MarkDone, MarkInv, RootsMarked, HeapInv
<1>4. Closed(T, RootObjs \cup held, ptr)
  BY <1>2, <1>3, ReachableFacts DEF Closed
<1>5. T \in SUBSET Obj
  BY DEF TypeOK
<1>6. QED
  <2> HIDE DEF T
  <2>1. Reachable \subseteq T
    BY <1>4, <1>5, ReachableLeast DEF Reachable
  <2>2. QED
    BY <2>1 DEF T

\* A step that leaves the state of the marking alone keeps the invariant if it
\* unmarks nothing reachable, marks only uncollectable objects, and writes only
\* to objects that are to be scanned.
LEMMA MarkKept ==
  ASSUME Inv, Reachable' \subseteq Reachable,
         UNCHANGED <<stack, markState, scanPtr, areMarked, grungy>>,
         MarksMatter' => MarksMatter,
         dirty \cup fault \subseteq dirty' \cup fault',
         marked \cap Reachable \subseteq marked',
         marked' \subseteq marked \cup Unc,
         \A o \in marked' \cap Reachable' :
           \/ ptr'[o] = {}
           \/ MarksMatter' => ToScan(o)'
           \/ o \in marked /\ ptr'[o] \subseteq ptr[o],
         pc' = "mark" => pc = "mark" /\ RootObjs' = RootObjs /\ marked \subseteq marked',
         pc' = "finish" => pc = "finish"
  PROVE  MarkInv'
<1> USE DEF Inv
<1>1. TriColour'
  <2> SUFFICES ASSUME MarksMatter', NEW o \in marked' \cap Reachable', ~ ToScan(o)'
               PROVE  ptr'[o] \subseteq marked'
    BY DEF TriColour
  <2>1. CASE ptr'[o] = {}
    BY <2>1
  <2>2. CASE o \in marked /\ ptr'[o] \subseteq ptr[o]
    <3>1. ~ ToScan(o)
      BY DEF ToScan
    <3>2. ptr[o] \subseteq marked /\ ptr[o] \subseteq Reachable
      BY <2>2, <3>1, ReachableFacts DEF MarkInv, TriColour
    <3>3. QED
      BY <2>2, <3>2
  <2>3. QED
    BY <2>1, <2>2
<1>2. FreshMarks'
  BY DEF MarkInv, FreshMarks
<1>3. RootsMarked'
  BY DEF MarkInv, RootsMarked
<1>4. MarkComplete'
  BY DEF MarkInv, MarkComplete
<1>5. QED
  BY <1>1, <1>2, <1>3, <1>4 DEF MarkInv

\* The program, its fault handlers and sweeping keep the invariant of marking.
LEMMA ProgramMarks ==
  ASSUME Inv, TypeOK',
         Program \/ \E b \in Block : WriteFaultDone(b) \/ TryReclaim(b)
  PROVE  MarkInv'
<1> USE DEF Inv
<1>1. CASE \E r \in Reg : Load(r)
  <2>1. Reachable' \subseteq Reachable
    BY <1>1, LoadReaches
  <2>2. /\ UNCHANGED <<ptr, marked, stack, markState, scanPtr, areMarked, grungy, dirty,
                       fault, pc, incremental>>
        /\ pc # "mark"
    BY <1>1 DEF Load, WorldRuns, markVars, pageVars, ctlVars
  <2>3. QED
    BY <2>1, <2>2, MarkKept DEF MarksMatter
<1>2. CASE \E o \in Obj : Store(o)
  <2>1. PICK o \in Obj : Store(o)
    BY <1>2
  <2>2. Reachable' \subseteq Reachable
    BY <2>1, StoreReaches
  <2>3. /\ UNCHANGED <<marked, stack, markState, scanPtr, areMarked, grungy, dirty,
                       fault, pc, incremental>>
        /\ pc # "mark"
        /\ \A x \in Obj \ {o} : ptr'[x] = ptr[x]
        /\ BlockOf[o] \notin protected
        /\ o \in Reachable
    BY <2>1, ReachableFacts DEF Store, Writable, WorldRuns, TypeOK, markVars, pageVars, ctlVars
  <2>4. BlockOf[o] \in Block \ freeBlocks
    BY <2>3, BlockAssumption DEF HeapInv
  <2>5. MarksMatter => ToScan(o)
    BY <2>3, <2>4 DEF MarksMatter, ToScan, BarrierInv, ControlInv
  <2>6. MarksMatter' => ToScan(o)'
    BY <2>3, <2>5 DEF MarksMatter, ToScan
  <2>7. \A x \in marked' \cap Reachable' :
          \/ MarksMatter' => ToScan(x)'
          \/ x \in marked /\ ptr'[x] \subseteq ptr[x]
    BY <2>3, <2>6 DEF TypeOK
  <2>8. QED
    BY <2>2, <2>3, <2>7, MarkKept DEF MarksMatter
<1>3. CASE \E b \in Block : WriteFault(b) \/ WriteFaultDone(b)
  <2>1. Reachable' \subseteq Reachable
    BY <1>3, FewerPointers DEF WriteFault, WriteFaultDone, heapVars
  <2>2. /\ UNCHANGED <<ptr, marked, stack, markState, scanPtr, areMarked, grungy,
                       pc, incremental>>
        /\ pc # "mark"
        /\ dirty \cup fault \subseteq dirty' \cup fault'
    BY <1>3 DEF WriteFault, WriteFaultDone, WorldRuns, heapVars, markVars, ctlVars
  <2>3. QED
    BY <2>1, <2>2, MarkKept DEF MarksMatter
<1>4. CASE \E r \in Reg, o \in Obj : Malloc(r, o)
  <2>1. PICK r \in Reg, o \in Obj : Malloc(r, o)
    BY <1>4
  <2>2. Reachable' \subseteq Reachable \cup {o}
    BY <2>1, MallocReaches
  <2>3. /\ UNCHANGED <<ptr, marked, stack, markState, scanPtr, areMarked, grungy, dirty,
                       fault, pc, incremental>>
        /\ pc = "idle"
        /\ ptr[o] = {}
    BY <2>1 DEF Malloc, HeapInv, markVars, pageVars, ctlVars
  <2>4. TriColour'
    <3> SUFFICES ASSUME MarksMatter', NEW x \in marked' \cap Reachable', ~ ToScan(x)'
                 PROVE  ptr'[x] \subseteq marked'
      BY DEF TriColour
    <3>1. MarksMatter /\ ~ ToScan(x)
      BY <2>3 DEF MarksMatter, ToScan
    <3>2. QED
      BY <2>2, <2>3, <3>1 DEF MarkInv, TriColour
  <2>5. FreshMarks' /\ RootsMarked' /\ MarkComplete'
    BY <2>3 DEF MarkInv, FreshMarks, RootsMarked, MarkComplete, MarksMatter
  <2>6. QED
    BY <2>4, <2>5 DEF MarkInv
<1>5. CASE \E r \in Reg : Free(r)
  <2>1. Reachable' \subseteq Reachable
    BY <1>5, FreeReaches
  <2>2. /\ UNCHANGED <<marked, stack, markState, scanPtr, areMarked, grungy, dirty,
                       fault, pc, incremental>>
        /\ pc = "idle"
        /\ \A o \in Obj : ptr'[o] \subseteq ptr[o]
    <3>1. PICK r \in Reg : Free(r)
      BY <1>5
    <3>2. \A o \in Obj : ptr'[o] \subseteq ptr[o]
      BY <3>1 DEF Free, TypeOK
    <3>3. QED
      BY <3>1, <3>2 DEF Free, markVars, pageVars, ctlVars
  <2>3. \A o \in marked' \cap Reachable' : o \in marked /\ ptr'[o] \subseteq ptr[o]
    BY <2>2 DEF TypeOK
  <2>4. QED
    BY <2>1, <2>2, <2>3, MarkKept DEF MarksMatter
<1>6. CASE \E b \in Block : ContinueReclaim(b) \/ TryReclaim(b)
  <2>1. PICK b \in Block : ContinueReclaim(b) \/ TryReclaim(b)
    BY <1>6
  <2>2. /\ ReclaimBlocks({b}) /\ marked' = SweptMarks({b})
        /\ UNCHANGED <<reg, held, stack, markState, scanPtr, areMarked, grungy, fault,
                       pc, incremental>>
        /\ pc \in {"idle", "trying"}
    BY <2>1 DEF ContinueReclaim, TryReclaim, ctlVars
  <2>3. Reachable' \subseteq Reachable
    BY <2>2, ReclaimPointers, FewerPointers
  <2>4. \A o \in marked' \cap Reachable' :
          ptr'[o] = {} \/ (o \in marked /\ ptr'[o] \subseteq ptr[o])
    BY <2>2 DEF ReclaimBlocks, SweptMarks, Unc, TypeOK
  <2>5. /\ dirty \subseteq dirty' /\ marked \subseteq marked'
        /\ marked' \subseteq marked \cup Unc
    BY <2>2 DEF ReclaimBlocks, RemoveProtection, SweptMarks
  <2>6. QED
    BY <2>2, <2>3, <2>4, <2>5, MarkKept DEF MarksMatter
<1>7. CASE \E b \in Block : NewHblk(b)
  <2>1. PICK b \in Block : NewHblk(b)
    BY <1>7
  <2>2. Reachable' \subseteq Reachable
    BY <2>1, FewerPointers DEF NewHblk, TypeOK
  <2>3. /\ UNCHANGED <<stack, markState, scanPtr, areMarked, grungy, fault, pc, incremental>>
        /\ pc = "idle"
        /\ dirty \subseteq dirty'
    BY <2>1 DEF NewHblk, RemoveProtection, ctlVars
  <2>4. marked \cap Reachable \subseteq marked'
    BY <2>1 DEF NewHblk, Objs, HeapInv
  <2>5. marked' \subseteq marked \cup Unc
    BY <2>1 DEF NewHblk, Objs, Unc
  <2>6. \A o \in marked' \cap Reachable' :
          ptr'[o] = {} \/ (o \in marked /\ ptr'[o] \subseteq ptr[o])
    BY <2>1 DEF NewHblk, Objs, TypeOK
  <2>7. QED
    BY <2>2, <2>3, <2>4, <2>5, <2>6, MarkKept DEF MarksMatter
<1>8. QED
  BY <1>1, <1>2, <1>3, <1>4, <1>5, <1>6, <1>7 DEF Program

\* The steps that begin, stop, give up and end a collection keep it.
LEMMA CollectorMarks ==
  ASSUME Inv, TypeOK',
         \/ MarkDone \/ StopWorld \/ Abandon \/ GC_finish_collection
         \/ TryStopped \/ TryBegin \/ Calls \/ UNCHANGED vars
  PROVE  MarkInv'
<1> USE DEF Inv
<1>1. CASE MarkDone
  <2>1. /\ Reachable' = Reachable
        /\ UNCHANGED <<ptr, marked, dirty, fault, incremental>>
        /\ stack' = {} /\ markState' = "none" /\ pc' # "mark"
    BY <1>1 DEF MarkDone, heapVars, pageVars, Reachable, RootObjs
  <2>2. TriColour'
    <3> SUFFICES ASSUME MarksMatter', NEW o \in marked' \cap Reachable', ~ ToScan(o)'
                 PROVE  ptr'[o] \subseteq marked'
      BY DEF TriColour
    <3>1. MarksMatter
      BY <1>1 DEF MarkDone, MarksMatter
    <3>2. ~ ToScan(o)
      BY <1>1, <2>1 DEF MarkDone, ToScan
    <3>3. QED
      BY <2>1, <3>1, <3>2 DEF MarkInv, TriColour
  <2>3. FreshMarks' /\ RootsMarked'
    BY <2>1 DEF FreshMarks, RootsMarked
  <2>4. MarkComplete'
    <3>1. pc' = "finish" => pc = "mark"
      BY <1>1 DEF MarkDone
    <3>2. QED
      BY <1>1, <2>1, <3>1, DoneComplete DEF MarkComplete
  <2>5. QED
    BY <2>2, <2>3, <2>4 DEF MarkInv
<1>2. CASE StopWorld
  <2>0. /\ UNCHANGED <<ptr, reg, held>>
        /\ UNCHANGED <<marked, areMarked, stack, incremental>>
        /\ pc = "stop" /\ fault = {} /\ scanPtr' = 0
    BY <1>2 DEF StopWorld, heapVars
  <2>1. /\ pc' = "mark"
        /\ \/ markState = "invalid" /\ markState' = "invalid"
           \/ markState = "none" /\ markState' = "push_rescuers" /\ grungy' = dirty
    BY <1>2 DEF StopWorld, ControlInv
  <2> Reachable' = Reachable
    BY <2>0 DEF Reachable, RootObjs
  <2>2. TriColour'
    <3>1. CASE markState' = "invalid"
      BY <3>1 DEF TriColour, ToScan
    <3>2. CASE markState' = "push_rescuers"
      <4> SUFFICES ASSUME NEW o \in marked' \cap Reachable', ~ ToScan(o)'
                   PROVE  ptr'[o] \subseteq marked'
        BY DEF TriColour
      <4>1. BlockOf[o] \in Nat
        <5>1. o \in Obj
          BY <2>0 DEF TypeOK
        <5>2. QED
          BY <5>1, BlockAssumption DEF Block
      <4>2. ~ ToScan(o)
        BY <2>0, <2>1, <3>2, <4>1, SMTT(30) DEF ToScan
      <4>3. QED
        BY <2>0, <2>1, <4>2 DEF MarkInv, TriColour, MarksMatter
    <3>3. QED
      BY <2>0, <2>1, <3>1, <3>2
  <2>3. FreshMarks'
    BY <2>0, <2>1 DEF MarkInv, FreshMarks, MarksMatter
  <2>4. RootsMarked' /\ MarkComplete'
    BY <2>0, <2>1 DEF RootsMarked, MarkComplete
  <2>5. QED
    BY <2>2, <2>3, <2>4 DEF MarkInv
<1>3. CASE Abandon
  <2>1. /\ UNCHANGED <<ptr, reg, held, marked, areMarked, scanPtr, grungy, dirty, fault,
                       incremental>>
        /\ pc = "mark" /\ pc' \in {"idle", "trying"}
        /\ incremental => UNCHANGED <<markState, stack>>
    BY <1>3 DEF Abandon, Home, heapVars, pageVars
  <2>2. CASE incremental
    <3>1. Reachable' \subseteq Reachable
      BY <2>1, FewerPointers
    <3>2. QED
      BY <2>1, <2>2, <3>1, MarkKept DEF MarksMatter
  <2>3. CASE ~ incremental
    <3>1. ~ MarksMatter'
      BY <2>1, <2>3 DEF MarksMatter
    <3>2. QED
      BY <2>1, <3>1 DEF MarkInv, TriColour, FreshMarks, RootsMarked, MarkComplete
  <2>4. QED
    BY <2>2, <2>3
<1>4. CASE GC_finish_collection
  <2>1. /\ UNCHANGED <<ptr, reg, held, stack, markState, areMarked, scanPtr, grungy, dirty,
                       fault, incremental>>
        /\ pc = "finish" /\ pc' \in {"idle", "trying"}
        /\ marked' = marked \ freelist
    BY <1>4 DEF GC_finish_collection, Home, pageVars
  <2>2. Reachable' \subseteq Reachable
    BY <2>1, FewerPointers
  <2>3. marked \cap Reachable \subseteq marked'
    BY <2>1 DEF HeapInv
  <2>4. QED
    BY <2>1, <2>2, <2>3, MarkKept DEF MarksMatter
<1>5. CASE TryStopped \/ \E f \in StopFuncs : TryToCollect(f)
  <2>1. /\ UNCHANGED <<ptr, reg, held, marked, stack, markState, areMarked, scanPtr, grungy,
                       dirty, fault, incremental>>
        /\ pc' \in {"idle", "trying"}
    BY <1>5 DEF TryStopped, TryToCollect, heapVars, markVars, pageVars
  <2>2. Reachable' \subseteq Reachable
    BY <2>1, FewerPointers
  <2>3. QED
    BY <2>1, <2>2, MarkKept DEF MarksMatter
<1>6. ASSUME pc' = "stop", NEW m, ClearMarks(m)
      PROVE  MarkInv'
  <2>1. markState' = "invalid" /\ scanPtr' = 0 /\ marked' \subseteq Unc
    BY <1>6 DEF ClearMarks
  <2>2. TriColour'
    BY <2>1 DEF TriColour, ToScan
  <2>3. FreshMarks'
    BY <2>1 DEF FreshMarks, Unc
  <2>4. QED
    BY <1>6, <2>2, <2>3 DEF MarkInv, RootsMarked, MarkComplete
<1>7. CASE TryBegin
  BY <1>6, <1>7 DEF TryBegin
<1>8. CASE GC_maybe_gc
  <2>1. CASE UNCHANGED <<heapVars, markVars, dirty, protected, isFull>>
    <3>1. /\ UNCHANGED <<ptr, reg, held, marked, stack, markState, areMarked, scanPtr, grungy,
                         dirty, fault, incremental>>
          /\ pc' = "stop" /\ incremental
      BY <1>8, <2>1 DEF GC_maybe_gc, heapVars, markVars
    <3>2. Reachable' \subseteq Reachable
      BY <3>1, FewerPointers
    <3>3. QED
      BY <3>1, <3>2, MarkKept DEF MarksMatter
  <2>2. CASE \E m : ClearMarks(m)
    BY <1>6, <1>8, <2>2 DEF GC_maybe_gc
  <2>3. QED
    BY <1>8, <2>1, <2>2 DEF GC_maybe_gc
<1>9. CASE UNCHANGED vars
  <2>1. /\ UNCHANGED <<ptr, reg, held, marked, stack, markState, areMarked, scanPtr, grungy,
                       dirty, fault, incremental, pc>>
        /\ RootObjs' = RootObjs
    BY <1>9 DEF vars, heapVars, markVars, pageVars, ctlVars, RootObjs
  <2>2. Reachable' \subseteq Reachable
    BY <2>1, FewerPointers
  <2>3. QED
    BY <2>1, <2>2, MarkKept DEF MarksMatter
<1>10. QED
  BY <1>1, <1>2, <1>3, <1>4, <1>5, <1>7, <1>8, <1>9 DEF Calls

-----------------------------------------------------------------------------
\* The initial state satisfies the inductive invariant.
LEMMA InitInv == Init => Inv
<1> SUFFICES ASSUME Init PROVE Inv
  OBVIOUS
<1>1. TypeOK
  BY InitType
<1>2. Reachable = {}
  <2>1. RootObjs \cup held = {}
    BY DEF Init, RootObjs
  <2>2. Closed({}, {}, ptr)
    BY DEF Closed
  <2>3. QED
    BY <2>1, <2>2, ReachableLeast DEF Reachable
<1>3. HeapInv
  BY <1>2 DEF Init, HeapInv
<1>4. BarrierInv
  BY DEF Init, BarrierInv
<1>5. ControlInv
  BY <1>1, FS_EmptySet, StackAssumption, SMTT(30) DEF Init, ControlInv
<1>6. MarkInv
  BY <1>2 DEF Init, MarkInv, TriColour, FreshMarks, RootsMarked, MarkComplete
<1>7. QED
  BY <1>1, <1>3, <1>4, <1>5, <1>6 DEF Inv

\* Every step keeps the inductive invariant.
LEMMA NextInv ==
  ASSUME Inv, [Next]_vars
  PROVE  Inv'
<1>1. TypeOK'
  BY NextType DEF Inv, ControlInv
<1>2. HeapInv' /\ BarrierInv' /\ ControlInv'
  BY <1>1, NextHeap, NextBarrier, NextControl
<1>3. MarkInv'
  BY <1>1, MarkSomeMarks, ProgramMarks, CollectorMarks DEF Next, Collector
<1>4. QED
  BY <1>1, <1>2, <1>3 DEF Inv

\* For any heap, any mix of block kinds and any mark stack, the inductive
\* invariant of marking, sweeping and the write barrier holds throughout.
THEOREM HeapInvariant == Spec => []Inv
BY InitInv, NextInv, PTL DEF Spec

\* No object the program can reach is put on a free list by GC_reclaim_block or
\* given up with its block by GC_finish_collection, whatever the interleaving of
\* the program with an incremental collection.
THEOREM LiveObjectsKept == Spec => []LiveKept
<1>1. Inv => LiveKept
  BY DEF Inv, HeapInv, LiveKept
<1>2. QED
  BY <1>1, HeapInvariant, PTL

\* When GC_stopped_mark has run GC_mark_some to its end, every object the program
\* can reach is marked, mark stack overflows and dirty pages included.
THEOREM MarkingComplete == Spec => []MarkComplete
<1>1. Inv => MarkComplete
  BY DEF Inv, MarkInv
<1>2. QED
  BY <1>1, HeapInvariant, PTL

\* GC_initiate_gc never finds a mark phase in progress, its
\* ABORT("unexpected state").
THEOREM NeverAborts == Spec => []NoAbort
<1>1. Inv => NoAbort
  BY DEF Inv, ControlInv, NoAbort
<1>2. QED
  BY <1>1, HeapInvariant, PTL

=============================================================================
