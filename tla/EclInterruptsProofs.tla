------------------------- MODULE EclInterruptsProofs -------------------------
(***************************************************************************)
(* Proofs about EclInterrupts, for any number of senders, records and      *)
(* interrupts.  In every setting interrupts do not run where they are      *)
(* disabled, and the queue lock is respected by nested handlers; in an     *)
(* orderly one no record and no interrupt is lost or repeated.             *)
(*                                                                         *)
(* InterruptsInv says of all frames of the target, not only the innermost, *)
(* where they can be: what is above a frame returns to it later.  In an    *)
(* orderly setting it says that there is at most one, and that the lists   *)
(* are linked as the code that holds them at the moment expects.           *)
(***************************************************************************)
EXTENDS EclInterruptsLemmas

(* The parts make up the invariant.                                        *)
LEMMA InvParts == InterruptsInv <=> Parts /\ (Orderly => Tidy)
<1>1. {prot, lisp, sig, blocked, crashed} \subseteq BOOLEAN
        <=> prot \in BOOLEAN /\ lisp \in BOOLEAN /\ sig \in BOOLEAN /\ blocked \in BOOLEAN
            /\ crashed \in BOOLEAN
  OBVIOUS
<1> QED
  BY <1>1 DEF InterruptsInv, InterruptsTypeOK, Parts, CtxOK, FrameType, HeapTypes, CodeTypes,
              SenderTypes, DoneTypes, LockOK

(* The same in the next state.                                             *)
LEMMA InvPartsNext == InterruptsInv' <=> Parts' /\ (Orderly' => Tidy')
BY InvParts, PTL

(* TargetLocked is a finite set of numbers of frames.                      *)
LEMMA LockedFinite ==
    ASSUME CtxOK
    PROVE  IsFiniteSet(TargetLocked) /\ Cardinality(TargetLocked) \in Nat
<1>1. Len(ctx) \in Nat /\ TargetLocked \subseteq 1 .. Len(ctx)
  BY DEF CtxOK, TargetLocked
<1>2. IsFiniteSet(1 .. Len(ctx))
  BY <1>1, FS_Interval
<1> QED
  BY <1>1, <1>2, FS_Subset, FS_CardinalityType, Zenon

-----------------------------------------------------------------------------
(* A step that changes the innermost frame.                                *)
LEMMA TopSet ==
    ASSUME CtxOK, ctx # <<>>, UNCHANGED <<lisp, sect>>,
           NEW f \in FrameType, SetTop(f), FrameOK(f)
    PROVE  /\ CtxOK'
           /\ f.at \notin LockPlaces => TargetLocked' = TargetLocked \ {Len(ctx)}
           /\ f.at \in LockPlaces => TargetLocked' = TargetLocked \cup {Len(ctx)}
<1>1. /\ Len(ctx) \in Nat \ {0} /\ ctx' \in Seq(FrameType) /\ Len(ctx') = Len(ctx)
      /\ ctx'[Len(ctx)] = f /\ \A i \in 1 .. Len(ctx) : i # Len(ctx) => ctx'[i] = ctx[i]
  BY DEF CtxOK, SetTop
<1>2. ASSUME NEW g, FrameOK(g)
      PROVE  FrameOK(g)'
  BY <1>2 DEF FrameOK
<1>3. CtxOK'
  BY <1>1, <1>2 DEF CtxOK
<1>4. ASSUME NEW i \in 1 .. Len(ctx)
      PROVE  i \in TargetLocked' <=> IF i = Len(ctx) THEN f.at \in LockPlaces ELSE i \in TargetLocked
  BY <1>1 DEF TargetLocked, LockPlaces
<1>5. TargetLocked' \subseteq 1 .. Len(ctx) /\ TargetLocked \subseteq 1 .. Len(ctx)
      /\ Len(ctx) \in 1 .. Len(ctx)
  BY <1>1 DEF TargetLocked
<1> QED
  BY <1>3, <1>4, <1>5, Zenon

(* A frame is pushed.                                                      *)
LEMMA TopPushed ==
    ASSUME CtxOK, UNCHANGED <<lisp, sect>>,
           NEW f \in FrameType, PushFrame(f), FrameOK(f), f.at \notin LockPlaces
    PROVE  CtxOK' /\ TargetLocked' = TargetLocked
<1>1. /\ Len(ctx) \in Nat /\ ctx' \in Seq(FrameType) /\ Len(ctx') = Len(ctx) + 1
      /\ ctx'[Len(ctx) + 1] = f /\ \A i \in 1 .. Len(ctx) : ctx'[i] = ctx[i]
  BY DEF CtxOK, PushFrame
<1>2. ASSUME NEW g, FrameOK(g)
      PROVE  FrameOK(g)'
  BY <1>2 DEF FrameOK
<1>3. \A i \in 1 .. Len(ctx') : i \in 1 .. Len(ctx) \/ i = Len(ctx) + 1
  BY <1>1
<1>4. CtxOK'
  BY <1>1, <1>2, <1>3 DEF CtxOK
<1>5. TargetLocked' = TargetLocked
  <2>1. \A i \in 1 .. Len(ctx) : i \in 1 .. Len(ctx')
    BY <1>1
  <2>2. Len(ctx) + 1 \notin TargetLocked'
    BY <1>1 DEF TargetLocked, LockPlaces
  <2>3. \A i \in 1 .. Len(ctx) : i \in TargetLocked' <=> i \in TargetLocked
    BY <1>1, <2>1 DEF TargetLocked
  <2>4. TargetLocked' \subseteq 1 .. Len(ctx') /\ TargetLocked \subseteq 1 .. Len(ctx)
    BY DEF TargetLocked
  <2> QED
    BY <1>3, <2>2, <2>3, <2>4, Zenon
<1> QED
  BY <1>4, <1>5

(* The innermost frame ends.                                               *)
LEMMA TopPopped ==
    ASSUME CtxOK, ctx # <<>>, UNCHANGED <<lisp, sect>>, PopFrame
    PROVE  CtxOK' /\ TargetLocked' = TargetLocked \ {Len(ctx)}
<1>1. /\ Len(ctx) \in Nat \ {0} /\ ctx' \in Seq(FrameType) /\ Len(ctx') = Len(ctx) - 1
      /\ \A i \in 1 .. Len(ctx) - 1 : ctx'[i] = ctx[i]
  <2>1. ctx \in Seq(FrameType) /\ ctx' = SubSeq(ctx, 1, Len(ctx) - 1)
    BY DEF CtxOK, PopFrame
  <2> QED
    BY <2>1, Shorter
<1>2. ASSUME NEW g, FrameOK(g)
      PROVE  FrameOK(g)'
  BY <1>2 DEF FrameOK
<1>3. CtxOK'
  BY <1>1, <1>2 DEF CtxOK
<1>4. \A i : i \in 1 .. Len(ctx') <=> i \in 1 .. Len(ctx) /\ i # Len(ctx)
  BY <1>1
<1>5. TargetLocked' = TargetLocked \ {Len(ctx)}
  BY <1>1, <1>4 DEF TargetLocked
<1> QED
  BY <1>3, <1>5

(* A step that changes neither the lock nor who has it.                    *)
LEMMA LockKept ==
    ASSUME LockOK, UNCHANGED qlock, TargetLocked' = TargetLocked,
           \A s \in Sender : spc'[s] \in SenderLocked <=> spc[s] \in SenderLocked
    PROVE  LockOK'
BY DEF LockOK, QueueLockOK

(* The innermost frame moves or ends, and neither has nor gets the lock.   *)
LEMMA TopMoved ==
    ASSUME CtxOK, ctx # <<>>, UNCHANGED <<lisp, sect>>, Top.at \notin LockPlaces,
           PopFrame \/ \E f \in FrameType : SetTop(f) /\ FrameOK(f) /\ f.at \notin LockPlaces
    PROVE  CtxOK' /\ TargetLocked' = TargetLocked
<1>1. Len(ctx) \notin TargetLocked
  BY TopFacts
<1>2. CASE PopFrame
  BY <1>1, <1>2, TopPopped
<1>3. CASE \E f \in FrameType : SetTop(f) /\ FrameOK(f) /\ f.at \notin LockPlaces
  BY <1>1, <1>3, TopSet, Zenon
<1> QED
  BY <1>2, <1>3

(* Parts that do not change.                                               *)
LEMMA PartsKept ==
    ASSUME Parts
    PROVE  /\ UNCHANGED <<heapVars, pend>> => HeapTypes'
           /\ UNCHANGED <<mode, dis, prot, codeVars, sigVars>> => CodeTypes'
           /\ UNCHANGED senderVars => SenderTypes'
           /\ UNCHANGED doneVars => DoneTypes'
           /\ UNCHANGED <<qlock, senderVars>> /\ TargetLocked' = TargetLocked => LockOK'
<1>1. UNCHANGED <<heapVars, pend>> => HeapTypes'
  BY DEF Parts, HeapTypes, heapVars
<1>2. UNCHANGED <<mode, dis, prot, codeVars, sigVars>> => CodeTypes'
  BY DEF Parts, CodeTypes, codeVars, sigVars
<1>3. UNCHANGED senderVars => SenderTypes'
  BY DEF Parts, SenderTypes, SenderOK, senderVars
<1>4. UNCHANGED doneVars => DoneTypes'
  BY DEF Parts, DoneTypes, doneVars
<1>5. UNCHANGED <<qlock, senderVars>> /\ TargetLocked' = TargetLocked => LockOK'
  BY LockKept DEF Parts, senderVars
<1> QED
  BY <1>1, <1>2, <1>3, <1>4, <1>5, Zenon

-----------------------------------------------------------------------------
(* The program of the target.                                              *)
LEMMA CodeParts ==
    ASSUME Parts, UNCHANGED mode,
           \/ \E s \in mode.sections : DisableInterrupts(s)
           \/ Allocate \/ StoreStack \/ EnableInterrupts \/ EnterWithoutInterrupts
    PROVE  Parts'
<1>1. /\ ctx = <<>> /\ ctx' = ctx
      /\ UNCHANGED <<heapVars, pend>> /\ UNCHANGED senderVars /\ UNCHANGED doneVars
      /\ UNCHANGED qlock
  BY DEF DisableInterrupts, Allocate, StoreStack, EnableInterrupts, EnterWithoutInterrupts,
         Runs, envVars
<1>2. CtxOK' /\ TargetLocked' = TargetLocked
  BY <1>1 DEF Parts, CtxOK, TargetLocked
<1>3. CodeTypes'
  <2> USE DEF Parts, CodeTypes
  <2>1. CASE \E s \in mode.sections : DisableInterrupts(s)
    BY <2>1 DEF DisableInterrupts, sigVars
  <2>2. CASE Allocate \/ StoreStack
    BY <2>2 DEF Allocate, StoreStack, envVars, sigVars
  <2>3. CASE EnableInterrupts
    BY <2>3 DEF EnableInterrupts, sigVars
  <2>4. CASE EnterWithoutInterrupts
    BY <2>4, Zenon DEF EnterWithoutInterrupts, envVars, sigVars
  <2> QED
    BY <2>1, <2>2, <2>3, <2>4, Zenon
<1> QED
  BY <1>1, <1>2, <1>3, PartsKept DEF Parts

(* The end of a without-interrupts form.                                   *)
LEMMA LeaveParts ==
    ASSUME Parts, UNCHANGED mode, LeaveWithoutInterrupts
    PROVE  Parts'
<1> DEFINE f == Frame("check", "check")
<1>1. /\ ctx = <<>> /\ ctx' = Append(ctx, f) /\ lisp' /\ lisp' \in BOOLEAN
      /\ sect = "none" /\ sect' = "none"
      /\ UNCHANGED <<heapVars, pend>> /\ UNCHANGED senderVars /\ UNCHANGED doneVars
      /\ UNCHANGED qlock /\ UNCHANGED <<dis, prot, sigVars>>
  BY DEF LeaveWithoutInterrupts, PushFrame, Runs, envVars
<1>2. f \in FrameType /\ f.at = "check" /\ f.kind = "check"
  BY DEF Frame, FrameType, FramePlaces
<1>3. ctx' \in Seq(FrameType) /\ Len(ctx') = 1 /\ ctx'[1] = f
  <2> HIDE DEF f
  <2> QED
    BY <1>1, <1>2
<1>4. FrameOK(f)'
  <2> HIDE DEF f
  <2> QED
    BY <1>1, <1>2 DEF FrameOK
<1> HIDE DEF f
<1>5. CtxOK'
  BY <1>3, <1>4 DEF CtxOK
<1>6. TargetLocked' = TargetLocked
  BY <1>1, <1>2, <1>3 DEF TargetLocked
<1>7. CodeTypes'
  BY <1>1 DEF Parts, CodeTypes, sigVars
<1> QED
  BY <1>1, <1>5, <1>6, <1>7, PartsKept, Zenon DEF Parts

(* The kernel delivers the signal.                                         *)
LEMMA DeliverParts ==
    ASSUME Parts, UNCHANGED mode, Deliver
    PROVE  Parts'
<1>1. /\ PushFrame(Frame("handler", "popRead"))
      /\ UNCHANGED <<heapVars, pend>> /\ UNCHANGED senderVars /\ UNCHANGED doneVars
      /\ UNCHANGED qlock /\ UNCHANGED <<lisp, sect>>
  BY DEF Deliver, envVars, codeVars
<1>2. /\ Frame("handler", "popRead") \in FrameType
      /\ FrameOK(Frame("handler", "popRead"))
      /\ Frame("handler", "popRead").at \notin LockPlaces
  BY DEF Frame, FrameType, FramePlaces, FrameOK, LockPlaces
<1>3. CtxOK' /\ TargetLocked' = TargetLocked
  BY <1>1, <1>2, TopPushed, Zenon DEF Parts
<1>4. CodeTypes'
  BY Zenon DEF Deliver, Parts, CodeTypes, envVars, codeVars
<1> QED
  BY <1>1, <1>3, <1>4, PartsKept, Zenon DEF Parts

(* A write to the protected environment traps.                             *)
LEMMA TrapParts ==
    ASSUME Parts, UNCHANGED mode, EnvTrap
    PROVE  Parts'
<1>1. /\ PushFrame(Frame("trap", "popRead")) /\ lisp /\ sect # "alloc"
      /\ UNCHANGED <<heapVars, pend>> /\ UNCHANGED senderVars /\ UNCHANGED doneVars
      /\ UNCHANGED qlock /\ UNCHANGED <<lisp, sect>>
  BY DEF EnvTrap, codeVars, Parts, CodeTypes
<1>2. /\ Frame("trap", "popRead") \in FrameType
      /\ FrameOK(Frame("trap", "popRead"))
      /\ Frame("trap", "popRead").at \notin LockPlaces
  BY <1>1 DEF Frame, FrameType, FramePlaces, FrameOK, LockPlaces
<1>3. CtxOK' /\ TargetLocked' = TargetLocked
  BY <1>1, <1>2, TopPushed DEF Parts
<1>4. CodeTypes'
  BY Zenon DEF EnvTrap, Parts, CodeTypes, codeVars
<1> QED
  BY <1>1, <1>3, <1>4, PartsKept, Zenon DEF Parts

-----------------------------------------------------------------------------
(* The innermost frame at another place, with another record and code.     *)
LEMMA TopWithFields ==
    ASSUME CtxOK, ctx # <<>>,
           NEW a \in FramePlaces, NEW r \in Rec \cup {Nil}, NEW c \in Code \cup {0}
    PROVE  /\ TopWith(a, r, c) \in FrameType
           /\ TopWith(a, r, c).kind = Top.kind /\ TopWith(a, r, c).at = a
           /\ TopWith(a, r, c).rec = r /\ TopWith(a, r, c).code = c
<1>1. Top \in FrameType
  BY TopFacts
<1>2. Top.kind \in {"handler", "trap", "check"}
  BY <1>1 DEF FrameType
<1> QED
  BY <1>2 DEF FrameType, TopWith

(* The innermost frame goes to a place without the lock from one.          *)
LEMMA TopGoes ==
    ASSUME CtxOK, ctx # <<>>, UNCHANGED <<lisp, sect>>, Top.at \notin LockPlaces,
           NEW a \in FramePlaces \ LockPlaces, NEW r \in Rec \cup {Nil}, NEW c \in Code \cup {0},
           SetTop(TopWith(a, r, c)), FrameOK(TopWith(a, r, c))
    PROVE  CtxOK' /\ TargetLocked' = TargetLocked
BY TopMoved, TopWithFields

(* ecl_check_pending_interrupts.                                           *)
LEMMA CheckPendingParts ==
    ASSUME Parts, UNCHANGED mode, CheckPending
    PROVE  Parts'
<1>1. /\ ctx # <<>> /\ Top.at = "check" /\ UNCHANGED <<lisp, sect>>
      /\ PopFrame \/ SetTop(TopWith("popRead", Top.rec, Top.code))
      /\ UNCHANGED <<heapVars, pend>> /\ UNCHANGED senderVars /\ UNCHANGED doneVars
      /\ UNCHANGED qlock
  BY DEF CheckPending, At, Goto, codeVars
<1>2. Top.kind = "check" /\ lisp /\ sect # "alloc"
  BY <1>1, TopFacts DEF Parts, FrameOK
<1>5. Top.rec \in Rec \cup {Nil} /\ Top.code \in Code \cup {0}
  BY <1>1, TopFacts DEF Parts, FrameType
<1>3. CtxOK' /\ TargetLocked' = TargetLocked
  <2>1. CASE PopFrame
    BY <1>1, <2>1, TopMoved DEF Parts, LockPlaces
  <2>2. CASE SetTop(TopWith("popRead", Top.rec, Top.code))
    <3>1. FrameOK(TopWith("popRead", Top.rec, Top.code))
      BY <1>2 DEF FrameOK, TopWith
    <3> QED
      BY <1>1, <1>5, <2>2, <3>1, TopGoes, Zenon DEF Parts, LockPlaces, FramePlaces
  <2> QED
    BY <1>1, <2>1, <2>2 DEF Parts
<1>4. CodeTypes'
  BY <1>2 DEF CheckPending, Parts, CodeTypes, codeVars, sigVars
<1> QED
  BY <1>1, <1>3, <1>4, PartsKept, Zenon DEF Parts

(* pop_signal reads the list.                                              *)
LEMMA PopReadParts ==
    ASSUME Parts, UNCHANGED mode, PopRead
    PROVE  Parts'
<1>1. /\ ctx # <<>> /\ Top.at = "popRead" /\ UNCHANGED <<lisp, sect>>
      /\ PopFrame \/ (pend \in Rec /\ SetTop(TopWith("popLock", pend, Top.code)))
      /\ UNCHANGED <<heapVars, pend>> /\ UNCHANGED senderVars /\ UNCHANGED doneVars
      /\ UNCHANGED qlock
  BY DEF PopRead, At, EndFrame, codeVars, envVars, Parts, HeapTypes
<1>2. FrameOK(Top) /\ Top \in FrameType
  BY <1>1, TopFacts DEF Parts
<1>3. CtxOK' /\ TargetLocked' = TargetLocked
  <2>1. CASE PopFrame
    BY <1>1, <2>1, TopMoved, Zenon DEF Parts, LockPlaces
  <2>2. CASE pend \in Rec /\ SetTop(TopWith("popLock", pend, Top.code))
    <3>1. FrameOK(TopWith("popLock", pend, Top.code))
      BY <1>1, <1>2, <2>2 DEF FrameOK, TopWith
    <3>2. Top.code \in Code \cup {0}
      BY <1>2 DEF FrameType
    <3> QED
      BY <1>1, <2>2, <3>1, <3>2, TopGoes, Zenon DEF Parts, LockPlaces, FramePlaces
  <2> QED
    BY <1>1, <2>1, <2>2 DEF Parts
<1>4. CodeTypes'
  BY Zenon DEF PopRead, EndFrame, Parts, CodeTypes, codeVars, envVars
<1> QED
  BY <1>1, <1>3, <1>4, PartsKept, Zenon DEF Parts

(* mp_get_lock in pop_signal: the lock is free, or a frame below has it.   *)
LEMMA PopLockParts ==
    ASSUME Parts, UNCHANGED mode, PopLock
    PROVE  Parts'
<1>1. /\ ctx # <<>> /\ Top.at = "popLock" /\ UNCHANGED <<lisp, sect>>
      /\ UNCHANGED <<heapVars, pend>> /\ UNCHANGED senderVars /\ UNCHANGED doneVars
  BY DEF PopLock, At, codeVars, envVars
<1>2. FrameOK(Top) /\ Top \in FrameType /\ Len(ctx) \notin TargetLocked
  BY <1>1, TopFacts DEF Parts, LockPlaces
<1>3. CodeTypes'
  BY Zenon DEF PopLock, Parts, CodeTypes, codeVars, envVars
<1>4. CASE UNCHANGED <<qlock, ctx>>
  <2>1. CtxOK' /\ TargetLocked' = TargetLocked
    BY <1>1, <1>4, Zenon DEF Parts, CtxOK, FrameOK, TargetLocked
  <2> QED
    BY <1>1, <1>3, <1>4, <2>1, PartsKept, Zenon DEF Parts
<1>5. CASE GetQueueLock("target") /\ SetTop(TopWith("popUpdate", Top.rec, Top.code))
  <2> DEFINE f == TopWith("popUpdate", Top.rec, Top.code)
  <2>1. Top.rec \in Rec /\ Top.code \in Code \cup {0}
    BY <1>1, <1>2, Zenon DEF FrameType, FrameOK
  <2>2. f \in FrameType /\ f.at = "popUpdate" /\ f.rec = Top.rec /\ f.kind = Top.kind
    BY <1>1, <2>1, TopWithFields DEF Parts, FramePlaces
  <2>3. FrameOK(f)
    <3> HIDE DEF f
    <3> QED
      BY <1>1, <1>2, <2>1, <2>2, Zenon DEF FrameOK
  <2>4. CtxOK' /\ TargetLocked' = TargetLocked \cup {Len(ctx)}
    <3> SetTop(f)
      BY <1>5
    <3> HIDE DEF f
    <3> QED
      BY <1>1, <2>2, <2>3, TopSet, Zenon DEF Parts, LockPlaces
  <2>5. /\ Cardinality(TargetLocked) \in Nat
        /\ Cardinality(TargetLocked') = Cardinality(TargetLocked) + 1
    BY <1>2, <2>4, LockedFinite, FS_AddElement, Zenon DEF Parts
  <2>6. qlock.holder \in {Nil, "target"} /\ qlock.holder \notin Sender
    BY <1>5, InterruptsAssumption DEF GetQueueLock, CanGet
  <2>7. qlock' = [holder |-> "target", count |-> qlock.count + 1]
    BY <1>5 DEF GetQueueLock
  <2>8. qlock.count = Cardinality(TargetLocked)
    BY <2>6 DEF Parts, LockOK, QueueLockOK
  <2>9. LockOK'
    <3>1. \A s \in Sender : ~(spc'[s] \in SenderLocked) /\ qlock'.holder # s
      BY <1>1, <2>6, <2>7, InterruptsAssumption, Zenon DEF Parts, LockOK, QueueLockOK, senderVars
    <3>2. TargetLocked' # {}
      BY <2>4, Zenon
    <3>3. /\ qlock'.holder = "target" /\ qlock'.holder \notin Sender
          /\ qlock'.count = Cardinality(TargetLocked')
      BY <2>5, <2>7, <2>8, InterruptsAssumption, Zenon
    <3>4. qlock' \in [holder : Sender \cup {"target", Nil}, count : Nat]
      BY <2>5, <2>7, <2>8
    <3> QED
      BY <3>1, <3>2, <3>3, <3>4, Zenon DEF LockOK, QueueLockOK
  <2> QED
    BY <1>1, <1>3, <2>4, <2>9, PartsKept, Zenon DEF Parts
<1> QED
  BY <1>4, <1>5 DEF PopLock, Goto

(* pop_signal moves the record to the free list.                           *)
LEMMA PopUpdateParts ==
    ASSUME Parts, UNCHANGED mode, PopUpdate
    PROVE  Parts'
<1>1. /\ ctx # <<>> /\ Top.at = "popUpdate" /\ UNCHANGED <<lisp, sect>>
      /\ UNCHANGED senderVars /\ UNCHANGED doneVars /\ UNCHANGED qlock
      /\ UNCHANGED <<mode, dis, prot, codeVars, sigVars>>
  BY DEF PopUpdate, At, codeVars
<1>2. FrameOK(Top) /\ Top \in FrameType /\ Len(ctx) \in TargetLocked
  BY <1>1, TopFacts DEF Parts, LockPlaces
<1>3. Top.rec \in Rec
  BY <1>1, <1>2 DEF FrameOK
<1>4. HeapTypes'
  BY <1>3 DEF PopUpdate, Parts, HeapTypes
<1>5. car[Top.rec] \in Code \cup {0}
  BY <1>3, Zenon DEF Parts, HeapTypes
<1> DEFINE f == TopWith("popUnlock", Nil, car[Top.rec])
<1>6. f \in FrameType /\ f.at = "popUnlock" /\ f.kind = Top.kind
  BY <1>1, <1>5, TopWithFields DEF Parts, FramePlaces
<1>7. SetTop(f)
  BY DEF PopUpdate
<1> HIDE DEF f
<1>8. FrameOK(f)
  BY <1>1, <1>2, <1>6, Zenon DEF FrameOK
<1>9. CtxOK' /\ TargetLocked' = TargetLocked
  <2>1. CtxOK' /\ TargetLocked' = TargetLocked \cup {Len(ctx)}
    BY <1>1, <1>6, <1>7, <1>8, TopSet, Zenon DEF Parts, LockPlaces
  <2> QED
    BY <1>2, <2>1
<1> QED
  BY <1>1, <1>4, <1>9, PartsKept, Zenon DEF Parts

(* mp_giveup_lock in pop_signal.                                           *)
LEMMA PopUnlockParts ==
    ASSUME Parts, UNCHANGED mode, PopUnlock
    PROVE  Parts'
<1>1. /\ ctx # <<>> /\ Top.at = "popUnlock" /\ UNCHANGED <<lisp, sect>>
      /\ UNCHANGED <<heapVars, pend>> /\ UNCHANGED senderVars /\ UNCHANGED doneVars
      /\ GiveupQueueLock
  BY DEF PopUnlock, At, codeVars, envVars
<1>2. FrameOK(Top) /\ Top \in FrameType /\ Len(ctx) \in TargetLocked
  BY <1>1, TopFacts DEF Parts, LockPlaces
<1>3. CodeTypes'
  BY Zenon DEF PopUnlock, EndFrame, Parts, CodeTypes, codeVars, envVars
<1>4. CtxOK' /\ TargetLocked' = TargetLocked \ {Len(ctx)}
  <2>1. CASE PopFrame
    BY <1>1, <2>1, TopPopped, Zenon DEF Parts
  <2>2. ASSUME NEW a \in {"decide", "handle"}, a = (IF Top.kind = "handler" THEN "decide" ELSE "handle"),
               Top.code # 0, SetTop(TopWith(a, Top.rec, Top.code))
        PROVE  CtxOK' /\ TargetLocked' = TargetLocked \ {Len(ctx)}
    <3> DEFINE f == TopWith(a, Top.rec, Top.code)
    <3>1. Top.rec \in Rec \cup {Nil} /\ Top.code \in Code
      BY <1>2, <2>2, Zenon DEF FrameType
    <3>2. f \in FrameType /\ f.at = a /\ f.kind = Top.kind /\ f.code = Top.code
      BY <1>1, <3>1, TopWithFields DEF Parts, FramePlaces
    <3>3. SetTop(f)
      BY <2>2
    <3> HIDE DEF f
    <3>4. FrameOK(f)
      BY <1>2, <2>2, <3>1, <3>2, Zenon DEF FrameOK
    <3> QED
      BY <1>1, <3>2, <3>3, <3>4, TopSet, Zenon DEF Parts, LockPlaces
  <2> QED
    BY <2>1, <2>2 DEF PopUnlock, EndFrame, Goto
<1>5. /\ Cardinality(TargetLocked) \in Nat
      /\ IsFiniteSet(TargetLocked') /\ Cardinality(TargetLocked') = Cardinality(TargetLocked) - 1
  BY <1>2, <1>4, LockedFinite, FS_RemoveElement, Zenon DEF Parts
<1>6. Cardinality(TargetLocked') \in Nat /\ (Cardinality(TargetLocked') = 0 <=> TargetLocked' = {})
  BY <1>5, FS_CardinalityType, FS_EmptySet
<1>7. /\ qlock \in [holder : Sender \cup {"target", Nil}, count : Nat] /\ qlock.holder = "target"
      /\ qlock.count = Cardinality(TargetLocked)
      /\ \A s \in Sender : ~(spc[s] \in SenderLocked)
  BY <1>2, InterruptsAssumption, Zenon DEF Parts, LockOK, QueueLockOK
<1>8. \A s \in Sender : ~(spc'[s] \in SenderLocked)
  BY <1>1, <1>7 DEF senderVars
<1>9. LockOK'
  <2>1. CASE qlock.count = 1
    <3>1. qlock' = [holder |-> Nil, count |-> 0] /\ TargetLocked' = {} /\ Cardinality(TargetLocked') = 0
      BY <1>1, <1>5, <1>6, <1>7, <2>1 DEF GiveupQueueLock
    <3>2. Nil \notin Sender /\ Nil # "target"
      BY InterruptsAssumption, Zenon
    <3> QED
      BY <1>8, <3>1, <3>2, Zenon DEF LockOK, QueueLockOK
  <2>2. CASE qlock.count # 1
    <3>1. qlock' = [holder |-> "target", count |-> qlock.count - 1]
      BY <1>1, <1>7, <2>2, Zenon DEF GiveupQueueLock
    <3>2. TargetLocked' # {} /\ qlock.count - 1 = Cardinality(TargetLocked')
      BY <1>5, <1>6, <1>7, <2>2
    <3>3. "target" \notin Sender
      BY InterruptsAssumption
    <3> QED
      BY <1>6, <1>8, <3>1, <3>2, <3>3, Zenon DEF LockOK, QueueLockOK
  <2> QED
    BY <2>1, <2>2, Zenon
<1> QED
  BY <1>1, <1>3, <1>4, <1>9, PartsKept, Zenon DEF Parts

(* handle_or_queue.                                                        *)
LEMMA DecideParts ==
    ASSUME Parts, UNCHANGED mode, Decide
    PROVE  Parts'
<1>1. /\ ctx # <<>> /\ Top.at = "decide" /\ UNCHANGED <<lisp, sect>>
      /\ UNCHANGED <<heapVars, pend>> /\ UNCHANGED senderVars /\ UNCHANGED doneVars
      /\ UNCHANGED qlock
  BY DEF Decide, At, codeVars
<1>2. FrameOK(Top) /\ Top \in FrameType
  BY <1>1, TopFacts DEF Parts
<1>3. Top.rec \in Rec \cup {Nil} /\ Top.code \in Code /\ Top.kind = "handler"
  BY <1>1, <1>2 DEF FrameType, FrameOK
<1>4. CodeTypes'
  <2>1. dis \in {0, 1, 3} /\ blocked \in BOOLEAN
    BY DEF Parts, CodeTypes
  <2>2. dis' = dis \/ dis' = 3
    BY DEF Decide
  <2>3. blocked' = blocked \/ blocked' = FALSE
    BY DEF Decide
  <2>4. dis' \in {0, 1, 3} /\ (dis' = 0 => dis = 0)
    BY <2>1, <2>2
  <2>5. blocked' \in BOOLEAN
    BY <2>1, <2>3, Zenon
  <2>6. UNCHANGED <<mode, prot, lisp, sect, sig, crashed>>
    BY DEF Decide, codeVars
  <2> QED
    BY <2>4, <2>5, <2>6, Zenon DEF Parts, CodeTypes
<1>5. CtxOK' /\ TargetLocked' = TargetLocked
  <2>1. CASE SetTop(TopWith("qTake", Top.rec, Top.code))
    <3>1. FrameOK(TopWith("qTake", Top.rec, Top.code))
      BY <1>3 DEF FrameOK, TopWith
    <3> QED
      BY <1>1, <1>3, <2>1, <3>1, TopGoes, Zenon DEF Parts, LockPlaces, FramePlaces
  <2>2. CASE lisp /\ dis = 0 /\ SetTop(TopWith("handle", Top.rec, Top.code))
    <3>1. lisp /\ sect # "alloc"
      BY <2>2, Zenon DEF Parts, CodeTypes
    <3>2. FrameOK(TopWith("handle", Top.rec, Top.code))
      BY <1>3, <3>1 DEF FrameOK, TopWith
    <3> QED
      BY <1>1, <1>3, <2>2, <3>2, TopGoes, Zenon DEF Parts, LockPlaces, FramePlaces
  <2> QED
    BY <2>1, <2>2 DEF Decide, Goto
<1> QED
  BY <1>1, <1>4, <1>5, PartsKept, Zenon DEF Parts

(* handle_signal_now.                                                      *)
LEMMA HandleParts ==
    ASSUME Parts, UNCHANGED mode, Handle
    PROVE  Parts'
<1>1. /\ ctx # <<>> /\ Top.at = "handle" /\ UNCHANGED <<lisp, sect>>
      /\ PopFrame \/ SetTop(TopWith("popRead", Top.rec, Top.code))
      /\ UNCHANGED <<heapVars, pend>> /\ UNCHANGED senderVars /\ UNCHANGED qlock
  BY DEF Handle, At, Goto, EndFrame, codeVars, envVars
<1>2. FrameOK(Top) /\ Top \in FrameType
  BY <1>1, TopFacts DEF Parts
<1>3. /\ Top.rec \in Rec \cup {Nil} /\ Top.code \in Code /\ lisp /\ sect # "alloc"
      /\ Top.kind \in {"handler", "trap", "check"}
  BY <1>1, <1>2 DEF FrameType, FrameOK
<1>4. CodeTypes'
  BY Zenon DEF Handle, EndFrame, Parts, CodeTypes, codeVars, envVars
<1>5. CtxOK' /\ TargetLocked' = TargetLocked
  <2>1. CASE PopFrame
    BY <1>1, <2>1, TopMoved, Zenon DEF Parts, LockPlaces
  <2>2. CASE SetTop(TopWith("popRead", Top.rec, Top.code))
    <3>1. FrameOK(TopWith("popRead", Top.rec, Top.code))
      BY <1>3 DEF FrameOK, TopWith
    <3> QED
      BY <1>1, <1>3, <2>2, <3>1, TopGoes, Zenon DEF Parts, LockPlaces, FramePlaces
  <2> QED
    BY <1>1, <2>1, <2>2, Zenon
<1>6. DoneTypes'
  <2>1. handled \in [Code -> 0 .. 2] /\ lost' = lost /\ lost \subseteq Code
    BY DEF Handle, Parts, DoneTypes
  <2>2. handled[Top.code] \in 0 .. 2
    BY <1>3, <2>1
  <2>3. (IF handled[Top.code] < 2 THEN handled[Top.code] + 1 ELSE handled[Top.code]) \in 0 .. 2
    BY <2>2
  <2>4. handled' = [handled EXCEPT ![Top.code] =
                       IF handled[Top.code] < 2 THEN handled[Top.code] + 1 ELSE handled[Top.code]]
    BY DEF Handle
  <2> QED
    BY <2>1, <2>3, <2>4, Zenon DEF DoneTypes
<1> QED
  BY <1>1, <1>4, <1>5, <1>6, PartsKept, Zenon DEF Parts

(* The end of queue_signal in the handler.                                 *)
LEMMA AfterQueueParts ==
    ASSUME Parts, ctx # <<>>, UNCHANGED <<lisp, sect>>, AfterQueue,
           Top.at \in {"qTake", "qStore"}
    PROVE  CtxOK' /\ TargetLocked' = TargetLocked
<1>1. FrameOK(Top) /\ Top \in FrameType
  BY TopFacts DEF Parts
<1>2. Top.rec \in Rec \cup {Nil} /\ Top.code \in Code /\ Top.kind = "handler"
  BY <1>1 DEF FrameType, FrameOK
<1>3. CASE PopFrame
  BY <1>3, TopMoved DEF Parts, LockPlaces
<1>4. CASE lisp /\ SetTop(TopWith("protect", Top.rec, Top.code))
  <2>1. FrameOK(TopWith("protect", Top.rec, Top.code))
    BY <1>2, <1>4 DEF FrameOK, TopWith
  <2> QED
    BY <1>2, <1>4, <2>1, TopGoes, Zenon DEF Parts, LockPlaces, FramePlaces
<1> QED
  BY <1>3, <1>4 DEF AfterQueue, EndFrame, Goto

(* queue_signal in the handler takes a free record.                        *)
LEMMA RequeueTakeParts ==
    ASSUME Parts, UNCHANGED mode, RequeueTake
    PROVE  Parts'
<1>1. /\ ctx # <<>> /\ Top.at = "qTake" /\ UNCHANGED <<lisp, sect>>
      /\ UNCHANGED <<car, cdr, pend>> /\ UNCHANGED senderVars /\ UNCHANGED qlock
      /\ UNCHANGED handled
  BY DEF RequeueTake, At, codeVars, envVars
<1>2. FrameOK(Top) /\ Top \in FrameType
  BY <1>1, TopFacts, Zenon DEF Parts
<1>3. Top.code \in Code /\ Top.kind = "handler"
  BY <1>1, <1>2, Zenon DEF FrameOK
<1>4. CodeTypes'
  BY DEF RequeueTake, AfterQueue, EndFrame, Parts, CodeTypes, codeVars, envVars
<1>5. CASE queue = Nil
  <2>1. AfterQueue /\ queue' = queue /\ lost' = lost \cup {Top.code}
    BY <1>5 DEF RequeueTake
  <2>2. CtxOK' /\ TargetLocked' = TargetLocked
    BY <1>1, <2>1, AfterQueueParts, Zenon
  <2>3. HeapTypes' /\ DoneTypes'
    BY <1>1, <1>3, <2>1, Zenon DEF Parts, HeapTypes, DoneTypes
  <2> QED
    BY <1>1, <1>4, <2>2, <2>3, PartsKept, Zenon DEF Parts
<1>6. CASE queue # Nil
  <2>1. /\ queue' = cdr[queue] /\ SetTop(TopWith("qLink", queue, Top.code)) /\ lost' = lost
        /\ queue \in Rec
    BY <1>6, Zenon DEF RequeueTake, Parts, HeapTypes
  <2>2. FrameOK(TopWith("qLink", queue, Top.code))
    BY <1>3, <2>1, Zenon DEF FrameOK, TopWith
  <2>3. CtxOK' /\ TargetLocked' = TargetLocked
    BY <1>1, <1>3, <2>1, <2>2, TopGoes, Zenon DEF Parts, LockPlaces, FramePlaces
  <2>4. HeapTypes' /\ DoneTypes'
    BY <1>1, <2>1, Zenon DEF Parts, HeapTypes, DoneTypes
  <2> QED
    BY <1>1, <1>4, <2>3, <2>4, PartsKept DEF Parts
<1> QED
  BY <1>5, <1>6, Zenon

(* queue_signal fills the record in.                                       *)
LEMMA RequeueLinkParts ==
    ASSUME Parts, UNCHANGED mode, RequeueLink
    PROVE  Parts'
<1>1. /\ ctx # <<>> /\ Top.at = "qLink" /\ UNCHANGED <<lisp, sect>>
      /\ SetTop(TopWith("qStore", Top.rec, Top.code))
      /\ UNCHANGED <<mode, dis, prot, codeVars, sigVars>>
      /\ UNCHANGED senderVars /\ UNCHANGED doneVars /\ UNCHANGED qlock
  BY DEF RequeueLink, At, Goto, codeVars, envVars
<1>2. FrameOK(Top) /\ Top \in FrameType
  BY <1>1, TopFacts DEF Parts
<1>3. Top.rec \in Rec /\ Top.code \in Code /\ Top.kind = "handler"
  BY <1>1, <1>2, Zenon DEF FrameOK
<1>4. FrameOK(TopWith("qStore", Top.rec, Top.code))
  BY <1>3 DEF FrameOK, TopWith
<1>5. CtxOK' /\ TargetLocked' = TargetLocked
  BY <1>1, <1>3, <1>4, TopGoes, Zenon DEF Parts, LockPlaces, FramePlaces
<1>6. HeapTypes'
  BY <1>3 DEF RequeueLink, Parts, HeapTypes, envVars
<1> QED
  BY <1>1, <1>5, <1>6, PartsKept, Zenon DEF Parts

(* queue_signal puts the record on the list.                               *)
LEMMA RequeueStoreParts ==
    ASSUME Parts, UNCHANGED mode, RequeueStore
    PROVE  Parts'
<1>1. /\ ctx # <<>> /\ Top.at = "qStore" /\ UNCHANGED <<lisp, sect>> /\ AfterQueue
      /\ UNCHANGED senderVars /\ UNCHANGED doneVars /\ UNCHANGED qlock
  BY DEF RequeueStore, At, codeVars
<1>2. Top.rec \in Rec
  BY <1>1, TopFacts DEF Parts, FrameOK
<1>3. CtxOK' /\ TargetLocked' = TargetLocked
  BY <1>1, AfterQueueParts
<1>4. HeapTypes'
  BY <1>2, Zenon DEF RequeueStore, Parts, HeapTypes, heapVars
<1>5. CodeTypes'
  BY DEF RequeueStore, AfterQueue, EndFrame, Parts, CodeTypes, codeVars
<1> QED
  BY <1>1, <1>3, <1>4, <1>5, PartsKept, Zenon DEF Parts

(* The handler protects the environment.                                   *)
LEMMA ProtectParts ==
    ASSUME Parts, UNCHANGED mode, Protect
    PROVE  Parts'
<1>1. /\ ctx # <<>> /\ Top.at = "protect" /\ UNCHANGED <<lisp, sect>> /\ PopFrame
      /\ UNCHANGED <<heapVars, pend>> /\ UNCHANGED senderVars /\ UNCHANGED doneVars
      /\ UNCHANGED qlock
  BY DEF Protect, At, EndFrame, codeVars
<1>2. lisp
  BY <1>1, TopFacts DEF Parts, FrameOK
<1>3. CtxOK' /\ TargetLocked' = TargetLocked
  BY <1>1, TopMoved, Zenon DEF Parts, LockPlaces
<1>4. CodeTypes'
  BY <1>2 DEF Protect, EndFrame, Parts, CodeTypes, codeVars
<1> QED
  BY <1>1, <1>3, <1>4, PartsKept, Zenon DEF Parts

-----------------------------------------------------------------------------
(* A step of a sender: the target does not move.                           *)
LEMMA SenderFrame ==
    ASSUME Parts, UNCHANGED <<mode, dis, prot, codeVars, blocked, crashed, ctx>>,
           sig' \in BOOLEAN
    PROVE  CtxOK' /\ TargetLocked' = TargetLocked /\ CodeTypes'
<1>1. CtxOK' /\ TargetLocked' = TargetLocked
  BY DEF Parts, CtxOK, FrameOK, TargetLocked, codeVars
<1>2. CodeTypes'
  BY DEF Parts, CodeTypes, codeVars
<1> QED
  BY <1>1, <1>2, Zenon

(* A sender begins a call: the numbers of the interrupts stay in bounds.   *)
LEMMA InterruptProcessParts ==
    ASSUME Parts, UNCHANGED mode, NEW s \in Sender, InterruptProcess(s)
    PROVE  Parts'
<1>1. /\ UNCHANGED <<heapVars, pend>> /\ UNCHANGED doneVars /\ UNCHANGED qlock
      /\ UNCHANGED <<mode, dis, prot, codeVars, blocked, crashed, ctx>> /\ UNCHANGED sig
      /\ UNCHANGED srec /\ spc[s] = "idle" /\ sent' = sent + 1 /\ sent < mode.sends
      /\ scode' = [scode EXCEPT ![s] = sent + 1] /\ spc' = [spc EXCEPT ![s] = "lock"]
  BY DEF InterruptProcess, SGoto, envVars, sigVars
<1>2. sent + 1 \in Code /\ sent + 1 \in Nat
  <2>1. mode \in Modes /\ mode.sends \in Nat /\ sent \in Nat
    BY InterruptsAssumption DEF Parts, CodeTypes, SenderTypes, ModeType
  <2>2. sent + 1 \in 1 .. mode.sends
    BY <1>1, <2>1
  <2> QED
    BY <2>1, <2>2 DEF Code
<1>3. CtxOK' /\ TargetLocked' = TargetLocked /\ CodeTypes'
  BY <1>1, SenderFrame, Zenon DEF Parts, CodeTypes
<1>4. SenderTypes'
  BY <1>1, <1>2, Zenon DEF Parts, SenderTypes, SenderOK
<1>5. LockOK'
  <2>1. \A t \in Sender : spc'[t] \in SenderLocked <=> spc[t] \in SenderLocked
    BY <1>1, Zenon DEF Parts, SenderTypes, SenderLocked
  <2> QED
    BY <1>1, <1>3, <2>1, LockKept, Zenon DEF Parts
<1> QED
  BY <1>1, <1>3, <1>4, <1>5, PartsKept, Zenon DEF Parts

(* mp_get_lock in ecl_interrupt_process.                                   *)
LEMMA SendLockParts ==
    ASSUME Parts, UNCHANGED mode, NEW s \in Sender, SendLock(s)
    PROVE  Parts'
<1>1. /\ UNCHANGED <<heapVars, pend>> /\ UNCHANGED doneVars
      /\ UNCHANGED <<mode, dis, prot, codeVars, blocked, crashed, ctx>> /\ UNCHANGED sig
      /\ UNCHANGED <<srec, scode, sent>> /\ spc[s] = "lock" /\ spc' = [spc EXCEPT ![s] = "take"]
      /\ qlock.holder \in {Nil, s} /\ qlock' = [holder |-> s, count |-> qlock.count + 1]
  BY Zenon DEF SendLock, SGoto, GetQueueLock, CanGet, envVars, sigVars
<1>2. CtxOK' /\ TargetLocked' = TargetLocked /\ CodeTypes'
  BY <1>1, SenderFrame, Zenon DEF Parts, CodeTypes
<1>3. SenderTypes'
  BY <1>1, Zenon DEF Parts, SenderTypes, SenderOK, SenderLocked
<1>4. qlock.holder = Nil
  BY <1>1 DEF Parts, LockOK, QueueLockOK, SenderLocked
<1>5. /\ TargetLocked = {} /\ Cardinality(TargetLocked) = 0 /\ qlock.count = 0
      /\ \A t \in Sender : ~(spc[t] \in SenderLocked)
  <2>1. Nil \notin Sender /\ Nil # "target"
    BY InterruptsAssumption, Zenon
  <2>2. TargetLocked = {} /\ qlock.count = Cardinality(TargetLocked)
    BY <1>4, <2>1, Zenon DEF Parts, LockOK, QueueLockOK
  <2>3. Cardinality(TargetLocked) = 0
    BY <2>2, FS_EmptySet, Zenon
  <2>4. \A t \in Sender : ~(spc[t] \in SenderLocked)
    BY <1>4, <2>1, Zenon DEF Parts, LockOK, QueueLockOK
  <2> QED
    BY <2>2, <2>3, <2>4, Zenon
<1>6. LockOK'
  <2>1. qlock' = [holder |-> s, count |-> 1] /\ s # "target"
    BY <1>1, <1>5, InterruptsAssumption
  <2>2. \A t \in Sender : spc'[t] \in SenderLocked <=> t = s
    BY <1>1, <1>5, Zenon DEF Parts, SenderTypes, SenderLocked
  <2> QED
    BY <1>2, <1>5, <2>1, <2>2, Zenon DEF LockOK, QueueLockOK
<1> QED
  BY <1>1, <1>2, <1>3, <1>6, PartsKept, Zenon DEF Parts

(* A sender moves on with the lock in its hands.                           *)
LEMMA SenderMoves ==
    ASSUME Parts, NEW s \in Sender, NEW x \in SenderLocked, spc[s] \in SenderLocked,
           spc' = [spc EXCEPT ![s] = x], UNCHANGED <<scode, sent, qlock>>,
           TargetLocked' = TargetLocked,
           srec' \in [Sender -> Rec \cup {Nil}],
           \A t \in Sender \ {s} : srec'[t] = srec[t],
           x \in {"link", "store"} => srec'[s] \in Rec
    PROVE  SenderTypes' /\ LockOK'
<1>1. /\ spc' \in [Sender -> {"idle", "lock"} \cup SenderLocked] /\ spc'[s] = x
      /\ \A t \in Sender \ {s} : spc'[t] = spc[t]
  BY DEF Parts, SenderTypes
<1>2. spc[s] # "idle" /\ x # "idle"
  BY DEF SenderLocked
<1>3. \A t \in Sender : SenderOK(t)'
  BY <1>1, <1>2, Zenon DEF Parts, SenderTypes, SenderOK
<1>4. SenderTypes'
  BY <1>1, <1>3, Zenon DEF Parts, SenderTypes
<1>5. \A t \in Sender : spc'[t] \in SenderLocked <=> spc[t] \in SenderLocked
  BY <1>1
<1> QED
  BY <1>4, <1>5, LockKept, Zenon DEF Parts

(* queue_signal in a sender takes a free record.                           *)
LEMMA SendTakeParts ==
    ASSUME Parts, UNCHANGED mode, NEW s \in Sender, SendTake(s)
    PROVE  Parts'
<1>1. /\ UNCHANGED <<car, cdr, pend>> /\ UNCHANGED <<handled, qlock, scode, sent>>
      /\ UNCHANGED <<mode, dis, prot, codeVars, blocked, crashed, ctx>> /\ UNCHANGED sig
      /\ spc[s] = "take"
      /\ srec \in [Sender -> Rec \cup {Nil}]
  BY Zenon DEF SendTake, envVars, sigVars, Parts, SenderTypes
<1>2. CtxOK' /\ TargetLocked' = TargetLocked /\ CodeTypes'
  BY <1>1, SenderFrame, Zenon DEF Parts, CodeTypes
<1>3. scode[s] \in Code
  BY <1>1 DEF Parts, SenderTypes, SenderOK
<1>4. CASE queue = Nil
  <2>1. lost' = lost \cup {scode[s]} /\ UNCHANGED <<queue, srec>> /\ spc' = [spc EXCEPT ![s] = "kill"]
    BY <1>4, Zenon DEF SendTake, SGoto
  <2>2. HeapTypes' /\ DoneTypes'
    BY <1>1, <1>3, <2>1, Zenon DEF Parts, HeapTypes, DoneTypes
  <2>3. SenderTypes' /\ LockOK'
    BY <1>1, <1>2, <2>1, SenderMoves, Zenon DEF SenderLocked
  <2> QED
    BY <1>2, <2>2, <2>3, Zenon DEF Parts
<1>5. CASE queue # Nil
  <2>1. /\ UNCHANGED lost /\ queue \in Rec /\ queue' = cdr[queue]
        /\ srec' = [srec EXCEPT ![s] = queue] /\ spc' = [spc EXCEPT ![s] = "link"]
    BY <1>5, Zenon DEF SendTake, SGoto, Parts, HeapTypes
  <2>2. HeapTypes' /\ DoneTypes'
    BY <1>1, <2>1 DEF Parts, HeapTypes, DoneTypes
  <2>3. SenderTypes' /\ LockOK'
    BY <1>1, <1>2, <2>1, SenderMoves, Zenon DEF SenderLocked
  <2> QED
    BY <1>2, <2>2, <2>3 DEF Parts
<1> QED
  BY <1>4, <1>5

(* queue_signal in a sender fills the record in.                           *)
LEMMA SendLinkParts ==
    ASSUME Parts, UNCHANGED mode, NEW s \in Sender, SendLink(s)
    PROVE  Parts'
<1>1. /\ UNCHANGED doneVars /\ UNCHANGED <<qlock, srec, scode, sent>>
      /\ UNCHANGED <<mode, dis, prot, codeVars, blocked, crashed, ctx>> /\ UNCHANGED sig
      /\ spc[s] = "link" /\ spc' = [spc EXCEPT ![s] = "store"]
      /\ srec \in [Sender -> Rec \cup {Nil}]
  BY Zenon DEF SendLink, SGoto, envVars, sigVars, Parts, SenderTypes
<1>2. CtxOK' /\ TargetLocked' = TargetLocked /\ CodeTypes'
  BY <1>1, SenderFrame, Zenon DEF Parts, CodeTypes
<1>3. scode[s] \in Code /\ srec[s] \in Rec
  BY <1>1, Zenon DEF Parts, SenderTypes, SenderOK
<1>4. HeapTypes'
  BY <1>3 DEF SendLink, Parts, HeapTypes, envVars
<1>5. SenderTypes' /\ LockOK'
  BY <1>1, <1>2, <1>3, SenderMoves, Zenon DEF SenderLocked
<1> QED
  BY <1>1, <1>2, <1>4, <1>5, PartsKept, Zenon DEF Parts

(* queue_signal in a sender writes to the environment of the target.       *)
LEMMA SendStoreParts ==
    ASSUME Parts, UNCHANGED mode, NEW s \in Sender, SendStore(s)
    PROVE  Parts'
<1>1. /\ UNCHANGED doneVars /\ UNCHANGED <<heapVars, qlock, scode, sent>>
      /\ UNCHANGED <<mode, dis, prot, codeVars, blocked, crashed, ctx>> /\ UNCHANGED sig
      /\ spc[s] = "store"
      /\ srec \in [Sender -> Rec \cup {Nil}]
  BY Zenon DEF SendStore, sigVars, Parts, SenderTypes
<1>2. CtxOK' /\ TargetLocked' = TargetLocked /\ CodeTypes'
  BY <1>1, SenderFrame, Zenon DEF Parts, CodeTypes
<1>3. srec[s] \in Rec
  BY <1>1, Zenon DEF Parts, SenderTypes, SenderOK
<1>4. HeapTypes'
  BY <1>3, Zenon DEF SendStore, Parts, HeapTypes, heapVars
<1>5. CASE prot
  <2>1. spc' = [spc EXCEPT ![s] = "segv"] /\ UNCHANGED srec
    BY <1>5 DEF SendStore, SGoto
  <2>2. SenderTypes' /\ LockOK'
    BY <1>1, <1>2, <2>1, SenderMoves, Zenon DEF SenderLocked
  <2> QED
    BY <1>1, <1>2, <1>4, <2>2, PartsKept, Zenon DEF Parts
<1>6. CASE ~prot
  <2>1. spc' = [spc EXCEPT ![s] = "kill"] /\ srec' = [srec EXCEPT ![s] = Nil]
    BY <1>6 DEF SendStore, SGoto
  <2>2. SenderTypes' /\ LockOK'
    BY <1>1, <1>2, <2>1, SenderMoves, Zenon DEF SenderLocked
  <2> QED
    BY <1>1, <1>2, <1>4, <2>2, PartsKept DEF Parts
<1> QED
  BY <1>5, <1>6, Zenon

(* pthread_kill.                                                           *)
LEMMA SendKillParts ==
    ASSUME Parts, UNCHANGED mode, NEW s \in Sender, SendKill(s)
    PROVE  Parts'
<1>1. /\ UNCHANGED doneVars /\ UNCHANGED <<heapVars, pend>> /\ UNCHANGED <<qlock, srec, scode, sent>>
      /\ UNCHANGED <<mode, dis, prot, codeVars, blocked, crashed, ctx>> /\ sig' \in BOOLEAN
      /\ spc[s] = "kill" /\ spc' = [spc EXCEPT ![s] = "unlock"]
      /\ srec \in [Sender -> Rec \cup {Nil}]
  BY DEF SendKill, SGoto, envVars, Parts, SenderTypes
<1>2. CtxOK' /\ TargetLocked' = TargetLocked /\ CodeTypes'
  BY <1>1, SenderFrame
<1>3. SenderTypes' /\ LockOK'
  BY <1>1, <1>2, SenderMoves, Zenon DEF SenderLocked
<1> QED
  BY <1>1, <1>2, <1>3, PartsKept, Zenon DEF Parts

(* mp_giveup_lock in ecl_interrupt_process.                                *)
LEMMA SendUnlockParts ==
    ASSUME Parts, UNCHANGED mode, NEW s \in Sender, SendUnlock(s)
    PROVE  Parts'
<1>1. /\ UNCHANGED <<heapVars, pend>> /\ UNCHANGED doneVars
      /\ UNCHANGED <<mode, dis, prot, codeVars, blocked, crashed, ctx>> /\ UNCHANGED sig
      /\ UNCHANGED <<srec, scode, sent>> /\ spc[s] = "unlock" /\ spc' = [spc EXCEPT ![s] = "idle"]
      /\ GiveupQueueLock
  BY DEF SendUnlock, SGoto, envVars, sigVars
<1>2. CtxOK' /\ TargetLocked' = TargetLocked /\ CodeTypes'
  BY <1>1, SenderFrame, Zenon DEF Parts, CodeTypes
<1>3. SenderTypes'
  BY <1>1, Zenon DEF Parts, SenderTypes, SenderOK, SenderLocked
<1>4. qlock.holder = s /\ qlock.count = 1 /\ s # "target"
  <2>1. qlock.holder = s
    BY <1>1 DEF Parts, LockOK, QueueLockOK, SenderLocked
  <2> QED
    BY <2>1, InterruptsAssumption, Zenon DEF Parts, LockOK, QueueLockOK
<1>5. TargetLocked = {} /\ Cardinality(TargetLocked) = 0
  <2>1. TargetLocked = {}
    BY <1>4 DEF Parts, LockOK, QueueLockOK
  <2> QED
    BY <2>1, FS_EmptySet, Zenon
<1>6. LockOK'
  <2>1. qlock' = [holder |-> Nil, count |-> 0] /\ Nil \notin Sender /\ Nil # "target"
    BY <1>1, <1>4, InterruptsAssumption, Zenon DEF GiveupQueueLock
  <2>2. \A t \in Sender : ~(spc'[t] \in SenderLocked)
    BY <1>1, <1>4, Zenon DEF Parts, SenderTypes, SenderLocked, LockOK, QueueLockOK
  <2> QED
    BY <1>2, <1>5, <2>1, <2>2, Zenon DEF LockOK, QueueLockOK
<1> QED
  BY <1>1, <1>2, <1>3, <1>6, PartsKept, Zenon DEF Parts

-----------------------------------------------------------------------------
(* create_signal_queue makes a list of all records.                        *)
LEMMA PlaceFacts ==
    /\ Rec # {} => Order[1] \in Rec
    /\ \A r \in Rec : /\ Place(r) \in 1 .. Cardinality(Rec)
                      /\ Place(r) # Cardinality(Rec) => Order[Place(r) + 1] \in Rec
<1> DEFINE n == Cardinality(Rec)
<1>1. IsFiniteSet(Rec) /\ n \in Nat
  BY InterruptsAssumption, FS_CardinalityType
<1>2. \E f \in [1 .. n -> Rec] : \A r \in Rec : \E i \in DOMAIN f : f[i] = r
  <2>1. PICK f : f \in Bijection(1 .. n, Rec)
    BY <1>1, FS_CardinalityType, Zenon DEF ExistsBijection
  <2>2. f \in [1 .. n -> Rec] /\ \A r \in Rec : \E i \in 1 .. n : f[i] = r
    BY <2>1 DEF Bijection, Injection, Surjection
  <2> QED
    BY <2>2, Zenon
<1>3. Order \in [1 .. n -> Rec] /\ \A r \in Rec : \E i \in DOMAIN Order : Order[i] = r
  BY <1>2, Zenon DEF Order
<1>4. \A r \in Rec : Place(r) \in 1 .. n
  BY <1>3 DEF Place
<1>5. Rec # {} => n # 0
  BY <1>1, FS_EmptySet
<1> HIDE DEF n
<1>6. Rec # {} => Order[1] \in Rec
  BY <1>1, <1>3, <1>5
<1>7. \A r \in Rec : Place(r) # n => Order[Place(r) + 1] \in Rec
  <2> SUFFICES ASSUME NEW r \in Rec, Place(r) # n
               PROVE  Order[Place(r) + 1] \in Rec
    OBVIOUS
  <2>1. Place(r) \in 1 .. n
    BY <1>4
  <2>2. Place(r) + 1 \in 1 .. n
    BY <1>1, <2>1
  <2> QED
    BY <1>3, <2>2
<1> QED
  BY <1>4, <1>6, <1>7, Zenon DEF n

(* At the start everything has its type, and nobody is doing anything.     *)
LEMMA InitParts ==
    ASSUME InterruptsInit
    PROVE  Parts
<1> USE DEF InterruptsInit
<1>1. ctx = <<>> /\ Len(ctx) = 0 /\ TargetLocked = {} /\ Cardinality(TargetLocked) = 0
  BY FS_EmptySet DEF TargetLocked
<1>2. CtxOK
  BY <1>1 DEF CtxOK
<1>3. HeapTypes
  <2>1. \A r \in Rec : (IF Place(r) = Cardinality(Rec) THEN Nil ELSE Order[Place(r) + 1]) \in Rec \cup {Nil}
    BY PlaceFacts, Zenon
  <2>2. cdr \in [Rec -> Rec \cup {Nil}] /\ car \in [Rec -> Code \cup {0}]
    BY <2>1
  <2> QED
    BY <2>2, PlaceFacts, Zenon DEF HeapTypes
<1>4. CodeTypes
  BY Zenon DEF CodeTypes
<1>5. SenderTypes
  BY DEF SenderTypes, SenderOK
<1>6. DoneTypes
  BY DEF DoneTypes
<1>7. LockOK
  <2>1. Nil \notin Sender /\ Nil # "target"
    BY InterruptsAssumption
  <2> QED
    BY <1>1, <2>1, Zenon DEF LockOK, QueueLockOK, SenderLocked
<1> QED
  BY <1>2, <1>3, <1>4, <1>5, <1>6, <1>7, Zenon DEF Parts

(* Every step preserves the parts of the invariant.                        *)
LEMMA NextParts ==
    ASSUME Parts, [InterruptsNext]_vars
    PROVE  Parts'
<1>1. CASE UNCHANGED vars
  <2>1. CtxOK' /\ TargetLocked' = TargetLocked
    BY <1>1, Zenon DEF vars, codeVars, Parts, CtxOK, FrameOK, TargetLocked
  <2>2. /\ UNCHANGED <<heapVars, pend>> /\ UNCHANGED <<mode, dis, prot, codeVars, sigVars>>
        /\ UNCHANGED senderVars /\ UNCHANGED doneVars /\ UNCHANGED <<qlock, senderVars>>
    BY <1>1, Zenon DEF vars, envVars
  <2> QED
    BY <2>1, <2>2, PartsKept, Zenon DEF Parts
<1>2. CASE TargetStep
  BY <1>2, CodeParts, TrapParts, LeaveParts, CheckPendingParts, PopReadParts, PopLockParts,
     PopUpdateParts, PopUnlockParts, DecideParts, HandleParts, RequeueTakeParts,
     RequeueLinkParts, RequeueStoreParts, ProtectParts, Zenon DEF TargetStep, TargetCode
<1>3. CASE DeliverStep
  BY <1>3, DeliverParts DEF DeliverStep
<1>4. ASSUME NEW s \in Sender, InterruptProcess(s), UNCHANGED mode
      PROVE  Parts'
  BY <1>4, InterruptProcessParts, Zenon
<1>5. ASSUME NEW s \in Sender, SenderStep(s)
      PROVE  Parts'
  BY <1>5, SendLockParts, SendTakeParts, SendLinkParts, SendStoreParts, SendKillParts,
     SendUnlockParts, Zenon DEF SenderStep, SenderCode
<1> QED
  BY <1>1, <1>2, <1>3, <1>4, <1>5, Zenon DEF InterruptsNext

-----------------------------------------------------------------------------
(* The setting of the target never changes.                                *)
LEMMA ModeKept ==
    ASSUME [InterruptsNext]_vars
    PROVE  Orderly' <=> Orderly
<1>1. mode' = mode
  BY DEF InterruptsNext, vars, envVars, TargetStep, DeliverStep, SenderStep
<1> QED
  BY <1>1 DEF Orderly

(* The invariant holds at the start.                                       *)
LEMMA InitInv == InterruptsInit => InterruptsInv
BY InitParts, InitTidy, InvParts

(* Every step preserves the invariant.                                     *)
LEMMA NextInv == InterruptsInv /\ [InterruptsNext]_vars => InterruptsInv'
<1> SUFFICES ASSUME Parts, Orderly => Tidy, [InterruptsNext]_vars
             PROVE  Parts' /\ (Orderly' => Tidy')
  BY InvParts, InvPartsNext
<1>1. Parts'
  BY NextParts
<1>2. Orderly' <=> Orderly
  BY ModeKept
<1>3. Orderly => Tidy'
  BY <1>1, NextTidy
<1> QED
  BY <1>1, <1>2, <1>3, Zenon

(* InterruptsInv always holds: whatever the number of senders, records and *)
(* interrupts, and however handlers nest, the recursive signal_queue_lock  *)
(* is held by one sender between mp_get_lock and mp_giveup_lock, or by the *)
(* target as often as its frames have taken it; pop_signal and             *)
(* queue_signal never work on a record that is not there; and the          *)
(* environment is protected only outside without-interrupts forms.         *)
THEOREM InterruptsInvariant == InterruptsSpec => []InterruptsInv
BY InitInv, NextInv, PTL DEF InterruptsSpec

(* SectionsRespected always holds: no interrupt runs in the body of a      *)
(* without-interrupts form, nor in an allocation between                   *)
(* ecl_disable_interrupts and ecl_enable_interrupts.                       *)
THEOREM SectionsKept == InterruptsSpec => []SectionsRespected
<1>1. InterruptsInv => SectionsRespected
  <2> SUFFICES ASSUME Parts, At("handle")
               PROVE  lisp /\ sect # "alloc"
    BY InvParts, Zenon DEF SectionsRespected
  <2> QED
    BY TopFacts DEF Parts, At, FrameOK
<1> QED
  BY <1>1, InterruptsInvariant, PTL

(* RecordsConserved always holds: where calls of ecl_interrupt_process     *)
(* come between the target's handlers, queue_signal and pop_signal move    *)
(* the records between the free list and the pending list and neither lose *)
(* nor share one, for any number of senders, records and interrupts.       *)
THEOREM RecordsConservedAlways == InterruptsSpec => []RecordsConserved
<1>1. InterruptsInv => RecordsConserved
  <2>1. ~Orderly => RecordsConserved
    BY Zenon DEF RecordsConserved
  <2> QED
    BY <2>1, InvParts, TidyConserves, Zenon
<1> QED
  BY <1>1, InterruptsInvariant, PTL

(* HandledOnce always holds: there too, handle_signal runs no interrupt    *)
(* twice, and one that was sent is on its way until it has been run or     *)
(* found the queue full.                                                   *)
THEOREM HandledOnceAlways == InterruptsSpec => []HandledOnce
<1>1. InterruptsInv => HandledOnce
  <2>1. ~Orderly => HandledOnce
    BY DEF HandledOnce
  <2> QED
    BY <2>1, InvParts, TidyOnce
<1> QED
  BY <1>1, InterruptsInvariant, PTL
=============================================================================
