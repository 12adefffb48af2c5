---------------------------- MODULE EclLockProofs ----------------------------
(* Proofs about EclLock and EclWithLock, for any number of processes,      *)
(* locks and condition variables and any nesting of recursive locks and of *)
(* WITH-LOCK.                                                              *)
EXTENDS EclWithLock, TLAPS

(* The initial state satisfies the inductive invariant.                    *)
LEMMA LockInitInv == LockInit => LockInv
  BY LockAssumption DEF LockInit, LockInv, LockTypeOK, PC, InMutex, FieldsOK

(* No step of an operation in progress breaks the inductive invariant.     *)
LEMMA StepInv ==
  ASSUME LockInv, NEW p \in Process, Step(p)
  PROVE  LockInv'
  <1> USE LockAssumption DEF LockInv, LockTypeOK, PC, InMutex, FieldsOK,
          mutexVars, fieldVars, callVars, Goto, Return, CanLock, PthreadLock,
          PthreadUnlock
  <1>1. CASE MutexLock(p)
    BY <1>1 DEF MutexLock
  <1>2. CASE MutexTrylock(p)
    BY <1>2 DEF MutexTrylock
  <1>3. CASE CountUp(p)
    BY <1>3 DEF CountUp
  <1>4. CASE SetHolder(p)
    BY <1>4 DEF SetHolder
  <1>5. CASE ClearHolder(p)
    BY <1>5 DEF ClearHolder
  <1>6. CASE MutexUnlock(p)
    BY <1>6 DEF MutexUnlock
  <1>7. CASE CondClearCount(p)
    BY <1>7 DEF CondClearCount
  <1>8. CASE CondClearHolder(p)
    BY <1>8 DEF CondClearHolder
  <1>9. CASE CondBlock(p)
    BY <1>9 DEF CondBlock
  <1>10. CASE CondTimeout(p)
    BY <1>10 DEF CondTimeout
  <1>11. CASE CondRelock(p)
    BY <1>11 DEF CondRelock
  <1>12. CASE CondSetHolder(p)
    BY <1>12 DEF CondSetHolder
  <1>13. CASE CondSetCount(p)
    BY <1>13 DEF CondSetCount
  <1> QED BY <1>1, <1>2, <1>3, <1>4, <1>5, <1>6, <1>7, <1>8, <1>9, <1>10,
             <1>11, <1>12, <1>13, Zenon DEF Step

(* Nor does the beginning of an operation.                                 *)
LEMMA BeginInv ==
  ASSUME LockInv, NEW p \in Process, Begin(p)
  PROVE  LockInv'
  <1> USE LockAssumption DEF LockInv, LockTypeOK, PC, InMutex, FieldsOK,
          mutexVars, fieldVars, callVars, Goto, Call, Blocked
  <1>1. ASSUME NEW l \in Lock, GetLockAgain(p, l) PROVE LockInv'
    BY <1>1 DEF GetLockAgain
  <1>2. ASSUME NEW l \in Lock, GetLockWait(p, l) PROVE LockInv'
    BY <1>2 DEF GetLockWait
  <1>3. ASSUME NEW l \in Lock, GetLockNowait(p, l) PROVE LockInv'
    BY <1>3 DEF GetLockNowait
  <1>4. ASSUME NEW l \in Lock, GiveupLock(p, l) PROVE LockInv'
    BY <1>4 DEF GiveupLock
  <1>5. ASSUME NEW c \in CV, NEW l \in Lock, CondWait(p, c, l) PROVE LockInv'
    BY <1>5 DEF CondWait
  <1>6. ASSUME NEW c \in CV, CondSignal(p, c) PROVE LockInv'
    BY <1>6 DEF CondSignal
  <1>7. ASSUME NEW c \in CV, CondBroadcast(p, c) PROVE LockInv'
    BY <1>7 DEF CondBroadcast
  <1> QED BY <1>1, <1>2, <1>3, <1>4, <1>5, <1>6, <1>7 DEF Begin

(* The fields and the mutex of every lock agree in every reachable state,  *)
(* whatever the processes do.                                              *)
THEOREM LockInvariant == LockSpec => []LockInv
  <1>1. LockInv /\ [LockNext]_lockVars => LockInv'
    <2> SUFFICES ASSUME LockInv, [LockNext]_lockVars PROVE LockInv'
      OBVIOUS
    <2>1. CASE LockNext
      BY <2>1, StepInv, BeginInv DEF LockNext
    <2>2. CASE UNCHANGED lockVars
      BY <2>2 DEF lockVars, LockInv, LockTypeOK, FieldsOK, InMutex
    <2> QED BY <2>1, <2>2
  <1> QED BY LockInitInv, <1>1, PTL DEF LockSpec

(* Whoever lock.holder names has the pthread mutex.                        *)
THEOREM HolderOwnsMutexAlways == LockSpec => []HolderOwnsMutex
  <1>1. LockInv => HolderOwnsMutex
    BY LockAssumption DEF LockInv, LockTypeOK, HolderOwnsMutex, FieldsOK
  <1> QED BY LockInvariant, <1>1, PTL

(* No mutex stays locked without a holder or an operation in progress.     *)
THEOREM NoOrphanMutexAlways == LockSpec => []NoOrphanMutex
  <1>1. LockInv => NoOrphanMutex
    BY LockAssumption DEF LockInv, LockTypeOK, NoOrphanMutex, FieldsOK
  <1> QED BY LockInvariant, <1>1, PTL
-----------------------------------------------------------------------------
(* Every step of a process inside an operation is a step of AbstractLock   *)
(* or leaves the abstract lock as it is.                                   *)
LEMMA StepRefines ==
  ASSUME LockInv, NEW p \in Process, Step(p)
  PROVE  [Abs!Next]_<<absUser, absCount>>
  <1> USE LockAssumption DEF LockInv, LockTypeOK, PC, InMutex, FieldsOK
  <1>1. CASE UNCHANGED fieldVars
    BY <1>1 DEF fieldVars, absUser, absCount
  <1>2. CASE CountUp(p) \/ ClearHolder(p) \/ CondClearHolder(p) \/ CondSetHolder(p)
    <2>1. absUser' = absUser /\ absCount' = absCount
      BY <1>2 DEF CountUp, ClearHolder, CondClearHolder, CondSetHolder,
                  absUser, absCount
    <2> QED BY <2>1
  <1>3. CASE SetHolder(p) \/ CondSetCount(p)
    <2>1. /\ arg[p] \in Lock
          /\ holder' = [holder EXCEPT ![arg[p]] = p]
          /\ counter' = [counter EXCEPT ![arg[p]] = 1]
          /\ absUser[arg[p]] = Nil
      BY <1>3 DEF SetHolder, CondSetCount, absUser
    <2>2. absUser' = [absUser EXCEPT ![arg[p]] = p]
      <3>1. \A l \in Lock : absUser'[l] = IF l = arg[p] THEN p ELSE absUser[l]
        BY <2>1 DEF absUser
      <3> QED BY <3>1, Zenon DEF absUser
    <2>3. absCount' = [absCount EXCEPT ![arg[p]] = 1]
      BY <2>1, Zenon DEF absCount
    <2> QED BY <2>1, <2>2, <2>3, Zenon DEF Abs!Next, Abs!Acquire
  <1>4. CASE CondClearCount(p)
    <2>1. arg[p] \in Lock /\ holder[arg[p]] = p /\ counter[arg[p]] = 1
      BY <1>4 DEF CondClearCount
    <2>2. absUser[arg[p]] = p /\ absCount[arg[p]] = 1
      BY <2>1 DEF absUser, absCount
    <2>3. absUser' = [absUser EXCEPT ![arg[p]] = Nil]
      BY <2>1, <1>4, Zenon DEF CondClearCount, absUser
    <2>4. absCount' = [absCount EXCEPT ![arg[p]] = 0]
      BY <2>1, <1>4, Zenon DEF CondClearCount, absCount
    <2>5. Abs!Release(p, arg[p])
      BY <2>1, <2>2, <2>3, <2>4 DEF Abs!Release
    <2> QED BY <2>1, <2>5 DEF Abs!Next
  <1> QED BY <1>1, <1>2, <1>3, <1>4 DEF Step, MutexLock, MutexTrylock,
             MutexUnlock, CondBlock, CondTimeout, CondRelock, fieldVars

(* So is the beginning of an operation.                                    *)
LEMMA BeginRefines ==
  ASSUME LockInv, NEW p \in Process, Begin(p)
  PROVE  [Abs!Next]_<<absUser, absCount>>
  <1> USE LockAssumption DEF LockInv, LockTypeOK, PC, InMutex, FieldsOK
  <1>1. CASE UNCHANGED fieldVars
    BY <1>1 DEF fieldVars, absUser, absCount
  <1>2. ASSUME NEW l \in Lock, GetLockAgain(p, l) PROVE Abs!AcquireAgain(p, l)
    <2>1. holder[l] = p /\ counter[l] \in Nat \ {0} /\ p # Nil
      BY <1>2 DEF GetLockAgain
    <2>2. absUser' = absUser
      BY <2>1, <1>2 DEF GetLockAgain, absUser
    <2>3. absCount' = [absCount EXCEPT ![l] = absCount[l] + 1]
      <3>1. holder' = holder /\ counter' = [counter EXCEPT ![l] = counter[l] + 1]
        BY <1>2 DEF GetLockAgain
      <3>2. \A m \in Lock : absCount'[m] = IF m = l THEN absCount[l] + 1 ELSE absCount[m]
        BY <2>1, <3>1 DEF absCount
      <3> QED BY <3>2, Zenon DEF absCount
    <2> QED BY <1>2, <2>1, <2>2, <2>3 DEF GetLockAgain, Abs!AcquireAgain, absUser
  <1>3. ASSUME NEW l \in Lock, GiveupLock(p, l) PROVE Abs!Release(p, l)
    <2>1. holder[l] = p /\ counter[l] \in Nat \ {0} /\ p # Nil
      BY <1>3 DEF GiveupLock
    <2>2. absUser[l] = p /\ absCount[l] = counter[l]
      BY <2>1 DEF absUser, absCount
    <2>3. absUser' = [absUser EXCEPT ![l] = IF counter[l] = 1 THEN Nil ELSE p]
      <3>1. holder' = holder /\ counter' = [counter EXCEPT ![l] = counter[l] - 1]
        BY <1>3 DEF GiveupLock
      <3>2. \A m \in Lock : absUser'[m] = IF m = l
                                         THEN IF counter[l] = 1 THEN Nil ELSE p
                                         ELSE absUser[m]
        BY <2>1, <3>1 DEF absUser
      <3> QED BY <3>2, Zenon DEF absUser
    <2>4. absCount' = [absCount EXCEPT ![l] = counter[l] - 1]
      <3>1. holder' = holder /\ counter' = [counter EXCEPT ![l] = counter[l] - 1]
        BY <1>3 DEF GiveupLock
      <3>2. \A m \in Lock : absCount'[m] = IF m = l THEN counter[l] - 1 ELSE absCount[m]
        BY <2>1, <3>1 DEF absCount
      <3> QED BY <3>2, Zenon DEF absCount
    <2> QED BY <2>2, <2>3, <2>4 DEF Abs!Release
  <1> QED BY <1>1, <1>2, <1>3 DEF Begin, Abs!Next, GetLockWait, GetLockNowait,
             CondWait, CondSignal, CondBroadcast, fieldVars

(* The lock of threads_mutex.d, with its condition variables, implements   *)
(* the abstract lock.                                                      *)
THEOREM LockRefinement == LockSpec => ImplementsAbstractLock
  <1>1. LockInit => Abs!Init
    BY DEF LockInit, Abs!Init, absUser, absCount
  <1>2. LockInv /\ [LockNext]_lockVars => [Abs!Next]_<<absUser, absCount>>
    <2> SUFFICES ASSUME LockInv, [LockNext]_lockVars
                 PROVE  [Abs!Next]_<<absUser, absCount>>
      OBVIOUS
    <2>1. CASE LockNext
      BY <2>1, StepRefines, BeginRefines DEF LockNext
    <2>2. CASE UNCHANGED lockVars
      BY <2>2 DEF lockVars, absUser, absCount
    <2> QED BY <2>1, <2>2
  <1> QED BY LockInvariant, <1>1, <1>2, PTL DEF LockSpec, ImplementsAbstractLock, Abs!Spec
-----------------------------------------------------------------------------
(* What the first i frames say of a lock depends on those frames and on    *)
(* where each of them was left.                                            *)
LEMMA LevelSame ==
  ASSUME NEW fs, NEW gs, NEW l, NEW i \in Int, NEW n,
         \A j \in 1 .. i : gs[j] = fs[j] /\ LeftAt(gs, j) = LeftAt(fs, j),
         LevelIs(fs, l, i, n)
  PROVE  LevelIs(gs, l, i, n)
  BY DEF LevelIs

(* A frame that is not of the lock says nothing of it.                     *)
LEMMA LevelOther ==
  ASSUME NEW fs, NEW l, NEW i \in Nat \ {0}, NEW n, ~On(fs[i], l)
  PROVE  LevelIs(fs, l, i, n) <=> LevelIs(fs, l, i - 1, n)
  <1>1. ASSUME LevelIs(fs, l, i, n) PROVE LevelIs(fs, l, i - 1, n)
    BY <1>1 DEF LevelIs
  <1>2. ASSUME LevelIs(fs, l, i - 1, n) PROVE LevelIs(fs, l, i, n)
    <2>1. CASE n = 0 /\ \A j \in 1 .. i - 1 : ~On(fs[j], l)
      BY <2>1 DEF LevelIs
    <2>2. CASE \E j \in 1 .. i - 1 :
                  /\ On(fs[j], l)
                  /\ \A k \in j + 1 .. i - 1 : ~On(fs[k], l)
                  /\ n = fs[j].count + Extra(fs[j], LeftAt(fs, j))
      BY <2>2 DEF LevelIs
    <2> QED BY <1>2, <2>1, <2>2 DEF LevelIs
  <1> QED BY <1>1, <1>2

(* A WITH-LOCK of the lock says it all.                                    *)
LEMMA LevelOwn ==
  ASSUME NEW fs, NEW l, NEW i \in Nat \ {0}, NEW n, On(fs[i], l)
  PROVE  LevelIs(fs, l, i, n) <=> n = fs[i].count + Extra(fs[i], LeftAt(fs, i))
  BY DEF LevelIs

(* A frame remembers the same when the ones below are the same.            *)
LEMMA FrameSame ==
  ASSUME NEW fs, NEW gs, NEW i \in Nat \ {0}, FrameOK(fs, i),
         \A j \in 1 .. i - 1 : gs[j] = fs[j],
         \/ gs[i] = fs[i]
         \/ /\ fs[i].kind = "with" /\ gs[i].kind = "with"
            /\ gs[i].lock = fs[i].lock /\ gs[i].count = fs[i].count
  PROVE  FrameOK(gs, i)
  <1>1. \A j \in 1 .. i - 1 : LeftAt(gs, j) = LeftAt(fs, j)
    BY DEF LeftAt
  <1>2. ASSUME gs[i].kind = "with"
        PROVE  LevelIs(gs, gs[i].lock, i - 1, gs[i].count)
    BY <1>1, <1>2, LevelSame DEF FrameOK
  <1>3. gs[i].kind = fs[i].kind
    OBVIOUS
  <1>4. i > 1 => gs[i - 1] = fs[i - 1]
    OBVIOUS
  <1> QED BY <1>2, <1>3, <1>4 DEF FrameOK

(* The innermost of the frames.                                            *)
LEMMA Innermosts ==
  ASSUME NEW fs \in Seq(Frame)
  PROVE  /\ fs = <<>> <=> Len(fs) = 0
         /\ fs # <<>> => Innermost(fs) = fs[Len(fs)] /\ Innermost(fs) \in Frame
         /\ fs = <<>> => Innermost(fs).kind = "none"
  BY DEF Innermost, NoFrame

(* Taking the innermost frame away.                                        *)
LEMMA Shorter ==
  ASSUME NEW fs \in Seq(Frame), fs # <<>>
  PROVE  LET gs == SubSeq(fs, 1, Len(fs) - 1)
         IN /\ gs \in Seq(Frame)
            /\ Len(gs) \in Nat /\ Len(fs) = Len(gs) + 1
            /\ \A j \in 1 .. Len(gs) : gs[j] = fs[j]
  <1> DEFINE n == Len(fs) - 1
  <1>1. /\ n \in Nat /\ n \in Int /\ 1 \in Int /\ Len(fs) = n + 1
        /\ \A i \in 1 .. n : fs[i] \in Frame
    OBVIOUS
  <1> HIDE DEF n
  <1>2. /\ SubSeq(fs, 1, n) \in Seq(Frame)
        /\ Len(SubSeq(fs, 1, n)) = IF 1 <= n THEN n - 1 + 1 ELSE 0
        /\ \A i \in 1 .. n - 1 + 1 : SubSeq(fs, 1, n)[i] = fs[1 + i - 1]
    BY <1>1
  <1>3. Len(SubSeq(fs, 1, n)) = n /\ \A i \in 1 .. n : SubSeq(fs, 1, n)[i] = fs[i]
    BY <1>1, <1>2
  <1> QED BY <1>1, <1>2, <1>3 DEF n

(* A frame that is left says how often the process has the lock.           *)
LEMMA PushLevels ==
  ASSUME NEW fs \in Seq(Frame), NEW f \in Frame, NEW at, NEW l, NEW mine,
         StateOK(fs, at, l, FALSE, mine),
         Innermost(fs).kind = "with" => Innermost(fs).phase \in {"get", "body"},
         at = IF f.kind = "handler" THEN f.pc ELSE "idle",
         NEW m \in Lock, NEW gs, gs = Append(fs, f), NEW n, n = Len(fs)
  PROVE  LevelIs(gs, m, n, mine[m])
  <1>1. n \in Nat /\ gs[n + 1] = f /\ \A j \in 1 .. n : gs[j] = fs[j]
    OBVIOUS
  <1>2. MineOK(fs, Innermost(fs), at, FALSE, m, mine[m])
    BY Zenon DEF StateOK
  <1>3. \A j \in 1 .. n - 1 : LeftAt(gs, j) = LeftAt(fs, j)
    BY <1>1 DEF LeftAt
  <1>4. CASE n = 0
    <2>1. ~On(Innermost(fs), m)
      BY <1>4, Innermosts, Zenon DEF On
    <2>2. LevelIs(fs, m, -1, mine[m])
      BY <2>1, <1>2, <1>4 DEF MineOK
    <2> QED BY <2>2, <1>4 DEF LevelIs
  <1>5. CASE n # 0 /\ ~On(fs[n], m)
    <2>1. Innermost(fs) = fs[n]
      BY <1>5, Innermosts
    <2>2. LevelIs(fs, m, n - 1, mine[m])
      BY <2>1, <1>2, <1>5 DEF MineOK
    <2>3. n - 1 \in Int /\ n \in Nat \ {0} /\ gs[n] = fs[n]
      BY <1>1, <1>5
    <2>4. \A j \in 1 .. n - 1 : gs[j] = fs[j]
      BY <1>1
    <2>5. LevelIs(gs, m, n - 1, mine[m])
      BY <2>2, <2>3, <2>4, <1>3, LevelSame, Zenon
    <2> QED BY <2>3, <2>5, <1>5, LevelOther, Zenon
  <1>6. CASE n # 0 /\ On(fs[n], m)
    <2>1. Innermost(fs) = fs[n] /\ n \in Nat \ {0} /\ gs[n] = fs[n]
      BY <1>1, <1>6, Innermosts
    <2>2. mine[m] = fs[n].count + Extra(fs[n], at)
      BY <2>1, <1>2, <1>6 DEF MineOK, On
    <2>3. LeftAt(gs, n) = at
      BY <1>1 DEF LeftAt
    <2> QED BY <2>1, <2>2, <2>3, <1>6, LevelOwn, Zenon
  <1> QED BY <1>4, <1>5, <1>6

(* And a frame that becomes the innermost again finds it so.               *)
LEMMA PopLevels ==
  ASSUME NEW fs \in Seq(Frame), fs # <<>>, NEW m, NEW n,
         NEW gs \in Seq(Frame), \A j \in 1 .. Len(gs) : gs[j] = fs[j],
         NEW k, k = Len(gs), LevelIs(fs, m, k, n)
  PROVE  IF On(Innermost(gs), m)
         THEN n = Innermost(gs).count + Extra(Innermost(gs), LeftAt(fs, k))
         ELSE LevelIs(gs, m, k - 1, n)
  <1>1. k \in Nat /\ \A j \in 1 .. k : gs[j] = fs[j]
    OBVIOUS
  <1>2. \A j \in 1 .. k - 1 : gs[j] = fs[j] /\ LeftAt(gs, j) = LeftAt(fs, j)
    BY <1>1 DEF LeftAt
  <1>3. CASE k = 0
    <2>1. ~On(Innermost(gs), m)
      BY <1>1, <1>3, Innermosts, Zenon DEF On
    <2> QED BY <2>1, <1>3 DEF LevelIs
  <1>4. CASE k # 0
    <2>1. Innermost(gs) = fs[k] /\ k \in Nat \ {0} /\ k - 1 \in Int
      BY <1>1, <1>4, Innermosts
    <2>2. CASE On(fs[k], m)
      BY <2>1, <2>2, LevelOwn
    <2>3. CASE ~On(fs[k], m)
      <3>1. LevelIs(fs, m, k - 1, n)
        BY <2>1, <2>3, LevelOther
      <3>2. LevelIs(gs, m, k - 1, n)
        BY <2>1, <3>1, <1>2, LevelSame
      <3> QED BY <3>2, <2>1, <2>3
    <2> QED BY <2>2, <2>3
  <1> QED BY <1>1, <1>3, <1>4

(* A frame on top of a process that runs ordinary code, or of one that is  *)
(* interrupted, remembers what is true.                                    *)
LEMMA PushState ==
  ASSUME NEW fs \in Seq(Frame), NEW f \in Frame, NEW at, NEW l, NEW mine,
         StateOK(fs, at, l, FALSE, mine),
         \/ /\ f.kind = "with" /\ f.phase = "get" /\ at = "idle"
            /\ f.lock \in Lock /\ f.count \in Nat /\ f.count = mine[f.lock]
            /\ Innermost(fs).kind = "with" => Innermost(fs).phase = "body"
         \/ /\ f.kind = "handler" /\ f.pc = at /\ f.arg = l
            /\ Innermost(fs).kind = "with" => Innermost(fs).phase \in {"get", "body"},
         NEW gs, gs = Append(fs, f)
  PROVE  StateOK(gs, "idle", Nil, FALSE, mine)
  <1> DEFINE n == Len(fs)
  <1>1. /\ n \in Nat /\ gs \in Seq(Frame) /\ Len(gs) = n + 1
        /\ gs[n + 1] = f /\ \A j \in 1 .. n : gs[j] = fs[j]
    OBVIOUS
  <1>2. \A m \in Lock : LevelIs(gs, m, n, mine[m])
    BY PushLevels, Zenon
  <1>3. Innermost(gs) = f
    <2>1. gs # <<>>
      BY <1>1
    <2> QED BY <2>1, <1>1 DEF Innermost
  <1>4. n # 0 => Innermost(fs) = gs[n]
    BY <1>1, Innermosts
  <1>5. \A i \in 1 .. n : FrameOK(gs, i)
    <2> SUFFICES ASSUME NEW i \in 1 .. n PROVE FrameOK(gs, i)
      OBVIOUS
    <2>1. i \in Nat \ {0} /\ FrameOK(fs, i) /\ gs[i] = fs[i]
      BY <1>1 DEF StateOK
    <2>2. \A j \in 1 .. i - 1 : gs[j] = fs[j]
      BY <1>1
    <2> QED BY <2>1, <2>2, FrameSame, Zenon
  <1>6. FrameOK(gs, n + 1)
    <2>1. ASSUME f.kind = "with" PROVE LevelIs(gs, f.lock, n, f.count)
      BY <1>2, <2>1
    <2>2. ASSUME f.kind = "handler", f.pc # "idle"
          PROVE  /\ n + 1 > 1 /\ On(gs[n], f.arg)
                 /\ gs[n].phase = "body" /\ gs[n].count = 0
      <3>1. /\ On(Innermost(fs), l) /\ Innermost(fs).count = 0
            /\ IF at \in {"clear", "unlock"} THEN Innermost(fs).phase = "giveup"
               ELSE Innermost(fs).phase = "body"
        BY <2>2 DEF StateOK, OpOK
      <3>2. at \notin {"clear", "unlock"}
        BY <2>2 DEF Frame
      <3>3. n # 0
        BY <3>1, Innermosts DEF On
      <3> QED BY <2>2, <3>1, <3>2, <3>3, <1>1, <1>4
    <2>3. ASSUME n + 1 > 1, gs[n].kind = "with"
          PROVE  \/ gs[n].phase = "body"
                 \/ gs[n].phase = "get" /\ f.kind = "handler"
      BY <2>3, <1>1, <1>4
    <2> QED BY ONLY <2>1, <2>2, <2>3, <1>1 DEF FrameOK
  <1>7. \A m \in Lock : MineOK(gs, f, "idle", FALSE, m, mine[m])
    <2> SUFFICES ASSUME NEW m \in Lock PROVE MineOK(gs, f, "idle", FALSE, m, mine[m])
      BY Zenon
    <2>1. CASE ~On(f, m)
      BY <2>1, <1>1, <1>2 DEF MineOK
    <2>2. CASE On(f, m)
      <3>1. f.phase = "get" /\ f.count \in Nat /\ f.count = mine[m]
        BY <2>2 DEF On
      <3> QED BY <2>2, <3>1 DEF MineOK, Extra
    <2> QED BY <2>1, <2>2, Zenon
  <1>8. \A i \in 1 .. Len(gs) : FrameOK(gs, i)
    <2>1. \A i \in 1 .. n + 1 : i \in 1 .. n \/ i = n + 1
      BY <1>1
    <2> QED BY <2>1, <1>1, <1>5, <1>6
  <1> QED BY <1>3, <1>7, <1>8, Zenon DEF StateOK, OpOK

(* So does the frame below one that is taken away, if the process has      *)
(* every lock as often as below it and goes on where that frame was left.  *)
LEMMA PopState ==
  ASSUME NEW fs \in Seq(Frame), fs # <<>>, NEW mine, NEW out \in BOOLEAN,
         \A i \in 1 .. Len(fs) : FrameOK(fs, i),
         \A m \in Lock : LevelIs(fs, m, Len(fs) - 1, mine[m]),
         NEW gs, gs = SubSeq(fs, 1, Len(fs) - 1), NEW at, NEW l,
         OpOK(Innermost(gs), at, l, out),
         out \/ at = LeftAt(fs, Len(fs) - 1)
  PROVE  StateOK(gs, at, l, out, mine)
  <1> DEFINE n == Len(gs)
  <1>1. /\ n \in Nat /\ gs \in Seq(Frame) /\ Len(fs) = n + 1 /\ Len(fs) - 1 = n
        /\ \A j \in 1 .. n : gs[j] = fs[j]
    BY Shorter
  <1>2. \A i \in 1 .. n : FrameOK(gs, i)
    <2> SUFFICES ASSUME NEW i \in 1 .. n PROVE FrameOK(gs, i)
      OBVIOUS
    <2>1. i \in Nat \ {0} /\ FrameOK(fs, i) /\ gs[i] = fs[i]
      BY <1>1
    <2>2. \A j \in 1 .. i - 1 : gs[j] = fs[j]
      BY <1>1
    <2> QED BY <2>1, <2>2, FrameSame, Zenon
  <1>3. \A m \in Lock : MineOK(gs, Innermost(gs), at, out, m, mine[m])
    <2> SUFFICES ASSUME NEW m \in Lock
                 PROVE  MineOK(gs, Innermost(gs), at, out, m, mine[m])
      OBVIOUS
    <2>1. LevelIs(fs, m, n, mine[m])
      BY <1>1
    <2>2. IF On(Innermost(gs), m)
          THEN mine[m] = Innermost(gs).count + Extra(Innermost(gs), LeftAt(fs, n))
          ELSE LevelIs(gs, m, n - 1, mine[m])
      BY <2>1, <1>1, PopLevels, Zenon
    <2>3. CASE ~On(Innermost(gs), m)
      BY <2>2, <2>3 DEF MineOK
    <2>4. CASE On(Innermost(gs), m)
      <3>1. n # 0
        BY <2>4, <1>1, Innermosts, Zenon DEF On
      <3>2. Innermost(gs) = fs[n] /\ Innermost(gs) \in Frame /\ FrameOK(fs, n + 1)
        <4>1. gs # <<>>
          BY <2>4 DEF On, Innermost, NoFrame
        <4>a. n \in 1 .. n
          BY <3>1, <1>1
        <4>2. Innermost(gs) = fs[n]
          BY <4>1, <4>a, <1>1 DEF Innermost
        <4> QED BY <4>a, <4>2, <1>1
      <3>3. Innermost(gs).count \in Nat /\ Innermost(gs).phase \in {"body", "get"}
        BY ONLY <3>1, <3>2, <2>4, <1>1 DEF FrameOK, On, Frame
      <3>4. out => mine[m] \in {Innermost(gs).count, Innermost(gs).count + 1}
        BY <2>2, <2>4, <3>3 DEF Extra
      <3>5. ~out => mine[m] = Innermost(gs).count + Extra(Innermost(gs), at)
        BY <2>2, <2>4, <1>1
      <3> QED BY <2>4, <3>3, <3>4, <3>5 DEF MineOK
    <2> QED BY <2>3, <2>4
  <1> QED BY <1>2, <1>3 DEF StateOK

(* A WITH-LOCK that goes on to another phase leaves the rest as it is.     *)
LEMMA PhaseState ==
  ASSUME NEW fs \in Seq(Frame), NEW at, NEW l, NEW out, NEW mine,
         StateOK(fs, at, l, out, mine), Innermost(fs).kind = "with",
         NEW f \in Frame, f.kind = "with",
         f.lock = Innermost(fs).lock, f.count = Innermost(fs).count,
         NEW gs \in Seq(Frame), Len(gs) = Len(fs), gs[Len(fs)] = f,
         \A j \in 1 .. Len(fs) - 1 : gs[j] = fs[j]
  PROVE  /\ Innermost(gs) = f
         /\ \A i \in 1 .. Len(gs) : FrameOK(gs, i)
         /\ \A m \in Lock : ~On(f, m) => LevelIs(gs, m, Len(gs) - 1, mine[m])
  <1> DEFINE n == Len(fs)
  <1>1. n \in Nat \ {0} /\ Innermost(fs) = fs[n] /\ fs[n] \in Frame
    BY Innermosts
  <1>2. fs[n].kind = "with" /\ f.lock = fs[n].lock /\ f.count = fs[n].count
    BY <1>1
  <1>3. Len(gs) = n /\ gs[n] = f /\ \A j \in 1 .. n - 1 : gs[j] = fs[j]
    OBVIOUS
  <1>4. Innermost(gs) = f
    BY <1>1, <1>3, Innermosts
  <1>5. \A i \in 1 .. n : FrameOK(gs, i)
    <2> SUFFICES ASSUME NEW i \in 1 .. n PROVE FrameOK(gs, i)
      OBVIOUS
    <2>1. i \in Nat \ {0} /\ FrameOK(fs, i)
      BY <1>1 DEF StateOK
    <2>2. \A j \in 1 .. i - 1 : gs[j] = fs[j]
      BY <1>1, <1>3
    <2>3. CASE i = n
      BY <2>1, <2>2, <2>3, <1>1, <1>2, <1>3, FrameSame
    <2>4. CASE i # n
      <3>1. gs[i] = fs[i]
        BY <2>4, <1>1, <1>3
      <3> QED BY <3>1, <2>1, <2>2, FrameSame
    <2> QED BY <2>3, <2>4
  <1>6. ASSUME NEW m \in Lock, ~On(f, m) PROVE LevelIs(gs, m, n - 1, mine[m])
    <2>1. LevelIs(fs, m, n - 1, mine[m])
      BY <1>6, <1>1, <1>2 DEF StateOK, MineOK, On
    <2>2. \A j \in 1 .. n - 1 : gs[j] = fs[j] /\ LeftAt(gs, j) = LeftAt(fs, j)
      <3> SUFFICES ASSUME NEW j \in 1 .. n - 1
                   PROVE  gs[j] = fs[j] /\ LeftAt(gs, j) = LeftAt(fs, j)
        OBVIOUS
      <3>1. gs[j] = fs[j]
        BY ONLY <1>3
      <3>2. CASE j + 1 = n
        <4>1. gs[j + 1].kind = "with" /\ fs[j + 1].kind = "with"
          BY <1>2, <1>3, <3>2, Zenon
        <4>2. LeftAt(gs, j) = "idle" /\ LeftAt(fs, j) = "idle"
          BY ONLY <4>1 DEF LeftAt
        <4> QED BY <3>1, <4>2, Zenon
      <3>3. CASE j + 1 # n
        <4>0. n \in Nat
          BY <1>1
        <4>1. j + 1 \in 1 .. n - 1
          BY ONLY <3>3, <4>0
        <4>2. gs[j + 1] = fs[j + 1]
          BY ONLY <1>3, <4>1
        <4>3. LeftAt(gs, j) = LeftAt(fs, j)
          BY ONLY <4>2 DEF LeftAt
        <4> QED BY <3>1, <4>3, Zenon
      <3> QED BY <3>2, <3>3, Zenon
    <2>3. n - 1 \in Int
      BY <1>1
    <2> QED BY <2>1, <2>2, <2>3, LevelSame
  <1> QED BY <1>1, <1>2, <1>3, <1>4, <1>5, <1>6

(* Nothing happens to the locks.                                           *)
LEMMA SameLocks ==
  ASSUME LockInv, UNCHANGED lockVars
  PROVE  LockInv' /\ \A p \in Process : Mine(p)' = Mine(p)
  BY DEF lockVars, LockInv, LockTypeOK, FieldsOK, InMutex, Mine, LockCountMine

(* A process has the lock of an operation in progress only before it gives *)
(* it up to wait.                                                          *)
LEMMA OpMine ==
  ASSUME LockInv, NEW p \in Process
  PROVE  /\ \A l \in Lock : LockCountMine(p, l) \in Nat
         /\ \A l \in Lock : pc[p] = "idle" =>
               (LockCountMine(p, l) = 0 <=> owner[l] # p)
         /\ pc[p] # "idle" =>
               LockCountMine(p, arg[p]) = IF pc[p] = "cvCount" THEN 1 ELSE 0
  <1> USE LockAssumption DEF LockInv, LockTypeOK, FieldsOK, InMutex, PC, LockCountMine
  <1>1. \A l \in Lock : LockCountMine(p, l) \in Nat
    OBVIOUS
  <1>2. ASSUME NEW l \in Lock, pc[p] = "idle"
        PROVE  LockCountMine(p, l) = 0 <=> owner[l] # p
    BY <1>2
  <1>3. ASSUME pc[p] # "idle"
        PROVE  LockCountMine(p, arg[p]) = IF pc[p] = "cvCount" THEN 1 ELSE 0
    <2>1. CASE pc[p] \in InMutex
      BY <1>3, <2>1
    <2>2. CASE pc[p] \notin InMutex
      BY <1>3, <2>2
    <2> QED BY <2>1, <2>2
  <1> QED BY <1>1, <1>2, <1>3

(* The same after a step.                                                  *)
LEMMA OpMineNext ==
  LockInv' => (\A p \in Process : pc[p] # "idle" =>
                  LockCountMine(p, arg[p]) = IF pc[p] = "cvCount" THEN 1 ELSE 0)'
  <1>1. LockInv => \A p \in Process : pc[p] # "idle" =>
           LockCountMine(p, arg[p]) = IF pc[p] = "cvCount" THEN 1 ELSE 0
    BY OpMine
  <1> QED BY <1>1, PTL

(* A step changes how often one process has one lock.                      *)
LEMMA StepMine ==
  ASSUME LockInv, NEW p \in Process, Step(p),
         NEW q \in Process, NEW l \in Lock, q # p \/ l # arg[p]
  PROVE  LockCountMine(q, l)' = LockCountMine(q, l)
  <1> USE LockAssumption DEF LockInv, LockTypeOK, FieldsOK, InMutex, PC,
          LockCountMine, fieldVars, mutexVars
  <1>1. CASE CountUp(p) \/ SetHolder(p) \/ ClearHolder(p)
    BY <1>1 DEF CountUp, SetHolder, ClearHolder
  <1>2. CASE CondClearCount(p) \/ CondClearHolder(p)
    BY <1>2 DEF CondClearCount, CondClearHolder
  <1>3. CASE CondSetHolder(p) \/ CondSetCount(p)
    BY <1>3 DEF CondSetHolder, CondSetCount
  <1> QED BY <1>1, <1>2, <1>3 DEF Step, MutexLock, MutexTrylock, MutexUnlock,
             CondBlock, CondTimeout, CondRelock

(* The invariant after a step of p, from what it is for p.                 *)
LEMMA Assemble ==
  ASSUME WithInv, NEW p \in Process, LockInv',
         frames' \in [Process -> Seq(Frame)], unwinding' \in [Process -> BOOLEAN],
         Len(frames'[p]) <= MaxNest,
         StateOK(frames'[p], pc'[p], arg'[p], unwinding'[p], Mine(p)'),
         \A q \in Process \ {p} :
            /\ frames'[q] = frames[q] /\ unwinding'[q] = unwinding[q]
            /\ arg'[q] = arg[q] /\ Mine(q)' = Mine(q)
            /\ \/ pc'[q] = pc[q]
               \/ pc[q] = "cvBlocked" /\ pc'[q] = "cvWoken"
  PROVE  WithInv'
  <1>1. ASSUME NEW q \in Process
        PROVE  /\ Len(frames'[q]) <= MaxNest
               /\ StateOK(frames'[q], pc'[q], arg'[q], unwinding'[q], Mine(q)')
    <2>1. CASE q = p
      BY <2>1
    <2>2. CASE q # p
      <3>1. Len(frames'[q]) <= MaxNest
        BY <2>2 DEF WithInv
      <3>2. StateOK(frames[q], pc[q], arg[q], unwinding[q], Mine(q))
        BY DEF WithInv
      <3>3. CASE pc'[q] = pc[q]
        BY <2>2, <3>1, <3>2, <3>3
      <3>4. CASE pc[q] = "cvBlocked" /\ pc'[q] = "cvWoken"
        <4>1. StateOK(frames[q], "cvWoken", arg[q], unwinding[q], Mine(q))
          BY <3>2, <3>4 DEF StateOK, OpOK, MineOK, Extra
        <4> QED BY <2>2, <3>1, <3>4, <4>1
      <3> QED BY <2>2, <3>3, <3>4
    <2> QED BY <2>1, <2>2
  <1> QED BY <1>1 DEF WithInv

(* What the invariant says of one process.                                 *)
LEMMA OfProcess ==
  ASSUME WithInv, NEW p \in Process
  PROVE  /\ LockInv /\ frames[p] \in Seq(Frame) /\ unwinding[p] \in BOOLEAN
         /\ Len(frames[p]) <= MaxNest
         /\ StateOK(frames[p], pc[p], arg[p], unwinding[p], Mine(p))
         /\ \A l \in Lock : Mine(p)[l] = LockCountMine(p, l) /\ Mine(p)[l] \in Nat
         /\ Top(p) = Innermost(frames[p])
         /\ frames[p] = <<>> => Top(p).kind = "none"
         /\ frames[p] # <<>> => Top(p) = frames[p][Len(frames[p])] /\ Top(p) \in Frame
  <1>1. LockInv /\ frames[p] \in Seq(Frame) /\ unwinding[p] \in BOOLEAN
    BY DEF WithInv
  <1>2. /\ Len(frames[p]) <= MaxNest
        /\ StateOK(frames[p], pc[p], arg[p], unwinding[p], Mine(p))
    BY DEF WithInv
  <1>3. \A l \in Lock : Mine(p)[l] = LockCountMine(p, l) /\ Mine(p)[l] \in Nat
    BY <1>1, OpMine DEF Mine
  <1> QED BY <1>1, <1>2, <1>3, Innermosts DEF Top

(* And of its frames.                                                      *)
LEMMA OfFrames ==
  ASSUME WithInv, NEW p \in Process
  PROVE  /\ \A i \in 1 .. Len(frames[p]) : FrameOK(frames[p], i)
         /\ OpOK(Top(p), pc[p], arg[p], unwinding[p])
         /\ \A m \in Lock :
               MineOK(frames[p], Top(p), pc[p], unwinding[p], m, LockCountMine(p, m))
  <1>1. /\ StateOK(frames[p], pc[p], arg[p], unwinding[p], Mine(p))
        /\ Top(p) = Innermost(frames[p])
        /\ \A l \in Lock : Mine(p)[l] = LockCountMine(p, l)
    BY OfProcess
  <1> QED BY <1>1 DEF StateOK

(* MineOK of a WITH-LOCK of the lock itself, if it is being cleaned up or  *)
(* unwound.                                                                *)
LEMMA MineLoose ==
  ASSUME NEW fs, NEW f, NEW at, NEW out \in BOOLEAN, NEW m, NEW n, On(f, m),
         f.phase = "cleanup" \/ (out = TRUE /\ f.phase # "giveup")
  PROVE  MineOK(fs, f, at, out, m, n) <=> n \in {f.count, f.count + 1}
  <1>1. CASE out = TRUE
    BY <1>1 DEF MineOK
  <1>2. CASE out = FALSE
    BY <1>2 DEF MineOK
  <1> QED BY <1>1, <1>2, Zenon

(* A frame is added.                                                       *)
LEMMA PushedFrames ==
  ASSUME WithInv, NEW p \in Process, NEW f \in Frame, Len(frames[p]) < MaxNest,
         frames' = [frames EXCEPT ![p] = Append(frames[p], f)]
  PROVE  /\ frames' \in [Process -> Seq(Frame)] /\ frames'[p] = Append(frames[p], f)
         /\ Len(frames'[p]) <= MaxNest
         /\ \A q \in Process \ {p} : frames'[q] = frames[q]
  <1>1. frames \in [Process -> Seq(Frame)] /\ MaxNest \in Nat
    BY WithLockAssumption DEF WithInv
  <1>2. PICK g : g = Append(frames[p], f)
    BY Zenon
  <1>3. g \in Seq(Frame) /\ Len(g) = Len(frames[p]) + 1 /\ Len(frames[p]) \in Nat
    BY <1>1, <1>2
  <1>4. Len(g) <= MaxNest
    BY <1>1, <1>3
  <1>5. /\ frames' \in [Process -> Seq(Frame)] /\ frames'[p] = g
        /\ \A q \in Process \ {p} : frames'[q] = frames[q]
    BY <1>1, <1>2, <1>3
  <1> QED BY <1>2, <1>4, <1>5

(* Entering a WITH-LOCK keeps the invariant: the count it remembers is     *)
(* what the frames below say.                                              *)
LEMMA EnterWithInv ==
  ASSUME WithInv, NEW p \in Process, NEW l \in Lock, EnterWith(p, l)
  PROVE  WithInv'
  <1> DEFINE f == WithFrame(l, LockCountMine(p, l), "get")
  <1>1. LockInv' /\ \A q \in Process : Mine(q)' = Mine(q)
    BY SameLocks DEF WithInv, EnterWith
  <1>2. /\ f \in Frame /\ f.kind = "with" /\ f.phase = "get"
        /\ f.lock = l /\ f.count \in Nat /\ f.count = Mine(p)[f.lock]
    BY OfProcess DEF WithFrame, Frame
  <1>3. /\ pc[p] = "idle" /\ unwinding[p] = FALSE
        /\ Innermost(frames[p]).kind = "with" => Innermost(frames[p]).phase = "body"
    BY OfProcess DEF EnterWith, InCode, Running, TopIs
  <1>4. /\ frames' = [frames EXCEPT ![p] = Append(frames[p], f)]
        /\ Len(frames[p]) < MaxNest
        /\ unwinding' = unwinding /\ pc' = pc /\ arg' = arg
    BY DEF EnterWith, Push, lockVars
  <1> HIDE DEF f
  <1>5. StateOK(Append(frames[p], f), "idle", Nil, FALSE, Mine(p))
    BY <1>2, <1>3, OfProcess, PushState, Zenon
  <1>6. StateOK(Append(frames[p], f), "idle", arg[p], FALSE, Mine(p))
    BY <1>5, Zenon DEF StateOK, OpOK
  <1>7. /\ frames' \in [Process -> Seq(Frame)] /\ frames'[p] = Append(frames[p], f)
        /\ Len(frames'[p]) <= MaxNest
        /\ \A q \in Process \ {p} : frames'[q] = frames[q]
    BY <1>2, <1>4, PushedFrames, Zenon
  <1>8. StateOK(frames'[p], pc'[p], arg'[p], unwinding'[p], Mine(p)')
    BY <1>1, <1>3, <1>4, <1>6, <1>7, Zenon
  <1> QED BY <1>1, <1>4, <1>7, <1>8, Assemble DEF WithInv

(* So does an interrupt: the fields of the lock of an operation in         *)
(* progress are right for a process that is in none.                       *)
LEMMA InterruptInv ==
  ASSUME WithInv, NEW p \in Process, Interrupt(p), Points \subseteq SafePoints
  PROVE  WithInv'
  <1> DEFINE f == HandlerFrame(p)
  <1>1. /\ pc' = [pc EXCEPT ![p] = "idle"] /\ arg' = [arg EXCEPT ![p] = Nil]
        /\ cv' = [cv EXCEPT ![p] = Nil]
        /\ owner' = owner /\ depth' = depth /\ holder' = holder /\ counter' = counter
        /\ unwinding' = unwinding /\ unwinding[p] = FALSE
        /\ frames' = [frames EXCEPT ![p] = Append(frames[p], f)]
        /\ Len(frames[p]) < MaxNest
    BY OfProcess DEF Interrupt, Push, mutexVars, fieldVars
  <1>2. /\ pc[p] \in SafePoints
        /\ Top(p).kind = "with" => Top(p).phase \notin {"cleanup", "giveup"}
    BY DEF Interrupt, InterruptsEnabled, TopIs
  <1>3. pc[p] \notin {"clear", "unlock"}
    BY <1>2, OfFrames DEF OpOK, On
  <1>4. /\ f \in Frame /\ f.kind = "handler" /\ f.pc = pc[p] /\ f.arg = arg[p]
    BY <1>2, <1>3 DEF WithInv, LockInv, LockTypeOK, HandlerFrame, Frame
  <1>5. Innermost(frames[p]).kind = "with" => Innermost(frames[p]).phase \in {"get", "body"}
    BY <1>2, OfProcess DEF Frame
  <1>6. LockInv'
    <2>1. LockInv /\ LockTypeOK /\ p # Nil
      BY LockAssumption, Zenon DEF WithInv, LockInv
    <2>2. /\ pc'[p] = "idle" /\ arg'[p] = Nil
          /\ \A q \in Process \ {p} : pc'[q] = pc[q] /\ arg'[q] = arg[q]
      BY ONLY <1>1, <2>1 DEF LockTypeOK
    <2>3. LockTypeOK'
      <3>1. "idle" \in PC
        BY DEF PC
      <3>2. pc' \in [Process -> PC] /\ arg' \in [Process -> Lock \cup {Nil}]
            /\ cv' \in [Process -> CV \cup {Nil}]
        BY ONLY <1>1, <2>1, <3>1 DEF LockTypeOK
      <3>3. \A q \in Process : pc'[q] # "idle" => arg'[q] \in Lock
        BY ONLY <2>1, <2>2 DEF LockTypeOK
      <3> QED BY <1>1, <2>1, <3>2, <3>3, Zenon DEF LockTypeOK
    <2>4. ASSUME NEW l \in Lock
          PROVE  IF owner[l] = Nil THEN depth[l] = 0 /\ holder[l] = Nil /\ counter[l] = 0
                 ELSE depth[l] = 1 /\ FieldsOK(l, owner[l])'
      <3>1. IF owner[l] = Nil THEN depth[l] = 0 /\ holder[l] = Nil /\ counter[l] = 0
            ELSE depth[l] = 1 /\ FieldsOK(l, owner[l])
        BY <2>1, Zenon DEF LockInv
      <3>2. owner[l] \in Process \cup {Nil} /\ owner'[l] = owner[l]
            /\ holder'[l] = holder[l] /\ counter'[l] = counter[l]
        BY ONLY <1>1, <2>1, <2>4 DEF LockTypeOK
      <3>3. CASE owner[l] = p
        <4>1. FieldsOK(l, p)
          BY <2>1, <3>1, <3>3, Zenon
        <4>2. pc[p] \in InMutex => pc[p] = "cvCount"
          BY ONLY <1>2, <1>3 DEF SafePoints, InMutex
        <4>3. holder[l] = p /\ counter[l] >= 1 /\ (l \in Recursive \/ counter[l] = 1)
          BY ONLY <4>1, <4>2 DEF FieldsOK
        <4>4. "idle" \notin InMutex
          BY DEF InMutex
        <4>5. FieldsOK(l, p)'
          BY ONLY <2>2, <3>2, <4>3, <4>4 DEF FieldsOK
        <4> QED BY <2>1, <3>1, <3>2, <3>3, <4>5, Zenon
      <3>4. ASSUME NEW q \in Process \ {p}, FieldsOK(l, q)
            PROVE  FieldsOK(l, q)'
        BY ONLY <2>2, <3>2, <3>4 DEF FieldsOK
      <3> QED BY <3>1, <3>2, <3>3, <3>4, Zenon
    <2>5. ASSUME NEW q \in Process
          PROVE  /\ pc'[q] \in InMutex => owner'[arg'[q]] = q
                 /\ pc'[q] \in {"lock", "trylock", "cvBlocked", "cvWoken"} => owner'[arg'[q]] # q
      <3>1. CASE q = p
        BY ONLY <2>2, <3>1 DEF InMutex
      <3>2. CASE q # p
        BY <1>1, <2>1, <2>2, <3>2, Zenon DEF LockInv
      <3> QED BY <3>1, <3>2, Zenon
    <2> QED BY <1>1, <2>3, <2>4, <2>5, Zenon DEF LockInv
  <1>7. \A q \in Process : Mine(q)' = Mine(q)
    BY <1>1 DEF Mine, LockCountMine
  <1> HIDE DEF f
  <1>8. StateOK(Append(frames[p], f), "idle", Nil, FALSE, Mine(p))
    BY <1>1, <1>4, <1>5, OfProcess, PushState, Zenon
  <1>9. /\ frames' \in [Process -> Seq(Frame)] /\ frames'[p] = Append(frames[p], f)
        /\ Len(frames'[p]) <= MaxNest
        /\ \A q \in Process \ {p} : frames'[q] = frames[q]
    BY <1>1, <1>4, PushedFrames, Zenon
  <1>10. pc'[p] = "idle" /\ arg'[p] = Nil
    BY <1>1 DEF WithInv, LockInv, LockTypeOK
  <1>11. StateOK(frames'[p], pc'[p], arg'[p], unwinding'[p], Mine(p)')
    BY <1>1, <1>7, <1>8, <1>9, <1>10, Zenon
  <1>12. \A q \in Process \ {p} : pc'[q] = pc[q] /\ arg'[q] = arg[q]
    BY <1>1 DEF WithInv, LockInv, LockTypeOK
  <1>13. unwinding' \in [Process -> BOOLEAN]
    BY <1>1 DEF WithInv
  <1> QED BY <1>1, <1>6, <1>7, <1>9, <1>11, <1>12, <1>13, Assemble

(* A process whose innermost frame is a handler, or a WITH-LOCK that has   *)
(* its lock as often as before, has every lock as often as below it.       *)
LEMMA LevelsBelow ==
  ASSUME WithInv, NEW p \in Process, frames[p] # <<>>,
         Top(p).kind = "with" => LockCountMine(p, Top(p).lock) = Top(p).count,
         NEW m \in Lock
  PROVE  LevelIs(frames[p], m, Len(frames[p]) - 1, LockCountMine(p, m))
  <1> DEFINE fs == frames[p]
  <1>a. fs \in Seq(Frame) /\ Top(p) = fs[Len(fs)]
    BY OfProcess
  <1>b. Len(fs) \in 1 .. Len(fs)
    BY <1>a
  <1>1. /\ Top(p) = fs[Len(fs)] /\ FrameOK(fs, Len(fs))
        /\ MineOK(fs, Top(p), pc[p], unwinding[p], m, LockCountMine(p, m))
    BY <1>a, <1>b, OfFrames
  <1>2. CASE On(Top(p), m)
    BY <1>1, <1>2 DEF FrameOK, On
  <1>3. CASE ~On(Top(p), m)
    BY <1>1, <1>3 DEF MineOK
  <1> QED BY <1>2, <1>3

(* Taking the innermost frame away keeps the invariant then.               *)
LEMMA PopInv ==
  ASSUME WithInv, NEW p \in Process, frames[p] # <<>>, Pop(p), LockInv',
         Top(p).kind = "with" => LockCountMine(p, Top(p).lock) = Top(p).count,
         UNCHANGED <<holder, counter, unwinding>>,
         OpOK(Innermost(SubSeq(frames[p], 1, Len(frames[p]) - 1)),
              pc'[p], arg'[p], unwinding[p]),
         unwinding[p] \/ pc'[p] = LeftAt(frames[p], Len(frames[p]) - 1),
         \A q \in Process \ {p} : pc'[q] = pc[q] /\ arg'[q] = arg[q]
  PROVE  WithInv'
  <1>1. \A q \in Process : Mine(q)' = Mine(q)
    BY DEF Mine, LockCountMine
  <1>2. PICK gs : gs = SubSeq(frames[p], 1, Len(frames[p]) - 1)
    BY Zenon
  <1>3. \A m \in Lock : LevelIs(frames[p], m, Len(frames[p]) - 1, Mine(p)[m])
    BY LevelsBelow, OfProcess
  <1>4. /\ frames[p] \in Seq(Frame) /\ unwinding[p] \in BOOLEAN
        /\ Len(frames[p]) <= MaxNest
        /\ \A i \in 1 .. Len(frames[p]) : FrameOK(frames[p], i)
    BY OfProcess, OfFrames
  <1>5. StateOK(gs, pc'[p], arg'[p], unwinding[p], Mine(p))
    BY <1>2, <1>3, <1>4, PopState, Zenon
  <1>6. gs \in Seq(Frame) /\ Len(gs) <= MaxNest
    <2>0. gs \in Seq(Frame) /\ Len(gs) \in Nat /\ Len(frames[p]) = Len(gs) + 1
      BY <1>2, <1>4, Shorter, Zenon
    <2>1. gs \in Seq(Frame) /\ Len(gs) = Len(frames[p]) - 1 /\ Len(frames[p]) \in Nat
      BY ONLY <2>0
    <2>2. MaxNest \in Nat
      BY WithLockAssumption
    <2>3. PICK n : n = Len(frames[p])
      BY Zenon
    <2>4. n \in Nat /\ n <= MaxNest /\ Len(gs) = n - 1
      BY <1>4, <2>1, <2>3, Zenon
    <2>5. n - 1 <= MaxNest
      BY ONLY <2>2, <2>4
    <2> QED BY ONLY <2>1, <2>4, <2>5
  <1>7. /\ frames' \in [Process -> Seq(Frame)] /\ frames'[p] = gs
        /\ \A q \in Process \ {p} : frames'[q] = frames[q]
    BY <1>2, <1>6 DEF WithInv, Pop
  <1>8. unwinding' \in [Process -> BOOLEAN]
    BY DEF WithInv
  <1>9. StateOK(frames'[p], pc'[p], arg'[p], unwinding'[p], Mine(p)')
    BY <1>1, <1>5, <1>7
  <1> QED BY <1>1, <1>6, <1>7, <1>8, <1>9, Assemble

(* A change of the phase of the innermost WITH-LOCK keeps it, if the       *)
(* process has the lock as often as the new phase says.                    *)
LEMMA PhaseInv ==
  ASSUME WithInv, NEW p \in Process, Top(p).kind = "with",
         NEW ph \in {"get", "body", "cleanup", "giveup"}, Phase(p, ph), LockInv',
         unwinding' = unwinding,
         NEW f, f = WithFrame(Top(p).lock, Top(p).count, ph),
         \A m \in Lock : m # f.lock => LockCountMine(p, m)' = LockCountMine(p, m),
         OpOK(f, pc'[p], arg'[p], unwinding[p]),
         MineOK(frames[p], f, pc'[p], unwinding[p], f.lock, LockCountMine(p, f.lock)'),
         \A q \in Process \ {p} :
            /\ pc'[q] = pc[q] /\ arg'[q] = arg[q]
            /\ \A m \in Lock : LockCountMine(q, m)' = LockCountMine(q, m)
  PROVE  WithInv'
  <1>1. PICK gs : gs = [frames[p] EXCEPT ![Len(frames[p])] = f]
    BY Zenon
  <1>2. /\ frames[p] \in Seq(Frame) /\ Top(p) = Innermost(frames[p])
        /\ Len(frames[p]) <= MaxNest
        /\ StateOK(frames[p], pc[p], arg[p], unwinding[p], Mine(p))
        /\ \A l \in Lock : Mine(p)[l] = LockCountMine(p, l)
    BY OfProcess
  <1>3. /\ gs \in Seq(Frame) /\ Len(gs) = Len(frames[p]) /\ Innermost(gs) = f
        /\ f.kind = "with" /\ f.lock \in Lock
        /\ \A i \in 1 .. Len(gs) : FrameOK(gs, i)
        /\ \A m \in Lock : ~On(f, m) => LevelIs(gs, m, Len(gs) - 1, Mine(p)[m])
    <2>1. frames[p] # <<>> /\ Top(p) \in Frame
      BY OfProcess
    <2>2. f \in Frame /\ f.kind = "with" /\ f.lock \in Lock
      BY <2>1 DEF WithFrame, Frame
    <2>3. f.lock = Innermost(frames[p]).lock /\ f.count = Innermost(frames[p]).count
      BY <1>2 DEF WithFrame
    <2>4. Innermost(frames[p]).kind = "with"
      BY <1>2
    <2>5. /\ gs \in Seq(Frame) /\ Len(gs) = Len(frames[p]) /\ gs[Len(frames[p])] = f
          /\ \A j \in 1 .. Len(frames[p]) - 1 : gs[j] = frames[p][j]
      <3>1. PICK fs : fs = frames[p]
        OBVIOUS
      <3>2. fs \in Seq(Frame) /\ gs = [fs EXCEPT ![Len(fs)] = f] /\ fs # <<>>
        BY <1>1, <1>2, <2>1, <3>1
      <3>3. Len(fs) \in 1 .. Len(fs)
        BY ONLY <3>2
      <3>4. gs \in Seq(Frame) /\ Len(gs) = Len(fs)
        BY ONLY <2>2, <3>2
      <3>5. gs[Len(fs)] = f /\ \A j \in 1 .. Len(fs) - 1 : gs[j] = fs[j]
        BY ONLY <3>2, <3>3
      <3> QED BY <3>1, <3>4, <3>5
    <2> QED BY <2>2, <2>3, <2>4, <2>5, <1>2, PhaseState, Zenon
  <1>4. \A m \in Lock : Mine(p)'[m] = LockCountMine(p, m)'
    BY DEF Mine
  <1>5. \A m \in Lock : MineOK(gs, f, pc'[p], unwinding[p], m, Mine(p)'[m])
    <2> SUFFICES ASSUME NEW m \in Lock
                 PROVE  MineOK(gs, f, pc'[p], unwinding[p], m, Mine(p)'[m])
      OBVIOUS
    <2>1. CASE On(f, m)
      <3>1. m = f.lock
        BY <2>1 DEF On
      <3> QED BY <2>1, <3>1, <1>4 DEF MineOK
    <2>2. CASE ~On(f, m)
      <3>1. Mine(p)'[m] = Mine(p)[m]
        BY <2>2, <1>2, <1>3, <1>4 DEF On
      <3> QED BY <2>2, <3>1, <1>3 DEF MineOK
    <2> QED BY <2>1, <2>2
  <1>6. /\ frames' \in [Process -> Seq(Frame)] /\ frames'[p] = gs
        /\ \A q \in Process \ {p} : frames'[q] = frames[q]
    BY <1>1, <1>3 DEF WithInv, Phase
  <1>7. StateOK(gs, pc'[p], arg'[p], unwinding[p], Mine(p)')
    BY <1>3, <1>5 DEF StateOK
  <1>8. \A q \in Process \ {p} : Mine(q)' = Mine(q)
    BY DEF Mine
  <1>9. /\ unwinding' \in [Process -> BOOLEAN] /\ Len(frames'[p]) <= MaxNest
        /\ StateOK(frames'[p], pc'[p], arg'[p], unwinding'[p], Mine(p)')
    BY <1>2, <1>3, <1>6, <1>7 DEF WithInv
  <1> QED BY <1>6, <1>8, <1>9, Assemble

(* And so does a step that leaves the frames alone.                        *)
LEMMA SameFrames ==
  ASSUME WithInv, NEW p \in Process, LockInv', frames' = frames,
         unwinding' \in [Process -> BOOLEAN],
         OpOK(Top(p), pc'[p], arg'[p], unwinding'[p]),
         \A m \in Lock :
            IF On(Top(p), m)
            THEN MineOK(frames[p], Top(p), pc'[p], unwinding'[p], m, LockCountMine(p, m)')
            ELSE LockCountMine(p, m)' = LockCountMine(p, m),
         \A q \in Process \ {p} :
            /\ unwinding'[q] = unwinding[q] /\ arg'[q] = arg[q]
            /\ \A m \in Lock : LockCountMine(q, m)' = LockCountMine(q, m)
            /\ \/ pc'[q] = pc[q]
               \/ pc[q] = "cvBlocked" /\ pc'[q] = "cvWoken"
  PROVE  WithInv'
  <1>1. /\ frames[p] \in Seq(Frame) /\ Top(p) = Innermost(frames[p])
        /\ Len(frames[p]) <= MaxNest
        /\ StateOK(frames[p], pc[p], arg[p], unwinding[p], Mine(p))
        /\ \A l \in Lock : Mine(p)[l] = LockCountMine(p, l)
    BY OfProcess
  <1>2. \A m \in Lock : Mine(p)'[m] = LockCountMine(p, m)'
    BY DEF Mine
  <1>3. \A m \in Lock : MineOK(frames[p], Top(p), pc'[p], unwinding'[p], m, Mine(p)'[m])
    <2> SUFFICES ASSUME NEW m \in Lock
                 PROVE  MineOK(frames[p], Top(p), pc'[p], unwinding'[p], m, Mine(p)'[m])
      OBVIOUS
    <2>1. CASE On(Top(p), m)
      BY <2>1, <1>2
    <2>2. CASE ~On(Top(p), m)
      <3>1. Mine(p)'[m] = Mine(p)[m]
        BY <2>2, <1>1, <1>2
      <3>2. MineOK(frames[p], Top(p), pc[p], unwinding[p], m, Mine(p)[m])
        BY <1>1 DEF StateOK
      <3> QED BY <2>2, <3>1, <3>2 DEF MineOK
    <2> QED BY <2>1, <2>2
  <1>4. StateOK(frames'[p], pc'[p], arg'[p], unwinding'[p], Mine(p)')
    BY <1>1, <1>3 DEF StateOK
  <1>5. \A q \in Process \ {p} : Mine(q)' = Mine(q)
    BY DEF Mine
  <1>6. frames' \in [Process -> Seq(Frame)] /\ Len(frames'[p]) <= MaxNest
    BY <1>1 DEF WithInv
  <1> QED BY <1>4, <1>5, <1>6, Assemble

(* What is known of a WITH-LOCK that is the innermost frame.               *)
LEMMA TopWith ==
  ASSUME WithInv, NEW p \in Process, Top(p).kind = "with"
  PROVE  /\ frames[p] # <<>> /\ Top(p).lock \in Lock /\ Top(p).count \in Nat
         /\ Top(p).phase \in {"get", "body", "cleanup", "giveup"}
         /\ On(Top(p), Top(p).lock)
         /\ OpOK(Top(p), pc[p], arg[p], unwinding[p])
         /\ MineOK(frames[p], Top(p), pc[p], unwinding[p], Top(p).lock,
                   LockCountMine(p, Top(p).lock))
  <1>1. frames[p] # <<>> /\ Top(p) \in Frame
    BY OfProcess
  <1>2. /\ Top(p).lock \in Lock /\ Top(p).count \in Nat
        /\ Top(p).phase \in {"get", "body", "cleanup", "giveup"}
    BY <1>1 DEF Frame
  <1> QED BY <1>1, <1>2, OfFrames DEF On

(* A WITH-LOCK leaves the frame below it between operations.               *)
LEMMA WithLeft ==
  ASSUME WithInv, NEW p \in Process, frames[p] # <<>>, Top(p).kind = "with"
  PROVE  LeftAt(frames[p], Len(frames[p]) - 1) = "idle"
  <1>1. frames[p] \in Seq(Frame) /\ frames[p][Len(frames[p])].kind = "with"
    BY OfProcess, Zenon
  <1>2. PICK n : n = Len(frames[p])
    BY Zenon
  <1>3. n \in Nat
    BY ONLY <1>1, <1>2
  <1>4. n - 1 + 1 = n
    BY ONLY <1>3
  <1>5. frames[p][n - 1 + 1].kind = "with"
    BY ONLY <1>1, <1>2, <1>4, Zenon
  <1>6. LeftAt(frames[p], n - 1) = "idle"
    BY ONLY <1>5 DEF LeftAt
  <1> QED BY <1>2, <1>6, Zenon

(* Between operations, it has its lock as often as its phase says.         *)
LEMMA IdleMine ==
  ASSUME WithInv, NEW p \in Process, Top(p).kind = "with", pc[p] = "idle"
  PROVE  /\ LockCountMine(p, Top(p).lock) \in {Top(p).count, Top(p).count + 1}
         /\ Top(p).phase # "cleanup" /\ (unwinding[p] = FALSE \/ Top(p).phase = "giveup") =>
               LockCountMine(p, Top(p).lock) =
                  IF Top(p).phase = "body" THEN Top(p).count + 1 ELSE Top(p).count
  <1>1. PICK f : f = Top(p)
    OBVIOUS
  <1>2. PICK n : n = LockCountMine(p, f.lock)
    OBVIOUS
  <1>3. /\ On(f, f.lock) /\ f.count \in Nat /\ unwinding[p] \in BOOLEAN
        /\ f.phase \in {"get", "body", "cleanup", "giveup"}
        /\ MineOK(frames[p], f, "idle", unwinding[p], f.lock, n)
    BY <1>1, <1>2, TopWith, OfProcess
  <1>4. Extra(f, "idle") = IF f.phase = "body" THEN 1 ELSE 0
    BY DEF Extra
  <1>6. CASE f.phase = "cleanup" \/ (unwinding[p] = TRUE /\ f.phase # "giveup")
    <2>1. n \in {f.count, f.count + 1}
      <3>1. PICK fs : fs = frames[p]
        OBVIOUS
      <3>2. PICK out : out = unwinding[p]
        OBVIOUS
      <3>3. out \in BOOLEAN /\ On(f, f.lock) /\ MineOK(fs, f, "idle", out, f.lock, n)
        BY <1>3, <3>1, <3>2
      <3>4. f.phase = "cleanup" \/ (out = TRUE /\ f.phase # "giveup")
        BY <1>6, <3>2
      <3>5. MineOK(fs, f, "idle", out, f.lock, n) <=> n \in {f.count, f.count + 1}
        <4>1. CASE out = TRUE
          BY ONLY <3>3, <3>4, <4>1 DEF MineOK
        <4>2. CASE out = FALSE
          BY ONLY <3>3, <3>4, <4>2 DEF MineOK
        <4> QED BY <3>3, <4>1, <4>2, Zenon
      <3> QED BY <3>3, <3>5
    <2> QED BY <1>1, <1>2, <1>6, <2>1
  <1>7. CASE f.phase # "cleanup" /\ (unwinding[p] = FALSE \/ f.phase = "giveup")
    <2>1. n = f.count + Extra(f, "idle")
      <3>1. PICK fs : fs = frames[p]
        OBVIOUS
      <3>2. PICK out : out = unwinding[p]
        OBVIOUS
      <3>3. out \in BOOLEAN /\ On(f, f.lock) /\ MineOK(fs, f, "idle", out, f.lock, n)
        BY <1>3, <3>1, <3>2
      <3>4. f.phase # "cleanup" /\ (out = FALSE \/ f.phase = "giveup")
        BY <1>7, <3>2
      <3>5. MineOK(fs, f, "idle", out, f.lock, n) <=> n = f.count + Extra(f, "idle")
        <4>1. CASE out = TRUE
          BY <3>3, <3>4, <4>1 DEF MineOK
        <4>2. CASE out = FALSE
          BY <3>3, <3>4, <4>2 DEF MineOK
        <4> QED BY <3>3, <4>1, <4>2, Zenon
      <3> QED BY <3>3, <3>5
    <2>2. n = IF f.phase = "body" THEN f.count + 1 ELSE f.count
      BY ONLY <1>3, <1>4, <2>1
    <2> QED BY <1>1, <1>2, <2>2
  <1> QED BY <1>3, <1>6, <1>7, Zenon

(* get-lock keeps the invariant: asked for while the process has the lock  *)
(* as often as it remembers.                                               *)
LEMMA GetLockInv ==
  ASSUME WithInv, NEW p \in Process, GetLock(p)
  PROVE  WithInv'
  <1>a. PICK l : l = Top(p).lock
    OBVIOUS
  <1>b. PICK f : f = WithFrame(l, Top(p).count, "body")
    OBVIOUS
  <1>1. /\ pc[p] = "idle" /\ unwinding[p] = FALSE
        /\ Top(p).kind = "with" /\ Top(p).phase = "get"
    BY OfProcess DEF GetLock, Running, TopIs
  <1>2. /\ l \in Lock /\ Top(p).count \in Nat /\ LockInv
        /\ LockCountMine(p, l) = Top(p).count
    BY <1>a, <1>1, TopWith, IdleMine, OfProcess, Zenon
  <1>3. f.kind = "with" /\ f.lock = l /\ f.count = Top(p).count /\ f.phase = "body"
    BY <1>b DEF WithFrame
  <1>4. CASE GetLockWait(p, l) /\ Phase(p, "body") /\ unwinding' = unwinding
    <2>1. LockInv'
      BY <1>2, <1>4, BeginInv DEF Begin
    <2>2. /\ pc' = [pc EXCEPT ![p] = "lock"] /\ arg' = [arg EXCEPT ![p] = l]
          /\ holder' = holder /\ counter' = counter /\ holder[l] # p
      BY <1>4 DEF GetLockWait, Call, Goto, fieldVars
    <2>3. pc'[p] = "lock" /\ arg'[p] = l
          /\ \A q \in Process \ {p} : pc'[q] = pc[q] /\ arg'[q] = arg[q]
      BY <1>2, <2>2 DEF LockInv, LockTypeOK
    <2>4. \A q \in Process, m \in Lock : LockCountMine(q, m)' = LockCountMine(q, m)
      BY <2>2 DEF LockCountMine
    <2>5. LockCountMine(p, l)' = 0 /\ f.count = 0
      BY <1>2, <1>3, <2>2 DEF LockCountMine
    <2>6. OpOK(f, pc'[p], arg'[p], unwinding[p])
      BY <1>1, <1>3, <2>3, <2>5 DEF OpOK, On
    <2>7. MineOK(frames[p], f, pc'[p], unwinding[p], f.lock, LockCountMine(p, f.lock)')
      BY ONLY <1>1, <1>3, <2>3, <2>5 DEF MineOK, On, Extra
    <2> QED BY <1>1, <1>4, <2>1, <2>3, <2>4, <2>6, <2>7, <1>a, <1>b, PhaseInv
  <1>5. CASE GetLockAgain(p, l) /\ Phase(p, "body") /\ unwinding' = unwinding
    <2>1. LockInv'
      BY <1>2, <1>5, BeginInv DEF Begin
    <2>2. /\ pc' = pc /\ arg' = arg
          /\ holder' = holder /\ counter' = [counter EXCEPT ![l] = counter[l] + 1]
          /\ holder[l] = p
      BY <1>5 DEF GetLockAgain, callVars
    <2>3. LockCountMine(p, l)' = f.count + 1
      BY <1>2, <1>3, <2>2 DEF LockInv, LockTypeOK, LockCountMine
    <2>4. /\ \A m \in Lock : m # l => LockCountMine(p, m)' = LockCountMine(p, m)
          /\ \A q \in Process \ {p}, m \in Lock : LockCountMine(q, m)' = LockCountMine(q, m)
      BY <1>2, <2>2 DEF LockInv, LockTypeOK, LockCountMine
    <2>5. OpOK(f, pc'[p], arg'[p], unwinding[p])
      BY <1>1, <2>2 DEF OpOK
    <2>6. MineOK(frames[p], f, pc'[p], unwinding[p], f.lock, LockCountMine(p, f.lock)')
      BY <1>1, <1>3, <2>2, <2>3 DEF MineOK, On, Extra
    <2>7. /\ \A q \in Process \ {p} : pc'[q] = pc[q] /\ arg'[q] = arg[q]
          /\ f = WithFrame(Top(p).lock, Top(p).count, "body")
          /\ \A m \in Lock : m # f.lock => LockCountMine(p, m)' = LockCountMine(p, m)
      BY <1>a, <1>b, <1>3, <2>2, <2>4
    <2> QED BY <1>1, <1>5, <2>1, <2>4, <2>5, <2>6, <2>7, PhaseInv
  <1>6. CASE unwinding' = [unwinding EXCEPT ![p] = TRUE] /\ UNCHANGED <<lockVars, frames>>
    <2>1. /\ LockInv' /\ pc' = pc /\ arg' = arg
          /\ \A q \in Process, m \in Lock : LockCountMine(q, m)' = LockCountMine(q, m)
      BY <1>2, <1>6, SameLocks DEF lockVars, LockCountMine
    <2>2. /\ unwinding' \in [Process -> BOOLEAN] /\ unwinding'[p] = TRUE
          /\ \A q \in Process \ {p} : unwinding'[q] = unwinding[q]
      BY <1>6 DEF WithInv
    <2>3. OpOK(Top(p), pc'[p], arg'[p], unwinding'[p])
      BY <1>1, <2>1 DEF OpOK
    <2>4. \A m \in Lock : On(Top(p), m) =>
             MineOK(frames[p], Top(p), pc'[p], unwinding'[p], m, LockCountMine(p, m)')
      BY <1>a, <1>1, <1>2, <2>1, <2>2 DEF On, MineOK
    <2> QED BY <1>6, <2>1, <2>2, <2>3, <2>4, SameFrames, Zenon
  <1> QED BY <1>a, <1>4, <1>5, <1>6 DEF GetLock

(* The end of the body keeps it.                                           *)
LEMMA EndBodyInv ==
  ASSUME WithInv, NEW p \in Process, EndBody(p)
  PROVE  WithInv'
  <1>b. PICK f : f = WithFrame(Top(p).lock, Top(p).count, "cleanup")
    OBVIOUS
  <1>1. /\ pc[p] = "idle" /\ unwinding[p] = FALSE
        /\ Top(p).kind = "with" /\ Top(p).phase = "body"
    BY OfProcess DEF EndBody, Running, TopIs
  <1>2. /\ Top(p).lock \in Lock /\ Top(p).count \in Nat
        /\ LockCountMine(p, Top(p).lock) = Top(p).count + 1
    BY <1>1, TopWith, IdleMine, Zenon
  <1>3. f.kind = "with" /\ f.lock = Top(p).lock /\ f.count = Top(p).count /\ f.phase = "cleanup"
    BY <1>b DEF WithFrame
  <1>4. /\ LockInv' /\ pc' = pc /\ arg' = arg /\ Phase(p, "cleanup")
        /\ unwinding' = unwinding
        /\ \A q \in Process, m \in Lock : LockCountMine(q, m)' = LockCountMine(q, m)
    BY SameLocks DEF WithInv, EndBody, lockVars, LockCountMine
  <1>5. OpOK(f, pc'[p], arg'[p], unwinding[p])
    BY <1>1, <1>4 DEF OpOK
  <1>6. MineOK(frames[p], f, pc'[p], unwinding[p], f.lock, LockCountMine(p, f.lock)')
    BY <1>2, <1>3, <1>4 DEF MineOK, On
  <1> QED BY <1>1, <1>4, <1>5, <1>6, <1>b, PhaseInv

(* The cleanup form keeps it: it gives up one level if there is one more   *)
(* than remembered, and nothing otherwise.                                 *)
LEMMA CleanupInv ==
  ASSUME WithInv, NEW p \in Process, Cleanup(p)
  PROVE  WithInv'
  <1>a. PICK l : l = Top(p).lock
    OBVIOUS
  <1>b. PICK f : f = WithFrame(l, Top(p).count, "giveup")
    OBVIOUS
  <1>1. pc[p] = "idle" /\ Top(p).kind = "with" /\ Top(p).phase = "cleanup"
    BY DEF Cleanup, TopIs
  <1>2. /\ l \in Lock /\ Top(p).count \in Nat /\ LockInv
        /\ LockCountMine(p, l) \in {Top(p).count, Top(p).count + 1}
        /\ frames[p] # <<>>
    BY <1>a, <1>1, TopWith, IdleMine, OfProcess, Zenon
  <1>3. f.kind = "with" /\ f.lock = l /\ f.count = Top(p).count /\ f.phase = "giveup"
    BY <1>b DEF WithFrame
  <1>4. CASE LockCountMine(p, l) > Top(p).count
    <2>1. GiveupLock(p, l) /\ Phase(p, "giveup") /\ unwinding' = unwinding
      BY <1>a, <1>4 DEF Cleanup
    <2>2. LockInv'
      BY <1>2, <2>1, BeginInv DEF Begin
    <2>3. /\ holder' = holder /\ holder[l] = p
          /\ counter' = [counter EXCEPT ![l] = counter[l] - 1]
          /\ IF counter[l] = 1 THEN Call(p, "clear", l) ELSE UNCHANGED callVars
      BY <2>1 DEF GiveupLock
    <2>4. counter[l] = Top(p).count + 1 /\ LockCountMine(p, l)' = Top(p).count
      <3>1. counter[l] \in Nat /\ counter'[l] = counter[l] - 1
        BY <1>2, <2>3 DEF LockInv, LockTypeOK
      <3>2. LockCountMine(p, l) = counter[l] /\ LockCountMine(p, l)' = counter'[l]
        BY <2>3 DEF LockCountMine
      <3>3. counter[l] = Top(p).count + 1
        BY ONLY <1>2, <1>4, <3>2
      <3> QED BY ONLY <1>2, <3>1, <3>2, <3>3
    <2>5. /\ \A m \in Lock : m # l => LockCountMine(p, m)' = LockCountMine(p, m)
          /\ \A q \in Process \ {p}, m \in Lock : LockCountMine(q, m)' = LockCountMine(q, m)
      BY <1>2, <2>3 DEF LockInv, LockTypeOK, LockCountMine
    <2>6. IF Top(p).count = 0 THEN pc'[p] = "clear" /\ arg'[p] = l ELSE pc'[p] = "idle"
      <3>1. pc \in [Process -> PC] /\ arg \in [Process -> Lock \cup {Nil}]
        BY <1>2 DEF LockInv, LockTypeOK
      <3>2. CASE Top(p).count = 0
        <4>1. Call(p, "clear", l)
          BY <2>3, <2>4, <3>2
        <4> QED BY <3>1, <3>2, <4>1 DEF Call, Goto
      <3>3. CASE Top(p).count # 0
        <4>1. counter[l] # 1
          BY ONLY <1>2, <2>4, <3>3
        <4> QED BY <1>1, <2>3, <3>3, <4>1 DEF callVars
      <3> QED BY <3>2, <3>3
    <2>7. \A q \in Process \ {p} : pc'[q] = pc[q] /\ arg'[q] = arg[q]
      BY <1>2, <2>3 DEF LockInv, LockTypeOK, Call, Goto, callVars
    <2>8. OpOK(f, pc'[p], arg'[p], unwinding[p])
      BY <1>3, <2>6 DEF OpOK, On
    <2>9. MineOK(frames[p], f, pc'[p], unwinding[p], f.lock, LockCountMine(p, f.lock)')
      BY ONLY <1>2, <1>3, <2>4 DEF MineOK, On, Extra
    <2> QED BY <1>1, <1>3, <2>1, <2>2, <2>5, <2>7, <2>8, <2>9, <1>a, <1>b, PhaseInv
  <1>5. CASE ~(LockCountMine(p, l) > Top(p).count)
    <2>1. Pop(p) /\ UNCHANGED lockVars /\ unwinding' = unwinding
      BY <1>a, <1>5 DEF Cleanup
    <2>2. LockInv' /\ pc' = pc /\ arg' = arg /\ holder' = holder /\ counter' = counter
      BY <1>2, <2>1, SameLocks DEF lockVars
    <2>3. LockCountMine(p, Top(p).lock) = Top(p).count
      BY ONLY <1>a, <1>2, <1>5
    <2>4. LeftAt(frames[p], Len(frames[p]) - 1) = "idle"
      <3>1. frames[p] # <<>>
        BY <1>1, TopWith, Zenon
      <3> QED BY <1>1, <3>1, WithLeft, Zenon
    <2>5. \A x : OpOK(x, pc'[p], arg'[p], unwinding[p])
      BY <1>1, <2>2 DEF OpOK
    <2> QED BY <1>1, <1>2, <2>1, <2>2, <2>3, <2>4, <2>5, PopInv
  <1> QED BY <1>4, <1>5

(* Leaving a WITH-LOCK keeps it.                                           *)
LEMMA LeaveWithInv ==
  ASSUME WithInv, NEW p \in Process, LeaveWith(p)
  PROVE  WithInv'
  <1>1. /\ pc[p] = "idle" /\ Top(p).kind = "with" /\ Top(p).phase = "giveup"
        /\ Pop(p) /\ unwinding' = unwinding
    BY DEF LeaveWith, TopIs
  <1>2. LockInv' /\ pc' = pc /\ arg' = arg /\ holder' = holder /\ counter' = counter
    BY SameLocks DEF WithInv, LeaveWith, lockVars
  <1>3. LockCountMine(p, Top(p).lock) = Top(p).count /\ frames[p] # <<>>
    BY <1>1, TopWith, IdleMine, Zenon
  <1>4. LeftAt(frames[p], Len(frames[p]) - 1) = "idle"
    BY <1>1, <1>3, WithLeft, Zenon
  <1>5. \A x : OpOK(x, pc'[p], arg'[p], unwinding[p])
    BY <1>1, <1>2 DEF OpOK
  <1> QED BY <1>1, <1>2, <1>3, <1>4, <1>5, PopInv

(* The return of a handler keeps it: the interrupted operation finds the   *)
(* lock as it left it.                                                     *)
LEMMA HandlerReturnInv ==
  ASSUME WithInv, NEW p \in Process, HandlerReturn(p)
  PROVE  WithInv'
  <1> DEFINE fs == frames[p]
  <1>a. PICK gs : gs = SubSeq(fs, 1, Len(fs) - 1)
    BY Zenon
  <1>1. /\ pc[p] = "idle" /\ unwinding[p] = FALSE /\ Top(p).kind = "handler"
        /\ Pop(p) /\ unwinding' = unwinding
        /\ pc' = [pc EXCEPT ![p] = Top(p).pc] /\ arg' = [arg EXCEPT ![p] = Top(p).arg]
        /\ cv' = [cv EXCEPT ![p] = Top(p).cv]
        /\ owner' = owner /\ depth' = depth /\ holder' = holder /\ counter' = counter
    BY OfProcess DEF HandlerReturn, Running, mutexVars, fieldVars
  <1>2. /\ LockInv /\ fs \in Seq(Frame) /\ fs # <<>> /\ Top(p) = fs[Len(fs)]
        /\ Top(p) \in Frame /\ FrameOK(fs, Len(fs))
    <2>1. /\ LockInv /\ fs \in Seq(Frame) /\ fs # <<>> /\ Top(p) = fs[Len(fs)]
          /\ Top(p) \in Frame
      BY <1>1, OfProcess
    <2>2. Len(fs) \in 1 .. Len(fs)
      BY ONLY <2>1
    <2> QED BY <2>1, <2>2, OfFrames
  <1>3. /\ Top(p).pc \in {"idle", "lock", "cvCount", "cvBlocked", "cvWoken"}
        /\ Top(p).arg \in Lock \cup {Nil} /\ Top(p).cv \in CV \cup {Nil}
    BY <1>1, <1>2 DEF Frame, SafePoints
  <1>4. /\ pc'[p] = Top(p).pc /\ arg'[p] = Top(p).arg
        /\ \A q \in Process \ {p} : pc'[q] = pc[q] /\ arg'[q] = arg[q]
    BY <1>1, <1>2 DEF LockInv, LockTypeOK
  <1>5. LeftAt(fs, Len(fs) - 1) = Top(p).pc
    <2>1. (Len(fs) - 1) + 1 = Len(fs)
      BY ONLY <1>2
    <2> QED BY <1>1, <1>2, <2>1 DEF LeftAt
  <1>6. /\ gs \in Seq(Frame) /\ Len(gs) \in Nat /\ Len(fs) = Len(gs) + 1
        /\ Len(fs) - 1 = Len(gs) /\ \A j \in 1 .. Len(gs) : gs[j] = fs[j]
    BY <1>a, <1>2, Shorter
  <1>7. ASSUME Top(p).pc # "idle"
        PROVE  /\ Top(p).arg \in Lock
               /\ On(Innermost(gs), Top(p).arg)
               /\ Innermost(gs).phase = "body" /\ Innermost(gs).count = 0
               /\ LockCountMine(p, Top(p).arg) = Extra(Innermost(gs), Top(p).pc)
    <2>1. /\ Len(fs) > 1 /\ On(fs[Len(fs) - 1], Top(p).arg)
          /\ fs[Len(fs) - 1].phase = "body" /\ fs[Len(fs) - 1].count = 0
      BY <1>1, <1>2, <1>7 DEF FrameOK
    <2>2. gs # <<>> /\ Len(gs) \in 1 .. Len(gs)
      BY <2>1, <1>6
    <2>3. Innermost(gs) = fs[Len(fs) - 1] /\ Innermost(gs) \in Frame
      BY <2>2, <1>6 DEF Innermost
    <2>4. Top(p).arg \in Lock
      BY <2>1, <2>3 DEF Frame, On
    <2>5. LevelIs(fs, Top(p).arg, Len(gs), LockCountMine(p, Top(p).arg))
      BY <2>4, <1>1, <1>2, <1>6, LevelsBelow
    <2>6. LockCountMine(p, Top(p).arg) = 0 + Extra(Innermost(gs), LeftAt(fs, Len(gs)))
      <3>1. IF On(Innermost(gs), Top(p).arg)
            THEN LockCountMine(p, Top(p).arg) =
                    Innermost(gs).count + Extra(Innermost(gs), LeftAt(fs, Len(gs)))
            ELSE LevelIs(gs, Top(p).arg, Len(gs) - 1, LockCountMine(p, Top(p).arg))
        BY ONLY <2>5, <1>2, <1>6, PopLevels, Zenon
      <3> QED BY <2>1, <2>3, <3>1
    <2> QED BY ONLY <2>1, <2>3, <2>4, <2>6, <1>5, <1>6 DEF Extra
  <1>8. OpOK(Innermost(gs), pc'[p], arg'[p], unwinding[p])
    BY <1>1, <1>3, <1>4, <1>7 DEF OpOK
  <1>9. LockInv'
    <2>1. LockTypeOK'
      BY <1>1, <1>2, <1>3, <1>4, <1>7, Zenon DEF LockInv, LockTypeOK, PC
    <2>2. Top(p).pc = "cvCount" => /\ holder[Top(p).arg] = p /\ counter[Top(p).arg] = 1
                                   /\ owner[Top(p).arg] = p
      <3> SUFFICES ASSUME Top(p).pc = "cvCount"
                   PROVE  /\ holder[Top(p).arg] = p /\ counter[Top(p).arg] = 1
                          /\ owner[Top(p).arg] = p
        OBVIOUS
      <3>1. Top(p).arg \in Lock /\ LockCountMine(p, Top(p).arg) = 1
        BY <1>7 DEF Extra
      <3>2. holder[Top(p).arg] = p /\ counter[Top(p).arg] = 1
        BY <3>1 DEF LockCountMine
      <3>3. LockCountMine(p, Top(p).arg) = 0 <=> owner[Top(p).arg] # p
        BY <1>1, <1>2, <3>1, OpMine
      <3>4. owner[Top(p).arg] = p
        BY <3>1, <3>3
      <3> QED BY <3>2, <3>4
    <2>3. Top(p).pc \in {"lock", "cvBlocked", "cvWoken"} => owner[Top(p).arg] # p
      BY <1>1, <1>2, <1>7, OpMine DEF Extra
    <2>4. ASSUME NEW l \in Lock
          PROVE  IF owner[l] = Nil THEN depth[l] = 0 /\ holder[l] = Nil /\ counter[l] = 0
                 ELSE depth[l] = 1 /\ FieldsOK(l, owner[l])'
      <3>1. IF owner[l] = Nil THEN depth[l] = 0 /\ holder[l] = Nil /\ counter[l] = 0
            ELSE depth[l] = 1 /\ FieldsOK(l, owner[l]) /\ owner[l] \in Process
        BY <1>2 DEF LockInv, LockTypeOK
      <3>2. CASE owner[l] \in Process \ {p}
        <4>1. pc'[owner[l]] = pc[owner[l]] /\ arg'[owner[l]] = arg[owner[l]]
          BY <1>4, <3>2
        <4> QED BY <1>1, <3>1, <3>2, <4>1 DEF FieldsOK
      <3>3. CASE owner[l] = p /\ owner[l] # Nil
        <4>1. holder[l] = p /\ counter[l] >= 1 /\ (l \in Recursive \/ counter[l] = 1)
          BY <1>1, <3>1, <3>3 DEF FieldsOK, InMutex
        <4>2. pc'[p] \in InMutex => Top(p).pc = "cvCount"
          BY <1>3, <1>4 DEF InMutex
        <4>3. holder' = holder /\ counter' = counter
          BY <1>1
        <4>4. CASE pc'[p] \in InMutex /\ arg'[p] = l
          <5>1. pc'[p] = "cvCount" /\ Top(p).arg = l
            BY <1>4, <4>2, <4>4
          <5>2. holder'[l] = p /\ counter'[l] = 1
            BY <2>2, <1>4, <4>3, <5>1
          <5>3. FieldsOK(l, p)'
            BY <4>4, <5>1, <5>2 DEF FieldsOK
          <5> QED BY <1>1, <3>1, <3>3, <5>3
        <4>5. CASE ~(pc'[p] \in InMutex /\ arg'[p] = l)
          <5>1. FieldsOK(l, p)'
            BY <4>1, <4>3, <4>5 DEF FieldsOK
          <5> QED BY <1>1, <3>1, <3>3, <5>1
        <4> QED BY <4>4, <4>5
      <3> QED BY <3>1, <3>2, <3>3
    <2>5. ASSUME NEW q \in Process
          PROVE  /\ pc'[q] \in InMutex => owner[arg'[q]] = q
                 /\ pc'[q] \in {"lock", "trylock", "cvBlocked", "cvWoken"} => owner[arg'[q]] # q
      <3>1. CASE q = p
        BY <1>3, <1>4, <2>2, <2>3, <3>1 DEF InMutex
      <3>2. CASE q # p
        BY <1>2, <1>4, <3>2 DEF LockInv
      <3> QED BY <3>1, <3>2
    <2> QED BY <1>1, <2>1, <2>4, <2>5 DEF LockInv
  <1> QED BY <1>a, <1>1, <1>2, <1>4, <1>5, <1>8, <1>9, PopInv

(* The beginning of a non-local exit keeps it.                             *)
LEMMA HandlerExitInv ==
  ASSUME WithInv, NEW p \in Process, HandlerExit(p)
  PROVE  WithInv'
  <1>1. /\ pc[p] = "idle" /\ unwinding[p] = FALSE /\ frames' = frames
        /\ Top(p).kind = "with" => Top(p).phase = "body"
        /\ unwinding' = [unwinding EXCEPT ![p] = TRUE]
    BY OfProcess DEF HandlerExit, InCode, Running, TopIs
  <1>2. /\ LockInv' /\ pc' = pc /\ arg' = arg
        /\ \A q \in Process, m \in Lock : LockCountMine(q, m)' = LockCountMine(q, m)
    BY SameLocks, Zenon DEF WithInv, HandlerExit, lockVars, LockCountMine
  <1>3. /\ unwinding' \in [Process -> BOOLEAN] /\ unwinding'[p] = TRUE
        /\ \A q \in Process \ {p} : unwinding'[q] = unwinding[q]
    BY <1>1 DEF WithInv
  <1>4. OpOK(Top(p), pc'[p], arg'[p], unwinding'[p])
    BY <1>1, <1>2 DEF OpOK
  <1>5. ASSUME NEW m \in Lock, On(Top(p), m)
        PROVE  MineOK(frames[p], Top(p), pc'[p], unwinding'[p], m, LockCountMine(p, m)')
    <2>1. Top(p).kind = "with" /\ Top(p).lock = m
      BY <1>5 DEF On
    <2>2. LockCountMine(p, m) \in {Top(p).count, Top(p).count + 1}
      BY <2>1, <1>1, IdleMine, Zenon
    <2>3. Top(p).phase = "body"
      BY <2>1, <1>1
    <2> QED BY <2>2, <2>3, <1>2, <1>3, <1>5, MineLoose, ZenonT(60)
  <1> QED BY <1>1, <1>2, <1>3, <1>4, <1>5, SameFrames, Zenon

(* So does the unwinding of a frame.                                       *)
LEMMA UnwindInv ==
  ASSUME WithInv, NEW p \in Process, Unwind(p)
  PROVE  WithInv'
  <1>1. pc[p] = "idle" /\ unwinding[p] = TRUE
    BY OfProcess DEF Unwind
  <1>2. /\ LockInv' /\ pc' = pc /\ arg' = arg /\ holder' = holder /\ counter' = counter
        /\ \A q \in Process, m \in Lock : LockCountMine(q, m)' = LockCountMine(q, m)
    BY SameLocks, Zenon DEF WithInv, Unwind, lockVars, LockCountMine
  <1>3. \A x, u : OpOK(x, pc'[p], arg'[p], u)
    BY <1>1, <1>2 DEF OpOK
  <1>4. CASE /\ Top(p).kind = "none"
             /\ unwinding' = [unwinding EXCEPT ![p] = FALSE] /\ frames' = frames
    <2>1. /\ unwinding' \in [Process -> BOOLEAN]
          /\ \A q \in Process \ {p} : unwinding'[q] = unwinding[q]
      BY <1>4 DEF WithInv
    <2>2. \A m \in Lock : ~On(Top(p), m)
      BY <1>4 DEF On
    <2> QED BY <1>2, <1>3, <1>4, <2>1, <2>2, SameFrames, Zenon
  <1>5. CASE Top(p).kind = "handler" /\ Pop(p) /\ unwinding' = unwinding
    <2>1. frames[p] # <<>>
      BY <1>5, OfProcess
    <2> QED BY <1>1, <1>2, <1>3, <1>5, <2>1, PopInv
  <1>6. CASE /\ TopIs(p, "get") \/ TopIs(p, "body")
             /\ Phase(p, "cleanup") /\ unwinding' = unwinding
    <2>1. PICK f : f = WithFrame(Top(p).lock, Top(p).count, "cleanup")
      OBVIOUS
    <2>2. /\ f.kind = "with" /\ f.lock = Top(p).lock
          /\ f.count = Top(p).count /\ f.phase = "cleanup"
      BY <2>1 DEF WithFrame
    <2>3. Top(p).kind = "with" /\ Top(p).phase \in {"get", "body"}
      BY <1>6 DEF TopIs
    <2>4. /\ f.lock \in Lock
          /\ LockCountMine(p, f.lock) \in {f.count, f.count + 1}
      BY <1>1, <2>2, <2>3, TopWith, IdleMine, Zenon
    <2>5. MineOK(frames[p], f, pc'[p], unwinding[p], f.lock, LockCountMine(p, f.lock)')
      BY <1>2, <2>2, <2>4 DEF MineOK, On
    <2> QED BY <1>2, <1>3, <1>6, <2>1, <2>3, <2>5, PhaseInv, Zenon
  <1> QED BY <1>4, <1>5, <1>6 DEF Unwind

(* A wait and a wakeup on a condition variable keep it.                    *)
LEMMA BodyInv ==
  ASSUME WithInv, NEW p \in Process, NEW c \in CV, BodyWait(p, c) \/ BodySignal(p, c)
  PROVE  WithInv'
  <1>1. /\ frames' = frames /\ unwinding' = unwinding
        /\ unwinding' \in [Process -> BOOLEAN] /\ LockInv
        /\ pc[p] = "idle" /\ unwinding[p] = FALSE
    BY OfProcess, Zenon DEF WithInv, BodyWait, BodySignal, withVars, InCode, Running
  <1>2. CASE BodyWait(p, c)
    <2>1. PICK l : l = Top(p).lock
      OBVIOUS
    <2>2. Top(p).kind = "with" /\ Top(p).phase = "body" /\ CondWait(p, c, l)
      BY <1>2, <2>1 DEF BodyWait, TopIs
    <2>3. l \in Lock /\ Top(p).count \in Nat /\ LockCountMine(p, l) = Top(p).count + 1
      BY <1>1, <2>1, <2>2, TopWith, IdleMine, Zenon
    <2>4. LockInv'
      BY <1>1, <2>2, <2>3, BeginInv DEF Begin
    <2>5. /\ pc' = [pc EXCEPT ![p] = "cvCount"] /\ arg' = [arg EXCEPT ![p] = l]
          /\ holder' = holder /\ counter' = counter /\ holder[l] = p /\ counter[l] <= 1
      BY <2>2 DEF CondWait, Goto, fieldVars
    <2>6. Top(p).count = 0
      BY <1>1, <2>3, <2>5 DEF LockCountMine, LockInv, LockTypeOK
    <2>7. /\ pc'[p] = "cvCount" /\ arg'[p] = l
          /\ \A q \in Process \ {p} : pc'[q] = pc[q] /\ arg'[q] = arg[q]
      BY <1>1, <2>5 DEF LockInv, LockTypeOK
    <2>8. \A q \in Process, m \in Lock : LockCountMine(q, m)' = LockCountMine(q, m)
      BY <2>5 DEF LockCountMine
    <2>9. OpOK(Top(p), pc'[p], arg'[p], unwinding'[p])
      BY <1>1, <2>1, <2>2, <2>6, <2>7, Zenon DEF OpOK, On
    <2>10. \A m \in Lock : On(Top(p), m) =>
              MineOK(frames[p], Top(p), pc'[p], unwinding'[p], m, LockCountMine(p, m)')
      BY <1>1, <2>1, <2>2, <2>3, <2>7, <2>8, Zenon DEF MineOK, On, Extra
    <2> QED BY <1>1, <2>4, <2>7, <2>8, <2>9, <2>10, SameFrames, Zenon
  <1>3. CASE BodySignal(p, c)
    <2>1. CondSignal(p, c) \/ CondBroadcast(p, c)
      BY <1>3 DEF BodySignal
    <2>2. LockInv'
      BY <1>1, <2>1, BeginInv DEF Begin
    <2>3. arg' = arg /\ holder' = holder /\ counter' = counter
      BY <2>1 DEF CondSignal, CondBroadcast, fieldVars
    <2>4. /\ pc'[p] = pc[p]
          /\ \A q \in Process : \/ pc'[q] = pc[q]
                                \/ pc[q] = "cvBlocked" /\ pc'[q] = "cvWoken"
      BY ONLY <1>1, <2>1 DEF LockInv, LockTypeOK, CondSignal, CondBroadcast, Blocked, Goto
    <2>5. \A q \in Process, m \in Lock : LockCountMine(q, m)' = LockCountMine(q, m)
      BY <2>3 DEF LockCountMine
    <2>6. /\ OpOK(Top(p), pc'[p], arg'[p], unwinding'[p])
          /\ \A m \in Lock :
                MineOK(frames[p], Top(p), pc'[p], unwinding'[p], m, LockCountMine(p, m)')
      <3>1. /\ pc'[p] = pc[p] /\ arg'[p] = arg[p] /\ unwinding'[p] = unwinding[p]
            /\ \A m \in Lock : LockCountMine(p, m)' = LockCountMine(p, m)
        BY <1>1, <2>3, <2>4, <2>5
      <3> QED BY <3>1, OfFrames
    <2> QED BY <1>1, <2>2, <2>3, <2>4, <2>5, <2>6, SameFrames, Zenon
  <1> QED BY <1>2, <1>3

(* And so does a step of an operation in progress.                         *)
LEMMA LockStepInv ==
  ASSUME WithInv, NEW p \in Process, LockStep(p)
  PROVE  WithInv'
  <1>1. /\ frames' = frames /\ unwinding' = unwinding
        /\ unwinding' \in [Process -> BOOLEAN] /\ LockInv /\ Step(p)
    BY DEF WithInv, LockStep, withVars
  <1>2. LockInv'
    BY <1>1, StepInv
  <1>3. pc[p] # "idle" /\ arg[p] \in Lock
    BY <1>1 DEF Step, MutexLock, MutexTrylock, CountUp, SetHolder, ClearHolder,
       MutexUnlock, CondClearCount, CondClearHolder, CondBlock, CondTimeout,
       CondRelock, CondSetHolder, CondSetCount, LockInv, LockTypeOK
  <1>4. /\ OpOK(Top(p), pc[p], arg[p], unwinding[p]) /\ pc[p] # "trylock"
        /\ On(Top(p), arg[p]) /\ Top(p).count = 0
    BY <1>3, OfFrames, Zenon DEF OpOK
  <1>5. PICK l : l = arg[p]
    OBVIOUS
  <1>6. \A q \in Process \ {p} : pc'[q] = pc[q] /\ arg'[q] = arg[q]
    <2>1. \/ \E x : Goto(p, x) /\ arg' = arg
          \/ Return(p)
      BY <1>1, Zenon DEF Step, MutexLock, MutexTrylock, CountUp, SetHolder, ClearHolder,
         MutexUnlock, CondClearCount, CondClearHolder, CondBlock, CondTimeout,
         CondRelock, CondSetHolder, CondSetCount
    <2>2. pc \in [Process -> PC] /\ arg \in [Process -> Lock \cup {Nil}]
      BY <1>1 DEF LockInv, LockTypeOK
    <2> QED BY <2>1, <2>2 DEF Goto, Return
  <1>7. \/ /\ pc[p] \in {"hold", "cvSet"} /\ pc'[p] = "idle"
           /\ LockCountMine(p, l)' = 1
        \/ /\ pc[p] = "unlock" /\ pc'[p] = "idle" /\ LockCountMine(p, l)' = 0
        \/ /\ arg'[p] = l /\ pc'[p] \notin {"idle", "cvCount", "trylock"}
           /\ pc[p] \in {"clear", "unlock"} <=> pc'[p] \in {"clear", "unlock"}
    <2>1. /\ pc \in [Process -> PC] /\ arg \in [Process -> Lock \cup {Nil}]
          /\ holder \in [Lock -> Process \cup {Nil}] /\ counter \in [Lock -> Nat]
          /\ l \in Lock /\ p # Nil
      BY <1>1, <1>3, <1>5, LockAssumption, Zenon DEF LockInv, LockTypeOK
    <2>2. pc[p] \in InMutex => FieldsOK(l, p)
      BY <1>1, <1>5, <2>1, Zenon DEF LockInv
    <2>3. ASSUME NEW x, Goto(p, x), arg' = arg
          PROVE  pc'[p] = x /\ arg'[p] = l
      BY <1>5, <2>1, <2>3, Zenon DEF Goto
    <2>4. ASSUME Return(p)
          PROVE  pc'[p] = "idle"
      BY <2>1, <2>4, Zenon DEF Return, Goto
    <2>5. CASE MutexLock(p) \/ CountUp(p) \/ ClearHolder(p)
      <3>1. /\ arg' = arg
            /\ \/ pc[p] = "lock" /\ Goto(p, "count")
               \/ pc[p] = "count" /\ Goto(p, "hold")
               \/ pc[p] = "clear" /\ Goto(p, "unlock")
        BY <2>5, Zenon DEF MutexLock, CountUp, ClearHolder
      <3>2. /\ arg'[p] = l
            /\ \/ pc[p] = "lock" /\ pc'[p] = "count"
               \/ pc[p] = "count" /\ pc'[p] = "hold"
               \/ pc[p] = "clear" /\ pc'[p] = "unlock"
        BY <2>3, <3>1, Zenon
      <3> QED BY ONLY <3>2
    <2>6. CASE CondClearCount(p) \/ CondClearHolder(p) \/ CondBlock(p)
      <3>1. /\ arg' = arg
            /\ \/ pc[p] = "cvCount" /\ Goto(p, "cvHolder")
               \/ pc[p] = "cvHolder" /\ Goto(p, "cvWait")
               \/ pc[p] = "cvWait" /\ Goto(p, "cvBlocked")
        BY <2>6, Zenon DEF CondClearCount, CondClearHolder, CondBlock
      <3>2. /\ arg'[p] = l
            /\ \/ pc[p] = "cvCount" /\ pc'[p] = "cvHolder"
               \/ pc[p] = "cvHolder" /\ pc'[p] = "cvWait"
               \/ pc[p] = "cvWait" /\ pc'[p] = "cvBlocked"
        BY <2>3, <3>1, Zenon
      <3> QED BY ONLY <3>2
    <2>7. CASE CondTimeout(p) \/ CondRelock(p) \/ CondSetHolder(p)
      <3>1. /\ arg' = arg
            /\ \/ pc[p] = "cvBlocked" /\ Goto(p, "cvWoken")
               \/ pc[p] = "cvWoken" /\ Goto(p, "cvHold")
               \/ pc[p] = "cvHold" /\ Goto(p, "cvSet")
        BY <2>7, Zenon DEF CondTimeout, CondRelock, CondSetHolder
      <3>2. /\ arg'[p] = l
            /\ \/ pc[p] = "cvBlocked" /\ pc'[p] = "cvWoken"
               \/ pc[p] = "cvWoken" /\ pc'[p] = "cvHold"
               \/ pc[p] = "cvHold" /\ pc'[p] = "cvSet"
        BY <2>3, <3>1, Zenon
      <3> QED BY ONLY <3>2
    <2>8. CASE SetHolder(p)
      <3>1. pc[p] = "hold" /\ Return(p) /\ counter' = counter
            /\ holder' = [holder EXCEPT ![l] = p]
        BY <1>5, <2>8, Zenon DEF SetHolder
      <3>2. counter[l] = 1
        <4>1. pc[p] \in InMutex
          BY ONLY <3>1 DEF InMutex
        <4> QED BY ONLY <1>5, <2>2, <3>1, <4>1 DEF FieldsOK
      <3>3. LockCountMine(p, l)' = 1
        BY ONLY <2>1, <3>1, <3>2 DEF LockCountMine
      <3> QED BY <2>4, <3>1, <3>3
    <2>9. CASE CondSetCount(p)
      <3>1. pc[p] = "cvSet" /\ Return(p) /\ holder' = holder
            /\ counter' = [counter EXCEPT ![l] = 1]
        BY <1>5, <2>9, Zenon DEF CondSetCount
      <3>2. holder[l] = p
        <4>1. pc[p] \in InMutex
          BY ONLY <3>1 DEF InMutex
        <4> QED BY ONLY <1>5, <2>2, <3>1, <4>1 DEF FieldsOK
      <3>3. LockCountMine(p, l)' = 1
        BY ONLY <2>1, <3>1, <3>2 DEF LockCountMine
      <3> QED BY <2>4, <3>1, <3>3
    <2>10. CASE MutexUnlock(p)
      <3>1. pc[p] = "unlock" /\ Return(p) /\ holder' = holder
        BY <2>10, Zenon DEF MutexUnlock, fieldVars
      <3>2. holder[l] = Nil
        <4>1. pc[p] \in InMutex
          BY ONLY <3>1 DEF InMutex
        <4> QED BY ONLY <1>5, <2>2, <3>1, <4>1 DEF FieldsOK
      <3>3. LockCountMine(p, l)' = 0
        BY ONLY <2>1, <3>1, <3>2 DEF LockCountMine
      <3> QED BY <2>4, <3>1, <3>3
    <2> QED BY <1>1, <1>4, <2>5, <2>6, <2>7, <2>8, <2>9, <2>10, Zenon DEF Step, MutexTrylock
  <1>8. pc'[p] \notin {"idle", "cvCount"} /\ arg'[p] = l => LockCountMine(p, l)' = 0
    <2>1. pc'[p] # "idle" => LockCountMine(p, arg[p])' = IF pc'[p] = "cvCount" THEN 1 ELSE 0
      BY <1>1, <1>2, OpMineNext
    <2> QED BY <2>1 DEF LockCountMine
  <1>9. OpOK(Top(p), pc'[p], arg'[p], unwinding'[p])
    BY <1>1, <1>3, <1>4, <1>5, <1>7, Zenon DEF OpOK
  <1>10. \A m \in Lock : m # l => LockCountMine(p, m)' = LockCountMine(p, m)
    BY <1>1, <1>5, StepMine
  <1>11. \A q \in Process \ {p}, m \in Lock : LockCountMine(q, m)' = LockCountMine(q, m)
    BY <1>1, StepMine
  <1>12. MineOK(frames[p], Top(p), pc'[p], unwinding'[p], l, LockCountMine(p, l)')
    <2>1. PICK f : f = Top(p)
      OBVIOUS
    <2>2. PICK n : n = LockCountMine(p, l)'
      OBVIOUS
    <2>3. /\ On(f, l) /\ f.count = 0 /\ unwinding'[p] \in BOOLEAN /\ f.phase # "cleanup"
          /\ IF pc[p] \in {"clear", "unlock"} THEN f.phase = "giveup"
             ELSE f.phase = "body" /\ unwinding'[p] = FALSE
      BY <1>1, <1>3, <1>4, <1>5, <2>1, Zenon DEF OpOK
    <2>4. n = Extra(f, pc'[p])
      <3>1. CASE pc[p] \in {"hold", "cvSet"} /\ pc'[p] = "idle" /\ n = 1
        BY <2>3, <3>1 DEF Extra
      <3>2. CASE pc[p] = "unlock" /\ pc'[p] = "idle" /\ n = 0
        BY <2>3, <3>2 DEF Extra
      <3>3. CASE arg'[p] = l /\ pc'[p] \notin {"idle", "cvCount", "trylock"}
        <4>1. n = 0
          BY <1>8, <2>2, <3>3
        <4> QED BY <3>3, <4>1 DEF Extra
      <3> QED BY <1>7, <2>2, <3>1, <3>2, <3>3
    <2>5. n = f.count + Extra(f, pc'[p])
      <3>1. Extra(f, pc'[p]) \in Nat
        BY DEF Extra
      <3> QED BY <2>3, <2>4, <3>1
    <2>6. MineOK(frames[p], f, pc'[p], unwinding'[p], l, n)
      <3>1. PICK fs : fs = frames[p]
        OBVIOUS
      <3>2. PICK out : out = unwinding'[p]
        OBVIOUS
      <3>3. PICK at : at = pc'[p]
        OBVIOUS
      <3>4. out \in BOOLEAN /\ On(f, l) /\ f.phase # "cleanup" /\ n = f.count + Extra(f, at)
        BY <2>3, <2>5, <3>2, <3>3
      <3>5. out = FALSE \/ f.phase = "giveup"
        BY <2>3, <3>2
      <3>6. MineOK(fs, f, at, out, l, n) <=> n = f.count + Extra(f, at)
        <4>1. CASE out = TRUE
          BY <3>4, <3>5, <4>1 DEF MineOK
        <4>2. CASE out = FALSE
          BY <3>4, <3>5, <4>2 DEF MineOK
        <4> QED BY <3>4, <4>1, <4>2, Zenon
      <3>7. MineOK(fs, f, at, out, l, n)
        BY <3>4, <3>6
      <3> QED BY <3>1, <3>2, <3>3, <3>7
    <2> QED BY <2>1, <2>2, <2>6
  <1>13. \A m \in Lock :
            IF On(Top(p), m)
            THEN MineOK(frames[p], Top(p), pc'[p], unwinding'[p], m, LockCountMine(p, m)')
            ELSE LockCountMine(p, m)' = LockCountMine(p, m)
    BY <1>4, <1>5, <1>10, <1>12 DEF On
  <1> QED BY <1>1, <1>2, <1>6, <1>9, <1>11, <1>13, SameFrames, Zenon

(* Initially no process has a frame or a lock.                             *)
LEMMA WithInitInv == WithInit => WithInv
  <1> SUFFICES ASSUME WithInit PROVE WithInv
    OBVIOUS
  <1>1. LockInv
    BY LockInitInv DEF WithInit
  <1>2. /\ frames \in [Process -> Seq(Frame)] /\ unwinding \in [Process -> BOOLEAN]
        /\ \A p \in Process : frames[p] = <<>> /\ Len(frames[p]) = 0 /\ pc[p] = "idle"
    BY DEF WithInit, LockInit
  <1>3. \A p \in Process, m \in Lock : Mine(p)[m] = 0
    BY LockAssumption DEF WithInit, LockInit, Mine, LockCountMine
  <1>4. ASSUME NEW p \in Process
        PROVE  StateOK(frames[p], pc[p], arg[p], unwinding[p], Mine(p))
    <2>1. Innermost(frames[p]) = NoFrame /\ \A m \in Lock : ~On(NoFrame, m)
      BY <1>2 DEF Innermost, NoFrame, On
    <2>2. \A m \in Lock : LevelIs(frames[p], m, Len(frames[p]) - 1, Mine(p)[m])
      BY <1>2, <1>3 DEF LevelIs
    <2>3. OpOK(NoFrame, pc[p], arg[p], unwinding[p])
      BY <1>2 DEF OpOK
    <2>4. \A m \in Lock : MineOK(frames[p], NoFrame, pc[p], unwinding[p], m, Mine(p)[m])
      BY <2>1, <2>2 DEF MineOK
    <2>5. \A i \in 1 .. Len(frames[p]) : FrameOK(frames[p], i)
      BY <1>2
    <2> QED BY <2>1, <2>3, <2>4, <2>5 DEF StateOK
  <1>5. \A p \in Process : Len(frames[p]) <= MaxNest
    <2>1. 0 <= MaxNest
      BY WithLockAssumption
    <2> QED BY <1>2, <2>1, Zenon
  <1> QED BY <1>1, <1>2, <1>4, <1>5 DEF WithInv

(* With interrupts at the safe points only, the frames of every process    *)
(* and the locks agree in every reachable state, however WITH-LOCKs,       *)
(* handlers and non-local exits nest, for any number of processes, locks   *)
(* and frames.                                                             *)
THEOREM WithInvariant == Points \subseteq SafePoints => (WithSpec => []WithInv)
  <1> SUFFICES ASSUME Points \subseteq SafePoints PROVE WithSpec => []WithInv
    OBVIOUS
  <1>1. WithInv /\ [WithNext]_vars => WithInv'
    <2> SUFFICES ASSUME WithInv, [WithNext]_vars PROVE WithInv'
      OBVIOUS
    <2>1. CASE WithNext
      <3>1. PICK p \in Process :
               \/ \E l \in Lock : EnterWith(p, l)
               \/ GetLock(p) \/ EndBody(p) \/ Cleanup(p) \/ LeaveWith(p)
               \/ Interrupt(p) \/ HandlerReturn(p) \/ HandlerExit(p) \/ Unwind(p)
               \/ \E c \in CV : BodyWait(p, c) \/ BodySignal(p, c)
               \/ LockStep(p)
        BY <2>1 DEF WithNext
      <3> QED BY <3>1, EnterWithInv, GetLockInv, EndBodyInv, CleanupInv, LeaveWithInv,
                 InterruptInv, HandlerReturnInv, HandlerExitInv, UnwindInv, BodyInv,
                 LockStepInv
    <2>2. CASE UNCHANGED vars
      <3>1. frames' = frames /\ unwinding' = unwinding /\ pc' = pc /\ arg' = arg
        BY <2>2 DEF vars, withVars, lockVars
      <3>2. LockInv' /\ \A p \in Process : Mine(p)' = Mine(p)
        BY <2>2, SameLocks DEF WithInv, vars
      <3> QED BY <3>1, <3>2 DEF WithInv
    <2> QED BY <2>1, <2>2
  <1> QED BY WithInitInv, <1>1, PTL DEF WithSpec

(* The body of a WITH-LOCK runs with the mutex held.                       *)
THEOREM BodyOwnsLockAlways ==
  Points \subseteq SafePoints => (WithSpec => []BodyOwnsLock)
  <1>1. WithInv => BodyOwnsLock
    <2> SUFFICES ASSUME WithInv, NEW p \in Process, Running(p), TopIs(p, "body")
                 PROVE  owner[Top(p).lock] = p
      BY DEF BodyOwnsLock
    <2>1. /\ Top(p).kind = "with" /\ Top(p).phase = "body"
          /\ pc[p] = "idle" /\ unwinding[p] = FALSE /\ LockInv
      BY OfProcess DEF Running, TopIs
    <2>2. /\ Top(p).lock \in Lock /\ Top(p).count \in Nat
          /\ LockCountMine(p, Top(p).lock) = Top(p).count + 1
      BY <2>1, TopWith, IdleMine, Zenon
    <2>3. LockCountMine(p, Top(p).lock) = 0 <=> owner[Top(p).lock] # p
      BY <2>1, <2>2, OpMine
    <2> QED BY <2>2, <2>3
  <1> QED BY <1>1, WithInvariant, PTL

(* Nothing stays locked when every WITH-LOCK has been left.                *)
THEOREM AllReleasedAlways ==
  Points \subseteq SafePoints => (WithSpec => []AllReleased)
  <1>1. WithInv => AllReleased
    <2> SUFFICES ASSUME WithInv, NEW p \in Process, Running(p), frames[p] = <<>>,
                        NEW l \in Lock
                 PROVE  owner[l] # p
      BY DEF AllReleased
    <2>1. pc[p] = "idle" /\ LockInv /\ ~On(Top(p), l) /\ Len(frames[p]) = 0
      BY OfProcess DEF Running, On
    <2>2. PICK n : n = LockCountMine(p, l)
      BY Zenon
    <2>3. PICK k : k = Len(frames[p]) - 1
      BY Zenon
    <2>4. LevelIs(frames[p], l, k, n)
      <3>1. MineOK(frames[p], Top(p), pc[p], unwinding[p], l, n)
        BY <2>2, OfFrames, Zenon
      <3> QED BY <2>1, <2>3, <3>1, Zenon DEF MineOK
    <2>5. 1 .. k = {}
      BY ONLY <2>1, <2>3
    <2>6. n = 0
      BY ONLY <2>4, <2>5 DEF LevelIs
    <2>7. LockCountMine(p, l) = 0 <=> owner[l] # p
      BY <2>1, OpMine, Zenon
    <2> QED BY <2>2, <2>6, <2>7, Zenon
  <1> QED BY <1>1, WithInvariant, PTL
=============================================================================
