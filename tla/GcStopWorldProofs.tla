-------------------------- MODULE GcStopWorldProofs --------------------------
(***************************************************************************)
(* Proofs about GcStopWorld, for any set of threads and any number of      *)
(* stops: without retries GC_stop_world returns with all other threads     *)
(* stopped.                                                                *)
(***************************************************************************)
EXTENDS GcStopWorld, FiniteSetTheorems, TLAPS

\* The actions of Next, without the ones that need retries.
Moves(t) ==
  \/ Register(t) \/ Run(t) \/ BlockingBegin(t) \/ BlockingEnd(t) \/ Unregister(t)
  \/ DeleteThread(t) \/ StopWorld(t) \/ OtherSignal(t)
  \/ PostAck(t) \/ StoreCount(t) \/ TestStopped(t) \/ TestCount(t)
  \/ SuspendHandler(t) \/ RestartHandler(t) \/ LateRestart(t)
  \/ IncrementCount(t) \/ SetStopped(t) \/ SuspendAll(t)
  \/ WaitAck(t) \/ WorldStopped(t) \/ StartWorld(t) \/ WorldStarted(t)
  \/ \E u \in Thread : SuspendOne(t, u) \/ RestartOne(t, u)

\* The fields keep their types in every step.
LEMMA NextTypes ==
  ASSUME StopTypeOK, [Next]_vars
  PROVE  StopTypeOK'
<1> USE DEF StopTypeOK
<1>0. CASE UNCHANGED vars
  BY <1>0 DEF vars, tableVars, stackVars, worldVars, handlerVars, loopVars
<1>1. SUFFICES ASSUME NEW t \in Thread,
                      \/ Client(t) \/ Handler(t) \/ SuspendHandler(t) \/ RestartHandler(t)
                      \/ LateRestart(t) \/ Stopper(t)
               PROVE  StopTypeOK'
  BY <1>0 DEF Next
<1>2. CASE Client(t)
  <2>1. CASE Register(t)
    BY <2>1 DEF Register, Goto, worldVars, loopVars
  <2>2. CASE Run(t)
    BY <2>2 DEF Run, tableVars, worldVars, handlerVars, loopVars
  <2>3. CASE BlockingBegin(t) \/ BlockingEnd(t)
    BY <2>3 DEF BlockingBegin, BlockingEnd, Goto, stackVars, worldVars, handlerVars, loopVars
  <2>4. CASE Unregister(t) \/ DeleteThread(t)
    BY <2>4 DEF Unregister, DeleteThread, Goto, stackVars, worldVars, handlerVars, loopVars
  <2>5. CASE StopWorld(t)
    BY <2>5 DEF StopWorld, Goto, tableVars, stackVars, worldVars, handlerVars, loopVars
  <2>6. CASE OtherSignal(t)
    BY <2>6 DEF OtherSignal, Handle, tableVars, stackVars, worldVars, loopVars
  <2>7. QED
    BY <1>2, <2>1, <2>2, <2>3, <2>4, <2>5, <2>6 DEF Client
<1>3. CASE Handler(t)
  BY <1>3 DEF Handler, PostAck, StoreCount, TestStopped, TestCount, Return, Handle, tableVars,
              stackVars, worldVars, loopVars
<1>4. CASE SuspendHandler(t)
  BY <1>4 DEF SuspendHandler, Handle, tableVars, worldVars, loopVars
<1>5. CASE RestartHandler(t) \/ LateRestart(t)
  BY <1>5 DEF RestartHandler, LateRestart, Handle, tableVars, stackVars, worldVars,
              handlerVars, loopVars
<1>6. CASE Stopper(t)
  <2> USE DEF Goto, tableVars, stackVars, worldVars, handlerVars, loopVars
  <2>0. Others(t) \subseteq Thread
    BY DEF Others
  <2>1. CASE IncrementCount(t) \/ SetStopped(t) \/ SuspendAll(t)
    <3>1. CASE IncrementCount(t)
      BY <3>1 DEF IncrementCount
    <3>2. CASE SetStopped(t)
      BY <2>0, <3>2 DEF SetStopped
    <3>3. CASE SuspendAll(t)
      BY <3>3 DEF SuspendAll
    <3>4. QED
      BY <2>1, <3>1, <3>2, <3>3
  <2>2. CASE AcksComplete(t) \/ Timeout(t) \/ ResendAll(t)
    BY <2>0, <2>2 DEF AcksComplete, Timeout, ResendAll
  <2>3. CASE WaitAck(t) \/ WorldStopped(t) \/ StartWorld(t) \/ WorldStarted(t)
    <3>1. CASE WaitAck(t)
      BY <3>1 DEF WaitAck
    <3>2. CASE WorldStopped(t) \/ StartWorld(t) \/ WorldStarted(t)
      BY <2>0, <3>2, Zenon DEF WorldStopped, StartWorld, WorldStarted
    <3>3. QED
      BY <2>3, <3>1, <3>2
  <2>4. ASSUME NEW u \in Thread, SuspendOne(t, u) \/ ResendOne(t, u) \/ RestartOne(t, u)
        PROVE  StopTypeOK'
    BY <2>4, SMTT(30) DEF SuspendOne, ResendOne, RestartOne, SendSuspend
  <2>5. QED
    BY <1>6, <2>1, <2>2, <2>3, <2>4 DEF Stopper
<1>7. QED
  BY <1>1, <1>2, <1>3, <1>4, <1>5, <1>6

\* Without retries the retry loop is not entered.
LEMMA OnlyMoves ==
  ASSUME StopTypeOK, ThreadInv, NEW t \in Thread,
         \/ Client(t) \/ Handler(t) \/ SuspendHandler(t) \/ RestartHandler(t)
         \/ LateRestart(t) \/ Stopper(t)
  PROVE  Moves(t)
BY DEF Moves, Client, Handler, Stopper, ThreadInv, AcksComplete, Timeout, ResendOne,
       ResendAll, At

\* Every step keeps ThreadInv.
LEMMA NextThread ==
  ASSUME StopTypeOK, ThreadInv, AckInv, ~ retry, NEW t \in Thread, Moves(t)
  PROVE  ThreadInv'
<1> USE ThreadAssumption DEF StopTypeOK, ThreadInv, InHandler
<1>0. \A u \in Unacked : lock # Nil /\ pc[u] = "run" /\ u \in table /\ u # lock
  <2>1. CASE lock # Nil /\ pc[lock] \in Stopping
    BY <2>1 DEF AckInv, Others
  <2>2. CASE ~ (lock # Nil /\ pc[lock] \in Stopping)
    BY <2>2 DEF AckInv
  <2>3. QED
    BY <2>1, <2>2
<1>1. CASE Register(t)
  <2>1. t \notin blocked /\ t \notin table /\ hpc[t] = "none" /\ lock = Nil
    BY <1>1 DEF Register, At, Runs
  <2>2. /\ \A u \in Thread \ {t} : pc'[u] = pc[u] /\ stackPtr'[u] = stackPtr[u]
        /\ pc'[t] = "run" /\ table' = table \cup {t}
        /\ UNCHANGED <<lock, finished, blocked, sp, stopped, hpc>>
    BY <1>1 DEF Register, Goto, worldVars
  <2>3. t \notin finished
    BY <2>1
  <2>4. QED
    BY <2>1, <2>2
<1>2. CASE Run(t)
  BY <1>2 DEF Run, At, Runs, tableVars, worldVars, handlerVars, loopVars
<1>3. CASE BlockingBegin(t) \/ BlockingEnd(t)
  BY <1>3 DEF BlockingBegin, BlockingEnd, At, Runs, Goto, stackVars, worldVars, handlerVars
<1>4. CASE Unregister(t) \/ DeleteThread(t)
  BY <1>4 DEF Unregister, DeleteThread, At, Runs, Goto, stackVars, worldVars, handlerVars
<1>5. CASE StopWorld(t) \/ WorldStarted(t)
  BY <1>5 DEF StopWorld, WorldStarted, At, Runs, Goto, tableVars, stackVars, worldVars,
              handlerVars
<1>6. CASE OtherSignal(t) \/ PostAck(t) \/ StoreCount(t) \/ RestartHandler(t)
  BY <1>6 DEF OtherSignal, PostAck, StoreCount, RestartHandler, Handle, tableVars,
              stackVars, worldVars
<1>7. CASE TestStopped(t) \/ TestCount(t)
  BY <1>7 DEF TestStopped, TestCount, Return, Handle, tableVars, stackVars, worldVars
<1>8. CASE SuspendHandler(t)
  BY <1>0, <1>8 DEF SuspendHandler, Unacked, Handle, tableVars, worldVars
<1>9. CASE LateRestart(t)
  BY <1>9 DEF LateRestart, tableVars, stackVars, worldVars, handlerVars
<1>10. CASE IncrementCount(t) \/ SetStopped(t) \/ SuspendAll(t)
  BY <1>10 DEF IncrementCount, SetStopped, SuspendAll, At, Runs, Goto, tableVars, stackVars,
               worldVars, handlerVars
<1>11. CASE WaitAck(t) \/ WorldStopped(t) \/ StartWorld(t)
  BY <1>11 DEF WaitAck, WorldStopped, StartWorld, At, Runs, Goto, tableVars, stackVars,
               worldVars, handlerVars
<1>12. CASE \E u \in Thread : SuspendOne(t, u) \/ RestartOne(t, u)
  BY <1>12 DEF SuspendOne, RestartOne, At, Runs, tableVars, stackVars, worldVars, handlerVars
<1>13. QED
  BY <1>1, <1>2, <1>3, <1>4, <1>5, <1>6, <1>7, <1>8, <1>9, <1>10, <1>11, <1>12, Zenon DEF Moves

\* Outside GC_suspend_all and the wait for the acknowledgements nothing is under
\* way; threads that are signalled are others than the stopper.
LEMMA AckFacts ==
  ASSUME StopTypeOK, ThreadInv, AckInv
  PROVE  /\ Unacked \subseteq Thread /\ Unsent \subseteq Thread
         /\ suspend \subseteq Unacked /\ Unacked \cap Unsent = {}
         /\ \A u \in Unacked \cup Unsent :
              lock \in Thread /\ pc[lock] \in Stopping /\ u \in table /\ u # lock
  <1>1. Unacked \subseteq Thread /\ Unsent \subseteq Thread /\ suspend \subseteq Unacked
    BY DEF StopTypeOK, Unacked, Unsent
  <1>2. CASE lock # Nil /\ pc[lock] \in Stopping
    BY <1>1, <1>2 DEF AckInv, Others, StopTypeOK
  <1>3. CASE ~ (lock # Nil /\ pc[lock] \in Stopping)
    <2>1. Unacked = {} /\ Unsent = {}
      BY <1>3 DEF AckInv, Unsent, Stopping
    <2>2. QED
      BY <1>1, <2>1
  <1>4. QED
    BY <1>2, <1>3

\* Every step keeps CountInv.
LEMMA NextCount ==
  ASSUME StopTypeOK, ThreadInv, CountInv, AckInv, ~ retry, NEW t \in Thread, Moves(t)
  PROVE  CountInv'
<1> USE DEF CountInv
<1>1. CASE Register(t)
  <2>1. lock = Nil /\ lock' = Nil /\ suspend' = suspend
    BY <1>1 DEF Register
  <2>2. suspend = {} /\ Unsent' = {}
    BY <2>1, AckFacts, ThreadAssumption DEF Unsent
  <2>3. QED
    BY <1>1, <2>1, <2>2 DEF Register, worldVars, StopTypeOK
<1>2. ASSUME UNCHANGED <<lastStop, myCount, stopCount>>, suspend' \subseteq suspend,
             Unsent' \subseteq Unsent,
             \A u \in Thread : hpc'[u] = "post" => hpc[u] = "post",
             lock' # Nil /\ pc'[lock'] = "flag" => lock # Nil /\ pc[lock] = "flag"
      PROVE  CountInv'
  BY <1>2
<1>3. CASE Run(t) \/ LateRestart(t)
  <2>1. Unsent' = Unsent
    BY <1>3 DEF Run, LateRestart, Unsent, loopVars
  <2>2. QED
    BY <1>2, <1>3, <2>1 DEF Run, LateRestart, worldVars, handlerVars
<1>4. CASE BlockingBegin(t) \/ BlockingEnd(t) \/ Unregister(t) \/ DeleteThread(t)
  <2>1. lock = Nil /\ lock' = Nil /\ UNCHANGED <<lastStop, myCount, hpc, stopCount, suspend>>
    BY <1>4 DEF BlockingBegin, BlockingEnd, Unregister, DeleteThread, worldVars, handlerVars
  <2>2. Unsent' = {}
    BY <2>1 DEF Unsent
  <2>3. QED
    BY <1>2, <2>1, <2>2
<1>5. CASE StopWorld(t) \/ SuspendAll(t) \/ WorldStopped(t) \/ StartWorld(t) \/ WorldStarted(t)
  <2>1. UNCHANGED <<lastStop, myCount, hpc, stopCount, suspend>>
    BY <1>5 DEF StopWorld, SuspendAll, WorldStopped, StartWorld, WorldStarted, worldVars,
                handlerVars
  <2>2. /\ lock' # Nil => lock' = t
        /\ pc'[t] \in {"count", "wait", "stopped", "restart", "run"}
    BY <1>5, SMTT(30) DEF StopWorld, SuspendAll, WorldStopped, StartWorld, WorldStarted, At, Goto,
                ThreadInv, StopTypeOK
  <2>3. Unsent' = {}
    BY <2>2 DEF Unsent
  <2>4. QED
    BY <1>2, <2>1, <2>2, <2>3
<1>6. CASE OtherSignal(t) \/ PostAck(t) \/ RestartHandler(t) \/ TestStopped(t) \/ TestCount(t)
  <2>1. UNCHANGED <<lastStop, myCount, stopCount, suspend, lock, pc, todo>>
    BY <1>6 DEF OtherSignal, PostAck, RestartHandler, TestStopped, TestCount, worldVars, loopVars
  <2>2. \A u \in Thread : hpc'[u] = "post" => hpc[u] = "post"
    BY <1>6 DEF OtherSignal, PostAck, RestartHandler, TestStopped, TestCount, Handle,
       Return, StopTypeOK
  <2>3. Unsent' = Unsent
    BY <2>1 DEF Unsent
  <2>4. QED
    BY <1>2, <2>1, <2>2, <2>3, SMTT(30)
<1>7. CASE StoreCount(t)
  <2>1. /\ UNCHANGED <<myCount, stopCount, suspend, lock, pc, todo>>
        /\ lastStop' = [lastStop EXCEPT ![t] = myCount[t]]
        /\ \A u \in Thread : hpc'[u] = "post" => hpc[u] = "post"
    BY <1>7 DEF StoreCount, Handle, worldVars, loopVars, StopTypeOK
  <2>2. Unsent' = Unsent
    BY <2>1 DEF Unsent
  <2>3. QED
    BY <2>1, <2>2
<1>8. CASE SuspendHandler(t)
  <2>1. /\ t \in suspend /\ suspend' = suspend \ {t}
        /\ UNCHANGED <<lastStop, stopCount, lock, pc, todo>>
        /\ t \in table
    BY <1>8, AckFacts, Zenon DEF SuspendHandler, worldVars, loopVars
  <2>2. lastStop[t] # stopCount /\ lastStop[t] < stopCount /\ pc[lock] \in Stopping
    BY <2>1, AckFacts DEF StopTypeOK
  <2>3. /\ myCount' = [myCount EXCEPT ![t] = stopCount]
        /\ hpc' = [hpc EXCEPT ![t] = "post"]
    BY <1>8, <2>1, <2>2, SMTT(30) DEF SuspendHandler, Handle, StopTypeOK
  <2>4. Unsent' = Unsent /\ t \notin Unsent
    BY <2>1, AckFacts DEF Unsent
  <2>5. pc'[lock'] # "flag"
    BY <2>1, <2>2 DEF Stopping
  <2>6. QED
    BY <2>1, <2>3, <2>4, <2>5 DEF StopTypeOK
<1>9. CASE IncrementCount(t)
  <2>1. lock = t /\ pc[lock] = "count" /\ lock' = t /\ pc'[t] = "flag"
    BY <1>9 DEF IncrementCount, At, Goto, ThreadInv, StopTypeOK
  <2>2. Unacked = {} /\ Unsent' = {}
    BY <2>1, SMTT(30) DEF AckInv, Stopping, Unsent
  <2>3. UNCHANGED <<lastStop, myCount, hpc, suspend>> /\ stopCount' = stopCount + 1
    BY <1>9 DEF IncrementCount, handlerVars
  <2>4. suspend = {} /\ \A u \in Thread : hpc[u] # "post"
    BY <2>2 DEF Unacked, StopTypeOK
  <2>5. QED
    BY <2>2, <2>3, <2>4 DEF StopTypeOK
<1>10. CASE SetStopped(t)
  <2>1. lock = t /\ pc[lock] = "flag" /\ lock' = t /\ pc'[t] = "suspend"
    BY <1>10 DEF SetStopped, At, Goto, ThreadInv, StopTypeOK
  <2>2. UNCHANGED <<lastStop, myCount, hpc, stopCount, suspend>>
    BY <1>10 DEF SetStopped, handlerVars
  <2>3. Unsent' \subseteq Thread
    BY <1>10 DEF SetStopped, Unsent, Others, StopTypeOK
  <2>4. QED
    BY <2>1, <2>2, <2>3, ThreadAssumption DEF StopTypeOK
<1>11. CASE WaitAck(t)
  <2>1. UNCHANGED <<lastStop, myCount, hpc, stopCount, suspend, lock, pc, todo>>
    BY <1>11 DEF WaitAck, worldVars, handlerVars
  <2>2. Unsent' = Unsent
    BY <2>1 DEF Unsent
  <2>3. QED
    BY <1>2, <2>1, <2>2
<1>12. ASSUME NEW u \in Thread, SuspendOne(t, u)
       PROVE  CountInv'
  <2>1. lock = t /\ pc[lock] = "suspend" /\ u \in Unsent
    BY <1>12, ThreadAssumption DEF SuspendOne, At, ThreadInv, Unsent
  <2>2. /\ UNCHANGED <<lastStop, myCount, hpc, stopCount, lock, pc>>
        /\ suspend' \subseteq suspend \cup {u} /\ todo' \subseteq todo
    BY <1>12 DEF SuspendOne, SendSuspend, worldVars, handlerVars
  <2>3. Unsent' \subseteq Unsent
    BY <2>2 DEF Unsent
  <2>4. QED
    BY <2>1, <2>2, <2>3
<1>13. ASSUME NEW u \in Thread, RestartOne(t, u)
       PROVE  CountInv'
  <2>1. UNCHANGED <<lastStop, myCount, hpc, stopCount, suspend, lock, pc>> /\ todo' \subseteq todo
    BY <1>13 DEF RestartOne, worldVars, handlerVars
  <2>2. Unsent' \subseteq Unsent
    BY <2>1 DEF Unsent
  <2>3. QED
    BY <1>2, <2>1, <2>2
<1>14. QED
  BY <1>1, <1>3, <1>4, <1>5, <1>6, <1>7, <1>8, <1>9, <1>10, <1>11, <1>12, <1>13, Zenon DEF Moves

\* What leaves the lock, the table, the semaphore and the signals alone keeps
\* the balance, if a thread of the present stop stays in the handler.
LEMMA AckKept ==
  ASSUME StopTypeOK, AckInv,
         UNCHANGED <<lock, pc, tableVars, ack, nLive, todo, stopCount, myCount, suspend>>,
         \A u \in Thread : (hpc'[u] = "post") <=> (hpc[u] = "post"),
         lock # Nil /\ pc[lock] \in Stopping \cup {"stopped"} =>
           \A u \in Thread : Acked(u) => Acked(u)'
  PROVE  AckInv'
<1>1. Unacked' = Unacked /\ Unsent' = Unsent
  BY DEF Unacked, Unsent
<1>2. CASE lock # Nil /\ pc[lock] \in Stopping
  <2>1. Others(lock)' = Others(lock) /\ Others(lock) \subseteq Thread
    BY DEF Others, tableVars, StopTypeOK
  <2>2. QED
    BY <1>1, <1>2, <2>1 DEF AckInv
<1>3. CASE ~ (lock # Nil /\ pc[lock] \in Stopping)
  <2>1. Others(lock)' = Others(lock) /\ Others(lock) \subseteq Thread
    BY DEF Others, tableVars, StopTypeOK
  <2>2. QED
    BY <1>1, <1>3, <2>1 DEF AckInv
<1>4. QED
  BY <1>2, <1>3

\* Outside a stop there is nothing to balance.
LEMMA AckIdle ==
  ASSUME StopTypeOK, AckInv,
         ~ (lock # Nil /\ pc[lock] \in Stopping),
         UNCHANGED <<ack, hpc, suspend>>,
         ~ (lock' # Nil /\ pc'[lock'] \in Stopping \cup {"stopped"})
  PROVE  AckInv'
<1>1. Unacked' = {} /\ ack' = 0
  BY DEF AckInv, Unacked
<1>2. QED
  BY <1>1 DEF AckInv

\* n_live_threads, the semaphore and the signals stay in balance.
LEMMA NextAck ==
  ASSUME StopTypeOK, ThreadInv, CountInv, AckInv, ~ retry, NEW t \in Thread, Moves(t)
  PROVE  AckInv'
<1>0. /\ Unacked \subseteq Thread /\ IsFiniteSet(Unacked) /\ Cardinality(Unacked) \in Nat
      /\ t # Nil
  BY ThreadAssumption, AckFacts, FS_Subset, FS_CardinalityType
<1>1. CASE \/ Register(t) \/ BlockingBegin(t) \/ BlockingEnd(t) \/ Unregister(t)
           \/ DeleteThread(t)
  <2>1. lock = Nil /\ lock' = Nil /\ UNCHANGED <<ack, hpc, suspend>>
    BY <1>1 DEF Register, BlockingBegin, BlockingEnd, Unregister, DeleteThread, handlerVars
  <2>2. QED
    BY <2>1, AckIdle
<1>2. CASE StopWorld(t)
  <2>1. lock = Nil /\ lock' = t /\ pc'[t] = "count" /\ UNCHANGED <<ack, hpc, suspend>>
    BY <1>2 DEF StopWorld, Goto, handlerVars, StopTypeOK
  <2>2. QED
    BY <2>1, AckIdle DEF Stopping
<1>3. CASE IncrementCount(t)
  <2>1. /\ lock = t /\ pc[t] = "count" /\ lock' = t /\ pc'[t] = "flag"
        /\ UNCHANGED <<ack, hpc, suspend>>
    BY <1>3 DEF IncrementCount, At, Goto, handlerVars, ThreadInv, StopTypeOK
  <2>2. QED
    BY <2>1, AckIdle DEF Stopping
<1>4. CASE WorldStarted(t)
  <2>1. /\ lock = t /\ pc[t] = "restart" /\ lock' = Nil
        /\ UNCHANGED <<ack, hpc, suspend>>
    BY <1>4 DEF WorldStarted, At, Goto, handlerVars, ThreadInv, StopTypeOK
  <2>2. QED
    BY <2>1, AckIdle DEF Stopping
<1>5. CASE StartWorld(t)
  <2>1. /\ lock = t /\ pc[t] = "stopped" /\ lock' = t /\ pc'[t] = "restart"
        /\ UNCHANGED <<ack, hpc, suspend>>
    BY <1>5 DEF StartWorld, At, Goto, handlerVars, ThreadInv, StopTypeOK
  <2>2. QED
    BY <2>1, AckIdle DEF Stopping
<1>6. ASSUME NEW u \in Thread, RestartOne(t, u)
      PROVE  AckInv'
  <2>1. /\ lock = t /\ pc[t] = "restart" /\ UNCHANGED <<lock, pc, ack, hpc, suspend>>
    BY <1>6 DEF RestartOne, At, handlerVars, ThreadInv
  <2>2. QED
    BY <2>1, AckIdle DEF Stopping
<1>7. CASE Run(t) \/ LateRestart(t)
  <2>1. /\ UNCHANGED <<lock, pc, tableVars, ack, nLive, todo, stopCount, myCount, suspend>>
        /\ UNCHANGED hpc
    BY <1>7, Zenon DEF Run, LateRestart, tableVars, worldVars, handlerVars, loopVars
  <2>2. \A u \in Thread : Acked(u) => Acked(u)'
    BY <2>1 DEF Acked
  <2>3. \A u \in Thread : (hpc'[u] = "post") <=> (hpc[u] = "post")
    BY <2>1
  <2>4. QED
    BY <2>1, <2>2, <2>3, AckKept, Zenon
<1>8. CASE StoreCount(t) \/ RestartHandler(t) \/ OtherSignal(t)
  <2>1. UNCHANGED <<lock, pc, tableVars, ack, nLive, todo, stopCount, myCount, suspend>>
    BY <1>8, Zenon DEF StoreCount, RestartHandler, OtherSignal, tableVars, worldVars, loopVars
  <2>2. /\ \A u \in Thread : u # t => hpc'[u] = hpc[u]
        /\ hpc[t] \in {"store", "sleep"} /\ hpc'[t] \in {"sleep", "testStopped"}
    BY <1>8 DEF StoreCount, RestartHandler, OtherSignal, Handle, StopTypeOK
  <2>3. \A u \in Thread : Acked(u) => Acked(u)'
    BY <2>1, <2>2 DEF Acked
  <2>4. \A u \in Thread : (hpc'[u] = "post") <=> (hpc[u] = "post")
    BY <2>2
  <2>5. QED
    BY <2>1, <2>3, <2>4, AckKept, Zenon
<1>9. CASE TestStopped(t) \/ TestCount(t)
  <2>1. UNCHANGED <<lock, pc, tableVars, ack, nLive, todo, stopCount, myCount, suspend>>
    BY <1>9, Zenon DEF TestStopped, TestCount, tableVars, worldVars, loopVars
  <2>2. /\ \A u \in Thread : u # t => hpc'[u] = hpc[u]
        /\ hpc[t] \in {"testStopped", "testCount"}
        /\ hpc'[t] \in {"sleep", "testCount", "return", "none"}
        /\ stopped /\ stopCount = myCount[t] => hpc'[t] \in {"sleep", "testCount"}
    BY <1>9 DEF TestStopped, TestCount, Handle, Return, StopTypeOK
  <2>3. \A u \in Thread : (hpc'[u] = "post") <=> (hpc[u] = "post")
    BY <2>2
  <2>4. ASSUME lock # Nil /\ pc[lock] \in Stopping \cup {"stopped"}
        PROVE  \A u \in Thread : Acked(u) => Acked(u)'
    <3>1. stopped
      BY <2>4 DEF ThreadInv, Stopping
    <3>2. QED
      BY <3>1, <2>1, <2>2 DEF Acked
  <2>5. QED
    BY <2>1, <2>3, <2>4, AckKept, Zenon
<1>10. CASE SuspendHandler(t)
  <2>1. t \in suspend /\ t \in Unacked
    BY <1>10 DEF SuspendHandler, Unacked, StopTypeOK
  <2>2. /\ lock \in Thread /\ pc[lock] \in Stopping /\ lastStop[t] # stopCount
        /\ t \in table /\ t \notin Unsent
    BY <2>1, AckFacts DEF CountInv, StopTypeOK
  <2>3. /\ UNCHANGED <<lock, pc, tableVars, ack, nLive, todo, stopCount>>
        /\ suspend' = suspend \ {t}
        /\ hpc' = [hpc EXCEPT ![t] = "post"]
        /\ myCount' = [myCount EXCEPT ![t] = stopCount]
    BY <1>10, <2>2 DEF SuspendHandler, Handle, tableVars, worldVars, loopVars, StopTypeOK
  <2>4. Unacked' = Unacked /\ Unsent' = Unsent /\ Others(lock)' = Others(lock)
    <3>1. Unsent' = Unsent /\ Others(lock)' = Others(lock)
      BY <2>3 DEF Unsent, Others, tableVars, StopTypeOK
    <3>2. Unacked' = Unacked
      BY <2>1, <2>3 DEF Unacked, StopTypeOK
    <3>3. QED
      BY <3>1, <3>2
  <2>5. \A u \in Thread : u # t /\ Acked(u) => Acked(u)'
    BY <2>3 DEF Acked
  <2>6. Others(lock) \subseteq Thread
    BY SMTT(30) DEF Others, StopTypeOK
  <2>7. QED
    BY <2>1, <2>2, <2>3, <2>4, <2>5, <2>6 DEF AckInv
<1>11. CASE PostAck(t)
  <2>1. t \in Unacked /\ hpc[t] = "post"
    BY <1>11 DEF PostAck, Unacked, StopTypeOK
  <2>2. /\ lock \in Thread /\ pc[lock] \in Stopping /\ t \notin suspend
        /\ myCount[t] = stopCount
    BY <2>1, AckFacts, ThreadAssumption, SMTT(30) DEF CountInv, StopTypeOK
  <2>3. /\ UNCHANGED <<lock, pc, tableVars, nLive, todo, stopCount, myCount, suspend>>
        /\ hpc' = [hpc EXCEPT ![t] = "store"]
        /\ ack' = ack + 1
    BY <1>11 DEF PostAck, Handle, tableVars, worldVars, loopVars, StopTypeOK
  <2>4. Unsent' = Unsent /\ Others(lock)' = Others(lock) /\ Others(lock) \subseteq Thread
    BY <2>3 DEF Unsent, Others, tableVars, StopTypeOK
  <2>5. Unacked' = Unacked \ {t}
    BY <2>1, <2>2, <2>3, SMTT(30) DEF Unacked, StopTypeOK
  <2>6. Cardinality(Unacked') = Cardinality(Unacked) - 1
    BY <1>0, <2>1, <2>5, FS_RemoveElement
  <2>7. Acked(t)' /\ \A u \in Thread : Acked(u) => Acked(u)'
    BY <2>2, <2>3 DEF Acked, StopTypeOK
  <2>8. /\ nLive = ack + Cardinality(Unacked)
        /\ Unacked \subseteq Others(lock)
        /\ Unsent \subseteq Others(lock) \ Unacked
        /\ \A u \in Others(lock) \ (Unsent \cup Unacked) : Acked(u)
    BY <2>2, ThreadAssumption DEF AckInv
  <2>9. nLive' = ack' + Cardinality(Unacked')
    BY <1>0, <2>3, <2>6, <2>8 DEF StopTypeOK
  <2>10. QED
    BY <2>2, <2>3, <2>4, <2>5, <2>7, <2>8, <2>9, ThreadAssumption DEF AckInv
<1>12. CASE SetStopped(t)
  <2>1. /\ lock = t /\ pc[t] = "flag" /\ lock' = t /\ pc'[t] = "suspend"
        /\ todo' = Others(t) /\ nLive' = 0 /\ UNCHANGED <<ack, hpc, suspend, tableVars>>
    BY <1>12 DEF SetStopped, At, Goto, handlerVars, ThreadInv, StopTypeOK
  <2>2. Unacked = {} /\ ack = 0
    BY <2>1 DEF AckInv, Stopping
  <2>3. Unacked' = {} /\ Unsent' = Others(t) /\ Others(t)' = Others(t)
    BY <1>0, <2>1, <2>2 DEF Unacked, Unsent, Others, tableVars, StopTypeOK
  <2>4. Cardinality(Unacked') = 0
    BY <2>3, FS_EmptySet
  <2>5. QED
    BY <1>0, <2>1, <2>2, <2>3, <2>4, SMTT(30) DEF AckInv, Stopping
<1>13. ASSUME NEW u \in Thread, SuspendOne(t, u)
       PROVE  AckInv'
  <2>1. lock = t /\ pc[t] = "suspend" /\ u \in Unsent /\ t # Nil
    BY <1>0, <1>13 DEF SuspendOne, At, ThreadInv, Unsent
  <2>2. /\ nLive = ack + Cardinality(Unacked)
        /\ Unacked \subseteq Others(t)
        /\ Unsent \subseteq Others(t) \ Unacked
        /\ \A v \in Others(t) \ (Unsent \cup Unacked) : Acked(v)
    BY <2>1 DEF AckInv, Stopping
  <2>3. lastStop[u] # stopCount
    BY <2>1 DEF CountInv, StopTypeOK
  <2>4. /\ UNCHANGED <<lock, pc, tableVars, ack, stopCount, myCount, hpc>>
        /\ suspend' = suspend \cup {u} /\ todo' = todo \ {u} /\ nLive' = nLive + 1
    BY <1>13, <2>3 DEF SuspendOne, SendSuspend, tableVars, worldVars, handlerVars
  <2>5. Unsent' = Unsent \ {u} /\ Others(t)' = Others(t) /\ Others(t) \subseteq Thread
    BY <2>4 DEF Unsent, Others, tableVars, StopTypeOK
  <2>6. Unacked' = Unacked \cup {u}
    BY <2>4, SMTT(30) DEF Unacked, StopTypeOK
  <2>7. Cardinality(Unacked') = Cardinality(Unacked) + 1
    BY <1>0, <2>1, <2>2, <2>6, FS_AddElement, Zenon
  <2>8. \A v \in Thread : Acked(v) => Acked(v)'
    BY <2>4 DEF Acked
  <2>9. nLive' = ack' + Cardinality(Unacked')
    BY <1>0, <2>2, <2>4, <2>7 DEF StopTypeOK
  <2>10. QED
    BY <2>1, <2>2, <2>4, <2>5, <2>6, <2>8, <2>9, SMTT(30) DEF AckInv, Stopping
<1>14. CASE SuspendAll(t)
  <2>1. /\ lock = t /\ pc[t] = "suspend" /\ lock' = t /\ pc'[t] = "wait" /\ todo = {}
        /\ UNCHANGED <<tableVars, ack, stopCount, myCount, hpc, suspend, nLive>>
    BY <1>14 DEF SuspendAll, At, Goto, worldVars, handlerVars, loopVars, ThreadInv, StopTypeOK
  <2>2. Unsent = {} /\ Unsent' = {} /\ Unacked' = Unacked
    BY <2>1 DEF Unsent, Unacked, StopTypeOK
  <2>3. Others(t)' = Others(t) /\ Others(t) \subseteq Thread
    BY <2>1 DEF Others, tableVars, StopTypeOK
  <2>4. \A v \in Thread : Acked(v) => Acked(v)'
    BY <2>1 DEF Acked
  <2>5. /\ nLive = ack + Cardinality(Unacked)
        /\ Unacked \subseteq Others(t)
        /\ \A v \in Others(t) \ Unacked : Acked(v)
    BY <1>0, <2>1, <2>2, Zenon DEF AckInv, Stopping
  <2>6. QED
    BY <1>0, <2>1, <2>2, <2>3, <2>4, <2>5 DEF AckInv, Stopping
<1>15. CASE WaitAck(t)
  <2>1. /\ lock = t /\ pc[t] = "wait" /\ nLive > 0 /\ ack > 0
        /\ ack' = ack - 1 /\ nLive' = nLive - 1
        /\ UNCHANGED <<lock, pc, todo, tableVars, stopCount, myCount, hpc, suspend>>
    BY <1>15 DEF WaitAck, At, worldVars, handlerVars, ThreadInv, tableVars
  <2>2. Unsent' = Unsent /\ Unacked' = Unacked
    BY <2>1 DEF Unsent, Unacked, StopTypeOK
  <2>3. Others(t)' = Others(t) /\ Others(t) \subseteq Thread
    BY <2>1 DEF Others, tableVars, StopTypeOK
  <2>4. \A v \in Thread : Acked(v) => Acked(v)'
    BY <2>1, Zenon DEF Acked
  <2>5. /\ nLive = ack + Cardinality(Unacked)
        /\ Unacked \subseteq Others(t)
        /\ Unsent \subseteq Others(t) \ Unacked
        /\ \A v \in Others(t) \ (Unsent \cup Unacked) : Acked(v)
    BY <1>0, <2>1 DEF AckInv, Stopping
  <2>6. nLive' = ack' + Cardinality(Unacked')
    BY <1>0, <2>1, <2>2, <2>5, SMTT(30) DEF StopTypeOK
  <2>7. QED
    BY <1>0, <2>1, <2>2, <2>3, <2>4, <2>5, <2>6, SMTT(30) DEF AckInv, Stopping
<1>16. CASE WorldStopped(t)
  <2>1. /\ lock = t /\ pc[t] = "wait" /\ lock' = t /\ pc'[t] = "stopped" /\ nLive = 0
        /\ UNCHANGED <<tableVars, ack, stopCount, myCount, hpc, suspend>>
    BY <1>16, SMTT(30) DEF WorldStopped, At, Goto, worldVars, handlerVars, ThreadInv, StopTypeOK
  <2>2. /\ nLive = ack + Cardinality(Unacked)
        /\ \A v \in Others(t) \ (Unsent \cup Unacked) : Acked(v)
    BY <1>0, <2>1 DEF AckInv, Stopping
  <2>3. ack = 0 /\ Cardinality(Unacked) = 0
    BY <1>0, <2>1, <2>2 DEF StopTypeOK
  <2>4. Unacked = {} /\ Unsent = {}
    BY <1>0, <2>1, <2>3, FS_EmptySet DEF Unsent
  <2>5. Unacked' = {}
    BY <2>1, <2>4 DEF Unacked, StopTypeOK
  <2>6. Others(t)' = Others(t) /\ Others(t) \subseteq Thread
    BY <2>1 DEF Others, tableVars, StopTypeOK
  <2>7. \A v \in Thread : Acked(v) => Acked(v)'
    BY <2>1 DEF Acked
  <2>8. \A v \in Others(t)' : Acked(v)'
    BY <2>2, <2>4, <2>6, <2>7
  <2>9. ack' = 0 /\ lock' = t /\ pc'[t] \notin Stopping
    BY <2>1, <2>3 DEF Stopping
  <2>10. QED
    BY <2>5, <2>8, <2>9 DEF AckInv
<1>17. QED
  BY <1>1, <1>2, <1>3, <1>4, <1>5, <1>6, <1>7, <1>8, <1>9, <1>10, <1>11, <1>12, <1>13,
     <1>14, <1>15, <1>16, Zenon DEF Moves

-----------------------------------------------------------------------------
\* Nobody is registered at first and no signal has been sent.
LEMMA InitStop == Init => StopInv
<1> SUFFICES ASSUME Init PROVE StopInv
  OBVIOUS
<1>1. StopTypeOK
  BY BoundAssumption DEF Init, StopTypeOK
<1>2. Unacked = {} /\ Unsent = {}
  BY DEF Init, Unacked, Unsent
<1>3. ThreadInv
  BY ThreadAssumption DEF Init, ThreadInv, InHandler
<1>4. CountInv
  BY <1>2 DEF Init, CountInv
<1>5. AckInv
  BY <1>2 DEF Init, AckInv
<1>6. QED
  BY <1>1, <1>3, <1>4, <1>5 DEF StopInv

\* GC_retry_signals is set once.
LEMMA NextRetry ==
  ASSUME [Next]_vars
  PROVE  retry' = retry
<1> SUFFICES ASSUME NEW t \in Thread,
                    \/ Client(t) \/ Handler(t) \/ SuspendHandler(t) \/ RestartHandler(t)
                    \/ LateRestart(t) \/ Stopper(t)
             PROVE  retry' = retry
  BY DEF vars, Next
<1>1. CASE Client(t)
  BY <1>1, Zenon DEF Client, Register, Run, BlockingBegin, BlockingEnd, Unregister, DeleteThread,
              StopWorld, OtherSignal
<1>2. CASE Handler(t) \/ SuspendHandler(t) \/ RestartHandler(t) \/ LateRestart(t)
  BY <1>2, Zenon DEF Handler, PostAck, StoreCount, TestStopped, TestCount, SuspendHandler,
              RestartHandler, LateRestart
<1>3. CASE Stopper(t)
  BY <1>3, Zenon DEF Stopper, IncrementCount, SetStopped, SuspendAll, AcksComplete, Timeout,
              ResendAll, WaitAck, WorldStopped, StartWorld, WorldStarted, SuspendOne,
              ResendOne, RestartOne
<1>4. QED
  BY <1>1, <1>2, <1>3

\* Every step keeps the invariant.
LEMMA NextStop == StopInv /\ [Next]_vars => StopInv'
<1> SUFFICES ASSUME StopInv, [Next]_vars PROVE StopInv'
  OBVIOUS
<1>1. StopTypeOK'
  BY NextTypes DEF StopInv
<1>2. CASE UNCHANGED vars
  <2>1. UNCHANGED <<retry, lock, table, finished, blocked, sp, stackPtr, stopCount, stopped,
                    lastStop, hpc, myCount, ack, suspend, restart, pc, todo, nLive>>
    BY <1>2 DEF vars, tableVars, stackVars, worldVars, handlerVars, loopVars
  <2>2. Unacked' = Unacked /\ Unsent' = Unsent /\ Others(lock)' = Others(lock)
    BY <2>1 DEF Unacked, Unsent, Others
  <2>3. ThreadInv => ThreadInv'
    BY <2>1, SMTT(30) DEF ThreadInv
  <2>4. CountInv => CountInv'
    BY <2>1, <2>2 DEF CountInv
  <2>5. AckInv => AckInv'
    BY <2>1, <2>2 DEF AckInv, Acked
  <2>6. QED
    BY <1>1, <2>1, <2>3, <2>4, <2>5 DEF StopInv
<1>3. CASE Next
  <2>1. retry' = retry
    BY NextRetry
  <2>2. CASE retry
    BY <1>1, <2>1, <2>2 DEF StopInv
  <2>3. CASE ~ retry
    <3>1. PICK t \in Thread : Moves(t)
      BY <1>3, <2>3, OnlyMoves, SMTT(30) DEF StopInv, Next
    <3>2. QED
      BY <1>1, <2>3, <3>1, NextThread, NextCount, NextAck DEF StopInv
  <2>4. QED
    BY <2>2, <2>3
<1>4. QED
  BY <1>2, <1>3

\* The balance makes the world stop.
LEMMA StopsAll == StopInv => StopsReliably
<1> SUFFICES ASSUME StopInv, ~ retry, NEW t \in Thread, pc[t] = "stopped",
                    NEW u \in Scanned(t)
             PROVE  (u \in blocked \/ Acked(u)) /\ stackPtr[u] = sp[u]
  BY DEF StopsReliably, WorldIsStopped
<1>1. ThreadInv /\ AckInv /\ StopTypeOK
  BY DEF StopInv
<1>2. lock = t /\ lock # Nil
  BY <1>1, ThreadAssumption, SMTT(30) DEF ThreadInv
<1>3. u \in Thread
  BY <1>1 DEF Scanned, StopTypeOK
<1>4. u \in blocked \/ u \in Others(t)
  BY DEF Scanned, Others
<1>5. \A v \in Others(t) : Acked(v)
  BY <1>1, <1>2 DEF AckInv, Stopping
<1>6. Acked(u) => hpc[u] \in InHandler
  BY DEF Acked, InHandler
<1>7. QED
  BY <1>1, <1>3, <1>4, <1>5, <1>6 DEF ThreadInv

\* The handshake of GC_suspend_all and GC_suspend_handler is in balance without
\* retries, for any number of threads and stops.
THEOREM StopInvariant == Spec => []StopInv
  BY InitStop, NextStop, PTL DEF Spec

\* When GC_stop_world has returned, and until GC_start_world, every other
\* registered thread is stopped and its saved stack pointer is right, without
\* retries and for any number of threads and stops.
THEOREM WorldStopsReliably == Spec => []StopsReliably
  BY StopInvariant, StopsAll, PTL

\* Without retries no suspend signal reaches a thread that has left GC_threads.
THEOREM SignalsFindThreads == Spec => [](~ retry => HandlerFindsThread)
<1>1. StopInv => (~ retry => HandlerFindsThread)
  BY DEF StopInv, ThreadInv, HandlerFindsThread
<1>2. QED
  BY StopInvariant, <1>1, PTL

-----------------------------------------------------------------------------
(* The signals implement AbstractWorld. *)

\* At most one thread has stopped the world.
LEMMA OneStopper ==
  ASSUME ThreadInv, lock \in Thread \cup {Nil}
  PROVE  /\ \A t \in Thread : pc[t] = "stopped" =>
              /\ lock = t /\ Stoppers = {t} /\ StoppedBy = t
              /\ Seen = [u \in Scanned(t) |-> stackPtr[u]]
         /\ (\A t \in Thread : pc[t] # "stopped") =>
              Stoppers = {} /\ StoppedBy = Nil /\ Seen = [u \in {} |-> 0]
<1>1. ASSUME NEW t \in Thread, pc[t] = "stopped"
      PROVE  /\ lock = t /\ Stoppers = {t} /\ StoppedBy = t
             /\ Seen = [u \in Scanned(t) |-> stackPtr[u]]
  <2>1. lock = t /\ Stoppers = {t}
    BY <1>1 DEF ThreadInv, Stoppers
  <2>2. StoppedBy = t
    BY <2>1 DEF StoppedBy
  <2>3. UNION {Scanned(v) : v \in Stoppers} = Scanned(t)
    BY <2>1
  <2>4. QED
    BY <2>1, <2>2, <2>3 DEF Seen
<1>2. ASSUME \A t \in Thread : pc[t] # "stopped"
      PROVE  Stoppers = {} /\ StoppedBy = Nil /\ Seen = [u \in {} |-> 0]
  <2>1. Stoppers = {}
    BY <1>2 DEF Stoppers
  <2>2. UNION {Scanned(v) : v \in Stoppers} = {}
    BY <2>1
  <2>3. QED
    BY <2>1, <2>2 DEF StoppedBy, Seen
<1>3. QED
  BY <1>1, <1>2

\* A step of the threads, the handler or the stopper is one of AbstractWorld or
\* none.
LEMMA StepRefines ==
  ASSUME StopInv, StopInv', ~ retry, [Next]_vars
  PROVE  [World!Next]_(World!vars)
<1> StopsReliably'
  BY StopsAll, PTL
<1>0. /\ StopTypeOK /\ ThreadInv /\ AckInv /\ StopsReliably /\ ~ retry'
      /\ StopTypeOK' /\ ThreadInv' /\ WorldIsStopped'
  BY NextRetry, StopsAll DEF StopInv, StopsReliably
<1>1. lock \in Thread \cup {Nil} /\ lock' \in Thread \cup {Nil}
  BY <1>0 DEF StopTypeOK
<1>a. \A u \in Thread : pc[u] \notin {"out", "run", "blocked"} => lock = u
  BY <1>0 DEF ThreadInv
<1>2. ASSUME UNCHANGED <<sp, pc, table, finished, stackPtr>>
      PROVE  UNCHANGED World!vars
  BY <1>2, SMTT(30) DEF World!vars, StoppedBy, Stoppers, Seen, Scanned
<1>3. ASSUME UNCHANGED sp, \A u \in Thread : pc[u] # "stopped",
             \A u \in Thread : pc'[u] # "stopped"
      PROVE  UNCHANGED World!vars
  <2>1. StoppedBy = Nil /\ Seen = [u \in {} |-> 0]
    BY <1>0, <1>1, <1>3, OneStopper
  <2>2. StoppedBy' = Nil /\ Seen' = [u \in {} |-> 0]
    BY <1>0, <1>1, <1>3 DEF StoppedBy, Seen, Stoppers
  <2>3. QED
    BY <1>3, <2>1, <2>2 DEF World!vars
<1>4. CASE UNCHANGED vars
  BY <1>2, <1>4 DEF vars, tableVars, stackVars
<1>5. SUFFICES ASSUME NEW t \in Thread, Moves(t)
               PROVE  World!Next \/ UNCHANGED World!vars
  BY <1>0, <1>4, OnlyMoves DEF Next
<1>6. CASE Run(t)
  <2>1. /\ At(t, "run") /\ UNCHANGED <<pc, table, finished, stackPtr>>
        /\ \E d \in Depth : sp' = [sp EXCEPT ![t] = d]
    BY <1>6, Zenon DEF Run, tableVars
  <2>2. t \in table \ finished /\ t \notin blocked /\ ~ Acked(t)
    BY <1>0, <2>1, SMTT(30) DEF At, Runs, ThreadInv, Acked
  <2>3. \A u \in Thread : pc[u] # "stopped"
    BY <1>0, <2>1, <2>2 DEF StopsReliably, WorldIsStopped, Scanned, At
  <2>4. StoppedBy = Nil /\ UNCHANGED <<StoppedBy, Seen>>
    BY <1>0, <1>1, <2>1, <2>3, OneStopper, SMTT(30) DEF StoppedBy, Seen, Stoppers, Scanned
  <2>5. World!Run(t)
    BY <2>1, <2>4, Zenon DEF World!Run
  <2>6. QED
    BY <2>5 DEF World!Next
<1>7. CASE \/ Register(t) \/ BlockingBegin(t) \/ BlockingEnd(t) \/ Unregister(t)
           \/ DeleteThread(t) \/ StopWorld(t)
  <2>1. UNCHANGED sp /\ lock = Nil
    BY <1>7 DEF Register, BlockingBegin, BlockingEnd, Unregister, DeleteThread, StopWorld,
                stackVars
  <2>2. \A u \in Thread : pc[u] # "stopped"
    BY <1>a, <2>1, ThreadAssumption
  <2>3. \A u \in Thread : pc'[u] # "stopped"
    BY <1>0, <1>7, <2>2, Zenon DEF Register, BlockingBegin, BlockingEnd, Unregister, DeleteThread,
                StopWorld, Goto, StopTypeOK
  <2>4. QED
    BY <1>3, <2>1, <2>2, <2>3
<1>8. CASE \/ OtherSignal(t) \/ PostAck(t) \/ StoreCount(t) \/ TestStopped(t) \/ TestCount(t)
           \/ RestartHandler(t) \/ LateRestart(t) \/ WaitAck(t)
  <2>1. UNCHANGED <<sp, pc, table, finished, stackPtr>>
    BY <1>8, Zenon DEF OtherSignal, PostAck, StoreCount, TestStopped, TestCount, RestartHandler,
                LateRestart, WaitAck, tableVars, stackVars
  <2>2. QED
    BY <1>2, <2>1
<1>9. ASSUME NEW u \in Thread, SuspendOne(t, u) \/ RestartOne(t, u)
      PROVE  UNCHANGED World!vars
  <2>1. UNCHANGED <<sp, pc, table, finished, stackPtr>>
    BY <1>9 DEF SuspendOne, RestartOne, tableVars, stackVars
  <2>2. QED
    BY <1>2, <2>1
<1>10. CASE SuspendHandler(t)
  <2>1. t \in Unacked /\ UNCHANGED <<sp, pc>>
    BY <1>10, Zenon DEF SuspendHandler, Unacked
  <2>2. lock \in Thread /\ pc[lock] \in Stopping
    BY <1>0, <2>1, AckFacts, Zenon
  <2>3. \A u \in Thread : pc[u] # "stopped"
    BY <1>0, <2>2 DEF ThreadInv, Stopping
  <2>4. QED
    BY <1>3, <2>1, <2>3
<1>11. CASE \/ IncrementCount(t) \/ SetStopped(t) \/ SuspendAll(t) \/ WorldStarted(t)
  <2>1. /\ UNCHANGED sp /\ pc[t] \in {"count", "flag", "suspend", "restart"}
        /\ \E p \in {"flag", "suspend", "acks", "wait", "run"} : pc' = [pc EXCEPT ![t] = p]
    BY <1>11, SMTT(30) DEF IncrementCount, SetStopped, SuspendAll, WorldStarted, At, Goto, stackVars
  <2>2. \A u \in Thread : pc[u] # "stopped"
    BY <1>a, <2>1
  <2>3. \A u \in Thread : pc'[u] # "stopped"
    BY <1>0, <2>1, <2>2 DEF StopTypeOK
  <2>4. QED
    BY <1>3, <2>1, <2>2, <2>3
<1>12. CASE WorldStopped(t)
  <2>1. /\ pc[t] = "wait" /\ pc' = [pc EXCEPT ![t] = "stopped"] /\ lock' = lock
        /\ UNCHANGED <<sp, stackPtr, table, finished>>
    BY <1>12, SMTT(30) DEF WorldStopped, At, Goto, stackVars, tableVars
  <2>2. \A u \in Thread : pc[u] # "stopped"
    BY <1>a, <2>1
  <2>3. StoppedBy = Nil
    BY <1>0, <1>1, <2>2, OneStopper, SMTT(30)
  <2>4. pc'[t] = "stopped" /\ Stoppers' = {t}
    BY <1>0, <2>1, <2>2, SMTT(30) DEF StopTypeOK, Stoppers
  <2>5. StoppedBy' = t
    BY <2>4 DEF StoppedBy
  <2>6. Scanned(t)' = Scanned(t) /\ Scanned(t) \in SUBSET Thread
    BY <1>0, <2>1 DEF Scanned, StopTypeOK
  <2>7. \A u \in Scanned(t) : stackPtr'[u] = sp[u]
    BY <1>0, <2>1, <2>4, <2>6, Zenon DEF WorldIsStopped
  <2>8. Seen' = [u \in Scanned(t) |-> stackPtr'[u]]
    <3>1. (UNION {Scanned(v) : v \in Stoppers})' = Scanned(t)
      BY <2>1, <2>4 DEF Scanned
    <3>2. QED
      BY <3>1 DEF Seen
  <2>9. Seen' = [u \in Scanned(t) |-> sp[u]]
    BY <2>7, <2>8
  <2>10. World!Stop(t, Scanned(t))
    BY <2>1, <2>3, <2>5, <2>9 DEF World!Stop
  <2>11. QED
    BY <2>6, <2>10 DEF World!Next
<1>13. CASE StartWorld(t)
  <2>1. pc[t] = "stopped" /\ pc' = [pc EXCEPT ![t] = "restart"] /\ UNCHANGED sp
    BY <1>13 DEF StartWorld, At, Goto, stackVars
  <2>2. StoppedBy = t /\ t # Nil
    BY <1>0, <1>1, <2>1, OneStopper, ThreadAssumption, SMTT(30)
  <2>3. \A u \in Thread : u # t => pc[u] # "stopped"
    BY <1>a, <2>1
  <2>4. \A u \in Thread : pc'[u] # "stopped"
    BY <1>0, <2>1, <2>3 DEF StopTypeOK
  <2>5. StoppedBy' = Nil /\ Seen' = [u \in {} |-> 0]
    BY <2>4 DEF StoppedBy, Seen, Stoppers
  <2>6. World!Start
    BY <2>1, <2>2, <2>5 DEF World!Start
  <2>7. QED
    BY <2>6 DEF World!Next
<1>14. QED
  BY <1>5, <1>6, <1>7, <1>8, <1>9, <1>10, <1>11, <1>12, <1>13 DEF Moves

\* Without retries GC_stop_world and GC_start_world, with all their signals,
\* behave like a world that stops at once.
THEOREM StopRefinement == Spec /\ ~ retry => ImplementsAbstractWorld
<1>1. Init => World!Init
  <2> SUFFICES ASSUME Init PROVE World!Init
    OBVIOUS
  <2>1. ThreadInv /\ lock \in Thread \cup {Nil} /\ \A t \in Thread : pc[t] # "stopped"
    BY ThreadAssumption DEF Init, ThreadInv, InHandler
  <2>2. StoppedBy = Nil /\ Seen = [t \in {} |-> 0]
    BY <2>1, OneStopper
  <2>3. sp \in [Thread -> Depth]
    BY DEF Init
  <2>4. QED
    BY <2>2, <2>3 DEF World!Init
<1>2. ~ retry /\ [Next]_vars => ~ retry'
  BY NextRetry
<1>3. StopInv /\ StopInv' /\ ~ retry /\ [Next]_vars => [World!Next]_(World!vars)
  BY StepRefines
<1>4. QED
  BY StopInvariant, <1>1, <1>2, <1>3, PTL DEF Spec, ImplementsAbstractWorld, World!Spec

=============================================================================
