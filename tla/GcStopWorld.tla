----------------------------- MODULE GcStopWorld -----------------------------
(***************************************************************************)
(* How the collector stops the other threads and starts them again with    *)
(* signals (pthread_stop_world.c), and how threads come and go or block    *)
(* meanwhile (pthread_support.c).                                          *)
(*                                                                         *)
(* Any thread may take the allocation lock and stop the world.  The        *)
(* suspend handler runs on top of whatever its thread does: hpc is its     *)
(* place, pc the place of the thread below it.  Neither signal is queued:  *)
(* one that is pending already is not counted twice.                       *)
(***************************************************************************)
EXTENDS Naturals, FiniteSets

CONSTANTS
  Thread,
  Nil,
  Depth,        \* positions of a stack pointer
  Base,         \* the bottom of a stack
  Retry,        \* values GC_retry_signals may have
  MaxStops,     \* bound: how often the world is stopped, without and with retries
  MaxLost       \* bound: how many suspend signals get lost

ASSUME ThreadAssumption == Nil \notin Thread /\ IsFiniteSet(Thread)

ASSUME BoundAssumption ==
  /\ Retry \subseteq BOOLEAN
  /\ MaxStops \in [BOOLEAN -> Nat] /\ MaxLost \in Nat

VARIABLES
  retry,        \* GC_retry_signals
  lock,         \* holder of the allocation lock
  table,        \* threads with an entry in GC_threads
  finished,     \* those with the FINISHED flag
  blocked,      \* those with thread_blocked
  sp,           \* the stack pointer of each thread
  stackPtr,     \* stop_info.stack_ptr
  lastStop,     \* stop_info.last_stop_count
  stopCount,    \* GC_stop_count
  stopped,      \* GC_world_is_stopped
  ack,          \* value of GC_suspend_ack_sem
  suspend,      \* threads with SIG_SUSPEND pending
  restart,      \* threads with SIG_THR_RESTART pending
  hpc,          \* where a thread is in GC_suspend_handler_inner
  myCount,      \* its my_stop_count
  pc,           \* where a thread is otherwise
  todo,         \* the threads the loop over GC_threads has still to visit
  nLive,        \* n_live_threads
  newlySent,    \* newly_sent
  lost          \* suspend signals lost so far

tableVars == <<table, finished, blocked>>
stackVars == <<sp, stackPtr>>
worldVars == <<stopCount, stopped>>
handlerVars == <<lastStop, hpc, myCount>>
loopVars == <<todo, nLive, newlySent>>
vars == <<retry, lock, tableVars, stackVars, worldVars, handlerVars, ack, suspend, restart,
          pc, loopVars, lost>>

Init ==
  /\ retry \in Retry
  /\ lock = Nil
  /\ table = {}
  /\ finished = {}
  /\ blocked = {}
  /\ \E d \in Depth : sp = [t \in Thread |-> d]
  /\ stackPtr = [t \in Thread |-> Base]
  /\ lastStop = [t \in Thread |-> 0]
  /\ stopCount = 0
  /\ stopped = FALSE
  /\ ack = 0
  /\ suspend = {}
  /\ restart = {}
  /\ hpc = [t \in Thread |-> "none"]
  /\ myCount = [t \in Thread |-> 0]
  /\ pc = [t \in Thread |-> "out"]
  /\ todo = {}
  /\ nLive = 0
  /\ newlySent = 0
  /\ lost = 0

-----------------------------------------------------------------------------
(* Threads.  What is done under the allocation lock alone is one step.     *)

\* The thread executes its own code, not the handler.
Runs(t) == hpc[t] = "none"

At(t, place) == Runs(t) /\ pc[t] = place

Goto(t, place) == pc' = [pc EXCEPT ![t] = place]

\* GC_register_my_thread and GC_inner_start_routine: a cleared entry, in which
\* only the bottom of the stack is known.
Register(t) ==
  /\ At(t, "out")
  /\ lock = Nil
  /\ t \notin table
  /\ table' = table \cup {t}
  /\ lastStop' = [lastStop EXCEPT ![t] = 0]
  /\ stackPtr' = [stackPtr EXCEPT ![t] = Base]
  /\ Goto(t, "run")
  /\ UNCHANGED <<retry, lock, finished, blocked, sp, worldVars, hpc, myCount, ack, suspend,
                 restart, loopVars, lost>>

\* The thread computes, which moves its stack pointer.
Run(t) ==
  /\ At(t, "run")
  /\ \E d \in Depth : sp' = [sp EXCEPT ![t] = d]
  /\ UNCHANGED <<retry, lock, tableVars, stackPtr, worldVars, handlerVars, ack, suspend,
                 restart, pc, loopVars, lost>>

BlockingBegin_NotSaved(t) ==
  /\ At(t, "run")
  /\ lock = Nil
  /\ blocked' = blocked \cup {t}
  /\ Goto(t, "blocked")
  /\ UNCHANGED <<retry, lock, table, finished, stackVars, worldVars, handlerVars, ack,
                 suspend, restart, loopVars, lost>>

\* GC_do_blocking_inner, before and after the client's function.
BlockingBegin(t) ==
  /\ At(t, "run")
  /\ lock = Nil
  /\ stackPtr' = [stackPtr EXCEPT ![t] = sp[t]]
  /\ blocked' = blocked \cup {t}
  /\ Goto(t, "blocked")
  /\ UNCHANGED <<retry, lock, table, finished, sp, worldVars, handlerVars, ack, suspend,
                 restart, loopVars, lost>>

BlockingEnd(t) ==
  /\ At(t, "blocked")
  /\ lock = Nil
  /\ blocked' = blocked \ {t}
  /\ Goto(t, "run")
  /\ UNCHANGED <<retry, lock, table, finished, stackVars, worldVars, handlerVars, ack,
                 suspend, restart, loopVars, lost>>

Unregister_Unlocked(t) ==
  /\ At(t, "run")
  /\ \/ table' = table \ {t} /\ UNCHANGED finished
     \/ finished' = finished \cup {t} /\ UNCHANGED table
  /\ Goto(t, "out")
  /\ UNCHANGED <<retry, lock, blocked, stackVars, worldVars, handlerVars, ack, suspend,
                 restart, loopVars, lost>>

\* GC_unregister_my_thread and the end of the thread; a thread that is not
\* detached leaves its entry to whoever joins it.
Unregister(t) ==
  /\ At(t, "run")
  /\ lock = Nil
  /\ \/ table' = table \ {t} /\ UNCHANGED finished
     \/ finished' = finished \cup {t} /\ UNCHANGED table
  /\ Goto(t, "out")
  /\ UNCHANGED <<retry, lock, blocked, stackVars, worldVars, handlerVars, ack, suspend,
                 restart, loopVars, lost>>

\* The wrapper of pthread_join, or pthread_detach of a finished thread.
DeleteThread(t) ==
  /\ t \in finished
  /\ lock = Nil
  /\ table' = table \ {t}
  /\ finished' = finished \ {t}
  /\ UNCHANGED <<retry, lock, blocked, stackVars, worldVars, handlerVars, ack, suspend,
                 restart, pc, loopVars, lost>>

-----------------------------------------------------------------------------
(* GC_suspend_handler_inner, which masks both signals. *)

Handle(t, place) == hpc' = [hpc EXCEPT ![t] = place]

\* The handler returns; a suspend signal that came meanwhile is delivered
\* before the thread goes on.
Return(t) == Handle(t, IF t \in suspend THEN "return" ELSE "none")

\* SIG_SUSPEND is delivered: the stop count is read and compared with the one
\* of the last stop, and the stack pointer saved.
SuspendHandler(t) ==
  /\ hpc[t] \in {"none", "return"}
  /\ t \in suspend
  /\ suspend' = suspend \ {t}
  /\ \/ /\ t \notin table
        /\ Handle(t, "fault")
        /\ UNCHANGED <<myCount, stackPtr>>
     \/ /\ t \in table
        /\ lastStop[t] = stopCount
        /\ Handle(t, "none")
        /\ UNCHANGED <<myCount, stackPtr>>
     \/ /\ t \in table
        /\ lastStop[t] # stopCount
        /\ myCount' = [myCount EXCEPT ![t] = stopCount]
        /\ stackPtr' = [stackPtr EXCEPT ![t] = sp[t]]
        /\ Handle(t, "post")
  /\ UNCHANGED <<retry, lock, tableVars, sp, worldVars, lastStop, ack, restart, pc, loopVars,
                 lost>>

PostAck(t) ==
  /\ hpc[t] = "post"
  /\ ack' = ack + 1
  /\ Handle(t, "store")
  /\ UNCHANGED <<retry, lock, tableVars, stackVars, worldVars, lastStop, myCount, suspend,
                 restart, pc, loopVars, lost>>

StoreCount(t) ==
  /\ hpc[t] = "store"
  /\ lastStop' = [lastStop EXCEPT ![t] = myCount[t]]
  /\ Handle(t, "sleep")
  /\ UNCHANGED <<retry, lock, tableVars, stackVars, worldVars, myCount, ack, suspend,
                 restart, pc, loopVars, lost>>

\* sigsuspend returns, after SIG_THR_RESTART or one of the signals that are
\* let through.
RestartHandler(t) ==
  /\ hpc[t] = "sleep"
  /\ t \in restart
  /\ restart' = restart \ {t}
  /\ Handle(t, "testStopped")
  /\ UNCHANGED <<retry, lock, tableVars, stackVars, worldVars, lastStop, myCount, ack,
                 suspend, pc, loopVars, lost>>

OtherSignal(t) ==
  /\ hpc[t] = "sleep"
  /\ Handle(t, "testStopped")
  /\ UNCHANGED <<retry, lock, tableVars, stackVars, worldVars, lastStop, myCount, ack,
                 suspend, restart, pc, loopVars, lost>>

\* The condition of the loop reads two variables one after the other.
TestStopped(t) ==
  /\ hpc[t] = "testStopped"
  /\ IF stopped THEN Handle(t, "testCount") ELSE Return(t)
  /\ UNCHANGED <<retry, lock, tableVars, stackVars, worldVars, lastStop, myCount, ack,
                 suspend, restart, pc, loopVars, lost>>

TestCount_AnyCount(t) ==
  /\ hpc[t] = "testCount"
  /\ Handle(t, "sleep")
  /\ UNCHANGED <<retry, lock, tableVars, stackVars, worldVars, lastStop, myCount, ack,
                 suspend, restart, pc, loopVars, lost>>

TestCount(t) ==
  /\ hpc[t] = "testCount"
  /\ IF stopCount = myCount[t] THEN Handle(t, "sleep") ELSE Return(t)
  /\ UNCHANGED <<retry, lock, tableVars, stackVars, worldVars, lastStop, myCount, ack,
                 suspend, restart, pc, loopVars, lost>>

\* SIG_THR_RESTART outside the suspend handler does nothing.
LateRestart(t) ==
  /\ hpc[t] = "none"
  /\ t \in restart
  /\ restart' = restart \ {t}
  /\ UNCHANGED <<retry, lock, tableVars, stackVars, worldVars, handlerVars, ack, suspend, pc,
                 loopVars, lost>>

-----------------------------------------------------------------------------
(* GC_stop_world and GC_start_world; t has the allocation lock. *)

\* The threads GC_suspend_all and GC_start_world deal with.
Others(t) == table \ (finished \cup blocked \cup {t})

\* pthread_kill(SIG_SUSPEND), which may lose the signal: what GC_retry_signals
\* is for.
SendSuspend(u) ==
  \/ suspend' = suspend \cup {u} /\ UNCHANGED lost
  \/ retry /\ lost < MaxLost /\ lost' = lost + 1 /\ UNCHANGED suspend

StopWorld(t) ==
  /\ At(t, "run")
  /\ lock = Nil
  /\ stopCount < MaxStops[retry]
  /\ lock' = t
  /\ Goto(t, "count")
  /\ UNCHANGED <<retry, tableVars, stackVars, worldVars, handlerVars, ack, suspend, restart,
                 loopVars, lost>>

IncrementCount(t) ==
  /\ At(t, "count")
  /\ stopCount' = stopCount + 1
  /\ Goto(t, "flag")
  /\ UNCHANGED <<retry, lock, tableVars, stackVars, stopped, handlerVars, ack, suspend,
                 restart, loopVars, lost>>

SetStopped(t) ==
  /\ At(t, "flag")
  /\ stopped' = TRUE
  /\ todo' = Others(t)
  /\ nLive' = 0
  /\ Goto(t, "suspend")
  /\ UNCHANGED <<retry, lock, tableVars, stackVars, stopCount, handlerVars, ack, suspend,
                 restart, newlySent, lost>>

SuspendOne_NotCounted(t, u) ==
  /\ At(t, "suspend")
  /\ u \in todo
  /\ todo' = todo \ {u}
  /\ IF lastStop[u] = stopCount THEN UNCHANGED <<suspend, lost>> ELSE SendSuspend(u)
  /\ UNCHANGED <<retry, lock, tableVars, stackVars, worldVars, handlerVars, ack, restart, pc,
                 nLive, newlySent>>

\* GC_suspend_all, one thread: no signal if it has stopped already.
SuspendOne(t, u) ==
  /\ At(t, "suspend")
  /\ u \in todo
  /\ todo' = todo \ {u}
  /\ IF lastStop[u] = stopCount
     THEN UNCHANGED <<suspend, nLive, lost>>
     ELSE SendSuspend(u) /\ nLive' = nLive + 1
  /\ UNCHANGED <<retry, lock, tableVars, stackVars, worldVars, handlerVars, ack, restart, pc,
                 newlySent>>

SuspendAll(t) ==
  /\ At(t, "suspend")
  /\ todo = {}
  /\ Goto(t, IF retry THEN "acks" ELSE "wait")
  /\ UNCHANGED <<retry, lock, tableVars, stackVars, worldVars, handlerVars, ack, suspend,
                 restart, loopVars, lost>>

\* The loop with GC_retry_signals: leave when the semaphore has the right
\* value, or send the missing signals again when RETRY_INTERVAL is over.
AcksComplete(t) ==
  /\ At(t, "acks")
  /\ ack = nLive
  /\ Goto(t, "wait")
  /\ UNCHANGED <<retry, lock, tableVars, stackVars, worldVars, handlerVars, ack, suspend,
                 restart, loopVars, lost>>

Timeout(t) ==
  /\ At(t, "acks")
  /\ ack # nLive
  /\ todo' = Others(t)
  /\ newlySent' = 0
  /\ Goto(t, "resend")
  /\ UNCHANGED <<retry, lock, tableVars, stackVars, worldVars, handlerVars, ack, suspend,
                 restart, nLive, lost>>

ResendOne_NotSent(t, u) ==
  /\ At(t, "resend")
  /\ u \in todo
  /\ todo' = todo \ {u}
  /\ newlySent' = IF lastStop[u] = stopCount THEN newlySent ELSE newlySent + 1
  /\ UNCHANGED <<retry, lock, tableVars, stackVars, worldVars, handlerVars, ack, suspend,
                 restart, pc, nLive, lost>>

ResendOne(t, u) ==
  /\ At(t, "resend")
  /\ u \in todo
  /\ todo' = todo \ {u}
  /\ IF lastStop[u] = stopCount
     THEN UNCHANGED <<suspend, newlySent, lost>>
     ELSE SendSuspend(u) /\ newlySent' = newlySent + 1
  /\ UNCHANGED <<retry, lock, tableVars, stackVars, worldVars, handlerVars, ack, restart, pc,
                 nLive>>

\* If some threads seem to have disappeared they are not waited for.
ResendAll(t) ==
  /\ At(t, "resend")
  /\ todo = {}
  /\ nLive' = IF newlySent + ack < nLive THEN ack + newlySent ELSE nLive
  /\ Goto(t, "acks")
  /\ UNCHANGED <<retry, lock, tableVars, stackVars, worldVars, handlerVars, ack, suspend,
                 restart, todo, newlySent, lost>>

\* sem_wait, n_live_threads times.
WaitAck(t) ==
  /\ At(t, "wait")
  /\ nLive > 0
  /\ ack > 0
  /\ ack' = ack - 1
  /\ nLive' = nLive - 1
  /\ UNCHANGED <<retry, lock, tableVars, stackVars, worldVars, handlerVars, suspend, restart,
                 pc, todo, newlySent, lost>>

WorldStopped_OneEarly(t) ==
  /\ At(t, "wait")
  /\ nLive <= 1
  /\ Goto(t, "stopped")
  /\ UNCHANGED <<retry, lock, tableVars, stackVars, worldVars, handlerVars, ack, suspend,
                 restart, loopVars, lost>>

WorldStopped(t) ==
  /\ At(t, "wait")
  /\ nLive = 0
  /\ Goto(t, "stopped")
  /\ UNCHANGED <<retry, lock, tableVars, stackVars, worldVars, handlerVars, ack, suspend,
                 restart, loopVars, lost>>

StartWorld(t) ==
  /\ At(t, "stopped")
  /\ stopped' = FALSE
  /\ todo' = Others(t)
  /\ Goto(t, "restart")
  /\ UNCHANGED <<retry, lock, tableVars, stackVars, stopCount, handlerVars, ack, suspend,
                 restart, nLive, newlySent, lost>>

RestartOne(t, u) ==
  /\ At(t, "restart")
  /\ u \in todo
  /\ todo' = todo \ {u}
  /\ restart' = restart \cup {u}
  /\ UNCHANGED <<retry, lock, tableVars, stackVars, worldVars, handlerVars, ack, suspend, pc,
                 nLive, newlySent, lost>>

WorldStarted(t) ==
  /\ At(t, "restart")
  /\ todo = {}
  /\ lock' = Nil
  /\ Goto(t, "run")
  /\ UNCHANGED <<retry, tableVars, stackVars, worldVars, handlerVars, ack, suspend, restart,
                 loopVars, lost>>

-----------------------------------------------------------------------------
Client(t) ==
  \/ Register(t) \/ Run(t) \/ BlockingBegin(t) \/ BlockingEnd(t) \/ Unregister(t)
  \/ DeleteThread(t) \/ StopWorld(t) \/ OtherSignal(t)

Handler(t) ==
  \/ PostAck(t) \/ StoreCount(t) \/ TestStopped(t) \/ TestCount(t)

Stopper(t) ==
  \/ IncrementCount(t) \/ SetStopped(t) \/ SuspendAll(t) \/ AcksComplete(t) \/ Timeout(t)
  \/ ResendAll(t) \/ WaitAck(t) \/ WorldStopped(t) \/ StartWorld(t) \/ WorldStarted(t)
  \/ \E u \in Thread : SuspendOne(t, u) \/ ResendOne(t, u) \/ RestartOne(t, u)

Next ==
  \E t \in Thread :
    Client(t) \/ Handler(t) \/ SuspendHandler(t) \/ RestartHandler(t) \/ LateRestart(t)
    \/ Stopper(t)

Spec == Init /\ [][Next]_vars

\* Pending signals are delivered, the handler and the lock holder run on.
FairSpec ==
  /\ Spec
  /\ \A t \in Thread :
       /\ WF_vars(Handler(t))
       /\ WF_vars(SuspendHandler(t))
       /\ WF_vars(RestartHandler(t))
       /\ WF_vars(Stopper(t))

-----------------------------------------------------------------------------
StopTypeOK ==
  /\ retry \in BOOLEAN
  /\ lock \in Thread \cup {Nil}
  /\ table \subseteq Thread
  /\ finished \subseteq Thread
  /\ blocked \subseteq Thread
  /\ sp \in [Thread -> Depth]
  /\ stackPtr \in [Thread -> Depth \cup {Base}]
  /\ lastStop \in [Thread -> Nat]
  /\ stopCount \in Nat
  /\ stopped \in BOOLEAN
  /\ ack \in Nat
  /\ suspend \subseteq Thread
  /\ restart \subseteq Thread
  /\ hpc \in [Thread -> {"none", "post", "store", "sleep", "testStopped", "testCount",
                         "return", "fault"}]
  /\ myCount \in [Thread -> Nat]
  /\ pc \in [Thread -> {"out", "run", "blocked", "count", "flag", "suspend", "acks",
                        "resend", "wait", "stopped", "restart"}]
  /\ todo \subseteq Thread
  /\ nLive \in Nat
  /\ newlySent \in Nat
  /\ lost \in Nat

\* Past sem_post in GC_suspend_handler_inner, for the present stop.
Acked(t) ==
  /\ hpc[t] \in {"store", "sleep", "testStopped", "testCount"}
  /\ myCount[t] = stopCount

\* The stacks GC_push_all_stacks scans besides that of t.
Scanned(t) == table \ (finished \cup {t})

\* From the return of GC_stop_world to GC_start_world every other registered
\* thread is in GC_do_blocking or in the suspend handler, and the stack pointer
\* GC_push_all_stacks finds for it is the one it has.
WorldIsStopped ==
  \A t \in Thread : pc[t] = "stopped" =>
    \A u \in Scanned(t) : (u \in blocked \/ Acked(u)) /\ stackPtr[u] = sp[u]

\* So it is without retries, however often the world is stopped (with them, see
\* ImplementsAbstractWorld).
StopsReliably == ~ retry => WorldIsStopped

\* The suspend handler finds its thread in GC_threads: a thread leaves the table
\* only when nobody is about to stop it.
HandlerFindsThread == \A t \in Thread : hpc[t] # "fault"

\* A thread that begins to stop the world succeeds, lost signals included if
\* they are retried.
StopCompletes == \A t \in Thread : pc[t] = "count" ~> pc[t] = "stopped"

\* A suspended thread goes on, although a restart signal may meet it before it
\* waits, after it has gone on, or in the handler of the next stop.
HandlerReturns == \A t \in Thread : hpc[t] # "none" ~> hpc[t] = "none"

-----------------------------------------------------------------------------
(* The inductive invariant behind StopsReliably and HandlerFindsThread. *)

InHandler == {"post", "store", "sleep", "testStopped", "testCount"}

Stopping == {"suspend", "wait"}

\* Threads that have yet to post GC_suspend_ack_sem.
Unacked == suspend \cup {u \in Thread : hpc[u] = "post"}

\* Those the stopper has not come to yet.
Unsent == {u \in todo : lock # Nil /\ pc[lock] = "suspend"}

\* Who has the lock, who is registered, and whose stack pointer is saved.
ThreadInv ==
  /\ \A t \in Thread :
       /\ (lock = t) = (pc[t] \notin {"out", "run", "blocked"})
       /\ pc[t] \notin {"acks", "resend"}
       /\ pc[t] = "blocked" <=> t \in blocked
       /\ pc[t] = "out" <=> t \notin table \ finished
       /\ hpc[t] # "fault"
       /\ hpc[t] # "none" => pc[t] = "run"
       /\ hpc[t] \in InHandler \/ t \in blocked => stackPtr[t] = sp[t]
  /\ finished \subseteq table
  /\ stopped <=> lock # Nil /\ pc[lock] \in {"suspend", "wait", "stopped"}

\* Stop counts of an earlier stop are not mistaken for the present one.
CountInv ==
  /\ \A t \in Thread : lastStop[t] <= stopCount /\ myCount[t] <= stopCount
  /\ \A t \in Thread : hpc[t] = "post" => myCount[t] = stopCount
  /\ lock # Nil /\ pc[lock] = "flag" =>
       \A t \in Thread : lastStop[t] < stopCount /\ myCount[t] < stopCount
  /\ \A t \in suspend \cup Unsent : lastStop[t] < stopCount /\ myCount[t] < stopCount

\* n_live_threads, the semaphore and the signals under way are in balance.
AckInv ==
  IF lock # Nil /\ pc[lock] \in Stopping
  THEN /\ nLive = ack + Cardinality(Unacked)
       /\ Unacked \subseteq Others(lock)
       /\ Unsent \subseteq Others(lock) \ Unacked
       /\ \A u \in Others(lock) \ (Unsent \cup Unacked) : Acked(u)
  ELSE /\ ack = 0
       /\ Unacked = {}
       /\ lock # Nil /\ pc[lock] = "stopped" => \A u \in Others(lock) : Acked(u)

\* Without retries, every signal is answered by one post, and every post is
\* waited for in the stop it belongs to.
StopInv ==
  /\ StopTypeOK
  /\ ~ retry => ThreadInv /\ CountInv /\ AckInv

-----------------------------------------------------------------------------
Stoppers == {t \in Thread : pc[t] = "stopped"}

StoppedBy == IF Stoppers = {} THEN Nil ELSE CHOOSE t \in Thread : t \in Stoppers

Seen == [u \in UNION {Scanned(t) : t \in Stoppers} |-> stackPtr[u]]

World == INSTANCE AbstractWorld WITH stopper <- StoppedBy, seen <- Seen

\* GC_stop_world and GC_start_world implement a world that stops at once, with
\* stacks that stay as they were saved.
ImplementsAbstractWorld == World!Spec

=============================================================================
