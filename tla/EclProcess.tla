----------------------------- MODULE EclProcess -----------------------------
(***************************************************************************)
(* The life of Lisp processes (threads.d): process objects, the threads    *)
(* that run them, their environments, the list of all processes, and the   *)
(* calls other processes make on them (enable, join, interrupt, quit).     *)
(*                                                                         *)
(* A process object is not its thread: mp_process_enable starts a thread,  *)
(* which allocates an environment, puts the process on the list,           *)
(* initializes the environment, takes the exit lock of the process, marks  *)
(* the process active and runs its function; thread_cleanup takes it all   *)
(* back.  A foreign thread enters the same life by                         *)
(* ecl_import_current_thread and leaves it by ecl_release_current_thread.  *)
(* Operations on the list are under the global lock, so each is one step.  *)
(***************************************************************************)
EXTENDS Naturals, FiniteSets, Sequences

CONSTANTS
    Proc,       \* process objects
    Imported,   \* those that stand for a foreign thread
    Thread,     \* threads; each runs once and has the environment it allocates
    User,       \* the processes that make calls
    Nil,
    Calls,      \* the calls they make: "enable", "join", "interrupt", "quit"
    Careful     \* the values careful starts with

ASSUME ProcessAssumption ==
    /\ Imported \subseteq Proc
    /\ Calls \subseteq {"enable", "join", "interrupt", "quit"}
    /\ Careful \subseteq BOOLEAN
    /\ Nil \notin Proc \cup Thread \cup User
    /\ IsFiniteSet(Thread)
    /\ User \cap (Proc \cup Thread) = {}

VARIABLES
    active,     \* process.active: 0, 1, or 2 while a thread is imported
    env,        \* process.env: the thread that allocated it, or NULL
    exitLock,   \* process.exit_lock: holder, count, and who has the mutex
    processes,  \* cl_core.processes
    proc,       \* the process a thread runs
    pc,         \* where a thread is
    mem,        \* its environment: none, raw, ready or freed
    dis,        \* disable_interrupts in that environment
    pending,    \* whether an exit-process interrupt is pending there
    usr,        \* the call a user is in
    careful     \* TRUE: a process is enabled only when no thread runs it

procVars == <<active, env, exitLock, processes>>
threadVars == <<proc, pc, mem, dis, pending>>
vars == <<procVars, threadVars, usr, careful>>

Created == Proc \ Imported

Idle == [at |-> "idle", p |-> Nil, all |-> <<>>, rest |-> <<>>,
         exits |-> {}]

NoLock == [holder |-> Nil, count |-> 0, mutex |-> Nil]

(* mp_make_process: alloc_process.                                         *)
ProcessInit ==
    /\ active = [p \in Proc |-> 0]
    /\ env = [p \in Proc |-> Nil]
    /\ exitLock = [p \in Proc |-> NoLock]
    /\ processes = <<>>
    /\ proc = [t \in Thread |-> Nil]
    /\ pc = [t \in Thread |-> "unborn"]
    /\ mem = [t \in Thread |-> "none"]
    /\ dis = [t \in Thread |-> 0]
    /\ pending = [t \in Thread |-> FALSE]
    /\ usr = [u \in User |-> Idle]
    /\ careful \in Careful

(* ecl_remove_eq: a copy of the list l without x.                          *)
ecl_remove_eq(x, l) ==
    LET copied[n \in 0 .. Len(l)] ==
            IF n = 0 THEN <<>>
            ELSE IF l[n] = x THEN copied[n - 1] ELSE Append(copied[n - 1], l[n])
    IN  copied[Len(l)]

Contains(list, e) == \E i \in 1 .. Len(list) : list[i] = e
Listed(p) == Contains(processes, p)
Alive(t) == pc[t] \notin {"unborn", "dead"}
RunBy(p) == {t \in Thread : proc[t] = p /\ Alive(t)}

Goto(t, place) == pc' = [pc EXCEPT ![t] = place]

(* mp_get_lock on an exit lock by a thread (or a user): a holder that is   *)
(* the caller's own process only counts up, everybody else waits for the   *)
(* mutex.                                                                  *)
GetExitLock(p, me, self) ==
    \/ /\ exitLock[p].holder = me
       /\ exitLock' = [exitLock EXCEPT ![p].count = @ + 1]
    \/ /\ exitLock[p].holder # me /\ exitLock[p].mutex = Nil
       /\ exitLock' = [exitLock EXCEPT ![p] =
                        [holder |-> me, count |-> 1, mutex |-> self]]

(* mp_giveup_lock: the mutex opens only for the thread that locked it.     *)
GiveupExitLock(p, self) ==
    LET lock == exitLock[p] IN
    exitLock' = [exitLock EXCEPT ![p] =
        IF lock.count > 1 THEN [lock EXCEPT !.count = @ - 1]
        ELSE [holder |-> Nil, count |-> 0,
              mutex |-> IF lock.mutex = self THEN Nil ELSE lock.mutex]]

-----------------------------------------------------------------------------
(* thread_entry_point, and ecl_import_current_thread for a foreign thread. *)
ImportThread(t, p) ==
    /\ p \in Imported /\ RunBy(p) = {}
    /\ pc[t] = "unborn"
    /\ proc' = [proc EXCEPT ![t] = p]
    /\ Goto(t, "start")
    /\ UNCHANGED <<procVars, mem, dis, pending, usr>>

(* _ecl_alloc_env: the new environment has its interrupts disabled.        *)
AllocEnv(t) ==
    LET p == proc[t] IN
    /\ pc[t] = "start"
    /\ env' = [env EXCEPT ![p] = t]
    /\ mem' = [mem EXCEPT ![t] = "raw"]
    /\ dis' = [dis EXCEPT ![t] = 1]
    /\ active' = IF p \in Imported THEN [active EXCEPT ![p] = 2] ELSE active
    /\ Goto(t, "push")
    /\ UNCHANGED <<exitLock, processes, proc, pending, usr>>

(* CONS(process, cl_core.processes): allocating the cons disables and then *)
(* enables interrupts.                                                     *)
PushProcess(t) ==
    /\ pc[t] = "push"
    /\ processes' = <<proc[t]>> \o processes
    /\ dis' = [dis EXCEPT ![t] = 0]
    /\ Goto(t, "init")
    /\ UNCHANGED <<active, env, exitLock, proc, mem, pending, usr>>

(* ecl_init_env sets pending_interrupt to NIL.                             *)
InitEnv(t) ==
    /\ pc[t] = "init"
    /\ mem' = [mem EXCEPT ![t] = "ready"]
    /\ pending' = [pending EXCEPT ![t] = FALSE]
    /\ Goto(t, "lock")
    /\ UNCHANGED <<procVars, proc, dis, usr>>

(* Mutant: the thread does not take the exit lock.                         *)
TakeExitLock_Skips(t) ==
    /\ pc[t] = "lock"
    /\ Goto(t, "activate")
    /\ UNCHANGED <<procVars, proc, mem, dis, pending, usr>>

TakeExitLock(t) ==
    /\ pc[t] = "lock"
    /\ GetExitLock(proc[t], proc[t], t)
    /\ Goto(t, "activate")
    /\ UNCHANGED <<active, env, processes, proc, mem, dis, pending, usr>>

(* Mutant: active is counted up instead of set.                            *)
Activate_Increments(t) ==
    /\ pc[t] = "activate"
    /\ active' = [active EXCEPT ![proc[t]] = @ + 1]
    /\ Goto(t, IF proc[t] \in Imported THEN "run" ELSE "catch")
    /\ UNCHANGED <<env, exitLock, processes, proc, mem, dis, pending, usr>>

(* process.active = 1.  A created thread has still to set up the frame     *)
(* that its exit unwinds to.                                               *)
Activate(t) ==
    /\ pc[t] = "activate"
    /\ active' = [active EXCEPT ![proc[t]] = 1]
    /\ Goto(t, IF proc[t] \in Imported THEN "run" ELSE "catch")
    /\ UNCHANGED <<env, exitLock, processes, proc, mem, dis, pending, usr>>

CatchAllBegin(t) ==
    /\ pc[t] = "catch"
    /\ Goto(t, "run")
    /\ UNCHANGED <<procVars, proc, mem, dis, pending, usr>>

(* The function of the process returns.                                    *)
Finish(t) ==
    /\ pc[t] = "run"
    /\ Goto(t, "inactive")
    /\ UNCHANGED <<procVars, proc, mem, dis, pending, usr>>

(* mp_exit_process, run by an interrupt that was sent to the process,      *)
(* unwinds to the outermost frame.  Before CL_CATCH_ALL_BEGIN and after    *)
(* CL_CATCH_ALL_END there is no such frame.                                *)
ExitProcess(t) ==
    /\ Alive(t) /\ pc[t] # "wild"
    /\ pending[t] /\ dis[t] = 0 /\ mem[t] # "freed"
    /\ pending' = [pending EXCEPT ![t] = FALSE]
    /\ Goto(t, IF pc[t] = "run" THEN "inactive" ELSE "wild")
    /\ UNCHANGED <<procVars, proc, mem, dis, usr>>

-----------------------------------------------------------------------------
(* Mutants: thread_cleanup without one of its steps.                       *)
LeaveExitLock_Missing(t) ==
    /\ pc[t] = "giveup"
    /\ Goto(t, "remove")
    /\ UNCHANGED <<procVars, proc, mem, dis, pending, usr>>

RemoveProcess_Missing(t) ==
    /\ pc[t] = "remove"
    /\ Goto(t, "dealloc")
    /\ UNCHANGED <<procVars, proc, mem, dis, pending, usr>>

DeallocEnv_Leaks(t) ==
    /\ pc[t] = "dealloc"
    /\ env' = [env EXCEPT ![proc[t]] = Nil]
    /\ Goto(t, "dead")
    /\ UNCHANGED <<active, exitLock, processes, proc, mem, dis, pending, usr>>

(* thread_cleanup.                                                         *)
Deactivate(t) ==
    /\ pc[t] = "inactive"
    /\ active' = [active EXCEPT ![proc[t]] = 0]
    /\ Goto(t, "giveup")
    /\ UNCHANGED <<env, exitLock, processes, proc, mem, dis, pending, usr>>

LeaveExitLock(t) ==
    /\ pc[t] = "giveup"
    /\ GiveupExitLock(proc[t], t)
    /\ Goto(t, "remove")
    /\ UNCHANGED <<active, env, processes, proc, mem, dis, pending, usr>>

RemoveProcess(t) ==
    /\ pc[t] = "remove"
    /\ processes' = ecl_remove_eq(proc[t], processes)
    /\ Goto(t, "dealloc")
    /\ UNCHANGED <<active, env, exitLock, proc, mem, dis, pending, usr>>

(* What is pending in the environment goes with it.                        *)
DeallocEnv(t) ==
    LET e == env[proc[t]] IN
    /\ pc[t] = "dealloc"
    /\ mem' = IF e = Nil THEN mem ELSE [mem EXCEPT ![e] = "freed"]
    /\ pending' = IF e = Nil THEN pending ELSE [pending EXCEPT ![e] = FALSE]
    /\ env' = [env EXCEPT ![proc[t]] = Nil]
    /\ Goto(t, "dead")
    /\ UNCHANGED <<active, exitLock, processes, proc, dis, usr>>

-----------------------------------------------------------------------------
(* The calls.  A user knows the processes it made and those on the list.   *)
UGoto(u, place) == usr' = [usr EXCEPT ![u].at = place]
Return(u) == usr' = [usr EXCEPT ![u] = Idle]
BackToQuit(u, place) == usr' = [usr EXCEPT ![u].at = place, ![u].p = Nil]

Calling(u, call, p) ==
    /\ call \in Calls
    /\ usr[u].at = "idle"
    /\ p \in Created \/ Listed(p)

(* mp_process_enable: an active process is an error.                       *)
ProcessEnable(u, p) ==
    /\ Calling(u, "enable", p) /\ p \in Created
    /\ active[p] = 0
    /\ careful => /\ RunBy(p) = {}
                  /\ \A v \in User : usr[v].at = "create" => usr[v].p # p
    /\ usr' = [usr EXCEPT ![u] = [Idle EXCEPT !.at = "create", !.p = p]]
    /\ UNCHANGED <<procVars, threadVars>>

(* pthread_create, which may fail.                                         *)
CreateThread(u) ==
    /\ usr[u].at = "create"
    /\ \/ UNCHANGED <<proc, pc>>
       \/ \E t \in Thread :
            /\ pc[t] = "unborn"
            /\ proc' = [proc EXCEPT ![t] = usr[u].p]
            /\ Goto(t, "start")
    /\ Return(u)
    /\ UNCHANGED <<procVars, mem, dis, pending>>

(* The threads of a process that have its exit lock.                       *)
WithExitLock == {"activate", "catch", "run", "inactive", "giveup"}
Exiting(p) == {t \in RunBy(p) : pc[t] \in WithExitLock}

(* mp_process_join: if active is 1 the call returns at once.               *)
ProcessJoin(u, p) ==
    /\ Calling(u, "join", p)
    /\ usr' = [usr EXCEPT ![u] =
                [Idle EXCEPT !.at = IF active[p] # 1 THEN "wait" ELSE "joined",
                             !.p = p, !.exits = Exiting(p)]]
    /\ UNCHANGED <<procVars, threadVars>>

(* Mutants: the join does not wait; it keeps the lock.                     *)
JoinLock_NoWait(u) ==
    /\ usr[u].at = "wait"
    /\ UGoto(u, "waited")
    /\ UNCHANGED <<procVars, threadVars>>

JoinUnlock_Missing(u) ==
    /\ usr[u].at = "release"
    /\ IF usr[u].rest = <<>> THEN UGoto(u, "waited") ELSE BackToQuit(u, "quitJoin")
    /\ UNCHANGED <<procVars, threadVars>>

JoinLock(u) ==
    /\ usr[u].at = "wait"
    /\ GetExitLock(usr[u].p, u, u)
    /\ UGoto(u, "release")
    /\ UNCHANGED <<active, env, processes, threadVars>>

JoinUnlock(u) ==
    /\ usr[u].at = "release"
    /\ GiveupExitLock(usr[u].p, u)
    /\ IF usr[u].rest = <<>> THEN UGoto(u, "waited") ELSE BackToQuit(u, "quitJoin")
    /\ UNCHANGED <<active, env, processes, threadVars>>

JoinReturn(u) ==
    /\ usr[u].at \in {"joined", "waited"}
    /\ Return(u)
    /\ UNCHANGED <<procVars, threadVars>>

(* mp_interrupt_process with mp::exit-process, that is mp_process_kill.    *)
InterruptProcess(u, p) ==
    /\ Calling(u, "interrupt", p)
    /\ active[p] # 0
    /\ usr' = [usr EXCEPT ![u] = [Idle EXCEPT !.at = "queue", !.p = p]]
    /\ UNCHANGED <<procVars, threadVars>>

(* ecl_interrupt_process stores into process.env, whatever that is now.    *)
QueueInterrupt(u) ==
    LET e == env[usr[u].p] IN
    /\ usr[u].at = "queue"
    /\ IF e = Nil \/ mem[e] = "freed"
       THEN /\ usr' = [usr EXCEPT ![u] = [Idle EXCEPT !.at = "segv"]]
            /\ UNCHANGED pending
       ELSE /\ pending' = [pending EXCEPT ![e] = TRUE]
            /\ IF usr[u].rest = <<>> THEN Return(u) ELSE BackToQuit(u, "quitKill")
    /\ UNCHANGED <<procVars, proc, pc, mem, dis>>

(* ext:quit kills every active process on the list, then joins those of    *)
(* the same list that are still active, and leaves.  rest holds the ones   *)
(* still to do, with NIL at the end.                                       *)
Quit(u) ==
    /\ "quit" \in Calls
    /\ usr[u].at = "idle"
    /\ usr' = [usr EXCEPT ![u] = [Idle EXCEPT !.at = "quitKill", !.all = processes,
                                              !.rest = Append(processes, Nil)]]
    /\ UNCHANGED <<procVars, threadVars>>

NextInQuit(u, place) ==
    LET r == usr[u] IN
    usr' = [usr EXCEPT ![u] = [r EXCEPT !.at = place, !.p = Head(r.rest),
                                        !.rest = Tail(r.rest)]]
SkipInQuit(u) == usr' = [usr EXCEPT ![u].rest = Tail(@)]

QuitKill(u) ==
    LET p == Head(usr[u].rest) IN
    /\ usr[u].at = "quitKill"
    /\ IF p = Nil
       THEN usr' = [usr EXCEPT ![u] = [usr[u] EXCEPT !.at = "quitJoin",
                                                     !.rest = Append(usr[u].all, Nil)]]
       ELSE IF active[p] # 0 THEN NextInQuit(u, "killCheck") ELSE SkipInQuit(u)
    /\ UNCHANGED <<procVars, threadVars>>

(* mp_interrupt_process looks again; the error takes quit with it.         *)
QuitKillCheck(u) ==
    /\ usr[u].at = "killCheck"
    /\ IF active[usr[u].p] # 0 THEN UGoto(u, "queue") ELSE Return(u)
    /\ UNCHANGED <<procVars, threadVars>>

QuitJoin(u) ==
    LET p == Head(usr[u].rest) IN
    /\ usr[u].at = "quitJoin"
    /\ IF p = Nil
       THEN usr' = [usr EXCEPT ![u] = [Idle EXCEPT !.at = "left"]]
       ELSE IF active[p] # 0 THEN NextInQuit(u, "joinCheck") ELSE SkipInQuit(u)
    /\ UNCHANGED <<procVars, threadVars>>

QuitJoinCheck(u) ==
    /\ usr[u].at = "joinCheck"
    /\ IF active[usr[u].p] # 1 THEN UGoto(u, "wait") ELSE BackToQuit(u, "quitJoin")
    /\ UNCHANGED <<procVars, threadVars>>

-----------------------------------------------------------------------------
ThreadStep(t) ==
    \/ AllocEnv(t) \/ PushProcess(t) \/ InitEnv(t) \/ TakeExitLock(t)
    \/ Activate(t) \/ CatchAllBegin(t) \/ Finish(t) \/ ExitProcess(t)
    \/ Deactivate(t) \/ LeaveExitLock(t) \/ RemoveProcess(t) \/ DeallocEnv(t)

JoinStep(u) == JoinLock(u) \/ JoinUnlock(u) \/ JoinReturn(u)

UserStep(u) ==
    \/ CreateThread(u) \/ QueueInterrupt(u) \/ JoinStep(u)
    \/ QuitKill(u) \/ QuitKillCheck(u) \/ QuitJoin(u) \/ QuitJoinCheck(u)

Call(u) ==
    \/ Quit(u)
    \/ \E p \in Proc : ProcessEnable(u, p) \/ ProcessJoin(u, p)
                       \/ InterruptProcess(u, p)

ProcessNext ==
    /\ \/ \E t \in Thread, p \in Proc : ImportThread(t, p)
       \/ \E t \in Thread : ThreadStep(t)
       \/ \E u \in User : Call(u) \/ UserStep(u)
    /\ UNCHANGED careful

ProcessSpec == ProcessInit /\ [][ProcessNext]_vars

Fixed(A) == A /\ UNCHANGED careful

(* Every thread is scheduled, the functions of the processes terminate,    *)
(* and a mutex that is free again and again is obtained.                   *)
FairProcessSpec ==
    /\ ProcessSpec
    /\ \A t \in Thread : WF_vars(Fixed(ThreadStep(t))) /\ SF_vars(Fixed(TakeExitLock(t)))
    /\ \A u \in User : WF_vars(Fixed(UserStep(u))) /\ SF_vars(Fixed(JoinLock(u)))

-----------------------------------------------------------------------------
Places ==
    {"unborn", "start", "push", "init", "lock", "remove", "dealloc", "dead", "wild"}
    \cup WithExitLock

(* The fields have their types.  A user that is at work on a process knows *)
(* it, and a list that quit works off ends with NIL.                       *)
ProcessTypeOK ==
    /\ active \in [Proc -> 0 .. 2]
    /\ env \in [Proc -> Thread \cup {Nil}]
    /\ exitLock \in [Proc -> [holder : Proc \cup User \cup {Nil}, count : Nat,
                              mutex : Thread \cup User \cup {Nil}]]
    /\ processes \in Seq(Proc)
    /\ proc \in [Thread -> Proc \cup {Nil}]
    /\ pc \in [Thread -> Places]
    /\ mem \in [Thread -> {"none", "raw", "ready", "freed"}]
    /\ dis \in [Thread -> {0, 1}]
    /\ pending \in [Thread -> BOOLEAN]
    /\ usr \in [User -> [at : {"idle", "create", "wait", "release", "waited", "joined", "queue",
                               "quitKill", "killCheck", "quitJoin", "joinCheck", "left", "segv"},
                         p : Proc \cup {Nil}, all : Seq(Proc), rest : Seq(Proc \cup {Nil}),
                         exits : SUBSET Thread]]
    /\ careful \in BOOLEAN
    /\ \A t \in Thread : pc[t] # "unborn" => proc[t] \in Proc
    /\ \A u \in User :
          /\ usr[u].at \in {"create", "wait", "release", "queue", "killCheck", "joinCheck"} =>
                usr[u].p \in Proc
          /\ usr[u].at \in {"quitKill", "killCheck", "quitJoin", "joinCheck"} =>
                usr[u].rest # <<>>
          /\ usr[u].rest # <<>> => usr[u].rest[Len(usr[u].rest)] = Nil /\ usr[u].exits = {}

(* An exit lock belongs to its process, which counts at least the threads  *)
(* past mp_get_lock, or to a user that is about to give it up again.       *)
ExitLockOK(p) ==
    LET lock == exitLock[p] IN
    /\ lock.holder = Nil => lock.count = 0 /\ lock.mutex \notin User
    /\ lock.holder \in Proc => lock.holder = p /\ lock.count >= 1 /\ lock.mutex \in Thread
    /\ lock.holder \in User =>
          /\ lock.count = 1 /\ lock.mutex = lock.holder
          /\ usr[lock.holder].at = "release" /\ usr[lock.holder].p = p
    /\ Cardinality(Exiting(p)) <= IF lock.holder = p THEN lock.count ELSE 0

(* What a user waits for: threads of its process that were past            *)
(* mp_get_lock when it asked.  Once it has the lock they have left.        *)
Leaving == {"remove", "dealloc", "dead", "wild"}

WaitOK(u) ==
    /\ usr[u].at = "release" => exitLock[usr[u].p].holder = u
    /\ usr[u].at = "wait" => \A t \in usr[u].exits :
          proc[t] = usr[u].p /\ pc[t] \in WithExitLock \cup Leaving
    /\ usr[u].at \in {"release", "waited"} => \A t \in usr[u].exits : pc[t] \in Leaving

(* What the only thread of a process has set up, when it is at each place. *)
ThreadOK(t) ==
    LET p == proc[t]
        lock == exitLock[p]
    IN  /\ pc[t] \in {"unborn", "start"} => ~pending[t]
        /\ pc[t] = "push" => dis[t] = 1
        /\ Alive(t) => env[p] = IF pc[t] = "start" THEN Nil ELSE t
        /\ pc[t] \in {"push", "init"} => mem[t] = "raw"
        /\ pc[t] \in {"lock", "remove", "dealloc"} \cup WithExitLock => mem[t] = "ready"
        /\ pc[t] = "wild" => mem[t] \in {"raw", "ready"}
        /\ pc[t] \in {"init", "lock", "remove"} \cup WithExitLock => Listed(p)
        /\ pc[t] \in {"start", "push", "dealloc"} => ~Listed(p)
        /\ pc[t] \in {"catch", "run", "inactive"} => active[p] = 1
        /\ pc[t] \in {"start", "push", "init", "lock", "activate"} => active[p] # 1
        /\ pc[t] \in {"giveup", "remove", "dealloc"} => active[p] = 0
        /\ pc[t] \in WithExitLock => lock.holder = p /\ lock.count = 1
        /\ pc[t] \in {"start", "push", "init", "lock", "remove", "dealloc"} => lock.holder # p
        /\ pc[t] = "wild" /\ active[p] = 1 => Listed(p) /\ lock.holder = p /\ lock.count = 1

(* If processes are enabled only when nothing runs them, each has at most  *)
(* one thread, or else somebody about to create it, or else nothing.       *)
SingleOK ==
    /\ \A s, t \in Thread : Alive(s) /\ Alive(t) /\ proc[s] = proc[t] => s = t
    /\ \A t \in Thread : ThreadOK(t)
    /\ \A u \in User : usr[u].at = "create" =>
          /\ usr[u].p \in Created /\ RunBy(usr[u].p) = {}
          /\ \A v \in User : usr[v].at = "create" /\ usr[v].p = usr[u].p => v = u
    /\ \A p \in Proc : RunBy(p) = {} =>
          env[p] = Nil /\ ~Listed(p) /\ active[p] = 0 /\ exitLock[p].holder # p

(* The inductive invariant.                                                *)
ProcessInv ==
    /\ ProcessTypeOK
    /\ \A p \in Proc : ExitLockOK(p)
    /\ \A u \in User : WaitOK(u)
    /\ careful => SingleOK

(* Whoever walks the list of processes under the global lock may use their *)
(* environments (si_clear_gfun_hash does): each is allocated and not freed *)
(* yet.                                                                    *)
ListedHasEnv ==
    careful => \A p \in Proc : Listed(p) => env[p] # Nil /\ mem[env[p]] \in {"raw", "ready"}

(* An active process is on the list, where quit finds it, and has its exit *)
(* lock, from before it is active until after it has stopped being so: a   *)
(* join that waits for the lock waits for the end of the process.          *)
ActiveIsSetUp ==
    careful => \A p \in Proc : active[p] = 1 =>
        Listed(p) /\ exitLock[p].holder = p /\ exitLock[p].count = 1

(* A join that waited returns after the threads it waited for have left.   *)
WaitedForExit ==
    \A u \in User : usr[u].at = "waited" => \A t \in usr[u].exits : pc[t] \in Leaving

(* A user that is in no call has no exit lock left, so nobody is kept from *)
(* starting or leaving.                                                    *)
JoinLeavesNoLock ==
    \A u \in User, p \in Proc :
        usr[u].at \in {"idle", "joined", "waited", "left"} => exitLock[p].mutex # u

(* A join returns (mp_process_join, thread_cleanup), if the functions do.   *)
JoinReturns == \A u \in User : (usr[u].at = "wait") ~> (usr[u].at = "idle")

(* A thread that started ends, and its environment is freed.               *)
EnvsFreed == \A t \in Thread : (mem[t] = "raw") ~> (mem[t] = "freed")
=============================================================================
