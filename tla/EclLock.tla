------------------------------- MODULE EclLock -------------------------------
(***************************************************************************)
(* The lock objects of ECL (threads_mutex.d) and the condition variables   *)
(* that work on them (threads.d).                                          *)
(*                                                                         *)
(* An ECL lock is a pthread mutex of the recursive kind with two fields of *)
(* its own, holder and counter, which the code reads and writes without    *)
(* any further protection.  Every assignment to one of the fields and      *)
(* every pthread call is one step here, so that other processes (and, in   *)
(* EclWithLock, interrupt handlers) can run between any two of them.       *)
(*                                                                         *)
(* The clients are the most general ones: each process may call any        *)
(* operation on any lock at any time.  An operation that signals a Lisp    *)
(* error changes nothing.                                                  *)
(***************************************************************************)
EXTENDS Integers

CONSTANTS
    Process,    \* the Lisp processes (threads)
    Lock,       \* the lock objects
    Recursive,  \* the locks made with :recursive t
    CV,         \* the condition variables
    Nil,        \* Cnil: no holder, no argument
    MaxCount    \* bound on the nesting of one recursive lock

ASSUME LockAssumption ==
    /\ Recursive \subseteq Lock
    /\ Nil \notin Process \cup Lock \cup CV
    /\ MaxCount \in Nat \ {0}

VARIABLES
    owner,      \* the thread that has the pthread mutex of the lock
    depth,      \* how often that thread has locked the mutex
    holder,     \* lock.holder
    counter,    \* lock.counter
    pc,         \* where in an operation a process is
    arg,        \* the lock it operates on
    cv          \* the condition variable it waits on

mutexVars == <<owner, depth>>
fieldVars == <<holder, counter>>
callVars  == <<pc, arg, cv>>
lockVars  == <<owner, depth, holder, counter, pc, arg, cv>>

PC == {"idle", "trylock", "lock", "count", "hold", "clear", "unlock",
       "cvCount", "cvHolder", "cvWait", "cvBlocked", "cvWoken", "cvHold",
       "cvSet"}

(* ecl_make_lock: the mutex is free, the fields say so.                    *)
LockInit ==
    /\ owner   = [l \in Lock |-> Nil]
    /\ depth   = [l \in Lock |-> 0]
    /\ holder  = [l \in Lock |-> Nil]
    /\ counter = [l \in Lock |-> 0]
    /\ pc      = [p \in Process |-> "idle"]
    /\ arg     = [p \in Process |-> Nil]
    /\ cv      = [p \in Process |-> Nil]

Goto(p, label) == pc' = [pc EXCEPT ![p] = label]

Call(p, label, l) ==
    /\ Goto(p, label)
    /\ arg' = [arg EXCEPT ![p] = l]
    /\ UNCHANGED cv

Return(p) ==
    /\ Goto(p, "idle")
    /\ arg' = [arg EXCEPT ![p] = Nil]
    /\ cv' = [cv EXCEPT ![p] = Nil]

-----------------------------------------------------------------------------
(* pthread_mutex_lock of a recursive mutex: it succeeds when the mutex is  *)
(* free or already belongs to the thread.                                  *)
CanLock(p, l) == owner[l] \in {Nil, p}

PthreadLock(p, l) ==
    /\ CanLock(p, l)
    /\ owner' = [owner EXCEPT ![l] = p]
    /\ depth' = [depth EXCEPT ![l] = @ + 1]

(* pthread_mutex_unlock: an error, which the callers ignore, unless the    *)
(* thread owns the mutex.                                                  *)
PthreadUnlock(p, l) ==
    IF owner[l] = p
    THEN /\ owner' = [owner EXCEPT ![l] = IF depth[l] = 1 THEN Nil ELSE p]
         /\ depth' = [depth EXCEPT ![l] = @ - 1]
    ELSE UNCHANGED mutexVars

-----------------------------------------------------------------------------
(* mp_get_lock_wait and mp_get_lock_nowait, when the caller is already the *)
(* holder: one more level of a recursive lock.  For a non-recursive lock   *)
(* FEerror_not_a_recursive_lock signals an error and nothing changes.      *)
GetLockAgain(p, l) ==
    /\ pc[p] = "idle"
    /\ holder[l] = p
    /\ l \in Recursive
    /\ counter[l] < MaxCount
    /\ counter' = [counter EXCEPT ![l] = @ + 1]
    /\ UNCHANGED <<mutexVars, holder, callVars>>

(* mp_get_lock_wait by another process: on its way to pthread_mutex_lock.  *)
GetLockWait(p, l) ==
    /\ pc[p] = "idle"
    /\ holder[l] # p
    /\ Call(p, "lock", l)
    /\ UNCHANGED <<mutexVars, fieldVars>>

GetLockNowait(p, l) ==
    /\ pc[p] = "idle"
    /\ holder[l] # p
    /\ Call(p, "trylock", l)
    /\ UNCHANGED <<mutexVars, fieldVars>>

MutexLock(p) ==
    /\ pc[p] = "lock"
    /\ PthreadLock(p, arg[p])
    /\ Goto(p, "count")
    /\ UNCHANGED <<fieldVars, arg, cv>>

(* pthread_mutex_trylock: EBUSY makes the call return NIL.                 *)
MutexTrylock(p) ==
    /\ pc[p] = "trylock"
    /\ \/ /\ PthreadLock(p, arg[p])
          /\ Goto(p, "count")
          /\ UNCHANGED <<fieldVars, arg, cv>>
       \/ /\ ~CanLock(p, arg[p])
          /\ Return(p)
          /\ UNCHANGED <<mutexVars, fieldVars>>

(* lock.counter++ and then lock.holder = own_process, with the mutex held. *)
CountUp(p) ==
    /\ pc[p] = "count"
    /\ counter' = [counter EXCEPT ![arg[p]] = @ + 1]
    /\ Goto(p, "hold")
    /\ UNCHANGED <<mutexVars, holder, arg, cv>>

SetHolder(p) ==
    /\ pc[p] = "hold"
    /\ holder' = [holder EXCEPT ![arg[p]] = p]
    /\ Return(p)
    /\ UNCHANGED <<mutexVars, counter>>

(* mp_giveup_lock: only for the holder (FEerror_not_owned otherwise).      *)
GiveupLock(p, l) ==
    /\ pc[p] = "idle"
    /\ holder[l] = p
    /\ counter' = [counter EXCEPT ![l] = @ - 1]
    /\ IF counter[l] = 1 THEN Call(p, "clear", l) ELSE UNCHANGED callVars
    /\ UNCHANGED <<mutexVars, holder>>

(* Mutant: lock.holder is not reset.                                       *)
ClearHolder_Missing(p) ==
    /\ pc[p] = "clear"
    /\ Goto(p, "unlock")
    /\ UNCHANGED <<mutexVars, fieldVars, arg, cv>>

ClearHolder(p) ==
    /\ pc[p] = "clear"
    /\ holder' = [holder EXCEPT ![arg[p]] = Nil]
    /\ Goto(p, "unlock")
    /\ UNCHANGED <<mutexVars, counter, arg, cv>>

(* Mutant: the mutex is not unlocked.                                      *)
MutexUnlock_Missing(p) ==
    /\ pc[p] = "unlock"
    /\ Return(p)
    /\ UNCHANGED <<mutexVars, fieldVars>>

MutexUnlock(p) ==
    /\ pc[p] = "unlock"
    /\ PthreadUnlock(p, arg[p])
    /\ Return(p)
    /\ UNCHANGED fieldVars

-----------------------------------------------------------------------------
(* Mutant: a lock taken more than once is not refused.                     *)
CondWait_Nested(p, c, l) ==
    /\ pc[p] = "idle"
    /\ holder[l] = p
    /\ Goto(p, "cvCount")
    /\ arg' = [arg EXCEPT ![p] = l]
    /\ cv' = [cv EXCEPT ![p] = c]
    /\ UNCHANGED <<mutexVars, fieldVars>>

(* mp_condition_variable_wait and mp_condition_variable_timedwait: both    *)
(* refuse a lock that the caller does not hold, or holds more than once.   *)
CondWait(p, c, l) ==
    /\ pc[p] = "idle"
    /\ holder[l] = p
    /\ counter[l] <= 1
    /\ Goto(p, "cvCount")
    /\ arg' = [arg EXCEPT ![p] = l]
    /\ cv' = [cv EXCEPT ![p] = c]
    /\ UNCHANGED <<mutexVars, fieldVars>>

(* Mutant: lock.counter is not reset.                                      *)
CondClearCount_Missing(p) ==
    /\ pc[p] = "cvCount"
    /\ Goto(p, "cvHolder")
    /\ UNCHANGED <<mutexVars, fieldVars, arg, cv>>

(* The fields are marked as released before the mutex is.                  *)
CondClearCount(p) ==
    /\ pc[p] = "cvCount"
    /\ counter' = [counter EXCEPT ![arg[p]] = 0]
    /\ Goto(p, "cvHolder")
    /\ UNCHANGED <<mutexVars, holder, arg, cv>>

CondClearHolder(p) ==
    /\ pc[p] = "cvHolder"
    /\ holder' = [holder EXCEPT ![arg[p]] = Nil]
    /\ Goto(p, "cvWait")
    /\ UNCHANGED <<mutexVars, counter, arg, cv>>

(* pthread_cond_wait: releases the mutex and blocks in one step.           *)
CondBlock(p) ==
    /\ pc[p] = "cvWait"
    /\ PthreadUnlock(p, arg[p])
    /\ Goto(p, "cvBlocked")
    /\ UNCHANGED <<fieldVars, arg, cv>>

(* Both waits may return without a signal (a spurious wakeup), the timed   *)
(* one also because the time is over.                                      *)
CondTimeout(p) ==
    /\ pc[p] = "cvBlocked"
    /\ Goto(p, "cvWoken")
    /\ UNCHANGED <<mutexVars, fieldVars, arg, cv>>

CondRelock(p) ==
    /\ pc[p] = "cvWoken"
    /\ PthreadLock(p, arg[p])
    /\ Goto(p, "cvHold")
    /\ UNCHANGED <<fieldVars, arg, cv>>

CondSetHolder(p) ==
    /\ pc[p] = "cvHold"
    /\ holder' = [holder EXCEPT ![arg[p]] = p]
    /\ Goto(p, "cvSet")
    /\ UNCHANGED <<mutexVars, counter, arg, cv>>

CondSetCount(p) ==
    /\ pc[p] = "cvSet"
    /\ counter' = [counter EXCEPT ![arg[p]] = 1]
    /\ Return(p)
    /\ UNCHANGED <<mutexVars, holder>>

Blocked(c) == {q \in Process : pc[q] = "cvBlocked" /\ cv[q] = c}

(* mp_condition_variable_signal: one blocked process, if there is one.     *)
CondSignal(p, c) ==
    /\ pc[p] = "idle"
    /\ \E q \in Blocked(c) : Goto(q, "cvWoken")
    /\ UNCHANGED <<mutexVars, fieldVars, arg, cv>>

(* mp_condition_variable_broadcast: all of them.                           *)
CondBroadcast(p, c) ==
    /\ pc[p] = "idle"
    /\ Blocked(c) # {}
    /\ pc' = [q \in Process |-> IF q \in Blocked(c) THEN "cvWoken" ELSE pc[q]]
    /\ UNCHANGED <<mutexVars, fieldVars, arg, cv>>

-----------------------------------------------------------------------------
(* What one process does inside the operation it is in.                    *)
Step(p) ==
    \/ MutexLock(p) \/ MutexTrylock(p) \/ CountUp(p) \/ SetHolder(p)
    \/ ClearHolder(p) \/ MutexUnlock(p)
    \/ CondClearCount(p) \/ CondClearHolder(p) \/ CondBlock(p)
    \/ CondTimeout(p) \/ CondRelock(p) \/ CondSetHolder(p) \/ CondSetCount(p)

(* The operations it may begin.                                            *)
Begin(p) ==
    \/ \E l \in Lock : \/ GetLockAgain(p, l) \/ GetLockWait(p, l)
                       \/ GetLockNowait(p, l) \/ GiveupLock(p, l)
    \/ \E c \in CV : \/ \E l \in Lock : CondWait(p, c, l)
                     \/ CondSignal(p, c)
                     \/ CondBroadcast(p, c)

LockNext == \E p \in Process : Begin(p) \/ Step(p)

LockSpec == LockInit /\ [][LockNext]_lockVars

-----------------------------------------------------------------------------
(* The fields have their types, and a process inside a lock operation      *)
(* knows which lock it works on.                                           *)
LockTypeOK ==
    /\ owner   \in [Lock -> Process \cup {Nil}]
    /\ depth   \in [Lock -> Nat]
    /\ holder  \in [Lock -> Process \cup {Nil}]
    /\ counter \in [Lock -> Nat]
    /\ pc      \in [Process -> PC]
    /\ arg     \in [Process -> Lock \cup {Nil}]
    /\ cv      \in [Process -> CV \cup {Nil}]
    /\ \A p \in Process : pc[p] # "idle" => arg[p] \in Lock

(* The points of an operation at which the process has the mutex of its    *)
(* argument although the fields do not say so.                             *)
InMutex == {"count", "hold", "clear", "unlock",
            "cvCount", "cvHolder", "cvWait", "cvHold", "cvSet"}

(* The fields of a lock whose mutex is taken, as far as the operation of   *)
(* the owner on it has come.                                               *)
FieldsOK(l, o) ==
    IF pc[o] \in InMutex /\ arg[o] = l
    THEN /\ holder[l] = IF pc[o] \in {"clear", "cvCount", "cvHolder", "cvSet"}
                        THEN o ELSE Nil
         /\ counter[l] = IF pc[o] \in {"hold", "cvCount"} THEN 1 ELSE 0
    ELSE /\ holder[l] = o
         /\ counter[l] >= 1
         /\ l \in Recursive \/ counter[l] = 1

(* The inductive invariant.  A free mutex has blank fields.  A taken one   *)
(* is locked once, although pthreads would lock it again: nesting is       *)
(* counted in lock.counter alone, so that the single pthread_mutex_unlock  *)
(* of mp_giveup_lock releases it.  Its fields are those of FieldsOK.  A    *)
(* process past pthread_mutex_lock has the mutex; one that is about to     *)
(* call it does not.  threads_mutex.d relies on all of it.                 *)
LockInv ==
    /\ LockTypeOK
    /\ \A l \in Lock :
          IF owner[l] = Nil
          THEN depth[l] = 0 /\ holder[l] = Nil /\ counter[l] = 0
          ELSE depth[l] = 1 /\ FieldsOK(l, owner[l])
    /\ \A p \in Process :
          /\ pc[p] \in InMutex => owner[arg[p]] = p
          /\ pc[p] \in {"lock", "trylock", "cvBlocked", "cvWoken"} =>
                 owner[arg[p]] # p

(* mp_giveup_lock, mp_condition_variable_wait and the recursive case of    *)
(* mp_get_lock trust lock.holder without asking pthreads: whoever it names *)
(* really has the mutex.                                                   *)
HolderOwnsMutex ==
    \A l \in Lock : holder[l] # Nil => owner[l] = holder[l]

(* A mutex is never left locked behind the back of the fields: its owner   *)
(* is the recorded holder or is in the middle of an operation on the lock. *)
NoOrphanMutex ==
    \A l \in Lock : owner[l] # Nil =>
        \/ holder[l] = owner[l] /\ counter[l] >= 1
        \/ pc[owner[l]] \in InMutex /\ arg[owner[l]] = l

(* The lock implements AbstractLock.  It belongs to its holder from the    *)
(* moment both fields say so until the counter falls to zero; a process    *)
(* that waits on a condition variable has given it up meanwhile.           *)
absUser  == [l \in Lock |-> IF counter[l] = 0 THEN Nil ELSE holder[l]]
absCount == [l \in Lock |-> IF holder[l] = Nil THEN 0 ELSE counter[l]]

Abs == INSTANCE AbstractLock WITH user <- absUser, count <- absCount

ImplementsAbstractLock == Abs!Spec
=============================================================================
