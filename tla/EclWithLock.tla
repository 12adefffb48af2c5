----------------------------- MODULE EclWithLock -----------------------------
(***************************************************************************)
(* The macro MP:WITH-LOCK (mp.lsp) on the locks of EclLock, run by         *)
(* processes that other processes interrupt.                               *)
(*                                                                         *)
(* WITH-LOCK remembers how often the process has the lock, takes it and    *)
(* runs the body with interrupts enabled, and gives the lock up in the     *)
(* cleanup form of an UNWIND-PROTECT with interrupts disabled, provided    *)
(* the process has it more often than before.  An interrupt runs arbitrary *)
(* Lisp code in the middle of whatever the process was doing; here it may  *)
(* use locks itself and then either return or leave by a non-local exit    *)
(* (mp:process-kill, an aborted debugger), which unwinds every frame.      *)
(***************************************************************************)
EXTENDS EclLock, Sequences

CONSTANTS
    MaxNest,    \* bound on the activations (WITH-LOCK or handler) of a process
    Points      \* the points of a lock operation at which interrupts arrive

ASSUME WithLockAssumption == MaxNest \in Nat /\ Points \subseteq PC

VARIABLES
    frames,     \* the activations of a process, innermost last
    unwinding   \* whether it is on its way out

withVars == <<frames, unwinding>>
vars == <<lockVars, withVars>>

NoFrame == [kind |-> "none"]

WithFrame(l, n, ph) == [kind |-> "with", lock |-> l, count |-> n, phase |-> ph]

HandlerFrame(p) ==
    [kind |-> "handler", pc |-> pc[p], arg |-> arg[p], cv |-> cv[p]]

Innermost(fs) == IF fs = <<>> THEN NoFrame ELSE fs[Len(fs)]

Top(p) == Innermost(frames[p])

TopIs(p, ph) == Top(p).kind = "with" /\ Top(p).phase = ph

Push(p, f) == frames' = [frames EXCEPT ![p] = Append(@, f)]
Pop(p)     == frames' = [frames EXCEPT ![p] = SubSeq(@, 1, Len(@) - 1)]
Phase(p, ph) == frames' = [frames EXCEPT ![p] =
    [@ EXCEPT ![Len(@)] = WithFrame(Top(p).lock, Top(p).count, ph)]]

(* The process runs ordinary code: nothing pending in a lock operation.    *)
Running(p) == pc[p] = "idle" /\ ~unwinding[p]

(* It is in a place where the body of a program continues: at top level,   *)
(* in a handler, or in the body of a WITH-LOCK that has its lock.          *)
InCode(p) == Running(p) /\ (Top(p).kind # "with" \/ TopIs(p, "body"))

LockCountMine(p, l) == IF holder[l] = p THEN counter[l] ELSE 0

(* *interrupts-enabled* is NIL only while the cleanup form runs.           *)
InterruptsEnabled(p) == ~TopIs(p, "cleanup") /\ ~TopIs(p, "giveup")

WithInit ==
    /\ LockInit
    /\ frames = [p \in Process |-> <<>>]
    /\ unwinding = [p \in Process |-> FALSE]

-----------------------------------------------------------------------------
(* (let ((count (mp:lock-count-mine lock))) (without-interrupts            *)
(*   (unwind-protect (with-restored-interrupts ...                         *)
EnterWith(p, l) ==
    /\ InCode(p)
    /\ Len(frames[p]) < MaxNest
    /\ Push(p, WithFrame(l, LockCountMine(p, l), "get"))
    /\ UNCHANGED <<lockVars, unwinding>>

(* Mutant: get-lock does not wait and its result is ignored.               *)
GetLock_Nowait(p) ==
    /\ Running(p)
    /\ TopIs(p, "get")
    /\ GetLockNowait(p, Top(p).lock)
    /\ Phase(p, "body")
    /\ UNCHANGED unwinding

(* ... (mp::get-lock lock).  The body begins when the call has returned.   *)
(* Taking a non-recursive lock again signals an error.                     *)
GetLock(p) ==
    /\ Running(p)
    /\ TopIs(p, "get")
    /\ LET l == Top(p).lock IN
       \/ /\ GetLockWait(p, l) \/ GetLockAgain(p, l)
          /\ Phase(p, "body")
          /\ UNCHANGED unwinding
       \/ /\ holder[l] = p
          /\ l \notin Recursive
          /\ unwinding' = [unwinding EXCEPT ![p] = TRUE]
          /\ UNCHANGED <<lockVars, frames>>

(* The body ends normally: on to the cleanup form.                         *)
EndBody(p) ==
    /\ Running(p)
    /\ TopIs(p, "body")
    /\ Phase(p, "cleanup")
    /\ UNCHANGED <<lockVars, unwinding>>

(* Mutant: the cleanup form gives the lock up only from a first entry.     *)
Cleanup_Outermost(p) ==
    /\ pc[p] = "idle"
    /\ TopIs(p, "cleanup")
    /\ LET f == Top(p) IN
       IF LockCountMine(p, f.lock) > 0 /\ f.count = 0 /\ ~unwinding[p]
       THEN GiveupLock(p, f.lock) /\ Phase(p, "giveup")
       ELSE Pop(p) /\ UNCHANGED lockVars
    /\ UNCHANGED unwinding

(* The cleanup form: (when (> (mp:lock-count-mine lock) count)             *)
(*                     (mp::giveup-lock lock)).                            *)
Cleanup(p) ==
    /\ pc[p] = "idle"
    /\ TopIs(p, "cleanup")
    /\ LET f == Top(p) IN
       IF LockCountMine(p, f.lock) > f.count
       THEN GiveupLock(p, f.lock) /\ Phase(p, "giveup")
       ELSE Pop(p) /\ UNCHANGED lockVars
    /\ UNCHANGED unwinding

LeaveWith(p) ==
    /\ pc[p] = "idle"
    /\ TopIs(p, "giveup")
    /\ Pop(p)
    /\ UNCHANGED <<lockVars, unwinding>>

-----------------------------------------------------------------------------
(* An interrupt: the handler starts on top of what the process was doing.  *)
Interrupt(p) ==
    /\ ~unwinding[p]
    /\ pc[p] \in Points
    /\ InterruptsEnabled(p)
    /\ Len(frames[p]) < MaxNest
    /\ Push(p, HandlerFrame(p))
    /\ pc' = [pc EXCEPT ![p] = "idle"]
    /\ arg' = [arg EXCEPT ![p] = Nil]
    /\ cv' = [cv EXCEPT ![p] = Nil]
    /\ UNCHANGED <<mutexVars, fieldVars, unwinding>>

(* Mutant: the handler's return does not bring the operation's lock back.  *)
HandlerReturn_Clobbers(p) ==
    /\ Running(p)
    /\ Top(p).kind = "handler"
    /\ pc' = [pc EXCEPT ![p] = Top(p).pc]
    /\ cv' = [cv EXCEPT ![p] = Top(p).cv]
    /\ Pop(p)
    /\ UNCHANGED <<mutexVars, fieldVars, unwinding, arg>>

(* It returns: the interrupted operation goes on where it was.             *)
HandlerReturn(p) ==
    /\ Running(p)
    /\ Top(p).kind = "handler"
    /\ pc' = [pc EXCEPT ![p] = Top(p).pc]
    /\ arg' = [arg EXCEPT ![p] = Top(p).arg]
    /\ cv' = [cv EXCEPT ![p] = Top(p).cv]
    /\ Pop(p)
    /\ UNCHANGED <<mutexVars, fieldVars, unwinding>>

(* Or it leaves by a non-local exit.                                       *)
HandlerExit(p) ==
    /\ InCode(p)
    /\ \E i \in DOMAIN frames[p] : frames[p][i].kind = "handler"
    /\ unwinding' = [unwinding EXCEPT ![p] = TRUE]
    /\ UNCHANGED <<lockVars, frames>>

(* ecl_unwind: an interrupted operation is abandoned, a WITH-LOCK runs its *)
(* cleanup form.                                                           *)
Unwind(p) ==
    /\ unwinding[p]
    /\ pc[p] = "idle"
    /\ \/ /\ Top(p).kind = "none"
          /\ unwinding' = [unwinding EXCEPT ![p] = FALSE]
          /\ UNCHANGED frames
       \/ /\ Top(p).kind = "handler"
          /\ Pop(p)
          /\ UNCHANGED unwinding
       \/ /\ TopIs(p, "get") \/ TopIs(p, "body")
          /\ Phase(p, "cleanup")
          /\ UNCHANGED unwinding
    /\ UNCHANGED lockVars

-----------------------------------------------------------------------------
(* In the body a process may wait on a condition variable with the lock.   *)
BodyWait(p, c) ==
    /\ Running(p)
    /\ TopIs(p, "body")
    /\ CondWait(p, c, Top(p).lock)
    /\ UNCHANGED withVars

BodySignal(p, c) ==
    /\ InCode(p)
    /\ CondSignal(p, c) \/ CondBroadcast(p, c)
    /\ UNCHANGED withVars

LockStep(p) == Step(p) /\ UNCHANGED withVars

WithNext == \E p \in Process :
    \/ \E l \in Lock : EnterWith(p, l)
    \/ GetLock(p) \/ EndBody(p) \/ Cleanup(p) \/ LeaveWith(p)
    \/ Interrupt(p) \/ HandlerReturn(p) \/ HandlerExit(p) \/ Unwind(p)
    \/ \E c \in CV : BodyWait(p, c) \/ BodySignal(p, c)
    \/ LockStep(p)

WithSpec == WithInit /\ [][WithNext]_vars

-----------------------------------------------------------------------------
(* The points at which an interrupt finds the mutex and the fields of a    *)
(* lock in agreement, or disabled interrupts.                              *)
SafePoints == {"idle", "lock", "clear", "unlock", "cvCount", "cvBlocked",
               "cvWoken"}

Frame == [kind : {"with"}, lock : Lock, count : Nat,
          phase : {"get", "body", "cleanup", "giveup"}]
         \cup [kind : {"handler"}, pc : SafePoints \ {"clear", "unlock"},
               arg : Lock \cup {Nil}, cv : CV \cup {Nil}]

On(f, l) == f.kind = "with" /\ f.lock = l

(* How often a WITH-LOCK has its lock more than before, while the process  *)
(* is at the point at of an operation on it.                               *)
Extra(f, at) == IF f.phase = "body" /\ at \in {"idle", "cvCount"} THEN 1 ELSE 0

(* The point at which frame j has been left for the frame above it.        *)
LeftAt(fs, j) == IF fs[j + 1].kind = "handler" THEN fs[j + 1].pc ELSE "idle"

(* By the first i frames the process has l n times: the last WITH-LOCK of  *)
(* l among them tells.                                                     *)
LevelIs(fs, l, i, n) ==
    \/ n = 0 /\ \A j \in 1 .. i : ~On(fs[j], l)
    \/ \E j \in 1 .. i :
        /\ On(fs[j], l)
        /\ \A k \in j + 1 .. i : ~On(fs[k], l)
        /\ n = fs[j].count + Extra(fs[j], LeftAt(fs, j))

(* What frame i remembers is true of the frames below it: a WITH-LOCK, how *)
(* often the process has the lock; a handler, the operation it interrupts. *)
(* Only a WITH-LOCK that asks for its lock or runs its body is left.       *)
FrameOK(fs, i) ==
    /\ fs[i].kind = "with" => LevelIs(fs, fs[i].lock, i - 1, fs[i].count)
    /\ fs[i].kind = "handler" /\ fs[i].pc # "idle" =>
          /\ i > 1
          /\ On(fs[i - 1], fs[i].arg)
          /\ fs[i - 1].phase = "body" /\ fs[i - 1].count = 0
    /\ i > 1 /\ fs[i - 1].kind = "with" =>
          \/ fs[i - 1].phase = "body"
          \/ fs[i - 1].phase = "get" /\ fs[i].kind = "handler"

(* The same of a process at the point at of an operation on l, which has   *)
(* each lock m mine[m] times.  An operation in progress is that of the     *)
(* innermost WITH-LOCK, which has its lock no other time.                  *)
OpOK(top, at, l, out) ==
    at # "idle" =>
        /\ On(top, l) /\ top.count = 0 /\ at # "trylock"
        /\ IF at \in {"clear", "unlock"} THEN top.phase = "giveup"
           ELSE top.phase = "body" /\ ~out

MineOK(fs, top, at, out, m, n) ==
    IF ~On(top, m) THEN LevelIs(fs, m, Len(fs) - 1, n)
    ELSE IF top.phase = "cleanup" \/ (out /\ top.phase # "giveup")
    THEN n \in {top.count, top.count + 1}
    ELSE n = top.count + Extra(top, at)

StateOK(fs, at, l, out, mine) ==
    /\ \A i \in 1 .. Len(fs) : FrameOK(fs, i)
    /\ OpOK(Innermost(fs), at, l, out)
    /\ \A m \in Lock : MineOK(fs, Innermost(fs), at, out, m, mine[m])

(* The inductive invariant.  The fields of every lock agree with its mutex *)
(* as without interrupts; what the frames of a process remember is true of *)
(* the frames below; and the process has each lock as often as its frames  *)
(* say, which is what the cleanup form of WITH-LOCK relies on.             *)
Mine(p) == [l \in Lock |-> LockCountMine(p, l)]

WithInv ==
    /\ LockInv
    /\ frames \in [Process -> Seq(Frame)]
    /\ unwinding \in [Process -> BOOLEAN]
    /\ \A p \in Process :
        /\ Len(frames[p]) <= MaxNest
        /\ StateOK(frames[p], pc[p], arg[p], unwinding[p], Mine(p))

(* A process that executes the body of a WITH-LOCK has the mutex of that   *)
(* lock, whatever interrupts came in between: get-lock returned, and       *)
(* nothing but the cleanup form gives the lock up.                         *)
BodyOwnsLock ==
    \A p \in Process :
        Running(p) /\ TopIs(p, "body") => owner[Top(p).lock] = p

(* A process that has left every WITH-LOCK, normally or by a non-local     *)
(* exit, has no mutex left.                                                *)
AllReleased ==
    \A p \in Process : Running(p) /\ frames[p] = <<>> =>
        \A l \in Lock : owner[l] # p
=============================================================================
