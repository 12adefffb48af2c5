---------------------------- MODULE EclInterrupts ----------------------------
(***************************************************************************)
(* Interrupting a Lisp process (unixint.d, mp.lsp), in the build with      *)
(* ECL_THREADS and ECL_USE_MPROTECT that src/iphone ships.                 *)
(*                                                                         *)
(* One target process executes Lisp code.  Sender processes call           *)
(* ecl_interrupt_process on it: they link a record of a global free list   *)
(* on the pending_interrupt list of the target's environment and send it a *)
(* signal.  The signal handler takes a record off the list and, if the     *)
(* target may be interrupted, runs it.  If Lisp disabled interrupts        *)
(* (without-interrupts) the record goes back on the list until the section *)
(* ends; if C code did (ecl_disable_interrupts) the environment becomes    *)
(* read-only as well, and the next write to it traps into a handler that   *)
(* runs what is pending.                                                   *)
(*                                                                         *)
(* Records are cons cells; car and cdr are modelled as the heap they live  *)
(* in, because the list operations race with each other.                   *)
(***************************************************************************)
EXTENDS Naturals, FiniteSets, Sequences

CONSTANTS
    Sender,     \* the processes that interrupt
    Rec,        \* the records allocated by create_signal_queue
    Nil,
    Modes       \* the settings in which the program is examined

(* A setting: how many interrupts are sent (a bound), which C sections the *)
(* target runs and whether it uses without-interrupts; when a sender's     *)
(* call begins, at any time ("free"), while the target is in no handler    *)
(* ("between"), or when it is done with the earlier interrupts as well     *)
(* ("serial"); and whether the call and the delivery of its signal happen  *)
(* with no step of the target in between (prompt).                         *)
ModeType ==
    [sends : Nat, sections : SUBSET {"alloc", "resize"}, lispSections : BOOLEAN,
     discipline : {"free", "between", "serial"}, prompt : BOOLEAN]

ASSUME InterruptsAssumption ==
    /\ IsFiniteSet(Rec) /\ Nil \notin Rec
    /\ \A m \in Modes : m \in ModeType
    /\ "target" \notin Sender /\ Nil \notin Sender \cup {"target"}

VARIABLES
    mode,       \* the setting, which never changes
    car, cdr,   \* the records: an interrupt's number (0: NIL), the next record
    queue,      \* cl_core.signal_queue, the free records
    qlock,      \* cl_core.signal_queue_lock: its holder and its count
    pend,       \* env->pending_interrupt
    dis,        \* env->disable_interrupts: 0, 1 or 3
    prot,       \* whether the environment is write-protected
    lisp,       \* si::*interrupts-enabled*
    sect,       \* where the target is in a C section
    ctx,        \* the calls and handlers active in the target, innermost last
    sig,        \* whether the thread interrupt signal is pending
    blocked,    \* whether the target's signal mask holds it back
    crashed,    \* the process died of a fault with all signals blocked
    spc, srec, scode,   \* the senders: place, record and interrupt number
    sent,       \* the number of interrupts sent so far
    handled,    \* how often each was run: never, once, more often (2)
    lost        \* the interrupts dropped because no record was free

heapVars == <<car, cdr, queue>>
envVars == <<pend, dis, prot>>
codeVars == <<lisp, sect>>
sigVars == <<sig, blocked, crashed>>
senderVars == <<spc, srec, scode, sent>>
doneVars == <<handled, lost>>
vars == <<heapVars, envVars, codeVars, sigVars, senderVars, doneVars,
          qlock, ctx, mode>>

Code == UNION {1 .. m.sends : m \in Modes}

-----------------------------------------------------------------------------
(* The records in the order in which they are allocated.                   *)
Order == CHOOSE f \in [1 .. Cardinality(Rec) -> Rec] : \A r \in Rec : \E i \in DOMAIN f : f[i] = r
Place(r) == CHOOSE i \in 1 .. Cardinality(Rec) : Order[i] = r

(* create_signal_queue, and a target that runs with interrupts enabled.    *)
InterruptsInit ==
    /\ mode \in Modes
    /\ car = [r \in Rec |-> 0]
    /\ cdr = [r \in Rec |-> IF Place(r) = Cardinality(Rec) THEN Nil ELSE Order[Place(r) + 1]]
    /\ queue = IF Rec = {} THEN Nil ELSE Order[1]
    /\ qlock = [holder |-> Nil, count |-> 0]
    /\ pend = Nil /\ dis = 0 /\ prot = FALSE
    /\ lisp = TRUE /\ sect = "none"
    /\ ctx = <<>>
    /\ sig = FALSE /\ blocked = FALSE /\ crashed = FALSE
    /\ spc = [s \in Sender |-> "idle"]
    /\ srec = [s \in Sender |-> Nil]
    /\ scode = [s \in Sender |-> 0]
    /\ sent = 0
    /\ handled = [c \in Code |-> 0]
    /\ lost = {}

(* Mutant: the last giveup leaves the holder.                              *)
GiveupQueueLock_KeepsHolder == qlock' = [qlock EXCEPT !.count = @ - 1]

(* signal_queue_lock is recursive.                                         *)
CanGet(p) == qlock.holder \in {Nil, p}
GetQueueLock(p) ==
    CanGet(p) /\ qlock' = [holder |-> p, count |-> qlock.count + 1]
GiveupQueueLock ==
    qlock' = IF qlock.count = 1 THEN [holder |-> Nil, count |-> 0]
             ELSE [qlock EXCEPT !.count = @ - 1]

(* A call or handler of the target: its kind ("handler", "trap", "check"), *)
(* the place it is at, the record it works on and the interrupt it got.    *)
Frame(kind, at) == [kind |-> kind, at |-> at, rec |-> Nil, code |-> 0]

Top == ctx[Len(ctx)]
At(place) == ctx # <<>> /\ Top.at = place
TopWith(at, rec, code) == [kind |-> Top.kind, at |-> at, rec |-> rec, code |-> code]
SetTop(f) == ctx' = [ctx EXCEPT ![Len(ctx)] = f]
Goto(place) == SetTop(TopWith(place, Top.rec, Top.code))
PushFrame(f) == ctx' = Append(ctx, f)
PopFrame == ctx' = SubSeq(ctx, 1, Len(ctx) - 1)

(* In a prompt setting, the target does not move while an interrupt is on its way. *)
InCall(s) == spc[s] \notin {"idle", "lock", "segv"}
Moves ==
    /\ ~crashed
    /\ mode.prompt => ~(sig /\ ~blocked) /\ \A s \in Sender : ~InCall(s)

Runs == Moves /\ ctx = <<>>

-----------------------------------------------------------------------------
(* The target's program: sections of C code between ecl_disable_interrupts *)
(* and ecl_enable_interrupts, and without-interrupts forms.  The section   *)
(* "alloc" stands for ecl_alloc and its kind, which write to the           *)
(* environment only to enable interrupts again; "resize" for               *)
(* ecl_bds_set_size, frs_set_size and ecl_stack_set_size, which store the  *)
(* new stack in it.  A write to a protected environment does not happen:   *)
(* it traps (EnvTrap) and is executed afterwards.                          *)
DisableInterrupts(s) ==
    /\ Runs /\ ~prot /\ sect = "none"
    /\ dis' = 1
    /\ sect' = s
    /\ UNCHANGED <<heapVars, pend, prot, lisp, sigVars, senderVars, doneVars,
                   qlock, ctx>>

(* GC_MALLOC, without interrupts and without touching the environment.     *)
Allocate ==
    /\ Runs /\ sect = "alloc"
    /\ sect' = "done"
    /\ UNCHANGED <<heapVars, envVars, lisp, sigVars, senderVars, doneVars,
                   qlock, ctx>>

(* env->bds_top = ...; env->bds_org = ...: the stack's fields change hands. *)
StoreStack ==
    /\ Runs /\ ~prot /\ sect = "resize"
    /\ sect' = "done"
    /\ UNCHANGED <<heapVars, envVars, lisp, sigVars, senderVars, doneVars,
                   qlock, ctx>>

EnableInterrupts ==
    /\ Runs /\ ~prot /\ sect = "done"
    /\ dis' = 0
    /\ sect' = "none"
    /\ UNCHANGED <<heapVars, pend, prot, lisp, sigVars, senderVars, doneVars,
                   qlock, ctx>>

(* Mutant: the trap handler forgets to make the environment writable.      *)
EnvTrap_StaysProtected ==
    /\ Runs /\ prot
    /\ sect # "alloc"
    /\ dis' = 0
    /\ blocked' = FALSE
    /\ PushFrame(Frame("trap", "popRead"))
    /\ UNCHANGED <<heapVars, pend, prot, codeVars, sig, crashed, senderVars,
                   doneVars, qlock>>

(* The write that traps: sigsegv_handler makes the environment writable,   *)
(* enables interrupts, restores the signal mask and runs what is pending.  *)
EnvTrap ==
    /\ Runs /\ prot
    /\ sect # "alloc"
    /\ prot' = FALSE
    /\ dis' = 0
    /\ blocked' = FALSE
    /\ PushFrame(Frame("trap", "popRead"))
    /\ UNCHANGED <<heapVars, pend, codeVars, sig, crashed, senderVars,
                   doneVars, qlock>>

EnterWithoutInterrupts ==
    /\ Runs /\ ~prot /\ sect = "none" /\ lisp
    /\ mode.lispSections
    /\ lisp' = FALSE
    /\ UNCHANGED <<heapVars, envVars, sect, sigVars, senderVars, doneVars,
                   qlock, ctx>>

(* The binding ends and si::check-pending-interrupts is called.            *)
LeaveWithoutInterrupts ==
    /\ Runs /\ ~prot /\ sect = "none" /\ ~lisp
    /\ lisp' = TRUE
    /\ PushFrame(Frame("check", "check"))
    /\ UNCHANGED <<heapVars, envVars, sect, sigVars, senderVars, doneVars,
                   qlock>>

(* ecl_check_pending_interrupts takes one interrupt off the list.          *)
CheckPending ==
    /\ Moves /\ At("check")
    /\ dis' = 0
    /\ IF pend = Nil THEN PopFrame ELSE Goto("popRead")
    /\ UNCHANGED <<heapVars, pend, prot, codeVars, sigVars, senderVars,
                   doneVars, qlock>>

-----------------------------------------------------------------------------
(* The kernel delivers the signal: non_evil_signal_handler starts, with    *)
(* every signal blocked, on top of whatever the target was doing.          *)
Deliver ==
    /\ ~crashed /\ sig /\ ~blocked
    /\ mode.prompt => \A s \in Sender : ~InCall(s)
    /\ sig' = FALSE
    /\ blocked' = TRUE
    /\ PushFrame(Frame("handler", "popRead"))
    /\ UNCHANGED <<heapVars, envVars, codeVars, crashed, senderVars, doneVars,
                   qlock>>

(* A call or handler returns; the handler's return restores the mask.      *)
EndFrame == PopFrame /\ blocked' = (blocked /\ Top.kind # "handler")

(* pop_signal: the first record is read before the lock is taken.          *)
PopRead ==
    /\ Moves /\ At("popRead")
    /\ IF pend = Nil
       THEN EndFrame
       ELSE /\ SetTop(TopWith("popLock", pend, Top.code))
            /\ UNCHANGED blocked
    /\ UNCHANGED <<heapVars, envVars, codeVars, sig, crashed, senderVars,
                   doneVars, qlock>>

(* mp_get_lock stores its values in the environment: in a handler, with    *)
(* the environment protected, that is a fault with all signals blocked.    *)
PopLock ==
    /\ Moves /\ At("popLock")
    /\ IF prot
       THEN crashed' = TRUE /\ UNCHANGED <<qlock, ctx>>
       ELSE GetQueueLock("target") /\ Goto("popUpdate") /\ UNCHANGED crashed
    /\ UNCHANGED <<heapVars, envVars, codeVars, sig, blocked, senderVars,
                   doneVars>>

(* Mutant: the record never becomes free.                                  *)
PopUpdate_Leaks ==
    /\ Moves /\ At("popUpdate")
    /\ pend' = cdr[Top.rec]
    /\ SetTop(TopWith("popUnlock", Nil, car[Top.rec]))
    /\ UNCHANGED <<heapVars, dis, prot, codeVars, sigVars, senderVars, doneVars,
                   qlock>>

PopUpdate ==
    /\ Moves /\ At("popUpdate")
    /\ pend' = cdr[Top.rec]
    /\ cdr' = [cdr EXCEPT ![Top.rec] = queue]
    /\ queue' = Top.rec
    /\ SetTop(TopWith("popUnlock", Nil, car[Top.rec]))
    /\ UNCHANGED <<car, dis, prot, codeVars, sigVars, senderVars, doneVars,
                   qlock>>

PopUnlock ==
    /\ Moves /\ At("popUnlock")
    /\ GiveupQueueLock
    /\ IF Top.code = 0
       THEN EndFrame
       ELSE /\ Goto(IF Top.kind = "handler" THEN "decide" ELSE "handle")
            /\ UNCHANGED blocked
    /\ UNCHANGED <<heapVars, envVars, codeVars, sig, crashed, senderVars,
                   doneVars>>

(* Mutant: handle_or_queue looks at the flag of Lisp only.                 *)
Decide_IgnoresC ==
    /\ Moves /\ At("decide")
    /\ IF lisp THEN Goto("handle") /\ blocked' = FALSE
       ELSE Goto("qTake") /\ UNCHANGED blocked
    /\ UNCHANGED <<heapVars, envVars, codeVars, sig, crashed, senderVars,
                   doneVars, qlock>>

(* handle_or_queue.                                                        *)
Decide ==
    /\ Moves /\ At("decide")
    /\ \/ /\ ~lisp
          /\ Goto("qTake")
          /\ UNCHANGED <<dis, blocked>>
       \/ /\ lisp /\ dis # 0
          /\ dis' = 3
          /\ Goto("qTake")
          /\ UNCHANGED blocked
       \/ /\ lisp /\ dis = 0
          /\ blocked' = FALSE
          /\ Goto("handle")
          /\ UNCHANGED dis
    /\ UNCHANGED <<heapVars, pend, prot, codeVars, sig, crashed, senderVars,
                   doneVars, qlock>>

(* handle_signal_now: the function runs.  The trap handler goes on to the  *)
(* next pending interrupt, the others return.                              *)
Handle ==
    /\ Moves /\ At("handle")
    /\ handled' = [handled EXCEPT ![Top.code] = IF @ < 2 THEN @ + 1 ELSE @]
    /\ IF Top.kind = "trap" THEN Goto("popRead") /\ UNCHANGED blocked
       ELSE EndFrame
    /\ UNCHANGED <<heapVars, envVars, codeVars, sig, crashed, senderVars, lost,
                   qlock>>

(* queue_signal in the handler: a free record under the lock, then the     *)
(* links without it.  In the C case the environment is protected last.     *)
AfterQueue ==
    IF lisp THEN Goto("protect") /\ UNCHANGED blocked ELSE EndFrame

RequeueTake ==
    /\ Moves /\ At("qTake")
    /\ CanGet("target")
    /\ IF queue = Nil
       THEN lost' = lost \cup {Top.code} /\ AfterQueue /\ UNCHANGED queue
       ELSE /\ queue' = cdr[queue]
            /\ SetTop(TopWith("qLink", queue, Top.code))
            /\ UNCHANGED <<lost, blocked>>
    /\ UNCHANGED <<car, cdr, envVars, codeVars, sig, crashed, senderVars,
                   handled, qlock>>

(* Mutant: the record is linked in front of nothing.                       *)
RequeueLink_DropsRest ==
    /\ Moves /\ At("qLink")
    /\ cdr' = [cdr EXCEPT ![Top.rec] = Nil]
    /\ car' = [car EXCEPT ![Top.rec] = Top.code]
    /\ Goto("qStore")
    /\ UNCHANGED <<queue, envVars, codeVars, sigVars, senderVars, doneVars,
                   qlock>>

RequeueLink ==
    /\ Moves /\ At("qLink")
    /\ cdr' = [cdr EXCEPT ![Top.rec] = pend]
    /\ car' = [car EXCEPT ![Top.rec] = Top.code]
    /\ Goto("qStore")
    /\ UNCHANGED <<queue, envVars, codeVars, sigVars, senderVars, doneVars,
                   qlock>>

RequeueStore ==
    /\ Moves /\ At("qStore")
    /\ pend' = Top.rec
    /\ AfterQueue
    /\ UNCHANGED <<heapVars, dis, prot, codeVars, sig, crashed, senderVars,
                   doneVars, qlock>>

(* Mutant: no trap is set.                                                 *)
Protect_Missing ==
    /\ Moves /\ At("protect")
    /\ EndFrame
    /\ UNCHANGED <<heapVars, envVars, codeVars, sig, crashed, senderVars,
                   doneVars, qlock>>

Protect ==
    /\ Moves /\ At("protect")
    /\ prot' = TRUE
    /\ EndFrame
    /\ UNCHANGED <<heapVars, pend, dis, codeVars, sig, crashed, senderVars,
                   doneVars, qlock>>

-----------------------------------------------------------------------------
(* ecl_interrupt_process, called by a sender.                              *)
MaySend ==
    /\ mode.discipline # "free" => ctx = <<>>
    /\ mode.discipline = "serial" =>
        pend = Nil /\ ~sig /\ \A s \in Sender : ~InCall(s)

SGoto(s, place) == spc' = [spc EXCEPT ![s] = place]

InterruptProcess(s) ==
    /\ ~crashed /\ spc[s] = "idle"
    /\ sent < mode.sends
    /\ sent' = sent + 1
    /\ scode' = [scode EXCEPT ![s] = sent + 1]
    /\ SGoto(s, "lock")
    /\ UNCHANGED <<heapVars, envVars, codeVars, sigVars, srec, doneVars, qlock,
                   ctx>>

SendLock(s) ==
    /\ ~crashed /\ spc[s] = "lock"
    /\ MaySend
    /\ mode.prompt => \A t \in Sender : ~InCall(t)
    /\ GetQueueLock(s)
    /\ SGoto(s, "take")
    /\ UNCHANGED <<heapVars, envVars, codeVars, sigVars, srec, scode, sent,
                   doneVars, ctx>>

SendTake(s) ==
    /\ ~crashed /\ spc[s] = "take"
    /\ IF queue = Nil
       THEN /\ lost' = lost \cup {scode[s]}
            /\ SGoto(s, "kill")
            /\ UNCHANGED <<queue, srec>>
       ELSE /\ queue' = cdr[queue]
            /\ srec' = [srec EXCEPT ![s] = queue]
            /\ SGoto(s, "link")
            /\ UNCHANGED lost
    /\ UNCHANGED <<car, cdr, envVars, codeVars, sigVars, scode, sent, handled,
                   qlock, ctx>>

SendLink(s) ==
    /\ ~crashed /\ spc[s] = "link"
    /\ cdr' = [cdr EXCEPT ![srec[s]] = pend]
    /\ car' = [car EXCEPT ![srec[s]] = scode[s]]
    /\ SGoto(s, "store")
    /\ UNCHANGED <<queue, envVars, codeVars, sigVars, srec, scode, sent,
                   doneVars, qlock, ctx>>

(* env->pending_interrupt = record: if the target's environment is         *)
(* protected the sender faults, with the lock in its hands.                *)
SendStore(s) ==
    /\ ~crashed /\ spc[s] = "store"
    /\ IF prot
       THEN SGoto(s, "segv") /\ UNCHANGED <<pend, srec>>
       ELSE /\ pend' = srec[s]
            /\ srec' = [srec EXCEPT ![s] = Nil]
            /\ SGoto(s, "kill")
    /\ UNCHANGED <<heapVars, dis, prot, codeVars, sigVars, scode, sent,
                   doneVars, qlock, ctx>>

(* do_interrupt_thread: pthread_kill.                                      *)
SendKill(s) ==
    /\ ~crashed /\ spc[s] = "kill"
    /\ sig' = TRUE
    /\ SGoto(s, "unlock")
    /\ UNCHANGED <<heapVars, envVars, codeVars, blocked, crashed, srec, scode,
                   sent, doneVars, qlock, ctx>>

SendUnlock(s) ==
    /\ ~crashed /\ spc[s] = "unlock"
    /\ GiveupQueueLock
    /\ SGoto(s, "idle")
    /\ UNCHANGED <<heapVars, envVars, codeVars, sigVars, srec, scode, sent,
                   doneVars, ctx>>

-----------------------------------------------------------------------------
(* The steps of the target's thread, and of a sender inside its call.      *)
TargetCode ==
    \/ \E s \in mode.sections : DisableInterrupts(s)
    \/ Allocate \/ StoreStack \/ EnableInterrupts \/ EnvTrap
    \/ EnterWithoutInterrupts \/ LeaveWithoutInterrupts \/ CheckPending
    \/ PopRead \/ PopLock \/ PopUpdate \/ PopUnlock
    \/ Decide \/ Handle
    \/ RequeueTake \/ RequeueLink \/ RequeueStore \/ Protect

TargetStep == TargetCode /\ UNCHANGED mode

SenderCode(s) ==
    \/ SendLock(s) \/ SendTake(s) \/ SendLink(s) \/ SendStore(s)
    \/ SendKill(s) \/ SendUnlock(s)

SenderStep(s) == SenderCode(s) /\ UNCHANGED mode

DeliverStep == Deliver /\ UNCHANGED mode

InterruptsNext ==
    \/ TargetStep
    \/ DeliverStep
    \/ \E s \in Sender : InterruptProcess(s) /\ UNCHANGED mode
    \/ \E s \in Sender : SenderStep(s)

InterruptsSpec == InterruptsInit /\ [][InterruptsNext]_vars

(* The scheduler runs every thread, and the kernel delivers a signal that  *)
(* is not blocked.  Nobody has to call ecl_interrupt_process.              *)
FairInterruptsSpec ==
    /\ InterruptsSpec
    /\ WF_vars(TargetStep)
    /\ WF_vars(DeliverStep)
    /\ \A s \in Sender : WF_vars(SenderStep(s))

-----------------------------------------------------------------------------
(* The list that starts at a record, linked by c: its members in order,    *)
(* and whether it ends in NIL.                                             *)
Walk(c, h) ==
    LET walk[n \in 0 .. Cardinality(Rec)] ==
            IF n = 0 THEN h
            ELSE IF walk[n - 1] = Nil THEN Nil ELSE c[walk[n - 1]]
    IN  walk
Members(h) == {Walk(cdr, h)[n] : n \in 0 .. Cardinality(Rec)} \ {Nil}
Ends(h) == Walk(cdr, h)[Cardinality(Rec)] = Nil

(* Records taken from the free list and not linked yet.                    *)
SenderHolds == {srec[s] : s \in Sender} \ {Nil}
TargetHolds == {ctx[i].rec : i \in {j \in DOMAIN ctx :
                    ctx[j].at \in {"qLink", "qStore"}}}

(* Interrupts on their way: in a sender's hands, on the pending list, or   *)
(* taken off it by a handler that has not run or requeued them.            *)
Asking == {s \in Sender : spc[s] \in {"lock", "take", "link", "store"}}
InHand == {ctx[i].code : i \in {j \in DOMAIN ctx :
             ctx[j].at \in {"popUnlock", "decide", "handle", "qTake", "qLink",
                            "qStore"}}}
OnTheWay ==
    {scode[s] : s \in Asking} \cup {car[r] : r \in Members(pend)} \cup InHand

FramePlaces == {"check", "popRead", "popLock", "popUpdate", "popUnlock", "decide",
                "handle", "qTake", "qLink", "qStore", "protect"}

(* Where a sender, and a frame of the target, have the queue lock.         *)
SenderLocked == {"take", "link", "store", "kill", "unlock", "segv"}
TargetLocked == {i \in 1 .. Len(ctx) : ctx[i].at \in {"popUpdate", "popUnlock"}}

(* The fields have their types.                                            *)
InterruptsTypeOK ==
    /\ mode \in Modes
    /\ car \in [Rec -> Code \cup {0}] /\ cdr \in [Rec -> Rec \cup {Nil}]
    /\ queue \in Rec \cup {Nil} /\ pend \in Rec \cup {Nil}
    /\ qlock \in [holder : Sender \cup {"target", Nil}, count : Nat]
    /\ dis \in {0, 1, 3}
    /\ sect \in {"none", "done"} \cup mode.sections
    /\ {prot, lisp, sig, blocked, crashed} \subseteq BOOLEAN
    /\ spc \in [Sender -> {"idle", "lock"} \cup SenderLocked]
    /\ srec \in [Sender -> Rec \cup {Nil}]
    /\ scode \in [Sender -> Code \cup {0}]
    /\ sent \in Nat
    /\ handled \in [Code -> 0 .. 2] /\ lost \subseteq Code
    /\ ctx \in Seq([kind : {"handler", "trap", "check"}, at : FramePlaces,
                    rec : Rec \cup {Nil}, code : Code \cup {0}])

(* A sender has a record to link, and a number.                            *)
SenderOK(s) ==
    /\ spc[s] # "idle" => scode[s] \in Code
    /\ spc[s] \in {"link", "store"} => srec[s] \in Rec

(* So does a frame of the target.  Only a handler decides; what runs an    *)
(* interrupt, or sets the trap, does so outside without-interrupts forms,  *)
(* and in an allocation there are handlers only that run nothing.          *)
FrameOK(f) ==
    /\ f.at \in {"popLock", "popUpdate", "qLink", "qStore"} => f.rec \in Rec
    /\ f.at \in {"decide", "handle", "qTake", "qLink", "qStore"} => f.code \in Code
    /\ f.at \in {"decide", "qTake", "qLink", "qStore", "protect"} => f.kind = "handler"
    /\ f.at = "check" => f.kind = "check"
    /\ f.kind # "handler" \/ f.at \in {"handle", "protect"} => lisp
    /\ sect = "alloc" => f.kind = "handler" /\ f.at # "handle"

(* The queue lock is held by the sender that is between mp_get_lock and    *)
(* mp_giveup_lock, or by the target, as often as its frames have taken it. *)
QueueLockOK ==
    /\ \A s \in Sender : spc[s] \in SenderLocked <=> qlock.holder = s
    /\ TargetLocked # {} <=> qlock.holder = "target"
    /\ qlock.count = IF qlock.holder \in Sender THEN 1 ELSE Cardinality(TargetLocked)

(* Calls of ecl_interrupt_process that the code is made for: they begin    *)
(* between the target's handlers and find its environment writable, and    *)
(* none of its own calls reads the pending list while they link a record.  *)
Orderly ==
    \/ mode.discipline = "serial" /\ (mode.prompt \/ ~mode.lispSections)
    \/ mode.discipline = "between" /\ mode.prompt /\ mode.sections = {}

(* The list linked by c that starts at h has the members S, each once.     *)
Chain(c, h, S) ==
    \E n \in 0 .. Cardinality(Rec) : \E f \in [1 .. n -> S] :
        /\ \A r \in S : \E i \in 1 .. n : f[i] = r
        /\ \A i, j \in 1 .. n : f[i] = f[j] => i = j
        /\ h = IF n = 0 THEN Nil ELSE f[1]
        /\ \A i \in 1 .. n : c[f[i]] = IF i = n THEN Nil ELSE f[i + 1]

(* The free records F, the pending ones P and those in somebody's hands    *)
(* are all the records there are.                                          *)
Lists(F, P) ==
    LET H == SenderHolds \cup TargetHolds IN
    /\ Chain(cdr, queue, F) /\ Chain(cdr, pend, P)
    /\ F \cap P = {} /\ H \cap (F \cup P) = {}
    /\ F \cup P \cup H = Rec

(* With P on the pending list, every interrupt is in one place only while  *)
(* it is on its way, and has not been run.                                 *)
Accounted(P) ==
    LET asked == {scode[s] : s \in Asking}
        filed == {car[r] : r \in P}
    IN  /\ \A s, t \in Asking : scode[s] = scode[t] => s = t
        /\ \A q, r \in P : car[q] = car[r] => q = r
        /\ asked \cap filed = {} /\ InHand \cap (asked \cup filed) = {}
        /\ \A c \in asked \cup filed \cup InHand : c \in 1 .. sent /\ handled[c] = 0
        /\ \A c \in Code : handled[c] <= 1 /\ (handled[c] > 0 => c <= sent)
        /\ \A c \in 1 .. sent : \/ handled[c] > 0 \/ c \in lost
                               \/ c \in asked \cup filed \cup InHand

(* A sender between queue_signal and do_interrupt_thread.                  *)
Posting == \E s \in Sender : spc[s] \in {"take", "link", "store", "kill"}

(* A record that is filled in continues the pending list.                  *)
SenderTidy(s) ==
    /\ spc[s] # "segv"
    /\ spc[s] \notin {"link", "store"} => srec[s] = Nil
    /\ spc[s] = "store" => cdr[srec[s]] = pend /\ car[srec[s]] = scode[s]

(* Nor has the list moved under a frame, and the record it took off is     *)
(* still there if it has to go back.                                       *)
FrameTidy(f) ==
    /\ f.at \in {"popLock", "popUpdate"} => f.rec = pend
    /\ f.at = "qStore" => cdr[f.rec] = pend /\ car[f.rec] = f.code
    /\ f.at \in {"popUnlock", "decide", "qTake"} => queue # Nil
    /\ f.at \in {"qTake", "qLink", "qStore"} /\ lisp => dis # 0
    /\ f.at = "protect" => dis # 0 /\ pend # Nil

(* In orderly settings there is one call or handler at a time, and no call *)
(* of ecl_interrupt_process until the signal while there is one.           *)
Tidy ==
    /\ Len(ctx) <= 1
    /\ Posting \/ sig => ctx = <<>>
    /\ ~mode.prompt => ~(Posting /\ sig)
    /\ blocked => ctx # <<>> /\ Top.kind = "handler"
    /\ mode.sections = {} => dis = 0
    /\ ~mode.lispSections => lisp
    /\ prot => mode.discipline = "serial" /\ ctx = <<>> /\ pend # Nil /\ ~sig /\ ~Posting
    /\ sent <= mode.sends
    /\ \A s \in Sender : SenderTidy(s)
    /\ ctx # <<>> => FrameTidy(Top)
    /\ \E F, P \in SUBSET Rec : Lists(F, P) /\ Accounted(P)

(* What makes SectionsRespected inductive, with the discipline of the      *)
(* queue lock (queue_signal, pop_signal, ecl_interrupt_process), and in    *)
(* orderly settings RecordsConserved and HandledOnce.                      *)
InterruptsInv ==
    /\ InterruptsTypeOK
    /\ \A s \in Sender : SenderOK(s)
    /\ \A i \in 1 .. Len(ctx) : FrameOK(ctx[i])
    /\ prot => lisp
    /\ sect = "alloc" => dis # 0
    /\ QueueLockOK
    /\ Orderly => Tidy

(* The free list and the pending list share no record and end in NIL, and  *)
(* no record is leaked: queue_signal and pop_signal move records between   *)
(* the two lists and drop none.                                            *)
RecordsConserved ==
    Orderly =>
    /\ Ends(queue) /\ Ends(pend)
    /\ Members(queue) \cap Members(pend) = {}
    /\ (SenderHolds \cup TargetHolds) \cap (Members(queue) \cup Members(pend)) = {}
    /\ Rec = Members(queue) \cup Members(pend) \cup SenderHolds \cup TargetHolds

(* An interrupt is run at most once, and one that was sent has been run,   *)
(* was dropped because the queue was full, or is still on its way: the     *)
(* lists neither repeat nor forget one.                                    *)
HandledOnce ==
    Orderly =>
    /\ \A c \in Code : handled[c] <= 1
    /\ \A c \in 1 .. sent : handled[c] > 0 \/ c \in lost \/ c \in OnTheWay

(* A handler never runs in the body of a without-interrupts form, nor in   *)
(* the middle of a section that C code protected with                      *)
(* ecl_disable_interrupts, if the section does not write to the            *)
(* environment itself.                                                     *)
SectionsRespected == At("handle") => lisp /\ sect # "alloc"

(* Every interrupt sent to a target that uses no without-interrupts forms, *)
(* one after the other, is eventually run.                                 *)
EventuallyRun ==
    \A c \in Code :
        (mode.discipline = "serial" /\ sent >= c) ~> (handled[c] > 0)

(* An environment that is protected becomes writable again: the target is  *)
(* not left with its interrupts postponed for ever.                        *)
TrapSprings == (mode.discipline = "serial" /\ prot) ~> ~prot
=============================================================================
