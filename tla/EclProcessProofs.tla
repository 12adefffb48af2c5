--------------------------- MODULE EclProcessProofs ---------------------------
(***************************************************************************)
(* Proofs about EclProcess, for any number of processes, threads and users *)
(* and every mixture of calls.                                             *)
(*                                                                         *)
(* ProcessInv is what makes the properties inductive.  The exit lock of a  *)
(* process counts at least the threads that are past mp_get_lock, so no    *)
(* thread gives up a lock a joining user has; this needs no care on the    *)
(* side of those who enable processes.  With that care, what a process has *)
(* is determined by the place of its only thread.                          *)
(***************************************************************************)
EXTENDS EclProcess, FiniteSetTheorems, TLAPS

(* A set of natural numbers that is not empty has a least element.         *)
LEMMA NatMin ==
    ASSUME NEW T \in SUBSET Nat, T # {}
    PROVE  \E x \in T : \A y \in T : x <= y
<1> DEFINE R == OpToRel(<, Nat)
<1>1. PICK x \in T : \A y \in T : ~(<<y, x>> \in R)
  <2> HIDE DEF R
  <2> QED
    BY NatLessThanWellFounded, WFMin, Zenon DEF R
<1>2. R = {ss \in Nat \X Nat : ss[1] < ss[2]}
  BY Zenon DEF OpToRel
<1> HIDE DEF R
<1>3. ASSUME NEW y \in T
      PROVE  x <= y
  <2>1. <<y, x>> \notin {ss \in Nat \X Nat : ss[1] < ss[2]}
    BY <1>1, <1>2
  <2> QED
    BY <2>1
<1> QED
  BY <1>3


-----------------------------------------------------------------------------
(* ecl_remove_eq returns the list without the element, and nothing else    *)
(* is lost.                                                                *)
LEMMA RemoveEq ==
    ASSUME NEW S, NEW l \in Seq(S), NEW x
    PROVE  /\ ecl_remove_eq(x, l) \in Seq(S)
           /\ \A y : Contains(ecl_remove_eq(x, l), y) <=> Contains(l, y) /\ y # x
<1> DEFINE N == Len(l)
           Next(w, n) == IF n = 0 THEN <<>>
                         ELSE IF l[n] = x THEN w[n - 1] ELSE Append(w[n - 1], l[n])
           Good(w, n) == w \in [0 .. n -> Seq(S)] /\ \A i \in 0 .. n : w[i] = Next(w, i)
           copied == CHOOSE w : w = [n \in 0 .. N |-> Next(w, n)]
<1>1. N \in Nat /\ \A i \in 1 .. N : l[i] \in S
  OBVIOUS
<1>2. \A n \in 0 .. N : \E w : Good(w, n)
  <2> DEFINE T == {n \in 0 .. N : ~ \E w : Good(w, n)}
  <2> SUFFICES ASSUME T # {}
               PROVE  FALSE
    BY Zenon
  <2>0. T \in SUBSET Nat /\ T \subseteq 0 .. N
    BY <1>1
  <2>1. PICK m \in T : \A n \in T : m <= n
    <3> HIDE DEF T
    <3> QED
      BY <2>0, NatMin
  <2>5. \A n \in 0 .. N : n < m => n \notin T
    <3> HIDE DEF T
    <3> QED
      BY <1>1, <2>0, <2>1
  <2>2. CASE m = 0
    <3> DEFINE w == [i \in 0 .. 0 |-> <<>>]
    <3>1. Good(w, 0)
      OBVIOUS
    <3> QED
      BY <2>1, <2>2, <3>1, Zenon
  <2>3. CASE m # 0
    <3>0. m \in 0 .. N
      BY <2>0, <2>1
    <3>1. m \in 1 .. N /\ m - 1 \in 0 .. N /\ m - 1 \notin T
      <4> HIDE DEF T
      <4> QED
        BY <1>1, <2>3, <2>5, <3>0
    <3>2. PICK v : Good(v, m - 1)
      BY <3>1, Zenon
    <3> DEFINE w == [i \in 0 .. m |-> IF i = m THEN Next(v, m) ELSE v[i]]
    <3>3. v[m - 1] \in Seq(S) /\ l[m] \in S
      BY <1>1, <3>1, <3>2
    <3>4. Next(v, m) \in Seq(S)
      BY <3>1, <3>3
    <3>5. w \in [0 .. m -> Seq(S)]
      BY <3>1, <3>2, <3>4
    <3>6. ASSUME NEW i \in 0 .. m
          PROVE  w[i] = Next(w, i)
      <4>1. i # 0 => i - 1 \in 0 .. m - 1 /\ i - 1 \in 0 .. m /\ i - 1 # m
        BY <3>1
      <4>2. i # 0 => w[i - 1] = v[i - 1]
        BY <4>1
      <4>3. Next(w, i) = Next(v, i)
        BY <4>2
      <4>4. w[i] = Next(v, i)
        <5>1. CASE i = m
          BY <5>1
        <5>2. CASE i # m
          <6>1. i \in 0 .. m - 1 /\ w[i] = v[i]
            BY <3>1, <5>2
          <6> HIDE DEF Next
          <6> QED
            BY <3>2, <6>1
        <5> QED
          BY <5>1, <5>2
      <4> QED
        BY <4>3, <4>4
    <3>7. Good(w, m)
      BY <3>5, <3>6, Zenon
    <3> QED
      BY <2>1, <3>7, Zenon
  <2> QED
    BY <2>2, <2>3
<1>3. copied = [n \in 0 .. N |-> Next(copied, n)]
  <2>1. PICK w : Good(w, N)
    <3> HIDE DEF Good
    <3> QED
      BY <1>1, <1>2
  <2>2. w = [n \in 0 .. N |-> Next(w, n)]
    BY <2>1
  <2> QED
    BY <2>2, Zenon
<1>4. ecl_remove_eq(x, l) = copied[N]
  BY DEF ecl_remove_eq
<1> HIDE DEF copied
<1> DEFINE Right(n) == /\ copied[n] \in Seq(S)
                       /\ \A y : Contains(copied[n], y) <=> y # x /\ \E i \in 1 .. n : l[i] = y
<1>5. \A n \in 0 .. N : Right(n)
  <2> DEFINE T == {n \in 0 .. N : ~Right(n)}
  <2> SUFFICES ASSUME T # {}
               PROVE  FALSE
    BY Zenon
  <2>0. T \in SUBSET Nat /\ T \subseteq 0 .. N
    BY <1>1
  <2>1. PICK m \in T : \A n \in T : m <= n
    <3> HIDE DEF T
    <3> QED
      BY <2>0, NatMin
  <2>5. \A n \in 0 .. N : n < m => n \notin T
    <3> HIDE DEF T
    <3> QED
      BY <1>1, <2>0, <2>1
  <2>2. CASE m = 0
    <3>1. copied[0] = <<>>
      BY <1>1, <1>3
    <3>2. Right(0)
      BY <3>1 DEF Contains
    <3> QED
      BY <2>1, <2>2, <3>2
  <2>3. CASE m # 0
    <3>0. m \in 0 .. N
      BY <2>0, <2>1
    <3>1. m \in 1 .. N /\ m - 1 \in 0 .. N /\ m - 1 \notin T
      <4> HIDE DEF T
      <4> QED
        BY <1>1, <2>3, <2>5, <3>0
    <3>2. Right(m - 1)
      BY <3>1
    <3>3. copied[m] = IF l[m] = x THEN copied[m - 1] ELSE Append(copied[m - 1], l[m])
      <4>1. copied[m] = Next(copied, m)
        <5> HIDE DEF Next
        <5> QED
          BY <1>3, <3>0
      <4> QED
        BY <3>1, <4>1
    <3>4. \A y : (\E i \in 1 .. m : l[i] = y) <=> (\E i \in 1 .. m - 1 : l[i] = y) \/ l[m] = y
      <4>1. \A i : i \in 1 .. m <=> i \in 1 .. m - 1 \/ i = m
        BY <3>1
      <4> QED
        BY <4>1
    <3>5. PICK c : c = copied[m - 1]
      OBVIOUS
    <3>6. c \in Seq(S) /\ l[m] \in S
      BY <1>1, <3>1, <3>2, <3>5
    <3>7. /\ Append(c, l[m]) \in Seq(S)
          /\ \A y : Contains(Append(c, l[m]), y) <=> Contains(c, y) \/ y = l[m]
      <4> DEFINE d == Append(c, l[m])
      <4>1. /\ d \in Seq(S) /\ Len(d) = Len(c) + 1 /\ Len(c) \in Nat
            /\ d[Len(c) + 1] = l[m] /\ \A i \in 1 .. Len(c) : d[i] = c[i]
        BY <3>6
      <4> HIDE DEF d
      <4>2. \A y : Contains(d, y) <=> Contains(c, y) \/ y = l[m]
        BY <4>1 DEF Contains
      <4> QED
        BY <4>1, <4>2 DEF d
    <3>8. CASE l[m] = x
      <4>1. copied[m] = c
        BY <3>3, <3>5, <3>8
      <4>2. Right(m)
        BY <3>2, <3>4, <3>5, <3>8, <4>1
      <4> QED
        BY <2>1, <4>2
    <3>9. CASE l[m] # x
      <4>1. copied[m] = Append(c, l[m])
        BY <3>3, <3>5, <3>9
      <4>2. Right(m)
        BY <3>2, <3>4, <3>5, <3>7, <3>9, <4>1, Zenon
      <4> QED
        BY <2>1, <4>2
    <3> QED
      BY <3>8, <3>9
  <2> QED
    BY <2>2, <2>3
<1>6. Right(N)
  <2>1. N \in 0 .. N
    BY <1>1
  <2> HIDE DEF Right, N
  <2> QED
    BY <1>5, <2>1
<1>7. \A y : Contains(l, y) <=> \E i \in 1 .. N : l[i] = y
  BY DEF Contains
<1> QED
  BY <1>4, <1>6, <1>7

-----------------------------------------------------------------------------
UserPlaces ==
    {"idle", "create", "wait", "release", "waited", "joined", "queue",
     "quitKill", "killCheck", "quitJoin", "joinCheck", "left", "segv"}

UserRecord ==
    [at : UserPlaces, p : Proc \cup {Nil}, all : Seq(Proc), rest : Seq(Proc \cup {Nil}),
     exits : SUBSET Thread]

LockRecord ==
    [holder : Proc \cup User \cup {Nil}, count : Nat, mutex : Thread \cup User \cup {Nil}]

(* The conjuncts of ProcessTypeOK about processes, threads and one user.   *)
ProcTypes ==
    /\ active \in [Proc -> 0 .. 2]
    /\ env \in [Proc -> Thread \cup {Nil}]
    /\ exitLock \in [Proc -> LockRecord]
    /\ processes \in Seq(Proc)

ThreadTypes ==
    /\ proc \in [Thread -> Proc \cup {Nil}]
    /\ pc \in [Thread -> Places]
    /\ mem \in [Thread -> {"none", "raw", "ready", "freed"}]
    /\ dis \in [Thread -> {0, 1}]
    /\ pending \in [Thread -> BOOLEAN]
    /\ \A t \in Thread : pc[t] # "unborn" => proc[t] \in Proc

GoodUser(r) ==
    /\ r \in UserRecord
    /\ r.at \in {"create", "wait", "release", "queue", "killCheck", "joinCheck"} => r.p \in Proc
    /\ r.at \in {"quitKill", "killCheck", "quitJoin", "joinCheck"} => r.rest # <<>>
    /\ r.rest # <<>> => r.rest[Len(r.rest)] = Nil /\ r.exits = {}

UserTypes ==
    /\ usr \in [User -> UserRecord]
    /\ \A u \in User : GoodUser(usr[u])

(* ProcessTypeOK is their conjunction.                                     *)
LEMMA TypeParts == ProcessTypeOK <=> ProcTypes /\ ThreadTypes /\ UserTypes /\ careful \in BOOLEAN
<1>1. usr \in [User -> UserRecord] => \A u \in User : usr[u] \in UserRecord
  OBVIOUS
<1> QED
  BY <1>1, Zenon DEF ProcessTypeOK, ProcTypes, ThreadTypes, UserTypes, GoodUser, UserRecord,
                     UserPlaces, LockRecord

(* A record of a user that is in no call.                                  *)
LEMMA IdleGood == GoodUser(Idle)
<1>1. /\ Idle.at = "idle" /\ Idle.p = Nil /\ Idle.exits = {}
      /\ Idle.all = <<>> /\ Idle.rest = <<>>
  BY DEF Idle
<1>2. Idle \in UserRecord
  BY DEF Idle, UserRecord, UserPlaces
<1> QED
  BY <1>1, <1>2 DEF GoodUser

(* The fields of the same.                                                 *)
LEMMA IdleRecord ==
    /\ Idle \in UserRecord
    /\ Idle.at = "idle" /\ Idle.rest = <<>> /\ Idle.exits = {}
BY IdleGood DEF GoodUser, Idle

(* One user's record is replaced.                                          *)
LEMMA OneUser ==
    ASSUME UserTypes, NEW u \in User, NEW r, GoodUser(r), usr' = [usr EXCEPT ![u] = r]
    PROVE  /\ UserTypes'
           /\ usr'[u] = r
           /\ \A v \in User \ {u} : usr'[v] = usr[v]
<1>1. r \in UserRecord
  BY DEF GoodUser
<1>2. usr' \in [User -> UserRecord] /\ usr'[u] = r /\ \A v \in User \ {u} : usr'[v] = usr[v]
  BY <1>1 DEF UserTypes
<1>3. \A v \in User : GoodUser(usr'[v])
  BY <1>2 DEF UserTypes
<1> QED
  BY <1>2, <1>3 DEF UserTypes

(* The lists quit works off.                                               *)
LEMMA QuitLists ==
    ASSUME NEW s \in Seq(Proc)
    PROVE  /\ Append(s, Nil) \in Seq(Proc \cup {Nil}) /\ Append(s, Nil) # <<>>
           /\ Append(s, Nil)[Len(Append(s, Nil))] = Nil
<1>1. s \in Seq(Proc \cup {Nil})
  OBVIOUS
<1>2. PICK r : r = Append(s, Nil)
  BY Zenon
<1>3. r \in Seq(Proc \cup {Nil}) /\ Len(r) = Len(s) + 1 /\ r[Len(s) + 1] = Nil /\ Len(s) \in Nat
  BY <1>1, <1>2
<1> QED
  BY <1>2, <1>3

(* The next one of a list that ends with NIL.                              *)
LEMMA QuitNext ==
    ASSUME NEW s \in Seq(Proc \cup {Nil}), s # <<>>, s[Len(s)] = Nil, Head(s) # Nil
    PROVE  /\ Head(s) \in Proc
           /\ Tail(s) \in Seq(Proc \cup {Nil}) /\ Tail(s) # <<>>
           /\ Tail(s)[Len(Tail(s))] = Nil
<1>1. Head(s) = s[1] /\ Len(s) \in Nat \ {0} /\ s[1] \in Proc \cup {Nil}
  OBVIOUS
<1>2. Len(s) >= 2
  BY <1>1
<1>3. PICK r : r = Tail(s)
  BY Zenon
<1>4. r \in Seq(Proc \cup {Nil}) /\ Len(r) = Len(s) - 1 /\ \A i \in 1 .. Len(r) : r[i] = s[i + 1]
  BY <1>1, <1>3
<1>5. r[Len(s) - 1] = s[Len(s)]
  BY <1>1, <1>2, <1>4
<1>6. r # <<>> /\ r[Len(r)] = Nil
  BY <1>1, <1>2, <1>4, <1>5
<1> QED
  BY <1>1, <1>3, <1>4, <1>6

-----------------------------------------------------------------------------
(* The parts of ProcessInv that hold without care.                         *)
LocksOK == (\A p \in Proc : ExitLockOK(p)) /\ (\A u \in User : WaitOK(u))

(* Which threads have the exit lock, by processes.                         *)
LEMMA ExitingFacts ==
    ASSUME NEW p
    PROVE  Exiting(p) = {t \in Thread : proc[t] = p /\ pc[t] \in WithExitLock}
BY DEF Exiting, RunBy, Alive, WithExitLock

(* A user whose record changes without the lock, or none.                  *)
Unlocked(u) ==
    \/ usr'[u] = usr[u]
    \/ /\ usr[u].at # "release" /\ usr'[u].at \notin {"release", "waited"}
       /\ usr'[u].at = "wait" => \A t \in usr'[u].exits :
             proc'[t] = usr'[u].p /\ pc'[t] \in WithExitLock \cup Leaving

(* The exit locks stay right as long as no thread comes past mp_get_lock   *)
(* and no user takes one.                                                  *)
LEMMA LocksKept ==
    ASSUME LocksOK, ProcTypes, ThreadTypes, UserTypes, UNCHANGED exitLock,
           \A u \in User : Unlocked(u),
           \A t \in Thread : /\ pc'[t] \in WithExitLock =>
                                    pc[t] \in WithExitLock /\ proc'[t] = proc[t]
                             /\ pc[t] \in WithExitLock \cup Leaving =>
                                    pc'[t] \in WithExitLock \cup Leaving /\ proc'[t] = proc[t]
                             /\ pc[t] \in Leaving => pc'[t] \in Leaving
    PROVE  LocksOK'
<1> USE ProcessAssumption
<1>1. ASSUME NEW p \in Proc
      PROVE  ExitLockOK(p)'
  <2>1. Exiting(p)' \subseteq Exiting(p) /\ Exiting(p) \subseteq Thread
    BY ExitingFacts DEF Leaving, Exiting, RunBy, Alive, WithExitLock
  <2>2. IsFiniteSet(Exiting(p)) /\ Cardinality(Exiting(p)') <= Cardinality(Exiting(p))
        /\ Cardinality(Exiting(p)') \in Nat /\ Cardinality(Exiting(p)) \in Nat
    BY <2>1, FS_Subset, FS_CardinalityType
  <2>3. ExitLockOK(p)
    BY DEF LocksOK
  <2>4. PICK n : n = IF exitLock[p].holder = p THEN exitLock[p].count ELSE 0
    OBVIOUS
  <2>5. n \in Nat /\ Cardinality(Exiting(p)) <= n
    BY <2>3, <2>4 DEF ExitLockOK, ProcTypes, LockRecord
  <2>6. Cardinality(Exiting(p)') <= n
    BY <2>2, <2>5
  <2>7. ASSUME exitLock[p].holder \in User
        PROVE  usr'[exitLock[p].holder].at = "release" /\ usr'[exitLock[p].holder].p = p
    <3>1. PICK v \in User : v = exitLock[p].holder
      BY <2>7
    <3>2. usr[v].at = "release" /\ usr[v].p = p
      BY <2>3, <3>1 DEF ExitLockOK
    <3>3. usr'[v] = usr[v]
      BY <3>2 DEF Unlocked
    <3> QED
      BY <3>1, <3>2, <3>3
  <2> QED
    BY <2>3, <2>4, <2>6, <2>7 DEF ExitLockOK
<1>2. ASSUME NEW u \in User
      PROVE  WaitOK(u)'
  <2>1. usr[u].exits \subseteq Thread /\ WaitOK(u) /\ Unlocked(u)
    BY DEF UserTypes, UserRecord, LocksOK
  <2>2. CASE usr'[u] = usr[u]
    BY <2>1, <2>2 DEF WaitOK
  <2>3. CASE usr'[u] # usr[u]
    BY <2>1, <2>3 DEF WaitOK, Unlocked
  <2> QED
    BY <2>2, <2>3
<1> QED
  BY <1>1, <1>2 DEF LocksOK

(* A lock whose mutex is free has no holder and no thread inside.          *)
LEMMA FreeLock ==
    ASSUME LocksOK, ProcTypes, ThreadTypes, NEW p \in Proc
    PROVE  /\ exitLock[p] \in LockRecord
           /\ exitLock[p].mutex = Nil => exitLock[p].holder = Nil
           /\ exitLock[p].holder # p => Exiting(p) = {}
           /\ Exiting(p) # {} => exitLock[p].holder = p /\ exitLock[p].count >= 1
<1> USE ProcessAssumption
<1>1. ExitLockOK(p) /\ exitLock[p] \in LockRecord
  BY DEF LocksOK, ProcTypes
<1>2. exitLock[p].mutex = Nil => exitLock[p].holder = Nil
  BY <1>1 DEF ExitLockOK, LockRecord
<1>3. Exiting(p) \subseteq Thread
  BY ExitingFacts
<1>4. IsFiniteSet(Exiting(p)) /\ Cardinality(Exiting(p)) \in Nat
  BY <1>3, FS_Subset, FS_CardinalityType
<1>5. Cardinality(Exiting(p)) = 0 <=> Exiting(p) = {}
  BY <1>4, FS_EmptySet
<1>6. PICK c : c = Cardinality(Exiting(p))
  OBVIOUS
<1>7. c \in Nat /\ c <= IF exitLock[p].holder = p THEN exitLock[p].count ELSE 0
  BY <1>1, <1>4, <1>6 DEF ExitLockOK
<1>8. exitLock[p].count \in Nat
  BY <1>1 DEF LockRecord
<1> QED
  BY <1>1, <1>2, <1>5, <1>6, <1>7, <1>8

(* The lock of p changes and nobody else's; no user that is releasing is   *)
(* concerned.                                                              *)
LEMMA LockChanged ==
    ASSUME LocksOK, ProcTypes, ThreadTypes, UserTypes, NEW p \in Proc,
           exitLock' = [exitLock EXCEPT ![p] = exitLock'[p]],
           ExitLockOK(p)',
           \A q \in Proc \ {p} : Exiting(q)' = Exiting(q),
           \A u \in User : usr'[u] = usr[u] \/ (usr[u].at = "release" => usr[u].p = p),
           \A u \in User : WaitOK(u)'
    PROVE  LocksOK'
<1>1. ASSUME NEW q \in Proc, q # p
      PROVE  ExitLockOK(q)'
  <2>1. exitLock'[q] = exitLock[q] /\ Exiting(q)' = Exiting(q) /\ ExitLockOK(q)
    BY <1>1 DEF ProcTypes, LocksOK
  <2>2. ASSUME exitLock[q].holder \in User
        PROVE  usr'[exitLock[q].holder].at = "release" /\ usr'[exitLock[q].holder].p = q
    <3>1. PICK v \in User : v = exitLock[q].holder
      BY <2>2
    <3>2. usr[v].at = "release" /\ usr[v].p = q
      BY <2>1, <3>1 DEF ExitLockOK
    <3>3. usr'[v] = usr[v]
      BY <1>1, <3>2
    <3> QED
      BY <3>1, <3>2, <3>3
  <2> QED
    BY <2>1, <2>2 DEF ExitLockOK
<1> QED
  BY <1>1, Zenon DEF LocksOK

(* mp_get_lock in a thread that starts.                                    *)
LEMMA TakeLocks ==
    ASSUME LocksOK, ProcTypes, ThreadTypes, UserTypes, NEW t \in Thread, TakeExitLock(t)
    PROVE  LocksOK' /\ ProcTypes'
<1> USE ProcessAssumption
<1>0. PICK p \in Proc : p = proc[t]
  BY DEF TakeExitLock, ThreadTypes
<1>1. /\ pc[t] = "lock" /\ pc' = [pc EXCEPT ![t] = "activate"]
      /\ UNCHANGED <<active, env, processes, proc, usr>>
      /\ GetExitLock(p, p, t)
  BY <1>0 DEF TakeExitLock, Goto
<1>2. ExitLockOK(p) /\ exitLock[p] \in LockRecord
  BY FreeLock DEF LocksOK
<1>3. /\ exitLock' = [exitLock EXCEPT ![p] = exitLock'[p]] /\ exitLock'[p] \in LockRecord
      /\ exitLock'[p].holder = p
      /\ \/ /\ exitLock[p].holder = p /\ exitLock'[p].count = exitLock[p].count + 1
            /\ exitLock'[p].mutex = exitLock[p].mutex
         \/ /\ exitLock[p].holder = Nil /\ exitLock'[p].count = 1 /\ exitLock'[p].mutex = t
  <2>1. CASE exitLock[p].holder = p
    <3>1. exitLock' = [exitLock EXCEPT ![p] = [exitLock[p] EXCEPT !.count = exitLock[p].count + 1]]
      BY <1>1, <2>1 DEF GetExitLock
    <3>2. PICK r : r = [exitLock[p] EXCEPT !.count = exitLock[p].count + 1]
      BY Zenon
    <3>3. r \in LockRecord /\ r.holder = p /\ r.count = exitLock[p].count + 1
          /\ r.mutex = exitLock[p].mutex
      BY <1>2, <2>1, <3>2 DEF LockRecord
    <3>4. exitLock' = [exitLock EXCEPT ![p] = r] /\ exitLock'[p] = r
      BY <3>1, <3>2 DEF ProcTypes
    <3> QED
      BY <2>1, <3>3, <3>4, Zenon
  <2>2. CASE exitLock[p].holder # p
    <3>1. PICK r : r = [holder |-> p, count |-> 1, mutex |-> t]
      BY Zenon
    <3>2. exitLock[p].mutex = Nil /\ exitLock' = [exitLock EXCEPT ![p] = r] /\ exitLock'[p] = r
      BY <1>1, <2>2, <3>1 DEF GetExitLock, ProcTypes
    <3>3. exitLock[p].holder = Nil
      BY <3>2, FreeLock
    <3>4. r \in LockRecord /\ r.holder = p /\ r.count = 1 /\ r.mutex = t
      BY <3>1 DEF LockRecord
    <3> QED
      BY <3>2, <3>3, <3>4, Zenon
  <2> QED
    BY <2>1, <2>2
<1>4. ProcTypes'
  BY <1>1, <1>3 DEF ProcTypes
<1>5. Exiting(p)' = Exiting(p) \cup {t} /\ t \notin Exiting(p) /\ Exiting(p) \subseteq Thread
  BY <1>0, <1>1 DEF Exiting, RunBy, Alive, WithExitLock, ThreadTypes
<1>6. \A q \in Proc \ {p} : Exiting(q)' = Exiting(q)
  BY <1>0, <1>1 DEF Exiting, RunBy, Alive, WithExitLock, ThreadTypes
<1>7. Cardinality(Exiting(p)') = Cardinality(Exiting(p)) + 1 /\ Cardinality(Exiting(p)) \in Nat
  <2>1. IsFiniteSet(Exiting(p))
    BY <1>5, FS_Subset
  <2> QED
    BY <1>5, <2>1, FS_AddElement, FS_CardinalityType
<1>8. ExitLockOK(p)'
  <2>1. PICK c : c = Cardinality(Exiting(p))
    OBVIOUS
  <2>2. c \in Nat /\ Cardinality(Exiting(p)') = c + 1
        /\ c <= IF exitLock[p].holder = p THEN exitLock[p].count ELSE 0
    BY <1>2, <1>7, <2>1 DEF ExitLockOK
  <2>3. exitLock[p].count \in Nat /\ p # Nil
    BY <1>2 DEF LockRecord
  <2>4. exitLock'[p].count >= c + 1
    BY <1>3, <2>2, <2>3
  <2>5. exitLock'[p].count >= 1 /\ exitLock'[p].mutex \in Thread
    BY <1>2, <1>3, <2>3 DEF ExitLockOK
  <2> QED
    BY <1>3, <2>2, <2>4, <2>5 DEF ExitLockOK
<1>9. ASSUME NEW u \in User
      PROVE  WaitOK(u)'
  <2>1. WaitOK(u) /\ usr[u].exits \subseteq Thread
    BY DEF LocksOK, UserTypes, UserRecord
  <2>2. usr[u].at = "release" => exitLock'[usr[u].p].holder = u
    <3>1. CASE usr[u].at = "release"
      <4>1. exitLock[usr[u].p].holder = u /\ usr[u].p # p
        BY <1>3, <2>1, <3>1 DEF WaitOK
      <4>2. usr[u].p \in Proc
        BY <3>1 DEF UserTypes, GoodUser
      <4> QED
        BY <1>3, <4>1, <4>2 DEF ProcTypes
    <3> QED
      BY <3>1
  <2>3. \A x \in Thread : x # t => pc'[x] = pc[x]
    BY <1>1 DEF ThreadTypes
  <2>4. pc[t] \notin WithExitLock \cup Leaving
    BY <1>1 DEF WithExitLock, Leaving
  <2> QED
    BY <1>1, <2>1, <2>2, <2>3, <2>4 DEF WaitOK
<1> QED
  BY <1>1, <1>3, <1>4, <1>6, <1>8, <1>9, LockChanged

(* mp_giveup_lock in thread_cleanup.                                       *)
LEMMA LeaveLocks ==
    ASSUME LocksOK, ProcTypes, ThreadTypes, UserTypes, NEW t \in Thread, LeaveExitLock(t)
    PROVE  /\ LocksOK' /\ ProcTypes'
           /\ exitLock[proc[t]].count = 1 => exitLock'[proc[t]].holder = Nil
<1> USE ProcessAssumption
<1>0. PICK p \in Proc : p = proc[t]
  BY DEF LeaveExitLock, ThreadTypes
<1>1. /\ pc[t] = "giveup" /\ pc' = [pc EXCEPT ![t] = "remove"]
      /\ UNCHANGED <<active, env, processes, proc, usr>>
      /\ GiveupExitLock(p, t)
  BY <1>0 DEF LeaveExitLock, Goto
<1>2. ExitLockOK(p) /\ exitLock[p] \in LockRecord
  BY FreeLock DEF LocksOK
<1>3. t \in Exiting(p) /\ Exiting(p)' = Exiting(p) \ {t} /\ Exiting(p) \subseteq Thread
  BY <1>0, <1>1 DEF Exiting, RunBy, Alive, WithExitLock, ThreadTypes
<1>4. exitLock[p].holder = p /\ exitLock[p].count \in Nat /\ exitLock[p].count >= 1
      /\ exitLock[p].mutex \in Thread
  BY <1>2, <1>3, FreeLock DEF LockRecord, ExitLockOK
<1>5. /\ exitLock' = [exitLock EXCEPT ![p] = exitLock'[p]] /\ exitLock'[p] \in LockRecord
      /\ exitLock'[p].count = exitLock[p].count - 1
      /\ exitLock'[p].mutex \in Thread \cup {Nil}
      /\ IF exitLock[p].count > 1
         THEN exitLock'[p].holder = p /\ exitLock'[p].mutex \in Thread
         ELSE exitLock'[p].holder = Nil
  <2> DEFINE lk == exitLock[p]
  <2>1. CASE lk.count > 1
    <3>1. exitLock' = [exitLock EXCEPT ![p] = [lk EXCEPT !.count = lk.count - 1]]
      BY <1>1, <2>1, Zenon DEF GiveupExitLock
    <3>2. PICK r : r = [lk EXCEPT !.count = lk.count - 1]
      BY Zenon
    <3>3. r \in LockRecord /\ r.holder = p /\ r.count = lk.count - 1 /\ r.mutex = lk.mutex
      BY <1>2, <1>4, <2>1, <3>2 DEF LockRecord
    <3>4. exitLock' = [exitLock EXCEPT ![p] = r] /\ exitLock'[p] = r
      BY <3>1, <3>2 DEF ProcTypes
    <3> QED
      BY <1>4, <2>1, <3>3, <3>4, Zenon
  <2>2. CASE ~(lk.count > 1)
    <3>1. PICK r : r = [holder |-> Nil, count |-> 0,
                        mutex |-> IF lk.mutex = t THEN Nil ELSE lk.mutex]
      BY Zenon
    <3>2. exitLock' = [exitLock EXCEPT ![p] = r] /\ exitLock'[p] = r
      BY <1>1, <2>2, <3>1, Zenon DEF GiveupExitLock, ProcTypes
    <3>3. r \in LockRecord /\ r.holder = Nil /\ r.count = 0 /\ r.mutex \in Thread \cup {Nil}
      BY <1>4, <3>1 DEF LockRecord
    <3>4. lk.count = 1 /\ 0 = lk.count - 1
      BY <1>4, <2>2
    <3>5. exitLock' = [exitLock EXCEPT ![p] = exitLock'[p]]
      BY <3>2, Zenon
    <3> HIDE DEF lk
    <3> QED
      BY <2>2, <3>2, <3>3, <3>4, <3>5 DEF lk
  <2> QED
    BY <2>1, <2>2
<1>6. ProcTypes'
  BY <1>1, <1>5 DEF ProcTypes
<1>7. \A q \in Proc \ {p} : Exiting(q)' = Exiting(q)
  BY <1>0, <1>1 DEF Exiting, RunBy, Alive, WithExitLock, ThreadTypes
<1>8. Cardinality(Exiting(p)') = Cardinality(Exiting(p)) - 1 /\ Cardinality(Exiting(p)) \in Nat
  <2>1. IsFiniteSet(Exiting(p))
    BY <1>3, FS_Subset
  <2> QED
    BY <1>3, <2>1, FS_RemoveElement, FS_CardinalityType
<1>9. ExitLockOK(p)'
  <2>1. PICK c : c = Cardinality(Exiting(p))
    OBVIOUS
  <2>2. c \in Nat /\ Cardinality(Exiting(p)') = c - 1 /\ c <= exitLock[p].count
    BY <1>2, <1>4, <1>8, <2>1 DEF ExitLockOK
  <2>3. CASE exitLock[p].count > 1
    BY <1>4, <1>5, <2>2, <2>3 DEF ExitLockOK
  <2>4. CASE ~(exitLock[p].count > 1)
    BY <1>4, <1>5, <2>2, <2>4 DEF ExitLockOK
  <2> QED
    BY <2>3, <2>4
<1>10. ASSUME NEW u \in User
       PROVE  WaitOK(u)'
  <2>1. WaitOK(u) /\ usr[u].exits \subseteq Thread
    BY DEF LocksOK, UserTypes, UserRecord
  <2>2. usr[u].at = "release" => exitLock'[usr[u].p].holder = u
    <3>1. CASE usr[u].at = "release"
      <4>1. exitLock[usr[u].p].holder = u /\ usr[u].p # p
        BY <1>4, <2>1, <3>1 DEF WaitOK
      <4>2. usr[u].p \in Proc
        BY <3>1 DEF UserTypes, GoodUser
      <4> QED
        BY <1>5, <4>1, <4>2 DEF ProcTypes
    <3> QED
      BY <3>1
  <2>3. \A x \in Thread : x # t => pc'[x] = pc[x]
    BY <1>1 DEF ThreadTypes
  <2>4. pc'[t] \in Leaving
    BY <1>1 DEF ThreadTypes, Leaving
  <2> QED
    BY <1>1, <2>1, <2>2, <2>3, <2>4 DEF WaitOK
<1>11. LocksOK'
  BY <1>1, <1>5, <1>7, <1>9, <1>10, LockChanged
<1>12. exitLock[p].count = 1 => exitLock'[p].holder = Nil
  BY <1>5
<1> QED
  BY <1>0, <1>6, <1>11, <1>12

(* mp_get_lock in mp_process_join: whoever was past it has left.           *)
LEMMA JoinLocks ==
    ASSUME LocksOK, ProcTypes, ThreadTypes, UserTypes, NEW u \in User, JoinLock(u)
    PROVE  /\ LocksOK' /\ ProcTypes' /\ UserTypes'
           /\ exitLock[usr[u].p].holder = Nil
           /\ exitLock' = [exitLock EXCEPT ![usr[u].p] = [holder |-> u, count |-> 1, mutex |-> u]]
<1> USE ProcessAssumption
<1>0. PICK p \in Proc : p = usr[u].p
  BY DEF JoinLock, UserTypes, GoodUser
<1>1. /\ usr[u].at = "wait"
      /\ UNCHANGED <<active, env, processes, proc, pc>>
      /\ GetExitLock(p, u, u)
      /\ usr' = [usr EXCEPT ![u].at = "release"]
  BY <1>0 DEF JoinLock, UGoto, threadVars
<1>2. ExitLockOK(p) /\ exitLock[p] \in LockRecord
  BY FreeLock DEF LocksOK
<1>3. exitLock[p].holder # u
  BY <1>1, <1>2 DEF ExitLockOK
<1>4. PICK r : r = [holder |-> u, count |-> 1, mutex |-> u]
  BY Zenon
<1>5. exitLock[p].mutex = Nil /\ exitLock' = [exitLock EXCEPT ![p] = r] /\ exitLock'[p] = r
  BY <1>1, <1>3, <1>4 DEF GetExitLock, ProcTypes
<1>6. r \in LockRecord /\ r.holder = u /\ r.count = 1 /\ r.mutex = u
  BY <1>4 DEF LockRecord
<1>7. exitLock[p].holder = Nil /\ Exiting(p) = {}
  BY <1>5, FreeLock
<1>8. ProcTypes'
  BY <1>1, <1>5, <1>6 DEF ProcTypes
<1>9. PICK g : g = [usr[u] EXCEPT !.at = "release"]
  BY Zenon
<1>10. /\ g.at = "release" /\ g.p = p /\ g.exits = usr[u].exits /\ g.rest = usr[u].rest
       /\ g \in UserRecord
  <2>1. usr[u] \in UserRecord
    BY DEF UserTypes
  <2>2. /\ g.at = "release" /\ g.p = usr[u].p /\ g.exits = usr[u].exits /\ g.rest = usr[u].rest
        /\ g.all = usr[u].all
        /\ g = [at |-> g.at, p |-> g.p, all |-> g.all, rest |-> g.rest, exits |-> g.exits]
    BY <1>9, <2>1 DEF UserRecord
  <2>3. /\ usr[u].p \in Proc \cup {Nil} /\ usr[u].all \in Seq(Proc)
        /\ usr[u].rest \in Seq(Proc \cup {Nil}) /\ usr[u].exits \in SUBSET Thread
    BY <2>1 DEF UserRecord
  <2>4. g.at \in UserPlaces
    BY <2>2 DEF UserPlaces
  <2>5. g \in UserRecord
    BY <2>2, <2>3, <2>4 DEF UserRecord
  <2> QED
    BY <1>0, <2>2, <2>5
<1>11. GoodUser(g)
  BY <1>10 DEF UserTypes, GoodUser
<1>12. usr' = [usr EXCEPT ![u] = g]
  BY <1>1, <1>9
<1>13. UserTypes' /\ usr'[u] = g /\ \A v \in User \ {u} : usr'[v] = usr[v]
  BY <1>11, <1>12, OneUser, Zenon
<1>14. \A q : Exiting(q)' = Exiting(q)
  BY <1>1, Zenon DEF Exiting, RunBy, Alive
<1>15. ExitLockOK(p)'
  <2>1. Exiting(p)' = {} /\ Cardinality(Exiting(p)') = 0
    BY <1>7, <1>14, FS_EmptySet
  <2> QED
    BY <1>5, <1>6, <1>10, <1>13, <2>1 DEF ExitLockOK
<1>16. ASSUME NEW v \in User
       PROVE  WaitOK(v)'
  <2>1. WaitOK(v) /\ usr[v].exits \subseteq Thread
    BY DEF LocksOK, UserTypes, UserRecord
  <2>2. CASE v = u
    <3>1. ASSUME NEW t \in usr[u].exits
          PROVE  pc[t] \in Leaving
      <4>1. t \in Thread /\ proc[t] = p /\ pc[t] \in WithExitLock \cup Leaving
        BY <1>0, <1>1, <2>1, <2>2 DEF WaitOK
      <4>2. t \notin Exiting(p)
        BY <1>7
      <4> QED
        BY <4>1, <4>2, ExitingFacts
    <3> QED
      BY <1>1, <1>5, <1>6, <1>10, <1>13, <2>2, <3>1, Zenon DEF WaitOK
  <2>3. CASE v # u
    <3>1. usr[v].at = "release" => exitLock'[usr[v].p].holder = v
      <4>1. ASSUME usr[v].at = "release"
            PROVE  exitLock'[usr[v].p].holder = v
        <5>1. exitLock[usr[v].p].holder = v /\ usr[v].p # p
          BY <1>7, <2>1, <4>1 DEF WaitOK
        <5>2. usr[v].p \in Proc
          BY <4>1 DEF UserTypes, GoodUser
        <5> QED
          BY <1>5, <5>1, <5>2 DEF ProcTypes
      <4> QED
        BY <4>1
    <3>2. usr'[v] = usr[v]
      BY <1>13, <2>3
    <3> QED
      BY <1>1, <2>1, <3>1, <3>2, Zenon DEF WaitOK
  <2> QED
    BY <2>2, <2>3
<1>17. exitLock' = [exitLock EXCEPT ![p] = exitLock'[p]]
  BY <1>5, Zenon
<1>18. \A v \in User : usr'[v] = usr[v] \/ (usr[v].at = "release" => usr[v].p = p)
  BY <1>1, <1>13
<1>19. LocksOK'
  BY <1>14, <1>15, <1>16, <1>17, <1>18, LockChanged, Zenon
<1> QED
  BY <1>0, <1>4, <1>5, <1>7, <1>8, <1>13, <1>19, Zenon

(* mp_giveup_lock in mp_process_join: the lock is free again.              *)
LEMMA UnlockLocks ==
    ASSUME LocksOK, ProcTypes, ThreadTypes, UserTypes, NEW u \in User, JoinUnlock(u)
    PROVE  /\ LocksOK' /\ ProcTypes' /\ UserTypes'
           /\ exitLock[usr[u].p].holder = u
           /\ exitLock' = [exitLock EXCEPT ![usr[u].p] = NoLock]
           /\ usr'[u].at # "create"
           /\ \A v \in User \ {u} : usr'[v] = usr[v]
<1> USE ProcessAssumption
<1>0. PICK p \in Proc : p = usr[u].p
  BY DEF JoinUnlock, UserTypes, GoodUser
<1>1. /\ usr[u].at = "release"
      /\ UNCHANGED <<active, env, processes, proc, pc>>
      /\ GiveupExitLock(p, u)
  BY <1>0, Zenon DEF JoinUnlock, threadVars
<1>2. /\ ExitLockOK(p) /\ exitLock[p] \in LockRecord /\ WaitOK(u)
      /\ usr[u].exits \subseteq Thread
  BY FreeLock, Zenon DEF LocksOK, UserTypes, UserRecord
<1>3. exitLock[p].holder = u /\ exitLock[p].count = 1 /\ exitLock[p].mutex = u
  BY <1>0, <1>1, <1>2 DEF ExitLockOK, WaitOK
<1>4. exitLock' = [exitLock EXCEPT ![p] = NoLock] /\ exitLock'[p] = NoLock
  <2>1. exitLock' = [exitLock EXCEPT ![p] = NoLock]
    BY <1>1, <1>3 DEF GiveupExitLock, NoLock
  <2> QED
    BY <2>1 DEF ProcTypes
<1>5. NoLock \in LockRecord /\ NoLock.holder = Nil /\ NoLock.count = 0 /\ NoLock.mutex = Nil
  BY DEF NoLock, LockRecord
<1>6. ProcTypes'
  BY <1>1, <1>4, <1>5 DEF ProcTypes
<1>7. PICK g : /\ usr' = [usr EXCEPT ![u] = g] /\ GoodUser(g)
               /\ g.at \in {"waited", "quitJoin"} /\ g.exits = usr[u].exits
  <2>0. usr[u] \in UserRecord /\ GoodUser(usr[u])
    BY DEF UserTypes
  <2>1. CASE usr[u].rest = <<>>
    <3>1. PICK g : g = [usr[u] EXCEPT !.at = "waited"]
      BY Zenon
    <3>2. g.at = "waited" /\ g.exits = usr[u].exits /\ g.rest = usr[u].rest /\ g \in UserRecord
      BY <2>0, <3>1 DEF UserRecord, UserPlaces
    <3>3. GoodUser(g)
      BY <2>0, <3>2 DEF GoodUser
    <3>4. usr' = [usr EXCEPT ![u] = g]
      BY <2>1, <3>1 DEF JoinUnlock, UGoto
    <3> QED
      BY <3>2, <3>3, <3>4, Zenon
  <2>2. CASE usr[u].rest # <<>>
    <3>1. PICK g : g = [usr[u] EXCEPT !.at = "quitJoin", !.p = Nil]
      OBVIOUS
    <3>2. /\ g.at = "quitJoin" /\ g.exits = usr[u].exits /\ g.rest = usr[u].rest
          /\ g \in UserRecord
      BY <2>0, <3>1, Zenon DEF UserRecord, UserPlaces
    <3>3. GoodUser(g)
      BY <2>0, <2>2, <3>2 DEF GoodUser
    <3>4. usr' = [usr EXCEPT ![u] = g]
      BY <2>2, <3>1, Zenon DEF JoinUnlock, BackToQuit
    <3> QED
      BY <3>2, <3>3, <3>4, Zenon
  <2> QED
    BY <2>1, <2>2
<1>8. UserTypes' /\ usr'[u] = g /\ \A v \in User \ {u} : usr'[v] = usr[v]
  BY <1>7, OneUser, Zenon
<1>9. \A q : Exiting(q)' = Exiting(q)
  BY <1>1, Zenon DEF Exiting, RunBy, Alive
<1>10. ExitLockOK(p)'
  <2>1. Exiting(p) = {}
    BY <1>3, FreeLock
  <2>2. Exiting(p)' = {} /\ Cardinality(Exiting(p)') = 0
    BY <1>9, <2>1, FS_EmptySet, Zenon
  <2> QED
    BY <1>4, <1>5, <2>2 DEF ExitLockOK
<1>11. ASSUME NEW v \in User
       PROVE  WaitOK(v)'
  <2>1. WaitOK(v) /\ usr[v].exits \subseteq Thread
    BY DEF LocksOK, UserTypes, UserRecord
  <2>2. CASE v = u
    BY <1>1, <1>2, <1>7, <1>8, <2>2, Zenon DEF WaitOK
  <2>3. CASE v # u
    <3>1. usr[v].at = "release" => exitLock'[usr[v].p].holder = v
      <4>1. ASSUME usr[v].at = "release"
            PROVE  exitLock'[usr[v].p].holder = v
        <5>1. exitLock[usr[v].p].holder = v /\ usr[v].p # p
          BY <1>3, <2>1, <2>3, <4>1 DEF WaitOK
        <5>2. usr[v].p \in Proc
          BY <4>1 DEF UserTypes, GoodUser
        <5> QED
          BY <1>4, <5>1, <5>2, Zenon DEF ProcTypes
      <4> QED
        BY <4>1
    <3>2. usr'[v] = usr[v]
      BY <1>8, <2>3
    <3> QED
      BY <1>1, <2>1, <3>1, <3>2, Zenon DEF WaitOK
  <2> QED
    BY <2>2, <2>3
<1>12. exitLock' = [exitLock EXCEPT ![p] = exitLock'[p]]
  BY <1>4, Zenon
<1>13. \A v \in User : usr'[v] = usr[v] \/ (usr[v].at = "release" => usr[v].p = p)
  BY <1>0, <1>8, Zenon
<1>14. LocksOK'
  BY <1>9, <1>10, <1>11, <1>12, <1>13, LockChanged
<1> QED
  BY <1>0, <1>3, <1>4, <1>6, <1>7, <1>8, <1>14, Zenon

-----------------------------------------------------------------------------
(* The exit locks after a step of one thread that leaves them alone.       *)
LEMMA ThreadLocks ==
    ASSUME LocksOK, ProcTypes, ThreadTypes, UserTypes, NEW t \in Thread, NEW x,
           UNCHANGED <<exitLock, proc, usr>>, pc' = [pc EXCEPT ![t] = x],
           x \in WithExitLock => pc[t] \in WithExitLock,
           pc[t] \in WithExitLock => x \in WithExitLock \cup Leaving,
           pc[t] \in Leaving => x \in Leaving
    PROVE  LocksOK'
<1>1. pc'[t] = x /\ \A s \in Thread \ {t} : pc'[s] = pc[s]
  BY DEF ThreadTypes
<1>2. \A u \in User : Unlocked(u)
  BY DEF Unlocked
<1>3. ASSUME NEW s \in Thread
      PROVE  /\ pc'[s] \in WithExitLock => pc[s] \in WithExitLock /\ proc'[s] = proc[s]
             /\ pc[s] \in WithExitLock \cup Leaving =>
                    pc'[s] \in WithExitLock \cup Leaving /\ proc'[s] = proc[s]
             /\ pc[s] \in Leaving => pc'[s] \in Leaving
  BY <1>1
<1> QED
  BY <1>2, <1>3, LocksKept

(* The threads' types after such a step.                                   *)
LEMMA ThreadPlace ==
    ASSUME ThreadTypes, NEW t \in Thread, NEW x \in Places, UNCHANGED proc,
           pc[t] # "unborn", pc' = [pc EXCEPT ![t] = x],
           mem' \in [Thread -> {"none", "raw", "ready", "freed"}],
           dis' \in [Thread -> {0, 1}], pending' \in [Thread -> BOOLEAN]
    PROVE  /\ ThreadTypes' /\ pc'[t] = x /\ \A s \in Thread \ {t} : pc'[s] = pc[s]
           /\ proc[t] \in Proc
BY Zenon DEF ThreadTypes

(* ThreadOK but for the pending interrupt, as a relation between values:   *)
(* thread, process, place, flag, memory, environment, whether the process  *)
(* is listed, whether it is active, and its exit lock.                     *)
PlaceOK(t, p, a, d, m, e, listed, act, lock) ==
    /\ a = "push" => d = 1
    /\ a \notin {"unborn", "dead"} => e = IF a = "start" THEN Nil ELSE t
    /\ a \in {"push", "init"} => m = "raw"
    /\ a \in {"lock", "remove", "dealloc"} \cup WithExitLock => m = "ready"
    /\ a = "wild" => m \in {"raw", "ready"}
    /\ a \in {"init", "lock", "remove"} \cup WithExitLock => listed
    /\ a \in {"start", "push", "dealloc"} => ~listed
    /\ a \in {"catch", "run", "inactive"} => act = 1
    /\ a \in {"start", "push", "init", "lock", "activate"} => act # 1
    /\ a \in {"giveup", "remove", "dealloc"} => act = 0
    /\ a \in WithExitLock => lock.holder = p /\ lock.count = 1
    /\ a \in {"start", "push", "init", "lock", "remove", "dealloc"} => lock.holder # p
    /\ a = "wild" /\ act = 1 => listed /\ lock.holder = p /\ lock.count = 1

(* The two say the same.                                                   *)
LEMMA ThreadAsPlace ==
    ASSUME NEW t
    PROVE  ThreadOK(t) <=>
             /\ pc[t] \in {"unborn", "start"} => ~pending[t]
             /\ PlaceOK(t, proc[t], pc[t], dis[t], mem[t], env[proc[t]], Listed(proc[t]),
                        active[proc[t]], exitLock[proc[t]])
<1>1. ASSUME ThreadOK(t)
      PROVE  /\ pc[t] \in {"unborn", "start"} => ~pending[t]
             /\ PlaceOK(t, proc[t], pc[t], dis[t], mem[t], env[proc[t]], Listed(proc[t]),
                        active[proc[t]], exitLock[proc[t]])
  BY <1>1, Zenon DEF ThreadOK, PlaceOK, Alive
<1>2. ASSUME /\ pc[t] \in {"unborn", "start"} => ~pending[t]
             /\ PlaceOK(t, proc[t], pc[t], dis[t], mem[t], env[proc[t]], Listed(proc[t]),
                        active[proc[t]], exitLock[proc[t]])
      PROVE  ThreadOK(t)
  BY <1>2, Zenon DEF ThreadOK, PlaceOK, Alive
<1> QED
  BY <1>1, <1>2, Zenon

(* The same in the next state.                                             *)
LEMMA ThreadAsPlaceNext ==
    ASSUME NEW t, pc'[t] \in {"unborn", "start"} => ~pending'[t],
           PlaceOK(t, proc'[t], pc'[t], dis'[t], mem'[t], env'[proc'[t]], Listed(proc[t])',
                   active'[proc'[t]], exitLock'[proc'[t]])
    PROVE  ThreadOK(t)'
BY Zenon DEF ThreadOK, PlaceOK, Alive

(* A thread whose place says nothing of its process.                       *)
LEMMA PlaceOut ==
    ASSUME NEW t, pc'[t] \in {"unborn", "dead"}, pc'[t] \in {"unborn", "start"} => ~pending'[t]
    PROVE  ThreadOK(t)'
<1>1. ASSUME NEW p, NEW a \in {"unborn", "dead"}, NEW d, NEW m, NEW e, NEW listed, NEW act, NEW lock
      PROVE  PlaceOK(t, p, a, d, m, e, listed, act, lock)
  BY DEF PlaceOK, WithExitLock
<1>2. PlaceOK(t, proc'[t], pc'[t], dis'[t], mem'[t], env'[proc'[t]], Listed(proc[t])',
              active'[proc'[t]], exitLock'[proc'[t]])
  BY <1>1
<1> QED
  BY <1>2, ThreadAsPlaceNext

(* A lock that the process does not have, before and after.                *)
LEMMA PlaceLock ==
    ASSUME NEW t, NEW p, NEW a, NEW d, NEW m, NEW e, NEW listed, NEW act, NEW k, NEW l,
           PlaceOK(t, p, a, d, m, e, listed, act, k), k.holder # p, l.holder # p
    PROVE  PlaceOK(t, p, a, d, m, e, listed, act, l)
BY Zenon DEF PlaceOK

(* A step that changes nothing for a thread but a lock among others.       *)
LEMMA SamePlace ==
    ASSUME NEW s, NEW q, ThreadOK(s), q = proc[s], q = proc'[s],
           pc'[s] = pc[s], mem'[s] = mem[s], dis'[s] = dis[s],
           pending'[s] = pending[s] \/ pc[s] \notin {"unborn", "start"},
           env'[q] = env[q], active'[q] = active[q], Listed(q)' = Listed(q),
           \/ exitLock'[q] = exitLock[q]
           \/ exitLock[q].holder # q /\ exitLock'[q].holder # q
    PROVE  ThreadOK(s)'
<1>1. /\ pc[s] \in {"unborn", "start"} => ~pending[s]
      /\ PlaceOK(s, q, pc[s], dis[s], mem[s], env[q], Listed(q), active[q], exitLock[q])
  BY ThreadAsPlace, Zenon
<1>2. PlaceOK(s, q, pc[s], dis[s], mem[s], env[q], Listed(q), active[q], exitLock'[q])
  BY <1>1, PlaceLock, Zenon
<1>3. PlaceOK(s, q, pc'[s], dis'[s], mem'[s], env'[q], Listed(q)', active'[q], exitLock'[q])
  BY <1>2, Zenon
<1>4. pc'[s] \in {"unborn", "start"} => ~pending'[s]
  BY <1>1, Zenon
<1> QED
  BY <1>3, <1>4, ThreadAsPlaceNext

(* The frame of a step of the thread t of p.                               *)
Others(t, p) ==
    /\ UNCHANGED <<proc, usr>>
    /\ \A s \in Thread \ {t} : /\ pc'[s] = pc[s] /\ mem'[s] = mem[s]
                               /\ dis'[s] = dis[s] /\ pending'[s] = pending[s]
    /\ \A q \in Proc \ {p} : /\ env'[q] = env[q] /\ active'[q] = active[q]
                             /\ exitLock'[q] = exitLock[q] /\ Listed(q)' = Listed(q)

(* A step of the only thread of a process.                                 *)
LEMMA SingleStep ==
    ASSUME SingleOK, ThreadTypes, NEW t \in Thread, NEW p \in Proc, p = proc[t],
           Alive(t), pc'[t] # "unborn", Others(t, p), ThreadOK(t)',
           pc'[t] = "dead" =>
               env'[p] = Nil /\ ~Listed(p)' /\ active'[p] = 0 /\ exitLock'[p].holder # p
    PROVE  SingleOK'
<1>1. \A s \in Thread : /\ Alive(s)' => Alive(s) /\ proc'[s] = proc[s]
                        /\ s # t => Alive(s)' = Alive(s)
  BY Zenon DEF Others, Alive
<1>2. \A r, s \in Thread : Alive(r)' /\ Alive(s)' /\ proc'[r] = proc'[s] => r = s
  BY <1>1 DEF SingleOK
<1>3. ASSUME NEW s \in Thread
      PROVE  ThreadOK(s)'
  <2>1. CASE s = t
    BY <2>1
  <2>2. CASE s # t /\ Alive(s)
    <3>1. proc[s] \in Proc \ {p}
      BY <2>2, Zenon DEF SingleOK, ThreadTypes, Alive
    <3>2. PICK q \in Proc \ {p} : q = proc[s] /\ q = proc'[s]
      BY <3>1 DEF Others
    <3>3. /\ pc'[s] = pc[s] /\ mem'[s] = mem[s] /\ dis'[s] = dis[s] /\ pending'[s] = pending[s]
          /\ env'[q] = env[q] /\ active'[q] = active[q] /\ exitLock'[q] = exitLock[q]
          /\ Listed(q)' = Listed(q) /\ Alive(s)' = Alive(s)
      BY <1>1, <2>2, Zenon DEF Others
    <3>4. ThreadOK(s)
      BY Zenon DEF SingleOK
    <3> QED
      BY <3>2, <3>3, <3>4, SamePlace, Zenon
  <2>3. CASE s # t /\ ~Alive(s)
    <3>1. pc'[s] = pc[s] /\ pending'[s] = pending[s] /\ pc[s] \in {"unborn", "dead"} /\ ~Alive(s)'
      BY <1>1, <2>3, Zenon DEF Others, Alive
    <3>2. pc[s] = "unborn" => ~pending[s]
      BY DEF SingleOK, ThreadOK
    <3>3. /\ pc'[s] \in {"unborn", "dead"}
          /\ pc'[s] \in {"unborn", "start"} => ~pending'[s]
      BY ONLY <3>1, <3>2, SMT
    <3> QED
      BY <3>3, PlaceOut
  <2> QED
    BY <2>1, <2>2, <2>3, Zenon
<1>4. \A q \in Proc : RunBy(q)' \subseteq RunBy(q)
  BY <1>1 DEF RunBy
<1>5. ASSUME NEW u \in User, usr'[u].at = "create"
      PROVE  /\ usr'[u].p \in Created /\ RunBy(usr[u].p)' = {}
             /\ \A v \in User : usr'[v].at = "create" /\ usr'[v].p = usr'[u].p => v = u
  <2>1. PICK q \in Proc : q = usr[u].p
    BY <1>5 DEF SingleOK, Others, Created
  <2>2. usr' = usr /\ RunBy(q) = {} /\ q \in Created
        /\ \A v \in User : usr[v].at = "create" /\ usr[v].p = q => v = u
    BY <1>5, <2>1, Zenon DEF SingleOK, Others
  <2>3. RunBy(q)' = {}
    BY <1>4, <2>2, Zenon
  <2> QED
    BY <2>1, <2>2, <2>3, Zenon
<1>6. ASSUME NEW q \in Proc, RunBy(q)' = {}
      PROVE  env'[q] = Nil /\ ~Listed(q)' /\ active'[q] = 0 /\ exitLock'[q].holder # q
  <2>1. CASE q = p
    <3>1. ~Alive(t)'
      BY <1>6, <2>1, Zenon DEF RunBy, Others
    <3> QED
      BY <2>1, <3>1, Zenon DEF Alive
  <2>2. CASE q # p
    <3>1. RunBy(q) = {}
      BY <1>1, <1>6, <2>2, Zenon DEF RunBy, Others
    <3> QED
      BY <2>2, <3>1, Zenon DEF SingleOK, Others
  <2> QED
    BY <2>1, <2>2
<1>7. usr' = usr
  BY DEF Others
<1> QED
  BY <1>2, <1>3, <1>5, <1>6, <1>7, Zenon DEF SingleOK

(* A step of a user that starts no thread: a lock comes or goes between    *)
(* users only, an interrupt is queued only for a thread that has an        *)
(* environment, and a process about to have a thread has no other.         *)
LEMMA SingleUsers ==
    ASSUME SingleOK, ThreadTypes, UNCHANGED <<active, env, processes, proc, pc, mem, dis>>,
           \A q \in Proc : \/ exitLock'[q] = exitLock[q]
                           \/ exitLock[q].holder # q /\ exitLock'[q].holder # q,
           \A t \in Thread : pending'[t] = pending[t] \/ pc[t] \notin {"unborn", "start"},
           \A u \in User : usr'[u].at = "create" =>
               /\ usr'[u].p \in Created /\ RunBy(usr'[u].p) = {}
               /\ \A v \in User : usr'[v].at = "create" /\ usr'[v].p = usr'[u].p => v = u
    PROVE  SingleOK'
<1>1. /\ \A s \in Thread : Alive(s)' = Alive(s)
      /\ \A q \in Proc : RunBy(q)' = RunBy(q) /\ Listed(q)' = Listed(q)
  BY Zenon DEF Alive, RunBy, Listed
<1>2. \A r, s \in Thread : Alive(r)' /\ Alive(s)' /\ proc'[r] = proc'[s] => r = s
  BY <1>1, Zenon DEF SingleOK
<1>3. ASSUME NEW s \in Thread
      PROVE  ThreadOK(s)'
  <2>0. ThreadOK(s) /\ (pending'[s] = pending[s] \/ pc[s] \notin {"unborn", "start"})
    BY Zenon DEF SingleOK
  <2>1. CASE Alive(s)
    <3>1. PICK q \in Proc : q = proc[s]
      BY <2>1, Zenon DEF Alive, ThreadTypes
    <3>2. /\ Alive(s)' = Alive(s) /\ Listed(q)' = Listed(q)
          /\ \/ exitLock'[q] = exitLock[q]
             \/ exitLock[q].holder # q /\ exitLock'[q].holder # q
      BY <1>1, Zenon
    <3> QED
      BY <2>0, <3>1, <3>2, SamePlace, Zenon
  <2>2. CASE ~Alive(s)
    <3>1. pc[s] \in {"unborn", "dead"} /\ pc'[s] = pc[s]
      BY <2>2, Zenon DEF Alive
    <3>2. pc'[s] \in {"unborn", "start"} => ~pending'[s]
      BY <2>0, <3>1, ThreadAsPlace, Zenon
    <3>3. /\ pc'[s] \in {"unborn", "dead"}
          /\ pc'[s] \in {"unborn", "start"} => ~pending'[s]
      BY ONLY <3>1, <3>2, SMT
    <3> QED
      BY <3>3, PlaceOut
  <2> QED
    BY <2>1, <2>2, Zenon
<1>4. ASSUME NEW u \in User, usr'[u].at = "create"
      PROVE  /\ usr'[u].p \in Created /\ RunBy(usr[u].p)' = {}
             /\ \A v \in User : usr'[v].at = "create" /\ usr'[v].p = usr'[u].p => v = u
  <2>1. PICK q : q = usr'[u].p
    BY Zenon
  <2>2. q \in Created /\ RunBy(q) = {} /\ q \in Proc
    BY <1>4, <2>1, Zenon DEF Created
  <2>3. RunBy(q)' = {}
    BY <1>1, <2>2, Zenon
  <2> QED
    BY <1>4, <2>1, <2>2, <2>3
<1>5. ASSUME NEW q \in Proc, RunBy(q)' = {}
      PROVE  env'[q] = Nil /\ ~Listed(q)' /\ active'[q] = 0 /\ exitLock'[q].holder # q
  BY <1>1, <1>5 DEF SingleOK
<1> QED
  BY <1>2, <1>3, <1>4, <1>5, Zenon DEF SingleOK

(* A thread starts for a process that has none.                            *)
LEMMA SingleStart ==
    ASSUME SingleOK, ThreadTypes, NEW t \in Thread, NEW p \in Proc,
           pc[t] = "unborn", RunBy(p) = {},
           pc' = [pc EXCEPT ![t] = "start"], proc' = [proc EXCEPT ![t] = p],
           UNCHANGED <<procVars, mem, dis, pending>>,
           \A v \in User : usr'[v].at = "create" => usr'[v] = usr[v] /\ usr[v].p # p
    PROVE  SingleOK'
<1>0. /\ UNCHANGED <<active, env, exitLock, processes>>
      /\ pc'[t] = "start" /\ proc'[t] = p
      /\ \A s \in Thread \ {t} : pc'[s] = pc[s] /\ proc'[s] = proc[s]
  BY DEF procVars, ThreadTypes
<1>1. /\ Alive(t)' /\ ~Alive(t)
      /\ \A s \in Thread \ {t} : Alive(s)' = Alive(s)
      /\ \A q \in Proc : Listed(q)' = Listed(q)
  BY <1>0, Zenon DEF Alive, Listed
<1>2. \A r, s \in Thread : Alive(r)' /\ Alive(s)' /\ proc'[r] = proc'[s] => r = s
  <2>1. \A s \in Thread \ {t} : Alive(s)' => proc'[s] # p
    BY <1>0, <1>1, Zenon DEF RunBy
  <2>2. ASSUME NEW r \in Thread \ {t}, NEW s \in Thread \ {t}, Alive(r)', Alive(s)', proc'[r] = proc'[s]
        PROVE  r = s
    <3>1. Alive(r) /\ Alive(s) /\ proc[r] = proc[s]
      BY <1>0, <1>1, <2>2, Zenon
    <3> QED
      BY <3>1, Zenon DEF SingleOK
  <2> QED
    BY <1>0, <2>1, <2>2
<1>3. ASSUME NEW s \in Thread
      PROVE  ThreadOK(s)'
  <2>0. ThreadOK(s)
    BY Zenon DEF SingleOK
  <2>1. CASE s = t
    <3>1. ~pending[t]
      BY <2>0, <2>1, ThreadAsPlace, Zenon
    <3>2. env[p] = Nil /\ ~Listed(p) /\ active[p] = 0 /\ exitLock[p].holder # p
      BY Zenon DEF SingleOK
    <3> QED
      <4>1. PlaceOK(t, p, "start", dis'[t], mem'[t], env'[p], Listed(p)', active'[p], exitLock'[p])
        BY <1>0, <1>1, <3>2 DEF PlaceOK, WithExitLock
      <4>2. pending'[t] = pending[t]
        BY Zenon
      <4> QED
        BY <1>0, <2>1, <3>1, <4>1, <4>2, ThreadAsPlaceNext, Zenon
  <2>2. CASE s # t
    <3>1. PICK q : q = proc[s] /\ q = proc'[s]
      BY <1>0, <2>2, Zenon
    <3>2. Listed(q)' = Listed(q)
      BY <1>0 DEF Listed
    <3> QED
      BY <1>0, <2>0, <2>2, <3>1, <3>2, SamePlace, Zenon
  <2> QED
    BY <2>1, <2>2
<1>4. \A q \in Proc \ {p} : RunBy(q)' = RunBy(q)
  BY <1>0, <1>1, Zenon DEF RunBy
<1>5. ASSUME NEW u \in User, usr'[u].at = "create"
      PROVE  /\ usr'[u].p \in Created /\ RunBy(usr[u].p)' = {}
             /\ \A v \in User : usr'[v].at = "create" /\ usr'[v].p = usr'[u].p => v = u
  <2>1. PICK q : q = usr[u].p
    OBVIOUS
  <2>2. usr'[u] = usr[u] /\ q \in Created /\ RunBy(q) = {} /\ q \in Proc \ {p}
    BY <1>5, <2>1, Zenon DEF SingleOK, Created
  <2>3. RunBy(q)' = {}
    BY <1>4, <2>2, Zenon
  <2>4. \A v \in User : usr'[v].at = "create" /\ usr'[v].p = usr'[u].p => v = u
    BY <1>5, <2>2 DEF SingleOK
  <2> QED
    BY <2>1, <2>2, <2>3, <2>4
<1>6. ASSUME NEW q \in Proc, RunBy(q)' = {}
      PROVE  env'[q] = Nil /\ ~Listed(q)' /\ active'[q] = 0 /\ exitLock'[q].holder # q
  <2>1. t \in RunBy(p)'
    BY <1>0, <1>1, Zenon DEF RunBy
  <2>2. q # p /\ RunBy(q) = {}
    BY <1>4, <1>6, <2>1
  <2> QED
    BY <1>0, <1>1, <2>2 DEF SingleOK
<1>7. ASSUME NEW u \in User, usr'[u].at = "create"
      PROVE  usr'[u].p = usr[u].p
  BY <1>7
<1> QED
  BY <1>2, <1>3, <1>5, <1>6, <1>7, Zenon DEF SingleOK

-----------------------------------------------------------------------------
(* ProcessInv, in the parts the actions disturb separately.                *)
Parts ==
    /\ ProcTypes /\ ThreadTypes /\ UserTypes /\ careful \in BOOLEAN
    /\ LocksOK
    /\ careful => SingleOK

(* The parts make up the invariant.                                        *)
LEMMA InvParts == ProcessInv <=> Parts
BY TypeParts DEF ProcessInv, Parts, LocksOK

(* The same in the next state.                                             *)
LEMMA InvPartsNext == ProcessInv' <=> Parts'
BY InvParts, PTL

(* CONS puts a process on the list and leaves the others alone.            *)
LEMMA PushList ==
    ASSUME NEW s \in Seq(Proc), NEW p \in Proc
    PROVE  /\ <<p>> \o s \in Seq(Proc)
           /\ \A q : Contains(<<p>> \o s, q) <=> Contains(s, q) \/ q = p
<1>1. PICK r : r = <<p>> \o s
  BY Zenon
<1>2. /\ r \in Seq(Proc) /\ Len(r) = Len(s) + 1 /\ Len(s) \in Nat /\ r[1] = p
      /\ \A i \in 1 .. Len(s) : r[i + 1] = s[i]
  BY <1>1
<1>3. \A i \in 1 .. Len(r) : i = 1 \/ (i - 1 \in 1 .. Len(s) /\ r[i] = s[i - 1])
  <2>1. \A i \in 1 .. Len(r) : i = 1 \/ (i - 1 \in 1 .. Len(s) /\ i = (i - 1) + 1)
    BY <1>2
  <2> QED
    BY <1>2, <2>1
<1>4. \A i \in 1 .. Len(s) : i + 1 \in 1 .. Len(r)
  BY <1>2
<1>5. 1 \in 1 .. Len(r)
  BY <1>2
<1>6. ASSUME NEW q
      PROVE  Contains(r, q) <=> Contains(s, q) \/ q = p
  <2>1. ASSUME NEW i \in 1 .. Len(r), r[i] = q
        PROVE  (\E j \in 1 .. Len(s) : s[j] = q) \/ q = p
    BY <1>2, <1>3, <2>1
  <2>2. ASSUME NEW j \in 1 .. Len(s), s[j] = q
        PROVE  \E i \in 1 .. Len(r) : r[i] = q
    BY <1>2, <1>4, <2>2
  <2>3. q = p => \E i \in 1 .. Len(r) : r[i] = q
    BY <1>2, <1>5, Zenon
  <2> QED
    BY <2>1, <2>2, <2>3 DEF Contains
<1> QED
  BY <1>1, <1>2, <1>6

(* A step of one thread that leaves the exit locks alone.                  *)
LEMMA ThreadSteps ==
    ASSUME Parts, UNCHANGED <<careful, exitLock, proc, usr>>,
           NEW t \in Thread, NEW x \in Places \ {"unborn"}, pc[t] \notin {"unborn", "dead"},
           pc' = [pc EXCEPT ![t] = x],
           x \in WithExitLock => pc[t] \in WithExitLock,
           pc[t] \in WithExitLock => x \in WithExitLock \cup Leaving,
           pc[t] \in Leaving => x \in Leaving,
           mem' \in [Thread -> {"none", "raw", "ready", "freed"}],
           dis' \in [Thread -> {0, 1}], pending' \in [Thread -> BOOLEAN],
           ProcTypes',
           SingleOK => /\ Others(t, proc[t]) /\ ThreadOK(t)'
                       /\ x = "dead" => /\ env'[proc[t]] = Nil /\ ~Listed(proc[t])'
                                        /\ active'[proc[t]] = 0
                                        /\ exitLock'[proc[t]].holder # proc[t]
    PROVE  Parts'
<1>1. ProcTypes /\ ThreadTypes /\ UserTypes /\ LocksOK /\ careful \in BOOLEAN
  BY DEF Parts
<1>2. ThreadTypes' /\ pc'[t] = x /\ proc[t] \in Proc
  BY <1>1, ThreadPlace, Zenon
<1>3. UserTypes'
  BY <1>1 DEF UserTypes
<1>4. LocksOK'
  BY <1>1, ThreadLocks, Zenon
<1>5. ASSUME careful
      PROVE  SingleOK'
  <2>1. SingleOK /\ Alive(t)
    BY <1>5, Zenon DEF Parts, Alive
  <2>2. PICK p \in Proc : p = proc[t]
    BY <1>2, Zenon
  <2>3. /\ Others(t, p) /\ ThreadOK(t)' /\ pc'[t] # "unborn"
        /\ pc'[t] = "dead" => /\ env'[p] = Nil /\ ~Listed(p)'
                              /\ active'[p] = 0 /\ exitLock'[p].holder # p
    <3>1. x = "dead" => ~Listed(proc[t])'
      BY <2>1, Zenon
    <3>2. Listed(proc[t])' <=> Listed(p)'
      BY <2>2 DEF Listed
    <3> QED
      BY <1>2, <2>1, <2>2, <3>1, <3>2, Zenon
  <2> QED
    BY <1>1, <2>1, <2>2, <2>3, SingleStep, Zenon
<1> QED
  BY <1>1, <1>2, <1>3, <1>4, <1>5, Zenon DEF Parts

(* _ecl_alloc_env.                                                         *)
LEMMA AllocEnvParts ==
    ASSUME Parts, UNCHANGED careful, NEW t \in Thread, AllocEnv(t)
    PROVE  Parts'
<1> USE ProcessAssumption
<1>0. ProcTypes /\ ThreadTypes /\ pc[t] = "start" /\ proc[t] \in Proc
  BY Zenon DEF AllocEnv, Parts, ThreadTypes
<1>1. PICK p \in Proc : p = proc[t]
  BY <1>0, Zenon
<1>2. /\ env' = [env EXCEPT ![p] = t]
      /\ mem' = [mem EXCEPT ![t] = "raw"]
      /\ dis' = [dis EXCEPT ![t] = 1]
      /\ active' = IF p \in Imported THEN [active EXCEPT ![p] = 2] ELSE active
      /\ pc' = [pc EXCEPT ![t] = "push"]
      /\ UNCHANGED <<exitLock, processes, proc, pending, usr>>
  BY <1>1, Zenon DEF AllocEnv, Goto
<1>3. ProcTypes'
  BY <1>0, <1>2 DEF ProcTypes
<1>4. /\ mem' \in [Thread -> {"none", "raw", "ready", "freed"}]
      /\ dis' \in [Thread -> {0, 1}] /\ pending' \in [Thread -> BOOLEAN]
  BY <1>0, <1>2 DEF ThreadTypes
<1>5. ASSUME SingleOK
      PROVE  Others(t, p) /\ ThreadOK(t)'
  <2>1. Others(t, p)
    BY <1>0, <1>2 DEF Others, ThreadTypes, ProcTypes, Listed
  <2>2. ThreadOK(t) /\ Alive(t) /\ Alive(t)'
    BY <1>0, <1>2, <1>5, Zenon DEF SingleOK, Alive, ThreadTypes
  <2>3. /\ pc'[t] = "push" /\ dis'[t] = 1 /\ mem'[t] = "raw" /\ env'[p] = t /\ proc'[t] = p
        /\ Listed(p)' = Listed(p) /\ exitLock'[p] = exitLock[p]
        /\ active'[p] = 2 \/ active'[p] = active[p]
    BY <1>0, <1>1, <1>2, Zenon DEF ThreadTypes, ProcTypes, Listed
  <2>4. ~Listed(p) /\ active[p] # 1 /\ exitLock[p].holder # p
    BY <1>0, <1>1, <2>2, Zenon DEF ThreadOK
  <2>5. ~Listed(p)' /\ active'[p] # 1 /\ exitLock'[p].holder # p
    BY ONLY <2>3, <2>4, SMT
  <2>6. PlaceOK(t, p, "push", 1, "raw", t, Listed(p)', active'[p], exitLock'[p])
    BY <2>5, Zenon DEF PlaceOK, WithExitLock
  <2>7. ThreadOK(t)'
    BY <1>1, <1>2, <2>3, <2>6, ThreadAsPlaceNext, Zenon
  <2> QED
    BY <2>1, <2>7, Zenon
<1>6. "push" \in Places \ {"unborn"} /\ "push" \notin WithExitLock
      /\ pc[t] \notin WithExitLock /\ pc[t] \notin Leaving
  BY <1>0 DEF Places, WithExitLock, Leaving
<1> QED
  BY <1>0, <1>1, <1>2, <1>3, <1>4, <1>5, <1>6, ThreadSteps, Zenon

(* CONS(process, cl_core.processes).                                       *)
LEMMA PushProcessParts ==
    ASSUME Parts, UNCHANGED careful, NEW t \in Thread, PushProcess(t)
    PROVE  Parts'
<1> USE ProcessAssumption
<1>0. ProcTypes /\ ThreadTypes /\ pc[t] = "push" /\ proc[t] \in Proc
  BY DEF PushProcess, Parts, ThreadTypes
<1>1. PICK p \in Proc : p = proc[t]
  BY <1>0
<1>2. /\ processes' = <<p>> \o processes
      /\ dis' = [dis EXCEPT ![t] = 0]
      /\ pc' = [pc EXCEPT ![t] = "init"]
      /\ UNCHANGED <<active, env, exitLock, proc, mem, pending, usr>>
  BY <1>1, Zenon DEF PushProcess, Goto
<1>3. processes' \in Seq(Proc) /\ \A q \in Proc : Listed(q)' <=> Listed(q) \/ q = p
  BY <1>0, <1>2, PushList, Zenon DEF ProcTypes, Listed
<1>4. ProcTypes'
  BY <1>0, <1>2, <1>3, Zenon DEF ProcTypes
<1>5. /\ mem' \in [Thread -> {"none", "raw", "ready", "freed"}]
      /\ dis' \in [Thread -> {0, 1}] /\ pending' \in [Thread -> BOOLEAN]
  BY <1>0, <1>2 DEF ThreadTypes
<1>6. ASSUME SingleOK
      PROVE  Others(t, p) /\ ThreadOK(t)'
  <2>1. Others(t, p)
    <3>1. \A q \in Proc \ {p} : Listed(q)' = Listed(q)
      BY <1>3, Zenon DEF Listed, Contains
    <3> QED
      BY <1>0, <1>2, <3>1, Zenon DEF Others, ThreadTypes
  <2>2. ThreadOK(t) /\ Alive(t) /\ Alive(t)'
    BY <1>0, <1>2, <1>6, Zenon DEF SingleOK, Alive, ThreadTypes
  <2>3. pc'[t] = "init" /\ proc'[t] = p /\ Listed(p)'
    BY <1>0, <1>1, <1>2, <1>3, Zenon DEF ThreadTypes
  <2> QED
    BY <1>0, <1>1, <1>2, <2>1, <2>2, <2>3, Zenon DEF ThreadOK, WithExitLock
<1>7. "init" \in Places \ {"unborn"} /\ "init" \notin WithExitLock
      /\ pc[t] \notin WithExitLock /\ pc[t] \notin Leaving
  BY <1>0 DEF Places, WithExitLock, Leaving
<1> QED
  BY <1>0, <1>1, <1>2, <1>4, <1>5, <1>6, <1>7, ThreadSteps, Zenon

(* ecl_init_env.                                                           *)
LEMMA InitEnvParts ==
    ASSUME Parts, UNCHANGED careful, NEW t \in Thread, InitEnv(t)
    PROVE  Parts'
<1>0. ProcTypes /\ ThreadTypes /\ pc[t] = "init" /\ proc[t] \in Proc
  BY Zenon DEF InitEnv, Parts, ThreadTypes
<1>1. PICK p \in Proc : p = proc[t]
  BY <1>0
<1>2. /\ mem' = [mem EXCEPT ![t] = "ready"]
      /\ pending' = [pending EXCEPT ![t] = FALSE]
      /\ pc' = [pc EXCEPT ![t] = "lock"]
      /\ UNCHANGED <<active, env, exitLock, processes, proc, dis, usr>>
  BY DEF InitEnv, Goto, procVars
<1>3. ProcTypes'
  BY <1>0, <1>2 DEF ProcTypes
<1>4. /\ mem' \in [Thread -> {"none", "raw", "ready", "freed"}]
      /\ dis' \in [Thread -> {0, 1}] /\ pending' \in [Thread -> BOOLEAN]
  BY <1>0, <1>2 DEF ThreadTypes
<1>5. ASSUME SingleOK
      PROVE  Others(t, p) /\ ThreadOK(t)'
  <2>1. Others(t, p)
    BY <1>0, <1>2, Zenon DEF Others, ThreadTypes, Listed
  <2>2. ThreadOK(t) /\ Alive(t) /\ Alive(t)'
    BY <1>0, <1>2, <1>5, Zenon DEF SingleOK, Alive, ThreadTypes
  <2>3. pc'[t] = "lock" /\ proc'[t] = p /\ Listed(p)' = Listed(p) /\ mem'[t] = "ready"
    BY <1>0, <1>1, <1>2, Zenon DEF ThreadTypes, Listed
  <2> QED
    BY <1>0, <1>1, <1>2, <2>1, <2>2, <2>3, Zenon DEF ThreadOK, WithExitLock
<1>6. "lock" \in Places \ {"unborn"} /\ "lock" \notin WithExitLock
      /\ pc[t] \notin WithExitLock /\ pc[t] \notin Leaving
  BY <1>0 DEF Places, WithExitLock, Leaving
<1> QED
  BY <1>0, <1>1, <1>2, <1>3, <1>4, <1>5, <1>6, ThreadSteps, Zenon

(* process.active = 1.                                                     *)
LEMMA ActivateParts ==
    ASSUME Parts, UNCHANGED careful, NEW t \in Thread, Activate(t)
    PROVE  Parts'
<1>0. ProcTypes /\ ThreadTypes /\ pc[t] = "activate" /\ proc[t] \in Proc
  BY DEF Activate, Parts, ThreadTypes
<1>1. PICK p \in Proc : p = proc[t]
  BY <1>0
<1>2. PICK x \in {"run", "catch"} :
      /\ active' = [active EXCEPT ![p] = 1]
      /\ pc' = [pc EXCEPT ![t] = x]
      /\ UNCHANGED <<env, exitLock, processes, proc, mem, dis, pending, usr>>
  BY <1>1, Zenon DEF Activate, Goto
<1>3. ProcTypes'
  BY <1>0, <1>2 DEF ProcTypes
<1>4. /\ mem' \in [Thread -> {"none", "raw", "ready", "freed"}]
      /\ dis' \in [Thread -> {0, 1}] /\ pending' \in [Thread -> BOOLEAN]
  BY <1>0, <1>2 DEF ThreadTypes
<1>5. ASSUME SingleOK
      PROVE  Others(t, p) /\ ThreadOK(t)'
  <2>1. Others(t, p)
    BY <1>0, <1>2, Zenon DEF Others, ThreadTypes, ProcTypes, Listed
  <2>2. ThreadOK(t) /\ Alive(t) /\ Alive(t)'
    BY <1>0, <1>2, <1>5, Zenon DEF SingleOK, Alive, ThreadTypes
  <2>3. pc'[t] = x /\ proc'[t] = p /\ Listed(p)' = Listed(p) /\ active'[p] = 1
    BY <1>0, <1>1, <1>2, Zenon DEF ThreadTypes, ProcTypes, Listed
  <2> QED
    BY <1>0, <1>1, <1>2, <2>1, <2>2, <2>3, Zenon DEF ThreadOK, WithExitLock
<1>6. /\ x \in Places \ {"unborn"} /\ x \in WithExitLock /\ x # "dead"
      /\ pc[t] \in WithExitLock /\ pc[t] \notin Leaving
  BY <1>0 DEF Places, WithExitLock, Leaving
<1> QED
  BY <1>0, <1>1, <1>2, <1>3, <1>4, <1>5, <1>6, ThreadSteps, Zenon

(* CL_CATCH_ALL_BEGIN, and the function of the process returns.            *)
LEMMA RunParts ==
    ASSUME Parts, UNCHANGED careful, NEW t \in Thread, CatchAllBegin(t) \/ Finish(t)
    PROVE  Parts'
<1>0. ProcTypes /\ ThreadTypes /\ pc[t] \in {"catch", "run"} /\ proc[t] \in Proc
  BY DEF CatchAllBegin, Finish, Parts, ThreadTypes
<1>1. PICK p \in Proc : p = proc[t]
  BY <1>0
<1>2. PICK x \in {"run", "inactive"} :
      /\ pc' = [pc EXCEPT ![t] = x]
      /\ UNCHANGED <<active, env, exitLock, processes, proc, mem, dis, pending, usr>>
  BY DEF CatchAllBegin, Finish, Goto, procVars
<1>3. ProcTypes'
  BY <1>0, <1>2 DEF ProcTypes
<1>4. /\ mem' \in [Thread -> {"none", "raw", "ready", "freed"}]
      /\ dis' \in [Thread -> {0, 1}] /\ pending' \in [Thread -> BOOLEAN]
  BY <1>0, <1>2 DEF ThreadTypes
<1>5. ASSUME SingleOK
      PROVE  Others(t, p) /\ ThreadOK(t)'
  <2>1. Others(t, p)
    BY <1>0, <1>2, Zenon DEF Others, ThreadTypes, Listed
  <2>2. ThreadOK(t) /\ Alive(t) /\ Alive(t)'
    BY <1>0, <1>2, <1>5, Zenon DEF SingleOK, Alive, ThreadTypes
  <2>3. pc'[t] = x /\ proc'[t] = p /\ Listed(p)' = Listed(p)
    BY <1>0, <1>1, <1>2 DEF ThreadTypes, Listed
  <2> QED
    BY <1>0, <1>1, <1>2, <2>1, <2>2, <2>3, Zenon DEF ThreadOK, WithExitLock
<1>6. /\ x \in Places \ {"unborn"} /\ x \in WithExitLock /\ x # "dead"
      /\ pc[t] \in WithExitLock /\ pc[t] \notin Leaving
  BY <1>0 DEF Places, WithExitLock, Leaving
<1> QED
  BY <1>0, <1>1, <1>2, <1>3, <1>4, <1>5, <1>6, ThreadSteps, Zenon

(* mp_exit_process runs on an interrupt.  Interrupts are disabled as long  *)
(* as the environment is not on the list, and none is pending before.      *)
LEMMA ExitProcessParts ==
    ASSUME Parts, UNCHANGED careful, NEW t \in Thread, ExitProcess(t)
    PROVE  Parts'
<1>0. ProcTypes /\ ThreadTypes /\ Alive(t) /\ pc[t] # "wild" /\ proc[t] \in Proc
      /\ pending[t] /\ dis[t] = 0 /\ pc[t] \in Places \ {"unborn", "dead"}
  BY DEF ExitProcess, Parts, ThreadTypes, Alive
<1>1. PICK p \in Proc : p = proc[t]
  BY <1>0, Zenon
<1>2. PICK x \in {"inactive", "wild"} :
      /\ x = IF pc[t] = "run" THEN "inactive" ELSE "wild"
      /\ pc' = [pc EXCEPT ![t] = x]
      /\ pending' = [pending EXCEPT ![t] = FALSE]
      /\ UNCHANGED <<active, env, exitLock, processes, proc, mem, dis, usr>>
  BY Zenon DEF ExitProcess, Goto, procVars
<1>3. ProcTypes'
  BY <1>0, <1>2 DEF ProcTypes
<1>4. /\ mem' \in [Thread -> {"none", "raw", "ready", "freed"}]
      /\ dis' \in [Thread -> {0, 1}] /\ pending' \in [Thread -> BOOLEAN]
  BY <1>0, <1>2 DEF ThreadTypes
<1>5. ASSUME SingleOK
      PROVE  Others(t, p) /\ ThreadOK(t)'
  <2>1. Others(t, p)
    BY <1>0, <1>2, Zenon DEF Others, ThreadTypes, Listed
  <2>2. ThreadOK(t) /\ Alive(t)'
    BY <1>0, <1>2, <1>5, Zenon DEF SingleOK, Alive, ThreadTypes
  <2>3. pc'[t] = x /\ proc'[t] = p /\ Listed(p)' = Listed(p)
    BY <1>0, <1>1, <1>2, Zenon DEF ThreadTypes, Listed
  <2>4. pc[t] \in {"init", "lock", "remove", "dealloc"} \cup WithExitLock
    <3>1. /\ pc[t] = "push" => dis[t] = 1
          /\ pc[t] \in {"unborn", "start"} => ~pending[t]
      BY <2>2, Zenon DEF ThreadOK
    <3> QED
      BY ONLY <1>0, <3>1, SMT DEF Places
  <2>5. CASE pc[t] = "run"
    BY <1>0, <1>1, <1>2, <2>1, <2>2, <2>3, <2>5, Zenon DEF ThreadOK, WithExitLock
  <2>6. CASE pc[t] # "run"
    <3>1. mem[t] \in {"raw", "ready"} /\ env[p] = t
      BY <1>0, <1>1, <2>2, <2>4, Zenon DEF ThreadOK
    <3>2. active[p] = 1 => Listed(p) /\ exitLock[p].holder = p /\ exitLock[p].count = 1
      BY <1>1, <2>2, <2>4 DEF ThreadOK, WithExitLock
    <3> QED
      BY <1>1, <1>2, <2>1, <2>2, <2>3, <2>6, <3>1, <3>2, Zenon DEF ThreadOK, WithExitLock
  <2> QED
    BY <2>5, <2>6, Zenon
<1>6. /\ x \in Places \ {"unborn"} /\ x # "dead"
      /\ x \in WithExitLock => pc[t] \in WithExitLock
      /\ pc[t] \in WithExitLock => x \in WithExitLock \cup Leaving
      /\ pc[t] \in Leaving => x \in Leaving
  BY <1>2 DEF Places, WithExitLock, Leaving
<1> QED
  BY <1>0, <1>1, <1>2, <1>3, <1>4, <1>5, <1>6, ThreadSteps, Zenon DEF Alive

(* process.active = 0.                                                     *)
LEMMA DeactivateParts ==
    ASSUME Parts, UNCHANGED careful, NEW t \in Thread, Deactivate(t)
    PROVE  Parts'
<1>0. ProcTypes /\ ThreadTypes /\ pc[t] = "inactive" /\ proc[t] \in Proc
  BY Zenon DEF Deactivate, Parts, ThreadTypes
<1>1. PICK p \in Proc : p = proc[t]
  BY <1>0
<1>2. /\ active' = [active EXCEPT ![p] = 0]
      /\ pc' = [pc EXCEPT ![t] = "giveup"]
      /\ UNCHANGED <<env, exitLock, processes, proc, mem, dis, pending, usr>>
  BY <1>1 DEF Deactivate, Goto
<1>3. ProcTypes'
  BY <1>0, <1>2 DEF ProcTypes
<1>4. /\ mem' \in [Thread -> {"none", "raw", "ready", "freed"}]
      /\ dis' \in [Thread -> {0, 1}] /\ pending' \in [Thread -> BOOLEAN]
  BY <1>0, <1>2 DEF ThreadTypes
<1>5. ASSUME SingleOK
      PROVE  Others(t, p) /\ ThreadOK(t)'
  <2>1. Others(t, p)
    BY <1>0, <1>2, Zenon DEF Others, ThreadTypes, ProcTypes, Listed
  <2>2. ThreadOK(t) /\ Alive(t) /\ Alive(t)'
    BY <1>0, <1>2, <1>5, Zenon DEF SingleOK, Alive, ThreadTypes
  <2>3. pc'[t] = "giveup" /\ proc'[t] = p /\ Listed(p)' = Listed(p) /\ active'[p] = 0
    BY <1>0, <1>1, <1>2, Zenon DEF ThreadTypes, ProcTypes, Listed
  <2> QED
    BY <1>0, <1>1, <1>2, <2>1, <2>2, <2>3, Zenon DEF ThreadOK, WithExitLock
<1>6. /\ "giveup" \in Places \ {"unborn"} /\ "giveup" \in WithExitLock
      /\ pc[t] \in WithExitLock /\ pc[t] \notin Leaving
  BY <1>0 DEF Places, WithExitLock, Leaving
<1> QED
  BY <1>0, <1>1, <1>2, <1>3, <1>4, <1>5, <1>6, ThreadSteps, Zenon

(* ecl_remove_eq in thread_cleanup.                                        *)
LEMMA RemoveProcessParts ==
    ASSUME Parts, UNCHANGED careful, NEW t \in Thread, RemoveProcess(t)
    PROVE  Parts'
<1>0. ProcTypes /\ ThreadTypes /\ pc[t] = "remove" /\ proc[t] \in Proc
  BY Zenon DEF RemoveProcess, Parts, ThreadTypes
<1>1. PICK p \in Proc : p = proc[t]
  BY <1>0, Zenon
<1>2. /\ processes' = ecl_remove_eq(p, processes)
      /\ pc' = [pc EXCEPT ![t] = "dealloc"]
      /\ UNCHANGED <<active, env, exitLock, proc, mem, dis, pending, usr>>
  BY <1>1, Zenon DEF RemoveProcess, Goto
<1>3. processes' \in Seq(Proc) /\ \A q \in Proc : Listed(q)' <=> Listed(q) /\ q # p
  BY <1>0, <1>2, RemoveEq DEF ProcTypes, Listed
<1>4. ProcTypes'
  BY <1>0, <1>2, <1>3, Zenon DEF ProcTypes
<1>5. /\ mem' \in [Thread -> {"none", "raw", "ready", "freed"}]
      /\ dis' \in [Thread -> {0, 1}] /\ pending' \in [Thread -> BOOLEAN]
  BY <1>0, <1>2 DEF ThreadTypes
<1>6. ASSUME SingleOK
      PROVE  Others(t, p) /\ ThreadOK(t)'
  <2>1. Others(t, p)
    <3>1. \A q \in Proc \ {p} : Listed(q)' = Listed(q)
      BY <1>3, Zenon DEF Listed, Contains
    <3> QED
      BY <1>0, <1>2, <3>1, Zenon DEF Others, ThreadTypes
  <2>2. ThreadOK(t) /\ Alive(t) /\ Alive(t)'
    BY <1>0, <1>2, <1>6, Zenon DEF SingleOK, Alive, ThreadTypes
  <2>3. pc'[t] = "dealloc" /\ proc'[t] = p /\ ~Listed(p)'
    BY <1>0, <1>1, <1>2, <1>3 DEF ThreadTypes
  <2> QED
    BY <1>0, <1>1, <1>2, <2>1, <2>2, <2>3, Zenon DEF ThreadOK, WithExitLock
<1>7. /\ "dealloc" \in Places \ {"unborn"} /\ "dealloc" \in Leaving
      /\ "dealloc" \notin WithExitLock /\ pc[t] \notin WithExitLock
  BY <1>0 DEF Places, WithExitLock, Leaving
<1> QED
  BY <1>0, <1>1, <1>2, <1>4, <1>5, <1>6, <1>7, ThreadSteps, Zenon

(* _ecl_dealloc_env: the only thread frees its own environment.            *)
LEMMA DeallocEnvParts ==
    ASSUME Parts, UNCHANGED careful, NEW t \in Thread, DeallocEnv(t)
    PROVE  Parts'
<1> USE ProcessAssumption
<1>0. ProcTypes /\ ThreadTypes /\ pc[t] = "dealloc" /\ proc[t] \in Proc
  BY DEF DeallocEnv, Parts, ThreadTypes
<1>1. PICK p \in Proc : p = proc[t]
  BY <1>0
<1>2. PICK e \in Thread \cup {Nil} : e = env[p]
  BY <1>0, Zenon DEF ProcTypes
<1>3. /\ mem' = IF e = Nil THEN mem ELSE [mem EXCEPT ![e] = "freed"]
      /\ pending' = IF e = Nil THEN pending ELSE [pending EXCEPT ![e] = FALSE]
      /\ env' = [env EXCEPT ![p] = Nil]
      /\ pc' = [pc EXCEPT ![t] = "dead"]
      /\ UNCHANGED <<active, exitLock, processes, proc, dis, usr>>
  BY <1>1, <1>2, Zenon DEF DeallocEnv, Goto
<1>4. ProcTypes'
  BY <1>0, <1>3, Zenon DEF ProcTypes
<1>5. /\ mem' \in [Thread -> {"none", "raw", "ready", "freed"}]
      /\ dis' \in [Thread -> {0, 1}] /\ pending' \in [Thread -> BOOLEAN]
  BY <1>0, <1>3 DEF ThreadTypes
<1>6. ASSUME SingleOK
      PROVE  /\ Others(t, p) /\ ThreadOK(t)' /\ env'[p] = Nil /\ ~Listed(p)'
             /\ active'[p] = 0 /\ exitLock'[p].holder # p
  <2>1. ThreadOK(t) /\ Alive(t) /\ ~Alive(t)' /\ pc'[t] = "dead"
    BY <1>0, <1>3, <1>6, Zenon DEF SingleOK, Alive, ThreadTypes
  <2>2. e = t
    BY <1>0, <1>1, <1>2, <2>1, Zenon DEF ThreadOK
  <2>3. Others(t, p)
    BY <1>0, <1>3, <2>2 DEF Others, ThreadTypes, ProcTypes, Listed
  <2>4. ThreadOK(t)'
    BY <2>1, Zenon DEF ThreadOK, WithExitLock
  <2>5. env'[p] = Nil /\ Listed(p)' = Listed(p)
    BY <1>0, <1>3, Zenon DEF ProcTypes, Listed
  <2> QED
    BY <1>0, <1>1, <1>3, <2>1, <2>3, <2>4, <2>5, Zenon DEF ThreadOK
<1>7. /\ "dead" \in Places \ {"unborn"} /\ "dead" \in Leaving
      /\ "dead" \notin WithExitLock /\ pc[t] \notin WithExitLock
  BY <1>0, Zenon DEF Places, WithExitLock, Leaving
<1>8. SingleOK => /\ Others(t, proc[t]) /\ ThreadOK(t)'
                  /\ env'[proc[t]] = Nil /\ ~Listed(proc[t])'
                  /\ active'[proc[t]] = 0 /\ exitLock'[proc[t]].holder # proc[t]
  <2>1. Listed(proc[t])' <=> Listed(p)'
    BY <1>1, <1>3, Zenon DEF Listed
  <2> QED
    BY <1>1, <1>6, <2>1, Zenon
<1> QED
  BY <1>0, <1>3, <1>4, <1>5, <1>7, <1>8, ThreadSteps, Zenon

(* mp_get_lock by the only thread of a process: nobody of the process has  *)
(* the lock, so it is counted once.                                        *)
LEMMA TakeExitLockParts ==
    ASSUME Parts, UNCHANGED careful, NEW t \in Thread, TakeExitLock(t)
    PROVE  Parts'
<1> USE ProcessAssumption
<1>0. ProcTypes /\ ThreadTypes /\ UserTypes /\ LocksOK /\ pc[t] = "lock" /\ proc[t] \in Proc
      /\ careful \in BOOLEAN
  BY DEF TakeExitLock, Parts, ThreadTypes
<1>1. PICK p \in Proc : p = proc[t]
  BY <1>0, Zenon
<1>2. /\ pc' = [pc EXCEPT ![t] = "activate"] /\ GetExitLock(p, p, t)
      /\ UNCHANGED <<active, env, processes, proc, mem, dis, pending, usr>>
  BY <1>1, Zenon DEF TakeExitLock, Goto
<1>3. LocksOK' /\ ProcTypes'
  BY <1>0, TakeLocks, Zenon
<1>4. ThreadTypes' /\ UserTypes'
  <2>1. "activate" \in Places
    BY Zenon DEF Places, WithExitLock
  <2>2. ThreadTypes'
    BY <1>0, <1>2, <2>1, Zenon DEF ThreadTypes
  <2> QED
    BY <1>0, <1>2, <2>2 DEF UserTypes
<1>5. ASSUME careful
      PROVE  SingleOK'
  <2>0. SingleOK /\ Alive(t) /\ Alive(t)' /\ pc'[t] = "activate"
    BY <1>0, <1>2, <1>5, Zenon DEF Parts, Alive, ThreadTypes
  <2>1. ThreadOK(t)
    BY <2>0 DEF SingleOK
  <2>2. exitLock[p].holder # p
    BY <1>0, <1>1, <2>1, Zenon DEF ThreadOK
  <2>3. exitLock' = [exitLock EXCEPT ![p] = [holder |-> p, count |-> 1, mutex |-> t]]
    BY <1>2, <2>2, Zenon DEF GetExitLock
  <2>4. /\ exitLock'[p].holder = p /\ exitLock'[p].count = 1
        /\ \A q \in Proc \ {p} : exitLock'[q] = exitLock[q]
    BY <1>0, <2>3 DEF ProcTypes
  <2>5. Others(t, p)
    BY <1>0, <1>2, <2>4, Zenon DEF Others, ThreadTypes, Listed
  <2>6. proc'[t] = p /\ Listed(p)' = Listed(p)
    BY <1>1, <1>2 DEF Listed
  <2>7. ThreadOK(t)'
    BY <1>0, <1>1, <1>2, <2>0, <2>1, <2>4, <2>6, Zenon DEF ThreadOK, WithExitLock
  <2> QED
    BY <1>0, <1>1, <2>0, <2>5, <2>7, SingleStep, Zenon
<1> QED
  BY <1>0, <1>3, <1>4, <1>5, Zenon DEF Parts

(* mp_giveup_lock by the only thread of a process.                         *)
LEMMA LeaveExitLockParts ==
    ASSUME Parts, UNCHANGED careful, NEW t \in Thread, LeaveExitLock(t)
    PROVE  Parts'
<1> USE ProcessAssumption
<1>0. ProcTypes /\ ThreadTypes /\ UserTypes /\ LocksOK /\ pc[t] = "giveup" /\ proc[t] \in Proc
      /\ careful \in BOOLEAN
  BY DEF LeaveExitLock, Parts, ThreadTypes
<1>1. PICK p \in Proc : p = proc[t]
  BY <1>0, Zenon
<1>2. /\ pc' = [pc EXCEPT ![t] = "remove"] /\ GiveupExitLock(p, t)
      /\ UNCHANGED <<active, env, processes, proc, mem, dis, pending, usr>>
  BY <1>1, Zenon DEF LeaveExitLock, Goto
<1>3. LocksOK' /\ ProcTypes' /\ (exitLock[p].count = 1 => exitLock'[p].holder = Nil)
  BY <1>0, <1>1, LeaveLocks, Zenon
<1>4. ThreadTypes' /\ UserTypes'
  <2>1. "remove" \in Places
    BY Zenon DEF Places
  <2>2. ThreadTypes'
    BY <1>0, <1>2, <2>1, Zenon DEF ThreadTypes
  <2> QED
    BY <1>0, <1>2, <2>2 DEF UserTypes
<1>5. ASSUME careful
      PROVE  SingleOK'
  <2>0. SingleOK /\ Alive(t) /\ Alive(t)' /\ pc'[t] = "remove"
    BY <1>0, <1>2, <1>5, Zenon DEF Parts, Alive, ThreadTypes
  <2>1. ThreadOK(t)
    BY <2>0 DEF SingleOK
  <2>2. exitLock[p].count = 1
    BY <1>0, <1>1, <2>1, Zenon DEF ThreadOK, WithExitLock
  <2>3. exitLock'[p].holder # p
    BY <1>3, <2>2
  <2>4. \A q \in Proc \ {p} : exitLock'[q] = exitLock[q]
    BY <1>0, <1>2 DEF ProcTypes, GiveupExitLock
  <2>5. Others(t, p)
    BY <1>0, <1>2, <2>4, Zenon DEF Others, ThreadTypes, Listed
  <2>6. proc'[t] = p /\ Listed(p)' = Listed(p)
    BY <1>1, <1>2 DEF Listed
  <2>7. ThreadOK(t)'
    BY <1>0, <1>1, <1>2, <2>0, <2>1, <2>3, <2>6, Zenon DEF ThreadOK, WithExitLock
  <2> QED
    BY <1>0, <1>1, <2>0, <2>5, <2>7, SingleStep, Zenon
<1> QED
  BY <1>0, <1>3, <1>4, <1>5, Zenon DEF Parts

(* A thread starts, by pthread_create or from outside.                     *)
LEMMA StartParts ==
    ASSUME Parts, UNCHANGED <<careful, procVars, mem, dis, pending>>,
           NEW t \in Thread, NEW p \in Proc, pc[t] = "unborn",
           pc' = [pc EXCEPT ![t] = "start"], proc' = [proc EXCEPT ![t] = p],
           UserTypes', \A u \in User : Unlocked(u),
           careful => /\ RunBy(p) = {}
                      /\ \A v \in User : usr'[v].at = "create" => usr'[v] = usr[v] /\ usr[v].p # p
    PROVE  Parts'
<1>0. ProcTypes /\ ThreadTypes /\ UserTypes /\ LocksOK /\ careful \in BOOLEAN
      /\ UNCHANGED <<active, env, exitLock, processes>>
  BY DEF Parts, procVars
<1>1. "start" \in Places /\ "start" \notin WithExitLock \cup Leaving
      /\ "unborn" \notin WithExitLock \cup Leaving
  BY Zenon DEF Places, WithExitLock, Leaving
<1>2. ProcTypes' /\ ThreadTypes'
  BY <1>0, <1>1, Zenon DEF ProcTypes, ThreadTypes
<1>3. ASSUME NEW s \in Thread
      PROVE  /\ pc'[s] \in WithExitLock => pc[s] \in WithExitLock /\ proc'[s] = proc[s]
             /\ pc[s] \in WithExitLock \cup Leaving =>
                    pc'[s] \in WithExitLock \cup Leaving /\ proc'[s] = proc[s]
             /\ pc[s] \in Leaving => pc'[s] \in Leaving
  BY <1>0, <1>1, Zenon DEF ThreadTypes
<1>4. LocksOK'
  BY <1>0, <1>3, LocksKept
<1>5. ASSUME careful
      PROVE  SingleOK'
  <2>1. SingleOK
    BY <1>5 DEF Parts
  <2> QED
    BY <1>0, <1>5, <2>1, SingleStart, Zenon
<1> QED
  BY <1>0, <1>2, <1>4, <1>5, Zenon DEF Parts

(* ecl_import_current_thread.                                              *)
LEMMA ImportThreadParts ==
    ASSUME Parts, UNCHANGED careful, NEW t \in Thread, NEW p \in Proc, ImportThread(t, p)
    PROVE  Parts'
<1>0. /\ p \in Imported /\ RunBy(p) = {} /\ pc[t] = "unborn"
      /\ proc' = [proc EXCEPT ![t] = p] /\ pc' = [pc EXCEPT ![t] = "start"]
      /\ UNCHANGED <<procVars, mem, dis, pending>> /\ usr' = usr
  BY Zenon DEF ImportThread, Goto
<1>1. UserTypes' /\ \A u \in User : Unlocked(u)
  BY <1>0, Zenon DEF Parts, UserTypes, Unlocked
<1>2. careful => \A v \in User : usr'[v].at = "create" => usr'[v] = usr[v] /\ usr[v].p # p
  BY <1>0, Zenon DEF Parts, SingleOK, Created
<1> QED
  BY <1>0, <1>1, <1>2, StartParts, Zenon

(* pthread_create.                                                         *)
LEMMA CreateThreadParts ==
    ASSUME Parts, UNCHANGED careful, NEW u \in User, CreateThread(u)
    PROVE  Parts'
<1> USE ProcessAssumption
<1>0. ProcTypes /\ ThreadTypes /\ UserTypes /\ LocksOK /\ careful \in BOOLEAN
  BY Zenon DEF Parts
<1>1. PICK p \in Proc : p = usr[u].p
  BY <1>0, Zenon DEF CreateThread, UserTypes, GoodUser
<1>2. /\ usr[u].at = "create" /\ usr' = [usr EXCEPT ![u] = Idle]
      /\ UNCHANGED <<procVars, mem, dis, pending>>
  BY DEF CreateThread, Return
<1>3. UserTypes' /\ usr'[u] = Idle /\ \A v \in User \ {u} : usr'[v] = usr[v]
  BY <1>0, <1>2, OneUser, IdleGood, Zenon
<1>4. Idle.at = "idle"
  BY Zenon DEF Idle
<1>5. \A v \in User : Unlocked(v)
  BY <1>2, <1>3, <1>4, Zenon DEF Unlocked
<1>6. ASSUME careful, NEW v \in User, usr'[v].at = "create"
      PROVE  v # u /\ usr'[v] = usr[v] /\ usr[v].p # p
  <2>1. v # u /\ usr'[v] = usr[v]
    BY <1>3, <1>4, <1>6, Zenon
  <2>2. SingleOK
    BY <1>6, Zenon DEF Parts
  <2> QED
    BY <1>1, <1>2, <1>6, <2>1, <2>2, Zenon DEF SingleOK
<1>7. CASE UNCHANGED <<proc, pc>>
  <2>1. UNCHANGED <<active, env, exitLock, processes>>
    BY <1>2, Zenon DEF procVars
  <2>2. ProcTypes' /\ ThreadTypes'
    BY <1>0, <1>2, <1>7, <2>1, Zenon DEF ProcTypes, ThreadTypes
  <2>3. LocksOK'
    BY <1>0, <1>5, <1>7, <2>1, LocksKept, Zenon
  <2>4. ASSUME careful
        PROVE  SingleOK'
    <3>1. SingleOK
      BY <2>4, Zenon DEF Parts
    <3>2. ASSUME NEW v \in User, usr'[v].at = "create"
          PROVE  /\ usr'[v].p \in Created /\ RunBy(usr'[v].p) = {}
                 /\ \A w \in User : usr'[w].at = "create" /\ usr'[w].p = usr'[v].p => w = v
      BY <1>6, <2>4, <3>1, <3>2 DEF SingleOK
    <3> QED
      BY <1>0, <1>2, <1>7, <2>1, <3>1, <3>2, SingleUsers, Zenon
  <2> QED
    BY <1>0, <1>3, <2>2, <2>3, <2>4, Zenon DEF Parts
<1>8. CASE \E t \in Thread : /\ pc[t] = "unborn"
                             /\ proc' = [proc EXCEPT ![t] = p] /\ pc' = [pc EXCEPT ![t] = "start"]
  <2>1. PICK t \in Thread : /\ pc[t] = "unborn"
                            /\ proc' = [proc EXCEPT ![t] = p] /\ pc' = [pc EXCEPT ![t] = "start"]
    BY <1>8, Zenon
  <2>2. careful => RunBy(p) = {}
    BY <1>1, <1>2, Zenon DEF Parts, SingleOK
  <2> QED
    BY <1>2, <1>3, <1>5, <1>6, <2>1, <2>2, StartParts, Zenon
<1> QED
  BY <1>1, <1>7, <1>8 DEF CreateThread, Goto

-----------------------------------------------------------------------------
(* A step of a user that touches no lock and starts no thread.             *)
LEMMA UserParts ==
    ASSUME Parts, UNCHANGED <<careful, procVars, proc, pc, mem, dis>>,
           pending' \in [Thread -> BOOLEAN],
           SingleOK => \A t \in Thread : pending'[t] = pending[t] \/ pc[t] \notin {"unborn", "start"},
           NEW u \in User, NEW r, GoodUser(r), usr' = [usr EXCEPT ![u] = r],
           usr[u].at # "release", r.at \notin {"release", "waited"},
           r.at = "wait" => \A t \in r.exits : proc[t] = r.p /\ pc[t] \in WithExitLock \cup Leaving,
           careful /\ r.at = "create" =>
               /\ r.p \in Created /\ RunBy(r.p) = {}
               /\ \A v \in User : usr[v].at = "create" => usr[v].p # r.p
    PROVE  Parts'
<1>0. ProcTypes /\ ThreadTypes /\ UserTypes /\ LocksOK /\ careful \in BOOLEAN
      /\ UNCHANGED <<active, env, exitLock, processes>>
  BY DEF Parts, procVars
<1>1. UserTypes' /\ usr'[u] = r /\ \A v \in User \ {u} : usr'[v] = usr[v]
  BY <1>0, OneUser, Zenon
<1>2. ProcTypes' /\ ThreadTypes'
  BY <1>0, Zenon DEF ProcTypes, ThreadTypes
<1>3. \A v \in User : Unlocked(v)
  BY <1>1, Zenon DEF Unlocked
<1>4. LocksOK'
  BY <1>0, <1>3, LocksKept, Zenon
<1>5. ASSUME careful
      PROVE  SingleOK'
  <2>1. SingleOK
    BY <1>5, Zenon DEF Parts
  <2>2. ASSUME NEW v \in User, usr'[v].at = "create"
        PROVE  /\ usr'[v].p \in Created /\ RunBy(usr'[v].p) = {}
               /\ \A w \in User : usr'[w].at = "create" /\ usr'[w].p = usr'[v].p => w = v
    <3>1. CASE v = u
      BY <1>1, <1>5, <2>2, <3>1, Zenon
    <3>2. CASE v # u
      <4>1. usr'[v] = usr[v] /\ usr[v].p \in Created /\ RunBy(usr[v].p) = {}
            /\ \A w \in User : usr[w].at = "create" /\ usr[w].p = usr[v].p => w = v
        BY <1>1, <2>1, <2>2, <3>2, Zenon DEF SingleOK
      <4> QED
        BY <1>1, <1>5, <2>2, <3>2, <4>1
    <3> QED
      BY <3>1, <3>2, Zenon
  <2> QED
    BY <1>0, <2>1, <2>2, SingleUsers, Zenon
<1> QED
  BY <1>0, <1>1, <1>2, <1>4, <1>5, Zenon DEF Parts

(* The same, for a step that leaves the threads alone too.                 *)
LEMMA UserAlone ==
    ASSUME Parts, UNCHANGED <<careful, procVars, threadVars>>,
           NEW u \in User, NEW r, GoodUser(r), usr' = [usr EXCEPT ![u] = r],
           usr[u].at # "release", r.at \notin {"release", "waited", "create"},
           r.at = "wait" => \A t \in r.exits : proc[t] = r.p /\ pc[t] \in WithExitLock \cup Leaving
    PROVE  Parts'
<1>1. UNCHANGED <<proc, pc, mem, dis, pending>> /\ pending' \in [Thread -> BOOLEAN]
  BY DEF threadVars, Parts, ThreadTypes
<1> QED
  BY <1>1, UserParts, Zenon

(* mp_process_enable.                                                      *)
LEMMA ProcessEnableParts ==
    ASSUME Parts, UNCHANGED careful, NEW u \in User, NEW p \in Proc, ProcessEnable(u, p)
    PROVE  Parts'
<1>1. PICK r : r = [Idle EXCEPT !.at = "create", !.p = p]
  OBVIOUS
<1>2. /\ usr[u].at = "idle" /\ p \in Created
      /\ careful => /\ RunBy(p) = {}
                    /\ \A v \in User : usr[v].at = "create" => usr[v].p # p
      /\ usr' = [usr EXCEPT ![u] = r]
      /\ UNCHANGED <<careful, procVars, proc, pc, mem, dis, pending>>
  BY <1>1 DEF ProcessEnable, Calling, threadVars
<1>3. /\ r.at = "create" /\ r.p = p /\ r.rest = <<>> /\ r \in UserRecord
  BY <1>1, IdleRecord, Zenon DEF UserRecord, UserPlaces
<1>4. GoodUser(r)
  BY <1>3, Zenon DEF GoodUser
<1>5. pending' \in [Thread -> BOOLEAN]
  BY <1>2 DEF Parts, ThreadTypes
<1> QED
  BY <1>2, <1>3, <1>4, <1>5, UserParts, Zenon

(* mp_process_join, up to mp_get_lock.                                     *)
LEMMA ProcessJoinParts ==
    ASSUME Parts, UNCHANGED careful, NEW u \in User, NEW p \in Proc, ProcessJoin(u, p)
    PROVE  Parts'
<1>a. PICK x \in {"wait", "joined"} :
      usr' = [usr EXCEPT ![u] = [Idle EXCEPT !.at = x, !.p = p, !.exits = Exiting(p)]]
  BY Zenon DEF ProcessJoin
<1>1. PICK r : /\ r = [Idle EXCEPT !.at = x, !.p = p, !.exits = Exiting(p)]
               /\ usr' = [usr EXCEPT ![u] = r]
  BY <1>a, Zenon
<1>2. usr[u].at = "idle" /\ UNCHANGED <<procVars, threadVars>>
  BY DEF ProcessJoin, Calling
<1>3. Exiting(p) \in SUBSET Thread
  BY ExitingFacts
<1>4. r.at = x /\ r.p = p /\ r.rest = <<>> /\ r.exits = Exiting(p) /\ r \in UserRecord
  BY <1>1, <1>3, IdleRecord, Zenon DEF UserRecord, UserPlaces
<1>5. GoodUser(r)
  BY <1>4, Zenon DEF GoodUser
<1>6. \A t \in r.exits : proc[t] = r.p /\ pc[t] \in WithExitLock \cup Leaving
  BY <1>4, ExitingFacts
<1> QED
  BY <1>1, <1>2, <1>4, <1>5, <1>6, UserAlone, Zenon

(* mp_interrupt_process, up to the queue.                                  *)
LEMMA InterruptProcessParts ==
    ASSUME Parts, UNCHANGED careful, NEW u \in User, NEW p \in Proc, InterruptProcess(u, p)
    PROVE  Parts'
<1>1. PICK r : r = [Idle EXCEPT !.at = "queue", !.p = p]
  OBVIOUS
<1>2. usr[u].at = "idle" /\ UNCHANGED <<procVars, threadVars>> /\ usr' = [usr EXCEPT ![u] = r]
  BY <1>1 DEF InterruptProcess, Calling
<1>3. r.at = "queue" /\ r.p = p /\ r.rest = <<>> /\ r \in UserRecord
  BY <1>1, IdleRecord, Zenon DEF UserRecord, UserPlaces
<1>4. GoodUser(r)
  BY <1>3 DEF GoodUser
<1> QED
  BY <1>2, <1>3, <1>4, UserAlone, Zenon

(* The end of a join.                                                      *)
LEMMA JoinReturnParts ==
    ASSUME Parts, UNCHANGED careful, NEW u \in User, JoinReturn(u)
    PROVE  Parts'
<1>1. /\ usr[u].at # "release" /\ UNCHANGED <<procVars, threadVars>>
      /\ usr' = [usr EXCEPT ![u] = Idle] /\ Idle.at = "idle"
  BY DEF JoinReturn, Return, Idle
<1> QED
  BY <1>1, IdleGood, UserAlone, Zenon

(* quit starts with the list as it is.                                     *)
LEMMA QuitParts ==
    ASSUME Parts, UNCHANGED careful, NEW u \in User, Quit(u)
    PROVE  Parts'
<1>1. PICK l : l = Append(processes, Nil)
  BY Zenon
<1>2. processes \in Seq(Proc) /\ l \in Seq(Proc \cup {Nil}) /\ l # <<>> /\ l[Len(l)] = Nil
  BY <1>1, QuitLists DEF Parts, ProcTypes
<1>3. PICK r : r = [Idle EXCEPT !.at = "quitKill", !.all = processes, !.rest = l]
  OBVIOUS
<1>4. usr[u].at = "idle" /\ UNCHANGED <<procVars, threadVars>> /\ usr' = [usr EXCEPT ![u] = r]
  BY <1>1, <1>3 DEF Quit
<1>5. r.at = "quitKill" /\ r.rest = l /\ r.exits = {} /\ r \in UserRecord
  BY <1>2, <1>3, IdleRecord, Zenon DEF UserRecord, UserPlaces
<1>6. GoodUser(r)
  BY <1>2, <1>5 DEF GoodUser
<1> QED
  BY <1>4, <1>5, <1>6, UserAlone, Zenon

(* What quit's walk makes of a user's record.                              *)
LEMMA WalkGood ==
    ASSUME NEW g, GoodUser(g), g.at \in {"quitKill", "quitJoin"}
    PROVE  /\ GoodUser([g EXCEPT !.at = "quitJoin", !.rest = Append(g.all, Nil)])
           /\ Head(g.rest) # Nil =>
                /\ GoodUser([g EXCEPT !.rest = Tail(g.rest)])
                /\ \A x \in {"killCheck", "joinCheck"} :
                      GoodUser([g EXCEPT !.at = x, !.p = Head(g.rest), !.rest = Tail(g.rest)])
<1>1. /\ g \in UserRecord /\ g.rest \in Seq(Proc \cup {Nil}) /\ g.rest # <<>>
      /\ g.rest[Len(g.rest)] = Nil /\ g.exits = {} /\ g.all \in Seq(Proc)
  BY DEF GoodUser, UserRecord
<1>2. GoodUser([g EXCEPT !.at = "quitJoin", !.rest = Append(g.all, Nil)])
  <2>1. PICK l : l = Append(g.all, Nil)
    BY Zenon
  <2>2. l \in Seq(Proc \cup {Nil}) /\ l # <<>> /\ l[Len(l)] = Nil
    BY <1>1, <2>1, QuitLists
  <2>3. PICK r : r = [g EXCEPT !.at = "quitJoin", !.rest = l]
    OBVIOUS
  <2>4. r.at = "quitJoin" /\ r.rest = l /\ r.exits = {} /\ r \in UserRecord
    BY <1>1, <2>2, <2>3, Zenon DEF UserRecord, UserPlaces
  <2>5. GoodUser(r)
    BY <2>2, <2>4 DEF GoodUser
  <2> QED
    BY <2>1, <2>3, <2>5
<1>3. ASSUME Head(g.rest) # Nil
      PROVE  /\ GoodUser([g EXCEPT !.rest = Tail(g.rest)])
             /\ \A x \in {"killCheck", "joinCheck"} :
                   GoodUser([g EXCEPT !.at = x, !.p = Head(g.rest), !.rest = Tail(g.rest)])
  <2>1. PICK l, p : l = Tail(g.rest) /\ p = Head(g.rest)
    BY Zenon
  <2>2. p \in Proc /\ l \in Seq(Proc \cup {Nil}) /\ l # <<>> /\ l[Len(l)] = Nil
    BY <1>1, <1>3, <2>1, QuitNext, Zenon
  <2>3. GoodUser([g EXCEPT !.rest = l])
    <3>1. PICK r : r = [g EXCEPT !.rest = l]
      BY Zenon
    <3>2. r.at = g.at /\ r.rest = l /\ r.exits = {} /\ r \in UserRecord
      BY <1>1, <2>2, <3>1, Zenon DEF UserRecord
    <3>3. GoodUser(r)
      BY <2>2, <3>2 DEF GoodUser
    <3> QED
      BY <3>1, <3>3
  <2>4. ASSUME NEW x \in {"killCheck", "joinCheck"}
        PROVE  GoodUser([g EXCEPT !.at = x, !.p = p, !.rest = l])
    <3>1. PICK r : r = [g EXCEPT !.at = x, !.p = p, !.rest = l]
      OBVIOUS
    <3>2. r.at = x /\ r.p = p /\ r.rest = l /\ r.exits = {} /\ r \in UserRecord
      BY <1>1, <2>2, <3>1, Zenon DEF UserRecord, UserPlaces
    <3>3. GoodUser(r)
      BY <2>2, <3>2 DEF GoodUser
    <3> QED
      BY <3>1, <3>3
  <2> QED
    BY <2>1, <2>3, <2>4
<1> QED
  BY <1>2, <1>3, Zenon

(* quit's two walks over its list.                                         *)
LEMMA QuitWalkParts ==
    ASSUME Parts, UNCHANGED careful, NEW u \in User, QuitKill(u) \/ QuitJoin(u)
    PROVE  Parts'
<1>0. /\ GoodUser(usr[u]) /\ usr[u].at \in {"quitKill", "quitJoin"} /\ usr[u].at # "release"
      /\ UNCHANGED <<procVars, threadVars>> /\ usr[u] \in UserRecord
  BY DEF Parts, UserTypes, QuitKill, QuitJoin
<1>1. PICK g : g = usr[u]
  OBVIOUS
<1>2. \/ usr' = [usr EXCEPT ![u] = [g EXCEPT !.at = "quitJoin", !.rest = Append(g.all, Nil)]]
      \/ usr' = [usr EXCEPT ![u] = [Idle EXCEPT !.at = "left"]]
      \/ /\ Head(g.rest) # Nil
         /\ usr' = [usr EXCEPT ![u] = [g EXCEPT !.rest = Tail(g.rest)]]
      \/ /\ Head(g.rest) # Nil
         /\ \E x \in {"killCheck", "joinCheck"} :
               usr' = [usr EXCEPT ![u] = [g EXCEPT !.at = x, !.p = Head(g.rest),
                                                   !.rest = Tail(g.rest)]]
  <2>0. SkipInQuit(u) => usr' = [usr EXCEPT ![u] = [g EXCEPT !.rest = Tail(g.rest)]]
    BY <1>1 DEF SkipInQuit
  <2>1. CASE QuitKill(u)
    BY <1>1, <2>0, <2>1, Zenon DEF QuitKill, NextInQuit
  <2>2. CASE QuitJoin(u)
    BY <1>1, <2>0, <2>2, Zenon DEF QuitJoin, NextInQuit
  <2> QED
    BY <2>1, <2>2
<1>3. \E r : /\ GoodUser(r) /\ usr' = [usr EXCEPT ![u] = r]
             /\ r.at \notin {"release", "waited", "create", "wait"}
  <2>0. g \in UserRecord /\ g.at \in {"quitKill", "quitJoin"} /\ GoodUser(g)
    BY <1>0, <1>1
  <2>1. CASE usr' = [usr EXCEPT ![u] = [g EXCEPT !.at = "quitJoin", !.rest = Append(g.all, Nil)]]
    <3>1. [g EXCEPT !.at = "quitJoin", !.rest = Append(g.all, Nil)].at = "quitJoin"
      BY <2>0 DEF UserRecord
    <3> QED
      BY <2>0, <2>1, <3>1, WalkGood, Zenon
  <2>2. CASE usr' = [usr EXCEPT ![u] = [Idle EXCEPT !.at = "left"]]
    <3>1. PICK r : r = [Idle EXCEPT !.at = "left"]
      BY Zenon
    <3>2. r.at = "left" /\ r.rest = <<>> /\ r \in UserRecord
      BY <3>1, IdleRecord, Zenon DEF UserRecord, UserPlaces
    <3>3. GoodUser(r)
      BY <3>2 DEF GoodUser
    <3> QED
      BY <2>2, <3>1, <3>2, <3>3, Zenon
  <2>3. CASE /\ Head(g.rest) # Nil
             /\ usr' = [usr EXCEPT ![u] = [g EXCEPT !.rest = Tail(g.rest)]]
    <3>1. [g EXCEPT !.rest = Tail(g.rest)].at = g.at
      BY <2>0 DEF UserRecord
    <3> QED
      BY <2>0, <2>3, <3>1, WalkGood, Zenon
  <2>4. ASSUME NEW x \in {"killCheck", "joinCheck"}, Head(g.rest) # Nil,
               usr' = [usr EXCEPT ![u] = [g EXCEPT !.at = x, !.p = Head(g.rest),
                                                   !.rest = Tail(g.rest)]]
        PROVE  \E r : /\ GoodUser(r) /\ usr' = [usr EXCEPT ![u] = r]
                      /\ r.at \notin {"release", "waited", "create", "wait"}
    <3>1. [g EXCEPT !.at = x, !.p = Head(g.rest), !.rest = Tail(g.rest)].at = x
      BY <2>0 DEF UserRecord
    <3> QED
      BY <2>0, <2>4, <3>1, WalkGood, Zenon
  <2> QED
    BY <1>2, <2>1, <2>2, <2>3, <2>4, Zenon
<1> QED
  BY <1>0, <1>3, UserAlone, Zenon

(* quit looks again before it kills or joins.                              *)
LEMMA QuitCheckParts ==
    ASSUME Parts, UNCHANGED careful, NEW u \in User, QuitKillCheck(u) \/ QuitJoinCheck(u)
    PROVE  Parts'
<1>0. /\ GoodUser(usr[u]) /\ usr[u].at \in {"killCheck", "joinCheck"} /\ usr[u].at # "release"
      /\ UNCHANGED <<procVars, threadVars>> /\ usr[u] \in UserRecord
  BY Zenon DEF Parts, UserTypes, QuitKillCheck, QuitJoinCheck
<1>1. PICK g : g = usr[u]
  OBVIOUS
<1>2. /\ g \in UserRecord /\ g.p \in Proc /\ g.rest # <<>> /\ g.exits = {}
      /\ g.rest[Len(g.rest)] = Nil
  BY <1>0, <1>1 DEF GoodUser
<1>3. \/ usr' = [usr EXCEPT ![u] = Idle]
      \/ \E x \in {"queue", "wait"} : usr' = [usr EXCEPT ![u] = [g EXCEPT !.at = x]]
      \/ usr' = [usr EXCEPT ![u] = [g EXCEPT !.at = "quitJoin", !.p = Nil]]
  BY <1>1, Zenon DEF QuitKillCheck, QuitJoinCheck, UGoto, Return, BackToQuit
<1>4. \E r : /\ GoodUser(r) /\ usr' = [usr EXCEPT ![u] = r]
             /\ r.at \notin {"release", "waited", "create"} /\ r.exits = {}
  <2>1. CASE usr' = [usr EXCEPT ![u] = Idle]
    <3>1. Idle.at = "idle" /\ Idle.exits = {}
      BY DEF Idle
    <3> QED
      BY <2>1, <3>1, IdleGood, Zenon
  <2>2. ASSUME NEW x \in {"queue", "wait"}, usr' = [usr EXCEPT ![u] = [g EXCEPT !.at = x]]
        PROVE  \E r : /\ GoodUser(r) /\ usr' = [usr EXCEPT ![u] = r]
                      /\ r.at \notin {"release", "waited", "create"} /\ r.exits = {}
    <3>1. PICK r : r = [g EXCEPT !.at = x]
      BY Zenon
    <3>2. r.at = x /\ r.p = g.p /\ r.rest = g.rest /\ r.exits = {} /\ r \in UserRecord
      BY <1>2, <3>1, Zenon DEF UserRecord, UserPlaces
    <3>3. GoodUser(r)
      BY <1>2, <3>2 DEF GoodUser
    <3> QED
      BY <2>2, <3>1, <3>2, <3>3, Zenon
  <2>3. CASE usr' = [usr EXCEPT ![u] = [g EXCEPT !.at = "quitJoin", !.p = Nil]]
    <3>1. PICK r : r = [g EXCEPT !.at = "quitJoin", !.p = Nil]
      OBVIOUS
    <3>2. r.at = "quitJoin" /\ r.rest = g.rest /\ r.exits = {} /\ r \in UserRecord
      BY <1>2, <3>1, Zenon DEF UserRecord, UserPlaces
    <3>3. GoodUser(r)
      BY <1>2, <3>2 DEF GoodUser
    <3> QED
      BY <2>3, <3>1, <3>2, <3>3, Zenon
  <2> QED
    BY <1>3, <2>1, <2>2, <2>3
<1> QED
  BY <1>0, <1>4, UserAlone, Zenon

(* ecl_interrupt_process.  An environment that a process has is that of    *)
(* its only thread, which has started.                                     *)
LEMMA QueueInterruptParts ==
    ASSUME Parts, UNCHANGED careful, NEW u \in User, QueueInterrupt(u)
    PROVE  Parts'
<1> USE ProcessAssumption
<1>0. /\ GoodUser(usr[u]) /\ usr[u].at = "queue" /\ usr[u] \in UserRecord
      /\ UNCHANGED <<procVars, proc, pc, mem, dis>> /\ usr[u].p \in Proc
      /\ ThreadTypes /\ ProcTypes
  BY DEF Parts, UserTypes, QueueInterrupt, GoodUser
<1>1. PICK p \in Proc, g \in UserRecord : g = usr[u] /\ p = usr[u].p
  BY <1>0, Zenon
<1>2. PICK e \in Thread \cup {Nil} : e = env[p]
  BY <1>0 DEF ProcTypes
<1>3. PICK r :
      /\ usr' = [usr EXCEPT ![u] = r] /\ GoodUser(r)
      /\ r.at \notin {"release", "waited", "wait", "create"}
      /\ pending' = pending \/ (e # Nil /\ pending' = [pending EXCEPT ![e] = TRUE])
  <2>1. CASE e = Nil \/ mem[e] = "freed"
    <3>1. PICK r : r = [Idle EXCEPT !.at = "segv"]
      BY Zenon
    <3>2. r.at = "segv" /\ r.rest = <<>> /\ r \in UserRecord
      BY <3>1, IdleRecord, Zenon DEF UserRecord, UserPlaces
    <3>3. GoodUser(r)
      BY <3>2 DEF GoodUser
    <3>4. usr' = [usr EXCEPT ![u] = r] /\ pending' = pending
      BY <1>1, <1>2, <2>1, <3>1, Zenon DEF QueueInterrupt
    <3> QED
      BY <3>2, <3>3, <3>4, Zenon
  <2>2. CASE ~(e = Nil \/ mem[e] = "freed")
    <3>0. /\ pending' = [pending EXCEPT ![e] = TRUE]
          /\ IF g.rest = <<>> THEN Return(u) ELSE BackToQuit(u, "quitKill")
      BY <1>1, <1>2, <2>2, Zenon DEF QueueInterrupt
    <3>1. CASE g.rest = <<>>
      BY <2>2, <3>0, <3>1, IdleGood, IdleRecord, Zenon DEF Return
    <3>2. CASE g.rest # <<>>
      <4>1. PICK r : r = [g EXCEPT !.at = "quitKill", !.p = Nil]
        OBVIOUS
      <4>2. r.at = "quitKill" /\ r.rest = g.rest /\ r.exits = g.exits /\ r \in UserRecord
        BY <1>0, <1>1, <4>1, Zenon DEF UserRecord, UserPlaces
      <4>3. GoodUser(r)
        BY <1>0, <1>1, <3>2, <4>2, Zenon DEF GoodUser
      <4>4. usr' = [usr EXCEPT ![u] = r]
        BY <1>1, <3>0, <3>2, <4>1, Zenon DEF BackToQuit
      <4> QED
        BY <2>2, <3>0, <4>2, <4>3, <4>4, Zenon
    <3> QED
      BY <3>1, <3>2
  <2> QED
    BY <2>1, <2>2, Zenon
<1>4. pending' \in [Thread -> BOOLEAN]
  BY <1>0, <1>3, Zenon DEF ThreadTypes
<1>5. ASSUME SingleOK, NEW t \in Thread
      PROVE  pending'[t] = pending[t] \/ pc[t] \notin {"unborn", "start"}
  <2>1. CASE e = t
    <3>1. t # Nil /\ RunBy(p) # {}
      BY <1>2, <1>5, <2>1, ZenonT(30) DEF SingleOK
    <3>2. PICK s \in Thread : proc[s] = p /\ Alive(s)
      BY <3>1 DEF RunBy
    <3>3. env[p] = IF pc[s] = "start" THEN Nil ELSE s
      BY <1>5, <3>2, Zenon DEF SingleOK, ThreadOK
    <3> QED
      BY <1>2, <2>1, <3>1, <3>2, <3>3, Zenon DEF Alive
  <2>2. CASE e # t
    BY <1>0, <1>3, <2>2, Zenon DEF ThreadTypes
  <2> QED
    BY <2>1, <2>2
<1> QED
  BY <1>0, <1>3, <1>4, <1>5, UserParts, Zenon

(* mp_process_join takes the exit lock and gives it up again.              *)
LEMMA JoinLockParts ==
    ASSUME Parts, UNCHANGED careful, NEW u \in User, JoinLock(u) \/ JoinUnlock(u)
    PROVE  Parts'
<1> USE ProcessAssumption
<1>0. /\ ProcTypes /\ ThreadTypes /\ UserTypes /\ LocksOK /\ careful \in BOOLEAN
      /\ usr[u].at \in {"wait", "release"}
      /\ UNCHANGED <<active, env, processes, proc, pc, mem, dis, pending>>
  BY DEF Parts, JoinLock, JoinUnlock, threadVars
<1>1. PICK p \in Proc : p = usr[u].p
  BY <1>0, Zenon DEF UserTypes, GoodUser
<1>2. /\ LocksOK' /\ ProcTypes' /\ UserTypes' /\ usr'[u].at # "create"
      /\ \A v \in User \ {u} : usr'[v] = usr[v]
      /\ exitLock[p].holder # p /\ exitLock'[p].holder # p
      /\ \A q \in Proc \ {p} : exitLock'[q] = exitLock[q]
  <2>1. CASE JoinLock(u)
    <3>1. /\ LocksOK' /\ ProcTypes' /\ UserTypes' /\ exitLock[p].holder = Nil
          /\ exitLock' = [exitLock EXCEPT ![p] = [holder |-> u, count |-> 1, mutex |-> u]]
      BY <1>0, <1>1, <2>1, JoinLocks
    <3>2. usr' = [usr EXCEPT ![u].at = "release"]
      BY <2>1 DEF JoinLock, UGoto
    <3>3. usr'[u].at = "release" /\ \A v \in User \ {u} : usr'[v] = usr[v]
      BY <1>0, <3>2, Zenon DEF UserTypes, UserRecord
    <3>4. exitLock'[p].holder = u /\ \A q \in Proc \ {p} : exitLock'[q] = exitLock[q]
      BY <1>0, <3>1 DEF ProcTypes
    <3> QED
      BY <3>1, <3>3, <3>4, Zenon
  <2>2. CASE JoinUnlock(u)
    <3>1. /\ LocksOK' /\ ProcTypes' /\ UserTypes' /\ exitLock[p].holder = u
          /\ exitLock' = [exitLock EXCEPT ![p] = NoLock]
          /\ usr'[u].at # "create" /\ \A v \in User \ {u} : usr'[v] = usr[v]
      BY <1>0, <1>1, <2>2, UnlockLocks, Zenon
    <3>2. exitLock'[p].holder = Nil /\ \A q \in Proc \ {p} : exitLock'[q] = exitLock[q]
      BY <1>0, <3>1 DEF ProcTypes, NoLock
    <3> QED
      BY <3>1, <3>2, Zenon
  <2> QED
    BY <2>1, <2>2, Zenon
<1>3. ThreadTypes'
  BY <1>0, Zenon DEF ThreadTypes
<1>4. ASSUME careful
      PROVE  SingleOK'
  <2>1. SingleOK
    BY <1>4 DEF Parts
  <2>2. ASSUME NEW v \in User, usr'[v].at = "create"
        PROVE  /\ usr'[v].p \in Created /\ RunBy(usr'[v].p) = {}
               /\ \A w \in User : usr'[w].at = "create" /\ usr'[w].p = usr'[v].p => w = v
    <3>1. v # u /\ usr'[v] = usr[v]
      BY <1>2, <2>2
    <3>2. /\ usr[v].p \in Created /\ RunBy(usr[v].p) = {}
          /\ \A w \in User : usr[w].at = "create" /\ usr[w].p = usr[v].p => w = v
      BY <2>1, <2>2, <3>1, Zenon DEF SingleOK
    <3>3. ASSUME NEW w \in User, usr'[w].at = "create", usr'[w].p = usr'[v].p
          PROVE  w = v
      <4>1. w # u /\ usr'[w] = usr[w]
        BY <1>2, <3>3, Zenon
      <4> QED
        BY <3>1, <3>2, <3>3, <4>1, Zenon
    <3> QED
      BY <3>1, <3>2, <3>3, Zenon
  <2>3. \A q \in Proc : \/ exitLock'[q] = exitLock[q]
                        \/ exitLock[q].holder # q /\ exitLock'[q].holder # q
    BY <1>2
  <2> QED
    BY <1>0, <2>1, <2>2, <2>3, SingleUsers, Zenon
<1> QED
  BY <1>0, <1>2, <1>3, <1>4, Zenon DEF Parts

-----------------------------------------------------------------------------
(* alloc_process, before there is any thread.                              *)
LEMMA InitInv == ProcessInit => ProcessInv
<1> SUFFICES ASSUME ProcessInit
             PROVE  Parts
  BY InvParts, Zenon
<1> USE ProcessAssumption
<1>1. ProcTypes
  <2>1. NoLock \in LockRecord
    BY DEF NoLock, LockRecord
  <2> QED
    BY <2>1 DEF ProcessInit, ProcTypes
<1>2. ThreadTypes
  <2>1. "unborn" \in Places
    BY Zenon DEF Places
  <2> QED
    BY <2>1 DEF ProcessInit, ThreadTypes
<1>3. UserTypes
  BY IdleGood, IdleRecord, Zenon DEF ProcessInit, UserTypes
<1>4. \A t \in Thread : pc[t] = "unborn" /\ ~Alive(t)
  BY DEF ProcessInit, Alive
<1>5. \A p \in Proc : RunBy(p) = {} /\ ~Listed(p) /\ exitLock[p] = NoLock
  BY <1>4 DEF RunBy, Listed, Contains, ProcessInit
<1>6. \A u \in User : usr[u].at = "idle"
  BY IdleRecord DEF ProcessInit
<1>7. LocksOK
  <2>1. ASSUME NEW p \in Proc
        PROVE  ExitLockOK(p)
    <3>1. Exiting(p) = {} /\ Cardinality(Exiting(p)) = 0
      BY <1>5, FS_EmptySet, Zenon DEF Exiting
    <3>2. exitLock[p].holder = Nil /\ exitLock[p].count = 0 /\ exitLock[p].mutex = Nil
      BY <1>5 DEF NoLock
    <3>3. Nil \notin Proc /\ Nil \notin User
      BY Zenon
    <3> QED
      BY ONLY <3>1, <3>2, <3>3, SMT DEF ExitLockOK
  <2>2. \A u \in User : WaitOK(u)
    BY <1>6, Zenon DEF WaitOK
  <2> QED
    BY <2>1, <2>2, Zenon DEF LocksOK
<1>8. SingleOK
  <2>1. \A t \in Thread : ThreadOK(t)
    BY <1>4, Zenon DEF ThreadOK, ProcessInit, WithExitLock
  <2>2. \A p \in Proc : env[p] = Nil /\ ~Listed(p) /\ active[p] = 0 /\ exitLock[p].holder # p
    BY <1>5 DEF ProcessInit, NoLock
  <2> QED
    BY <1>4, <1>6, <2>1, <2>2, Zenon DEF SingleOK
<1>9. careful \in BOOLEAN
  BY DEF ProcessInit
<1> QED
  BY <1>1, <1>2, <1>3, <1>7, <1>8, <1>9, Zenon DEF Parts

(* Every step keeps ProcessInv.                                            *)
LEMMA NextInv == ProcessInv /\ [ProcessNext]_vars => ProcessInv'
<1> SUFFICES ASSUME Parts, [ProcessNext]_vars
             PROVE  Parts'
  BY InvParts, InvPartsNext
<1>1. CASE ProcessNext
  <2>0. UNCHANGED careful
    BY <1>1 DEF ProcessNext
  <2>1. ASSUME NEW t \in Thread, NEW p \in Proc, ImportThread(t, p)
        PROVE  Parts'
    BY <2>0, <2>1, ImportThreadParts, Zenon
  <2>2. ASSUME NEW t \in Thread, ThreadStep(t)
        PROVE  Parts'
    BY <2>0, <2>2, AllocEnvParts, PushProcessParts, InitEnvParts, TakeExitLockParts,
       ActivateParts, RunParts, ExitProcessParts, DeactivateParts, LeaveExitLockParts,
       RemoveProcessParts, DeallocEnvParts, Zenon DEF ThreadStep
  <2>3. ASSUME NEW u \in User, Call(u)
        PROVE  Parts'
    BY <2>0, <2>3, QuitParts, ProcessEnableParts, ProcessJoinParts, InterruptProcessParts, Zenon DEF Call
  <2>4. ASSUME NEW u \in User, UserStep(u)
        PROVE  Parts'
    BY <2>0, <2>4, CreateThreadParts, QueueInterruptParts, JoinLockParts, JoinReturnParts,
       QuitWalkParts, QuitCheckParts, Zenon DEF UserStep, JoinStep
  <2> QED
    BY <1>1, <2>1, <2>2, <2>3, <2>4, Zenon DEF ProcessNext
<1>2. CASE UNCHANGED vars
  <2>0. /\ UNCHANGED <<active, env, exitLock, processes>> /\ UNCHANGED <<usr, careful>>
        /\ UNCHANGED <<proc, pc, mem, dis, pending>>
    BY <1>2, Zenon DEF vars, procVars, threadVars
  <2>1. ProcTypes' /\ ThreadTypes' /\ UserTypes'
    BY <2>0, Zenon DEF Parts, ProcTypes, ThreadTypes, UserTypes
  <2>2. LocksOK'
    BY <2>0, LocksKept DEF Parts, Unlocked
  <2>3. ASSUME careful
        PROVE  SingleOK'
    BY <2>0, <2>3, SingleUsers, Zenon DEF Parts, SingleOK
  <2> QED
    BY <2>0, <2>1, <2>2, <2>3, Zenon DEF Parts
<1> QED
  BY <1>1, <1>2

(* The exit locks, the joins that wait for them and, if processes are      *)
(* enabled with care, the threads are as ProcessInv says in every state    *)
(* the calls of threads.d and ext:quit reach.                              *)
THEOREM ProcessInvariant == ProcessSpec => []ProcessInv
BY InitInv, NextInv, PTL DEF ProcessSpec

(* No join leaves an exit lock taken (mp_process_join), so no process is   *)
(* kept from starting or leaving by a user that is in no call.             *)
THEOREM JoinsUnlock == ProcessSpec => []JoinLeavesNoLock
<1>1. ProcessInv => JoinLeavesNoLock
  <2> SUFFICES ASSUME Parts, NEW u \in User, NEW p \in Proc, exitLock[p].mutex = u
               PROVE  usr[u].at = "release"
    BY InvParts, Zenon DEF JoinLeavesNoLock
  <2>1. ExitLockOK(p) /\ exitLock[p] \in LockRecord
    BY FreeLock DEF Parts, LocksOK
  <2>2. exitLock[p].holder \in User
    BY <2>1, ProcessAssumption, Zenon DEF ExitLockOK, LockRecord
  <2> QED
    BY <2>1, <2>2, Zenon DEF ExitLockOK
<1> QED
  BY <1>1, ProcessInvariant, PTL

(* A join that waited returns after the threads that were past             *)
(* mp_get_lock when it asked have given the lock up, with or without care. *)
THEOREM JoinsWait == ProcessSpec => []WaitedForExit
<1>1. ProcessInv => WaitedForExit
  BY Zenon DEF ProcessInv, WaitOK, WaitedForExit
<1> QED
  BY <1>1, ProcessInvariant, PTL

(* A process on the list has an environment that is allocated and not      *)
(* freed (si_clear_gfun_hash uses it), if processes are enabled with care. *)
THEOREM ListedUsable == ProcessSpec => []ListedHasEnv
<1>1. ProcessInv => ListedHasEnv
  <2> SUFFICES ASSUME Parts, careful, NEW p \in Proc, Listed(p)
               PROVE  env[p] # Nil /\ mem[env[p]] \in {"raw", "ready"}
    BY InvParts DEF ListedHasEnv
  <2>1. SingleOK /\ ThreadTypes
    BY Zenon DEF Parts
  <2>2. PICK t \in Thread : proc[t] = p /\ Alive(t)
    BY <2>1 DEF SingleOK, RunBy
  <2>3. ThreadOK(t) /\ pc[t] \in Places \ {"unborn", "dead"}
    BY <2>1, <2>2, Zenon DEF SingleOK, ThreadTypes, Alive
  <2>4. env[p] = t
    BY <2>2, <2>3, Zenon DEF ThreadOK
  <2>5. mem[t] \in {"raw", "ready"}
    BY <2>2, <2>3, Zenon DEF ThreadOK, Places
  <2> QED
    BY <2>4, <2>5, ProcessAssumption, Zenon
<1> QED
  BY <1>1, ProcessInvariant, PTL

(* An active process is on the list and has its exit lock, counted once,   *)
(* if processes are enabled with care.                                     *)
THEOREM ActiveSetUp == ProcessSpec => []ActiveIsSetUp
<1>1. ProcessInv => ActiveIsSetUp
  <2> SUFFICES ASSUME Parts, careful, NEW p \in Proc, active[p] = 1
               PROVE  Listed(p) /\ exitLock[p].holder = p /\ exitLock[p].count = 1
    BY InvParts DEF ActiveIsSetUp
  <2>1. SingleOK /\ ThreadTypes
    BY Zenon DEF Parts
  <2>2. PICK t \in Thread : proc[t] = p /\ Alive(t)
    BY <2>1, SMTT(30) DEF SingleOK, RunBy
  <2>3. ThreadOK(t) /\ pc[t] \in Places \ {"unborn", "dead"}
    BY <2>1, <2>2, Zenon DEF SingleOK, ThreadTypes, Alive
  <2>4. /\ pc[t] \in {"start", "push", "init", "lock", "activate"} => active[p] # 1
        /\ pc[t] \in {"giveup", "remove", "dealloc"} => active[p] = 0
    BY <2>2, <2>3, Zenon DEF ThreadOK
  <2>5. pc[t] \in {"catch", "run", "inactive", "wild"}
    <3>1. \/ pc[t] \in {"start", "push", "init", "lock", "activate"}
          \/ pc[t] \in {"giveup", "remove", "dealloc"}
          \/ pc[t] \in {"catch", "run", "inactive", "wild"}
      BY ONLY <2>3, Zenon DEF Places, WithExitLock
    <3>2. active[p] # 0
      BY ONLY active[p] = 1, SMT
    <3> QED
      BY <2>4, <3>1, <3>2, Zenon
  <2>6. pc[t] \in WithExitLock => exitLock[p].holder = p /\ exitLock[p].count = 1
    BY <2>2, <2>3 DEF ThreadOK
  <2> QED
    BY <2>2, <2>3, <2>5, <2>6, Zenon DEF ThreadOK, WithExitLock
<1> QED
  BY <1>1, ProcessInvariant, PTL
=============================================================================
