-------------------------- MODULE EclInterruptsLemmas --------------------------
(***************************************************************************)
(* The lists of EclInterrupts in an orderly setting: Tidy holds at the     *)
(* start, every step preserves it if it preserves the types and the        *)
(* control part of the invariant (Parts), and it implies RecordsConserved  *)
(* and HandledOnce.                                                        *)
(***************************************************************************)
EXTENDS EclInterrupts, FiniteSetTheorems, TLAPS

FrameType == [kind : {"handler", "trap", "check"}, at : FramePlaces,
              rec : Rec \cup {Nil}, code : Code \cup {0}]

(* The frames of the target.                                               *)
CtxOK == ctx \in Seq(FrameType) /\ \A i \in 1 .. Len(ctx) : FrameOK(ctx[i])

LockPlaces == {"popUpdate", "popUnlock"}

(* The types of everything else, in parts that change together.            *)
HeapTypes ==
    /\ car \in [Rec -> Code \cup {0}] /\ cdr \in [Rec -> Rec \cup {Nil}]
    /\ queue \in Rec \cup {Nil} /\ pend \in Rec \cup {Nil}
CodeTypes ==
    /\ mode \in Modes
    /\ dis \in {0, 1, 3}
    /\ sect \in {"none", "done"} \cup mode.sections
    /\ prot \in BOOLEAN /\ lisp \in BOOLEAN
    /\ sig \in BOOLEAN /\ blocked \in BOOLEAN /\ crashed \in BOOLEAN
    /\ prot => lisp
    /\ sect = "alloc" => dis # 0
SenderTypes ==
    /\ spc \in [Sender -> {"idle", "lock"} \cup SenderLocked]
    /\ srec \in [Sender -> Rec \cup {Nil}]
    /\ scode \in [Sender -> Code \cup {0}]
    /\ sent \in Nat
    /\ \A s \in Sender : SenderOK(s)
DoneTypes == handled \in [Code -> 0 .. 2] /\ lost \subseteq Code
LockOK == qlock \in [holder : Sender \cup {"target", Nil}, count : Nat] /\ QueueLockOK

Parts == CtxOK /\ HeapTypes /\ CodeTypes /\ SenderTypes /\ DoneTypes /\ LockOK

(* A sequence without its last element.                                    *)
LEMMA Shorter ==
    ASSUME NEW S, NEW s \in Seq(S), s # <<>>
    PROVE  /\ Len(s) \in Nat \ {0}
           /\ SubSeq(s, 1, Len(s) - 1) \in Seq(S)
           /\ Len(SubSeq(s, 1, Len(s) - 1)) = Len(s) - 1
           /\ \A i \in 1 .. Len(s) - 1 : SubSeq(s, 1, Len(s) - 1)[i] = s[i]
<1> DEFINE n == Len(s) - 1
<1>1. Len(s) \in Nat \ {0} /\ n \in Nat /\ n \in Int /\ 1 \in Int /\ \A i \in 1 .. n : s[i] \in S
  OBVIOUS
<1> HIDE DEF n
<1>2. /\ SubSeq(s, 1, n) \in Seq(S)
      /\ Len(SubSeq(s, 1, n)) = IF 1 <= n THEN n - 1 + 1 ELSE 0
      /\ \A i \in 1 .. n - 1 + 1 : SubSeq(s, 1, n)[i] = s[1 + i - 1]
  BY <1>1
<1>3. Len(SubSeq(s, 1, n)) = n
  BY <1>1, <1>2
<1>4. \A i \in 1 .. n : SubSeq(s, 1, n)[i] = s[i]
  <2>1. n - 1 + 1 = n
    BY <1>1
  <2>2. \A i \in 1 .. n : 1 + i - 1 = i
    BY <1>1
  <2> QED
    BY <1>2, <2>1, <2>2
<1> QED
  BY <1>1, <1>2, <1>3, <1>4 DEF n

(* What is known of the innermost frame.                                   *)
LEMMA TopFacts ==
    ASSUME CtxOK, ctx # <<>>
    PROVE  /\ Top \in FrameType /\ FrameOK(Top)
           /\ Len(ctx) \in TargetLocked <=> Top.at \in LockPlaces
<1>1. Len(ctx) \in 1 .. Len(ctx)
  BY DEF CtxOK
<1> QED
  BY <1>1 DEF CtxOK, Top, TargetLocked, LockPlaces

-----------------------------------------------------------------------------
(* A list in which the records appear in the order f.                      *)
InOrder(c, h, S, n, f) ==
    /\ f \in [1 .. n -> S]
    /\ \A r \in S : \E i \in 1 .. n : f[i] = r
    /\ \A i, j \in 1 .. n : f[i] = f[j] => i = j
    /\ h = IF n = 0 THEN Nil ELSE f[1]
    /\ \A i \in 1 .. n : c[f[i]] = IF i = n THEN Nil ELSE f[i + 1]

(* A list has an order.                                                    *)
LEMMA ChainOrder ==
    ASSUME NEW c, NEW h, NEW S
    PROVE  Chain(c, h, S) <=> \E n \in 0 .. Cardinality(Rec) : \E f : InOrder(c, h, S, n, f)
BY DEF Chain, InOrder

(* There are as many records as there are.                                 *)
LEMMA RecFinite == IsFiniteSet(Rec) /\ Cardinality(Rec) \in Nat /\ Nil \notin Rec
BY InterruptsAssumption, FS_CardinalityType

(* A list is empty, or its first record is a member.                       *)
LEMMA ChainFirst ==
    ASSUME NEW c, NEW h, NEW S \in SUBSET Rec, Chain(c, h, S)
    PROVE  IF h = Nil THEN S = {} ELSE h \in S
<1>0. PICK n \in 0 .. Cardinality(Rec) : \E f : InOrder(c, h, S, n, f)
  BY ChainOrder
<1>1. PICK f : InOrder(c, h, S, n, f)
  BY <1>0
<1>2. n \in Nat
  BY RecFinite
<1>3. CASE n = 0
  <2>1. 1 .. n = {} /\ h = Nil
    BY <1>1, <1>3 DEF InOrder
  <2> QED
    BY <1>1, <2>1 DEF InOrder
<1>4. CASE n # 0
  <2>1. 1 \in 1 .. n
    BY <1>2, <1>4
  <2>2. h = f[1] /\ f[1] \in S
    BY <1>1, <1>4, <2>1 DEF InOrder
  <2> QED
    BY <2>2, RecFinite
<1> QED
  BY <1>3, <1>4

(* The rest of a list is a list of the other members.                      *)
LEMMA ChainRest ==
    ASSUME NEW c, NEW h, NEW S \in SUBSET Rec, Chain(c, h, S), h # Nil
    PROVE  h \in S /\ Chain(c, c[h], S \ {h})
<1>0. PICK n \in 0 .. Cardinality(Rec) : \E f : InOrder(c, h, S, n, f)
  BY ChainOrder
<1>1. PICK f : InOrder(c, h, S, n, f)
  BY <1>0
<1>2. n \in Nat \ {0} /\ 1 \in 1 .. n /\ n - 1 \in 0 .. Cardinality(Rec)
  BY <1>1, RecFinite DEF InOrder
<1>3. h = f[1] /\ h \in S
  BY <1>1, <1>2 DEF InOrder
<1> DEFINE g == [i \in 1 .. n - 1 |-> f[i + 1]]
<1>4. \A i \in 1 .. n - 1 : i + 1 \in 1 .. n /\ i + 1 # 1
  BY <1>2
<1>5. g \in [1 .. n - 1 -> S \ {h}]
  <2>1. \A i \in 1 .. n - 1 : f[i + 1] \in S /\ f[i + 1] # h
    BY <1>1, <1>2, <1>3, <1>4 DEF InOrder
  <2> QED
    BY <2>1
<1>6. \A r \in S \ {h} : \E i \in 1 .. n - 1 : g[i] = r
  <2> SUFFICES ASSUME NEW r \in S \ {h}
               PROVE  \E i \in 1 .. n - 1 : g[i] = r
    OBVIOUS
  <2>1. PICK j \in 1 .. n : f[j] = r
    BY <1>1 DEF InOrder
  <2>2. j # 1 /\ j - 1 \in 1 .. n - 1 /\ (j - 1) + 1 = j
    BY <1>2, <1>3, <2>1
  <2>3. g[j - 1] = r
    BY <2>1, <2>2
  <2> QED
    BY <2>2, <2>3
<1>7. \A i, j \in 1 .. n - 1 : g[i] = g[j] => i = j
  <2> SUFFICES ASSUME NEW i \in 1 .. n - 1, NEW j \in 1 .. n - 1, g[i] = g[j]
               PROVE  i = j
    OBVIOUS
  <2>1. i + 1 \in 1 .. n /\ j + 1 \in 1 .. n /\ f[i + 1] = f[j + 1]
    BY <1>4
  <2>2. i + 1 = j + 1
    BY <1>1, <2>1 DEF InOrder
  <2> QED
    BY <2>2
<1>8. c[h] = IF n - 1 = 0 THEN Nil ELSE g[1]
  <2>1. c[f[1]] = IF 1 = n THEN Nil ELSE f[1 + 1]
    BY <1>1, <1>2 DEF InOrder
  <2>2. n # 1 => 1 \in 1 .. n - 1
    BY <1>2
  <2> QED
    BY <1>2, <1>3, <2>1, <2>2
<1>9. \A i \in 1 .. n - 1 : c[g[i]] = IF i = n - 1 THEN Nil ELSE g[i + 1]
  <2> SUFFICES ASSUME NEW i \in 1 .. n - 1
               PROVE  c[g[i]] = IF i = n - 1 THEN Nil ELSE g[i + 1]
    BY Zenon
  <2>1. c[f[i + 1]] = IF i + 1 = n THEN Nil ELSE f[(i + 1) + 1]
    BY <1>1, <1>4 DEF InOrder
  <2>2. i # n - 1 => i + 1 \in 1 .. n - 1
    BY <1>2
  <2>3. i + 1 = n <=> i = n - 1
    BY <1>2
  <2> QED
    BY <2>1, <2>2, <2>3
<1>10. InOrder(c, c[h], S \ {h}, n - 1, g)
  <2> HIDE DEF g
  <2> QED
    BY <1>5, <1>6, <1>7, <1>8, <1>9 DEF InOrder
<1> HIDE DEF g
<1> QED
  BY <1>2, <1>3, <1>10, ChainOrder

(* A record that points to a list begins a longer one.                     *)
LEMMA ChainLonger ==
    ASSUME NEW c, NEW h, NEW S \in SUBSET Rec, Chain(c, h, S), NEW r \in Rec \ S, c[r] = h
    PROVE  Chain(c, r, S \cup {r})
<1>0. PICK n \in 0 .. Cardinality(Rec) : \E f : InOrder(c, h, S, n, f)
  BY ChainOrder
<1>1. PICK f : InOrder(c, h, S, n, f)
  BY <1>0
<1>2. n \in Nat /\ 1 \in 1 .. n + 1
  BY RecFinite
<1> DEFINE g == [i \in 1 .. n + 1 |-> IF i = 1 THEN r ELSE f[i - 1]]
<1>3. \A i \in 1 .. n + 1 : i # 1 => i - 1 \in 1 .. n
  BY <1>2
<1>11. \A i \in 1 .. n : f[i] \in S
  BY <1>1 DEF InOrder
<1>4. g \in [1 .. n + 1 -> S \cup {r}]
  BY <1>3, <1>11
<1>5. \A x \in S \cup {r} : \E i \in 1 .. n + 1 : g[i] = x
  <2> SUFFICES ASSUME NEW x \in S \cup {r}
               PROVE  \E i \in 1 .. n + 1 : g[i] = x
    OBVIOUS
  <2>1. CASE x = r
    <3>1. g[1] = r
      BY <1>2
    <3> QED
      BY <1>2, <2>1, <3>1
  <2>2. CASE x \in S
    <3>1. PICK j \in 1 .. n : f[j] = x
      BY <1>1, <2>2 DEF InOrder
    <3>2. j + 1 \in 1 .. n + 1 /\ j + 1 # 1 /\ (j + 1) - 1 = j
      BY <1>2
    <3>3. g[j + 1] = x
      BY <3>1, <3>2
    <3> QED
      BY <3>2, <3>3
  <2> QED
    BY <2>1, <2>2
<1>6. \A i, j \in 1 .. n + 1 : g[i] = g[j] => i = j
  <2> SUFFICES ASSUME NEW i \in 1 .. n + 1, NEW j \in 1 .. n + 1, g[i] = g[j]
               PROVE  i = j
    OBVIOUS
  <2>1. \A k \in 1 .. n + 1 : k # 1 => g[k] # r
    BY <1>3, <1>11
  <2>2. g[1] = r
    BY <1>2
  <2>3. CASE i = 1 \/ j = 1
    BY <2>1, <2>2, <2>3
  <2>4. CASE i # 1 /\ j # 1
    <3>1. i - 1 \in 1 .. n /\ j - 1 \in 1 .. n /\ f[i - 1] = f[j - 1]
      BY <1>3, <2>4
    <3>2. i - 1 = j - 1
      BY <1>1, <3>1 DEF InOrder
    <3> QED
      BY <3>2
  <2> QED
    BY <2>3, <2>4
<1>7. \A i \in 1 .. n + 1 : c[g[i]] = IF i = n + 1 THEN Nil ELSE g[i + 1]
  <2> SUFFICES ASSUME NEW i \in 1 .. n + 1
               PROVE  c[g[i]] = IF i = n + 1 THEN Nil ELSE g[i + 1]
    BY Zenon
  <2>1. i # n + 1 => i + 1 \in 1 .. n + 1 /\ i + 1 # 1 /\ (i + 1) - 1 = i
    BY <1>2
  <2>2. i # n + 1 => g[i + 1] = f[i]
    BY <2>1
  <2>3. CASE i = 1
    <3>1. c[g[i]] = h
      BY <1>2, <2>3
    <3>2. h = IF n = 0 THEN Nil ELSE f[1]
      BY <1>1 DEF InOrder
    <3>3. n = 0 <=> i = n + 1
      BY <1>2, <2>3
    <3> QED
      BY <2>2, <2>3, <3>1, <3>2, <3>3
  <2>4. CASE i # 1
    <3>1. i - 1 \in 1 .. n /\ g[i] = f[i - 1]
      BY <1>3, <2>4
    <3>2. c[f[i - 1]] = IF i - 1 = n THEN Nil ELSE f[(i - 1) + 1]
      BY <1>1, <3>1 DEF InOrder
    <3>3. (i - 1 = n <=> i = n + 1) /\ (i - 1) + 1 = i
      BY <1>2
    <3> QED
      BY <2>2, <3>1, <3>2, <3>3
  <2> QED
    BY <2>3, <2>4
<1>8. r = IF n + 1 = 0 THEN Nil ELSE g[1]
  BY <1>2
<1>9. n + 1 \in 0 .. Cardinality(Rec)
  <2> HIDE DEF g
  <2>1. g \in [1 .. n + 1 -> Rec]
    BY <1>4
  <2>2. g \in Injection(1 .. n + 1, Rec)
    BY <2>1, <1>6 DEF Injection, IsInjective
  <2>3. Cardinality(1 .. n + 1) <= Cardinality(Rec)
    BY <2>2, RecFinite, FS_Injection
  <2>4. Cardinality(1 .. n + 1) = n + 1
    BY <1>2, FS_Interval
  <2> QED
    BY <1>2, <2>3, <2>4, RecFinite
<1>10. InOrder(c, r, S \cup {r}, n + 1, g)
  <2> HIDE DEF g
  <2> QED
    BY <1>4, <1>5, <1>6, <1>7, <1>8 DEF InOrder
<1> HIDE DEF g
<1> QED
  BY <1>9, <1>10, ChainOrder

(* A list does not notice a change of a record it does not have.           *)
LEMMA ChainElsewhere ==
    ASSUME NEW c \in [Rec -> Rec \cup {Nil}], NEW h, NEW S \in SUBSET Rec, Chain(c, h, S),
           NEW r \in Rec \ S, NEW x
    PROVE  Chain([c EXCEPT ![r] = x], h, S)
<1> DEFINE d == [c EXCEPT ![r] = x]
<1>0. PICK n \in 0 .. Cardinality(Rec) : \E f : InOrder(c, h, S, n, f)
  BY ChainOrder
<1>1. PICK f : InOrder(c, h, S, n, f)
  BY <1>0
<1>2. \A s \in S : d[s] = c[s]
  OBVIOUS
<1> HIDE DEF d
<1>3. \A i \in 1 .. n : d[f[i]] = c[f[i]]
  BY <1>1, <1>2 DEF InOrder
<1>4. InOrder(d, h, S, n, f)
  BY <1>1, <1>3 DEF InOrder
<1>5. Chain(d, h, S)
  BY <1>4, ChainOrder
<1> QED
  BY <1>5 DEF d

(* A set of natural numbers that is not empty has a least element.         *)
LEMMA NatMin ==
    ASSUME NEW T \in SUBSET Nat, T # {}
    PROVE  \E x \in T : \A y \in T : x <= y
<1> DEFINE R == OpToRel(<, Nat)
<1>1. PICK x \in T : \A y \in T : ~(<<y, x>> \in R)
  <2> HIDE DEF R
  <2> QED
    BY NatLessThanWellFounded, WFMin, Zenon DEF R
<1>2. R = {ss \in Nat \X Nat : ss[1] < ss[2]}
  BY Zenon DEF OpToRel
<1> HIDE DEF R
<1>3. ASSUME NEW y \in T
      PROVE  x <= y
  <2>1. <<y, x>> \notin {ss \in Nat \X Nat : ss[1] < ss[2]}
    BY <1>1, <1>2
  <2> QED
    BY <2>1
<1> QED
  BY <1>3

(* Walk follows the order of a list, and stays at NIL.                     *)
LEMMA WalkOrder ==
    ASSUME NEW c, NEW h, NEW S \in SUBSET Rec, NEW n \in 0 .. Cardinality(Rec), NEW f,
           InOrder(c, h, S, n, f)
    PROVE  \A k \in 0 .. Cardinality(Rec) : Walk(c, h)[k] = IF k < n THEN f[k + 1] ELSE Nil
<1> DEFINE N == Cardinality(Rec)
           Step(w, k) == IF k = 0 THEN h ELSE IF w[k - 1] = Nil THEN Nil ELSE c[w[k - 1]]
           Val(k) == IF k < n THEN f[k + 1] ELSE Nil
           walk == CHOOSE w : w = [k \in 0 .. N |-> Step(w, k)]
           good == [k \in 0 .. N |-> Val(k)]
<1>1. N \in Nat /\ n \in Nat /\ n <= N
  BY RecFinite
<1>2. ASSUME NEW k \in 0 .. N, NEW w, k # 0 => w[k - 1] = Val(k - 1)
      PROVE  Step(w, k) = Val(k)
  <2>1. CASE k = 0
    BY <1>1, <2>1 DEF InOrder
  <2>2. CASE k # 0 /\ k - 1 < n
    <3>1. k \in 1 .. n /\ (k - 1) + 1 = k /\ (k < n <=> k # n)
      BY <1>1, <2>2
    <3>2. w[k - 1] = f[k] /\ f[k] \in Rec /\ f[k] # Nil
      BY <1>2, <2>2, <3>1, RecFinite DEF InOrder
    <3>3. c[f[k]] = IF k = n THEN Nil ELSE f[k + 1]
      BY <3>1 DEF InOrder
    <3> QED
      BY <2>2, <3>1, <3>2, <3>3
  <2>3. CASE k # 0 /\ ~(k - 1 < n)
    <3>1. ~(k < n)
      BY <1>1, <2>3
    <3> QED
      BY <1>2, <2>3, <3>1
  <2> QED
    BY <2>1, <2>2, <2>3
<1>3. good = [k \in 0 .. N |-> Step(good, k)]
  <2>1. ASSUME NEW k \in 0 .. N
        PROVE  Val(k) = Step(good, k)
    <3>1. k # 0 => k - 1 \in 0 .. N
      BY <1>1
    <3>2. k # 0 => good[k - 1] = Val(k - 1)
      <4> HIDE DEF Val
      <4> QED
        BY <3>1
    <3> HIDE DEF Val, Step, good
    <3> QED
      BY <1>2, <3>2
  <2> HIDE DEF Val, Step
  <2> QED
    BY <2>1
<1>4. walk = [k \in 0 .. N |-> Step(walk, k)]
  <2> HIDE DEF good, Step
  <2> QED
    BY <1>3, Zenon
<1>5. Walk(c, h) = walk
  BY DEF Walk
<1> HIDE DEF walk, good
<1>6. \A k \in 0 .. N : walk[k] = Val(k)
  <2> DEFINE T == {k \in 0 .. N : walk[k] # Val(k)}
  <2> HIDE DEF Val, Step
  <2> SUFFICES ASSUME T # {}
               PROVE  FALSE
    OBVIOUS
  <2>0. T \in SUBSET Nat /\ T \subseteq 0 .. N
    BY <1>1
  <2>1. PICK m \in T : \A k \in T : m <= k
    <3> HIDE DEF T
    <3> QED
      BY <2>0, NatMin
  <2>2. m \in 0 .. N /\ walk[m] # Val(m)
    BY <2>1
  <2>3. m # 0 => m - 1 \in 0 .. N /\ m - 1 \notin T
    <3> HIDE DEF T
    <3> QED
      BY <1>1, <2>1, <2>2
  <2>4. m # 0 => walk[m - 1] = Val(m - 1)
    BY <2>3
  <2>5. walk[m] = Step(walk, m)
    BY <1>4, <2>2, Zenon
  <2> QED
    BY <1>2, <2>2, <2>4, <2>5
<1> QED
  BY <1>5, <1>6

(* What Members and Ends say of a list.                                    *)
LEMMA ChainMembers ==
    ASSUME NEW h, NEW S \in SUBSET Rec, Chain(cdr, h, S)
    PROVE  Ends(h) /\ Members(h) = S
<1>0. PICK n \in 0 .. Cardinality(Rec) : \E f : InOrder(cdr, h, S, n, f)
  BY ChainOrder
<1>1. PICK f : InOrder(cdr, h, S, n, f)
  BY <1>0
<1> DEFINE N == Cardinality(Rec)
           w == Walk(cdr, h)
<1>2. N \in Nat /\ n \in Nat /\ n <= N /\ N \in 0 .. N
  BY RecFinite
<1>3. \A k \in 0 .. N : w[k] = IF k < n THEN f[k + 1] ELSE Nil
  BY <1>1, WalkOrder
<1> HIDE DEF w
<1>4. Ends(h)
  BY ONLY <1>2, <1>3 DEF Ends, w
<1>5. ASSUME NEW k \in 0 .. N, w[k] # Nil
      PROVE  w[k] \in S
  <2>1. k < n /\ k + 1 \in 1 .. n /\ w[k] = f[k + 1]
    BY <1>2, <1>3, <1>5
  <2> QED
    BY <1>1, <2>1 DEF InOrder
<1>6. ASSUME NEW r \in S
      PROVE  r # Nil /\ \E k \in 0 .. N : w[k] = r
  <2>1. PICK i \in 1 .. n : f[i] = r
    BY <1>1 DEF InOrder
  <2>2. i - 1 \in 0 .. N /\ i - 1 < n /\ (i - 1) + 1 = i
    BY <1>2
  <2>3. w[i - 1] = r
    BY <1>3, <2>1, <2>2
  <2> QED
    BY <2>2, <2>3, RecFinite
<1>7. Members(h) = S
  BY <1>5, <1>6 DEF Members, w
<1> QED
  BY <1>4, <1>7

-----------------------------------------------------------------------------
(* Lists, with what they are made of as parameters.                        *)
ListsOf(c, q, p, F, P, H) ==
    /\ Chain(c, q, F) /\ Chain(c, p, P)
    /\ F \cap P = {} /\ H \cap (F \cup P) = {}
    /\ F \cup P \cup H = Rec

(* The first free record is taken.                                         *)
LEMMA ListsTake ==
    ASSUME NEW c, NEW q, NEW p, NEW F \in SUBSET Rec, NEW P \in SUBSET Rec,
           ListsOf(c, q, p, F, P, {}), q # Nil
    PROVE  ListsOf(c, c[q], p, F \ {q}, P, {q})
<1>1. q \in F /\ Chain(c, c[q], F \ {q})
  BY ChainRest, Zenon DEF ListsOf
<1> QED
  BY <1>1 DEF ListsOf

(* A record in somebody's hands is filled in.                              *)
LEMMA ListsFill ==
    ASSUME NEW c \in [Rec -> Rec \cup {Nil}], NEW q, NEW p,
           NEW F \in SUBSET Rec, NEW P \in SUBSET Rec, NEW r \in Rec, NEW x,
           ListsOf(c, q, p, F, P, {r})
    PROVE  r \notin P /\ ListsOf([c EXCEPT ![r] = x], q, p, F, P, {r})
<1>1. r \in Rec \ F /\ r \in Rec \ P
  BY DEF ListsOf
<1>2. Chain([c EXCEPT ![r] = x], q, F) /\ Chain([c EXCEPT ![r] = x], p, P)
  BY <1>1, ChainElsewhere, Zenon DEF ListsOf
<1> QED
  BY <1>1, <1>2 DEF ListsOf

(* It goes on the pending list.                                            *)
LEMMA ListsStore ==
    ASSUME NEW c, NEW q, NEW p, NEW F \in SUBSET Rec, NEW P \in SUBSET Rec, NEW r \in Rec,
           ListsOf(c, q, p, F, P, {r}), c[r] = p
    PROVE  r \notin P /\ ListsOf(c, q, r, F, P \cup {r}, {})
<1>1. r \in Rec \ P /\ r \notin F
  BY DEF ListsOf
<1>2. Chain(c, r, P \cup {r})
  BY <1>1, ChainLonger DEF ListsOf
<1> QED
  BY <1>1, <1>2 DEF ListsOf

(* The first pending record becomes free.                                  *)
LEMMA ListsMove ==
    ASSUME NEW c \in [Rec -> Rec \cup {Nil}], NEW q \in Rec \cup {Nil}, NEW p,
           NEW F \in SUBSET Rec, NEW P \in SUBSET Rec,
           ListsOf(c, q, p, F, P, {}), p # Nil
    PROVE  p \in P /\ ListsOf([c EXCEPT ![p] = q], p, c[p], F \cup {p}, P \ {p}, {})
<1> DEFINE d == [c EXCEPT ![p] = q]
<1>1. p \in P /\ Chain(c, c[p], P \ {p})
  BY ChainRest DEF ListsOf
<1>2. p \in Rec \ F /\ p \in Rec \ (P \ {p}) /\ P \ {p} \in SUBSET Rec
  BY <1>1 DEF ListsOf
<1>3. Chain(d, q, F) /\ Chain(d, c[p], P \ {p}) /\ d[p] = q
  BY <1>1, <1>2, ChainElsewhere, Zenon DEF ListsOf
<1> HIDE DEF d
<1>4. Chain(d, p, F \cup {p})
  BY <1>2, <1>3, ChainLonger
<1>5. ListsOf(d, p, c[p], F \cup {p}, P \ {p}, {})
  BY <1>1, <1>2, <1>3, <1>4 DEF ListsOf
<1> QED
  BY <1>1, <1>5 DEF d

-----------------------------------------------------------------------------
(* Accounted, likewise: A ask for the interrupts in sc, those in ca of P   *)
(* are pending, T are in a handler's hands, n were sent.                   *)
Distinct(S, f) == \A s, t \in S : f[s] = f[t] => s = t
Apart(A, sc, P, ca) == \A s \in A, r \in P : sc[s] # ca[r]
Waiting(S, f, T, hd, n) == \A s \in S : f[s] \in 1 .. n /\ hd[f[s]] = 0 /\ f[s] \notin T
Taken(T, hd, n) == \A c \in T : c \in 1 .. n /\ hd[c] = 0
Ran(hd, n) == \A c \in Code : hd[c] <= 1 /\ (hd[c] > 0 => c <= n)
Known(c, A, sc, P, ca, T, hd, lo) ==
    \/ hd[c] > 0 \/ c \in lo \/ c \in T
    \/ \E s \in A : sc[s] = c
    \/ \E r \in P : ca[r] = c
AccountedOf(A, sc, P, ca, T, hd, lo, n) ==
    /\ Distinct(A, sc) /\ Distinct(P, ca) /\ Apart(A, sc, P, ca)
    /\ Waiting(A, sc, T, hd, n) /\ Waiting(P, ca, T, hd, n)
    /\ Taken(T, hd, n) /\ Ran(hd, n)
    /\ \A c \in 1 .. n : Known(c, A, sc, P, ca, T, hd, lo)

(* The two agree.                                                          *)
LEMMA AccountedIs ==
    ASSUME NEW P
    PROVE  Accounted(P) <=>
           AccountedOf(Asking, scode, P, car, InHand, handled, lost, sent)
<1> DEFINE asked == {scode[s] : s \in Asking}
           filed == {car[r] : r \in P}
<1>1. asked \cap filed = {} <=> Apart(Asking, scode, P, car)
  BY DEF Apart
<1>2. InHand \cap (asked \cup filed) = {} <=>
          (\A s \in Asking : scode[s] \notin InHand) /\ \A r \in P : car[r] \notin InHand
  OBVIOUS
<1>3. (\A c \in asked \cup filed \cup InHand : c \in 1 .. sent /\ handled[c] = 0) <=>
          /\ \A s \in Asking : scode[s] \in 1 .. sent /\ handled[scode[s]] = 0
          /\ \A r \in P : car[r] \in 1 .. sent /\ handled[car[r]] = 0
          /\ Taken(InHand, handled, sent)
  BY DEF Taken
<1>4. \A c : c \in asked \cup filed \cup InHand <=>
          c \in InHand \/ (\E s \in Asking : scode[s] = c) \/ \E r \in P : car[r] = c
  OBVIOUS
<1>5. Accounted(P) <=>
        /\ Distinct(Asking, scode) /\ Distinct(P, car)
        /\ asked \cap filed = {} /\ InHand \cap (asked \cup filed) = {}
        /\ \A c \in asked \cup filed \cup InHand : c \in 1 .. sent /\ handled[c] = 0
        /\ Ran(handled, sent)
        /\ \A c \in 1 .. sent : \/ handled[c] > 0 \/ c \in lost
                               \/ c \in asked \cup filed \cup InHand
  BY Zenon DEF Accounted, Distinct, Ran
<1> HIDE DEF asked, filed
<1>6. /\ Waiting(Asking, scode, InHand, handled, sent) <=>
            /\ \A s \in Asking : scode[s] \in 1 .. sent /\ handled[scode[s]] = 0
            /\ \A s \in Asking : scode[s] \notin InHand
      /\ Waiting(P, car, InHand, handled, sent) <=>
            /\ \A r \in P : car[r] \in 1 .. sent /\ handled[car[r]] = 0
            /\ \A r \in P : car[r] \notin InHand
  BY DEF Waiting
<1>7. (\A c \in 1 .. sent : \/ handled[c] > 0 \/ c \in lost
                           \/ c \in asked \cup filed \cup InHand)
        <=> \A c \in 1 .. sent : Known(c, Asking, scode, P, car, InHand, handled, lost)
  BY <1>4 DEF Known
<1> QED
  BY <1>1, <1>2, <1>3, <1>5, <1>6, <1>7 DEF AccountedOf

(* A new interrupt.                                                        *)
LEMMA AccountAsk ==
    ASSUME NEW A, NEW sc, NEW P, NEW ca, NEW T, NEW hd, NEW lo, NEW n \in Nat,
           AccountedOf(A, sc, P, ca, T, hd, lo, n),
           A \subseteq Sender, sc \in [Sender -> Code \cup {0}],
           NEW s \in Sender, s \notin A, n + 1 \in Code, hd \in [Code -> 0 .. 2]
    PROVE  AccountedOf(A \cup {s}, [sc EXCEPT ![s] = n + 1], P, ca, T, hd, lo, n + 1)
<1> DEFINE d == [sc EXCEPT ![s] = n + 1]
           B == A \cup {s}
<1>1. d[s] = n + 1 /\ \A t \in A : d[t] = sc[t]
  OBVIOUS
<1> HIDE DEF d
<1>2. \A k \in 1 .. n : k \in 1 .. n + 1 /\ k # n + 1
  OBVIOUS
<1>3. hd[n + 1] = 0 /\ n + 1 \in 1 .. n + 1 /\ n + 1 \notin T
  <2>1. Taken(T, hd, n) /\ Ran(hd, n)
    BY Zenon DEF AccountedOf
  <2>2. n + 1 \notin 1 .. n /\ n + 1 \in 1 .. n + 1 /\ ~(n + 1 <= n)
    BY ONLY n \in Nat
  <2>3. hd[n + 1] \in 0 .. 2 /\ ~(hd[n + 1] > 0)
    BY <2>1, <2>2, Zenon DEF Ran
  <2>4. hd[n + 1] = 0
    BY ONLY <2>3
  <2>5. n + 1 \notin T
    BY <2>1, <2>2, Zenon DEF Taken
  <2> QED
    BY <2>2, <2>4, <2>5, Zenon
<1>4. \A t \in A : sc[t] \in 1 .. n /\ hd[sc[t]] = 0 /\ sc[t] \notin T
  BY Zenon DEF AccountedOf, Waiting
<1>5. \A r \in P : ca[r] \in 1 .. n /\ hd[ca[r]] = 0 /\ ca[r] \notin T
  BY Zenon DEF AccountedOf, Waiting
<1>6. Distinct(B, d)
  BY <1>1, <1>2, <1>4, Zenon DEF AccountedOf, Distinct
<1>7. Apart(B, d, P, ca)
  BY <1>1, <1>2, <1>5, Zenon DEF AccountedOf, Apart
<1>8. Waiting(B, d, T, hd, n + 1)
  BY <1>1, <1>2, <1>3, <1>4 DEF Waiting
<1>9. Ran(hd, n + 1)
  <2>1. \A c \in Code : c \in Nat
    BY InterruptsAssumption DEF Code
  <2>2. Ran(hd, n)
    BY Zenon DEF AccountedOf
  <2> QED
    BY ONLY n \in Nat, <2>1, <2>2 DEF Ran
<1>10. ASSUME NEW c \in 1 .. n + 1
       PROVE  Known(c, B, d, P, ca, T, hd, lo)
  <2>1. CASE c = n + 1
    BY <1>1, <2>1 DEF Known
  <2>2. CASE c \in 1 .. n
    <3>1. Known(c, A, sc, P, ca, T, hd, lo)
      BY <2>2 DEF AccountedOf
    <3> QED
      BY <1>1, <3>1 DEF Known
  <2>3. c = n + 1 \/ c \in 1 .. n
    OBVIOUS
  <2> QED
    BY <2>1, <2>2, <2>3
<1>11. Distinct(P, ca) /\ Taken(T, hd, n + 1)
  BY <1>2 DEF AccountedOf, Taken
<1>12. Waiting(P, ca, T, hd, n + 1)
  BY <1>2, <1>5 DEF Waiting
<1>13. AccountedOf(B, d, P, ca, T, hd, lo, n + 1)
  BY <1>6, <1>7, <1>8, <1>9, <1>10, <1>11, <1>12, Zenon DEF AccountedOf
<1> QED
  BY <1>13 DEF d

(* An interrupt is given up, for want of a record.                         *)
LEMMA AccountLose ==
    ASSUME NEW A, NEW sc, NEW P, NEW ca, NEW T, NEW hd, NEW lo, NEW n,
           AccountedOf(A, sc, P, ca, T, hd, lo, n), NEW s \in A
    PROVE  AccountedOf(A \ {s}, sc, P, ca, T, hd, lo \cup {sc[s]}, n)
<1>1. Distinct(A \ {s}, sc) /\ Apart(A \ {s}, sc, P, ca) /\ Waiting(A \ {s}, sc, T, hd, n)
  BY Zenon DEF AccountedOf, Distinct, Apart, Waiting
<1>2. ASSUME NEW c \in 1 .. n
      PROVE  Known(c, A \ {s}, sc, P, ca, T, hd, lo \cup {sc[s]})
  <2>1. Known(c, A, sc, P, ca, T, hd, lo)
    BY DEF AccountedOf
  <2> QED
    BY <2>1 DEF Known
<1> QED
  BY <1>1, <1>2, Zenon DEF AccountedOf

(* A record that is not pending is filled in.                              *)
LEMMA AccountFill ==
    ASSUME NEW A, NEW sc, NEW P, NEW ca, NEW T, NEW hd, NEW lo, NEW n,
           AccountedOf(A, sc, P, ca, T, hd, lo, n),
           P \subseteq Rec, ca \in [Rec -> Code \cup {0}], NEW r \in Rec \ P, NEW x
    PROVE  AccountedOf(A, sc, P, [ca EXCEPT ![r] = x], T, hd, lo, n)
<1> DEFINE d == [ca EXCEPT ![r] = x]
<1>1. \A q \in P : d[q] = ca[q]
  OBVIOUS
<1> HIDE DEF d
<1>2. Distinct(P, d) /\ Apart(A, sc, P, d) /\ Waiting(P, d, T, hd, n)
  BY <1>1, Zenon DEF AccountedOf, Distinct, Apart, Waiting
<1>3. \A c \in 1 .. n : Known(c, A, sc, P, d, T, hd, lo)
  BY <1>1 DEF AccountedOf, Known
<1>4. AccountedOf(A, sc, P, d, T, hd, lo, n)
  BY <1>2, <1>3, Zenon DEF AccountedOf
<1> QED
  BY <1>4 DEF d

(* The interrupt of a sender becomes pending.                              *)
LEMMA AccountFile ==
    ASSUME NEW A, NEW sc, NEW P, NEW ca, NEW T, NEW hd, NEW lo, NEW n,
           AccountedOf(A, sc, P, ca, T, hd, lo, n),
           NEW s \in A, NEW r, r \notin P, ca[r] = sc[s]
    PROVE  AccountedOf(A \ {s}, sc, P \cup {r}, ca, T, hd, lo, n)
<1>1. Distinct(A \ {s}, sc) /\ Waiting(A \ {s}, sc, T, hd, n)
  BY Zenon DEF AccountedOf, Distinct, Waiting
<1>2. Distinct(P \cup {r}, ca)
  BY Zenon DEF AccountedOf, Distinct, Apart
<1>3. Apart(A \ {s}, sc, P \cup {r}, ca)
  BY Zenon DEF AccountedOf, Distinct, Apart
<1>4. Waiting(P \cup {r}, ca, T, hd, n)
  BY DEF AccountedOf, Waiting
<1>5. ASSUME NEW c \in 1 .. n
      PROVE  Known(c, A \ {s}, sc, P \cup {r}, ca, T, hd, lo)
  <2>1. Known(c, A, sc, P, ca, T, hd, lo)
    BY DEF AccountedOf
  <2> QED
    BY <2>1 DEF Known
<1> QED
  BY <1>1, <1>2, <1>3, <1>4, <1>5, Zenon DEF AccountedOf

(* The interrupt of a handler becomes pending again.                       *)
LEMMA AccountRefile ==
    ASSUME NEW A, NEW sc, NEW P, NEW ca, NEW x, NEW hd, NEW lo, NEW n,
           AccountedOf(A, sc, P, ca, {x}, hd, lo, n),
           NEW r, r \notin P, ca[r] = x
    PROVE  AccountedOf(A, sc, P \cup {r}, ca, {}, hd, lo, n)
<1>1. Waiting(A, sc, {}, hd, n) /\ Taken({}, hd, n)
  BY DEF AccountedOf, Waiting, Taken
<1>2. Distinct(P \cup {r}, ca)
  BY Zenon DEF AccountedOf, Distinct, Waiting
<1>3. Apart(A, sc, P \cup {r}, ca)
  BY DEF AccountedOf, Apart, Waiting
<1>4. Waiting(P \cup {r}, ca, {}, hd, n)
  BY DEF AccountedOf, Waiting, Taken
<1>5. ASSUME NEW c \in 1 .. n
      PROVE  Known(c, A, sc, P \cup {r}, ca, {}, hd, lo)
  <2>1. Known(c, A, sc, P, ca, {x}, hd, lo)
    BY DEF AccountedOf
  <2> QED
    BY <2>1 DEF Known
<1> QED
  BY <1>1, <1>2, <1>3, <1>4, <1>5, Zenon DEF AccountedOf

(* A handler takes an interrupt off the list.                              *)
LEMMA AccountPop ==
    ASSUME NEW A, NEW sc, NEW P, NEW ca, NEW hd, NEW lo, NEW n,
           AccountedOf(A, sc, P, ca, {}, hd, lo, n), NEW r \in P
    PROVE  AccountedOf(A, sc, P \ {r}, ca, {ca[r]}, hd, lo, n) /\ ca[r] \in 1 .. n
<1>1. Distinct(P \ {r}, ca) /\ Apart(A, sc, P \ {r}, ca)
  BY Zenon DEF AccountedOf, Distinct, Apart
<1>2. Waiting(A, sc, {ca[r]}, hd, n)
  BY DEF AccountedOf, Waiting, Apart
<1>3. Waiting(P \ {r}, ca, {ca[r]}, hd, n)
  BY Zenon DEF AccountedOf, Waiting, Distinct
<1>4. Taken({ca[r]}, hd, n) /\ ca[r] \in 1 .. n
  BY DEF AccountedOf, Waiting, Taken
<1>5. ASSUME NEW c \in 1 .. n
      PROVE  Known(c, A, sc, P \ {r}, ca, {ca[r]}, hd, lo)
  <2>1. Known(c, A, sc, P, ca, {}, hd, lo)
    BY DEF AccountedOf
  <2> QED
    BY <2>1 DEF Known
<1> QED
  BY <1>1, <1>2, <1>3, <1>4, <1>5, Zenon DEF AccountedOf

(* It runs.                                                                *)
LEMMA AccountRun ==
    ASSUME NEW A, NEW sc, NEW P, NEW ca, NEW x \in Code, NEW hd \in [Code -> 0 .. 2],
           NEW lo, NEW n \in Nat, 1 .. n \subseteq Code,
           AccountedOf(A, sc, P, ca, {x}, hd, lo, n)
    PROVE  AccountedOf(A, sc, P, ca, {},
                       [hd EXCEPT ![x] = IF hd[x] < 2 THEN hd[x] + 1 ELSE hd[x]], lo, n)
<1> DEFINE d == [hd EXCEPT ![x] = IF hd[x] < 2 THEN hd[x] + 1 ELSE hd[x]]
<1>1. x \in 1 .. n /\ hd[x] = 0
  BY DEF AccountedOf, Taken
<1>2. d[x] = 1 /\ \A c \in Code : c # x => d[c] = hd[c]
  BY <1>1
<1> HIDE DEF d
<1>3. Waiting(A, sc, {}, d, n) /\ Waiting(P, ca, {}, d, n)
  BY <1>2 DEF AccountedOf, Waiting
<1>4. Ran(d, n)
  BY <1>1, <1>2 DEF AccountedOf, Ran
<1>5. Taken({}, d, n)
  BY DEF Taken
<1>6. ASSUME NEW c \in 1 .. n
      PROVE  Known(c, A, sc, P, ca, {}, d, lo)
  <2>1. Known(c, A, sc, P, ca, {x}, hd, lo) /\ c \in Code
    BY DEF AccountedOf
  <2>2. CASE c = x
    BY <1>2, <2>2 DEF Known
  <2>3. CASE c # x
    BY <1>2, <2>1, <2>3 DEF Known
  <2> QED
    BY <2>2, <2>3
<1>7. AccountedOf(A, sc, P, ca, {}, d, lo, n)
  BY <1>3, <1>4, <1>5, <1>6 DEF AccountedOf
<1> QED
  BY <1>7 DEF d

-----------------------------------------------------------------------------
(* Tidy in parts.                                                          *)
Calm ==
    /\ Len(ctx) <= 1
    /\ Posting \/ sig => ctx = <<>>
    /\ ~mode.prompt => ~(Posting /\ sig)
    /\ blocked => ctx # <<>> /\ Top.kind = "handler"
    /\ mode.sections = {} => dis = 0
    /\ ~mode.lispSections => lisp
    /\ prot => mode.discipline = "serial" /\ ctx = <<>> /\ pend # Nil /\ ~sig /\ ~Posting
    /\ sent <= mode.sends
SendersTidy == \A s \in Sender : SenderTidy(s)
TopTidy == ctx # <<>> => FrameTidy(Top)
Data(F, P) ==
    /\ ListsOf(cdr, queue, pend, F, P, SenderHolds \cup TargetHolds)
    /\ AccountedOf(Asking, scode, P, car, InHand, handled, lost, sent)
DataOK == \E F, P \in SUBSET Rec : Data(F, P)

(* The parts make up Tidy.                                                 *)
LEMMA TidyParts == Tidy <=> Calm /\ SendersTidy /\ TopTidy /\ DataOK
<1>1. ASSUME NEW F, NEW P
      PROVE  Lists(F, P) /\ Accounted(P) <=> Data(F, P)
  <2>1. Lists(F, P) <=> ListsOf(cdr, queue, pend, F, P, SenderHolds \cup TargetHolds)
    BY DEF Lists, ListsOf
  <2> QED
    BY <2>1, AccountedIs DEF Data
<1>2. (\E F, P \in SUBSET Rec : Lists(F, P) /\ Accounted(P)) <=> DataOK
  BY <1>1 DEF DataOK
<1> QED
  BY <1>2, Zenon DEF Tidy, Calm, SendersTidy, TopTidy

(* The same in the next state.                                             *)
LEMMA TidyPartsNext == Tidy' <=> Calm' /\ SendersTidy' /\ TopTidy' /\ DataOK'
BY TidyParts, PTL

(* What a single frame holds.                                              *)
HandPlaces == {"popUnlock", "decide", "handle", "qTake", "qLink", "qStore"}
FrameSets ==
    IF ctx = <<>> THEN TargetHolds = {} /\ InHand = {}
    ELSE /\ TargetHolds = IF Top.at \in {"qLink", "qStore"} THEN {Top.rec} ELSE {}
         /\ InHand = IF Top.at \in HandPlaces THEN {Top.code} ELSE {}

(* With at most one frame, that is all there is.                           *)
LEMMA OneFrame == CtxOK /\ Len(ctx) <= 1 => FrameSets
<1> SUFFICES ASSUME CtxOK, Len(ctx) <= 1
             PROVE  FrameSets
  OBVIOUS
<1>1. Len(ctx) \in Nat /\ DOMAIN ctx = 1 .. Len(ctx) /\ (ctx = <<>> <=> Len(ctx) = 0)
  BY DEF CtxOK
<1>2. CASE ctx = <<>>
  BY <1>1, <1>2 DEF FrameSets, TargetHolds, InHand
<1>3. CASE ctx # <<>>
  <2>1. DOMAIN ctx = {1} /\ Top = ctx[1]
    BY <1>1, <1>3 DEF Top
  <2>2. TargetHolds = IF Top.at \in {"qLink", "qStore"} THEN {Top.rec} ELSE {}
    BY <2>1 DEF TargetHolds
  <2>3. InHand = IF Top.at \in HandPlaces THEN {Top.code} ELSE {}
    BY <2>1 DEF InHand, HandPlaces
  <2> QED
    BY <1>3, <2>2, <2>3 DEF FrameSets
<1> QED
  BY <1>2, <1>3

(* The same in the next state.                                             *)
LEMMA OneFrameNext == CtxOK' /\ Len(ctx') <= 1 => FrameSets'
<1>1. (CtxOK /\ Len(ctx) <= 1 => FrameSets)'
  BY OneFrame, PTL
<1> QED
  BY <1>1

(* There is one frame, if there is one at all.                             *)
LEMMA LenOne ==
    ASSUME CtxOK, Len(ctx) <= 1, ctx # <<>>
    PROVE  Len(ctx) = 1
<1>1. Len(ctx) \in Nat /\ (Len(ctx) = 0 => ctx = <<>>)
  BY DEF CtxOK
<1>2. PICK n : n = Len(ctx)
  OBVIOUS
<1>3. n \in Nat /\ n # 0 /\ n <= 1
  BY <1>1, <1>2
<1>4. n = 1
  BY <1>3
<1> QED
  BY <1>2, <1>4

(* The only frame changes.                                                 *)
LEMMA OnlySet ==
    ASSUME Parts, Parts', Len(ctx) = 1, ctx # <<>>, NEW f \in FrameType, SetTop(f)
    PROVE  /\ Len(ctx') = 1 /\ ctx' # <<>> /\ Top' = f
           /\ TargetHolds' = IF f.at \in {"qLink", "qStore"} THEN {f.rec} ELSE {}
           /\ InHand' = IF f.at \in HandPlaces THEN {f.code} ELSE {}
<1>0. ctx \in Seq(FrameType)
  BY DEF Parts, CtxOK
<1>1. Len(ctx') = 1 /\ ctx' # <<>> /\ Top' = f
  <2>1. ctx' = [ctx EXCEPT ![1] = f]
    BY DEF SetTop
  <2>2. Len(ctx') = 1 /\ ctx'[1] = f
    BY <1>0, <2>1
  <2> QED
    BY <2>2 DEF Top
<1>2. FrameSets'
  <2>1. Len(ctx') <= 1
    BY ONLY <1>1
  <2> QED
    BY <2>1, OneFrameNext, Zenon DEF Parts
<1> QED
  BY <1>1, <1>2 DEF FrameSets

(* The only frame ends.                                                    *)
LEMMA OnlyPopped ==
    ASSUME Parts, Parts', Len(ctx) = 1, ctx # <<>>, PopFrame
    PROVE  ctx' = <<>> /\ TargetHolds' = {} /\ InHand' = {}
<1>1. Len(ctx') = 0 /\ ctx' = <<>>
  <2>0. ctx \in Seq(FrameType) /\ ctx' \in Seq(FrameType)
    BY DEF Parts, CtxOK
  <2>1. Len(ctx) = 1 /\ ctx \in Seq(FrameType) /\ ctx' \in Seq(FrameType)
    BY <2>0, Zenon
  <2>2. Len(ctx') = 0
    BY <2>1, Shorter DEF PopFrame
  <2> QED
    BY <2>1, <2>2
<1>2. FrameSets'
  <2>1. Len(ctx') <= 1
    BY ONLY <1>1
  <2> QED
    BY <2>1, OneFrameNext, Zenon DEF Parts
<1> QED
  BY <1>1, <1>2 DEF FrameSets

(* A first frame begins.                                                   *)
LEMMA OnlyPushed ==
    ASSUME Parts, Parts', ctx = <<>>, NEW f \in FrameType, PushFrame(f),
           f.at \in {"check", "popRead"}
    PROVE  Len(ctx') = 1 /\ ctx' # <<>> /\ Top' = f /\ TargetHolds' = {} /\ InHand' = {}
<1>1. Len(ctx') = 1 /\ ctx' # <<>> /\ Top' = f
  BY DEF PushFrame, Top
<1>2. FrameSets'
  BY <1>1, OneFrameNext DEF Parts
<1> QED
  BY <1>1, <1>2 DEF FrameSets, HandPlaces

-----------------------------------------------------------------------------
(* Nobody but s is in its critical section and holds a record.             *)
HoldsOf(s) == SenderHolds = IF spc[s] \in {"link", "store"} THEN {srec[s]} ELSE {}
AloneIn(s) ==
    /\ \A t \in Sender \ {s} : spc[t] \notin SenderLocked /\ srec[t] = Nil
    /\ HoldsOf(s)
AllAlone == \A s \in Sender : spc[s] \in SenderLocked => AloneIn(s)

(* The sender that has the lock is.                                        *)
LEMMA OneSender == Parts /\ SendersTidy => AllAlone
<1> SUFFICES ASSUME Parts, SendersTidy, NEW s \in Sender, spc[s] \in SenderLocked
             PROVE  AloneIn(s)
  BY DEF AllAlone
<1>1. \A t \in Sender \ {s} : spc[t] \notin SenderLocked
  BY DEF Parts, LockOK, QueueLockOK
<1>2. \A t \in Sender \ {s} : srec[t] = Nil
  BY <1>1 DEF SendersTidy, SenderTidy, SenderLocked
<1>3. CASE spc[s] \in {"link", "store"}
  <2>1. srec[s] # Nil
    BY <1>3, RecFinite DEF Parts, SenderTypes, SenderOK
  <2>2. SenderHolds = {srec[s]}
    BY <1>2, <2>1 DEF SenderHolds
  <2> QED
    BY <1>1, <1>2, <1>3, <2>2 DEF HoldsOf, AloneIn
<1>4. CASE spc[s] \notin {"link", "store"}
  <2>1. srec[s] = Nil
    BY <1>4 DEF SendersTidy, SenderTidy
  <2>2. SenderHolds = {}
    BY <1>2, <2>1 DEF SenderHolds
  <2> QED
    BY <1>1, <1>2, <1>4, <2>2 DEF HoldsOf, AloneIn
<1> QED
  BY <1>3, <1>4

(* The same in the next state.                                             *)
LEMMA OneSenderNext ==
    ASSUME Parts', SendersTidy', NEW s \in Sender, spc'[s] \in SenderLocked
    PROVE  SenderHolds' = IF spc'[s] \in {"link", "store"} THEN {srec'[s]} ELSE {}
<1>1. Parts' /\ SendersTidy' => AllAlone'
  BY OneSender, PTL
<1> QED
  BY <1>1 DEF HoldsOf, AloneIn, AllAlone

(* While the target is in a frame, no sender is at work on the lists.      *)
LEMMA InFrame ==
    ASSUME Parts, Tidy, ctx # <<>>
    PROVE  /\ Len(ctx) = 1 /\ ~Posting /\ sig = FALSE /\ prot = FALSE
           /\ SenderHolds = {} /\ FrameTidy(Top) /\ FrameSets
           /\ \E F, P \in SUBSET Rec :
                /\ ListsOf(cdr, queue, pend, F, P, TargetHolds)
                /\ AccountedOf(Asking, scode, P, car, InHand, handled, lost, sent)
<1>1. Calm /\ SendersTidy /\ TopTidy /\ DataOK
  BY TidyParts
<1>a. Len(ctx) = 1
  BY <1>1, LenOne DEF Calm, Parts
<1>b. ~Posting /\ sig = FALSE /\ prot = FALSE
  BY <1>1 DEF Calm, Parts, CodeTypes
<1>2. Len(ctx) = 1 /\ ~Posting /\ sig = FALSE /\ prot = FALSE
  BY <1>a, <1>b
<1>3. \A s \in Sender : srec[s] = Nil
  BY <1>1, <1>2 DEF SendersTidy, SenderTidy, Posting
<1>4. SenderHolds = {}
  BY <1>3 DEF SenderHolds
<1>5. FrameSets
  BY <1>2, OneFrame DEF Parts
<1>6. SenderHolds \cup TargetHolds = TargetHolds
  BY <1>4
<1> QED
  BY <1>1, <1>2, <1>4, <1>5, <1>6 DEF DataOK, Data, TopTidy

(* A step of the frame.                                                    *)
LEMMA FrameStep ==
    ASSUME Parts, Parts', Tidy, ctx # <<>>,
           UNCHANGED <<mode, lisp, sig>>, UNCHANGED senderVars,
           ctx' = <<>> \/ (Len(ctx') = 1 /\ FrameTidy(Top)'),
           blocked' => ctx' # <<>> /\ Top'.kind = "handler",
           mode.sections = {} => dis' = 0,
           prot' => mode.discipline = "serial" /\ ctx' = <<>> /\ pend' # Nil,
           NEW F \in SUBSET Rec, NEW P \in SUBSET Rec,
           ListsOf(cdr', queue', pend', F, P, TargetHolds'),
           AccountedOf(Asking, scode, P, car', InHand', handled', lost', sent)
    PROVE  Tidy'
<1>1. Calm /\ SendersTidy
  BY TidyParts, Zenon
<1>2. ~Posting /\ sig = FALSE
  BY InFrame, Zenon
<1>3. spc' = spc /\ srec' = srec /\ scode' = scode /\ sent' = sent
  BY Zenon DEF senderVars
<1>4. ~Posting' /\ ~sig' /\ Asking' = Asking
  BY <1>2, <1>3, Zenon DEF Posting, Asking
<1>5. Calm'
  <2>1. Len(ctx') <= 1
    <3>1. CASE ctx' = <<>>
      <4>1. Len(ctx') = 0
        BY <3>1, Zenon
      <4> QED
        BY ONLY <4>1
    <3>2. CASE Len(ctx') = 1
      BY ONLY <3>2
    <3> QED
      BY <3>1, <3>2, Zenon
  <2>2. sent' <= mode'.sends /\ (~mode'.lispSections => lisp')
    BY <1>1, <1>3, Zenon DEF Calm
  <2> QED
    BY <1>4, <2>1, <2>2, Zenon DEF Calm
<1>6. SendersTidy'
  BY <1>1, <1>2, <1>3, Zenon DEF SendersTidy, SenderTidy, Posting
<1>7. TopTidy'
  BY DEF TopTidy
<1>8. SenderHolds' = {}
  <2>1. SenderHolds = {}
    BY InFrame, Zenon
  <2> QED
    BY <1>3, <2>1, Zenon DEF SenderHolds
<1>9. DataOK'
  <2>1. SenderHolds' \cup TargetHolds' = TargetHolds'
    BY <1>8, Zenon
  <2>2. Data(F, P)'
    BY <1>3, <1>4, <2>1, Zenon DEF Data
  <2> QED
    BY <2>2, Zenon DEF DataOK
<1> QED
  BY <1>5, <1>6, <1>7, <1>9, TidyPartsNext, Zenon

-----------------------------------------------------------------------------
(* The places between which a frame moves without touching the lists.      *)
LEMMA FrameMoves ==
    ASSUME Parts, Parts', Tidy, ctx # <<>>,
           UNCHANGED <<mode, lisp, sig, prot>>, UNCHANGED senderVars, UNCHANGED <<heapVars, pend>>,
           UNCHANGED doneVars,
           NEW f \in FrameType, SetTop(f), f.rec = Top.rec \/ f.at \notin {"qLink", "qStore"},
           f.code = Top.code \/ f.at \notin HandPlaces,
           f.at \in {"qLink", "qStore"} <=> Top.at \in {"qLink", "qStore"},
           f.at \in HandPlaces <=> Top.at \in HandPlaces,
           FrameTidy(f)',
           blocked' => f.kind = "handler",
           mode.sections = {} => dis' = 0
    PROVE  Tidy'
<1>1. PICK F \in SUBSET Rec, P \in SUBSET Rec :
        /\ ListsOf(cdr, queue, pend, F, P, TargetHolds)
        /\ AccountedOf(Asking, scode, P, car, InHand, handled, lost, sent)
  BY InFrame, Zenon
<1>2. Len(ctx) = 1 /\ prot = FALSE /\ FrameSets
  BY InFrame, Zenon
<1>3. /\ Len(ctx') = 1 /\ ctx' # <<>> /\ Top' = f
      /\ TargetHolds' = IF f.at \in {"qLink", "qStore"} THEN {f.rec} ELSE {}
      /\ InHand' = IF f.at \in HandPlaces THEN {f.code} ELSE {}
  BY <1>2, OnlySet, Zenon
<1>4. TargetHolds' = TargetHolds /\ InHand' = InHand
  BY <1>2, <1>3 DEF FrameSets
<1>5. ListsOf(cdr', queue', pend', F, P, TargetHolds')
  BY <1>1, <1>4, Zenon DEF heapVars
<1>6. AccountedOf(Asking, scode, P, car', InHand', handled', lost', sent)
  BY <1>1, <1>4, Zenon DEF heapVars, doneVars
<1>7. FrameTidy(Top)'
  BY <1>3, Zenon DEF FrameTidy
<1> QED
  BY <1>2, <1>3, <1>5, <1>6, <1>7, FrameStep, Zenon

(* A frame ends that holds nothing.                                        *)
LEMMA FrameEnds ==
    ASSUME Parts, Parts', Tidy, ctx # <<>>,
           UNCHANGED <<mode, lisp, sig>>, UNCHANGED senderVars, UNCHANGED <<heapVars, pend>>,
           UNCHANGED doneVars, Top.at \notin HandPlaces, PopFrame, ~blocked',
           prot' => mode.discipline = "serial" /\ pend # Nil,
           mode.sections = {} => dis' = 0
    PROVE  Tidy'
<1>1. PICK F \in SUBSET Rec, P \in SUBSET Rec :
        /\ ListsOf(cdr, queue, pend, F, P, TargetHolds)
        /\ AccountedOf(Asking, scode, P, car, InHand, handled, lost, sent)
  BY InFrame, Zenon
<1>2. Len(ctx) = 1 /\ FrameSets
  BY InFrame, Zenon
<1>3. ctx' = <<>> /\ TargetHolds' = {} /\ InHand' = {}
  BY <1>2, OnlyPopped, Zenon
<1>4. TargetHolds' = TargetHolds /\ InHand' = InHand
  BY <1>2, <1>3 DEF FrameSets, HandPlaces
<1>5. ListsOf(cdr', queue', pend', F, P, TargetHolds')
  BY <1>1, <1>4, Zenon DEF heapVars
<1>6. AccountedOf(Asking, scode, P, car', InHand', handled', lost', sent)
  BY <1>1, <1>4, Zenon DEF heapVars, doneVars
<1> QED
  BY <1>3, <1>5, <1>6, FrameStep, Zenon

(* What the control part says of a frame.                                  *)
LEMMA FrameCalm ==
    ASSUME Parts, Tidy, ctx # <<>>
    PROVE  /\ blocked => Top.kind = "handler"
           /\ mode.sections = {} => dis = 0
           /\ Top \in FrameType /\ FrameOK(Top) /\ CtxOK
           /\ Top.rec \in Rec \cup {Nil} /\ Top.code \in Code \cup {0}
           /\ Top.kind \in {"handler", "trap", "check"}
<1>1. Calm
  BY TidyParts
<1>2. Top \in FrameType /\ FrameOK(Top) /\ CtxOK
  BY TopFacts DEF Parts
<1> QED
  BY <1>1, <1>2 DEF Calm, FrameType

(* EndFrame of the only frame opens the signal mask.                       *)
LEMMA EndsOpen ==
    ASSUME Parts, Tidy, ctx # <<>>, EndFrame
    PROVE  PopFrame /\ ~blocked'
BY FrameCalm, Zenon DEF EndFrame

(* ecl_check_pending_interrupts.                                           *)
LEMMA CheckPendingTidy ==
    ASSUME Parts, Parts', Tidy, UNCHANGED mode, CheckPending
    PROVE  Tidy'
<1>1. /\ ctx # <<>> /\ Top.at = "check" /\ dis' = 0
      /\ UNCHANGED <<mode, lisp, sig, prot>> /\ UNCHANGED blocked
      /\ UNCHANGED senderVars /\ UNCHANGED <<heapVars, pend>> /\ UNCHANGED doneVars
      /\ PopFrame \/ SetTop(TopWith("popRead", Top.rec, Top.code))
  BY DEF CheckPending, At, Goto, codeVars, sigVars
<1>2. Top.kind = "check" /\ blocked = FALSE
  BY <1>1, FrameCalm, Zenon DEF FrameOK, Parts, CodeTypes
<1>3. prot = FALSE
  BY <1>1, InFrame
<1>4. CASE PopFrame
  BY <1>1, <1>2, <1>3, <1>4, FrameEnds, Zenon DEF HandPlaces
<1>5. CASE SetTop(TopWith("popRead", Top.rec, Top.code))
  <2>f. PICK f : f = TopWith("popRead", Top.rec, Top.code)
    OBVIOUS
  <2>1. f \in FrameType /\ f.at = "popRead"
    <3>1. /\ Top.rec \in Rec \cup {Nil} /\ Top.code \in Code \cup {0}
          /\ Top.kind \in {"handler", "trap", "check"}
      BY <1>1, FrameCalm, Zenon
    <3> QED
      BY ONLY <2>f, <3>1 DEF TopWith, FrameType, FramePlaces
  <2>2. SetTop(f)
    BY <2>f, <1>5
  <2>3. FrameTidy(f)'
    BY <2>1 DEF FrameTidy
  <2> QED
    BY <1>1, <1>2, <2>1, <2>2, <2>3, FrameMoves, Zenon DEF HandPlaces
<1> QED
  BY <1>1, <1>4, <1>5

(* pop_signal reads the list.                                              *)
LEMMA PopReadTidy ==
    ASSUME Parts, Parts', Tidy, UNCHANGED mode, PopRead
    PROVE  Tidy'
<1>1. /\ ctx # <<>> /\ Top.at = "popRead" /\ dis' = dis
      /\ UNCHANGED <<mode, lisp, sig, prot>>
      /\ UNCHANGED senderVars /\ UNCHANGED <<heapVars, pend>> /\ UNCHANGED doneVars
      /\ EndFrame \/ (SetTop(TopWith("popLock", pend, Top.code)) /\ blocked' = blocked)
  BY DEF PopRead, At, codeVars, envVars
<1>2. prot = FALSE
  BY <1>1, InFrame
<1>3. CASE EndFrame
  BY <1>1, <1>2, <1>3, EndsOpen, FrameEnds, FrameCalm DEF HandPlaces
<1>4. CASE SetTop(TopWith("popLock", pend, Top.code)) /\ blocked' = blocked
  <2>f. PICK f : f = TopWith("popLock", pend, Top.code)
    OBVIOUS
  <2>a. CtxOK /\ Top.code \in Code \cup {0} /\ pend \in Rec \cup {Nil}
    BY <1>1, FrameCalm, Zenon DEF Parts, HeapTypes
  <2>1. f \in FrameType /\ f.at = "popLock" /\ f.rec = pend /\ f.kind = Top.kind
    <3>1. Top.kind \in {"handler", "trap", "check"}
      BY <1>1, FrameCalm, Zenon
    <3> QED
      BY ONLY <2>a, <2>f, <3>1 DEF TopWith, FrameType, FramePlaces
  <2>2. SetTop(f)
    BY <2>f, <1>4
  <2>3. FrameTidy(f)'
    BY <1>1, <2>1, Zenon DEF FrameTidy
  <2> QED
    BY <1>1, <1>4, <2>1, <2>2, <2>3, FrameCalm, FrameMoves, Zenon DEF HandPlaces
<1> QED
  BY <1>1, <1>3, <1>4

(* mp_get_lock in pop_signal: the environment is not protected.            *)
LEMMA PopLockTidy ==
    ASSUME Parts, Parts', Tidy, UNCHANGED mode, PopLock
    PROVE  Tidy'
<1>1. ctx # <<>> /\ Top.at = "popLock"
  BY DEF PopLock, At
<1>2. prot = FALSE /\ FrameTidy(Top)
  BY <1>1, InFrame
<1>f. PICK f : f = TopWith("popUpdate", Top.rec, Top.code)
  OBVIOUS
<1>3. /\ dis' = dis /\ blocked' = blocked
      /\ UNCHANGED <<mode, lisp, sig, prot>>
      /\ UNCHANGED senderVars /\ UNCHANGED <<heapVars, pend>> /\ UNCHANGED doneVars
      /\ SetTop(f)
  BY <1>f, <1>2 DEF PopLock, Goto, codeVars, envVars
<1>4. f \in FrameType /\ f.at = "popUpdate" /\ f.rec = Top.rec /\ f.kind = Top.kind
  <2>1. /\ Top.rec \in Rec \cup {Nil} /\ Top.code \in Code \cup {0}
        /\ Top.kind \in {"handler", "trap", "check"}
    BY <1>1, FrameCalm, Zenon
  <2> QED
    BY ONLY <1>f, <2>1 DEF TopWith, FrameType, FramePlaces
<1>5. FrameTidy(f)'
  BY <1>1, <1>2, <1>3, <1>4 DEF FrameTidy
<1> QED
  BY <1>1, <1>3, <1>4, <1>5, FrameCalm, FrameMoves, Zenon DEF HandPlaces

(* pop_signal moves the first record, the one it read, to the free list.   *)
LEMMA PopUpdateTidy ==
    ASSUME Parts, Parts', Tidy, UNCHANGED mode, PopUpdate
    PROVE  Tidy'
<1>1. ctx # <<>> /\ Top.at = "popUpdate"
  BY Zenon DEF PopUpdate, At
<1>2. /\ Len(ctx) = 1 /\ prot = FALSE /\ FrameTidy(Top) /\ FrameSets
      /\ Top.rec = pend /\ Top.rec \in Rec
      /\ TargetHolds = {} /\ InHand = {}
  BY <1>1, InFrame, FrameCalm, Zenon DEF FrameTidy, FrameOK, FrameSets, HandPlaces
<1>3. PICK r : r = Top.rec
  OBVIOUS
<1>4. PICK F \in SUBSET Rec, P \in SUBSET Rec :
        /\ ListsOf(cdr, queue, pend, F, P, TargetHolds)
        /\ AccountedOf(Asking, scode, P, car, InHand, handled, lost, sent)
  BY <1>1, InFrame
<1>f. PICK f : f = TopWith("popUnlock", Nil, car[r])
  OBVIOUS
<1>5. /\ pend' = cdr[r] /\ cdr' = [cdr EXCEPT ![r] = queue] /\ queue' = r /\ car' = car
      /\ dis' = dis /\ blocked' = blocked /\ UNCHANGED <<mode, lisp, sig, prot>>
      /\ UNCHANGED senderVars /\ UNCHANGED doneVars /\ SetTop(f)
  BY <1>f, <1>3 DEF PopUpdate, codeVars, sigVars
<1>6. r \in Rec /\ r = pend /\ r # Nil
  BY <1>2, <1>3, RecFinite
<1>7. /\ cdr \in [Rec -> Rec \cup {Nil}] /\ queue \in Rec \cup {Nil}
      /\ car[r] \in Code \cup {0}
  BY <1>6 DEF Parts, HeapTypes
<1>8. r \in P /\ ListsOf(cdr', queue', pend', F \cup {r}, P \ {r}, {})
  BY <1>2, <1>4, <1>5, <1>6, <1>7, ListsMove, Zenon
<1>9. AccountedOf(Asking, scode, P \ {r}, car', {car[r]}, handled', lost', sent)
  BY <1>2, <1>4, <1>5, <1>8, AccountPop, Zenon DEF doneVars
<1>a. CtxOK /\ Nil \in Rec \cup {Nil} /\ "popUnlock" \in FramePlaces
  BY <1>1, FrameCalm DEF FramePlaces
<1>10. f \in FrameType /\ f.at = "popUnlock" /\ f.code = car[r] /\ f.kind = Top.kind
  <2>1. PICK x : x = car[r]
    OBVIOUS
  <2>2. x \in Code \cup {0} /\ f = TopWith("popUnlock", Nil, x)
    BY <1>7, <1>f, <2>1
  <2>3. f \in FrameType /\ f.at = "popUnlock" /\ f.code = x /\ f.kind = Top.kind
    <3>1. Top.kind \in {"handler", "trap", "check"}
      BY <1>1, FrameCalm, Zenon
    <3> QED
      BY ONLY <2>2, <3>1 DEF TopWith, FrameType, FramePlaces
  <2> QED
    BY <2>1, <2>3
<1>11. Len(ctx') = 1 /\ ctx' # <<>> /\ Top' = f /\ TargetHolds' = {} /\ InHand' = {car[r]}
  <2>1. /\ Len(ctx') = 1 /\ ctx' # <<>> /\ Top' = f
        /\ TargetHolds' = IF f.at \in {"qLink", "qStore"} THEN {f.rec} ELSE {}
        /\ InHand' = IF f.at \in HandPlaces THEN {f.code} ELSE {}
    BY <1>1, <1>2, <1>5, <1>10, OnlySet, Zenon
  <2> QED
    BY ONLY <1>10, <2>1 DEF HandPlaces
<1>12. FrameTidy(Top)'
  BY <1>5, <1>6, <1>10, <1>11, Zenon DEF FrameTidy
<1>13. F \cup {r} \in SUBSET Rec /\ P \ {r} \in SUBSET Rec
  BY <1>6
<1> QED
  BY <1>1, <1>2, <1>5, <1>8, <1>9, <1>10, <1>11, <1>12, <1>13, FrameCalm, FrameStep, Zenon

(* mp_giveup_lock in pop_signal: there is an interrupt to run.             *)
LEMMA PopUnlockTidy ==
    ASSUME Parts, Parts', Tidy, UNCHANGED mode, PopUnlock
    PROVE  Tidy'
<1>1. ctx # <<>> /\ Top.at = "popUnlock"
  BY DEF PopUnlock, At
<1>2. FrameTidy(Top) /\ queue # Nil /\ Top.code \in InHand
  BY <1>1, InFrame, Zenon DEF FrameTidy, FrameSets, HandPlaces
<1>3. Top.code # 0
  <2>1. PICK F \in SUBSET Rec, P \in SUBSET Rec :
          AccountedOf(Asking, scode, P, car, InHand, handled, lost, sent)
    BY <1>1, InFrame
  <2>2. Top.code \in 1 .. sent
    BY <1>2, <2>1 DEF AccountedOf, Taken
  <2> QED
    BY <2>2 DEF Parts, SenderTypes
<1>4. PICK a : a = IF Top.kind = "handler" THEN "decide" ELSE "handle"
  OBVIOUS
<1>f. PICK f : f = TopWith(a, Top.rec, Top.code)
  OBVIOUS
<1>5. /\ dis' = dis /\ blocked' = blocked
      /\ UNCHANGED <<mode, lisp, sig, prot>>
      /\ UNCHANGED senderVars /\ UNCHANGED <<heapVars, pend>> /\ UNCHANGED doneVars
      /\ SetTop(f)
  BY <1>f, <1>3, <1>4 DEF PopUnlock, Goto, codeVars, envVars
<1>6. f \in FrameType /\ f.at = a /\ f.rec = Top.rec /\ f.code = Top.code /\ f.kind = Top.kind
  <2>1. /\ Top.rec \in Rec \cup {Nil} /\ Top.code \in Code \cup {0}
        /\ Top.kind \in {"handler", "trap", "check"}
    BY <1>1, FrameCalm, Zenon
  <2> QED
    BY ONLY <1>4, <1>f, <2>1 DEF TopWith, FrameType, FramePlaces
<1>7. FrameTidy(f)'
  BY <1>2, <1>4, <1>5, <1>6 DEF FrameTidy, heapVars
<1> QED
  BY <1>1, <1>4, <1>5, <1>6, <1>7, FrameCalm, FrameMoves, Zenon DEF HandPlaces

(* handle_or_queue.                                                        *)
LEMMA DecideTidy ==
    ASSUME Parts, Parts', Tidy, UNCHANGED mode, Decide
    PROVE  Tidy'
<1>1. ctx # <<>> /\ Top.at = "decide"
  BY DEF Decide, At
<1>2. FrameTidy(Top) /\ queue # Nil
  BY <1>1, InFrame, Zenon DEF FrameTidy
<1>3. /\ UNCHANGED <<mode, lisp, sig, prot>>
      /\ UNCHANGED senderVars /\ UNCHANGED <<heapVars, pend>> /\ UNCHANGED doneVars
  BY DEF Decide, codeVars
<1>4. PICK a \in {"qTake", "handle"} :
        /\ SetTop(TopWith(a, Top.rec, Top.code))
        /\ a = "qTake" /\ lisp => dis' # 0
        /\ blocked' = blocked \/ blocked' = FALSE
        /\ dis' = dis \/ dis # 0
  BY DEF Decide, Goto
<1>f. PICK f : f = TopWith(a, Top.rec, Top.code)
  OBVIOUS
<1>5. f \in FrameType /\ f.at = a /\ f.rec = Top.rec /\ f.code = Top.code /\ f.kind = Top.kind
  <2>1. /\ Top.rec \in Rec \cup {Nil} /\ Top.code \in Code \cup {0}
        /\ Top.kind \in {"handler", "trap", "check"}
    BY <1>1, FrameCalm, Zenon
  <2> QED
    BY ONLY <1>4, <1>f, <2>1 DEF TopWith, FrameType, FramePlaces
<1>6. SetTop(f)
  BY <1>f, <1>4
<1>7. FrameTidy(f)'
  BY <1>2, <1>3, <1>4, <1>5 DEF FrameTidy, heapVars
<1> QED
  <2>1. /\ f.at \in HandPlaces /\ Top.at \in HandPlaces
        /\ f.at \notin {"qLink", "qStore"} /\ Top.at \notin {"qLink", "qStore"}
    BY ONLY <1>1, <1>4, <1>5 DEF HandPlaces
  <2>2. (blocked' => f.kind = "handler") /\ (mode.sections = {} => dis' = 0)
    <3>1. (blocked => Top.kind = "handler") /\ (mode.sections = {} => dis = 0)
      BY <1>1, FrameCalm, Zenon
    <3> QED
      BY ONLY <1>4, <1>5, <3>1
  <2> QED
    BY <1>1, <1>3, <1>5, <1>6, <1>7, <2>1, <2>2, FrameMoves, Zenon

(* handle_signal_now: the interrupt had not been run.                      *)
LEMMA HandleTidy ==
    ASSUME Parts, Parts', Tidy, UNCHANGED mode, Handle
    PROVE  Tidy'
<1>1. ctx # <<>> /\ Top.at = "handle"
  BY DEF Handle, At
<1>2. /\ Len(ctx) = 1 /\ prot = FALSE /\ TargetHolds = {} /\ InHand = {Top.code}
      /\ Top.code \in Code
  BY <1>1, InFrame, FrameCalm, Zenon DEF FrameSets, HandPlaces, FrameOK
<1>3. PICK x : x = Top.code
  OBVIOUS
<1>4. PICK F \in SUBSET Rec, P \in SUBSET Rec :
        /\ ListsOf(cdr, queue, pend, F, P, TargetHolds)
        /\ AccountedOf(Asking, scode, P, car, InHand, handled, lost, sent)
  BY <1>1, InFrame
<1>5. /\ handled' = [handled EXCEPT ![x] = IF handled[x] < 2 THEN handled[x] + 1 ELSE handled[x]]
      /\ lost' = lost /\ dis' = dis /\ UNCHANGED <<mode, lisp, sig, prot>>
      /\ UNCHANGED senderVars /\ UNCHANGED <<heapVars, pend>>
  BY <1>3 DEF Handle, codeVars, envVars
<1>6. /\ x \in Code /\ handled \in [Code -> 0 .. 2] /\ sent \in Nat /\ 1 .. sent \subseteq Code
  <2>1. mode \in Modes /\ mode.sends \in Nat /\ sent \in Nat /\ sent <= mode.sends
    BY TidyParts, InterruptsAssumption, Zenon DEF Parts, CodeTypes, SenderTypes, ModeType, Calm
  <2>2. 1 .. sent \subseteq 1 .. mode.sends
    BY <2>1
  <2> QED
    BY <1>2, <1>3, <2>1, <2>2, Zenon DEF Parts, DoneTypes, Code
<1>7. AccountedOf(Asking, scode, P, car', {}, handled', lost', sent)
  BY <1>2, <1>3, <1>4, <1>5, <1>6, AccountRun, Zenon DEF heapVars
<1>8. ListsOf(cdr', queue', pend', F, P, {})
  BY <1>2, <1>4, <1>5 DEF heapVars
<1>9. CASE EndFrame
  <2>1. PopFrame /\ ~blocked'
    BY <1>1, <1>9, EndsOpen
  <2>2. ctx' = <<>> /\ TargetHolds' = {} /\ InHand' = {}
    BY <1>1, <1>2, <2>1, OnlyPopped, Zenon
  <2> QED
    BY <1>1, <1>2, <1>5, <1>7, <1>8, <2>1, <2>2, FrameCalm, FrameStep, Zenon
<1>10. CASE SetTop(TopWith("popRead", Top.rec, Top.code)) /\ blocked' = blocked
  <2>f. PICK f : f = TopWith("popRead", Top.rec, Top.code)
    OBVIOUS
  <2>1. f \in FrameType /\ f.at = "popRead" /\ f.kind = Top.kind
    <3>1. /\ Top.rec \in Rec \cup {Nil} /\ Top.code \in Code \cup {0}
          /\ Top.kind \in {"handler", "trap", "check"}
      BY <1>1, FrameCalm, Zenon
    <3> QED
      BY ONLY <2>f, <3>1 DEF TopWith, FrameType, FramePlaces
  <2>2. SetTop(f)
    BY <2>f, <1>10
  <2>3. Len(ctx') = 1 /\ ctx' # <<>> /\ Top' = f /\ TargetHolds' = {} /\ InHand' = {}
    <3>1. /\ Len(ctx') = 1 /\ ctx' # <<>> /\ Top' = f
          /\ TargetHolds' = IF f.at \in {"qLink", "qStore"} THEN {f.rec} ELSE {}
          /\ InHand' = IF f.at \in HandPlaces THEN {f.code} ELSE {}
      BY <1>1, <1>2, <2>1, <2>2, OnlySet, Zenon
    <3> QED
      BY ONLY <2>1, <3>1 DEF HandPlaces
  <2>4. FrameTidy(Top)'
    BY <2>1, <2>3 DEF FrameTidy
  <2> QED
    BY <1>1, <1>2, <1>5, <1>7, <1>8, <1>10, <2>1, <2>3, <2>4, FrameCalm, FrameStep, Zenon
<1> QED
  BY <1>9, <1>10 DEF Handle, Goto

(* queue_signal in the handler takes a free record: the one that           *)
(* pop_signal freed is there.                                              *)
LEMMA RequeueTakeTidy ==
    ASSUME Parts, Parts', Tidy, UNCHANGED mode, RequeueTake
    PROVE  Tidy'
<1>1. ctx # <<>> /\ Top.at = "qTake"
  BY Zenon DEF RequeueTake, At
<1>2. /\ Len(ctx) = 1 /\ prot = FALSE /\ TargetHolds = {} /\ InHand = {Top.code}
      /\ FrameTidy(Top) /\ queue # Nil
  BY <1>1, InFrame, Zenon DEF FrameSets, HandPlaces, FrameTidy
<1>3. PICK r : r = queue
  OBVIOUS
<1>4. PICK F \in SUBSET Rec, P \in SUBSET Rec :
        /\ ListsOf(cdr, queue, pend, F, P, TargetHolds)
        /\ AccountedOf(Asking, scode, P, car, InHand, handled, lost, sent)
  BY <1>1, InFrame
<1>f. PICK f : f = TopWith("qLink", r, Top.code)
  OBVIOUS
<1>5. /\ queue' = cdr[r] /\ UNCHANGED <<car, cdr, pend, handled, lost>>
      /\ dis' = dis /\ blocked' = blocked /\ UNCHANGED <<mode, lisp, sig, prot>>
      /\ UNCHANGED senderVars /\ SetTop(f)
  BY <1>f, <1>2, <1>3, Zenon DEF RequeueTake, codeVars, envVars
<1>6. ListsOf(cdr', queue', pend', F \ {r}, P, {r})
  BY <1>2, <1>3, <1>4, <1>5, ListsTake, Zenon
<1>a. CtxOK /\ Top.code \in Code \cup {0} /\ r \in Rec \cup {Nil}
  BY <1>1, <1>3, FrameCalm, Zenon DEF Parts, HeapTypes
<1>7. f \in FrameType /\ f.at = "qLink" /\ f.rec = r /\ f.code = Top.code /\ f.kind = Top.kind
  <2>1. Top.kind \in {"handler", "trap", "check"}
    BY <1>1, FrameCalm, Zenon
  <2> QED
    BY ONLY <1>a, <1>f, <2>1 DEF TopWith, FrameType, FramePlaces
<1>8. Len(ctx') = 1 /\ ctx' # <<>> /\ Top' = f /\ TargetHolds' = {r} /\ InHand' = InHand
  <2>1. /\ Len(ctx') = 1 /\ ctx' # <<>> /\ Top' = f
        /\ TargetHolds' = IF f.at \in {"qLink", "qStore"} THEN {f.rec} ELSE {}
        /\ InHand' = IF f.at \in HandPlaces THEN {f.code} ELSE {}
    BY <1>1, <1>2, <1>5, <1>7, OnlySet, Zenon
  <2> QED
    BY ONLY <1>2, <1>7, <2>1 DEF HandPlaces
<1>9. AccountedOf(Asking, scode, P, car', InHand', handled', lost', sent)
  BY <1>4, <1>5, <1>8
<1>10. FrameTidy(Top)'
  BY <1>1, <1>2, <1>5, <1>7, <1>8, Zenon DEF FrameTidy
<1>11. F \ {r} \in SUBSET Rec
  OBVIOUS
<1> QED
  BY <1>1, <1>2, <1>5, <1>6, <1>7, <1>8, <1>9, <1>10, <1>11, FrameCalm, FrameStep, Zenon

(* queue_signal in the handler fills it in.                                *)
LEMMA RequeueLinkTidy ==
    ASSUME Parts, Parts', Tidy, UNCHANGED mode, RequeueLink
    PROVE  Tidy'
<1>1. ctx # <<>> /\ Top.at = "qLink"
  BY DEF RequeueLink, At
<1>2. /\ Len(ctx) = 1 /\ prot = FALSE /\ TargetHolds = {Top.rec} /\ InHand = {Top.code}
      /\ FrameTidy(Top) /\ Top.rec \in Rec
  BY <1>1, InFrame, FrameCalm, Zenon DEF FrameSets, HandPlaces, FrameOK
<1>3. PICK r : r = Top.rec
  OBVIOUS
<1>4. PICK F \in SUBSET Rec, P \in SUBSET Rec :
        /\ ListsOf(cdr, queue, pend, F, P, TargetHolds)
        /\ AccountedOf(Asking, scode, P, car, InHand, handled, lost, sent)
  BY <1>1, InFrame
<1>f. PICK f : f = TopWith("qStore", r, Top.code)
  OBVIOUS
<1>5. /\ cdr' = [cdr EXCEPT ![r] = pend] /\ car' = [car EXCEPT ![r] = Top.code]
      /\ UNCHANGED <<queue, pend, handled, lost>>
      /\ dis' = dis /\ blocked' = blocked /\ UNCHANGED <<mode, lisp, sig, prot>>
      /\ UNCHANGED senderVars /\ SetTop(f)
  BY <1>f, <1>3 DEF RequeueLink, Goto, codeVars, envVars, sigVars, doneVars
<1>6. r \in Rec /\ cdr \in [Rec -> Rec \cup {Nil}] /\ car \in [Rec -> Code \cup {0}]
  BY <1>2, <1>3 DEF Parts, HeapTypes
<1>7. r \notin P /\ ListsOf(cdr', queue', pend', F, P, {r})
  BY <1>2, <1>3, <1>4, <1>5, <1>6, ListsFill, Zenon
<1>8. f \in FrameType /\ f.at = "qStore" /\ f.rec = r /\ f.code = Top.code /\ f.kind = Top.kind
  <2>1. Top.code \in Code \cup {0} /\ Top.kind \in {"handler", "trap", "check"}
    BY <1>1, FrameCalm, Zenon
  <2> QED
    BY ONLY <1>6, <1>f, <2>1 DEF TopWith, FrameType, FramePlaces
<1>9. Len(ctx') = 1 /\ ctx' # <<>> /\ Top' = f /\ TargetHolds' = {r} /\ InHand' = InHand
  <2>1. /\ Len(ctx') = 1 /\ ctx' # <<>> /\ Top' = f
        /\ TargetHolds' = IF f.at \in {"qLink", "qStore"} THEN {f.rec} ELSE {}
        /\ InHand' = IF f.at \in HandPlaces THEN {f.code} ELSE {}
    BY <1>1, <1>2, <1>5, <1>8, OnlySet, Zenon
  <2> QED
    BY ONLY <1>2, <1>8, <2>1 DEF HandPlaces
<1>10. AccountedOf(Asking, scode, P, car', InHand', handled', lost', sent)
  BY <1>4, <1>5, <1>6, <1>7, <1>9, AccountFill, Zenon
<1>11. cdr'[r] = pend /\ car'[r] = Top.code
  BY <1>5, <1>6
<1>12. FrameTidy(Top)'
  BY <1>1, <1>2, <1>5, <1>8, <1>9, <1>11, Zenon DEF FrameTidy
<1> QED
  BY <1>1, <1>2, <1>5, <1>7, <1>8, <1>9, <1>10, <1>12, FrameCalm, FrameStep, Zenon

(* queue_signal in the handler puts it on the list.                        *)
LEMMA RequeueStoreTidy ==
    ASSUME Parts, Parts', Tidy, UNCHANGED mode, RequeueStore
    PROVE  Tidy'
<1>1. ctx # <<>> /\ Top.at = "qStore"
  BY DEF RequeueStore, At
<1>2. /\ Len(ctx) = 1 /\ prot = FALSE /\ TargetHolds = {Top.rec} /\ InHand = {Top.code}
      /\ cdr[Top.rec] = pend /\ car[Top.rec] = Top.code /\ Top.rec \in Rec
      /\ lisp => dis # 0
  BY <1>1, InFrame, FrameCalm, Zenon DEF FrameSets, HandPlaces, FrameOK, FrameTidy
<1>3. PICK r : r = Top.rec
  OBVIOUS
<1>4. PICK F \in SUBSET Rec, P \in SUBSET Rec :
        /\ ListsOf(cdr, queue, pend, F, P, TargetHolds)
        /\ AccountedOf(Asking, scode, P, car, InHand, handled, lost, sent)
  BY <1>1, InFrame
<1>5. /\ pend' = r /\ UNCHANGED heapVars /\ UNCHANGED doneVars
      /\ dis' = dis /\ UNCHANGED <<mode, lisp, sig, prot>>
      /\ UNCHANGED senderVars /\ AfterQueue
  BY <1>3 DEF RequeueStore, codeVars
<1>6. r \in Rec /\ r # Nil
  BY <1>2, <1>3, RecFinite
<1>7. r \notin P /\ ListsOf(cdr', queue', pend', F, P \cup {r}, {})
  BY <1>2, <1>3, <1>4, <1>5, <1>6, ListsStore, Zenon DEF heapVars
<1>8. AccountedOf(Asking, scode, P \cup {r}, car', {}, handled', lost', sent)
  BY <1>2, <1>3, <1>4, <1>5, <1>7, AccountRefile, Zenon DEF heapVars, doneVars
<1>9. P \cup {r} \in SUBSET Rec
  BY <1>6
<1>10. CASE EndFrame
  <2>1. PopFrame /\ ~blocked'
    BY <1>1, <1>10, EndsOpen
  <2>2. ctx' = <<>> /\ TargetHolds' = {} /\ InHand' = {}
    BY <1>1, <1>2, <2>1, OnlyPopped, Zenon
  <2> QED
    BY <1>1, <1>2, <1>5, <1>7, <1>8, <1>9, <2>1, <2>2, FrameCalm, FrameStep, Zenon
<1>11. CASE lisp /\ SetTop(TopWith("protect", Top.rec, Top.code)) /\ blocked' = blocked
  <2>f. PICK f : f = TopWith("protect", Top.rec, Top.code)
    OBVIOUS
  <2>1. f \in FrameType /\ f.at = "protect" /\ f.kind = Top.kind
    <3>1. /\ Top.rec \in Rec \cup {Nil} /\ Top.code \in Code \cup {0}
          /\ Top.kind \in {"handler", "trap", "check"}
      BY <1>1, FrameCalm, Zenon
    <3> QED
      BY ONLY <2>f, <3>1 DEF TopWith, FrameType, FramePlaces
  <2>2. SetTop(f)
    BY <2>f, <1>11
  <2>3. Len(ctx') = 1 /\ ctx' # <<>> /\ Top' = f /\ TargetHolds' = {} /\ InHand' = {}
    <3>1. /\ Len(ctx') = 1 /\ ctx' # <<>> /\ Top' = f
          /\ TargetHolds' = IF f.at \in {"qLink", "qStore"} THEN {f.rec} ELSE {}
          /\ InHand' = IF f.at \in HandPlaces THEN {f.code} ELSE {}
      BY <1>1, <1>2, <2>1, <2>2, OnlySet, Zenon
    <3> QED
      BY ONLY <2>1, <3>1 DEF HandPlaces
  <2>4. FrameTidy(Top)'
    BY <1>2, <1>5, <1>6, <1>11, <2>1, <2>3, Zenon DEF FrameTidy
  <2> QED
    BY <1>1, <1>2, <1>5, <1>7, <1>8, <1>9, <1>11, <2>1, <2>3, <2>4, FrameCalm, FrameStep, Zenon
<1> QED
  BY <1>5, <1>10, <1>11 DEF AfterQueue, Goto

(* The handler protects the environment, with an interrupt pending.        *)
LEMMA ProtectTidy ==
    ASSUME Parts, Parts', Tidy, Orderly, UNCHANGED mode, Protect
    PROVE  Tidy'
<1>1. /\ ctx # <<>> /\ Top.at = "protect" /\ dis' = dis /\ EndFrame
      /\ UNCHANGED <<mode, lisp, sig>>
      /\ UNCHANGED senderVars /\ UNCHANGED <<heapVars, pend>> /\ UNCHANGED doneVars
  BY DEF Protect, At, codeVars
<1>2. dis # 0 /\ pend # Nil
  BY <1>1, InFrame, Zenon DEF FrameTidy
<1>3. mode.discipline = "serial"
  BY <1>1, <1>2, FrameCalm, Zenon DEF Orderly
<1> QED
  BY <1>1, <1>2, <1>3, EndsOpen, FrameCalm, FrameEnds, Zenon DEF HandPlaces

-----------------------------------------------------------------------------
(* What is on the lists stays, whatever the target does with its flags.    *)
LEMMA DataKept ==
    ASSUME Parts, Tidy, UNCHANGED senderVars, UNCHANGED <<heapVars, pend>>, UNCHANGED doneVars,
           TargetHolds' = TargetHolds, InHand' = InHand
    PROVE  /\ SendersTidy' /\ DataOK' /\ (Posting' <=> Posting)
           /\ sent' = sent /\ pend' = pend
<1>1. SendersTidy /\ DataOK
  BY TidyParts
<1>2. /\ spc' = spc /\ srec' = srec /\ scode' = scode /\ sent' = sent
      /\ car' = car /\ cdr' = cdr /\ queue' = queue /\ pend' = pend
      /\ handled' = handled /\ lost' = lost
  BY DEF senderVars, heapVars, doneVars
<1>3. SendersTidy'
  BY <1>1, <1>2 DEF SendersTidy, SenderTidy
<1>4. SenderHolds' = SenderHolds /\ Asking' = Asking /\ (Posting' <=> Posting)
  BY <1>2 DEF SenderHolds, Asking, Posting
<1>5. PICK F \in SUBSET Rec, P \in SUBSET Rec : Data(F, P)
  BY <1>1 DEF DataOK
<1>6. Data(F, P)'
  BY <1>2, <1>4, <1>5 DEF Data
<1> QED
  BY <1>2, <1>3, <1>4, <1>6 DEF DataOK

(* The program of the target.                                              *)
LEMMA CodeTidy ==
    ASSUME Parts, Parts', Tidy, UNCHANGED mode,
           \/ \E s \in mode.sections : DisableInterrupts(s)
           \/ Allocate \/ StoreStack \/ EnableInterrupts \/ EnterWithoutInterrupts
    PROVE  Tidy'
<1>1. /\ ctx = <<>> /\ ctx' = ctx
      /\ UNCHANGED <<heapVars, pend>> /\ UNCHANGED senderVars /\ UNCHANGED doneVars
      /\ UNCHANGED <<mode, prot, sig, blocked>>
  BY Zenon DEF DisableInterrupts, Allocate, StoreStack, EnableInterrupts, EnterWithoutInterrupts,
         Runs, envVars, sigVars
<1>2. mode.sections = {} => dis' = dis \/ dis' = 0
  BY Zenon DEF DisableInterrupts, Allocate, StoreStack, EnableInterrupts, EnterWithoutInterrupts,
         envVars
<1>3. ~mode.lispSections => lisp' = lisp
  BY Zenon DEF DisableInterrupts, Allocate, StoreStack, EnableInterrupts, EnterWithoutInterrupts
<1>4. TargetHolds' = TargetHolds /\ InHand' = InHand
  BY <1>1 DEF TargetHolds, InHand
<1>5. /\ SendersTidy' /\ DataOK' /\ (Posting' <=> Posting) /\ sent' = sent /\ pend' = pend
  BY <1>1, <1>4, DataKept
<1>6. Calm
  BY TidyParts
<1>7. Calm'
  BY <1>1, <1>2, <1>3, <1>5, <1>6 DEF Calm
<1>8. TopTidy'
  BY <1>1 DEF TopTidy
<1> QED
  BY <1>5, <1>7, <1>8, TidyPartsNext, Zenon

(* A first frame begins, while no sender is at work.                       *)
LEMMA FrameBegins ==
    ASSUME Parts, Parts', Tidy, ctx = <<>>, UNCHANGED mode,
           UNCHANGED <<heapVars, pend>>, UNCHANGED senderVars, UNCHANGED doneVars,
           NEW f \in FrameType, PushFrame(f), f.at \in {"check", "popRead"},
           ~Posting, ~sig', ~prot', blocked' => f.kind = "handler",
           mode.sections = {} => dis' = 0, ~mode.lispSections => lisp'
    PROVE  Tidy'
<1>1. Len(ctx') = 1 /\ ctx' # <<>> /\ Top' = f /\ TargetHolds' = {} /\ InHand' = {}
  BY OnlyPushed
<1>2. Calm /\ FrameSets
  BY TidyParts, OneFrame DEF Calm, Parts
<1>3. /\ SendersTidy' /\ DataOK' /\ (Posting' <=> Posting) /\ sent' = sent /\ pend' = pend
  BY <1>1, <1>2, DataKept, Zenon DEF FrameSets
<1>4. Calm'
  <2>1. Len(ctx') <= 1
    BY ONLY <1>1
  <2>2. sent' <= mode'.sends
    BY <1>2, <1>3, Zenon DEF Calm
  <2> QED
    BY <1>1, <1>3, <2>1, <2>2, Zenon DEF Calm
<1>5. TopTidy'
  BY <1>1 DEF TopTidy, FrameTidy
<1> QED
  BY <1>3, <1>4, <1>5, TidyPartsNext

(* A write to the protected environment traps.                             *)
LEMMA TrapTidy ==
    ASSUME Parts, Parts', Tidy, UNCHANGED mode, EnvTrap
    PROVE  Tidy'
<1>1. /\ ctx = <<>> /\ prot /\ ~prot' /\ dis' = 0 /\ ~blocked' /\ sig' = sig /\ lisp' = lisp
      /\ UNCHANGED <<heapVars, pend>> /\ UNCHANGED senderVars /\ UNCHANGED doneVars
      /\ PushFrame(Frame("trap", "popRead"))
  BY DEF EnvTrap, Runs, codeVars
<1>2. ~sig /\ ~Posting /\ (~mode.lispSections => lisp)
  BY <1>1, TidyParts DEF Calm
<1>3. Frame("trap", "popRead") \in FrameType /\ Frame("trap", "popRead").at = "popRead"
  BY DEF Frame, FrameType, FramePlaces
<1> QED
  BY <1>1, <1>2, <1>3, FrameBegins, Zenon

(* A without-interrupts form ends: no interrupt is on its way.             *)
LEMMA LeaveTidy ==
    ASSUME Parts, Parts', Tidy, Orderly, UNCHANGED mode, LeaveWithoutInterrupts
    PROVE  Tidy'
<1>1. /\ Moves /\ ctx = <<>> /\ ~lisp /\ ~prot /\ lisp' = TRUE
      /\ UNCHANGED <<prot, dis, sig, blocked>>
      /\ UNCHANGED <<heapVars, pend>> /\ UNCHANGED senderVars /\ UNCHANGED doneVars
      /\ PushFrame(Frame("check", "check"))
  BY DEF LeaveWithoutInterrupts, Runs, envVars, sigVars
<1>2. Calm
  BY TidyParts
<1>3. mode.prompt /\ ~blocked
  BY <1>1, <1>2, Zenon DEF Calm, Orderly
<1>4. ~sig /\ ~Posting
  BY <1>1, <1>3 DEF Moves, InCall, Posting
<1>5. Frame("check", "check") \in FrameType /\ Frame("check", "check").at = "check"
  BY DEF Frame, FrameType, FramePlaces
<1> QED
  BY <1>1, <1>2, <1>3, <1>4, <1>5, FrameBegins, Zenon DEF Calm

(* The kernel delivers the signal: the target is in no other frame.        *)
LEMMA DeliverTidy ==
    ASSUME Parts, Parts', Tidy, UNCHANGED mode, Deliver
    PROVE  Tidy'
<1>1. /\ sig /\ ~sig' /\ UNCHANGED <<prot, dis, lisp>>
      /\ mode.prompt => \A s \in Sender : ~InCall(s)
      /\ UNCHANGED <<heapVars, pend>> /\ UNCHANGED senderVars /\ UNCHANGED doneVars
      /\ PushFrame(Frame("handler", "popRead"))
  BY DEF Deliver, envVars, codeVars
<1>2. Calm
  BY TidyParts
<1>3. ctx = <<>> /\ ~prot
  BY <1>1, <1>2 DEF Calm
<1>4. ~Posting
  BY <1>1, <1>2 DEF Calm, Posting, InCall
<1>5. /\ Frame("handler", "popRead") \in FrameType /\ Frame("handler", "popRead").at = "popRead"
      /\ Frame("handler", "popRead").kind = "handler"
  BY DEF Frame, FrameType, FramePlaces
<1> QED
  BY <1>1, <1>2, <1>3, <1>4, <1>5, FrameBegins, Zenon DEF Calm

-----------------------------------------------------------------------------
(* One sender moves.                                                       *)
LEMMA SenderGoes ==
    ASSUME Parts, NEW s \in Sender, NEW x, spc' = [spc EXCEPT ![s] = x]
    PROVE  /\ spc'[s] = x /\ \A t \in Sender \ {s} : spc'[t] = spc[t]
           /\ Asking' = IF x \in {"lock", "take", "link", "store"}
                        THEN Asking \cup {s} ELSE Asking \ {s}
<1>1. spc'[s] = x /\ \A t \in Sender \ {s} : spc'[t] = spc[t]
  BY DEF Parts, SenderTypes
<1> QED
  BY <1>1 DEF Asking

(* The target's flags and frames do not change.                            *)
LEMMA SenderCalm ==
    ASSUME Parts, Tidy, UNCHANGED <<mode, ctx, lisp, dis, prot, blocked>>, sent' <= mode.sends,
           prot => ~Posting' /\ ~sig' /\ pend' = pend,
           Posting' \/ sig' => ctx = <<>>, ~mode.prompt => ~(Posting' /\ sig')
    PROVE  Calm' /\ TargetHolds' = TargetHolds /\ InHand' = InHand
<1>1. Calm
  BY TidyParts
<1>2. Top' = Top
  BY DEF Top
<1>3. Calm'
  BY <1>1, <1>2, Zenon DEF Calm
<1> QED
  BY <1>3 DEF TargetHolds, InHand

(* While a sender links a record, it is alone with the lists.              *)
LEMMA InSend ==
    ASSUME Parts, Tidy, NEW s \in Sender, spc[s] \in {"take", "link", "store", "kill"}
    PROVE  /\ ctx = <<>> /\ prot = FALSE /\ TargetHolds = {} /\ InHand = {}
           /\ SenderHolds = IF spc[s] \in {"link", "store"} THEN {srec[s]} ELSE {}
           /\ \A t \in Sender \ {s} : spc[t] \notin SenderLocked /\ srec[t] = Nil
           /\ SenderTidy(s) /\ (~mode.prompt => ~sig) /\ sent <= mode.sends
           /\ \E F, P \in SUBSET Rec :
                /\ ListsOf(cdr, queue, pend, F, P, SenderHolds)
                /\ AccountedOf(Asking, scode, P, car, {}, handled, lost, sent)
<1>1. Calm /\ SendersTidy /\ DataOK
  BY TidyParts
<1>2. Posting
  BY DEF Posting
<1>3. ctx = <<>> /\ prot = FALSE /\ (~mode.prompt => ~sig) /\ sent <= mode.sends
  BY <1>1, <1>2 DEF Calm, Parts, CodeTypes
<1>4. TargetHolds = {} /\ InHand = {}
  <2>1. FrameSets
    BY <1>1, OneFrame DEF Calm, Parts
  <2> QED
    BY <1>3, <2>1 DEF FrameSets
<1>5. spc[s] \in SenderLocked
  BY DEF SenderLocked
<1>6. /\ SenderHolds = IF spc[s] \in {"link", "store"} THEN {srec[s]} ELSE {}
      /\ \A t \in Sender \ {s} : spc[t] \notin SenderLocked /\ srec[t] = Nil
  BY <1>1, <1>5, OneSender DEF HoldsOf, AloneIn, AllAlone
<1>7. SenderHolds \cup TargetHolds = SenderHolds
  BY <1>4
<1> QED
  BY <1>1, <1>3, <1>4, <1>6, <1>7, Zenon DEF SendersTidy, DataOK, Data

(* A step of that sender.                                                  *)
LEMMA SendStep ==
    ASSUME Parts, Parts', Tidy, NEW s \in Sender, spc[s] \in {"take", "link", "store", "kill"},
           UNCHANGED <<mode, ctx, lisp, dis, prot, blocked, scode, sent>>,
           NEW x \in {"link", "store", "kill", "unlock"}, spc' = [spc EXCEPT ![s] = x],
           \A t \in Sender \ {s} : srec'[t] = srec[t], SenderTidy(s)',
           x # "unlock" => sig' = sig,
           NEW F \in SUBSET Rec, NEW P \in SUBSET Rec,
           ListsOf(cdr', queue', pend', F, P, IF x \in {"link", "store"} THEN {srec'[s]} ELSE {}),
           AccountedOf(IF x \in {"link", "store"} THEN Asking \cup {s} ELSE Asking \ {s},
                       scode, P, car', {}, handled', lost', sent)
    PROVE  Tidy'
<1>1. /\ ctx = <<>> /\ prot = FALSE /\ TargetHolds = {} /\ InHand = {}
      /\ \A t \in Sender \ {s} : spc[t] \notin SenderLocked /\ srec[t] = Nil
      /\ (~mode.prompt => ~sig) /\ sent <= mode.sends
  BY InSend, Zenon
<1>2. /\ spc'[s] = x /\ \A t \in Sender \ {s} : spc'[t] = spc[t]
      /\ Asking' = IF x \in {"link", "store"} THEN Asking \cup {s} ELSE Asking \ {s}
  BY SenderGoes, Zenon
<1>3. Posting' => x # "unlock"
  BY <1>1, <1>2, Zenon DEF Posting, SenderLocked
<1>4. Calm' /\ TargetHolds' = {} /\ InHand' = {}
  <2>1. sent' <= mode.sends
    BY <1>1, Zenon
  <2>2. ~mode.prompt => ~(Posting' /\ sig')
    BY <1>1, <1>3, Zenon
  <2>3. Calm' /\ TargetHolds' = TargetHolds /\ InHand' = InHand
    BY <1>1, <2>1, <2>2, SenderCalm, Zenon
  <2> QED
    BY <1>1, <2>3, Zenon
<1>5. SendersTidy'
  <2>1. ASSUME NEW t \in Sender \ {s}
        PROVE  SenderTidy(t)'
    BY <1>1, <1>2, Zenon DEF SenderTidy, SenderLocked
  <2> QED
    BY <2>1, Zenon DEF SendersTidy
<1>6. spc'[s] \in SenderLocked
  BY <1>2, Zenon DEF SenderLocked
<1>7. SenderHolds' = IF x \in {"link", "store"} THEN {srec'[s]} ELSE {}
  BY <1>2, <1>5, <1>6, OneSenderNext, Zenon
<1>8. TopTidy'
  BY <1>1, Zenon DEF TopTidy
<1>9. DataOK'
  <2>1. SenderHolds' \cup TargetHolds' = IF x \in {"link", "store"} THEN {srec'[s]} ELSE {}
    BY <1>4, <1>7, Zenon
  <2>2. Data(F, P)'
    BY <1>2, <1>4, <2>1, Zenon DEF Data
  <2> QED
    BY <2>2, Zenon DEF DataOK
<1> QED
  BY <1>4, <1>5, <1>8, <1>9, TidyPartsNext, Zenon

(* queue_signal in a sender takes a free record, if there is one.          *)
LEMMA SendTakeTidy ==
    ASSUME Parts, Parts', Tidy, UNCHANGED mode, NEW s \in Sender, SendTake(s)
    PROVE  Tidy'
<1>1. /\ spc[s] = "take" /\ UNCHANGED <<mode, ctx, lisp, dis, prot, blocked, scode, sent>>
      /\ UNCHANGED <<sig, car, cdr, pend, handled>>
  BY Zenon DEF SendTake, envVars, codeVars, sigVars
<1>2. SenderHolds = {} /\ SenderTidy(s)
  BY <1>1, InSend, Zenon
<1>3. PICK F \in SUBSET Rec, P \in SUBSET Rec :
        /\ ListsOf(cdr, queue, pend, F, P, {})
        /\ AccountedOf(Asking, scode, P, car, {}, handled, lost, sent)
  BY <1>1, <1>2, InSend, Zenon
<1>4. s \in Asking
  BY <1>1 DEF Asking
<1>5. CASE queue = Nil
  <2>1. /\ lost' = lost \cup {scode[s]} /\ spc' = [spc EXCEPT ![s] = "kill"]
        /\ queue' = queue /\ srec' = srec
    BY <1>5, Zenon DEF SendTake, SGoto
  <2>2. ListsOf(cdr', queue', pend', F, P, {})
    BY <1>1, <1>3, <2>1
  <2>3. AccountedOf(Asking \ {s}, scode, P, car', {}, handled', lost', sent)
    BY <1>1, <1>3, <1>4, <2>1, AccountLose
  <2>4. spc'[s] = "kill"
    BY <2>1, SenderGoes, Zenon
  <2>5. SenderTidy(s)'
    BY <1>1, <1>2, <2>1, <2>4, Zenon DEF SenderTidy
  <2> QED
    BY <1>1, <2>1, <2>2, <2>3, <2>5, SendStep, Zenon
<1>6. CASE queue # Nil
  <2>1. /\ queue' = cdr[queue] /\ srec' = [srec EXCEPT ![s] = queue]
        /\ spc' = [spc EXCEPT ![s] = "link"] /\ lost' = lost
    BY <1>6, Zenon DEF SendTake, SGoto
  <2>2. srec'[s] = queue /\ \A t \in Sender \ {s} : srec'[t] = srec[t]
    BY <2>1, Zenon DEF Parts, SenderTypes
  <2>3. ListsOf(cdr', queue', pend', F \ {queue}, P, {srec'[s]})
    BY <1>1, <1>3, <1>6, <2>1, <2>2, ListsTake, Zenon
  <2>4. AccountedOf(Asking \cup {s}, scode, P, car', {}, handled', lost', sent)
    <3>1. Asking \cup {s} = Asking
      BY <1>4
    <3> QED
      BY <1>1, <1>3, <2>1, <3>1
  <2>5. spc'[s] = "link"
    BY <2>1, SenderGoes, Zenon
  <2>6. SenderTidy(s)'
    BY <2>5 DEF SenderTidy
  <2>7. F \ {queue} \in SUBSET Rec
    OBVIOUS
  <2> QED
    BY <1>1, <2>1, <2>2, <2>3, <2>4, <2>6, <2>7, SendStep, Zenon
<1> QED
  BY <1>5, <1>6

(* queue_signal in a sender fills the record in.                           *)
LEMMA SendLinkTidy ==
    ASSUME Parts, Parts', Tidy, UNCHANGED mode, NEW s \in Sender, SendLink(s)
    PROVE  Tidy'
<1>1. /\ spc[s] = "link" /\ UNCHANGED <<mode, ctx, lisp, dis, prot, blocked, scode, sent>>
      /\ UNCHANGED <<sig, queue, pend, handled, lost, srec>>
      /\ spc' = [spc EXCEPT ![s] = "store"]
  BY Zenon DEF SendLink, SGoto, envVars, codeVars, sigVars, doneVars
<1>2. PICK r : r = srec[s]
  OBVIOUS
<1>3. cdr' = [cdr EXCEPT ![r] = pend] /\ car' = [car EXCEPT ![r] = scode[s]]
  BY <1>2, Zenon DEF SendLink
<1>4. SenderHolds = {r}
  BY <1>1, <1>2, InSend, Zenon
<1>5. PICK F \in SUBSET Rec, P \in SUBSET Rec :
        /\ ListsOf(cdr, queue, pend, F, P, {r})
        /\ AccountedOf(Asking, scode, P, car, {}, handled, lost, sent)
  BY <1>1, <1>4, InSend, Zenon
<1>6. r \in Rec /\ cdr \in [Rec -> Rec \cup {Nil}] /\ car \in [Rec -> Code \cup {0}]
  BY <1>1, <1>2 DEF Parts, HeapTypes, SenderTypes, SenderOK
<1>7. r \notin P /\ ListsOf(cdr', queue', pend', F, P, {srec'[s]})
  BY <1>1, <1>2, <1>3, <1>5, <1>6, ListsFill, Zenon
<1>8. AccountedOf(Asking \cup {s}, scode, P, car', {}, handled', lost', sent)
  <2>1. Asking \cup {s} = Asking
    BY <1>1 DEF Asking
  <2> QED
    BY <1>1, <1>3, <1>5, <1>6, <1>7, <2>1, AccountFill, Zenon
<1>9. spc'[s] = "store" /\ cdr'[r] = pend /\ car'[r] = scode[s]
  BY <1>1, <1>3, <1>6, SenderGoes, Zenon
<1>10. SenderTidy(s)'
  BY <1>1, <1>2, <1>9, Zenon DEF SenderTidy
<1> QED
  BY <1>1, <1>7, <1>8, <1>10, SendStep, Zenon

(* queue_signal in a sender puts it on the list.                           *)
LEMMA SendStoreTidy ==
    ASSUME Parts, Parts', Tidy, UNCHANGED mode, NEW s \in Sender, SendStore(s)
    PROVE  Tidy'
<1>1. /\ spc[s] = "store" /\ UNCHANGED <<mode, ctx, lisp, dis, prot, blocked, scode, sent>>
      /\ UNCHANGED <<sig, car, cdr, queue, handled, lost>>
  BY DEF SendStore, heapVars, codeVars, sigVars, doneVars
<1>2. PICK r : r = srec[s]
  OBVIOUS
<1>3. SenderHolds = {r} /\ prot = FALSE /\ cdr[r] = pend /\ car[r] = scode[s]
  BY <1>1, <1>2, InSend, Zenon DEF SenderTidy
<1>4. PICK F \in SUBSET Rec, P \in SUBSET Rec :
        /\ ListsOf(cdr, queue, pend, F, P, {r})
        /\ AccountedOf(Asking, scode, P, car, {}, handled, lost, sent)
  BY <1>1, <1>3, InSend, Zenon
<1>5. pend' = r /\ srec' = [srec EXCEPT ![s] = Nil] /\ spc' = [spc EXCEPT ![s] = "kill"]
  BY <1>2, <1>3, Zenon DEF SendStore, SGoto
<1>6. r \in Rec /\ srec'[s] = Nil /\ \A t \in Sender \ {s} : srec'[t] = srec[t]
  BY <1>1, <1>2, <1>5, Zenon DEF Parts, SenderTypes, SenderOK
<1>7. r \notin P /\ ListsOf(cdr', queue', pend', F, P \cup {r}, {})
  BY <1>1, <1>3, <1>4, <1>5, <1>6, ListsStore, Zenon
<1>8. s \in Asking
  BY <1>1 DEF Asking
<1>9. AccountedOf(Asking \ {s}, scode, P \cup {r}, car', {}, handled', lost', sent)
  BY <1>1, <1>3, <1>4, <1>7, <1>8, AccountFile, Zenon
<1>10. spc'[s] = "kill"
  BY <1>5, SenderGoes, Zenon
<1>11. SenderTidy(s)'
  BY <1>6, <1>10, Zenon DEF SenderTidy
<1>12. P \cup {r} \in SUBSET Rec
  BY <1>6
<1> QED
  BY <1>1, <1>5, <1>6, <1>7, <1>9, <1>11, <1>12, SendStep, Zenon

(* pthread_kill.                                                           *)
LEMMA SendKillTidy ==
    ASSUME Parts, Parts', Tidy, UNCHANGED mode, NEW s \in Sender, SendKill(s)
    PROVE  Tidy'
<1>1. /\ spc[s] = "kill" /\ UNCHANGED <<mode, ctx, lisp, dis, prot, blocked, scode, sent>>
      /\ UNCHANGED <<car, cdr, queue, pend, handled, lost, srec>>
      /\ spc' = [spc EXCEPT ![s] = "unlock"]
  BY DEF SendKill, SGoto, heapVars, envVars, codeVars, doneVars
<1>2. SenderHolds = {} /\ SenderTidy(s)
  BY <1>1, InSend, Zenon
<1>3. PICK F \in SUBSET Rec, P \in SUBSET Rec :
        /\ ListsOf(cdr, queue, pend, F, P, {})
        /\ AccountedOf(Asking, scode, P, car, {}, handled, lost, sent)
  BY <1>1, <1>2, InSend, Zenon
<1>4. Asking \ {s} = Asking
  BY <1>1 DEF Asking
<1>5. /\ ListsOf(cdr', queue', pend', F, P, {})
      /\ AccountedOf(Asking \ {s}, scode, P, car', {}, handled', lost', sent)
  BY <1>1, <1>3, <1>4
<1>6. spc'[s] = "unlock"
  BY <1>1, SenderGoes, Zenon
<1>7. SenderTidy(s)'
  BY <1>1, <1>2, <1>6, Zenon DEF SenderTidy
<1> QED
  BY <1>1, <1>5, <1>7, SendStep, Zenon

(* A step of a sender that leaves the lists alone.                         *)
LEMMA SendOutside ==
    ASSUME Parts, Parts', Tidy, NEW s \in Sender, spc[s] \in {"idle", "lock", "unlock"},
           UNCHANGED <<mode, ctx, lisp, dis, prot, blocked, sig>>, UNCHANGED <<heapVars, pend>>,
           UNCHANGED doneVars, UNCHANGED srec,
           NEW x \in {"lock", "take", "idle"}, spc' = [spc EXCEPT ![s] = x],
           x = "take" => ctx = <<>> /\ ~prot /\ (~mode.prompt => ~sig),
           sent' <= mode.sends,
           \A P \in SUBSET Rec :
               AccountedOf(Asking, scode, P, car, InHand, handled, lost, sent) =>
                   AccountedOf(Asking', scode', P, car, InHand, handled, lost, sent'),
           \A t \in Sender \ {s} : scode'[t] = scode[t]
    PROVE  Tidy'
<1>1. Calm /\ SendersTidy /\ TopTidy /\ DataOK
  BY TidyParts, Zenon
<1>2. spc'[s] = x /\ \A t \in Sender \ {s} : spc'[t] = spc[t]
  BY SenderGoes, Zenon
<1>3. Posting' => Posting \/ x = "take"
  BY <1>2, Zenon DEF Posting
<1>4. /\ car' = car /\ cdr' = cdr /\ queue' = queue /\ pend' = pend
      /\ handled' = handled /\ lost' = lost
  BY Zenon DEF heapVars, doneVars
<1>5. Calm' /\ TargetHolds' = TargetHolds /\ InHand' = InHand
  <2>1. prot => ~Posting' /\ ~sig' /\ pend' = pend
    BY <1>1, <1>3, <1>4, Zenon DEF Calm
  <2>2. Posting' \/ sig' => ctx = <<>>
    BY <1>1, <1>3, Zenon DEF Calm
  <2>3. ~mode.prompt => ~(Posting' /\ sig')
    BY <1>1, <1>3, Zenon DEF Calm
  <2> QED
    BY <2>1, <2>2, <2>3, SenderCalm, Zenon
<1>6. SendersTidy'
  <2>1. SenderTidy(s)'
    BY <1>1, <1>2, Zenon DEF SendersTidy, SenderTidy
  <2>2. ASSUME NEW t \in Sender \ {s}
        PROVE  SenderTidy(t)'
    BY <1>1, <1>2, <1>4, Zenon DEF SendersTidy, SenderTidy
  <2> QED
    BY <2>1, <2>2, Zenon DEF SendersTidy
<1>7. TopTidy'
  BY <1>1, <1>4, Zenon DEF TopTidy, FrameTidy, Top
<1>8. PICK F \in SUBSET Rec, P \in SUBSET Rec : Data(F, P)
  BY <1>1, Zenon DEF DataOK
<1>9. SenderHolds' = SenderHolds
  BY Zenon DEF SenderHolds
<1>10. Data(F, P)'
  BY <1>4, <1>5, <1>8, <1>9, Zenon DEF Data
<1> QED
  BY <1>5, <1>6, <1>7, <1>10, TidyPartsNext, Zenon DEF DataOK

(* A sender begins a call: its interrupt is a new one.                     *)
LEMMA InterruptProcessTidy ==
    ASSUME Parts, Parts', Tidy, UNCHANGED mode, NEW s \in Sender, InterruptProcess(s)
    PROVE  Tidy'
<1>1. /\ spc[s] = "idle" /\ UNCHANGED <<mode, ctx, lisp, dis, prot, blocked, sig>>
      /\ UNCHANGED <<heapVars, pend>> /\ UNCHANGED doneVars /\ UNCHANGED srec
      /\ spc' = [spc EXCEPT ![s] = "lock"] /\ sent < mode.sends /\ sent' = sent + 1
      /\ scode' = [scode EXCEPT ![s] = sent + 1]
  BY DEF InterruptProcess, SGoto, envVars, codeVars, sigVars
<1>2. mode \in Modes /\ mode.sends \in Nat /\ sent \in Nat
  BY InterruptsAssumption, Zenon DEF Parts, CodeTypes, SenderTypes, ModeType
<1>3. sent' <= mode.sends /\ sent + 1 \in 1 .. mode.sends
  BY <1>1, <1>2
<1>4. sent + 1 \in Code
  BY <1>2, <1>3 DEF Code
<1>5. s \notin Asking /\ Asking \subseteq Sender /\ Asking' = Asking \cup {s}
  BY <1>1, SenderGoes, Zenon DEF Asking
<1>6. scode \in [Sender -> Code \cup {0}] /\ handled \in [Code -> 0 .. 2]
  BY DEF Parts, SenderTypes, DoneTypes
<1>7. ASSUME NEW P \in SUBSET Rec,
             AccountedOf(Asking, scode, P, car, InHand, handled, lost, sent)
      PROVE  AccountedOf(Asking', scode', P, car, InHand, handled, lost, sent')
  BY <1>1, <1>2, <1>4, <1>5, <1>6, <1>7, AccountAsk, Zenon
<1>8. \A t \in Sender \ {s} : scode'[t] = scode[t]
  BY <1>1, <1>6
<1> QED
  BY <1>1, <1>3, <1>7, <1>8, SendOutside, Zenon

(* mp_get_lock in ecl_interrupt_process: the target is in no frame.        *)
LEMMA SendLockTidy ==
    ASSUME Parts, Parts', Tidy, Orderly, UNCHANGED mode, NEW s \in Sender, SendLock(s)
    PROVE  Tidy'
<1>1. /\ spc[s] = "lock" /\ UNCHANGED <<mode, ctx, lisp, dis, prot, blocked, sig>>
      /\ UNCHANGED <<heapVars, pend>> /\ UNCHANGED doneVars /\ UNCHANGED <<srec, scode, sent>>
      /\ spc' = [spc EXCEPT ![s] = "take"] /\ MaySend
  BY DEF SendLock, SGoto, envVars, codeVars, sigVars
<1>2. Calm
  BY TidyParts
<1>3. ctx = <<>> /\ ~prot /\ (~mode.prompt => ~sig)
  BY <1>1, <1>2, Zenon DEF MaySend, Orderly, Calm
<1>4. Asking' = Asking
  BY <1>1, SenderGoes DEF Asking
<1> QED
  BY <1>1, <1>2, <1>3, <1>4, SendOutside, Zenon DEF Calm

(* mp_giveup_lock in ecl_interrupt_process.                                *)
LEMMA SendUnlockTidy ==
    ASSUME Parts, Parts', Tidy, UNCHANGED mode, NEW s \in Sender, SendUnlock(s)
    PROVE  Tidy'
<1>1. /\ spc[s] = "unlock" /\ UNCHANGED <<mode, ctx, lisp, dis, prot, blocked, sig>>
      /\ UNCHANGED <<heapVars, pend>> /\ UNCHANGED doneVars /\ UNCHANGED <<srec, scode, sent>>
      /\ spc' = [spc EXCEPT ![s] = "idle"]
  BY DEF SendUnlock, SGoto, envVars, codeVars, sigVars
<1>2. Calm
  BY TidyParts
<1>3. Asking' = Asking
  BY <1>1, SenderGoes DEF Asking
<1> QED
  BY <1>1, <1>2, <1>3, SendOutside, Zenon DEF Calm

-----------------------------------------------------------------------------
(* Order lists every record once, and Place is its inverse.                *)
LEMMA OrderFacts ==
    /\ Order \in [1 .. Cardinality(Rec) -> Rec]
    /\ \A r \in Rec : \E i \in 1 .. Cardinality(Rec) : Order[i] = r
    /\ \A i, j \in 1 .. Cardinality(Rec) : Order[i] = Order[j] => i = j
    /\ \A i \in 1 .. Cardinality(Rec) : Place(Order[i]) = i
<1> DEFINE n == Cardinality(Rec)
<1>1. IsFiniteSet(Rec) /\ n \in Nat
  BY RecFinite
<1>2. \E f \in [1 .. n -> Rec] : \A r \in Rec : \E i \in DOMAIN f : f[i] = r
  <2>1. PICK f : f \in Bijection(1 .. n, Rec)
    BY <1>1, FS_CardinalityType DEF ExistsBijection
  <2>2. f \in [1 .. n -> Rec] /\ \A r \in Rec : \E i \in 1 .. n : f[i] = r
    BY <2>1 DEF Bijection, Injection, Surjection
  <2> QED
    BY <2>2, Zenon
<1>3. Order \in [1 .. n -> Rec] /\ \A r \in Rec : \E i \in 1 .. n : Order[i] = r
  BY <1>2, Zenon DEF Order
<1>4. IsFiniteSet(1 .. n) /\ Cardinality(1 .. n) = n
  BY <1>1, FS_Interval
<1>5. Order \in Surjection(1 .. n, Rec)
  BY <1>3 DEF Surjection
<1>6. Order \in Injection(1 .. n, Rec)
  BY <1>4, <1>5, FS_Surjection
<1>7. \A i, j \in 1 .. n : Order[i] = Order[j] => i = j
  BY <1>6 DEF Injection, IsInjective
<1>8. ASSUME NEW i \in 1 .. n
      PROVE  Place(Order[i]) = i
  <2>1. Place(Order[i]) \in 1 .. n /\ Order[Place(Order[i])] = Order[i]
    BY DEF Place
  <2> QED
    BY <1>7, <2>1
<1> QED
  BY <1>3, <1>7, <1>8

(* At the start all records are free, and nothing was sent.                *)
LEMMA InitTidy ==
    ASSUME Parts, InterruptsInit
    PROVE  Tidy
<1> DEFINE n == Cardinality(Rec)
<1>1. n \in Nat /\ IsFiniteSet(Rec) /\ (Rec = {} <=> n = 0)
  BY RecFinite, FS_EmptySet
<1>2. Chain(cdr, queue, Rec)
  <2>1. InOrder(cdr, queue, Rec, n, Order)
    <3>1. /\ cdr = [r \in Rec |-> IF Place(r) = n THEN Nil ELSE Order[Place(r) + 1]]
          /\ queue = IF Rec = {} THEN Nil ELSE Order[1]
      BY DEF InterruptsInit
    <3>2. \A i \in 1 .. n : cdr[Order[i]] = IF i = n THEN Nil ELSE Order[i + 1]
      BY <3>1, OrderFacts
    <3>3. queue = IF n = 0 THEN Nil ELSE Order[1]
      BY <1>1, <3>1
    <3> QED
      BY <3>2, <3>3, OrderFacts, Zenon DEF InOrder
  <2>2. n \in 0 .. Cardinality(Rec)
    BY <1>1
  <2> QED
    BY <2>1, <2>2, ChainOrder
<1>3. Chain(cdr, pend, {})
  <2>1. pend = Nil
    BY DEF InterruptsInit
  <2>2. 1 .. 0 = {} /\ 0 \in 0 .. Cardinality(Rec)
    BY <1>1
  <2>3. [i \in 1 .. 0 |-> Nil] \in [1 .. 0 -> {}]
    BY <2>2
  <2>4. InOrder(cdr, pend, {}, 0, [i \in 1 .. 0 |-> Nil])
    BY <2>1, <2>2, <2>3 DEF InOrder
  <2> QED
    BY <2>2, <2>4, ChainOrder
<1>4. ctx = <<>> /\ Len(ctx) = 0 /\ Asking = {} /\ ~Posting
  BY DEF InterruptsInit, Asking, Posting
<1>5. TargetHolds = {} /\ InHand = {}
  <2>1. FrameSets
    BY <1>4, OneFrame DEF Parts
  <2> QED
    BY <1>4, <2>1 DEF FrameSets
<1>6. SenderHolds = {}
  BY DEF InterruptsInit, SenderHolds
<1>7. Calm
  <2>1. mode.sends \in Nat
    BY InterruptsAssumption DEF Parts, CodeTypes, ModeType
  <2> QED
    <3>1. sent = 0 /\ blocked = FALSE /\ prot = FALSE /\ sig = FALSE /\ dis = 0 /\ lisp = TRUE
      BY DEF InterruptsInit
    <3>2. Len(ctx) <= 1 /\ sent <= mode.sends
      BY ONLY <1>4, <2>1, <3>1
    <3> QED
      BY <1>4, <3>1, <3>2, Zenon DEF Calm
<1>8. SendersTidy
  BY DEF SendersTidy, SenderTidy, InterruptsInit
<1>9. TopTidy
  BY <1>4 DEF TopTidy
<1>10. DataOK
  <2>1. ListsOf(cdr, queue, pend, Rec, {}, {})
    BY <1>2, <1>3 DEF ListsOf
  <2>2. AccountedOf({}, scode, {}, car, {}, handled, lost, sent)
    <3>1. sent = 0 /\ 1 .. sent = {} /\ \A c \in Code : handled[c] = 0
      BY DEF InterruptsInit
    <3>2. /\ Distinct({}, scode) /\ Distinct({}, car) /\ Apart({}, scode, {}, car)
          /\ Waiting({}, scode, {}, handled, sent) /\ Waiting({}, car, {}, handled, sent)
          /\ Taken({}, handled, sent)
      BY DEF Distinct, Apart, Waiting, Taken
    <3>3. Ran(handled, sent)
      BY <3>1 DEF Ran
    <3>4. \A c \in 1 .. sent : Known(c, {}, scode, {}, car, {}, handled, lost)
      BY <3>1
    <3> QED
      BY <3>2, <3>3, <3>4 DEF AccountedOf
  <2>3. SenderHolds \cup TargetHolds = {}
    BY <1>5, <1>6
  <2>4. Data(Rec, {})
    BY <1>4, <1>5, <2>1, <2>2, <2>3, Zenon DEF Data
  <2> QED
    BY <2>4 DEF DataOK
<1> QED
  BY <1>7, <1>8, <1>9, <1>10, TidyParts

(* Every step of an orderly setting leaves it tidy.                        *)
LEMMA NextTidy ==
    ASSUME Parts, Parts', Orderly, Tidy, [InterruptsNext]_vars
    PROVE  Tidy'
<1>1. CASE UNCHANGED vars
  <2>1. /\ Calm' <=> Calm
        /\ SendersTidy' <=> SendersTidy
        /\ TopTidy' <=> TopTidy
    BY <1>1, Zenon DEF vars, envVars, heapVars, codeVars, sigVars, senderVars, doneVars,
                Calm, SendersTidy, SenderTidy, TopTidy, FrameTidy, Posting, Top
  <2>2. DataOK' <=> DataOK
    BY <1>1, Zenon DEF vars, envVars, heapVars, codeVars, sigVars, senderVars, doneVars,
                DataOK, Data, SenderHolds, TargetHolds, Asking, InHand
  <2> QED
    BY <2>1, <2>2, TidyParts, TidyPartsNext
<1>2. CASE TargetStep
  BY <1>2, CodeTidy, TrapTidy, LeaveTidy, CheckPendingTidy, PopReadTidy, PopLockTidy,
     PopUpdateTidy, PopUnlockTidy, DecideTidy, HandleTidy, RequeueTakeTidy,
     RequeueLinkTidy, RequeueStoreTidy, ProtectTidy, Zenon DEF TargetStep, TargetCode
<1>3. CASE DeliverStep
  BY <1>3, DeliverTidy DEF DeliverStep
<1>4. ASSUME NEW s \in Sender, InterruptProcess(s), UNCHANGED mode
      PROVE  Tidy'
  BY <1>4, InterruptProcessTidy
<1>5. ASSUME NEW s \in Sender, SenderStep(s)
      PROVE  Tidy'
  BY <1>5, SendLockTidy, SendTakeTidy, SendLinkTidy, SendStoreTidy, SendKillTidy,
     SendUnlockTidy DEF SenderStep, SenderCode
<1> QED
  BY <1>1, <1>2, <1>3, <1>4, <1>5 DEF InterruptsNext

(* What the lists are, where all is tidy.                                  *)
LEMMA TidyLists ==
    ASSUME Tidy
    PROVE  /\ Ends(queue) /\ Ends(pend)
           /\ Lists(Members(queue), Members(pend)) /\ Accounted(Members(pend))
<1>1. PICK F \in SUBSET Rec, P \in SUBSET Rec : Lists(F, P) /\ Accounted(P)
  BY Zenon DEF Tidy
<1>2. Ends(queue) /\ Members(queue) = F
  BY <1>1, ChainMembers DEF Lists
<1>3. Ends(pend) /\ Members(pend) = P
  BY <1>1, ChainMembers DEF Lists
<1> QED
  BY <1>1, <1>2, <1>3

(* So RecordsConserved and HandledOnce hold.                               *)
LEMMA TidyConserves == Orderly /\ Tidy => RecordsConserved
BY TidyLists DEF RecordsConserved, Lists

(* The second half.                                                        *)
LEMMA TidyOnce == Orderly /\ Tidy => HandledOnce
BY TidyLists, Zenon DEF HandledOnce, Accounted, OnTheWay
=============================================================================
