------------------------ MODULE EclMethodCacheProofs ------------------------
(***************************************************************************)
(* What the method cache promises, for every cache size, probe length,     *)
(* hash function, set of generic functions and nesting of dispatches.      *)
(*                                                                         *)
(* A call runs a method computed for its own key because records and       *)
(* dispatches match their keys (RecordsMatch, FramesOK), whatever a search *)
(* moves, deletes or shifts.  It runs a method that is not older than the  *)
(* last clearing because every cached method is current or its clearing is *)
(* still on the list (FreshnessOK), which the next dispatch works off.     *)
(***************************************************************************)
EXTENDS EclMethodCache, WellFoundedInduction, SequenceTheorems, TLAPS

(* A set of natural numbers that is not empty has a least element.         *)
LEMMA NatMin ==
    ASSUME NEW T \in SUBSET Nat, T # {}
    PROVE  \E x \in T : \A y \in T : x <= y
<1> DEFINE R == OpToRel(<, Nat)
<1>1. PICK x \in T : \A y \in T : ~(<<y, x>> \in R)
  <2> HIDE DEF R
  <2> QED
    BY NatLessThanWellFounded, WFMin DEF R
<1>2. R = {ss \in Nat \X Nat : ss[1] < ss[2]}
  BY Zenon DEF OpToRel
<1> HIDE DEF R
<1>3. ASSUME NEW y \in T
      PROVE  x <= y
  <2>1. <<y, x>> \notin {ss \in Nat \X Nat : ss[1] < ss[2]}
    BY <1>1, <1>2
  <2> QED
    BY <2>1
<1> QED
  BY <1>3

(* A nonempty set of natural numbers has its minimum as a member.          *)
LEMMA MinIn ==
    ASSUME NEW T \in SUBSET Nat, T # {}
    PROVE  Min(T) \in T
BY NatMin DEF Min

(* A nonempty set of numbers up to b has its maximum as a member.          *)
LEMMA MaxIn ==
    ASSUME NEW n \in Nat, NEW T \in SUBSET (0 .. n), T # {}
    PROVE  Max(T) \in T
<1> DEFINE U == {y \in 0 .. n : n - y \in T}
<1>1. PICK z \in T : TRUE
  OBVIOUS
<1>2. n - z \in U
  <2>1. n - z \in 0 .. n /\ n - (n - z) = z
    OBVIOUS
  <2> QED
    BY <2>1
<1>3. PICK x \in U : \A y \in U : x <= y
  <2>1. U \in SUBSET Nat
    OBVIOUS
  <2> HIDE DEF U
  <2> QED
    BY <1>2, <2>1, NatMin
<1>4. ASSUME NEW y \in T
      PROVE  n - x >= y
  <2>1. n - y \in 0 .. n /\ n - (n - y) = y
    OBVIOUS
  <2>2. n - y \in U
    BY <2>1
  <2>3. x <= n - y
    BY <1>3, <2>2
  <2>4. x \in Int /\ y \in Int
    OBVIOUS
  <2> HIDE DEF U
  <2> QED
    BY <2>3, <2>4
<1>5. n - x \in T
  OBVIOUS
<1> HIDE DEF U
<1> QED
  BY <1>4, <1>5 DEF Max

-----------------------------------------------------------------------------
RecordType ==
    [key : Key \cup {OBJNULL}, gen : Nat, value : Method \cup {OBJNULL, Cnil}]

(* Tables with the records a cache of generation gen may have.             *)
GoodTable(gen) ==
    {t \in [Slots -> RecordType] :
        \A i \in Slots : /\ t[i].gen <= gen
                         /\ t[i].key # OBJNULL =>
                              t[i].value \in Method /\ t[i].value.key = t[i].key}

GoodGen == {g \in Nat : g = 0 \/ g < (3 * Size) \div 2}

(* Every entry of t that is taken is one of the same slot of u: t has      *)
(* fewer entries, or other generations.                                    *)
Sub(t, u) ==
    \A i \in Slots : t[i].key # OBJNULL => t[i].key = u[i].key /\ t[i].value = u[i].value

(* Slots are where they should be.                                         *)
LEMMA SlotIn ==
    ASSUME NEW k \in Key, NEW j \in Nat
    PROVE  Slot(k, j) \in Slots
<1>1. Size \in Nat \ {0} /\ Hash[k] + j \in Int
  BY CacheAssumption
<1>2. \A a \in Int, b \in Nat \ {0} : a % b \in 0 .. b - 1
  OBVIOUS
<1> QED
  BY <1>1, <1>2 DEF Slot, Slots

(* The global shift of generations keeps the table good and its            *)
(* generations below the bound that starts the next shift.                 *)
LEMMA ShiftGood ==
    ASSUME NEW gen \in Nat, gen <= (3 * Size) \div 2, NEW t \in GoodTable(gen)
    PROVE  /\ Shift(t, gen).gen \in GoodGen
           /\ Shift(t, gen).table \in GoodTable(Shift(t, gen).gen)
           /\ Sub(Shift(t, gen).table, t)
<1> USE CacheAssumption
<1> DEFINE half == gen \div 2
           M == (3 * Size) \div 2
<1>1. CASE gen < M
  <2>1. Shift(t, gen).gen = gen /\ Shift(t, gen).table = t
    BY <1>1 DEF Shift
  <2> QED
    BY <1>1, <2>1 DEF GoodGen, Sub
<1>2. CASE ~(gen < M)
  <2> DEFINE s == [i \in Slots |-> IF t[i].gen <= half THEN DeletedRecord
                                   ELSE [t[i] EXCEPT !.gen = @ - half]]
  <2>1. Shift(t, gen).gen = gen - half /\ Shift(t, gen).table = s
    BY <1>2 DEF Shift
  <2>2. gen = M /\ M \in Nat /\ M >= 3
    BY <1>2
  <2>3. half \in Nat /\ half >= 1 /\ gen - half \in Nat
    BY <2>2
  <2>4. gen - half \in GoodGen
    BY <2>2, <2>3 DEF GoodGen
  <2>5. ASSUME NEW i \in Slots
        PROVE  /\ s[i] \in RecordType
               /\ s[i].gen <= gen - half
               /\ s[i].key # OBJNULL => s[i].key = t[i].key /\ s[i].value = t[i].value
    <3> HIDE DEF half
    <3>0. t[i] \in RecordType /\ t[i].gen <= gen
      BY DEF GoodTable
    <3>1. CASE t[i].gen <= half
      BY <2>3, <3>1 DEF DeletedRecord, RecordType
    <3>2. CASE ~(t[i].gen <= half)
      <4>1. s[i] = [t[i] EXCEPT !.gen = t[i].gen - half]
        BY <3>2
      <4>2. t[i].gen \in Nat /\ t[i].gen - half \in Nat /\ t[i].gen - half <= gen - half
        BY <2>3, <3>0, <3>2 DEF RecordType
      <4> QED
        BY <3>0, <4>1, <4>2 DEF RecordType
    <3> QED
      BY <3>1, <3>2
  <2>6. s \in [Slots -> RecordType]
    BY <2>5
  <2> HIDE DEF s
  <2>7. Sub(s, t)
    BY <2>5 DEF Sub
  <2>8. s \in GoodTable(gen - half)
    BY <2>5, <2>6 DEF GoodTable
  <2> QED
    BY <2>1, <2>4, <2>7, <2>8
<1> QED
  BY <1>1, <1>2

(* What a search returns: a good table with no entry that was not there    *)
(* before, and the slot of the key, in which there is nothing but the      *)
(* entry of the key.                                                       *)
LEMMA SearchGood ==
    ASSUME NEW k \in Key, NEW gen \in GoodGen, NEW t \in GoodTable(gen),
           SearchMethodHash(k, t, gen).ok
    PROVE  LET s == SearchMethodHash(k, t, gen) IN
           /\ s.e \in Slots
           /\ s.gen \in GoodGen
           /\ s.table \in GoodTable(s.gen)
           /\ Sub(s.table, t)
           /\ s.table[s.e].key \in {k, OBJNULL}
<1> USE CacheAssumption
<1> DEFINE r(j) == t[Slot(k, j)]
           seen == {j \in 0 .. Probe - 1 : \A i \in 0 .. j - 1 : ~Empty(r(i))}
           found == {j \in seen : Matches(r(j), k)}
           deleted == {j \in seen : r(j).key = OBJNULL}
           oldest == {j \in seen : r(j).gen < gen /\ \A i \in seen : r(j).gen <= r(i).gen}
           e == CASE found # {} -> Slot(k, Min(found))
                  [] found = {} /\ deleted # {} -> Slot(k, Max(deleted))
                  [] OTHER -> Slot(k, Min(oldest))
           newGen == IF found = {} THEN gen + 1 ELSE gen
           used == IF found = {} THEN Deleted(t[e], newGen) ELSE [t[e] EXCEPT !.gen = newGen]
           u == [t EXCEPT ![e] = used]
           sh == Shift(u, newGen)
           s == SearchMethodHash(k, t, gen)
<1>0. Probe - 1 \in Nat /\ seen \subseteq 0 .. Probe - 1 /\ seen \subseteq Nat
  OBVIOUS
<1>1. s = IF found = {} /\ deleted = {} /\ oldest = {}
          THEN [ok |-> FALSE, e |-> 0, table |-> t, gen |-> gen]
          ELSE [ok |-> TRUE, e |-> e, table |-> sh.table, gen |-> sh.gen]
  BY Zenon DEF SearchMethodHash
<1>2. /\ ~(found = {} /\ deleted = {} /\ oldest = {})
      /\ s.e = e /\ s.table = sh.table /\ s.gen = sh.gen
  <2> HIDE DEF s, found, deleted, oldest, e, sh
  <2>1. s.ok
    BY DEF s
  <2> QED
    BY <1>1, <2>1
<1>3. e \in Slots /\ (found # {} => t[e].key = k)
  <2>1. CASE found # {}
    <3>1. Min(found) \in found
      <4>1. found \in SUBSET Nat
        OBVIOUS
      <4> HIDE DEF found
      <4> QED
        BY <2>1, <4>1, MinIn
    <3>2. e = Slot(k, Min(found))
      <4> HIDE DEF found, deleted
      <4> QED
        BY <2>1
    <3>3. Min(found) \in Nat /\ t[Slot(k, Min(found))].key = k
      <4> HIDE DEF seen
      <4>1. Min(found) \in seen /\ Matches(r(Min(found)), k)
        BY <3>1
      <4> HIDE DEF found
      <4>2. Min(found) \in Nat
        BY <1>0, <4>1, Zenon
      <4>3. r(Min(found)).key = k
        BY <4>1 DEF Matches
      <4> QED
        BY <4>2, <4>3
    <3> HIDE DEF found, e
    <3>4. Slot(k, Min(found)) \in Slots
      BY <3>3, SlotIn
    <3> QED
      BY <3>2, <3>3, <3>4
  <2>2. CASE found = {} /\ deleted # {}
    <3>1. Max(deleted) \in deleted
      <4>1. deleted \in SUBSET (0 .. Probe - 1)
        OBVIOUS
      <4> HIDE DEF deleted
      <4> QED
        BY <1>0, <2>2, <4>1, MaxIn
    <3>2. Max(deleted) \in Nat
      BY <1>0, <3>1
    <3>3. e = Slot(k, Max(deleted))
      <4> HIDE DEF found, deleted
      <4> QED
        BY <2>2
    <3> HIDE DEF found, e, deleted
    <3> QED
      BY <2>2, <3>2, <3>3, SlotIn
  <2>3. CASE found = {} /\ deleted = {}
    <3>1. Min(oldest) \in oldest
      <4>1. oldest \in SUBSET Nat
        OBVIOUS
      <4> HIDE DEF oldest, found, deleted
      <4> QED
        BY <1>2, <2>3, <4>1, MinIn
    <3>2. Min(oldest) \in Nat
      BY <1>0, <3>1
    <3>3. e = Slot(k, Min(oldest))
      <4> HIDE DEF found, deleted, oldest
      <4> QED
        BY <2>3
    <3> HIDE DEF found, e, deleted, oldest
    <3> QED
      BY <2>3, <3>2, <3>3, SlotIn
  <2> HIDE DEF found, e, deleted, oldest
  <2> QED
    BY <2>1, <2>2, <2>3
<1> HIDE DEF seen, found, deleted, oldest, e
<1>4. newGen \in Nat /\ gen <= newGen /\ newGen <= (3 * Size) \div 2
  BY DEF GoodGen
<1>5. t[e] \in RecordType /\ t[e].gen <= gen
      /\ (t[e].key # OBJNULL => t[e].value \in Method /\ t[e].value.key = t[e].key)
  BY <1>3 DEF GoodTable
<1>6. /\ used \in RecordType
      /\ used.gen <= newGen
      /\ used.key \in {k, OBJNULL}
      /\ used.key # OBJNULL => used.key = t[e].key /\ used.value = t[e].value
  <2>1. CASE found = {}
    BY <1>4, <1>5, <2>1 DEF Deleted, RecordType
  <2>2. CASE found # {}
    <3>1. used = [t[e] EXCEPT !.gen = newGen]
      BY <2>2
    <3> HIDE DEF used, newGen
    <3> QED
      BY <1>3, <1>4, <1>5, <2>2, <3>1 DEF RecordType
  <2> QED
    BY <2>1, <2>2
<1> HIDE DEF used, newGen
<1>7. u \in GoodTable(newGen) /\ Sub(u, t) /\ u[e].key \in {k, OBJNULL}
  <2>1. t \in [Slots -> RecordType]
    BY DEF GoodTable
  <2>2. u \in [Slots -> RecordType] /\ u[e] = used /\ \A i \in Slots \ {e} : u[i] = t[i]
    BY <1>3, <1>6, <2>1
  <2> HIDE DEF u
  <2>3. ASSUME NEW i \in Slots
        PROVE  /\ u[i].gen <= newGen
               /\ u[i].key # OBJNULL => /\ u[i].key = t[i].key /\ u[i].value = t[i].value
                                        /\ u[i].value \in Method /\ u[i].value.key = u[i].key
    <3>1. CASE i = e
      BY <1>5, <1>6, <2>2, <3>1
    <3>2. CASE i # e
      <4>1. u[i] = t[i] /\ t[i] \in RecordType /\ t[i].gen <= gen
            /\ (t[i].key # OBJNULL => t[i].value \in Method /\ t[i].value.key = t[i].key)
        BY <2>2, <3>2 DEF GoodTable
      <4>2. t[i].gen \in Nat /\ gen \in Nat
        BY <4>1 DEF RecordType, GoodGen
      <4> QED
        BY <1>4, <4>1, <4>2
    <3> QED
      BY <3>1, <3>2
  <2> QED
    BY <1>6, <2>2, <2>3 DEF GoodTable, Sub
<1> HIDE DEF u
<1>8. /\ sh.gen \in GoodGen
      /\ sh.table \in GoodTable(sh.gen)
      /\ Sub(sh.table, u)
  BY <1>4, <1>7, ShiftGood
<1> HIDE DEF sh, s
<1>9. Sub(sh.table, t)
  BY <1>7, <1>8 DEF Sub
<1>10. sh.table[e].key \in {k, OBJNULL}
  BY <1>3, <1>7, <1>8 DEF Sub
<1> QED
  BY <1>2, <1>3, <1>8, <1>9, <1>10 DEF s

(* Clearing functions leaves a good table without entries of theirs.       *)
LEMMA ClearGood ==
    ASSUME NEW gen \in Nat, NEW t \in GoodTable(gen), NEW what
    PROVE  LET c == ClearFunctions(t, what) IN
           /\ c \in GoodTable(gen)
           /\ Sub(c, t)
           /\ \A i \in Slots : c[i].key # OBJNULL => GfOf[c[i].key] \notin what
<1> DEFINE c == ClearFunctions(t, what)
<1>1. ASSUME NEW i \in Slots
      PROVE  /\ c[i] \in RecordType
             /\ c[i].gen <= gen
             /\ c[i].key # OBJNULL => c[i] = t[i] /\ GfOf[t[i].key] \notin what
             /\ c[i].key # OBJNULL => c[i].value \in Method /\ c[i].value.key = c[i].key
  <2>1. c[i] = IF t[i].key # OBJNULL /\ GfOf[t[i].key] \in what THEN Deleted(t[i], 0) ELSE t[i]
    BY DEF ClearFunctions
  <2>2. t[i] \in RecordType /\ t[i].gen <= gen
        /\ (t[i].key # OBJNULL => t[i].value \in Method /\ t[i].value.key = t[i].key)
    BY DEF GoodTable
  <2> HIDE DEF c
  <2>3. CASE t[i].key # OBJNULL /\ GfOf[t[i].key] \in what
    BY <2>1, <2>2, <2>3 DEF Deleted, RecordType
  <2>4. CASE ~(t[i].key # OBJNULL /\ GfOf[t[i].key] \in what)
    BY <2>1, <2>2, <2>4
  <2> QED
    BY <2>3, <2>4
<1>2. c \in [Slots -> RecordType]
  BY <1>1 DEF ClearFunctions
<1> HIDE DEF c
<1> QED
  BY <1>1, <1>2 DEF GoodTable, Sub, c

(* An empty cache is good.                                                 *)
LEMMA EmptyGood == [i \in Slots |-> EmptyRecord] \in GoodTable(0)
BY DEF GoodTable, EmptyRecord, RecordType

-----------------------------------------------------------------------------
(* What a dispatch knows of itself.                                        *)
FrameOK(f) ==
    /\ f.at # "compute" => f.func \in Method /\ f.func.key = f.key
    /\ f.since <= version[GfOf[f.key]]
    /\ f.at = "computed" \/ (f.at = "call" /\ nesting = "early") =>
          f.func.version >= f.since

(* What holds while dispatches nest early.                                 *)
EarlyOK ==
    /\ \A i \in 1 .. Depth - 1 : frames[i].at = "compute"
    /\ ~dead => \A i \in Slots : table[i].key # OBJNULL => Current(table[i].value)
    /\ ~dead /\ Depth > 0 /\ Top.at = "computed" => Current(Top.func)

(* CacheInv, arranged by what the steps change.                            *)
Parts ==
    /\ version \in [Gf -> Nat] /\ cleared \in [Gf -> Nat]
    /\ defining \in [Definer -> Gf \cup {Cnil}]
    /\ clearList \subseteq Gf \cup {Ct}
    /\ \A g \in Gf : cleared[g] <= version[g]
    /\ generation \in GoodGen /\ table \in GoodTable(generation)
    /\ vector \in Key \cup {Cnil} /\ (Depth > 0 => vector \in Key)
    /\ frames \in Seq(Frame)
    /\ \A i \in 1 .. Depth : FrameOK(frames[i])
    /\ dead \in BOOLEAN
    /\ nesting = "early" => EarlyOK

(* The parts are the invariant.                                            *)
LEMMA InvParts == CacheInv <=> Parts
<1>1. CacheTypeOK /\ RecordsMatch <=>
        /\ version \in [Gf -> Nat] /\ cleared \in [Gf -> Nat]
        /\ defining \in [Definer -> Gf \cup {Cnil}]
        /\ clearList \subseteq Gf \cup {Ct}
        /\ generation \in GoodGen /\ table \in GoodTable(generation)
        /\ vector \in Key \cup {Cnil}
        /\ frames \in Seq(Frame)
        /\ dead \in BOOLEAN
  BY DEF CacheTypeOK, RecordsMatch, GoodGen, GoodTable, RecordType
<1>2. FramesOK /\ FreshnessOK /\ CallsOwnMethod /\ FreshMethods <=>
        /\ \A g \in Gf : cleared[g] <= version[g]
        /\ Depth > 0 => vector \in Key
        /\ \A i \in 1 .. Depth : FrameOK(frames[i])
        /\ nesting = "early" => EarlyOK
  BY DEF FramesOK, FreshnessOK, CallsOwnMethod, FreshMethods, FrameOK, EarlyOK
<1> QED
  BY <1>1, <1>2 DEF CacheInv, Parts

(* _ecl_set_method_hash_size establishes the invariant.                    *)
LEMMA InitParts == CacheInit => Parts
<1> SUFFICES ASSUME CacheInit
             PROVE  Parts
  OBVIOUS
<1>1. table \in GoodTable(generation) /\ generation \in GoodGen
  BY EmptyGood DEF CacheInit, GoodGen
<1>2. frames \in Seq(Frame) /\ Len(frames) = 0
  BY DEF CacheInit
<1>3. \A i \in Slots : table[i].key = OBJNULL
  BY DEF CacheInit, EmptyRecord
<1>4. Depth = 0 /\ 1 .. Depth = {} /\ 1 .. Depth - 1 = {}
  BY <1>2 DEF Depth
<1>5. EarlyOK
  BY <1>3, <1>4 DEF EarlyOK
<1>6. /\ version \in [Gf -> Nat] /\ cleared \in [Gf -> Nat]
      /\ defining \in [Definer -> Gf \cup {Cnil}]
      /\ \A g \in Gf : cleared[g] <= version[g]
  BY DEF CacheInit
<1>8. clearList \subseteq Gf \cup {Ct} /\ vector \in Key \cup {Cnil} /\ dead \in BOOLEAN
  BY Zenon DEF CacheInit
<1>7. \A i \in 1 .. Depth : FrameOK(frames[i])
  BY <1>4
<1> QED
  BY <1>1, <1>2, <1>4, <1>5, <1>6, <1>7, <1>8 DEF Parts

(* The last frame of a nonempty sequence of dispatches.                    *)
LEMMA TopFacts ==
    ASSUME Parts, Depth > 0
    PROVE  /\ Depth \in Nat \ {0} /\ Depth \in 1 .. Depth
           /\ Top \in Frame /\ FrameOK(Top)
           /\ vector \in Key
BY DEF Parts, Depth, Top

(* Replacing the last frame.                                               *)
LEMMA SetTopFacts ==
    ASSUME Parts, Depth > 0, NEW f \in Frame, SetTop(f)
    PROVE  /\ frames' \in Seq(Frame) /\ Depth' = Depth /\ Top' = f
           /\ \A i \in 1 .. Depth - 1 : frames'[i] = frames[i]
<1>1. frames \in Seq(Frame) /\ Depth \in 1 .. Len(frames) /\ Depth \in Nat \ {0}
  BY DEF Parts, Depth
<1>2. frames' \in Seq(Frame) /\ Len(frames') = Len(frames)
      /\ \A i \in 1 .. Len(frames) : frames'[i] = IF i = Depth THEN f ELSE frames[i]
  BY <1>1, ExceptSeq DEF SetTop
<1> QED
  BY <1>1, <1>2 DEF Depth, Top

-----------------------------------------------------------------------------
(* The dispatch that starts finds a good table, in which nothing is left   *)
(* of the functions on the clear list.                                     *)
LEMMA DispatchParts ==
    ASSUME Parts, NEW k \in Key, Dispatch(k)
    PROVE  Parts'
<1> USE CacheAssumption
<1> DEFINE all == Ct \in clearList
           t == IF all THEN [i \in Slots |-> EmptyRecord] ELSE ClearFunctions(table, clearList)
           gen == IF all THEN 0 ELSE generation
           s == SearchMethodHash(k, t, gen)
           r == s.table[s.e]
           f == [at |-> "compute", key |-> k, e |-> s.e, func |-> Cnil, since |-> cleared[GfOf[k]]]
           f2 == IF r.key = OBJNULL THEN f ELSE [f EXCEPT !.at = "call", !.func = r.value]
<1>1. /\ MayEnter
      /\ clearList' = {}
      /\ vector' = k
      /\ s.ok => /\ table' = s.table /\ generation' = s.gen
                 /\ Push(f2)
                 /\ UNCHANGED dead
      /\ ~s.ok => Die
      /\ UNCHANGED <<version, cleared, defining, nesting>>
  BY Zenon DEF Dispatch
<1>2. gen \in GoodGen /\ t \in GoodTable(gen)
  <2>1. CASE all
    BY <2>1, EmptyGood DEF GoodGen
  <2>2. CASE ~all
    BY <2>2, ClearGood DEF Parts, GoodGen
  <2> QED
    BY <2>1, <2>2
<1>3. nesting = "early" =>
        \A i \in Slots : t[i].key # OBJNULL => t[i].value.version >= cleared[GfOf[t[i].key]]
  <2> SUFFICES ASSUME nesting = "early", NEW i \in Slots, t[i].key # OBJNULL
               PROVE  t[i].value.version >= cleared[GfOf[t[i].key]]
    OBVIOUS
  <2>1. ~all
    BY DEF EmptyRecord
  <2>2. t = ClearFunctions(table, clearList)
    BY <2>1
  <2>3. generation \in Nat /\ table \in GoodTable(generation)
    BY DEF Parts, GoodGen
  <2> HIDE DEF t
  <2>4. Sub(t, table) /\ GfOf[t[i].key] \notin clearList
    BY <2>2, <2>3, ClearGood
  <2>5. t[i].key = table[i].key /\ t[i].value = table[i].value
    BY <2>4 DEF Sub
  <2>6. table[i].value.key = table[i].key
    BY <2>3, <2>5 DEF GoodTable
  <2>7. Current(table[i].value)
    BY <1>1, <2>5 DEF Parts, EarlyOK, MayEnter
  <2> QED
    BY <2>1, <2>4, <2>5, <2>6, <2>7 DEF Current
<1> HIDE DEF t, gen
<1>4. CASE ~s.ok
  <2>1. dead' /\ UNCHANGED <<table, generation, frames>>
    BY <1>1, <1>4 DEF Die
  <2> HIDE DEF s
  <2>2. Depth' = Depth /\ \A i \in 1 .. Depth : frames'[i] = frames[i] /\ FrameOK(frames[i])'
    BY <1>1, <2>1 DEF Depth, FrameOK, Parts
  <2>3. EarlyOK => EarlyOK'
    BY <2>1, <2>2 DEF EarlyOK
  <2>4. dead' \in BOOLEAN
    BY <1>1, <1>4 DEF Die
  <2> QED
    BY <1>1, <2>1, <2>2, <2>3, <2>4 DEF Parts
<1>5. CASE s.ok
  <2>1. /\ s.e \in Slots
        /\ s.gen \in GoodGen
        /\ s.table \in GoodTable(s.gen)
        /\ Sub(s.table, t)
        /\ r.key \in {k, OBJNULL}
    BY <1>2, <1>5, SearchGood
  <2>2. /\ ~dead /\ UNCHANGED dead
        /\ table' = s.table /\ generation' = s.gen
        /\ frames' = Append(frames, f2)
    BY <1>1, <1>5 DEF MayEnter, Push
  <2> HIDE DEF s
  <2>3. cleared[GfOf[k]] \in Nat /\ GfOf[k] \in Gf
    BY DEF Parts
  <2>4. r.key # OBJNULL => /\ r.key = k /\ r.value \in Method /\ r.value.key = k
                           /\ nesting = "early" => r.value.version >= cleared[GfOf[k]]
    <3> SUFFICES ASSUME r.key # OBJNULL
                 PROVE  /\ r.key = k /\ r.value \in Method /\ r.value.key = k
                        /\ nesting = "early" => r.value.version >= cleared[GfOf[k]]
      OBVIOUS
    <3>1. r.key = t[s.e].key /\ r.value = t[s.e].value
      BY <2>1 DEF Sub
    <3>2. r.value \in Method /\ r.value.key = r.key
      BY <2>1 DEF GoodTable
    <3> QED
      BY <1>3, <2>1, <3>1, <3>2
  <2> HIDE DEF r
  <2>5. PICK ff : ff = f2
    OBVIOUS
  <2>6. ff \in Frame /\ FrameOK(ff)' /\ ff.at # "computed"
    <3>1. cleared[GfOf[k]] <= version'[GfOf[k]] /\ nesting' = nesting
      BY <1>1, <2>3 DEF Parts
    <3>2. CASE r.key = OBJNULL
      <4>1. ff = f
        BY <2>5, <3>2
      <4> QED
        BY <2>1, <2>3, <3>1, <4>1 DEF Frame, FrameOK
    <3>3. CASE r.key # OBJNULL
      <4>1. ff = [at |-> "call", key |-> k, e |-> s.e, func |-> r.value,
                  since |-> cleared[GfOf[k]]]
        BY <2>5, <3>3
      <4> QED
        BY <2>1, <2>3, <2>4, <3>1, <3>3, <4>1 DEF Frame, FrameOK
    <3> QED
      BY <3>2, <3>3
  <2>7. /\ frames' \in Seq(Frame) /\ Depth' = Depth + 1 /\ Top' = ff /\ Depth \in Nat
        /\ \A i \in 1 .. Depth : frames'[i] = frames[i]
        /\ frames'[Depth'] = ff
    BY <2>2, <2>5, <2>6, AppendProperties DEF Parts, Depth, Top
  <2> HIDE DEF f2
  <2>8. \A i \in 1 .. Depth' : FrameOK(frames[i])'
    <3> SUFFICES ASSUME NEW i \in 1 .. Depth'
                 PROVE  FrameOK(frames[i])'
      OBVIOUS
    <3>1. CASE i \in 1 .. Depth
      <4>1. FrameOK(frames[i]) /\ frames'[i] = frames[i]
        BY <2>7, <3>1 DEF Parts
      <4> QED
        BY <1>1, <4>1 DEF FrameOK
    <3>2. CASE i = Depth'
      BY <2>6, <2>7, <3>2 DEF FrameOK
    <3> QED
      BY <2>7, <3>1, <3>2
  <2>9. nesting = "early" => EarlyOK'
    <3> SUFFICES ASSUME nesting = "early"
                 PROVE  EarlyOK'
      OBVIOUS
    <3>1. \A i \in 1 .. Depth : frames[i].at = "compute"
      <4>1. Depth > 0 => Top.at = "compute"
        BY <1>1 DEF MayEnter
      <4>2. \A i \in 1 .. Depth - 1 : frames[i].at = "compute"
        BY DEF Parts, EarlyOK
      <4> QED
        BY <2>7, <4>1, <4>2 DEF Top
    <3>2. \A i \in Slots : table'[i].key # OBJNULL =>
              /\ table'[i].value.key = table'[i].key
              /\ table'[i].value.version >= cleared[GfOf[table'[i].key]]
      <4> SUFFICES ASSUME NEW i \in Slots, table'[i].key # OBJNULL
                   PROVE  /\ table'[i].value.key = table'[i].key
                          /\ table'[i].value.version >= cleared[GfOf[table'[i].key]]
        OBVIOUS
      <4>1. table'[i].key = t[i].key /\ table'[i].value = t[i].value
        BY <2>1, <2>2 DEF Sub
      <4>2. table'[i].value.key = table'[i].key
        BY <2>1, <2>2 DEF GoodTable
      <4> QED
        BY <1>3, <4>1, <4>2
    <3>3. \A i \in 1 .. Depth' - 1 : frames'[i].at = "compute"
      BY <2>7, <3>1
    <3> QED
      BY <1>1, <2>6, <2>7, <3>2, <3>3 DEF EarlyOK, Current
  <2> QED
    BY <1>1, <2>1, <2>2, <2>7, <2>8, <2>9 DEF Parts
<1> QED
  BY <1>4, <1>5

(* What is computed is of the key and not older than the last clearing.    *)
LEMMA ComputeParts ==
    ASSUME Parts, ComputeApplicableMethods
    PROVE  Parts'
<1> USE CacheAssumption
<1> DEFINE m == [key |-> Top.key, version |-> version[GfOf[Top.key]]]
<1>1. /\ ~dead /\ Depth > 0 /\ Top.at = "compute"
      /\ SetTop([Top EXCEPT !.at = "computed", !.func = m])
      /\ UNCHANGED <<version, cleared, defining, cacheVars, clearList, dead, nesting>>
  BY DEF ComputeApplicableMethods
<1>2. Top \in Frame /\ FrameOK(Top) /\ vector \in Key /\ Depth \in Nat \ {0}
  BY <1>1, TopFacts
<1>3. PICK f : f = [Top EXCEPT !.at = "computed", !.func = m]
  OBVIOUS
<1>4. /\ f \in Frame /\ f.key = Top.key /\ f.since = Top.since /\ f.at = "computed"
      /\ f.func = m /\ m \in Method
  BY <1>2, <1>3 DEF Frame, Method, Parts
<1>5. FrameOK(f)'
  BY <1>1, <1>2, <1>4 DEF FrameOK
<1>6. /\ frames' \in Seq(Frame) /\ Depth' = Depth /\ Top' = f
      /\ \A i \in 1 .. Depth - 1 : frames'[i] = frames[i]
  BY <1>1, <1>3, <1>4, SetTopFacts
<1>7. \A i \in 1 .. Depth' : FrameOK(frames[i])'
  <2> SUFFICES ASSUME NEW i \in 1 .. Depth
               PROVE  FrameOK(frames[i])'
    BY <1>6
  <2>1. CASE i = Depth
    BY <1>5, <1>6, <2>1 DEF Top
  <2>2. CASE i # Depth
    <3>1. frames'[i] = frames[i] /\ FrameOK(frames[i])
      BY <1>2, <1>6, <2>2 DEF Parts
    <3> QED
      BY <1>1, <3>1 DEF FrameOK
  <2> QED
    BY <2>1, <2>2
<1>8. nesting = "early" => EarlyOK'
  <2> SUFFICES ASSUME nesting = "early"
               PROVE  EarlyOK'
    OBVIOUS
  <2>1. EarlyOK
    BY DEF Parts
  <2>2. GfOf[Top.key] \in Gf /\ m.version >= cleared[GfOf[m.key]]
    BY <1>2 DEF Frame, Parts
  <2>3. Current(Top.func)'
    BY <1>1, <1>4, <1>6, <2>2 DEF Current
  <2>4. \A i \in Slots : table'[i].key # OBJNULL => Current(table[i].value)'
    BY <1>1, <2>1 DEF EarlyOK, Current, cacheVars
  <2> QED
    BY <1>2, <1>6, <2>1, <2>3, <2>4 DEF EarlyOK
<1> QED
  BY <1>1, <1>2, <1>6, <1>7, <1>8 DEF Parts, cacheVars

(* The table after the result is stored in slot e.                         *)
Stored(t, e, k, m) == [t EXCEPT ![e].key = k, ![e].value = m]

(* Storing a method under its own key keeps the table good.                *)
LEMMA StoredGood ==
    ASSUME NEW gen \in Nat, NEW t \in GoodTable(gen), NEW e \in Slots, NEW k \in Key,
           NEW m \in Method, m.key = k, NEW u, u = Stored(t, e, k, m)
    PROVE  /\ u \in GoodTable(gen)
           /\ u[e].key = k /\ u[e].value = m
           /\ \A i \in Slots \ {e} : u[i] = t[i]
<1> DEFINE x == [t[e] EXCEPT !.key = k, !.value = m]
<1>1. t \in [Slots -> RecordType] /\ t[e] \in RecordType /\ t[e].gen <= gen
  BY DEF GoodTable
<1>2. x \in RecordType /\ x.gen <= gen /\ x.key = k /\ x.value = m
  BY <1>1 DEF RecordType
<1>3. u \in [Slots -> RecordType] /\ u[e] = x /\ \A i \in Slots \ {e} : u[i] = t[i]
  <2>1. u = [t EXCEPT ![e] = x]
    BY <1>1 DEF Stored
  <2> HIDE DEF x
  <2> QED
    BY <1>1, <1>2, <2>1
<1> HIDE DEF x
<1>4. ASSUME NEW i \in Slots
      PROVE  /\ u[i].gen <= gen
             /\ u[i].key # OBJNULL => u[i].value \in Method /\ u[i].value.key = u[i].key
  <2>1. CASE i = e
    BY <1>2, <1>3, <2>1
  <2>2. CASE i # e
    BY <1>3, <2>2 DEF GoodTable
  <2> QED
    BY <2>1, <2>2
<1> QED
  BY <1>2, <1>3, <1>4 DEF GoodTable

(* The method goes under the key of the dispatch, wherever it is stored.   *)
LEMMA StoreParts ==
    ASSUME Parts, StoreMethod
    PROVE  Parts'
<1> USE CacheAssumption
<1> DEFINE s == SearchMethodHash(vector, table, generation)
           stored(t, e) == [t EXCEPT ![e].key = Top.key, ![e].value = Top.func]
<1>1. /\ ~dead /\ Depth > 0 /\ Top.at = "computed"
      /\ UNCHANGED <<version, cleared, defining, vector, clearList, nesting>>
      /\ \/ /\ table' = stored(table, Top.e)
            /\ SetTop([Top EXCEPT !.at = "call"])
            /\ UNCHANGED <<generation, dead>>
         \/ /\ s.ok
            /\ table' = stored(s.table, s.e) /\ generation' = s.gen
            /\ SetTop([Top EXCEPT !.at = "call", !.e = s.e])
            /\ UNCHANGED dead
         \/ Die
  BY Zenon DEF StoreMethod
<1>2. /\ Top \in Frame /\ FrameOK(Top) /\ vector \in Key /\ Depth \in Nat \ {0}
      /\ Top.e \in Slots /\ Top.key \in Key /\ Top.func \in Method /\ Top.func.key = Top.key
  BY <1>1, TopFacts DEF FrameOK, Frame
<1>3. generation \in GoodGen /\ generation \in Nat /\ table \in GoodTable(generation)
  BY DEF Parts, GoodGen
<1>4. ASSUME NEW t \in GoodTable(generation'), NEW e \in Slots, generation' \in GoodGen,
             Sub(t, table), table' = stored(t, e),
             SetTop([Top EXCEPT !.at = "call", !.e = e]), UNCHANGED dead
      PROVE  Parts'
  <2>1. generation' \in Nat
    BY <1>4 DEF GoodGen
  <2>2. /\ table' \in GoodTable(generation')
        /\ table'[e].value = Top.func
        /\ \A i \in Slots \ {e} : table'[i] = t[i]
    <3>1. PICK k : k = Top.key
      OBVIOUS
    <3>2. PICK m : m = Top.func
      OBVIOUS
    <3>3. PICK g : g = generation'
      OBVIOUS
    <3>4. k \in Key /\ m \in Method /\ m.key = k /\ g \in Nat /\ t \in GoodTable(g)
      BY <1>2, <1>4, <2>1, <3>1, <3>2, <3>3
    <3>5. table' = Stored(t, e, k, m)
      BY <1>4, <3>1, <3>2 DEF Stored
    <3>6. PICK u : u = table'
      OBVIOUS
    <3>7. /\ u \in GoodTable(g) /\ u[e].value = m
          /\ \A i \in Slots \ {e} : u[i] = t[i]
      BY <3>4, <3>5, <3>6, StoredGood
    <3> QED
      BY <3>2, <3>3, <3>6, <3>7
  <2>3. PICK f : f = [Top EXCEPT !.at = "call", !.e = e]
    OBVIOUS
  <2>4. /\ f \in Frame /\ f.key = Top.key /\ f.since = Top.since /\ f.at = "call"
        /\ f.func = Top.func
    BY <1>2, <2>3 DEF Frame
  <2>5. FrameOK(f)'
    BY <1>1, <1>2, <2>4 DEF FrameOK
  <2>6. /\ frames' \in Seq(Frame) /\ Depth' = Depth /\ Top' = f
        /\ \A i \in 1 .. Depth - 1 : frames'[i] = frames[i]
    BY <1>1, <1>4, <2>3, <2>4, SetTopFacts
  <2>7. \A i \in 1 .. Depth' : FrameOK(frames[i])'
    <3> SUFFICES ASSUME NEW i \in 1 .. Depth
                 PROVE  FrameOK(frames[i])'
      BY <2>6
    <3>1. CASE i = Depth
      BY <2>5, <2>6, <3>1 DEF Top
    <3>2. CASE i # Depth
      <4>1. frames'[i] = frames[i] /\ FrameOK(frames[i])
        BY <1>2, <2>6, <3>2 DEF Parts
      <4> QED
        BY <1>1, <4>1 DEF FrameOK
    <3> QED
      BY <3>1, <3>2
  <2>8. nesting = "early" => EarlyOK'
    <3> SUFFICES ASSUME nesting = "early"
                 PROVE  EarlyOK'
      OBVIOUS
    <3>1. EarlyOK /\ Current(Top.func)
      BY <1>1 DEF Parts, EarlyOK
    <3>2. ASSUME NEW i \in Slots, table'[i].key # OBJNULL
          PROVE  Current(table[i].value)'
      <4>1. Current(table'[i].value)
        <5>1. CASE i = e
          BY <2>2, <3>1, <5>1
        <5>2. CASE i # e
          <6>1. table'[i].value = table[i].value /\ table[i].key # OBJNULL
            BY <1>4, <2>2, <3>2, <5>2 DEF Sub
          <6> QED
            BY <1>1, <3>1, <6>1 DEF EarlyOK
        <5> QED
          BY <5>1, <5>2
      <4> QED
        BY <1>1, <4>1 DEF Current
    <3> QED
      BY <1>2, <2>4, <2>6, <3>1, <3>2 DEF EarlyOK
  <2> QED
    BY <1>1, <1>2, <1>4, <2>2, <2>6, <2>7, <2>8 DEF Parts
<1>5. CASE /\ table' = stored(table, Top.e)
           /\ SetTop([Top EXCEPT !.at = "call"])
           /\ UNCHANGED <<generation, dead>>
  <2>1. [Top EXCEPT !.at = "call"] = [Top EXCEPT !.at = "call", !.e = Top.e]
    BY <1>2 DEF Frame
  <2>2. Sub(table, table)
    BY DEF Sub
  <2> QED
    BY <1>2, <1>3, <1>4, <1>5, <2>1, <2>2
<1>6. CASE /\ s.ok
           /\ table' = stored(s.table, s.e) /\ generation' = s.gen
           /\ SetTop([Top EXCEPT !.at = "call", !.e = s.e])
           /\ UNCHANGED dead
  <2>1. /\ s.e \in Slots
        /\ s.gen \in GoodGen
        /\ s.table \in GoodTable(s.gen)
        /\ Sub(s.table, table)
    BY <1>2, <1>3, <1>6, SearchGood
  <2> HIDE DEF s
  <2> QED
    BY <1>4, <1>6, <2>1
<1>7. CASE Die
  <2>1. dead' = TRUE /\ UNCHANGED <<table, generation, frames>>
    BY <1>7 DEF Die
  <2>2. Depth' = Depth /\ \A i \in 1 .. Depth : frames'[i] = frames[i] /\ FrameOK(frames[i])'
    BY <1>1, <2>1 DEF Depth, FrameOK, Parts
  <2>3. EarlyOK => EarlyOK'
    BY <2>1, <2>2 DEF EarlyOK
  <2>4. dead' \in BOOLEAN
    BY <2>1
  <2> QED
    BY <1>1, <2>1, <2>2, <2>3, <2>4 DEF Parts
<1> QED
  BY <1>1, <1>5, <1>6, <1>7

(* Leaving a dispatch uncovers one that is still computing.                *)
LEMMA LeaveParts ==
    ASSUME Parts, Leave
    PROVE  Parts'
<1>1. /\ ~dead /\ Depth > 0
      /\ frames' = SubSeq(frames, 1, Depth - 1)
      /\ UNCHANGED <<version, cleared, defining, table, generation, vector, clearList, dead, nesting>>
  BY DEF Leave, cacheVars
<1>2. Depth \in Nat \ {0} /\ frames \in Seq(Frame) /\ vector \in Key
  BY <1>1, TopFacts DEF Parts
<1>3. /\ frames' \in Seq(Frame) /\ Depth' = Depth - 1
      /\ \A i \in 1 .. Depth - 1 : frames'[i] = frames[i]
  <2>1. PICK d : d = Depth
    OBVIOUS
  <2>2. d \in Nat \ {0} /\ Len(frames) = d /\ frames' = SubSeq(frames, 1, d - 1)
    BY <1>1, <1>2, <2>1 DEF Depth
  <2>3. Len(frames') = d - 1 /\ frames' \in Seq(Frame)
    BY <1>2, <2>2
  <2>4. \A i \in 1 .. d - 1 : frames'[i] = frames[i]
    BY <1>2, <2>2
  <2> QED
    BY <2>1, <2>3, <2>4 DEF Depth
<1>4. \A i \in 1 .. Depth' : FrameOK(frames[i])'
  <2> SUFFICES ASSUME NEW i \in 1 .. Depth - 1
               PROVE  FrameOK(frames[i])'
    BY <1>3
  <2>1. frames'[i] = frames[i] /\ FrameOK(frames[i])
    BY <1>2, <1>3 DEF Parts
  <2> QED
    BY <1>1, <2>1 DEF FrameOK
<1>5. EarlyOK => EarlyOK'
  <2>1. ASSUME EarlyOK, Depth' > 0
        PROVE  Top'.at = "compute"
    BY <1>2, <1>3, <2>1 DEF EarlyOK, Top
  <2>2. \A m : Current(m) => Current(m)'
    BY <1>1 DEF Current
  <2>3. EarlyOK => \A i \in Slots : table'[i].key # OBJNULL => Current(table[i].value)'
    BY <1>1 DEF EarlyOK, Current
  <2> QED
    BY <1>1, <1>2, <1>3, <2>1, <2>3 DEF EarlyOK
<1> QED
  BY <1>1, <1>2, <1>3, <1>4, <1>5 DEF Parts

(* The steps of those who redefine leave the cache alone.                  *)
LEMMA DefinerParts ==
    ASSUME Parts,
           UNCHANGED <<cacheVars, frames, dead, nesting>>,
           version' \in [Gf -> Nat], cleared' \in [Gf -> Nat],
           defining' \in [Definer -> Gf \cup {Cnil}],
           clearList' \subseteq Gf \cup {Ct},
           \A g \in Gf : version[g] <= version'[g] /\ cleared'[g] <= version'[g],
           \A g \in Gf : cleared'[g] = cleared[g] \/ clearList' \cap {g, Ct} # {},
           clearList \subseteq clearList'
    PROVE  Parts'
<1> USE CacheAssumption
<1>1. UNCHANGED <<table, generation, vector, frames, dead, nesting>> /\ Depth' = Depth /\ Top' = Top
  BY DEF cacheVars, Depth, Top
<1>2. ASSUME NEW i \in 1 .. Depth
      PROVE  FrameOK(frames[i])'
  <2>1. frames[i] \in Frame /\ FrameOK(frames[i])
    BY DEF Parts, Depth
  <2>2. GfOf[frames[i].key] \in Gf /\ frames[i].since \in Nat
    BY <2>1 DEF Frame
  <2>3. frames[i].since <= version'[GfOf[frames[i].key]]
    <3>1. PICK g : g = GfOf[frames[i].key]
      OBVIOUS
    <3>2. frames[i].since <= version[g] /\ g \in Gf
      BY <2>1, <2>2, <3>1 DEF FrameOK
    <3>3. version[g] \in Nat /\ version'[g] \in Nat /\ version[g] <= version'[g]
      BY <3>2 DEF Parts
    <3> QED
      BY <2>2, <3>1, <3>2, <3>3, SMTT(30)
  <2> QED
    BY <1>1, <2>1, <2>3 DEF FrameOK
<1>3. ASSUME NEW m \in Method, Current(m)
      PROVE  Current(m)'
  <2>1. GfOf[m.key] \in Gf
    BY DEF Method
  <2> QED
    BY <1>3, <2>1 DEF Current
<1>4. EarlyOK => EarlyOK'
  <2> SUFFICES ASSUME EarlyOK
               PROVE  EarlyOK'
    OBVIOUS
  <2>1. ASSUME ~dead, NEW i \in Slots, table[i].key # OBJNULL
        PROVE  Current(table[i].value)'
    <3>1. PICK m : m = table[i].value
      OBVIOUS
    <3>2. m \in Method /\ Current(m)
      BY <2>1, <3>1 DEF EarlyOK, Parts, GoodTable
    <3>3. Current(m)'
      BY <1>3, <3>2
    <3> QED
      BY <1>1, <3>1, <3>3
  <2>2. ASSUME ~dead, Depth > 0, Top.at = "computed"
        PROVE  Current(Top.func)'
    <3>1. PICK m : m = Top.func
      OBVIOUS
    <3>2. m \in Method /\ Current(m)
      BY <2>2, <3>1, TopFacts DEF EarlyOK, FrameOK
    <3>3. Current(m)'
      BY <1>3, <3>2
    <3> QED
      BY <1>1, <3>1, <3>3
  <2> QED
    BY <1>1, <2>1, <2>2 DEF EarlyOK
<1> QED
  BY <1>1, <1>2, <1>4 DEF Parts

(* Every step keeps the parts.                                             *)
LEMMA NextParts == Parts /\ [CacheNext]_vars => Parts'
<1> SUFFICES ASSUME Parts, [CacheNext]_vars
             PROVE  Parts'
  OBVIOUS
<1> USE CacheAssumption
<1>1. ASSUME NEW k \in Key, Dispatch(k)
      PROVE  Parts'
  BY <1>1, DispatchParts
<1>2. CASE ComputeApplicableMethods
  BY <1>2, ComputeParts
<1>3. CASE StoreMethod
  BY <1>3, StoreParts
<1>4. CASE Leave
  BY <1>4, LeaveParts
<1>5. ASSUME NEW d \in Definer, NEW g \in Gf, ChangeMethods(d, g)
      PROVE  Parts'
  <2>1. /\ version' = [version EXCEPT ![g] = @ + 1]
        /\ defining' = [defining EXCEPT ![d] = g]
        /\ UNCHANGED <<cleared, clearList>>
        /\ UNCHANGED <<cacheVars, frames, dead, nesting>>
    BY <1>5 DEF ChangeMethods
  <2>2. version' \in [Gf -> Nat] /\ \A h \in Gf : version[h] <= version'[h]
    BY <2>1 DEF Parts
  <2>3. defining' \in [Definer -> Gf \cup {Cnil}]
    BY <2>1 DEF Parts
  <2>4. \A h \in Gf : cleared'[h] <= version'[h]
    BY <2>1, <2>2 DEF Parts
  <2> QED
    BY <2>1, <2>2, <2>3, <2>4, DefinerParts DEF Parts
<1>6. ASSUME NEW d \in Definer, ClearGfunHash(d)
      PROVE  Parts'
  <2>1. PICK g : g = defining[d]
    OBVIOUS
  <2>2. /\ g \in Gf
        /\ clearList' = clearList \cup {g}
        /\ cleared' = [cleared EXCEPT ![g] = version[g]]
        /\ defining' = [defining EXCEPT ![d] = Cnil]
        /\ UNCHANGED version
        /\ UNCHANGED <<cacheVars, frames, dead, nesting>>
    BY <1>6, <2>1 DEF ClearGfunHash, Parts
  <2>3. cleared' \in [Gf -> Nat] /\ \A h \in Gf : cleared'[h] <= version'[h]
    BY <2>2 DEF Parts
  <2>4. defining' \in [Definer -> Gf \cup {Cnil}]
    BY <2>2 DEF Parts
  <2>5. \A h \in Gf : cleared'[h] = cleared[h] \/ clearList' \cap {h, Ct} # {}
    BY <2>2 DEF Parts
  <2>6. clearList \subseteq clearList' /\ clearList' \subseteq Gf \cup {Ct}
    BY <2>2 DEF Parts
  <2>7. \A h \in Gf : version[h] <= version'[h]
    BY <2>2 DEF Parts
  <2> QED
    BY <2>2, <2>3, <2>4, <2>5, <2>6, <2>7, DefinerParts DEF Parts
<1>7. CASE ClearAll
  <2>1. /\ clearList' = clearList \cup {Ct}
        /\ cleared' = version
        /\ UNCHANGED <<version, defining>>
        /\ UNCHANGED <<cacheVars, frames, dead, nesting>>
    BY <1>7 DEF ClearAll
  <2>2. /\ version' \in [Gf -> Nat] /\ cleared' \in [Gf -> Nat]
        /\ defining' \in [Definer -> Gf \cup {Cnil}]
        /\ \A g \in Gf : version[g] <= version'[g] /\ cleared'[g] <= version'[g]
    BY <2>1 DEF Parts
  <2>3. /\ clearList' \subseteq Gf \cup {Ct} /\ clearList \subseteq clearList'
        /\ \A g \in Gf : clearList' \cap {g, Ct} # {}
    BY <2>1 DEF Parts
  <2> QED
    BY <2>1, <2>2, <2>3, DefinerParts
<1>8. CASE UNCHANGED vars
  <2>1. UNCHANGED <<version, cleared, defining, clearList>>
        /\ UNCHANGED <<cacheVars, frames, dead, nesting>>
    BY <1>8 DEF vars, cacheVars
  <2> QED
    BY <2>1, DefinerParts DEF Parts
<1> QED
  BY <1>1, <1>2, <1>3, <1>4, <1>5, <1>6, <1>7, <1>8 DEF CacheNext

-----------------------------------------------------------------------------
(* The inductive invariant of the cache (search_method_hash,               *)
(* _ecl_standard_dispatch, si_clear_gfun_hash).                            *)
THEOREM CacheInvariant == CacheSpec => []CacheInv
<1>1. CacheInit => CacheInv
  BY InitParts, InvParts
<1>2. CacheInv /\ [CacheNext]_vars => CacheInv'
  <2>1. Parts' => CacheInv'
    BY InvParts, PTL
  <2> QED
    BY <2>1, NextParts, InvParts
<1> QED
  BY <1>1, <1>2, PTL DEF CacheSpec

(* A call runs a method computed for its own function and arguments,       *)
(* however dispatches nest and whatever the cache has to drop.             *)
THEOREM OwnMethodCalled == CacheSpec => []CallsOwnMethod
<1>1. CacheInv => CallsOwnMethod
  BY DEF CacheInv
<1> QED
  BY <1>1, CacheInvariant, PTL

(* A call that starts after si:clear-gfun-hash has returned runs no method *)
(* from before, as long as nothing dispatches between reading the methods  *)
(* and storing the result.                                                 *)
THEOREM MethodsFresh == CacheSpec => []FreshMethods
<1>1. CacheInv => FreshMethods
  BY DEF CacheInv
<1> QED
  BY <1>1, CacheInvariant, PTL
=============================================================================
