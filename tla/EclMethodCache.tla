--------------------------- MODULE EclMethodCache ---------------------------
(***************************************************************************)
(* Generic function dispatch and its method cache (gfun.d).                *)
(*                                                                         *)
(* Every process has a cache of its own, so this is the cache of one       *)
(* process.  The others (and code of its own) redefine generic functions:  *)
(* they change the methods and then put the function on the clear list of  *)
(* the process, which the next dispatch works off.  A dispatch that misses *)
(* reserves a record of the cache, computes the method, in code that may   *)
(* dispatch itself, and fills the record in.                               *)
(***************************************************************************)
EXTENDS Integers, Sequences, FiniteSetsExt

CONSTANTS
    Gf,         \* generic functions
    Key,        \* what a call is looked up by: function and argument types
    GfOf,       \* the function of a key
    Hash,       \* vector_hash_key
    Size,       \* records in the cache (4096)
    Probe,      \* records a search looks at (20)
    Definer,    \* who redefines
    OBJNULL, Cnil, Ct,
    MaxVersion, \* bound on the redefinitions of each function
    MaxDepth,   \* bound on dispatches within dispatches
    Nestings    \* the values nesting starts with

ASSUME CacheAssumption ==
    /\ GfOf \in [Key -> Gf]
    /\ Size \in Nat \ {0, 1} /\ Probe \in 1 .. Size
    /\ Hash \in [Key -> 0 .. Size - 1]
    /\ OBJNULL # Cnil
    /\ {OBJNULL, Cnil, Ct} \cap (Key \cup Gf) = {}
    /\ MaxVersion \in [Gf -> Nat] /\ MaxDepth \in Nat
    /\ Nestings \subseteq {"early", "any"}

VARIABLES
    version,    \* how often the methods of a function have changed
    cleared,    \* its version when its cached methods were last cleared
    defining,   \* the function a definer has changed and not cleared yet
    table, generation, clearList,   \* method_hash, method_generation, ..._clear_list
    vector,     \* method_spec_vector
    frames,     \* the dispatches under way, innermost last
    dead,       \* ecl_internal_error
    nesting     \* "early": no dispatch happens within one that has read the methods

cacheVars == <<table, generation, vector>>
vars == <<version, cleared, defining, cacheVars, clearList, frames, dead, nesting>>

Slots == 0 .. Size - 1
Empty(r) == r.key = OBJNULL /\ r.value = OBJNULL
EmptyRecord == [key |-> OBJNULL, value |-> OBJNULL, gen |-> 0]
DeletedRecord == [key |-> OBJNULL, value |-> Cnil, gen |-> 0]

(* A record without its key.  The value it keeps is only ever compared     *)
(* with OBJNULL, so any other is as good as NIL.                           *)
Deleted(r, gen) ==
    [key |-> OBJNULL, value |-> IF r.value = OBJNULL THEN OBJNULL ELSE Cnil, gen |-> gen]

(* _ecl_set_method_hash_size.                                              *)
CacheInit ==
    /\ version = [g \in Gf |-> 0] /\ cleared = [g \in Gf |-> 0]
    /\ defining = [d \in Definer |-> Cnil]
    /\ table = [i \in Slots |-> EmptyRecord]
    /\ generation = 0
    /\ clearList = {}
    /\ vector = Cnil
    /\ frames = <<>>
    /\ dead = FALSE
    /\ nesting \in Nestings

-----------------------------------------------------------------------------
(* Mutants: only the first record of the function is cleared; the          *)
(* generations are never shifted.                                          *)
ClearFunctions_First(t, what) ==
    LET Cached(g) == {i \in Slots : t[i].key # OBJNULL /\ GfOf[t[i].key] = g}
    IN  [i \in Slots |-> IF \E g \in what : Cached(g) # {} /\ i = Min(Cached(g))
                         THEN Deleted(t[i], 0)
                         ELSE t[i]]

Shift_Never(t, gen) == [table |-> t, gen |-> gen]

(* do_clear_method_hash of some functions.                                 *)
ClearFunctions(t, what) ==
    [i \in Slots |-> IF t[i].key # OBJNULL /\ GfOf[t[i].key] \in what
                     THEN Deleted(t[i], 0)
                     ELSE t[i]]

(* The comparison of two keys in search_method_hash.                       *)
Matches(r, k) == r.key = k

(* The global shift of generations at the end of search_method_hash.       *)
Shift(t, gen) ==
    LET half == gen \div 2 IN
    IF gen < (3 * Size) \div 2
    THEN [table |-> t, gen |-> gen]
    ELSE [table |-> [i \in Slots |-> IF t[i].gen <= half THEN DeletedRecord
                                     ELSE [t[i] EXCEPT !.gen = @ - half]],
          gen |-> gen - half]

Slot(k, j) == (Hash[k] + j) % Size

(* search_method_hash: the record of k, or else the last deleted record,   *)
(* or else the oldest one, before the first empty record.                  *)
SearchMethodHash(k, t, gen) ==
    LET r(j) == t[Slot(k, j)]
        seen == {j \in 0 .. Probe - 1 : \A i \in 0 .. j - 1 : ~Empty(r(i))}
        found == {j \in seen : Matches(r(j), k)}
        deleted == {j \in seen : r(j).key = OBJNULL}
        oldest == {j \in seen : r(j).gen < gen /\ \A i \in seen : r(j).gen <= r(i).gen}
        e == CASE found # {} -> Slot(k, Min(found))
               [] found = {} /\ deleted # {} -> Slot(k, Max(deleted))
               [] OTHER -> Slot(k, Min(oldest))
        newGen == IF found = {} THEN gen + 1 ELSE gen
        used == IF found = {} THEN Deleted(t[e], newGen) ELSE [t[e] EXCEPT !.gen = newGen]
    IN  IF found = {} /\ deleted = {} /\ oldest = {}
        THEN [ok |-> FALSE, e |-> 0, table |-> t, gen |-> gen]
        ELSE LET s == Shift([t EXCEPT ![e] = used], newGen)
             IN  [ok |-> TRUE, e |-> e, table |-> s.table, gen |-> s.gen]

-----------------------------------------------------------------------------
Depth == Len(frames)
Top == frames[Depth]
SetTop(f) == frames' = [frames EXCEPT ![Depth] = f]
Push(f) == frames' = Append(frames, f)

Die == dead' = TRUE /\ UNCHANGED <<table, generation, frames>>

(* A dispatch may start when none is under way or within the computation   *)
(* of the method of another one.                                           *)
MayEnter ==
    /\ ~dead
    /\ Depth < MaxDepth
    /\ Depth > 0 => \/ Top.at = "compute"
                    \/ Top.at = "computed" /\ nesting = "any"

(* _ecl_standard_dispatch to the end of the search: the clear list is      *)
(* worked off, the key is put into the vector and looked up.               *)
Dispatch(k) ==
    LET all == Ct \in clearList
        t == IF all THEN [i \in Slots |-> EmptyRecord] ELSE ClearFunctions(table, clearList)
        s == SearchMethodHash(k, t, IF all THEN 0 ELSE generation)
        r == s.table[s.e]
        f == [at |-> "compute", key |-> k, e |-> s.e, func |-> Cnil, since |-> cleared[GfOf[k]]]
    IN  /\ MayEnter
        /\ clearList' = {}
        /\ vector' = k
        /\ IF s.ok
           THEN /\ table' = s.table /\ generation' = s.gen
                /\ Push(IF r.key = OBJNULL THEN f
                        ELSE [f EXCEPT !.at = "call", !.func = r.value])
                /\ UNCHANGED dead
           ELSE Die
        /\ UNCHANGED <<version, cleared, defining, nesting>>

(* compute-applicable-methods reads the methods of the function.           *)
ComputeApplicableMethods ==
    /\ ~dead /\ Depth > 0 /\ Top.at = "compute"
    /\ SetTop([Top EXCEPT !.at = "computed",
                          !.func = [key |-> Top.key, version |-> version[GfOf[Top.key]]]])
    /\ UNCHANGED <<version, cleared, defining, cacheVars, clearList, dead, nesting>>

(* Mutant: the key is taken from the vector after the computation.         *)
StoreMethod_KeyFromVector ==
    LET s == SearchMethodHash(vector, table, generation)
        stored(t, e) == [t EXCEPT ![e].key = vector, ![e].value = Top.func]
    IN  /\ ~dead /\ Depth > 0 /\ Top.at = "computed"
        /\ IF table[Top.e].key = OBJNULL
           THEN /\ table' = stored(table, Top.e)
                /\ SetTop([Top EXCEPT !.at = "call"])
                /\ UNCHANGED <<generation, dead>>
           ELSE IF s.ok
           THEN /\ table' = stored(s.table, s.e) /\ generation' = s.gen
                /\ SetTop([Top EXCEPT !.at = "call", !.e = s.e])
                /\ UNCHANGED dead
           ELSE Die
        /\ UNCHANGED <<version, cleared, defining, vector, clearList, nesting>>

(* The method is stored in the reserved record, or, if that has been taken *)
(* meanwhile, in one that is searched with what is in the vector now.      *)
StoreMethod ==
    LET s == SearchMethodHash(vector, table, generation)
        stored(t, e) == [t EXCEPT ![e].key = Top.key, ![e].value = Top.func]
    IN  /\ ~dead /\ Depth > 0 /\ Top.at = "computed"
        /\ IF table[Top.e].key = OBJNULL
           THEN /\ table' = stored(table, Top.e)
                /\ SetTop([Top EXCEPT !.at = "call"])
                /\ UNCHANGED <<generation, dead>>
           ELSE IF s.ok
           THEN /\ table' = stored(s.table, s.e) /\ generation' = s.gen
                /\ SetTop([Top EXCEPT !.at = "call", !.e = s.e])
                /\ UNCHANGED dead
           ELSE Die
        /\ UNCHANGED <<version, cleared, defining, vector, clearList, nesting>>

(* The method is called, or the computation is left by an error.           *)
Leave ==
    /\ ~dead /\ Depth > 0
    /\ frames' = SubSeq(frames, 1, Depth - 1)
    /\ UNCHANGED <<version, cleared, defining, cacheVars, clearList, dead, nesting>>

(* add-method and remove-method change the list of methods ...             *)
ChangeMethods(d, g) ==
    /\ ~dead
    /\ defining[d] = Cnil /\ version[g] < MaxVersion[g]
    /\ version' = [version EXCEPT ![g] = @ + 1]
    /\ defining' = [defining EXCEPT ![d] = g]
    /\ UNCHANGED <<cleared, cacheVars, clearList, frames, dead, nesting>>

(* ... and then call si:clear-gfun-hash.                                   *)
ClearGfunHash(d) ==
    LET g == defining[d] IN
    /\ ~dead
    /\ g # Cnil
    /\ clearList' = clearList \cup {g}
    /\ cleared' = [cleared EXCEPT ![g] = version[g]]
    /\ defining' = [defining EXCEPT ![d] = Cnil]
    /\ UNCHANGED <<version, cacheVars, frames, dead, nesting>>

(* (si:clear-gfun-hash t).                                                 *)
ClearAll ==
    /\ ~dead
    /\ clearList' = clearList \cup {Ct}
    /\ cleared' = version
    /\ UNCHANGED <<version, defining, cacheVars, frames, dead, nesting>>

CacheNext ==
    \/ \E k \in Key : Dispatch(k)
    \/ ComputeApplicableMethods \/ StoreMethod \/ Leave
    \/ \E d \in Definer : ClearGfunHash(d) \/ \E g \in Gf : ChangeMethods(d, g)
    \/ ClearAll

CacheSpec == CacheInit /\ [][CacheNext]_vars

-----------------------------------------------------------------------------
Method == [key : Key, version : Nat]
Frame == [at : {"compute", "computed", "call"}, key : Key, e : Slots,
          func : Method \cup {Cnil}, since : Nat]

(* The fields have their types; no record is younger than the cache, and   *)
(* the generations never pass half the words of the cache.                 *)
CacheTypeOK ==
    /\ version \in [Gf -> Nat] /\ cleared \in [Gf -> Nat]
    /\ defining \in [Definer -> Gf \cup {Cnil}]
    /\ generation \in Nat
    /\ generation = 0 \/ generation < (3 * Size) \div 2
    /\ table \in [Slots -> [key : Key \cup {OBJNULL}, gen : Nat,
                           value : Method \cup {OBJNULL, Cnil}]]
    /\ \A i \in Slots : table[i].gen <= generation
    /\ vector \in Key \cup {Cnil}
    /\ clearList \subseteq Gf \cup {Ct}
    /\ frames \in Seq(Frame)
    /\ dead \in BOOLEAN

(* A record holds a method computed for its own key, whatever happened to  *)
(* the cache and the vector while it was computed (_ecl_standard_dispatch, *)
(* "The cache might have changed").                                        *)
RecordsMatch ==
    \A i \in Slots : table[i].key # OBJNULL =>
        table[i].value \in Method /\ table[i].value.key = table[i].key

(* A dispatch past the computation has a method for its own key.  While    *)
(* one is under way the vector has a key.                                  *)
FramesOK ==
    /\ \A i \in 1 .. Depth : frames[i].at # "compute" =>
           frames[i].func \in Method /\ frames[i].func.key = frames[i].key
    /\ Depth > 0 => vector \in Key

(* The method has been computed since its function was last cleared, or    *)
(* the clearing is still to be worked off.                                 *)
Current(m) ==
    \/ m.version >= cleared[GfOf[m.key]]
    \/ clearList \cap {GfOf[m.key], Ct} # {}

(* Nothing is cleared in advance, and no dispatch is older than what it    *)
(* computes.  If dispatches nest early, a clearing is never worked off     *)
(* between reading the methods and storing the result: what is cached, and *)
(* what is about to be, is current.                                        *)
FreshnessOK ==
    /\ \A g \in Gf : cleared[g] <= version[g]
    /\ \A i \in 1 .. Depth :
          /\ frames[i].since <= version[GfOf[frames[i].key]]
          /\ frames[i].at = "computed" => frames[i].func.version >= frames[i].since
    /\ nesting = "early" =>
          /\ \A i \in 1 .. Depth - 1 : frames[i].at = "compute"
          /\ ~dead => \A i \in Slots : table[i].key # OBJNULL => Current(table[i].value)
          /\ ~dead /\ Depth > 0 /\ Top.at = "computed" => Current(Top.func)

(* A call runs a method computed for its own function and arguments.       *)
CallsOwnMethod ==
    \A i \in 1 .. Depth : frames[i].at = "call" => frames[i].func.key = frames[i].key

(* A call that starts after si:clear-gfun-hash has returned uses methods   *)
(* that are not older, as long as nothing dispatches between reading the   *)
(* methods and storing the result.                                         *)
FreshMethods ==
    \A i \in 1 .. Depth :
        frames[i].at = "call" /\ nesting = "early" => frames[i].func.version >= frames[i].since

(* The inductive invariant of the cache: types, records and dispatches     *)
(* that match their keys, and what the freshness of calls rests on.        *)
CacheInv ==
    /\ CacheTypeOK
    /\ RecordsMatch
    /\ FramesOK
    /\ FreshnessOK
    /\ CallsOwnMethod
    /\ FreshMethods
=============================================================================
