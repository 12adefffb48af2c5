------------------------------ MODULE EclHash ------------------------------
(***************************************************************************)
(* The hash tables of ECL (hash.d) as operators on a table: an array of    *)
(* entries with open addressing and linear probing, and the count of its   *)
(* keys.  An entry without a key is free; one that has held a key keeps a  *)
(* value (Cnil), which tells a search to look further.                     *)
(*                                                                         *)
(* The tables are those of the dynamic bindings: test EQ, no lock,         *)
(* rehash-size 1.5 and rehash-threshold 0.7.                               *)
(***************************************************************************)
EXTENDS Integers, FiniteSets, SequencesExt

CONSTANTS
    Key,
    Hash,       \* the address of a key, shifted
    OBJNULL,
    Cnil,
    Word        \* cl_index counts modulo this

ASSUME HashAssumption ==
    /\ OBJNULL \notin Key /\ Cnil # OBJNULL
    /\ Hash \in [Key \cup {OBJNULL} -> Nat]
    /\ Word \in Nat \ {0}

Free == [key |-> OBJNULL, value |-> OBJNULL]

(* cl__make_hash_table and do_clrhash.                                     *)
make_hash_table(size) ==
    [data |-> [i \in 0 .. size - 1 |-> Free], size |-> size, entries |-> 0]

(* The entries in the order in which key is looked for, and the first of   *)
(* them, up to the nth, that is wanted (n if there is none).               *)
Probe(key, table, k) == (Hash[key] + k) % table.size

First(wanted, n) ==
    CHOOSE k \in 0 .. n : (k < n => k \in wanted) /\ wanted \cap 0 .. k - 1 = {}

(* ecl_search_hash: the index of the entry of key, or of the one it would  *)
(* take: the first that has been deleted before the end of the search.     *)
(* The size is the index after the last entry.                             *)
ecl_search_hash(key, table) ==
    LET at(k) == table.data[Probe(key, table, k)]
        steps == 0 .. table.size - 1
        found(k) == key # OBJNULL /\ at(k).key = key
        end == First({k \in steps : at(k) = Free \/ found(k)}, table.size)
        j == First({k \in steps : at(k).key = OBJNULL}, end)
    IN IF end < table.size /\ (j = end \/ found(end)) THEN Probe(key, table, end)
       ELSE IF j < end THEN Probe(key, table, j)
       ELSE table.size

(* The entry of key is in the table.                                       *)
Present(key, table) ==
    LET i == ecl_search_hash(key, table)
    IN i < table.size /\ table.data[i].key # OBJNULL

(* add_new_to_hash: into the first entry without a key.  It does not end   *)
(* in a table that has none.                                               *)
add_new_to_hash(key, table, value) ==
    LET free == {k \in 0 .. table.size - 1 :
                    table.data[Probe(key, table, k)].key = OBJNULL}
        i == Probe(key, table, First(free, table.size))
    IN [table EXCEPT !.data[i] = [key |-> key, value |-> value],
                     !.entries = (@ + 1) % Word]

(* ecl_extend_hashtable: the keys are added to a new array in the order of *)
(* the old one.                                                            *)
ecl_extend_hashtable(table) ==
    LET old == [i \in 1 .. table.size |-> table.data[i - 1]]
        keys == SelectSeq(old, LAMBDA e : e.key # OBJNULL)
    IN FoldLeft(LAMBDA t, e : add_new_to_hash(e.key, t, e.value),
                make_hash_table((3 * table.size + 1) \div 2), keys)

(* The test of ecl_sethash: one more key fills 0.7 of the table.           *)
Full(table) ==
    LET i == (table.entries + 1) % Word
    IN i >= table.size \/ 10 * i >= 7 * table.size

(* ecl_sethash.                                                            *)
ecl_sethash(key, table, value) ==
    IF Present(key, table)
    THEN [table EXCEPT !.data[ecl_search_hash(key, table)].value = value]
    ELSE add_new_to_hash(key,
                         IF Full(table) THEN ecl_extend_hashtable(table) ELSE table,
                         value)

(* Mutant: a deleted entry is like one that was never used.                *)
DeleteEntry_Free(i, table) ==
    [table EXCEPT !.data[i] = Free, !.entries = (@ - 1) % Word]

(* Deleting an entry, as ecl_remhash and ecl_bds_unwind1 do.               *)
DeleteEntry(i, table) ==
    [table EXCEPT !.data[i] = [key |-> OBJNULL, value |-> Cnil],
                  !.entries = (@ - 1) % Word]

(* A table in which every key is found where it is and no other place      *)
(* holds it, the keys are counted, and a search and an insertion end.      *)
WellFormed(table) ==
    LET used == {i \in 0 .. table.size - 1 : table.data[i].key # OBJNULL}
    IN /\ table.entries = Cardinality(used)
       /\ table.entries < table.size
       /\ \A i \in used : ecl_search_hash(table.data[i].key, table) = i

=============================================================================
