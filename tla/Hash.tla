-------------------------------- MODULE Hash --------------------------------
(***************************************************************************)
(* The hash table of the finalizers (src/hash.c): open addressing with     *)
(* quadratic probing, deleted entries kept as tombstones until they reach  *)
(* a quarter of the table, and an iteration that calls back for each entry *)
(* and deletes those the callback asks for.                                *)
(***************************************************************************)
EXTENDS Integers, FiniteSets

CONSTANTS
    KEYS,           \* the addresses of objects
    VALUES,         \* the callbacks
    HASH,           \* the hash of each key
    MINSIZE,        \* the smallest capacity
    CAPACITIES,     \* the capacities a table can be given
    REREGISTERED,   \* the objects the program registers again
    NULL

\* A power of two has no odd divisor but 1.
PowerOfTwo(c) == \A d \in 1 .. c : c % d = 0 => d = 1 \/ d % 2 = 0

\* MINSIZE is 8, and resize doubles it.
ASSUME HashAssumption ==
    /\ HASH \in [KEYS -> Nat]
    /\ MINSIZE \in CAPACITIES /\ CAPACITIES \subseteq Nat
    /\ \A c \in CAPACITIES : 4 <= MINSIZE /\ MINSIZE <= c /\ PowerOfTwo(c)
    /\ REREGISTERED \subseteq KEYS
    /\ NULL \notin KEYS \cup VALUES \cup Nat
    /\ \A unreachable \in SUBSET KEYS : unreachable # NULL

VARIABLES
    entries,        \* the table, indexed from 0 to mask
    mask, used, deleted,
    entry,          \* the index deleteIf has reached, NULL if none runs
    doomed,         \* the keys for which the callback of deleteIf says so
    result          \* what the last call returned, or passed to a callback

table == <<entries, mask, used, deleted>>
vars == <<table, entry, doomed, result>>
-----------------------------------------------------------------------------
FREE == [status |-> "free", key |-> NULL, value |-> NULL]

Empty(capacity) == [i \in 0 .. capacity - 1 |-> FREE]

Occupied(k, v) == [status |-> "allocated", key |-> k, value |-> v]

Allocated(t) == {i \in DOMAIN t : t[i].status = "allocated"}

Present == {entries[i].key : i \in Allocated(entries)}

\* The n-th entry of the probe sequence of a key.
Probe(k, n, capacity) == (HASH[k] + (n * (n + 1)) \div 2) % capacity

\* The first entry on it that is one of `stops'.
FirstOf(k, stops, capacity) ==
    LET hits == {n \in 0 .. capacity - 1 : Probe(k, n, capacity) \in stops}
    IN IF hits = {} THEN NULL
       ELSE Probe(k, CHOOSE n \in hits : \A m \in hits : n <= m, capacity)

\* Without the test whether the entry has the key.
MutantlookupForInsert(t, k, capacity) ==
    FirstOf(k, {i \in DOMAIN t : t[i].status = "free"}, capacity)

lookupForInsert(t, k, capacity) ==
    FirstOf(k, {i \in DOMAIN t : t[i].status # "allocated" \/ t[i].key = k}, capacity)

\* A probe that ends at the first tombstone.
Mutantlookup(k) ==
    FirstOf(k, {i \in DOMAIN entries : \/ entries[i].status # "allocated"
                                       \/ entries[i].key = k}, mask + 1)

lookup(k) ==
    FirstOf(k, {i \in DOMAIN entries : \/ entries[i].status = "free"
                                       \/ entries[i].key = k}, mask + 1)

Hash_search(k) ==
    LET i == lookup(k)
    IN IF i # NULL /\ entries[i].status = "allocated" THEN entries[i].value ELSE NULL

\* Doubled from MINSIZE until it is at least `need'.
NewCapacity(need) ==
    CHOOSE c \in CAPACITIES :
        need <= c /\ \A d \in CAPACITIES : need <= d => c <= d

\* calloc fails beyond the largest one, and the program aborts.
Allocatable(need) == \E c \in CAPACITIES : need <= c

Moved(e, new, capacity) ==
    IF e.status = "allocated"
    THEN [new EXCEPT ![lookupForInsert(new, e.key, capacity)] = e] ELSE new

\* The allocated entries of a table, put one by one into a new one.
Rehash(t, capacity) ==
    LET rehash[n \in 0 .. mask + 1] ==
          IF n = 0 THEN Empty(capacity)
          ELSE Moved(t[n - 1], rehash[n - 1], capacity)
    IN rehash[mask + 1]
-----------------------------------------------------------------------------
\* The first table has MINSIZE entries.
Init ==
    /\ entries = Empty(MINSIZE)
    /\ mask = MINSIZE - 1
    /\ used = 0 /\ deleted = 0
    /\ entry = NULL
    /\ doomed = NULL
    /\ result = NULL

Idle == entry = NULL

\* What the program registers: in Crystal an object's finalizer is registered
\* once, when it is created.
MayRegister(k) == k \notin Present \/ k \in REREGISTERED

\* As if the table could fill up.
MutantOverloaded == FALSE

\* 75% load.
Overloaded == used >= mask - mask \div 4

ReplaceValue(k, v) ==
    LET i == lookupForInsert(entries, k, mask + 1)
    IN /\ Idle /\ MayRegister(k)
       /\ i # NULL /\ entries[i].status = "allocated"
       /\ entries' = [entries EXCEPT ![i].value = v]
       /\ result' = NULL
       /\ UNCHANGED <<mask, used, deleted, entry, doomed>>

InsertFree(k, v) ==
    LET i == lookupForInsert(entries, k, mask + 1)
    IN /\ Idle /\ MayRegister(k)
       /\ i # NULL /\ entries[i].status = "free"
       /\ Overloaded => Allocatable(used * 2)
       /\ IF Overloaded
          THEN LET capacity == NewCapacity(used * 2)
                   resized  == Rehash(entries, capacity)
               IN /\ entries' = [resized EXCEPT
                                   ![lookupForInsert(resized, k, capacity)] =
                                      Occupied(k, v)]
                  /\ mask' = capacity - 1
                  /\ used' = Cardinality(Allocated(entries)) + 1
                  /\ deleted' = 0
          ELSE /\ entries' = [entries EXCEPT ![i] = Occupied(k, v)]
               /\ used' = used + 1
               /\ UNCHANGED <<mask, deleted>>
       /\ result' = NULL
       /\ UNCHANGED <<entry, doomed>>

\* The tombstone counts as used still, and as deleted.
MutantInsertDeleted(k, v) ==
    LET i == lookupForInsert(entries, k, mask + 1)
    IN /\ Idle /\ MayRegister(k)
       /\ i # NULL /\ entries[i].status = "deleted"
       /\ entries' = [entries EXCEPT ![i] = Occupied(k, v)]
       /\ result' = NULL
       /\ UNCHANGED <<mask, used, deleted, entry, doomed>>

InsertDeleted(k, v) ==
    LET i == lookupForInsert(entries, k, mask + 1)
    IN /\ Idle /\ MayRegister(k)
       /\ i # NULL /\ entries[i].status = "deleted"
       /\ entries' = [entries EXCEPT ![i] = Occupied(k, v)]
       /\ deleted' = deleted - 1
       /\ result' = NULL
       /\ UNCHANGED <<mask, used, entry, doomed>>

\* The counter of tombstones is not reset.
MutantClearTombstones(t, tombstones) ==
    /\ deleted' = tombstones
    /\ IF tombstones >= (mask + 1) \div 4
       THEN /\ entries' = Rehash(t, NewCapacity(used))
            /\ mask' = NewCapacity(used) - 1
            /\ used' = Cardinality(Allocated(t))
       ELSE /\ entries' = t
            /\ UNCHANGED <<mask, used>>

\* Once tombstones take 25% of the table they are dropped.
ClearTombstones(t, tombstones) ==
    IF tombstones >= (mask + 1) \div 4
    THEN /\ entries' = Rehash(t, NewCapacity(used))
         /\ mask' = NewCapacity(used) - 1
         /\ used' = Cardinality(Allocated(t))
         /\ deleted' = 0
    ELSE /\ entries' = t
         /\ deleted' = tombstones
         /\ UNCHANGED <<mask, used>>

Buried(i) == [entries EXCEPT ![i].status = "deleted"]

Hash_delete(k) ==
    LET i == lookup(k)
    IN /\ Idle
       /\ i # NULL
       /\ IF entries[i].status = "allocated"
          THEN /\ result' = entries[i].value
               /\ ClearTombstones(Buried(i), deleted + 1)
          ELSE /\ result' = NULL
               /\ UNCHANGED table
       /\ UNCHANGED <<entry, doomed>>
-----------------------------------------------------------------------------
(* Hash_deleteIf, called with the callback that finalizes the objects that *)
(* were not marked                                                         *)

DeleteIf ==
    /\ Idle
    /\ entry' = 0
    /\ \E unreachable \in SUBSET Present : doomed' = unreachable
    /\ result' = NULL
    /\ UNCHANGED table

\* The entries from `entry' on for which the callback will return 1.
Finalizable == {i \in Allocated(entries) : i >= entry /\ entries[i].key \in doomed}

\* The entry after is not looked at.
MutantCallback ==
    /\ ~Idle
    /\ \E i \in Finalizable :
          /\ \A j \in Finalizable : i <= j
          /\ result' = <<entries[i].key, entries[i].value>>
          /\ entries' = Buried(i)
          /\ entry' = i + 2
    /\ deleted' = deleted + 1
    /\ UNCHANGED <<mask, used, doomed>>

\* The entries before it stay.
Callback ==
    /\ ~Idle
    /\ \E i \in Finalizable :
          /\ \A j \in Finalizable : i <= j
          /\ result' = <<entries[i].key, entries[i].value>>
          /\ entries' = Buried(i)
          /\ entry' = i + 1
    /\ deleted' = deleted + 1
    /\ UNCHANGED <<mask, used, doomed>>

Finish ==
    /\ ~Idle
    /\ Finalizable = {}
    /\ ClearTombstones(entries, deleted)
    /\ entry' = NULL /\ doomed' = NULL
    /\ result' = NULL

Next ==
    \/ \E k \in KEYS, v \in VALUES :
          ReplaceValue(k, v) \/ InsertFree(k, v) \/ InsertDeleted(k, v)
    \/ \E k \in KEYS : Hash_delete(k)
    \/ DeleteIf \/ Callback \/ Finish

Spec == Init /\ [][Next]_vars
-----------------------------------------------------------------------------
(* Properties *)

ENTRY == {FREE} \cup [status : {"allocated", "deleted"}, key : KEYS, value : VALUES]

TypeOK ==
    /\ mask \in Nat /\ mask + 1 \in CAPACITIES
    /\ entries \in [0 .. mask -> ENTRY]
    /\ used \in 0 .. mask + 1 /\ deleted \in 0 .. used
    /\ entry \in 0 .. mask + 1 \cup {NULL}
    /\ doomed \in {NULL} \cup SUBSET KEYS
    /\ entry = NULL <=> doomed = NULL
    /\ result \in VALUES \cup {NULL} \cup (KEYS \X VALUES)

\* The counters that decide when the table is resized are exact: `used' counts
\* the entries that are not free, tombstones included, and `deleted' the
\* tombstones, after any mix of recycling, resizing and deletion.
CountsExact ==
    /\ used = Cardinality({i \in DOMAIN entries : entries[i].status # "free"})
    /\ deleted = Cardinality({i \in DOMAIN entries : entries[i].status = "deleted"})

\* A probe for any key, in the table or not, meets a free entry or the key:
\* the loops of the table, which have no other way out, end.
ProbesEnd ==
    \A k \in KEYS : /\ lookup(k) # NULL
                    /\ lookupForInsert(entries, k, mask + 1) # NULL

\* A key is stored once: "inserts key once" (test/hash_test.c:17).
KeysOnce ==
    \A i, j \in Allocated(entries) : entries[i].key = entries[j].key => i = j

\* Hash_search finds each key that is stored, in its entry, and no other: no
\* tombstone, of its own or of another key, and no entry moved by a resize
\* hides it.
StoredKeysFound ==
    /\ \A i \in Allocated(entries) : lookup(entries[i].key) = i
    /\ \A k \in KEYS \ Present : Hash_search(k) = NULL

\* The map of keys to values that a table stands for.
BindingsOf(t) ==
    [k \in {t[i].key : i \in Allocated(t)} |->
       t[CHOOSE i \in Allocated(t) : t[i].key = k].value]

\* The table does what the global allocator expects of it.
Table == INSTANCE FinalizerTable WITH finalizers <- BindingsOf(entries)

\* Registering, deleting and finalizing have the effect they have on a map,
\* return its values, and every unreachable object's callback is called once.
ImplementsTable == Table!Spec
=============================================================================
