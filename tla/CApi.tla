-------------------------------- MODULE CApi --------------------------------
(***************************************************************************)
(* The C interface of LevelDB: handles a client creates and destroys in    *)
(* any order the header allows, what each of them allocates, borrows and   *)
(* gives back, and the error message that calls leave in *errptr.          *)
(*                                                                         *)
(* The heap maps a cell to [owns, refs, data]: the cells deleted with it,  *)
(* the cells it points to by role, and what the calls make of it.          *)
(***************************************************************************)
EXTENDS Integers, Sequences, FiniteSets, FiniteSetsExt, SequencesExt, TLC

CONSTANTS
    StoreKeys,      \* keys of the database
    MaxHandles,     \* bound: handles a client holds at once
    MaxBatch        \* bound: operations in a batch

VARIABLES
    heap,       \* cell -> [owns, refs, data]
    held,       \* the cells the client holds
    errptr,     \* the message in *errptr, or NoError
    disk,       \* the files of the database: [exists, keys, moved]
    misused     \* whether a call touched a cell that was freed

capiVars == <<heap, held, errptr, disk, misused>>

NoError == <<"none", 0>>
\* moved: have the files been repaired, and so moved, under an open database?
NoDatabase == [exists |-> FALSE, keys |-> {}, moved |-> FALSE]
DefaultEnv == <<"default_env", 0>>

-----------------------------------------------------------------------------
(* Cells *)

Cell(owns, refs, data) == [owns |-> owns, refs |-> refs, data |-> data]
NoRefs == [role \in {} |-> NoError]
Plain == Cell({}, NoRefs, {})
Fresh(h, kind) == <<kind, Min({n \in 1 .. MaxHandles + 1 : <<kind, n>> \notin DOMAIN h})>>

Owned(h, c) == LET near(S) == S \cup UNION {h[d].owns : d \in S \cap DOMAIN h} IN near(near({c}))
Freed(h, cells) == [c \in DOMAIN h \ cells |-> h[c]]
Pointed(h, c) == {h[c].refs[role] : role \in DOMAIN h[c].refs} \ {NoError}

HeldOf(kind) == {c \in held : c[1] = kind}
Uses(cells) == misused' = (misused \/ ~(cells \subseteq DOMAIN heap))
HasRoomForOne == Cardinality(held) < MaxHandles

\* new and delete, of a handle and of what it owns.
Created(kind, cell, inner) ==
    LET c == Fresh(heap, kind)
        own == {Fresh(heap, k) : k \in DOMAIN inner}
    IN /\ HasRoomForOne
       /\ heap' = c :> [cell EXCEPT !.owns = @ \cup own] @@ [o \in own |-> inner[o[1]]] @@ heap
       /\ held' = held \cup {c}
Destroyed(c) ==
    /\ heap' = Freed(heap, Owned(heap, c)) /\ held' = held \ {c}
    /\ Uses({c})
    /\ UNCHANGED <<errptr, disk>>

-----------------------------------------------------------------------------
(* Errors and results *)

\* Mutant: the message of an earlier failure is forgotten.
SaveErrorOver(h) ==
    LET message == Fresh(h, "error")
    IN /\ heap' = message :> Plain @@ h /\ errptr' = message

\* SaveError, of a call that failed: the message of an earlier one is freed.
SaveError(h) ==
    LET before == Freed(h, {errptr})
        message == Fresh(before, "error")
    IN /\ heap' = message :> Plain @@ before
       /\ errptr' = message
NoErrorSaved(h) == heap' = h /\ UNCHANGED errptr
MayFail(h) == SaveError(heap) \/ NoErrorSaved(h)

\* leveldb_free, of a message or of a value.
FreeMessage ==
    /\ errptr # NoError /\ errptr' = NoError
    /\ heap' = Freed(heap, {errptr}) /\ Uses({errptr}) /\ UNCHANGED <<held, disk>>
FreeValue(c) == c \in HeldOf("value") /\ Destroyed(c)

-----------------------------------------------------------------------------
(* Options and what they point to *)

\* Options(): the default environment, everything else by default.
leveldb_options_create ==
    /\ HeldOf("options") = {}
    /\ Created("options", Cell({}, "env" :> DefaultEnv, {}), NoRefs) /\ UNCHANGED <<errptr, disk, misused>>
SimpleCreate(kind) ==
    /\ HeldOf(kind) = {} /\ Created(kind, Plain, NoRefs) /\ UNCHANGED <<errptr, disk, misused>>

\* A comparator and a filter policy end with the client's state, the Bloom filter
\* with the policy it wraps, a cache with the cache.
leveldb_comparator_create ==
    /\ HeldOf("comparator") = {} /\ Created("comparator", Plain, "state" :> Plain) /\ UNCHANGED <<errptr, disk, misused>>
leveldb_filterpolicy_create ==
    /\ HeldOf("filter_policy") = {} /\ Created("filter_policy", Plain, "filter_state" :> Plain) /\ UNCHANGED <<errptr, disk, misused>>
leveldb_filterpolicy_create_bloom ==
    /\ HeldOf("filter_policy") = {} /\ Created("filter_policy", Plain, "bloom" :> Plain) /\ UNCHANGED <<errptr, disk, misused>>
leveldb_cache_create_lru ==
    /\ HeldOf("cache") = {} /\ Created("cache", Plain, "lru" :> Plain) /\ UNCHANGED <<errptr, disk, misused>>

\* The default environment is not the wrapper's to delete.
leveldb_create_default_env ==
    /\ HeldOf("env") = {} /\ Created("env", Cell({}, "rep" :> DefaultEnv, {}), NoRefs) /\ UNCHANGED <<errptr, disk, misused>>

Roles == {"comparator", "filter_policy", "cache", "env"}
\* What is stored: a policy or comparator itself, of a cache or environment the rep.
Rep(role, c) ==
    CASE role = "cache" -> CHOOSE o \in heap[c].owns : TRUE
      [] role = "env" -> heap[c].refs["rep"]
      [] OTHER -> c
OptionsSet(o, role, c) ==
    /\ o \in HeldOf("options") /\ c \in HeldOf(role)
    /\ heap' = [heap EXCEPT ![o].refs = role :> Rep(role, c) @@ @]
    /\ Uses({o, c}) /\ UNCHANGED <<held, errptr, disk>>
Flags == {"create_if_missing", "error_if_exists"}
OptionsSetFlag(o, flag) ==
    /\ o \in HeldOf("options")
    /\ heap' = [heap EXCEPT ![o].data = IF flag \in @ THEN @ \ {flag} ELSE @ \cup {flag}]
    /\ Uses({o}) /\ UNCHANGED <<held, errptr, disk>>

\* What an open database or an option points to is not destroyed before it.
Borrowed(c) == \E d \in DOMAIN heap \ Owned(heap, c) : Pointed(heap, d) \cap Owned(heap, c) # {}
HandleDestroy(c) ==
    /\ c[1] \in {"options", "readoptions", "writeoptions", "writebatch", "comparator", "filter_policy", "cache", "env"}
    /\ ~Borrowed(c) /\ Destroyed(c)

-----------------------------------------------------------------------------
(* The database *)

IsOpen == HeldOf("db") # {}
RepOf(d) == CHOOSE r \in heap[d].owns : r[1] = "DBImpl"
Keys(d) == heap[RepOf(d)].data
Touched(d) == {d, RepOf(d)} \cup Pointed(heap, RepOf(d))

\* SanitizeOptions and the constructor: a cache and, if it can be made, a log of
\* its own where the options have none.
OpenRefuses(o) ==
    IF ~disk.exists THEN "create_if_missing" \notin heap[o].data ELSE "error_if_exists" \in heap[o].data
OpenedWith(o, hasLog) ==
    LET own == (IF "cache" \in DOMAIN heap[o].refs THEN {} ELSE {Fresh(heap, "own_cache")})
               \cup (IF hasLog THEN {Fresh(heap, "own_log")} ELSE {})
        rep == Fresh(heap, "DBImpl")
        d == Fresh(heap, "db")
        impl == Cell(own, heap[o].refs, disk.keys)
    IN /\ heap' = d :> Cell({rep}, NoRefs, {}) @@ rep :> impl @@ [c \in own |-> Plain] @@ heap
       /\ held' = held \cup {d}
       /\ disk' = [disk EXCEPT !.exists = TRUE, !.moved = FALSE]
leveldb_open(o) ==
    /\ o \in HeldOf("options") /\ HasRoomForOne /\ Uses({o} \cup Pointed(heap, o))
    /\ \/ SaveError(heap) /\ UNCHANGED <<held, disk>>
       \/ /\ ~IsOpen /\ ~OpenRefuses(o) /\ UNCHANGED errptr
          /\ \E hasLog \in BOOLEAN : OpenedWith(o, hasLog)
\* Iterators and snapshots go before the database.
leveldb_close(d) == d \in HeldOf("db") /\ ~Borrowed(d) /\ Destroyed(d)

\* A database whose files were moved writes to them, where no other opening looks.
StoreWith(d, keys) == [heap EXCEPT ![RepOf(d)].data = keys]
WriteCall(d, keys) ==
    /\ d \in HeldOf("db") /\ Uses(Touched(d)) /\ UNCHANGED held
    /\ \/ SaveError(heap) /\ UNCHANGED disk
       \/ /\ NoErrorSaved(StoreWith(d, keys))
          /\ disk' = [disk EXCEPT !.keys = keys] \/ (disk.moved /\ UNCHANGED disk)
leveldb_put(d, k) == WriteCall(d, Keys(d) \cup {k})
leveldb_delete(d, k) == WriteCall(d, Keys(d) \ {k})
Applied(keys, ops) ==
    FoldLeft(LAMBDA s, op : IF op[1] = "put" THEN s \cup {op[2]} ELSE s \ {op[2]}, keys, ops)
leveldb_write(d, b) == b \in HeldOf("writebatch") /\ WriteCall(d, Applied(Keys(d), heap[b].data))

\* What a read sees: the snapshot of its options, else the database.
View(d, r) == IF "snapshot" \in DOMAIN heap[r].refs THEN heap[heap[r].refs["snapshot"]].data ELSE Keys(d)
Reading(d, r) == /\ d \in HeldOf("db") /\ r \in HeldOf("readoptions")
                 /\ Uses(Touched(d) \cup {r} \cup Pointed(heap, r))
\* A copy of the value; nothing, and no error, when there is none.  Of a file that was
\* moved there may be less to read, or nothing.
leveldb_get(d, r, k) ==
    /\ Reading(d, r) /\ UNCHANGED disk
    /\ \/ SaveError(heap) /\ UNCHANGED held
       \/ (k \notin View(d, r) \/ disk.moved) /\ UNCHANGED <<heap, held, errptr>>
       \/ (k \in View(d, r) \/ disk.moved) /\ Created("value", Plain, NoRefs) /\ UNCHANGED errptr

\* A copy that the client frees, if there is such a property.
leveldb_property_value(d) ==
    /\ d \in HeldOf("db") /\ Uses(Touched(d)) /\ UNCHANGED <<errptr, disk>>
    /\ Created("value", Plain, NoRefs) \/ UNCHANGED <<heap, held>>
leveldb_compact_range(d) ==
    /\ d \in HeldOf("db") /\ Uses(Touched(d)) /\ UNCHANGED <<heap, held, errptr, disk>>

leveldb_create_snapshot(d) ==
    /\ d \in HeldOf("db") /\ HeldOf("snapshot") = {} /\ HasRoomForOne /\ Uses(Touched(d))
    /\ LET s == Fresh(heap, "snapshot")
           rep == Fresh(heap, "SnapshotImpl")
       IN /\ heap' = s :> Cell({rep}, "db" :> RepOf(d), {}) @@ rep :> Cell({}, NoRefs, Keys(d)) @@ heap
          /\ held' = held \cup {s}
    /\ UNCHANGED <<errptr, disk>>
leveldb_readoptions_set_snapshot(r, s) ==
    /\ r \in HeldOf("readoptions") /\ s \in HeldOf("snapshot")
    /\ heap' = [heap EXCEPT ![r].refs = "snapshot" :> (CHOOSE o \in heap[s].owns : TRUE) @@ @]
    /\ Uses({r, s}) /\ UNCHANGED <<held, errptr, disk>>
ClearSnapshot(r) ==
    /\ r \in HeldOf("readoptions") /\ heap' = [heap EXCEPT ![r].refs = NoRefs]
    /\ Uses({r}) /\ UNCHANGED <<held, errptr, disk>>
leveldb_release_snapshot(s) == s \in HeldOf("snapshot") /\ ~Borrowed(s) /\ Destroyed(s)

-----------------------------------------------------------------------------
(* Iterators and batches *)

leveldb_create_iterator(d, r) ==
    /\ Reading(d, r) /\ HeldOf("iterator") = {} /\ HasRoomForOne
    /\ LET i == Fresh(heap, "iterator")
           rep == Fresh(heap, "DBIter")
       IN /\ heap' = i :> Cell({rep}, "db" :> RepOf(d), {}) @@ rep :> Cell({}, NoRefs, View(d, r)) @@ heap
          /\ held' = held \cup {i}
    /\ UNCHANGED <<errptr, disk>>
\* leveldb_iter_seek and the other moves leave an error for this.
leveldb_iter_get_error(i) ==
    /\ i \in HeldOf("iterator") /\ Uses(Owned(heap, i) \cup Pointed(heap, i))
    /\ MayFail(heap) /\ UNCHANGED <<held, disk>>
leveldb_iter_destroy(i) == i \in HeldOf("iterator") /\ Destroyed(i)

leveldb_writebatch_add(b, op, k) ==
    /\ b \in HeldOf("writebatch") /\ Len(heap[b].data) < MaxBatch
    /\ heap' = [heap EXCEPT ![b].data = Append(@, <<op, k>>)]
    /\ Uses({b}) /\ UNCHANGED <<held, errptr, disk>>
leveldb_writebatch_create ==
    /\ HeldOf("writebatch") = {} /\ Created("writebatch", Cell({}, NoRefs, <<>>), NoRefs) /\ UNCHANGED <<errptr, disk, misused>>
leveldb_writebatch_clear(b) ==
    /\ b \in HeldOf("writebatch") /\ heap' = [heap EXCEPT ![b].data = <<>>]
    /\ Uses({b}) /\ UNCHANGED <<held, errptr, disk>>

\* Whole databases.  DestroyDB takes the lock that an open one holds.  RepairDB takes
\* none: it succeeds on an open database, too, whose files it moves, and where there was
\* no database it leaves an empty one (SanitizeOptions makes the directory).  What it
\* keeps of the data may be less, or older; it may fail when some of that is done.
leveldb_destroy_db(o) ==
    /\ o \in HeldOf("options") /\ Uses({o} \cup Pointed(heap, o)) /\ UNCHANGED held
    /\ \/ SaveError(heap) /\ UNCHANGED disk
       \/ ~IsOpen /\ NoErrorSaved(heap) /\ disk' = NoDatabase
Repaired == \E keys \in SUBSET StoreKeys :
    /\ disk.exists \/ keys = {}
    /\ disk' = [exists |-> TRUE, keys |-> keys, moved |-> IsOpen]
leveldb_repair_db(o) ==
    /\ o \in HeldOf("options") /\ Uses({o} \cup Pointed(heap, o)) /\ UNCHANGED held
    /\ \/ SaveError(heap) /\ ((disk.exists /\ Repaired) \/ UNCHANGED disk)
       \/ NoErrorSaved(heap) /\ Repaired

CApiInit ==
    /\ heap = DefaultEnv :> Plain /\ held = {} /\ errptr = NoError
    /\ disk = NoDatabase /\ misused = FALSE

CApiNext ==
    \/ FreeMessage
    \/ leveldb_options_create \/ leveldb_comparator_create \/ leveldb_cache_create_lru \/ leveldb_create_default_env
    \/ leveldb_filterpolicy_create \/ leveldb_filterpolicy_create_bloom \/ leveldb_writebatch_create
    \/ SimpleCreate("readoptions") \/ SimpleCreate("writeoptions")
    \/ \E c \in held :
          \/ FreeValue(c) \/ HandleDestroy(c)
          \/ leveldb_close(c) \/ leveldb_release_snapshot(c) \/ leveldb_iter_destroy(c)
          \/ leveldb_open(c) \/ leveldb_destroy_db(c) \/ leveldb_repair_db(c)
          \/ leveldb_property_value(c) \/ leveldb_compact_range(c)
          \/ leveldb_create_snapshot(c) \/ ClearSnapshot(c)
          \/ leveldb_iter_get_error(c) \/ leveldb_writebatch_clear(c)
          \/ \E flag \in Flags : OptionsSetFlag(c, flag)
          \/ \E k \in StoreKeys : leveldb_put(c, k) \/ leveldb_delete(c, k)
          \/ \E k \in StoreKeys, op \in {"put", "delete"} : leveldb_writebatch_add(c, op, k)
          \/ \E d \in held :
                \/ leveldb_create_iterator(c, d) \/ leveldb_readoptions_set_snapshot(c, d) \/ leveldb_write(c, d)
                \/ \E role \in Roles : OptionsSet(c, role, d)
                \/ \E k \in StoreKeys : leveldb_get(c, d, k)

CApiSpec == CApiInit /\ [][CApiNext]_capiVars

-----------------------------------------------------------------------------
(* Properties *)

\* Whatever order handles are created and destroyed in, and whichever calls fail,
\* no call touches what was freed, the default environment survives, and all that
\* is allocated belongs to one handle or is the one message in *errptr: nothing
\* leaks (SaveError, leveldb_open, leveldb_close, the create and destroy functions).
HandlesOwnTheirCells ==
    LET owners(c) == {h \in held : c \in Owned(heap, h)}
    IN /\ ~misused /\ DefaultEnv \in DOMAIN heap
       /\ held \subseteq DOMAIN heap
       /\ errptr # NoError => errptr \in DOMAIN heap
       /\ \A c \in DOMAIN heap \ {DefaultEnv, errptr} : Cardinality(owners(c)) = 1
=============================================================================
