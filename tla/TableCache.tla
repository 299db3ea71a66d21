------------------------------ MODULE TableCache -----------------------------
(***************************************************************************)
(* LevelDB's sharded LRU cache and the cache of open tables on top of it:  *)
(* threads look a table up, open it when it is not there, use it by a      *)
(* handle and release it, while others push it out or evict it.            *)
(*                                                                         *)
(* Handles are numbered; hash tables are sequences of buckets.             *)
(***************************************************************************)
EXTENDS Integers, Sequences, FiniteSets, FiniteSetsExt, SequencesExt, Functions

CONSTANTS
    CacheKeys,       \* numbers of table files
    Hash,            \* their hash: the low bits choose the bucket, the high the shard
    HashRange,       \* hashes are below this
    Charge,          \* what each counts for
    Capacity,        \* of the whole cache
    kNumShards,
    FirstLength,     \* buckets of a new hash table
    CacheThreads,
    MaxCalls         \* bound: operations of all threads

ASSUME TableCacheAssumption ==
    /\ {kNumShards, FirstLength, HashRange} \subseteq Nat \ {0} /\ {Capacity, MaxCalls} \subseteq Nat
    /\ Hash \in [CacheKeys -> 0 .. HashRange - 1] /\ Charge \in [CacheKeys -> Nat]

VARIABLES
    shards,      \* LRUCache, for each shard
    handles,     \* LRUHandle, by number: [key, charge, refs, in_cache]
    freed,       \* history variable: the handles whose deleter was called
    users,       \* for each thread, the call in progress and the handle it holds
    onDisk,      \* the table files that exist
    calls

cacheVars == <<shards, handles, freed, users, onDisk, calls>>

Shard(key) == (Hash[key] * kNumShards) \div HashRange
PerShard == (Capacity + kNumShards - 1) \div kNumShards
NoHandle == 0
NoUser == [pc |-> "idle", key |-> 0, handle |-> NoHandle]

\* A shard, an LRUCache: what it charges, its two lists and its hash table.
EmptyShard == [usage |-> 0, lru |-> <<>>, in_use |-> {}, elems |-> 0,
               buckets |-> [b \in 0 .. FirstLength - 1 |-> <<>>]]

CacheInit ==
    /\ shards = [s \in 0 .. kNumShards - 1 |-> EmptyShard]
    /\ handles = <<>> /\ freed = {}
    /\ users = [t \in CacheThreads |-> NoUser]
    /\ onDisk = CacheKeys /\ calls = 0

-----------------------------------------------------------------------------
(* HandleTable.  hs are the handles. *)

Bucket(buckets, key) == Hash[key] % Cardinality(DOMAIN buckets)
Slot(buckets, hs, key) ==
    LET chain == buckets[Bucket(buckets, key)]
    IN {i \in DOMAIN chain : hs[chain[i]].key = key}
TableLookup(buckets, hs, key) == {buckets[Bucket(buckets, key)][i] : i \in Slot(buckets, hs, key)}

\* Every chain is walked, and each of its handles put at the head of a new one.
Resize(buckets, hs, elems) ==
    LET lengths == {FirstLength * 2 ^ n : n \in 0 .. elems}
        length == Min({l \in lengths : l >= elems})
        all == FlattenSeq([i \in 1 .. Cardinality(DOMAIN buckets) |-> buckets[i - 1]])
    IN [b \in 0 .. length - 1 |-> Reverse(SelectSeq(all, LAMBDA h : Hash[hs[h].key] % length = b))]

\* The handle takes the slot of the one with its key, or goes to the end.
TableInsert(sh, hs, h) ==
    LET key == hs[h].key
        slot == Slot(sh.buckets, hs, key)
        elems == IF slot = {} THEN sh.elems + 1 ELSE sh.elems
        buckets == [sh.buckets EXCEPT ![Bucket(sh.buckets, key)] =
                     IF slot = {} THEN Append(@, h) ELSE [@ EXCEPT ![Min(slot)] = h]]
    IN [sh EXCEPT !.elems = elems,
           !.buckets = IF slot = {} /\ elems > Cardinality(DOMAIN buckets)
                     THEN Resize(buckets, hs, elems) ELSE buckets]

TableRemove(sh, hs, key) ==
    LET slot == Slot(sh.buckets, hs, key)
    IN IF slot = {} THEN sh
       ELSE [sh EXCEPT !.elems = @ - 1,
                       !.buckets[Bucket(sh.buckets, key)] = RemoveAt(@, Min(slot))]

-----------------------------------------------------------------------------
(* LRUCache.  An operation maps the state of a cache, c, to its next: the       *)
(* handles, the shard, and the handles that are freed.                         *)

\* A handle on the lru_ list moves to in_use_.
Ref(c, h) ==
    LET d == [c EXCEPT !.handles[h].refs = @ + 1]
    IN IF c.handles[h].refs = 1 /\ c.handles[h].in_cache
       THEN [d EXCEPT !.shard.lru = SelectSeq(@, LAMBDA g : g # h), !.shard.in_use = @ \cup {h}]
       ELSE d

\* The deleter of a table closes it and its file.
DeleteEntry(c, h) == [c EXCEPT !.freed = @ \cup {h}]

\* The last reference frees it; the cache's own puts it at the end of lru_.
Unref(c, h) ==
    LET d == [c EXCEPT !.handles[h].refs = @ - 1]
    IN IF d.handles[h].refs = 0 THEN DeleteEntry(d, h)
       ELSE IF d.handles[h].in_cache /\ d.handles[h].refs = 1
       THEN [d EXCEPT !.shard.in_use = @ \ {h}, !.shard.lru = Append(@, h)]
       ELSE d

\* Mutant: what leaves the cache is freed at once.
FinishEraseFreeing(c, h) ==
    [c EXCEPT !.shard.lru = SelectSeq(@, LAMBDA g : g # h),
              !.shard.in_use = @ \ {h},
              !.shard.usage = @ - c.handles[h].charge,
              !.handles[h].in_cache = FALSE,
              !.handles[h].refs = @ - 1,
              !.freed = @ \cup {h}]

\* FinishErase, for a handle that was in the hash table.
FinishErase(c, h) ==
    Unref([c EXCEPT !.shard.lru = SelectSeq(@, LAMBDA g : g # h),
                    !.shard.in_use = @ \ {h},
                    !.shard.usage = @ - c.handles[h].charge,
                    !.handles[h].in_cache = FALSE], h)

EraseKey(c, key) ==
    LET found == TableLookup(c.shard.buckets, c.handles, key)
        removed == [c EXCEPT !.shard = TableRemove(c.shard, c.handles, key)]
    IN IF found = {} THEN c ELSE FinishErase(removed, CHOOSE h \in found : TRUE)

\* The oldest of lru_ go as long as there is too much.
Shrunk(c, capacity) ==
    LET n == Len(c.shard.lru)
        gone[k \in 0 .. n] ==
            IF k = 0 THEN c
            ELSE LET d == gone[k - 1]
                 IN IF d.shard.usage > capacity THEN EraseKey(d, d.handles[d.shard.lru[1]].key) ELSE d
    IN gone[n]

\* A handle is referred to by the caller, and by the cache when it is kept.
NewHandle(key, cached) ==
    [key |-> key, charge |-> Charge[key], refs |-> IF cached THEN 2 ELSE 1, in_cache |-> cached]

CacheInsert(c, key) ==
    LET h == Len(c.handles) + 1
        cached == PerShard > 0
        made == [c EXCEPT !.handles = Append(@, NewHandle(key, cached))]
        old == TableLookup(c.shard.buckets, c.handles, key)
        added == [made EXCEPT !.shard = [TableInsert(c.shard, made.handles, h) EXCEPT
                                            !.in_use = @ \cup {h}, !.usage = @ + Charge[key]]]
        replaced == IF old = {} THEN added ELSE FinishErase(added, CHOOSE o \in old : TRUE)
    IN Shrunk(IF cached THEN replaced ELSE made, PerShard)

CacheOf(key) == [handles |-> handles, shard |-> shards[Shard(key)], freed |-> freed]
Becomes(key, c) ==
    /\ handles' = c.handles /\ freed' = c.freed
    /\ shards' = [shards EXCEPT ![Shard(key)] = c.shard]

-----------------------------------------------------------------------------
(* TableCache *)

Call == calls < MaxCalls /\ calls' = calls + 1

\* FindTable: a table that is there is referred to; one that is not is opened
\* without the cache's mutex.
FindTable(t, key) ==
    /\ users[t].pc = "idle" /\ Call
    /\ LET found == TableLookup(shards[Shard(key)].buckets, handles, key)
       IN IF found # {}
          THEN \E h \in found :
                   /\ Becomes(key, Ref(CacheOf(key), h))
                   /\ users' = [users EXCEPT ![t] = [pc |-> "using", key |-> key, handle |-> h]]
          ELSE /\ users' = [users EXCEPT ![t] = [pc |-> "opening", key |-> key, handle |-> NoHandle]]
               /\ UNCHANGED <<shards, handles, freed>>
    /\ UNCHANGED onDisk

\* An open that fails is not cached.
OpenTable(t) ==
    /\ users[t].pc = "opening"
    /\ users' = [users EXCEPT ![t] = IF @.key \in onDisk THEN [@ EXCEPT !.pc = "opened"] ELSE NoUser]
    /\ UNCHANGED <<shards, handles, freed, onDisk, calls>>

InsertTable(t) ==
    /\ users[t].pc = "opened"
    /\ LET key == users[t].key
       IN /\ Becomes(key, CacheInsert(CacheOf(key), key))
          /\ users' = [users EXCEPT ![t].pc = "using", ![t].handle = Len(handles) + 1]
    /\ UNCHANGED <<onDisk, calls>>

\* The end of Get, or UnrefEntry at the end of an iterator.
Release(t) ==
    /\ users[t].pc = "using"
    /\ Becomes(users[t].key, Unref(CacheOf(users[t].key), users[t].handle))
    /\ users' = [users EXCEPT ![t] = NoUser]
    /\ UNCHANGED <<onDisk, calls>>

\* DeleteObsoleteFiles: the table is evicted, then its file deleted.
Evict(key) ==
    /\ key \in onDisk /\ Call
    /\ Becomes(key, EraseKey(CacheOf(key), key))
    /\ onDisk' = onDisk \ {key}
    /\ UNCHANGED users

\* What nobody uses goes, shard after shard.
Prune(s) ==
    /\ shards[s].lru # <<>> /\ Call
    /\ LET c == Shrunk([handles |-> handles, shard |-> shards[s], freed |-> freed], -1)
       IN handles' = c.handles /\ freed' = c.freed /\ shards' = [shards EXCEPT ![s] = c.shard]
    /\ UNCHANGED <<users, onDisk>>

CacheNext ==
    \/ \E t \in CacheThreads : \/ \E key \in CacheKeys : FindTable(t, key)
                               \/ OpenTable(t) \/ InsertTable(t) \/ Release(t)
    \/ \E key \in CacheKeys : Evict(key)
    \/ \E s \in DOMAIN shards : Prune(s)

CacheSpec == CacheInit /\ [][CacheNext]_cacheVars

-----------------------------------------------------------------------------
(* Properties *)

\* A table is never closed while a thread uses it, whoever evicts, replaces or
\* pushes it out meanwhile; it is closed once nobody uses it and the cache has
\* let it go (refs of LRUHandle).
TablesInUseStayOpen ==
    /\ \A t \in CacheThreads : users[t].handle # NoHandle =>
           users[t].handle \notin freed /\ handles[users[t].handle].key = users[t].key
    /\ \A h \in DOMAIN handles :
           /\ handles[h].refs = Cardinality({t \in CacheThreads : users[t].handle = h})
                                + (IF handles[h].in_cache THEN 1 ELSE 0)
           /\ h \in freed <=> handles[h].refs = 0

\* The lists, the hash table and usage_ tell of the same handles: those in the
\* cache are on lru_ when nobody uses them and on in_use_ otherwise, can be
\* found by their key, at most one for a key, and usage_ is the sum of their
\* charges.
CacheIsConsistent ==
    \A s \in DOMAIN shards :
        LET cached == {h \in DOMAIN handles : handles[h].in_cache /\ Shard(handles[h].key) = s}
        IN /\ shards[s].usage = MapThenSumSet(LAMBDA h : handles[h].charge, cached)
           /\ shards[s].in_use = {h \in cached : handles[h].refs > 1}
           /\ ToSet(shards[s].lru) = cached \ shards[s].in_use
           /\ Len(shards[s].lru) = Cardinality(ToSet(shards[s].lru))
           /\ shards[s].elems = Cardinality(cached)
           /\ \A h \in cached : TableLookup(shards[s].buckets, handles, handles[h].key) = {h}

\* The reference counts, the lists and the hash table together keep open what is in use.
CacheKeepsItsTables == TablesInUseStayOpen /\ CacheIsConsistent
=============================================================================
