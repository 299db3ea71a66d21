------------------------------ MODULE MemTable -------------------------------
(***************************************************************************)
(* LevelDB's memtable: a skip list that one thread inserts into while      *)
(* others read it without a lock, in memory of an arena.                   *)
(*                                                                         *)
(* A node is known by its internal key, a pair of a user key and a         *)
(* sequence number.  Every store of a pointer and every turn of a search   *)
(* is a step of its own.  A store without a barrier is seen by the other   *)
(* threads later: at any time, at the latest with the next barrier.        *)
(***************************************************************************)
EXTENDS Integers, Sequences, FiniteSets, FiniteSetsExt

CONSTANTS
    UserKeys,
    MaxInserts,        \* bound: calls of Add
    kMaxHeight,
    MemReaders,
    EntrySize,         \* bytes of an entry, by its user key
    MaxSearches,       \* bound: searches of a reader
    ArenaBlock, ArenaAlign,
    NodeBytes          \* bytes of a node: this much for every level

ASSUME MemTableAssumption ==
    /\ UserKeys \subseteq Nat \ {0} /\ EntrySize \in [UserKeys -> Nat \ {0}]
    /\ {kMaxHeight, ArenaAlign, ArenaBlock, NodeBytes} \subseteq Nat \ {0}
    /\ ArenaBlock % ArenaAlign = 0 /\ MaxInserts \in Nat /\ MaxSearches \in Nat

VARIABLES
    nodes,          \* next_ of every node, by its key: a node for each level
    max_height,
    inserter,       \* the locals of Insert
    searches,       \* for each reader, its iterator and the search in progress
    arena           \* Arena, with what it has given out

memVars == <<nodes, max_height, inserter, searches, arena>>

head_ == <<0, 0>>
Nil  == <<-1, 0>>
Uninitialized == <<-2, 0>>
KeyLess(a, b) == a[1] < b[1] \/ (a[1] = b[1] /\ a[2] > b[2])
\* Mutant: a node with the key itself is passed, too.
IsAtOrAfterNode(key, n) == n # Nil /\ ~KeyLess(key, n)

\* NULL comes after every key.
IsAfterNode(key, n) == n # Nil /\ KeyLess(n, key)

\* A node is made with its pointers not yet set, at a height chosen at random.
NewNode(height) == [l \in 0 .. height - 1 |-> Uninitialized]
RandomHeight == 1 .. kMaxHeight
NotInserting == [pc |-> "idle", seq |-> 0, key |-> Nil, height |-> 0, level |-> 0, prev |-> <<>>,
                 unseen |-> {}]   \* stores no other thread sees yet: node, level, pointer
EmptyArena == [blocks |-> <<>>, ptr |-> <<0, 0>>, remaining |-> 0, given |-> {}]
NoSearch == [phase |-> "idle", op |-> "none", target |-> Nil, x |-> Nil, level |-> 0,
             present |-> {}, found |-> Nil, count |-> 0]

-----------------------------------------------------------------------------
(* Arena: an allocation is its block, its offset and its length *)

Give(a, block, offset, bytes, align) ==
    [a EXCEPT !.given = @ \cup {[block |-> block, offset |-> offset, bytes |-> bytes, align |-> align]}]

AllocateNewBlock(a, size) == [a EXCEPT !.blocks = Append(@, size)]

\* A large object gets a block of its own, and the current one stays in use.
\* (ptr is the number of the current block and an offset in it.)
AllocateFallback(a, bytes, align) ==
    LET block == Len(a.blocks) + 1
    IN IF bytes > ArenaBlock \div 4
       THEN Give(AllocateNewBlock(a, bytes), block, 0, bytes, align)
       ELSE Give([AllocateNewBlock(a, ArenaBlock) EXCEPT
                     !.ptr = <<block, bytes>>, !.remaining = ArenaBlock - bytes],
                 block, 0, bytes, align)

TakeFrom(a, slop, bytes, align) ==
    Give([a EXCEPT !.ptr = <<@[1], @[2] + slop + bytes>>, !.remaining = @ - slop - bytes],
         a.ptr[1], a.ptr[2] + slop, bytes, align)

Allocate(a, bytes) ==
    IF bytes <= a.remaining THEN TakeFrom(a, 0, bytes, 1) ELSE AllocateFallback(a, bytes, 1)

\* new gives aligned memory: what counts is the offset.
Slop(a) ==
    LET current_mod == a.ptr[2] % ArenaAlign
    IN IF current_mod = 0 THEN 0 ELSE ArenaAlign - current_mod

\* Mutant: the slop is not taken off what remains.
AllocateTight(a, bytes) ==
    IF bytes + Slop(a) <= a.remaining
    THEN [TakeFrom(a, Slop(a), bytes, ArenaAlign) EXCEPT !.remaining = @ + Slop(a)]
    ELSE AllocateFallback(a, bytes, ArenaAlign)

AllocateAligned(a, bytes) ==
    IF bytes + Slop(a) <= a.remaining THEN TakeFrom(a, Slop(a), bytes, ArenaAlign)
    ELSE AllocateFallback(a, bytes, ArenaAlign)

\* head_ is the first node the arena gives out.
MemInit ==
    /\ nodes = [n \in {head_} |-> [l \in 0 .. kMaxHeight - 1 |-> Nil]]
    /\ max_height = 1
    /\ inserter = NotInserting
    /\ searches = [r \in MemReaders |-> NoSearch]
    /\ arena = AllocateAligned(EmptyArena, NodeBytes * kMaxHeight)

-----------------------------------------------------------------------------
(* AtomicPointer *)

Seen(ns, store) == [ns EXCEPT ![store[1]][store[2]] = store[3]]

\* Every store before the barrier is seen.
MemoryBarrier ==
    [n \in DOMAIN nodes |-> [l \in DOMAIN nodes[n] |->
        LET late == {store \in inserter.unseen : store[1] = n /\ store[2] = l}
        IN IF late = {} THEN nodes[n][l] ELSE (CHOOSE store \in late : TRUE)[3]]]

NoBarrier_Store(n, l, p) == inserter.unseen \cup {<<n, l, p>>}

\* Mutant: the release does not wait for the stores before it.
NoBarrier_Release(n, l, p) == Seen(nodes, <<n, l, p>>)

Release_Store(n, l, p) == Seen(MemoryBarrier, <<n, l, p>>)

\* The processor lets a store be seen.
StoreIsSeen ==
    /\ \E store \in inserter.unseen :
          /\ nodes' = Seen(nodes, store)
          /\ inserter' = [inserter EXCEPT !.unseen = @ \ {store}]
    /\ UNCHANGED <<max_height, searches, arena>>

-----------------------------------------------------------------------------
(* Inserting *)

\* The last node before the key on a level, as FindGreaterOrEqual leaves it.
Linked(l) == {n \in DOMAIN nodes : \E m \in DOMAIN nodes : l \in DOMAIN nodes[m] /\ nodes[m][l] = n}
PrevOn(key, l) ==
    LET before == {n \in Linked(l) : KeyLess(n, key)}
    IN IF before = {} THEN head_ ELSE CHOOSE n \in before : \A m \in before \ {n} : KeyLess(m, n)

\* Add: the entry is encoded, its place and its height are found, and
\* max_height_ is raised, which readers may see at once or late.
MemAdd(k, height) ==
    /\ inserter.pc = "idle" /\ inserter.seq < MaxInserts
    /\ LET key == <<k, inserter.seq + 1>>
       IN /\ inserter' = [pc |-> "link", seq |-> inserter.seq + 1, key |-> key, height |-> height, level |-> 0,
                          prev |-> [l \in 0 .. height - 1 |-> PrevOn(key, l)], unseen |-> {}]
          /\ nodes' = [n \in DOMAIN nodes \cup {key} |->
                          IF n = key THEN NewNode(height) ELSE nodes[n]]
    /\ max_height' = Max({max_height, height})
    /\ arena' = AllocateAligned(Allocate(arena, EntrySize[k]), NodeBytes * height)
    /\ UNCHANGED searches

\* NoBarrier_SetNext: the node's own pointer first.
SetOwnNext ==
    /\ inserter.pc = "link"
    /\ inserter' = [inserter EXCEPT !.pc = "publish",
                        !.unseen = NoBarrier_Store(inserter.key, inserter.level,
                                       nodes[inserter.prev[inserter.level]][inserter.level])]
    /\ UNCHANGED <<nodes, max_height, searches, arena>>

\* SetNext: the node is published on this level.
Publish ==
    /\ inserter.pc = "publish"
    /\ nodes' = Release_Store(inserter.prev[inserter.level], inserter.level, inserter.key)
    /\ inserter' = [inserter EXCEPT !.level = @ + 1, !.unseen = {},
                                    !.pc = IF inserter.level + 1 < inserter.height THEN "link" ELSE "idle"]
    /\ UNCHANGED <<max_height, searches, arena>>

-----------------------------------------------------------------------------
(* Reading: Seek and Get look for the first node at or after a key, Prev for   *)
(* the last before the position, SeekToLast for the last.                      *)

\* Entries that are inserted: a reader's sequence number is that of the last.
Inserted == {n \in DOMAIN nodes \ {head_} : inserter.pc = "idle" \/ n # inserter.key}

\* A reader may see a max_height_ that is old.
BeginSearch(r, op, target) ==
    /\ searches[r].phase = "idle" /\ searches[r].count < MaxSearches
    /\ \E height \in 1 .. max_height :
           searches' = [searches EXCEPT ![r] =
               [@ EXCEPT !.phase = "searching", !.op = op, !.target = target, !.x = head_,
                         !.level = height - 1, !.present = Inserted, !.count = searches[r].count + 1]]
    /\ UNCHANGED <<nodes, max_height, inserter, arena>>

Passes(s, next) ==
    IF s.op = "last" THEN next # Nil ELSE IsAfterNode(s.target, next)

\* One turn of the loop of FindGreaterOrEqual, FindLessThan or FindLast.
SearchStep(r) ==
    /\ searches[r].phase = "searching"
    /\ LET s == searches[r]
           next == nodes[s.x][s.level]
       IN searches' = [searches EXCEPT ![r] =
              IF Passes(s, next) THEN [s EXCEPT !.x = next]
              ELSE IF s.level > 0 THEN [s EXCEPT !.level = @ - 1]
              ELSE [s EXCEPT !.phase = "found",
                             !.found = IF s.op = "seek" THEN next ELSE IF s.x = head_ THEN Nil ELSE s.x]]
    /\ UNCHANGED <<nodes, max_height, inserter, arena>>

\* Next and SeekToFirst follow one pointer of the lowest level.
StepNext(r, from) ==
    /\ searches[r].phase = "idle" /\ searches[r].count < MaxSearches
    /\ searches' = [searches EXCEPT ![r] = [@ EXCEPT !.phase = "found", !.op = "next", !.target = from,
                       !.present = Inserted, !.found = nodes[from][0], !.count = searches[r].count + 1]]
    /\ UNCHANGED <<nodes, max_height, inserter, arena>>

EndSearch(r) ==
    /\ searches[r].phase = "found"
    /\ searches' = [searches EXCEPT ![r] = [NoSearch EXCEPT !.found = searches[r].found,
                                                            !.count = searches[r].count]]
    /\ UNCHANGED <<nodes, max_height, inserter, arena>>

Position(r) == searches[r].found

MemNext ==
    \/ \E k \in UserKeys, height \in RandomHeight : MemAdd(k, height)
    \/ SetOwnNext \/ Publish \/ StoreIsSeen
    \/ \E r \in MemReaders :
          \/ \E k \in UserKeys, seq \in 0 .. Cardinality(Inserted) : BeginSearch(r, "seek", <<k, seq>>)
          \/ Position(r) # Nil /\ BeginSearch(r, "less", Position(r))
          \/ BeginSearch(r, "last", Nil)
          \/ Position(r) # Nil /\ StepNext(r, Position(r))
          \/ StepNext(r, head_)
          \/ SearchStep(r) \/ EndSearch(r)

MemSpec == MemInit /\ [][MemNext]_memVars

-----------------------------------------------------------------------------
(* Properties *)

\* Entries after one position and before another.
Between(entries, a, b) == {n \in entries : (a = head_ \/ KeyLess(a, n)) /\ (b = Nil \/ KeyLess(n, b))}

FindsTheNearest(s) ==
    /\ s.found \in (DOMAIN nodes \cup {Nil}) \ {head_}
    /\ s.op = "seek" =>
          LET newest == {n \in s.present : n[1] = s.target[1] /\ n[2] <= s.target[2]}
          IN /\ s.found # Nil => ~KeyLess(s.found, s.target)
             /\ s.target \notin s.present \/ s.found = s.target
             /\ Between(s.present, s.target, s.found) = {}
             /\ newest # {} => s.found = CHOOSE n \in newest : \A m \in newest : m[2] <= n[2]
    /\ s.op = "less" /\ s.found # Nil => KeyLess(s.found, s.target)
    /\ s.op \in {"less", "last"} =>
          Between(s.present, IF s.found = Nil THEN head_ ELSE s.found, s.target) = {}
    /\ s.op = "next" =>
          /\ s.found # Nil => s.target = head_ \/ KeyLess(s.target, s.found)
          /\ Between(s.present, s.target, s.found) = {}

\* While another thread inserts, a search finds an entry that is in the list, on
\* the right side of its target, and passes over none that was inserted when it
\* began (the guarantee in the comment of SkipList on concurrent readers).  So a
\* Get at a sequence number finds the newest entry of its user key up to it.
SearchesFindTheNearest == \A r \in MemReaders : searches[r].phase = "found" => FindsTheNearest(searches[r])

\* No reader comes to memory that is not initialized: not through a pointer that
\* is not set yet, nor to a level that a node does not have.
ReadersSeeInitializedNodes ==
    \A r \in MemReaders : searches[r].phase = "searching" =>
        /\ searches[r].level \in DOMAIN nodes[searches[r].x]
        /\ nodes[searches[r].x][searches[r].level] # Uninitialized

\* What the arena gives out lies in a block, is aligned for nodes, and never
\* overlaps what it gave out before.
ArenaGivesDisjointMemory ==
    /\ arena.remaining >= 0
    /\ \A g \in arena.given :
           /\ g.offset % g.align = 0 /\ g.offset + g.bytes <= arena.blocks[g.block]
           /\ \A h \in arena.given \ {g} :
                  g.block = h.block => g.offset + g.bytes <= h.offset \/ h.offset + h.bytes <= g.offset

\* A reader without a lock, while the writer inserts: it is led only through nodes
\* that are initialized and share no memory, and to the node it looks for (skiplist.h, "Thread safety").
ReadersNeedNoLock == ReadersSeeInitializedNodes /\ SearchesFindTheNearest /\ ArenaGivesDisjointMemory
=============================================================================
