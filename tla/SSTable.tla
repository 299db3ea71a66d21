------------------------------- MODULE SSTable -------------------------------
(***************************************************************************)
(* A sorted table file: TableBuilder writes blocks of keys that share      *)
(* prefixes, a filter, an index of shortened keys and a footer; Table      *)
(* opens the file and answers from it.                                     *)
(*                                                                         *)
(* A key is an internal key: the bytes of the user key, then the tag that  *)
(* holds the sequence number as one element; a larger tag sorts earlier.   *)
(* Positions in a file are byte offsets.  A block that cannot be read, or  *)
(* fails its checksum, is damaged.                                         *)
(***************************************************************************)
EXTENDS Integers, Sequences, FiniteSets, FiniteSetsExt, SequencesExt

CONSTANTS
    StoredKeys,             \* internal keys over the bytes 1 .. MaxByte
    MaxByte,                \* 0xff
    MaxTag,                 \* kMaxSequenceNumber with kValueTypeForSeek
    ValueSizes,
    MaxEntries,
    BlockSize,              \* options.block_size
    RestartInterval,        \* options.block_restart_interval
    FilterBase,             \* kFilterBase
    Probes, MinBits, Word,  \* the bloom filter: k_, its least size, 2^32
    BloomHash(_)

VARIABLES
    builder,      \* TableBuilder::Rep
    written,      \* the blocks of the file: [at, size, kind, block]
    damaged,      \* offsets of the blocks that cannot be read
    table         \* Table::Rep once opened

tableVars == <<builder, written, damaged, table>>

TagSize == 8
VarintsSize == 3
RestartSize == 4
TrailerSize == 5
HandleSize == 2

ExtractUserKey(key) == Front(key)
TagOf(key) == Last(key)
KeySize(key) == Len(key) - 1 + TagSize

CommonPrefix(a, b) ==
    Max({n \in 0 .. Min({Len(a), Len(b)}) : SubSeq(a, 1, n) = SubSeq(b, 1, n)})
BytesLess(a, b) ==
    LET n == CommonPrefix(a, b)
    IN n < Len(b) /\ (n < Len(a) => a[n + 1] < b[n + 1])
InternalLess(a, b) ==
    \/ BytesLess(ExtractUserKey(a), ExtractUserKey(b))
    \/ ExtractUserKey(a) = ExtractUserKey(b) /\ TagOf(a) > TagOf(b)

-----------------------------------------------------------------------------
(* Keys of the index: at least the last key of a block, before the first key of *)
(* the next block.                                                             *)

ShortestBytes(start, limit) ==
    LET n == CommonPrefix(start, limit)
    IN IF n >= Min({Len(start), Len(limit)}) THEN start
       ELSE IF start[n + 1] < MaxByte /\ start[n + 1] + 1 < limit[n + 1]
       THEN Append(SubSeq(start, 1, n), start[n + 1] + 1)
       ELSE start

SuccessorBytes(key) ==
    LET low == {i \in DOMAIN key : key[i] # MaxByte}
    IN IF low = {} THEN key ELSE Append(SubSeq(key, 1, Min(low) - 1), key[Min(low)] + 1)

\* Only a key that became shorter, and larger, gets the earliest tag.
Shortened(start, bytes) ==
    IF Len(bytes) < Len(ExtractUserKey(start)) /\ BytesLess(ExtractUserKey(start), bytes)
    THEN Append(bytes, MaxTag) ELSE start
FindShortestSeparator(start, limit) ==
    Shortened(start, ShortestBytes(ExtractUserKey(start), ExtractUserKey(limit)))
FindShortSuccessor(key) == Shortened(key, SuccessorBytes(ExtractUserKey(key)))

-----------------------------------------------------------------------------
(* BlockBuilder.  A block: its entries with their offsets, its restart points. *)

EmptyBlock == [entries |-> <<>>, restarts |-> <<0>>, counter |-> 0, last_key |-> <<>>, size |-> 0]

CurrentSizeEstimate(b) == b.size + (Len(b.restarts) + 1) * RestartSize

BlockAdd(b, interval, key, value) ==
    LET restart == b.counter >= interval
        shared == IF restart THEN 0 ELSE CommonPrefix(b.last_key, key)
        size == VarintsSize + KeySize(key) - shared + value.size
    IN [b EXCEPT !.entries = Append(@, [at |-> b.size, size |-> size, shared |-> shared,
                                        delta |-> SubSeq(key, shared + 1, Len(key)), value |-> value]),
                 !.restarts = IF restart THEN Append(@, b.size) ELSE @,
                 !.counter = IF restart THEN 1 ELSE @ + 1,
                 !.last_key = key, !.size = @ + size]

-----------------------------------------------------------------------------
(* Block::Iter: [current, next, restart, key, value, corrupt]; it is valid     *)
(* while current is before the restart points.                                 *)

RestartPoint(b, i) == b.restarts[i + 1]
LastRestart(b) == Len(b.restarts) - 1
EntryAt(b, offset) == CHOOSE e \in ToSet(b.entries) : e.at = offset
BlockValid(b, it) == it.current < b.size

PastTheEnd(b, it) == [it EXCEPT !.current = b.size, !.restart = Len(b.restarts)]
CorruptionError(b, it) == [PastTheEnd(b, it) EXCEPT !.key = <<>>, !.corrupt = TRUE]
SeekToRestartPoint(b, it, i) == [it EXCEPT !.key = <<>>, !.restart = i, !.next = RestartPoint(b, i)]
BlockIter(b) ==
    [current |-> b.size, next |-> 0, restart |-> Len(b.restarts), key |-> <<>>, value |-> 0,
     corrupt |-> FALSE]

ParseNextKey(b, it) ==
    IF it.next >= b.size THEN PastTheEnd(b, it)
    ELSE LET e == EntryAt(b, it.next)
             started == {i \in it.restart .. LastRestart(b) : i = it.restart \/ RestartPoint(b, i) < it.next}
         IN IF Len(it.key) < e.shared THEN CorruptionError(b, it)
            ELSE [it EXCEPT !.current = e.at, !.next = e.at + e.size, !.restart = Max(started),
                            !.key = SubSeq(@, 1, e.shared) \o e.delta, !.value = e.value]

\* The positions ParseNextKey reaches; a scan stops at the first that is enough.
RECURSIVE Trail(_, _)
Trail(b, it) == IF BlockValid(b, it) THEN <<it>> \o Trail(b, ParseNextKey(b, it)) ELSE <<it>>
TrailFrom(b, it, i) == Trail(b, ParseNextKey(b, SeekToRestartPoint(b, it, i)))
FirstOf(trail, enough) == trail[Min(enough \cup {Len(trail)})]
Reaching(trail, offset) == FirstOf(trail, {i \in DOMAIN trail : trail[i].next >= offset})
NotBefore(trail, key) == FirstOf(trail, {i \in DOMAIN trail : ~InternalLess(trail[i].key, key)})

BlockSeekToFirst(b, it) == ParseNextKey(b, SeekToRestartPoint(b, it, 0))
BlockSeekToLast(b, it) == Reaching(TrailFrom(b, it, LastRestart(b)), b.size)
BlockNext(b, it) == ParseNextKey(b, it)
BlockPrev(b, it) ==
    LET before == {i \in 0 .. it.restart : RestartPoint(b, i) < it.current}
    IN IF before = {} THEN PastTheEnd(b, it)
       ELSE Reaching(TrailFrom(b, it, Max(before)), it.current)

\* Binary search among the restart points, then a scan; -1 for a corrupt block.
RECURSIVE BinarySearch(_, _, _, _)
BinarySearch(b, target, left, right) ==
    IF left >= right THEN left
    ELSE LET mid == (left + right + 1) \div 2
             e == EntryAt(b, RestartPoint(b, mid))
         IN IF e.shared # 0 THEN -1
            ELSE IF InternalLess(e.delta, target) THEN BinarySearch(b, target, mid, right)
            ELSE BinarySearch(b, target, left, mid - 1)
BlockSeek(b, it, target) ==
    LET left == BinarySearch(b, target, 0, LastRestart(b))
    IN IF left = -1 THEN CorruptionError(b, it)
       ELSE NotBefore(TrailFrom(b, it, left), target)

-----------------------------------------------------------------------------
(* The filter block, with the bloom filter of each range of FilterBase bytes   *)

Rotated(h) == (h \div 8) + (h % 8) * (Word \div 8)
BloomBits(n) == Max({MinBits, 8 * ((n * Probes + 7) \div 8)})
BitsOf(key, bits) ==
    {((BloomHash(key) + j * Rotated(BloomHash(key))) % Word) % bits : j \in 0 .. Probes - 1}

NoFilters == [keys |-> <<>>, filters |-> <<>>]
FilterAddKey(f, key) == [f EXCEPT !.keys = Append(@, key)]
CreateFilter(keys) ==
    [bits |-> BloomBits(Len(keys)), set |-> UNION {BitsOf(k, BloomBits(Len(keys))) : k \in ToSet(keys)}]
KeyMayBeIn(filter, key) == BitsOf(key, filter.bits) \subseteq filter.set

\* InternalFilterPolicy: the filter is made, and asked, without the keys' tags.
InternalCreateFilter(keys) == CreateFilter([i \in DOMAIN keys |-> ExtractUserKey(keys[i])])
InternalKeyMayMatch(filter, key) == KeyMayBeIn(filter, ExtractUserKey(key))

NoBits == [bits |-> 0, set |-> {}]
GenerateFilter(f) ==
    [keys |-> <<>>, filters |-> Append(f.filters, IF f.keys = <<>> THEN NoBits
                                                ELSE InternalCreateFilter(f.keys))]

RECURSIVE FilterStartBlock(_, _)
FilterStartBlock(f, offset) ==
    IF offset \div FilterBase > Len(f.filters) THEN FilterStartBlock(GenerateFilter(f), offset) ELSE f
FilterFinish(f) == IF f.keys = <<>> THEN f ELSE GenerateFilter(f)

KeyMayMatch(filters, offset, key) ==
    LET i == offset \div FilterBase + 1
    IN i \in DOMAIN filters =>
          filters[i].bits # 0 /\ InternalKeyMayMatch(filters[i], key)

-----------------------------------------------------------------------------
(* TableBuilder                                                                *)

NewTableBuilder ==
    [data |-> EmptyBlock, index |-> EmptyBlock, filter |-> NoFilters, last_key |-> <<>>,
     pending_index_entry |-> FALSE, pending_handle |-> 0, offset |-> 0, ok |-> TRUE, closed |-> FALSE]

RawSize(kind, b) == IF kind = "filter" THEN RestartSize * (Len(b) + 1) + 1 ELSE CurrentSizeEstimate(b)
RawBlock(offset, kind, b) ==
    [at |-> offset, size |-> RawSize(kind, b) + TrailerSize, kind |-> kind, block |-> b]
End(blocks) == IF blocks = <<>> THEN 0 ELSE Last(blocks).at + Last(blocks).size

HandleValue(offset) == [size |-> HandleSize, of |-> offset]
AddIndexEntry(r, key) ==
    [r EXCEPT !.index = BlockAdd(@, 1, key, HandleValue(r.pending_handle)), !.pending_index_entry = FALSE]

\* Mutant: the filter is told where the block written starts, not the next one.
FlushBlockLateFilter(r) ==
    IF r.data.entries = <<>> THEN r
    ELSE LET next == r.offset + RawBlock(r.offset, "data", r.data).size
         IN [r EXCEPT !.pending_index_entry = TRUE, !.pending_handle = r.offset, !.offset = next,
                      !.data = EmptyBlock, !.filter = FilterStartBlock(@, r.offset)]

\* The data block is written and the filter told where the next one starts.
FlushBlock(r) ==
    IF r.data.entries = <<>> THEN r
    ELSE LET next == r.offset + RawBlock(r.offset, "data", r.data).size
         IN [r EXCEPT !.pending_index_entry = TRUE, !.pending_handle = r.offset, !.offset = next,
                      !.data = EmptyBlock, !.filter = FilterStartBlock(@, next)]
Flushed(r) ==
    IF r.data.entries = <<>> THEN written
    ELSE Append(written, RawBlock(r.offset, "data", r.data))

\* Append to the file failed: nothing is added from now on.
FlushFails(r) == [r EXCEPT !.ok = FALSE]

TableAdded(key, value) ==
    LET r == IF builder.pending_index_entry
             THEN AddIndexEntry(builder, FindShortestSeparator(builder.last_key, key)) ELSE builder
    IN [r EXCEPT !.filter = FilterAddKey(@, key), !.last_key = key,
                 !.data = BlockAdd(@, RestartInterval, key, value)]

EntriesIn(blocks) ==
    UNION {{<<b.at, e.at>> : e \in ToSet(b.block.entries)} : b \in {c \in ToSet(blocks) : c.kind = "data"}}

TableAdd(key, size) ==
    LET r == TableAdded(key, [size |-> size, of |-> key])
        full == CurrentSizeEstimate(r.data) >= BlockSize
    IN /\ builder.ok /\ ~builder.closed
       /\ builder.last_key # <<>> => InternalLess(builder.last_key, key)
       /\ Cardinality(EntriesIn(written)) + Len(builder.data.entries) < MaxEntries
       /\ \/ /\ builder' = IF full THEN FlushBlock(r) ELSE r
             /\ written' = IF full THEN Flushed(r) ELSE written
          \/ full /\ builder' = FlushFails(r) /\ UNCHANGED written
       /\ UNCHANGED <<damaged, table>>

\* Filter, metaindex, index and footer follow the last data block.
TableFinish ==
    LET r == FlushBlock(builder)
        data == Flushed(builder)
        index == IF r.pending_index_entry THEN AddIndexEntry(r, FindShortSuccessor(r.last_key)) ELSE r
        filter == RawBlock(r.offset, "filter", FilterFinish(r.filter).filters)
        meta == RawBlock(filter.at + filter.size, "metaindex",
                         BlockAdd(EmptyBlock, RestartInterval, <<1, MaxTag>>, HandleValue(filter.at)))
        top == RawBlock(meta.at + meta.size, "index", index.index)
    IN /\ ~builder.closed /\ builder.ok
       /\ \/ /\ written' = data \o <<filter, meta, top,
                              [at |-> top.at + top.size, size |-> 48, kind |-> "footer",
                               block |-> [metaindex |-> meta.at, index |-> top.at]]>>
             /\ builder' = [index EXCEPT !.closed = TRUE, !.offset = End(written')]
          \/ builder' = [FlushFails(builder) EXCEPT !.closed = TRUE] /\ UNCHANGED written
       /\ UNCHANGED <<damaged, table>>

-----------------------------------------------------------------------------
(* Table                                                                       *)

NoTable == [open |-> FALSE]
BlockReadable(offset) == offset \notin damaged
BlockAt(offset) == (CHOOSE b \in ToSet(written) : b.at = offset).block
Footer == Last(written)

\* A file without a readable footer or index is no table; the filter is optional.
TableOpen ==
    LET f == Footer.block
        filterAt == EntryAt(BlockAt(f.metaindex), 0).value.of
        filtered == BlockReadable(f.metaindex) /\ BlockReadable(filterAt)
    IN /\ builder.closed /\ builder.ok /\ ~table.open
       /\ BlockReadable(Footer.at) /\ BlockReadable(f.index)
       /\ table' = [open |-> TRUE, index |-> BlockAt(f.index), metaindex |-> f.metaindex,
                    filtered |-> filtered,
                    filters |-> IF filtered THEN BlockAt(filterAt) ELSE <<>>]
       /\ UNCHANGED <<builder, written, damaged>>

\* A block of the finished file can no longer be read.
Damage(b) ==
    /\ builder.closed /\ damaged = {}
    /\ damaged' = {b.at}
    /\ UNCHANGED <<builder, written, table>>

IndexSeek(key) == BlockSeek(table.index, BlockIter(table.index), key)

\* What the saver is given, if anything.
NotFound == [outcome |-> "none"]
GetFails == [outcome |-> "error"]
Saved(b, it) ==
    IF BlockValid(b, it) THEN [outcome |-> "entry", key |-> it.key, of |-> it.value.of]
    ELSE IF it.corrupt THEN GetFails ELSE NotFound

InternalGet(key) ==
    LET index == IndexSeek(key)
        offset == index.value.of
    IN IF ~BlockValid(table.index, index) THEN IF index.corrupt THEN GetFails ELSE NotFound
       ELSE IF table.filtered /\ ~KeyMayMatch(table.filters, offset, key) THEN NotFound
       ELSE IF ~BlockReadable(offset) THEN GetFails
       ELSE Saved(BlockAt(offset), BlockSeek(BlockAt(offset), BlockIter(BlockAt(offset)), key))

ApproximateOffsetOf(key) ==
    IF BlockValid(table.index, IndexSeek(key)) THEN IndexSeek(key).value.of ELSE table.metaindex

TableInit ==
    /\ builder = NewTableBuilder /\ written = <<>> /\ damaged = {} /\ table = NoTable

TableNext ==
    \/ \E key \in StoredKeys, size \in ValueSizes : TableAdd(key, size)
    \/ TableFinish
    \/ TableOpen
    \/ \E b \in ToSet(written) : Damage(b)

TableSpec == TableInit /\ [][TableNext]_tableVars

-----------------------------------------------------------------------------
(* Properties *)

AddedKeys ==
    UNION {{e.value.of : e \in ToSet(b.block.entries)} : b \in {c \in ToSet(written) : c.kind = "data"}}
LookupKeys == StoredKeys \cup {Append(ExtractUserKey(k), MaxTag) : k \in StoredKeys}
Smallest(keys) == CHOOSE k \in keys : \A other \in keys : ~InternalLess(other, k)

\* Reading a table gives, for every user key and sequence number, the newest entry
\* of that user key that was added up to it, and no other value; with a damaged
\* block it may say "error" instead.  Positions grow with the keys
\* (Table::InternalGet, KeyMayMatch, FindShortestSeparator, ApproximateOffsetOf).
AnswersRight(key, answer) ==
    LET mine == {k \in AddedKeys : ExtractUserKey(k) = ExtractUserKey(key) /\ ~InternalLess(k, key)}
    IN CASE answer = GetFails -> damaged # {}
         [] answer = NotFound -> mine = {}
         [] OTHER -> /\ answer.key = answer.of /\ ~InternalLess(answer.key, key)
                     /\ mine # {} => answer.key = Smallest(mine)

TableFindsWhatWasAdded ==
    table.open =>
        /\ \A key \in LookupKeys : AnswersRight(key, InternalGet(key))
        /\ LET offset == [key \in LookupKeys |-> ApproximateOffsetOf(key)]
           IN \A a, b \in LookupKeys : InternalLess(a, b) => offset[a] <= offset[b]

\* Within a block, from any entry and from any key sought, one step forward and one
\* step back are the neighbours in the order they were added (Block::Iter).
BlocksCanBeWalked ==
    builder.closed =>
        \A w \in {c \in ToSet(written) : c.kind = "data"} :
            LET b == w.block
                it == BlockIter(b)
                key(i) == b.entries[i].value.of
                stands(i, position) ==
                    IF i \in DOMAIN b.entries
                    THEN BlockValid(b, position) /\ position.key = key(i) /\ position.value.of = key(i)
                    ELSE ~BlockValid(b, position)
            IN /\ stands(1, BlockSeekToFirst(b, it))
               /\ stands(Len(b.entries), BlockSeekToLast(b, it))
               /\ \A i \in DOMAIN b.entries :
                      LET here == BlockSeek(b, it, key(i))
                      IN stands(i, here) /\ stands(i + 1, BlockNext(b, here)) /\ stands(i - 1, BlockPrev(b, here))

\* A table reads back as it was built: seeks through index, filter and restart points
\* as well as steps in either direction.
TableReadsBack == TableFindsWhatWasAdded /\ BlocksCanBeWalked
=============================================================================
