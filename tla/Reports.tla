------------------------------- MODULE Reports -------------------------------
(***************************************************************************)
(* What LevelDB tells people about its data: the dump of a file as text,   *)
(* the histogram of measurements, the sizes of ranges and its properties.   *)
(*                                                                         *)
(* A file to dump is its name and what reading it gives, a line of the dump *)
(* a tuple.  Measurements are natural numbers and quotients of them are     *)
(* kept as [num, den].                                                     *)
(***************************************************************************)
EXTENDS DestroyedDB, FiniteSetsExt, BagsExt

CONSTANTS
    DumpNames, LogItems, TableItems,
    kBucketLimit,    \* upper limits of the buckets, the last above any value
    Samples,         \* values that are added
    MaxSamples,      \* bound: values in a histogram
    SizedVersions,   \* versions whose sizes are asked for
    SizeKeys,
    PropertyNames,   \* names that are asked for, in words and digits
    Databases        \* databases that are asked: see GetProperty

VARIABLES
    dump,          \* [name, items, can_open, status, lines]
    histograms,    \* two histograms
    sampled,       \* what was added to each, as a bag
    sized,         \* [version, sizes: what GetApproximateSizes said of all ranges]
    told           \* [name, of: what the database was, ok, value: what GetProperty said]

reportVars == <<dump, histograms, sampled, sized, told>>

-----------------------------------------------------------------------------
(* Dumps.  An item of a log is a gap that its reader reports or a record; a    *)
(* record holds a batch or an edit.                                           *)

GuessType(name) ==
    LET cuts == {i \in DOMAIN name : name[i] = "/"}
    IN ParseFileName(SubSeq(name, Max(cuts \cup {0}) + 1, Len(name)))

HexDigit(d) == IF d < 10 THEN 48 + d ELSE 87 + d
EscapedChar(c) == IF c \in 32 .. 126 THEN <<c>> ELSE <<92, 120, HexDigit(c \div 16), HexDigit(c % 16)>>
AppendEscapedStringTo(text, value) == FoldLeft(LAMBDA t, c : t \o EscapedChar(c), text, value)
EscapeString(value) == AppendEscapedStringTo(<<>>, value)

\* A batch is shown up to what is wrong with it.
WriteBatchPrinter(item) ==
    IF item.size < 12 THEN <<<<"too small", item.pos, item.size>>>>
    ELSE LET shown(op) == IF Len(op) = 1 THEN <<"del", EscapeString(op[1])>>
                          ELSE <<"put", EscapeString(op[1]), EscapeString(op[2])>>
             wrong == ~item.whole \/ Len(item.ops) # item.count
         IN <<<<"sequence", item.pos, item.sequence>>>> \o [i \in DOMAIN item.ops |-> shown(item.ops[i])]
            \o (IF wrong THEN <<<<"error">>>> ELSE <<>>)
\* VersionEdit::DebugString: an edit is [scalars, pointers, deleted, added].
EditScalars == <<"Comparator", "LogNumber", "PrevLogNumber", "NextFile", "LastSeq">>
PairBefore(p, q) == p[1] < q[1] \/ (p[1] = q[1] /\ p[2] < q[2])
EditText(e) ==
    LET line(kind, p) == <<kind, p[1], p[2]>>
        deleted == SetToSortSeq(e.deleted, PairBefore)
        scalars == SelectSeq(EditScalars, LAMBDA name : name \in e.scalars)
    IN [i \in DOMAIN scalars |-> <<scalars[i]>>]
       \o [i \in DOMAIN e.pointers |-> line("CompactPointer", e.pointers[i])]
       \o [i \in DOMAIN deleted |-> line("DeleteFile", deleted[i])]
       \o [i \in DOMAIN e.added |-> line("AddFile", e.added[i])]
\* Mutant: an edit that cannot be decoded is passed over.
VersionEditPrinterSilent(item) == IF item.whole THEN <<<<"edit", item.pos>>>> \o EditText(item.edit) ELSE <<>>
\* An edit is shown whole or not at all.
VersionEditPrinter(item) == IF item.whole THEN <<<<"edit", item.pos>>>> \o EditText(item.edit) ELSE <<<<"no edit", item.pos>>>>

Corruption(item) == <<<<"corruption", item.bytes>>>>
PrintRecord(item, type) == IF type = "log" THEN WriteBatchPrinter(item) ELSE VersionEditPrinter(item)
PrintLogContents(items, type) ==
    LET print(item) == IF item.kind = "gap" THEN Corruption(item) ELSE PrintRecord(item, type)
    IN FoldLeft(LAMBDA lines, item : lines \o print(item), <<>>, items)
EntryPrinter(item) ==
    CASE item.kind = "entry" /\ item.parsed ->
             <<<<EscapeString(item.key), item.sequence, item.type, EscapeString(item.value)>>>>
      [] item.kind = "entry" -> <<<<"badkey", EscapeString(item.key), EscapeString(item.value)>>>>
      [] OTHER -> <<<<"iterator error">>>>
DumpTable(items) == FoldLeft(LAMBDA lines, item : lines \o EntryPrinter(item), <<>>, items)

DumpFile(name, items, can_open) ==
    LET type == GuessType(name).type
        lines == IF type = "table" THEN DumpTable(items) ELSE PrintLogContents(items, type)
    IN CASE type \notin {"log", "descriptor", "table"} -> [status |-> "InvalidArgument", lines |-> <<>>]
         [] ~can_open -> [status |-> "IOError", lines |-> <<>>]
         [] OTHER -> [status |-> "OK", lines |-> lines]

ItemsFor(name) == IF GuessType(name).type = "table" THEN TableItems ELSE LogItems
NotDumped == [name |-> <<>>, items |-> <<>>, can_open |-> FALSE, status |-> "", lines |-> <<>>]
Dump(name, items, can_open) ==
    /\ dump = NotDumped /\ UNCHANGED <<histograms, sampled, sized, told>>
    /\ dump' = DumpFile(name, items, can_open) @@ [name |-> name, items |-> items, can_open |-> can_open]

-----------------------------------------------------------------------------
(* Histograms                                                                  *)

Buckets == DOMAIN kBucketLimit
LeftPoint(b) == IF b = 1 THEN 0 ELSE kBucketLimit[b - 1]
Clear == [least |-> Last(kBucketLimit), most |-> 0, num |-> 0, sum |-> 0, sum_squares |-> 0,
          buckets |-> [b \in Buckets |-> 0]]
BucketFor(value) == Min({b \in Buckets : b = Len(kBucketLimit) \/ value < kBucketLimit[b]})
Smaller(a, b) == IF a < b THEN a ELSE b
Greater(a, b) == IF a > b THEN a ELSE b

Added(h, value) ==
    [least |-> Smaller(h.least, value), most |-> Greater(h.most, value), num |-> h.num + 1,
     sum |-> h.sum + value, sum_squares |-> h.sum_squares + value * value,
     buckets |-> [h.buckets EXCEPT ![BucketFor(value)] = @ + 1]]
MergedWith(h, other) ==
    [least |-> Smaller(h.least, other.least), most |-> Greater(h.most, other.most), num |-> h.num + other.num,
     sum |-> h.sum + other.sum, sum_squares |-> h.sum_squares + other.sum_squares,
     buckets |-> [b \in Buckets |-> h.buckets[b] + other.buckets[b]]]

\* The first bucket at which p hundredths of the values are reached, and a point of it in
\* the same proportion, kept between the least and the greatest value.
Percentile(h, p) ==
    LET upTo(b) == SumFunctionOnSet(h.buckets, 1 .. b)
        b == Min({c \in Buckets : 100 * upTo(c) >= h.num * p})
        den == 100 * h.buckets[b]
        num == LeftPoint(b) * den + (kBucketLimit[b] - LeftPoint(b)) * (h.num * p - 100 * (upTo(b) - h.buckets[b]))
    IN IF num < h.least * den THEN [num |-> h.least, den |-> 1]
       ELSE IF num > h.most * den THEN [num |-> h.most, den |-> 1]
       ELSE [num |-> num, den |-> den]
Median(h) == Percentile(h, 50)
Average(h) == [num |-> h.sum, den |-> h.num]
\* A row for every bucket that is not empty: its limits, its count and the count up to it.
ToRows(h) ==
    LET row(b) == [left |-> LeftPoint(b), right |-> kBucketLimit[b], count |-> h.buckets[b],
                   upTo |-> SumFunctionOnSet(h.buckets, 1 .. b)]
        filled == SelectSeq([i \in Buckets |-> i], LAMBDA b : h.buckets[b] > 0)
    IN [i \in DOMAIN filled |-> row(filled[i])]
Variance(h) == [num |-> h.sum_squares * h.num - h.sum * h.sum, den |-> h.num * h.num]

AddSample(i, value) ==
    /\ BagCardinality(sampled[i]) < MaxSamples
    /\ histograms' = [histograms EXCEPT ![i] = Added(@, value)]
    /\ sampled' = [sampled EXCEPT ![i] = BagAdd(@, value)] /\ UNCHANGED <<dump, sized, told>>
ClearOne(i) ==
    /\ histograms' = [histograms EXCEPT ![i] = Clear]
    /\ sampled' = [sampled EXCEPT ![i] = EmptyBag] /\ UNCHANGED <<dump, sized, told>>
MergeInto(i) ==
    /\ BagCardinality(sampled[1]) + BagCardinality(sampled[2]) <= MaxSamples
    /\ histograms' = [histograms EXCEPT ![i] = MergedWith(@, histograms[3 - i])]
    /\ sampled' = [sampled EXCEPT ![i] = @ (+) sampled[3 - i]] /\ UNCHANGED <<dump, sized, told>>

-----------------------------------------------------------------------------
(* Sizes of ranges.  A version is a sequence of levels, from level 0; a file    *)
(* has [smallest, largest, size, blocks, metaindex, can_open] and a block [last,  *)
(* offset].  What is sought sorts before every entry of its user key.          *)

TableOffsetOf(f, key) ==
    LET from == {b \in ToSet(f.blocks) : b.last >= key}
    IN IF from = {} THEN f.metaindex ELSE Min({b.offset : b \in from})

\* What a level has before key; the files of level 0 are all looked at, those of another
\* level up to the first that begins at the key or after it.
OffsetInLevel(files, zero, key) ==
    LET looked == IF zero THEN DOMAIN files
                  ELSE {i \in DOMAIN files : \A j \in 1 .. i : files[j].smallest < key}
        part(f) == CASE f.largest < key -> f.size
                     [] f.smallest < key /\ f.largest >= key /\ f.can_open -> TableOffsetOf(f, key)
                     [] OTHER -> 0
    IN MapThenSumSet(LAMBDA i : part(files[i]), looked)
ApproximateOffset(version, key) ==
    MapThenSumSet(LAMBDA l : OffsetInLevel(version[l], l = 1, key), DOMAIN version)

Size(version, start, limit) ==
    Greater(0, ApproximateOffset(version, limit) - ApproximateOffset(version, start))
NotSized == [version |-> <<>>, sizes |-> <<>>]
GetApproximateSizes(version) ==
    /\ sized = NotSized /\ UNCHANGED <<dump, histograms, sampled, told>>
    /\ sized' = [version |-> version, sizes |-> [r \in SizeKeys \X SizeKeys |-> Size(version, r[1], r[2])]]

-----------------------------------------------------------------------------
(* Properties that a database tells of itself.  It is [version, stats, usage, mem, *)
(* imm]: its levels, what compactions into each took, and bytes in memory.      *)

NumLevelFiles(version, l) == Len(version[l])
NumLevelBytes(version, l) == FoldLeft(LAMBDA n, f : n + f.size, 0, version[l])
\* A row for every level that has files or was compacted into.
StatsTable(db) ==
    LET shown == SelectSeq([l \in DOMAIN db.version |-> l], LAMBDA l : db.stats[l].micros > 0 \/ NumLevelFiles(db.version, l) > 0)
        row(l) == [level |-> l - 1, files |-> NumLevelFiles(db.version, l), size |-> NumLevelBytes(db.version, l)] @@ db.stats[l]
    IN [i \in DOMAIN shown |-> row(shown[i])]
VersionText(version) ==
    LET level(l) == <<<<"level", l - 1>>>> \o [i \in DOMAIN version[l] |->
                        <<"file", version[l][i].size, version[l][i].smallest, version[l][i].largest>>]
    IN FoldLeft(LAMBDA text, l : text \o level(l), <<>>, [l \in DOMAIN version |-> l])

Unknown == [ok |-> FALSE, value |-> <<>>]
Known(value) == [ok |-> TRUE, value |-> value]
AnswerTo(db, in) ==
    IF in # <<>> /\ in[1] = "num-files-at-level"
    THEN LET level == ConsumeDecimalNumber(Tail(in))
         IN IF level.ok /\ level.rest = <<>> /\ level.val < Len(db.version)
            THEN Known(<<NumLevelFiles(db.version, level.val + 1)>>) ELSE Unknown
    ELSE CASE in = <<"stats">> -> Known(StatsTable(db))
           [] in = <<"sstables">> -> Known(VersionText(db.version))
           [] in = <<"approximate-memory-usage">> -> Known(<<db.usage + db.mem + db.imm>>)
           [] OTHER -> Unknown
NotTold == [name |-> <<>>, of |-> {}, ok |-> FALSE, value |-> <<>>]
GetProperty(db, name) ==
    /\ told = NotTold /\ UNCHANGED <<dump, histograms, sampled, sized>>
    /\ told' = [name |-> name, of |-> {db}] @@ (IF name # <<>> /\ name[1] = "leveldb." THEN AnswerTo(db, Tail(name)) ELSE Unknown)

-----------------------------------------------------------------------------

ReportInit ==
    /\ dump = NotDumped /\ histograms = [i \in 1 .. 2 |-> Clear] /\ sampled = [i \in 1 .. 2 |-> EmptyBag]
    /\ sized = NotSized /\ told = NotTold
DumpNext ==
    \E name \in DumpNames, can_open \in BOOLEAN : \E items \in ItemsFor(name) : Dump(name, items, can_open)
HistogramNext ==
    \/ \E i \in 1 .. 2, value \in Samples : AddSample(i, value)
    \/ \E i \in 1 .. 2 : MergeInto(i) \/ ClearOne(i)
SizesNext == \E version \in SizedVersions : GetApproximateSizes(version)
PropertiesNext == \E db \in Databases, name \in PropertyNames : GetProperty(db, name)
ReportNext == DumpNext \/ HistogramNext \/ SizesNext \/ PropertiesNext

ReportSpec == ReportInit /\ [][ReportNext]_reportVars

-----------------------------------------------------------------------------
(* Properties *)

\* Every record, entry and damage has its line, in the order of the file.
Lines(kinds) == SelectSeq(dump.lines, LAMBDA l : l[1] \in kinds)
DumpsShowEverything ==
    dump.status = "OK" =>
        LET type == GuessType(dump.name).type
            heads == IF type = "table" THEN dump.lines
                     ELSE Lines({"sequence", "too small", "edit", "no edit", "corruption"})
        IN /\ Len(heads) = Len(dump.items)
           /\ type # "table" =>
                 \A i \in DOMAIN heads :
                    heads[i][2] = IF dump.items[i].kind = "gap" THEN dump.items[i].bytes ELSE dump.items[i].pos
           /\ type = "descriptor" =>
                 Len(Lines({"DeleteFile"})) =
                     FoldLeft(LAMBDA n, item : IF item.kind = "gap" \/ ~item.whole THEN n ELSE n + Cardinality(item.edit.deleted),
                              0, dump.items)
           /\ type = "log" =>
                 Len(Lines({"put", "del"})) =
                     FoldLeft(LAMBDA n, item : IF item.kind = "gap" \/ item.size < 12 THEN n ELSE n + Len(item.ops),
                              0, dump.items)

EscapesArePrintable ==
    LET entries == {i \in DOMAIN dump.items : dump.items[i].kind = "entry"}
        text(i) == EscapeString(dump.items[i].key)
    IN \A i, j \in entries :
          /\ ToSet(text(i)) \subseteq 32 .. 126
          /\ 92 \notin ToSet(dump.items[i].key \o dump.items[j].key) /\ text(i) = text(j) =>
                dump.items[i].key = dump.items[j].key

\* The percentiles of a histogram lie in the bucket of the value they estimate.
ValuesUpTo(bag, value) == Cardinality({<<v, n>> \in BagToSet(bag) \X (1 .. MaxSamples) : v <= value /\ n <= CopiesIn(v, bag)})
PercentilesAreClose ==
    \A i \in 1 .. 2, p \in {1, 50, 100} :
        sampled[i] # EmptyBag =>
            LET h == histograms[i]
                r == Percentile(h, p)
                true_value == Min({v \in BagToSet(sampled[i]) : 100 * ValuesUpTo(sampled[i], v) >= h.num * p})
                b == BucketFor(true_value)
            IN /\ h.num = BagCardinality(sampled[i])
               /\ Greater(h.least, LeftPoint(b)) * r.den <= r.num /\ r.num <= Smaller(h.most, kBucketLimit[b]) * r.den
               /\ h.least = Min(BagToSet(sampled[i])) /\ h.most = Max(BagToSet(sampled[i]))
               /\ Variance(h).num >= 0 /\ h.least * h.num <= Average(h).num /\ Average(h).num <= h.most * h.num
               /\ Last(ToRows(h)).upTo = h.num
               /\ \A row \in ToSet(ToRows(h)) :
                     row.upTo = Cardinality({<<v, n>> \in BagToSet(sampled[i]) \X (1 .. MaxSamples) :
                                                (v < row.right \/ row.right = Last(kBucketLimit)) /\ n <= CopiesIn(v, sampled[i])})

\* Sizes of adjacent ranges add up, and a range has at least the files that lie in it.
SizesAddUp ==
    LET files == UNION {ToSet(sized.version[l]) : l \in DOMAIN sized.version}
    IN sized # NotSized /\ (\A f \in files : f.can_open) =>
          \A a, b, c \in SizeKeys :
             a <= b /\ b <= c =>
                /\ sized.sizes[<<a, b>>] + sized.sizes[<<b, c>>] = sized.sizes[<<a, c>>]
                /\ sized.sizes[<<b, a>>] = 0
                /\ MapThenSumSet(LAMBDA f : f.size, {f \in files : a <= f.smallest /\ f.largest < c})
                       <= sized.sizes[<<a, c>>]

\* A level is told by its decimal number and nothing else; the tables of all levels are
\* shown, and what they add up to.
PropertiesAreTrue ==
    \A db \in told.of :
        LET name == told.name
            sum(table) == FoldLeft(LAMBDA n, row : n + row.files, 0, table)
            files == FoldLeft(LAMBDA n, level : n + Len(level), 0, db.version)
            levels == {l \in DOMAIN db.version : \E zeros \in 0 .. 1 :
                          name = <<"leveldb.", "num-files-at-level">> \o (IF zeros = 1 THEN <<"0">> ELSE <<>>) \o <<Numerals[l]>>}
        IN /\ told.ok <=> levels # {} \/ \E w \in {"stats", "sstables", "approximate-memory-usage"} : name = <<"leveldb.", w>>
           /\ \A l \in levels : told.value = <<Len(db.version[l])>>
           /\ name = <<"leveldb.", "stats">> => sum(told.value) = files
           /\ name = <<"leveldb.", "sstables">> => Len(SelectSeq(told.value, LAMBDA t : t[1] = "file")) = files

\* A dump leaves nothing out that the file has and does not stop at damage; percentiles lie
\* in the bucket of the value asked for, between the least and the greatest, also after a
\* merge; sizes of adjacent ranges add up (DumpFile, Histogram::Percentile and Merge,
\* DBImpl::GetApproximateSizes).
ReportsAreTrue == DumpsShowEverything /\ EscapesArePrintable /\ PercentilesAreClose /\ SizesAddUp /\ PropertiesAreTrue
=============================================================================
