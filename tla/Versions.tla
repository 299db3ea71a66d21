------------------------------ MODULE Versions ------------------------------
(***************************************************************************)
(* LevelDB, the store under Firebase's disk cache: what a version of the   *)
(* database is (the table files of each level), how it is searched, which  *)
(* files a compaction takes, and what an edit makes of it.                 *)
(*                                                                         *)
(* A version is a function from levels to sets of file descriptions.  User *)
(* keys are numbers; an internal key is a pair of a user key and a         *)
(* sequence number; sizes are counted in entries.                          *)
(***************************************************************************)
EXTENDS Integers, Sequences, FiniteSets, FiniteSetsExt, SequencesExt

CONSTANTS
    Keys,                \* user keys, in the comparator's order
    kNumLevels,
    kL0_CompactionTrigger,
    kMaxMemCompactLevel,
    TargetFileSize,      \* Options::max_file_size
    GrandParentFactor,   \* MaxGrandParentOverlapBytes / TargetFileSize
    ExpandedFactor,      \* ExpandedCompactionByteSizeLimit / TargetFileSize
    LevelBase,           \* MaxBytesForLevel of level 1
    LevelFactor          \* and its growth from a level to the next

ASSUME VersionsAssumption ==
    /\ Keys \subseteq Nat \ {0} /\ IsFiniteSet(Keys)
    /\ {kNumLevels, kL0_CompactionTrigger, TargetFileSize, LevelBase, LevelFactor,
        GrandParentFactor, ExpandedFactor} \subseteq Nat \ {0}
    /\ kMaxMemCompactLevel \in 0 .. kNumLevels - 2

Levels == 0 .. kNumLevels - 1

\* A value that no entry has: the type kTypeDeletion.
Deleted == 0

\* Internal keys: increasing user key, then decreasing sequence number.
ILess(a, b) == a[1] < b[1] \/ (a[1] = b[1] /\ a[2] > b[2])
ILeq(a, b)  == a = b \/ ILess(a, b)

IKey(e)      == <<e.key, e.seq>>
FirstKey(es) == CHOOSE a \in {IKey(e) : e \in es} : \A e \in es : ILeq(a, IKey(e))
LastKey(es)  == CHOOSE a \in {IKey(e) : e \in es} : \A e \in es : ILeq(IKey(e), a)

FileMetaData(number, es) ==
    [number |-> number, size |-> Cardinality(es),
     smallest |-> FirstKey(es), largest |-> LastKey(es)]

TotalFileSize(fs) == MapThenSumSet(LAMBDA f : f.size, fs)

MaxGrandParentOverlapBytes      == GrandParentFactor * TargetFileSize
ExpandedCompactionByteSizeLimit == ExpandedFactor * TargetFileSize
MaxBytesForLevel(level) ==
    LevelBase * (IF level > 1 THEN LevelFactor ^ (level - 1) ELSE 1)

EmptyVersion == [l \in Levels |-> {}]

-----------------------------------------------------------------------------
(* Searching a version *)

BySmallestKey(f, g) ==
    \/ ILess(f.smallest, g.smallest)
    \/ f.smallest = g.smallest /\ f.number < g.number
\* A finite set as a sequence, by a strict total order of its elements.
InOrder(S, before(_, _)) ==
    [i \in 1 .. Cardinality(S) |->
        CHOOSE x \in S : Cardinality({y \in S : before(y, x)}) = i - 1]
\* The first element of a set, none if the set is empty.
FirstOf(S, before(_, _)) == {x \in S : \A y \in S \ {x} : before(x, y)}

\* What a sequence holds at some of its places.
Subsequence(s, places) ==
    LET at == InOrder(places, <) IN [i \in DOMAIN at |-> s[at[i]]]

\* The first file whose largest key is at or after ikey, if there is one.
FindFile(files, ikey) == FirstOf({f \in files : ILeq(ikey, f.largest)}, BySmallestKey)

\* The files a search for ikey looks at, with their levels: in level 0 all that
\* may hold the key, in each other level at most one.
ForEachOverlapping(version, ikey) ==
    {[level |-> 0, file |-> f] :
        f \in {g \in version[0] : g.smallest[1] <= ikey[1] /\ ikey[1] <= g.largest[1]}}
    \cup UNION {{[level |-> l, file |-> f] :
                    f \in {g \in FindFile(version[l], ikey) : g.smallest[1] <= ikey[1]}} :
               l \in Levels \ {0}}

\* Their order: by level, and in level 0 the newest first.
SearchedBefore(s, t) ==
    s.level < t.level \/ (s.level = t.level /\ s.file.number > t.file.number)

\* The newest entry for the user key that the lookup key may see.
Visible(es, ikey) == {e \in es : e.key = ikey[1] /\ e.seq <= ikey[2]}
Newest(es) == CHOOSE e \in es : \A d \in es : d.seq <= e.seq
ValueOf(es) == IF es = {} THEN Deleted ELSE Newest(es).val

\* The first file of the search that has an entry answers it.
Answers(s, tables, ikey) == Visible(tables[s.file.number], ikey) # {}
VersionGet(version, tables, ikey) ==
    LET hits == {s \in ForEachOverlapping(version, ikey) : Answers(s, tables, ikey)}
    IN {Newest(Visible(tables[s.file.number], ikey)) : s \in FirstOf(hits, SearchedBefore)}

\* The file to charge for a search that read more than one.
SeekFile(version, tables, ikey) ==
    LET searched == ForEachOverlapping(version, ikey)
    IN IF Cardinality(searched) < 2 THEN {}
       ELSE {s \in FirstOf(searched, SearchedBefore) : ~Answers(s, tables, ikey)}

\* The file to charge for a key that an iterator read where files overlap.
ReadSample(version, ikey) ==
    LET searched == ForEachOverlapping(version, ikey)
    IN IF Cardinality(searched) < 2 THEN {} ELSE FirstOf(searched, SearchedBefore)

-----------------------------------------------------------------------------
(* Overlap.  A range of user keys is a pair; NULL ends are 0 and Beyond.   *)

Beyond == 1 + CHOOSE k \in Keys \cup {0} : \A j \in Keys : j <= k

Overlaps(f, range) == f.smallest[1] <= range[2] /\ range[1] <= f.largest[1]

OverlapInLevel(version, level, range) == \E f \in version[level] : Overlaps(f, range)

\* All files of a level that overlap the range; in level 0 a file that sticks
\* out of the range extends it.
GetOverlappingInputs(version, level, range) ==
    LET direct == {f \in version[level] : Overlaps(f, range)}
        grown[n \in 0 .. Cardinality(version[level])] ==
            IF n = 0 THEN direct
            ELSE {f \in version[level] :
                     \E g \in grown[n - 1] : Overlaps(f, <<g.smallest[1], g.largest[1]>>)}
    IN IF level > 0 THEN direct ELSE grown[Cardinality(version[level])]

\* The least range of internal keys that covers the files, and of user keys.
GetRange(fs) ==
    <<(CHOOSE f \in fs : \A g \in fs : ILeq(f.smallest, g.smallest)).smallest,
      (CHOOSE f \in fs : \A g \in fs : ILeq(g.largest, f.largest)).largest>>
UserRange(fs) == <<GetRange(fs)[1][1], GetRange(fs)[2][1]>>

\* Mutant: the level itself is looked at, not the next.
PickLevelOneTooDeep(version, range) ==
    CHOOSE l \in 0 .. kMaxMemCompactLevel :
        /\ l = kMaxMemCompactLevel \/ OverlapInLevel(version, l, range)
        /\ \A m \in 0 .. l - 1 : ~OverlapInLevel(version, m, range)

\* Where the table of a memtable goes: as deep as nothing overlaps it.
PickLevelForMemTableOutput(version, range) ==
    LET blocked(l) ==   \* the loop stops at level l
            \/ l = kMaxMemCompactLevel
            \/ OverlapInLevel(version, l + 1, range)
            \/ /\ l + 2 < kNumLevels
               /\ TotalFileSize(GetOverlappingInputs(version, l + 2, range))
                      > MaxGrandParentOverlapBytes
    IN IF OverlapInLevel(version, 0, range) THEN 0
       ELSE CHOOSE l \in 0 .. kMaxMemCompactLevel :
                blocked(l) /\ \A m \in 0 .. l - 1 : ~blocked(m)

-----------------------------------------------------------------------------
(* Choosing a compaction *)

\* The level that most exceeds its limit, as a set of one, and whether one reaches it.
Score(version, level) ==
    IF level = 0 THEN <<Cardinality(version[0]), kL0_CompactionTrigger>>
    ELSE <<TotalFileSize(version[level]), MaxBytesForLevel(level)>>
Finalize(version) ==
    LET above(s, t) == s[1] * t[2] > t[1] * s[2]
        best == {l \in 0 .. kNumLevels - 2 :
                    /\ \A m \in 0 .. kNumLevels - 2 : ~above(Score(version, m), Score(version, l))
                    /\ \A m \in 0 .. l - 1 : above(Score(version, l), Score(version, m))}
    IN [compaction_level |-> best,
        needed |-> \E l \in 0 .. kNumLevels - 2 : Score(version, l)[1] >= Score(version, l)[2]]

\* file_to_compact is empty or holds a file with its level.
NeedsCompaction(version, file_to_compact) ==
    Finalize(version).needed \/ file_to_compact # {}

\* A compaction of files of a level: the files of the next level they overlap,
\* more files of the level when that adds none of the next, and the files of
\* the level after it.  The compact pointer moves to the end of the inputs.
SetupOtherInputs(version, level, inputs0) ==
    LET inputs1 == GetOverlappingInputs(version, level + 1, UserRange(inputs0))
        expanded0 == GetOverlappingInputs(version, level, UserRange(inputs0 \cup inputs1))
        expanded1 == GetOverlappingInputs(version, level + 1, UserRange(expanded0))
        grow == /\ inputs1 # {}
                /\ Cardinality(expanded0) > Cardinality(inputs0)
                /\ TotalFileSize(inputs1) + TotalFileSize(expanded0)
                       < ExpandedCompactionByteSizeLimit
                /\ Cardinality(expanded1) = Cardinality(inputs1)
        in0 == IF grow THEN expanded0 ELSE inputs0
        in1 == IF grow THEN expanded1 ELSE inputs1
    IN [level |-> level, version |-> version, inputs0 |-> in0, inputs1 |-> in1,
        grandparents |-> IF level + 2 < kNumLevels
                         THEN GetOverlappingInputs(version, level + 2, UserRange(in0 \cup in1))
                         ELSE {},
        pointer |-> GetRange(in0)[2]]

\* The file after the compact pointer of the fullest level, or else the one
\* that was sought too often.  Empty when there is nothing to do.
PickCompaction(version, compact_pointer, file_to_compact) ==
    LET after(l) == {f \in version[l] : ILess(compact_pointer[l], f.largest)}
        next(l) == FirstOf(IF after(l) = {} THEN version[l] ELSE after(l), BySmallestKey)
        fullest == UNION {{[level |-> l, file |-> f] : f \in next(l)} :
                             l \in Finalize(version).compaction_level}
    IN {SetupOtherInputs(version, s.level,
                         IF s.level = 0 THEN GetOverlappingInputs(version, 0, UserRange({s.file}))
                                        ELSE {s.file}) :
           s \in IF Finalize(version).needed THEN fullest ELSE file_to_compact}

\* A manual compaction of a range; below level 0 of its first files only, up to
\* the size of one output.
CompactRange(version, level, range) ==
    LET overlapping == GetOverlappingInputs(version, level, range)
        cut == {f \in overlapping :
                   TotalFileSize({g \in overlapping : BySmallestKey(g, f)}) < TargetFileSize}
    IN IF overlapping = {} THEN {}
       ELSE {SetupOtherInputs(version, level, IF level > 0 THEN cut ELSE overlapping)}

IsTrivialMove(c) ==
    /\ Cardinality(c.inputs0) = 1 /\ c.inputs1 = {}
    /\ TotalFileSize(c.grandparents) <= MaxGrandParentOverlapBytes

IsBaseLevelForKey(c, key) ==
    \A l \in c.level + 2 .. kNumLevels - 1 : \A f \in c.version[l] : ~Overlaps(f, <<key, key>>)

-----------------------------------------------------------------------------
(* What a compaction writes *)

\* Mutant: snapshots are forgotten.
DropHidden(c, input, smallest_snapshot, e) ==
    \/ \E n \in input : n.key = e.key /\ e.seq < n.seq
    \/ e.val = Deleted /\ IsBaseLevelForKey(c, e.key)

\* An entry is dropped that a newer one hides from every snapshot, and a
\* deletion with nothing below it to delete.
Drop(c, input, smallest_snapshot, e) ==
    \/ \E n \in input : n.key = e.key /\ e.seq < n.seq /\ n.seq <= smallest_snapshot
    \/ e.val = Deleted /\ e.seq <= smallest_snapshot /\ IsBaseLevelForKey(c, e.key)

\* The outputs made so far, the one being built, and the grandparents it has passed.
NoOutputs == [done |-> <<>>, open |-> {}, passed |-> {}, seen |-> FALSE, overlap |-> 0]
CloseOutput(s) ==
    IF s.open = {} THEN s ELSE [s EXCEPT !.done = Append(@, s.open), !.open = {}]

\* An output is closed before a key when it overlaps too much of the level after next.
ShouldStopBefore(c, s, ikey) ==
    LET passed == {g \in c.grandparents : ILess(g.largest, ikey)}
        overlap == s.overlap + (IF s.seen THEN TotalFileSize(passed \ s.passed) ELSE 0)
        stop == overlap > MaxGrandParentOverlapBytes
        t == [s EXCEPT !.passed = passed, !.seen = TRUE, !.overlap = IF stop THEN 0 ELSE overlap]
    IN IF stop THEN CloseOutput(t) ELSE t

\* The files a compaction writes, each the set of its entries: an output is also
\* closed after an entry that makes it large enough.
CompactionOutputs(c, input, smallest_snapshot) ==
    LET entries == InOrder(input, LAMBDA a, b : ILess(IKey(a), IKey(b)))
        add(s, e) == LET t == [s EXCEPT !.open = @ \cup {e}]
                     IN IF Cardinality(t.open) >= TargetFileSize THEN CloseOutput(t) ELSE t
        step(s, e) == LET t == ShouldStopBefore(c, s, IKey(e))
                      IN IF Drop(c, input, smallest_snapshot, e) THEN t ELSE add(t, e)
    IN CloseOutput(FoldLeft(step, NoOutputs, entries)).done

-----------------------------------------------------------------------------
(* Edits *)

VersionEdit(deleted, added, pointers) ==
    [deleted_files |-> deleted, new_files |-> added, compact_pointers |-> pointers]

\* The version that an edit makes of a version (Builder).
ApplyEdit(version, edit) ==
    [l \in Levels |->
        {f \in version[l] : <<l, f.number>> \notin edit.deleted_files}
        \cup {a[2] : a \in {n \in edit.new_files : n[1] = l}}]

ApplyPointers(compact_pointer, edit) ==
    [l \in Levels |->
        IF \E p \in edit.compact_pointers : p[1] = l
        THEN (CHOOSE p \in edit.compact_pointers : p[1] = l)[2]
        ELSE compact_pointer[l]]

AddInputDeletions(c) ==
    {<<c.level, f.number>> : f \in c.inputs0} \cup {<<c.level + 1, f.number>> : f \in c.inputs1}

FilesOf(version)   == UNION {version[l] : l \in Levels}
NumbersOf(version) == {f.number : f \in FilesOf(version)}
=============================================================================
