------------------------------ MODULE Iterators ------------------------------
(***************************************************************************)
(* LevelDB's iterators, from the bottom to the top: a table is read by an  *)
(* iterator over its index that opens one block after the other, tables    *)
(* and memtables are merged, and DBIter makes of the merged entries what   *)
(* a user sees at a sequence number.  Each can turn around at any time.    *)
(*                                                                         *)
(* An entry is its user key, its sequence number and its value, 0 for a    *)
(* deletion.                                                               *)
(***************************************************************************)
EXTENDS Integers, Sequences, FiniteSets, FiniteSetsExt, SequencesExt

CONSTANTS
    Sources       \* what is iterated: [children, sequence]; a child is a
                  \* sequence of blocks [entries, limit, readable]

VARIABLES
    source,       \* the one of this behaviour
    dbiter        \* DBIter, with the iterators below it

iterVars == <<source, dbiter>>

EntryKey(e) == <<e[1], e[2]>>
Before(a, b) == a[1] < b[1] \/ (a[1] = b[1] /\ a[2] > b[2])
FirstKeyEver == <<0, 0>>
LatestOf(k) == <<k, source.sequence>>

-----------------------------------------------------------------------------
(* TwoLevelIterator over the blocks of a child: [block, at, failed], where      *)
(* block 0 means that the iterator is not valid.                               *)

NewChild == [block |-> 0, at |-> 0, failed |-> FALSE]
ReadBlock(blocks, i) == IF blocks[i].readable THEN blocks[i].entries ELSE <<>>
Off(t) == [t EXCEPT !.block = 0, !.at = 0]
Goto(t, i, at) == [t EXCEPT !.block = i, !.at = at]

\* Blocks that show no entry are passed; an unreadable one leaves its error.
Passing(t, blocks, passed) == [t EXCEPT !.failed = @ \/ \E j \in passed : ~blocks[j].readable]
WithEntries(blocks, range) == {j \in range : ReadBlock(blocks, j) # <<>>}

SkipEmptyDataBlocksForward(t, blocks, i) ==
    LET more == WithEntries(blocks, i .. Len(blocks))
    IN IF more = {} THEN Passing(Off(t), blocks, i .. Len(blocks))
       ELSE Passing(Goto(t, Min(more), 1), blocks, i .. Min(more) - 1)

SkipEmptyDataBlocksBackward(t, blocks, i) ==
    LET more == WithEntries(blocks, 1 .. i)
    IN IF more = {} THEN Passing(Off(t), blocks, 1 .. i)
       ELSE Passing(Goto(t, Max(more), Len(blocks[Max(more)].entries)), blocks, Max(more) + 1 .. i)

ChildFirst(t, blocks) == SkipEmptyDataBlocksForward(t, blocks, 1)
ChildLast(t, blocks)  == SkipEmptyDataBlocksBackward(t, blocks, Len(blocks))

\* The index gives the first block that may hold the target.
SeekInBlock(t, blocks, target, i) ==
    LET hits == {j \in DOMAIN ReadBlock(blocks, i) : ~Before(EntryKey(blocks[i].entries[j]), target)}
    IN IF hits # {} THEN Goto(t, i, Min(hits))
       ELSE SkipEmptyDataBlocksForward(Passing(t, blocks, {i}), blocks, i + 1)
ChildSeek(t, blocks, target) ==
    LET may == {i \in DOMAIN blocks : ~Before(blocks[i].limit, target)}
    IN IF may = {} THEN Off(t) ELSE SeekInBlock(t, blocks, target, Min(may))

ChildNext(t, blocks) ==
    IF t.at < Len(blocks[t.block].entries) THEN [t EXCEPT !.at = @ + 1]
    ELSE SkipEmptyDataBlocksForward(t, blocks, t.block + 1)
ChildPrev(t, blocks) ==
    IF t.at > 1 THEN [t EXCEPT !.at = @ - 1]
    ELSE SkipEmptyDataBlocksBackward(t, blocks, t.block - 1)

-----------------------------------------------------------------------------
(* MergingIterator: its children, the current one (0 for NULL), the direction *)

Blocks(i) == source.children[i]
ChildValid(m, i) == m.children[i].block # 0
ChildEntry(m, i) == Blocks(i)[m.children[i].block].entries[m.children[i].at]
ChildKey(m, i) == EntryKey(ChildEntry(m, i))
ValidChildren(m) == {i \in DOMAIN m.children : ChildValid(m, i)}

FindSmallest(m) ==
    LET best == {i \in ValidChildren(m) :
                    \A j \in ValidChildren(m) : ~Before(ChildKey(m, j), ChildKey(m, i))}
    IN [m EXCEPT !.current = IF best = {} THEN 0 ELSE Min(best)]
FindLargest(m) ==
    LET best == {i \in ValidChildren(m) :
                    \A j \in ValidChildren(m) : ~Before(ChildKey(m, i), ChildKey(m, j))}
    IN [m EXCEPT !.current = IF best = {} THEN 0 ELSE Max(best)]

MergeValid(m) == m.current # 0
MergeEntry(m) == ChildEntry(m, m.current)
MergeKey(m)   == ChildKey(m, m.current)

Each(m, move(_, _)) == [m EXCEPT !.children = [i \in DOMAIN @ |-> move(@[i], Blocks(i))]]
MergeFirst(m) == FindSmallest([Each(m, ChildFirst) EXCEPT !.forward = TRUE])
MergeLast(m)  == FindLargest([Each(m, ChildLast) EXCEPT !.forward = FALSE])
MergeSeek(m, target) ==
    FindSmallest([Each(m, LAMBDA t, blocks : ChildSeek(t, blocks, target)) EXCEPT !.forward = TRUE])

\* Turning around: the other children are put after the key, or before it.
Others(m, move(_, _)) ==
    [m EXCEPT !.children = [i \in DOMAIN @ |-> IF i = m.current THEN @[i] ELSE move(@[i], Blocks(i))]]
PastKey(u, blocks, key) ==
    IF u.block # 0 /\ EntryKey(blocks[u.block].entries[u.at]) = key THEN ChildNext(u, blocks) ELSE u
AfterKey(m) ==
    Others(m, LAMBDA t, blocks : PastKey(ChildSeek(t, blocks, MergeKey(m)), blocks, MergeKey(m)))
OneBack(u, blocks) == IF u.block # 0 THEN ChildPrev(u, blocks) ELSE ChildLast(u, blocks)
BeforeKey(m) == Others(m, LAMBDA t, blocks : OneBack(ChildSeek(t, blocks, MergeKey(m)), blocks))

Advance(m) == FindSmallest([m EXCEPT !.forward = TRUE,
                                     !.children[m.current] = ChildNext(@, Blocks(m.current))])
Retreat(m) == FindLargest([m EXCEPT !.forward = FALSE,
                                    !.children[m.current] = ChildPrev(@, Blocks(m.current))])

\* Mutant: turning around leaves the other children where they are.
MergeNextStraight(m) == Advance(m)

MergeNext(m) == Advance(IF m.forward THEN m ELSE AfterKey(m))
MergePrev(m) == Retreat(IF m.forward THEN BeforeKey(m) ELSE m)

-----------------------------------------------------------------------------
(* DBIter: [merge, forward, valid, saved_key, saved_value].  A loop is a fold   *)
(* over as many turns as there are entries.                                    *)

Entries == UNION {UNION {ToSet(b.entries) : b \in ToSet(c)} : c \in ToSet(source.children)}
Loop(turn(_), d) ==
    [FoldLeft(LAMBDA s, i : IF s.done THEN s ELSE turn(s), [d EXCEPT !.done = FALSE],
              [i \in 1 .. Cardinality(Entries) + 1 |-> i])
     EXCEPT !.done = TRUE, !.skipping = FALSE]

Invalid(d) == [d EXCEPT !.valid = FALSE, !.saved_key = 0, !.done = TRUE]

\* Forward to the first entry that is visible, not deleted and not hidden.
FindNextUserEntry(d, skipping) ==
    LET e(s) == MergeEntry(s.merge)
        visible(s) == e(s)[2] <= source.sequence
        deleted(s) == visible(s) /\ e(s)[3] = 0
        turn(s) ==
            IF ~MergeValid(s.merge) THEN Invalid(s)
            ELSE IF visible(s) /\ ~deleted(s) /\ ~(s.skipping /\ e(s)[1] <= s.saved_key)
            THEN [s EXCEPT !.valid = TRUE, !.saved_key = 0, !.saved_value = 0, !.done = TRUE]
            ELSE [s EXCEPT !.merge = MergeNext(@),
                           !.saved_key = IF deleted(s) THEN e(s)[1] ELSE @,
                           !.skipping = @ \/ deleted(s)]
    IN Loop(turn, [d EXCEPT !.skipping = skipping])

\* Backward over all entries of a user key, to the one that counts.
EndOfPrev(d) ==
    IF d.found THEN [d EXCEPT !.valid = TRUE, !.found = FALSE]
    ELSE [Invalid(d) EXCEPT !.forward = TRUE, !.saved_value = 0]

FindPrevUserEntry(d) ==
    LET e(s) == MergeEntry(s.merge)
        visible(s) == e(s)[2] <= source.sequence
        enough(s) == visible(s) /\ s.found /\ e(s)[1] < s.saved_key
        turn(s) ==
            IF ~MergeValid(s.merge) \/ enough(s) THEN [s EXCEPT !.done = TRUE]
            ELSE [s EXCEPT !.merge = MergePrev(@),
                           !.found = IF visible(s) THEN e(s)[3] # 0 ELSE @,
                           !.saved_key = IF ~visible(s) THEN @ ELSE IF e(s)[3] = 0 THEN 0 ELSE e(s)[1],
                           !.saved_value = IF visible(s) THEN e(s)[3] ELSE @]
    IN EndOfPrev(Loop(turn, [d EXCEPT !.found = FALSE]))

At(d) == IF ~d.valid THEN 0 ELSE IF d.forward THEN MergeEntry(d.merge)[1] ELSE d.saved_key
ValueAt(d) == IF d.forward THEN MergeEntry(d.merge)[3] ELSE d.saved_value

IterSeekToFirst ==
    /\ dbiter' = FindNextUserEntry([dbiter EXCEPT !.merge = MergeFirst(@), !.forward = TRUE], FALSE)
    /\ UNCHANGED source

IterSeekToLast ==
    /\ dbiter' = FindPrevUserEntry([dbiter EXCEPT !.merge = MergeLast(@), !.forward = FALSE])
    /\ UNCHANGED source

IterSeek(k) ==
    /\ dbiter' = FindNextUserEntry([dbiter EXCEPT !.merge = MergeSeek(@, LatestOf(k)), !.forward = TRUE], FALSE)
    /\ UNCHANGED source

\* From the backward direction, where the entries of the key are still ahead.
IterNext ==
    /\ dbiter.valid
    /\ dbiter' = FindNextUserEntry(
           [dbiter EXCEPT !.saved_key = At(dbiter), !.forward = TRUE,
                          !.merge = IF dbiter.forward THEN @
                                    ELSE IF MergeValid(@) THEN MergeNext(@) ELSE MergeFirst(@)], TRUE)
    /\ UNCHANGED source

\* From the forward direction, first before all entries of the key.
IterPrev ==
    LET turn(s) ==
            IF MergeValid(s.merge) /\ MergeEntry(s.merge)[1] >= s.saved_key
            THEN [s EXCEPT !.merge = MergePrev(@)]
            ELSE [s EXCEPT !.done = TRUE]
    IN /\ dbiter.valid
       /\ dbiter' = FindPrevUserEntry(
              IF dbiter.forward
              THEN [Loop(turn, [dbiter EXCEPT !.saved_key = At(dbiter)]) EXCEPT !.forward = FALSE]
              ELSE dbiter)
       /\ UNCHANGED source

NewIterator(s) ==
    [merge |-> [children |-> [i \in DOMAIN s.children |-> NewChild],
                current |-> 0, forward |-> TRUE],
     forward |-> TRUE, valid |-> FALSE, saved_key |-> 0, saved_value |-> 0,
     skipping |-> FALSE, found |-> FALSE, done |-> TRUE]

IterInitFrom(S) == source \in S /\ dbiter = NewIterator(source)
IterInit == IterInitFrom(Sources)

UserKeysOf == {e[1] : e \in Entries}
IterNextStep ==
    \/ IterSeekToFirst \/ IterSeekToLast \/ IterNext \/ IterPrev
    \/ \E k \in UserKeysOf : IterSeek(k)

IterSpec == IterInit /\ [][IterNextStep]_iterVars

-----------------------------------------------------------------------------
(* Properties *)

\* What a user sees at the sequence number: the newest entry of each key up to
\* it, unless it is a deletion.
LatestEntry(k) ==
    LET visible == {e \in Entries : e[1] = k /\ e[2] <= source.sequence}
    IN IF visible = {} THEN <<k, 0, 0>> ELSE CHOOSE e \in visible : \A f \in visible : f[2] <= e[2]
Shown == {k \in UserKeysOf : LatestEntry(k)[3] # 0}
AtLeast(S) == IF S = {} THEN 0 ELSE Min(S)
AtMost(S)  == IF S = {} THEN 0 ELSE Max(S)
Failed(d) == \E i \in DOMAIN d.merge.children : d.merge.children[i].failed

\* Wherever it turns, an iterator goes through the keys of its snapshot in order
\* and shows their latest values, or its status says that a block could not be
\* read (DBIter, MergingIterator, TwoLevelIterator).
IteratorShowsItsSnapshot ==
    [][dbiter' # dbiter /\ ~Failed(dbiter') =>
       LET at == At(dbiter)
           now == At(dbiter')
       IN /\ IterSeekToFirst => now = AtLeast(Shown)
          /\ IterSeekToLast => now = AtMost(Shown)
          /\ \A k \in UserKeysOf : IterSeek(k) => now = AtLeast({s \in Shown : s >= k})
          /\ IterNext => now = AtLeast({s \in Shown : s > at})
          /\ IterPrev => now = AtMost({s \in Shown : s < at})
          /\ dbiter'.valid => ValueAt(dbiter') = LatestEntry(now)[3]]_iterVars
=============================================================================
