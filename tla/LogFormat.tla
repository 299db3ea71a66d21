------------------------------ MODULE LogFormat ------------------------------
(***************************************************************************)
(* LevelDB's log files (log::Writer and log::Reader): a record is cut into *)
(* physical records that never cross a block, so that a reader that meets  *)
(* damage goes on at the next block.  Logs and manifests are such files.   *)
(*                                                                         *)
(* A physical record is its place in the file, its type, the length of its *)
(* payload and the record it is part of; checksums tell whether it is      *)
(* intact.  One step of the reader is one turn of the loop of ReadRecord.  *)
(***************************************************************************)
EXTENDS Integers, Sequences, FiniteSets, FiniteSetsExt, SequencesExt

CONSTANTS
    kBlockSize,
    kHeaderSize,
    RecordSizes,        \* what is written: lengths of records
    MaxRecords,         \* bound: calls of AddRecord
    MaxFaults           \* bound: failed appends, damage and crashes

ASSUME LogAssumption ==
    /\ kHeaderSize \in Nat \ {0} /\ kBlockSize \in Nat /\ kBlockSize > kHeaderSize
    /\ RecordSizes \subseteq Nat /\ {MaxRecords, MaxFaults} \subseteq Nat

VARIABLES
    logfile,     \* what is on disk: its size and its physical records
    writer,      \* log::Writer: block_offset_, and the sizes it was given
    faults,      \* history variable: what went wrong, and where
    reader       \* log::Reader, with what it returned and what it reported

logVars == <<logfile, writer, faults, reader>>

NoReader == [pos |-> 0, end |-> 0, eof |-> FALSE, initial_offset |-> 0, resyncing |-> FALSE,
             fragmented |-> FALSE, scratch |-> <<>>, out |-> <<>>, reports |-> 0, phase |-> "closed"]

\* A Writer, with what it was asked to add.
NewWriter == [block_offset |-> 0, sizes |-> <<>>]

LogInit ==
    /\ logfile = [size |-> 0, records |-> {}]
    /\ writer = NewWriter
    /\ faults = {}
    /\ reader = NoReader

Writing == reader.phase = "closed"

-----------------------------------------------------------------------------
(* The writer *)

\* The physical records of a record: what fits into each block, after a trailer
\* that is too small for a header.
Fragments(size, block_offset) ==
    LET cut[left \in 0 .. size, offset \in 0 .. kBlockSize, begin \in BOOLEAN] ==
            LET trailer == IF kBlockSize - offset < kHeaderSize THEN kBlockSize - offset ELSE 0
                start == IF kBlockSize - offset < kHeaderSize THEN 0 ELSE offset
                avail == kBlockSize - start - kHeaderSize
                length == IF left < avail THEN left ELSE avail
                type == CASE begin /\ length = left -> "Full"
                          [] begin /\ length < left -> "First"
                          [] ~begin /\ length = left -> "Last"
                          [] OTHER -> "Middle"
            IN <<[trailer |-> trailer, type |-> type, length |-> length,
                  block_offset |-> start + kHeaderSize + length]>>
               \o IF length = left THEN <<>> ELSE cut[left - length, start + kHeaderSize + length, FALSE]
    IN cut[size, block_offset, TRUE]

\* Where they are in the file.
Placed(fragments, from, record) ==
    {[at |-> from + FoldLeft(LAMBDA n, j : n + fragments[j].trailer + kHeaderSize + fragments[j].length,
                             0, [j \in 1 .. i - 1 |-> j]) + fragments[i].trailer,
      type |-> fragments[i].type, length |-> fragments[i].length,
      record |-> record, part |-> i, state |-> "intact"] : i \in DOMAIN fragments}

EndOf(p) == p.at + kHeaderSize + p.length
Extent(records) == Max({0} \cup {EndOf(p) : p \in records})

AddRecord(size) ==
    /\ Writing /\ Len(writer.sizes) < MaxRecords
    /\ LET fragments == Fragments(size, writer.block_offset)
           placed == Placed(fragments, logfile.size, Len(writer.sizes) + 1)
       IN /\ logfile' = [size |-> Extent(placed), records |-> logfile.records \cup placed]
          /\ writer' = [block_offset |-> Last(fragments).block_offset,
                        sizes |-> Append(writer.sizes, size)]
    /\ UNCHANGED <<faults, reader>>

\* A file cut off: a physical record may have lost its end, or even its header.
CutOff(records, size) ==
    {IF EndOf(p) <= size THEN p
     ELSE [p EXCEPT !.state = IF p.at + kHeaderSize <= size THEN "torn" ELSE "headless"] :
        p \in {q \in records : q.at < size}}

\* An append fails somewhere in a physical record; block_offset_ advances over
\* it all the same, and the writer may be used again.
AddRecordFails(size) ==
    /\ Writing /\ Len(writer.sizes) < MaxRecords /\ Cardinality(faults) < MaxFaults
    /\ LET fragments == Fragments(size, writer.block_offset)
           placed == Placed(fragments, logfile.size, Len(writer.sizes) + 1)
       IN \E p \in placed : \E cut \in p.at .. EndOf(p) - 1 :
              /\ logfile' = [size |-> cut, records |-> logfile.records \cup CutOff(placed, cut)]
              /\ faults' = faults \cup {[kind |-> "append", at |-> cut]}
              /\ writer' = [block_offset |-> fragments[p.part].block_offset,
                            sizes |-> Append(writer.sizes, size)]
    /\ UNCHANGED reader

-----------------------------------------------------------------------------
(* The disk *)

\* A physical record gets damaged, its payload, its header, or both zeroed.
Corrupt ==
    /\ Writing /\ Cardinality(faults) < MaxFaults
    /\ \E p \in logfile.records, state \in {"payload", "header", "zeros"} :
          /\ logfile' = [logfile EXCEPT !.records = (@ \ {p}) \cup {[p EXCEPT !.state = state]}]
          /\ faults' = faults \cup {[kind |-> "damage", at |-> p.at]}
    /\ UNCHANGED <<writer, reader>>

\* A crash leaves a part of the file.
Truncate ==
    /\ Writing /\ Cardinality(faults) < MaxFaults
    /\ \E size \in 0 .. logfile.size - 1 :
          /\ logfile' = [size |-> size, records |-> CutOff(logfile.records, size)]
          /\ faults' = faults \cup {[kind |-> "crash", at |-> size]}
          /\ reader' = [reader EXCEPT !.phase = "crashed"]
    /\ UNCHANGED writer

-----------------------------------------------------------------------------
(* The reader *)

\* SkipToInitialBlock: the first block that can hold a record at the offset.
InitialBlock(offset) ==
    LET in_block == offset % kBlockSize
    IN offset - in_block + IF in_block > kBlockSize - (kHeaderSize - 1) THEN kBlockSize ELSE 0

OpenReader(offset) ==
    /\ reader.phase \in {"closed", "crashed"}
    /\ reader' = [NoReader EXCEPT !.phase = "reading", !.initial_offset = offset,
                                  !.resyncing = offset > 0,
                                  !.pos = InitialBlock(offset), !.end = InitialBlock(offset)]
    /\ UNCHANGED <<logfile, writer, faults>>

\* A block is read when less than a header is left of the last one.
Filled(r) ==
    IF r.end - r.pos >= kHeaderSize \/ r.eof THEN r
    ELSE LET got == Min({kBlockSize, Max({0, logfile.size - r.end})})
         IN [r EXCEPT !.pos = r.end, !.end = r.end + got, !.eof = got < kBlockSize]

Dropped(r, bytes) ==
    IF r.end - (r.end - r.pos) - bytes >= r.initial_offset \/ r.pos < bytes
    THEN [r EXCEPT !.reports = @ + 1] ELSE r
EmptyBuffer(r) == [r EXCEPT !.pos = r.end]

\* What ReadPhysicalRecord returns: the reader, the type, and what was read.  A
\* header that is not one may say anything.
Nothing == [length |-> 0]
Bad(r)      == [reader |-> Dropped(EmptyBuffer(r), r.end - r.pos), type |-> "Bad", fragment |-> Nothing]
AtEof(r)    == [reader |-> EmptyBuffer(r), type |-> "Eof", fragment |-> Nothing]
TooLong(r)  == IF r.eof THEN AtEof(r) ELSE Bad(r)
SkippedRecord(r)  == [reader |-> EmptyBuffer(r), type |-> "Bad", fragment |-> Nothing]
Taken(r, p) ==
    LET after == [r EXCEPT !.pos = EndOf(p)]
    IN IF p.at < r.initial_offset THEN [reader |-> after, type |-> "Bad", fragment |-> Nothing]
       ELSE [reader |-> after, type |-> p.type, fragment |-> p]

ReadPhysicalRecord ==
    LET r == Filled(reader)
        here == {p \in logfile.records : p.at = r.pos /\ p.state \notin {"header", "headless"}}
    IN IF r.end - r.pos < kHeaderSize THEN {AtEof(r)}
       ELSE IF here = {} THEN {Bad(r), TooLong(r), SkippedRecord(r)}
       ELSE {IF p.state = "zeros" THEN SkippedRecord(r)
             ELSE IF EndOf(p) > r.end THEN TooLong(r)
             ELSE IF p.state # "intact" THEN Bad(r)
             ELSE Taken(r, p) : p \in here}

\* A record is begun, continued or ended.  The bytes of what is dropped only
\* matter for the place that is compared with the initial offset.
ScratchBytes(ps) == FoldLeft(LAMBDA n, p : n + p.length, 0, ps)
Begin(r, p)  == [r EXCEPT !.fragmented = TRUE, !.scratch = <<p>>]
Abandon(r)   == [r EXCEPT !.fragmented = FALSE, !.scratch = <<>>]
Return(r, ps) == [Abandon(r) EXCEPT !.out = Append(@, ps)]
\* A partial record before a new one; an empty one is not reported.
Unfinished(r) ==
    IF r.fragmented /\ ScratchBytes(r.scratch) > 0 THEN Dropped(r, ScratchBytes(r.scratch)) ELSE r

\* Mutant: a damaged part of a record is passed over.
HandleKeeping(r, type, p) ==
    CASE type = "Full" -> Return(Unfinished(r), <<p>>)
      [] type = "First" -> Begin(Unfinished(r), p)
      [] type \in {"Middle", "Last"} /\ ~r.fragmented -> Dropped(r, p.length)
      [] type = "Middle" /\ r.fragmented -> [r EXCEPT !.scratch = Append(@, p)]
      [] type = "Last" /\ r.fragmented -> Return(r, Append(r.scratch, p))
      [] type = "Eof" -> [Abandon(r) EXCEPT !.phase = "done"]
      [] OTHER -> r

Handle(r, type, p) ==
    CASE type = "Full" -> Return(Unfinished(r), <<p>>)
      [] type = "First" -> Begin(Unfinished(r), p)
      [] type \in {"Middle", "Last"} /\ ~r.fragmented -> Dropped(r, p.length)
      [] type = "Middle" /\ r.fragmented -> [r EXCEPT !.scratch = Append(@, p)]
      [] type = "Last" /\ r.fragmented -> Return(r, Append(r.scratch, p))
      [] type = "Eof" -> [Abandon(r) EXCEPT !.phase = "done"]
      [] OTHER -> IF r.fragmented THEN Abandon(Dropped(r, ScratchBytes(r.scratch))) ELSE r

ReadRecord ==
    /\ reader.phase = "reading"
    /\ \E read \in ReadPhysicalRecord :
          LET r == read.reader
          IN reader' = IF r.resyncing /\ read.type = "Middle" THEN r
                       ELSE IF r.resyncing /\ read.type = "Last" THEN [r EXCEPT !.resyncing = FALSE]
                       ELSE Handle([r EXCEPT !.resyncing = FALSE], read.type, read.fragment)
    /\ UNCHANGED <<logfile, writer, faults>>

-----------------------------------------------------------------------------
LogNext ==
    \/ \E size \in RecordSizes : AddRecord(size) \/ AddRecordFails(size)
    \/ Corrupt \/ Truncate
    \/ \E offset \in 0 .. logfile.size : (faults # {} => offset = 0) /\ OpenReader(offset)
    \/ ReadRecord

LogSpec == LogInit /\ [][LogNext]_logVars

-----------------------------------------------------------------------------
(* Properties *)

PartsOf(n) == {p \in logfile.records : p.record = n}
CompleteRecord(n) ==
    /\ PartsOf(n) # {} /\ \A p \in PartsOf(n) : p.state = "intact"
    /\ \E p \in PartsOf(n) : p.type \in {"Full", "Last"}
BlockOf(at) == at \div kBlockSize

\* Whatever was damaged, a record the reader returns is one that was written,
\* whole and not put together from parts of others, in the order of writing and
\* none twice (log::Reader::ReadRecord).
LogReturnsWholeRecords ==
    /\ \A i \in DOMAIN reader.out :
           /\ CompleteRecord(reader.out[i][1].record)
           /\ ToSet(reader.out[i]) = PartsOf(reader.out[i][1].record)
           /\ \A j \in DOMAIN reader.out[i] : reader.out[i][j].part = j
    /\ \A i, j \in DOMAIN reader.out : i < j => reader.out[i][1].record < reader.out[j][1].record

\* Damage stays in its block: a record with no part at or behind damage in the
\* same block is returned, and so is every record when there is none; a reader
\* that starts at an offset returns all that begin there or later.  A crash
\* alone is never reported.  (A failed append that the writer went on after is
\* excepted: it puts the blocks of the writer out of step with the reader's.)
LogDamageStaysInItsBlock ==
    reader.phase = "done" /\ (\A f \in faults : f.kind # "append") =>
        /\ \A n \in DOMAIN writer.sizes :
               /\ CompleteRecord(n)
               /\ \A p \in PartsOf(n) : p.at >= reader.initial_offset
               /\ \A p \in PartsOf(n), f \in faults :
                      f.kind = "damage" => BlockOf(p.at) # BlockOf(f.at) \/ p.at < f.at
               => \E i \in DOMAIN reader.out : reader.out[i][1].record = n
        /\ (\A f \in faults : f.kind = "crash") /\ reader.initial_offset = 0 => reader.reports = 0

\* What recovery relies on (VersionSet::Recover, DBImpl::RecoverLogFile): nothing but
\* what was written comes out of a log, and damage or a crash costs no more than it hit.
LogIsReadBack == LogReturnsWholeRecords /\ LogDamageStaysInItsBlock
=============================================================================
