------------------------------- MODULE DBImpl -------------------------------
(***************************************************************************)
(* LevelDB's DBImpl and VersionSet: the write queue with its group commit, *)
(* the log, the memtables, the background thread that flushes and          *)
(* compacts, the manifest, recovery, and reads that run without the mutex. *)
(*                                                                         *)
(* A step is what a thread does while it holds mutex_, or one of the       *)
(* pieces of file I/O done without it.  The process may be killed or the   *)
(* power may fail between any two steps.                                   *)
(***************************************************************************)
EXTENDS Versions, Functions

CONSTANTS
    Writers,                     \* the threads that call Write
    Readers,                     \* the threads that call Get or use an iterator
    Batches,                     \* what they write: sequences of [key, put]
    write_buffer_size,           \* entries in a memtable with room for more
    kL0_SlowdownWritesTrigger,
    kL0_StopWritesTrigger,
    MaxGroup,                    \* operations in a group (BuildBatchGroup)
    Compactor,                   \* the thread that calls CompactRange
    Ranges,                      \* and the ranges it asks for
    Budgets                      \* bounds on the environment's actions, and who writes how

ASSUME DBImplAssumption ==
    /\ Batches \subseteq Seq([key : Keys, put : BOOLEAN]) /\ <<>> \notin Batches
    /\ {write_buffer_size, kL0_SlowdownWritesTrigger, kL0_StopWritesTrigger, MaxGroup} \subseteq Nat
    /\ kL0_CompactionTrigger <= kL0_StopWritesTrigger
    /\ Compactor \notin Writers

VARIABLES
    disk,                \* the files: logs, tables, manifests, and what CURRENT names
    status,              \* of the process: "down", "opening", "open" or "closing"
    vset,                \* VersionSet
    mem, imm,            \* the memtables, by the number of their log; 0 is NULL
    memtables,           \* the entries of each memtable somebody refers to
    writers,             \* writers_
    leader,              \* the locals of the thread at the front of writers_
    bg_compaction_scheduled,
    bg,                  \* the locals of the background thread
    pending_outputs,
    bg_error,            \* ~bg_error_.ok()
    manual_compaction,   \* manual_compaction_ # NULL
    caller,              \* the locals of CompactRange, its ManualCompaction among them
    snapshots,           \* the sequence numbers of snapshots_
    reads,               \* what each read holds a reference to
    history,             \* history variable: the batches in the logs, in order
    budget               \* what the environment may still do

files  == <<disk, history>>
queue  == <<writers, leader>>
tables == <<mem, imm, memtables>>
work   == <<bg_compaction_scheduled, bg, pending_outputs>>
manual == <<manual_compaction, caller>>
client == <<snapshots, reads>>
vars   == <<files, status, vset, tables, queue, work, bg_error, manual, client, budget>>

NULL == 0
NoRead == [seq |-> -1]
NoLeader == [pc |-> "room", forced |-> FALSE, delayed |-> FALSE, group |-> 0, ok |-> TRUE]
NoCompaction == [level |-> -1]
NoEdit == [kind |-> "none"]
NoWork == [pc |-> "idle", number |-> NULL, is_manual |-> FALSE, compaction |-> NoCompaction,
           todo |-> <<>>, outputs |-> {}, edit |-> NoEdit]
NoCaller == [pc |-> "idle", level |-> 0, max_level |-> 0, whole |-> <<0, 0>>, range |-> <<0, 0>>,
             done |-> FALSE]
NoVersions == [current |-> EmptyVersion, file_to_compact |-> {}, next_file_number |-> 0,
               last_sequence |-> 0, log_number |-> 0, manifest_file_number |-> 0,
               compact_pointer |-> [l \in Levels |-> <<0, 0>>]]

Spend(what) == budget[what] > 0 /\ budget' = [budget EXCEPT ![what] = @ - 1]

InitProcess ==
    /\ status = "down"
    /\ vset = NoVersions
    /\ mem = NULL /\ imm = NULL /\ memtables = <<>>
    /\ writers = <<>> /\ leader = NoLeader
    /\ bg_compaction_scheduled = FALSE /\ bg = NoWork /\ pending_outputs = {}
    /\ bg_error = FALSE
    /\ manual_compaction = FALSE /\ caller = NoCaller
    /\ snapshots = <<>> /\ reads = [r \in Readers |-> NoRead]

Init ==
    /\ disk = [logs |-> <<>>, tables |-> <<>>, manifests |-> <<>>, current |-> 0]
    /\ InitProcess
    /\ history = <<>>
    /\ budget \in Budgets

-----------------------------------------------------------------------------
(* Files *)

\* A log: its records, how many of them are forced to disk, whether an append
\* to it failed and left log::Writer out of step with the file (block_offset_),
\* and the records written since that log::Reader will drop.
NewLog == [records |-> <<>>, synced |-> 0, damaged |-> FALSE, dropped |-> {}]
Put(f, x, y) == [z \in DOMAIN f \cup {x} |-> IF z = x THEN y ELSE f[z]]

\* Versions that something holds a reference to.
LiveVersions(current, b, rs) ==
    {current} \cup {rs[r].version : r \in {q \in Readers : rs[q] # NoRead}}
    \cup (IF b.compaction = NoCompaction THEN {} ELSE {b.compaction.version})

\* What is left on disk after the files that nothing needs are gone.
DeleteObsoleteFiles(d, vs, live, error) ==
    IF error THEN d
    ELSE [d EXCEPT !.logs = Restrict(@, {n \in DOMAIN @ : n >= vs.log_number}),
                   !.manifests = Restrict(@, {n \in DOMAIN @ : n >= vs.manifest_file_number}),
                   !.tables = Restrict(@, DOMAIN @ \cap live)]

\* A memtable lives as long as the store or a read refers to it.
Unreferenced(ms, m, i, rs) ==
    Restrict(ms, DOMAIN ms \cap ({m, i} \cup UNION {{rs[r].mem, rs[r].imm} :
                                     r \in {q \in Readers : rs[q] # NoRead}}))

\* MaybeScheduleCompaction.
Scheduled(already, vs, i, man, error) ==
    \/ already
    \/ /\ status \in {"open", "opening"}
       /\ ~error
       /\ i # NULL \/ man \/ NeedsCompaction(vs.current, vs.file_to_compact)

\* The first half of LogAndApply: the edit with the counters of this moment.
EditFor(kind, version_edit, log_number, vs) ==
    [kind |-> kind, version_edit |-> version_edit, log_number |-> log_number,
     next_file |-> vs.next_file_number, last_sequence |-> vs.last_sequence]

\* What a manifest says once the edit's record is in it.
Folded(base, pointers, e) ==
    [files |-> ApplyEdit(base, e.version_edit),
     log_number |-> e.log_number, next_file |-> e.next_file, last_sequence |-> e.last_sequence,
     compact_pointer |-> ApplyPointers(pointers, e.version_edit)]

-----------------------------------------------------------------------------
(* Opening *)

NewDB ==
    /\ status = "down" /\ disk.current = 0
    /\ disk' = [disk EXCEPT !.current = 1,
                    !.manifests = Put(@, 1,
                        [files |-> EmptyVersion, log_number |-> 0, next_file |-> 2,
                         last_sequence |-> 0, compact_pointer |-> NoVersions.compact_pointer])]
    /\ UNCHANGED <<status, history, vset, tables, queue, work, bg_error, manual, client, budget>>

\* RecoverLogFile, log after log: the records that the reader returns go to
\* memtables, and each memtable to a table of level 0; what the reader drops is
\* only reported (paranoid_checks is off).  What is done so far: the next file
\* number, the memtable, and the tables with their numbers.
WriteLevel0Table(s) ==
    IF s.mem = {} THEN s
    ELSE [next |-> s.next + 1, mem |-> {}, written |-> Append(s.written, <<s.next, s.mem>>)]
InsertInto(s, record) ==
    LET t == [s EXCEPT !.mem = @ \cup record]
    IN IF Cardinality(t.mem) > write_buffer_size THEN WriteLevel0Table(t) ELSE t
RecoverLogFile(s, n) ==
    LET records == disk.logs[n].records
        inserted[i \in 0 .. Len(records)] ==
            IF i = 0 THEN s
            ELSE IF i \in disk.logs[n].dropped THEN inserted[i - 1]
            ELSE InsertInto(inserted[i - 1], records[i])
        t == WriteLevel0Table(inserted[Len(records)])
    IN [t EXCEPT !.next = IF @ <= n THEN n + 1 ELSE @]   \* MarkFileNumberUsed
RecoverLogs(m) ==
    LET logs == InOrder({n \in DOMAIN disk.logs : n >= m.log_number}, <)
        recovered[i \in 0 .. Len(logs)] ==
            IF i = 0 THEN [next |-> m.next_file + 1, mem |-> {}, written |-> <<>>]
            ELSE RecoverLogFile(recovered[i - 1], logs[i])
    IN recovered[Len(logs)]

Open ==
    /\ status = "down" /\ disk.current # 0
    /\ LET m == disk.manifests[disk.current]
           r == RecoverLogs(m)
           recovered == {r.written[i][2] : i \in DOMAIN r.written}
           seqs == {m.last_sequence} \cup {e.seq : e \in UNION recovered}
           new == {<<0, FileMetaData(r.written[i][1], r.written[i][2])>> : i \in DOMAIN r.written}
           vs == [current |-> m.files, file_to_compact |-> {}, next_file_number |-> r.next + 1,
                  last_sequence |-> CHOOSE s \in seqs : \A t \in seqs : t <= s,
                  log_number |-> m.log_number, manifest_file_number |-> m.next_file,
                  compact_pointer |-> m.compact_pointer]
       IN /\ NumbersOf(m.files) \subseteq DOMAIN disk.tables
          /\ vset' = vs
          /\ mem' = r.next /\ memtables' = [n \in {r.next} |-> {}]
          /\ disk' = [disk EXCEPT
                         !.logs = Put(@, r.next, NewLog),
                         !.tables = [n \in DOMAIN @ \cup {r.written[i][1] : i \in DOMAIN r.written} |->
                             LET w == {i \in DOMAIN r.written : r.written[i][1] = n}
                             IN IF w = {} THEN disk.tables[n] ELSE UNION {r.written[i][2] : i \in w}]]
          /\ bg' = [bg EXCEPT !.pc = "manifest",
                              !.edit = EditFor("open", VersionEdit({}, new, {}), r.next, vs)]
    /\ status' = "opening"
    /\ UNCHANGED <<history, imm, queue, bg_compaction_scheduled, pending_outputs, bg_error,
                   manual, client, budget>>

-----------------------------------------------------------------------------
(* Writing *)

Write(w, batch, sync) ==
    /\ status = "open" /\ Spend("writes") /\ w \in budget.threads /\ sync \in budget.syncs
    /\ ~\E i \in DOMAIN writers : writers[i].who = w
    /\ writers' = Append(writers, [who |-> w, ops |-> batch, sync |-> sync])
    /\ UNCHANGED <<files, status, vset, tables, leader, work, bg_error, manual, client>>

\* The loop of MakeRoomForWrite, one pass of it at a time.
FirstWriter == Head(writers)
NumLevelFiles(l) == Cardinality(vset.current[l])
ForceSwitch == FirstWriter.ops = <<>> /\ ~leader.forced
MustDelay == /\ FirstWriter.ops # <<>> /\ ~leader.delayed
             /\ NumLevelFiles(0) >= kL0_SlowdownWritesTrigger
HasRoom == ~ForceSwitch /\ Cardinality(memtables[mem]) <= write_buffer_size
Leading == writers # <<>> /\ leader.pc = "room"

DelayWrite ==
    /\ Leading /\ ~bg_error /\ MustDelay
    /\ leader' = [leader EXCEPT !.delayed = TRUE]
    /\ UNCHANGED <<files, status, vset, tables, writers, work, bg_error, manual, client, budget>>

MaySwitch ==
    /\ Leading /\ ~bg_error /\ ~MustDelay /\ ~HasRoom
    /\ imm = NULL /\ NumLevelFiles(0) < kL0_StopWritesTrigger

SwitchMemtable ==
    /\ MaySwitch
    /\ LET n == vset.next_file_number
       IN /\ vset' = [vset EXCEPT !.next_file_number = n + 1]
          /\ disk' = [disk EXCEPT !.logs = Put(@, n, NewLog)]
          /\ mem' = n /\ imm' = mem
          /\ memtables' = Put(memtables, n, {})
    /\ leader' = [leader EXCEPT !.forced = TRUE]
    /\ bg_compaction_scheduled' =
           Scheduled(bg_compaction_scheduled, vset, imm', manual_compaction, bg_error)
    /\ UNCHANGED <<history, status, writers, bg, pending_outputs, bg_error, manual, client, budget>>

\* The thread leaves the queue with an error: the background error, or that of
\* a log that could not be made (its number is used again).
FailWrite ==
    /\ Leading
    /\ \/ bg_error /\ UNCHANGED budget
       \/ MaySwitch /\ Spend("errors")
    /\ writers' = Tail(writers) /\ leader' = NoLeader
    /\ caller' = IF FirstWriter.who = Compactor THEN [caller EXCEPT !.pc = "range"] ELSE caller
    /\ UNCHANGED <<files, status, vset, tables, work, bg_error, manual_compaction, client>>

\* A NULL batch only makes room.
FinishNullWrite ==
    /\ Leading /\ ~bg_error /\ HasRoom /\ FirstWriter.ops = <<>>
    /\ writers' = Tail(writers) /\ leader' = NoLeader
    /\ caller' = [caller EXCEPT !.pc = "imm"]
    /\ UNCHANGED <<files, status, vset, tables, work, bg_error, manual_compaction, client, budget>>

\* Mutant: a write that asks for a sync joins one that does not.
BuildAnyBatchGroup ==
    LET size(n) == FoldLeft(LAMBDA s, w : s + Len(w.ops), 0, SubSeq(writers, 1, n))
    IN CHOOSE n \in DOMAIN writers :
           /\ \A i \in 2 .. n : size(i) <= MaxGroup
           /\ n = Len(writers) \/ size(n + 1) > MaxGroup

\* How many writers the one at the front takes along.
BuildBatchGroup ==
    LET size(n) == FoldLeft(LAMBDA s, w : s + Len(w.ops), 0, SubSeq(writers, 1, n))
        joins(n) == /\ ~(writers[n].sync /\ ~FirstWriter.sync)
                    /\ writers[n].ops = <<>> \/ size(n) <= MaxGroup
    IN CHOOSE n \in DOMAIN writers :
           /\ \A i \in 2 .. n : joins(i)
           /\ n = Len(writers) \/ ~joins(n + 1)

\* The entries of a group: its operations with consecutive sequence numbers.
ValueFor(op, id) == IF op.put THEN id ELSE Deleted
GroupOps(first) ==
    FlattenSeq([i \in 1 .. BuildBatchGroup |->
        [j \in DOMAIN writers[i].ops |->
            [key |-> writers[i].ops[j].key, val |-> ValueFor(writers[i].ops[j], first + i)]]])
GroupEntries(ops) ==
    {[key |-> ops[j].key, seq |-> vset.last_sequence + j, val |-> ops[j].val] : j \in DOMAIN ops}

\* Identifiers of batches count up; 0 is Deleted.
LastId == FoldLeft(LAMBDA m, b : IF b.id > m THEN b.id ELSE m, 0, history)

Logged(first, hurt) ==
    LET all == [i \in 1 .. BuildBatchGroup |->
                   [id |-> first + i, sync |-> writers[i].sync, applied |-> FALSE, durable |-> FALSE,
                    after_failure |-> hurt, log |-> mem, record |-> Len(disk.logs[mem].records) + 1,
                    ops |-> [j \in DOMAIN writers[i].ops |->
                                [key |-> writers[i].ops[j].key,
                                 val |-> ValueFor(writers[i].ops[j], first + i)]]]]
    IN Subsequence(all, {i \in DOMAIN all : all[i].ops # <<>>})

\* Forcing a log to disk makes all its batches durable that can be read from it.
Harden(h, log, dropped) ==
    [i \in DOMAIN h |->
        [h[i] EXCEPT !.durable = @ \/ (h[i].log = log /\ h[i].record \notin dropped)]]

\* AddRecord, Sync and InsertInto, without the mutex: one record for the group.
\* Only a failed sync is a background error; after a failed append the store
\* goes on with the same log and a block_offset_ that is wrong (hurt), and the
\* reader may drop what follows (lost).
WriteGroup ==
    /\ Leading /\ ~bg_error /\ ~MustDelay /\ HasRoom /\ FirstWriter.ops # <<>>
    /\ LET entries == GroupEntries(GroupOps(LastId))
           log == disk.logs[mem]
           number == Len(log.records) + 1
           written(hurt, lost) ==
               [disk EXCEPT !.logs[mem] =
                   [log EXCEPT !.records = Append(@, entries), !.damaged = hurt,
                               !.dropped = IF lost THEN @ \cup {number} ELSE @]]
           synced(d) == [d EXCEPT !.logs[mem].synced = number]
           then(pc, ok) == leader' = [leader EXCEPT !.pc = pc, !.group = BuildBatchGroup, !.ok = ok]
       IN \/ \* AddRecord fails; at most a part of the record is in the file
             /\ Spend("errors")
             /\ disk' = [disk EXCEPT !.logs[mem].damaged = TRUE]
             /\ then("logged", FALSE) /\ UNCHANGED <<history, memtables>>
          \/ \* AddRecord fails, but the whole record gets to the file
             /\ Spend("errors")
             /\ disk' = written(log.damaged, FALSE)
             /\ history' = history \o Logged(LastId, log.damaged)
             /\ then("logged", FALSE) /\ UNCHANGED memtables
          \/ \E hurt, lost \in BOOLEAN :
             /\ (log.damaged => hurt) /\ (lost => hurt)
             /\ \/ \* only the padding of a block can fail and not be noticed
                   /\ IF hurt = log.damaged THEN UNCHANGED budget ELSE Spend("errors")
                   /\ LET d == written(hurt, lost)
                          h == history \o Logged(LastId, hurt)
                      IN IF FirstWriter.sync
                         THEN disk' = synced(d) /\ history' = Harden(h, mem, d.logs[mem].dropped)
                         ELSE disk' = d /\ history' = h
                   /\ memtables' = [memtables EXCEPT ![mem] = @ \cup entries]
                   /\ then("logged", TRUE)
                \/ \* Sync fails
                   /\ FirstWriter.sync /\ Spend("errors")
                   /\ disk' = written(hurt, lost) /\ history' = history \o Logged(LastId, hurt)
                   /\ then("sync_error", FALSE) /\ UNCHANGED memtables
    /\ UNCHANGED <<status, vset, mem, imm, writers, work, bg_error, manual, client>>

\* The batches of the last record of the log took effect.
Apply(h) == [i \in DOMAIN h |->
                IF h[i].log = mem /\ h[i].record = Len(disk.logs[mem].records)
                THEN [h[i] EXCEPT !.applied = TRUE] ELSE h[i]]

\* With the mutex again: the sequence numbers are used up whatever happened.
FinishWrite ==
    /\ leader.pc \in {"logged", "sync_error"}
    /\ LET group == SubSeq(writers, 1, leader.group)
           count == FoldLeft(LAMBDA s, w : s + Len(w.ops), 0, group)
       IN /\ vset' = [vset EXCEPT !.last_sequence = @ + count]
          /\ history' = IF leader.ok THEN Apply(history) ELSE history
          /\ caller' = IF \E i \in DOMAIN group : group[i].who = Compactor
                       THEN [caller EXCEPT !.pc = IF leader.ok THEN "imm" ELSE "range"] ELSE caller
    /\ bg_error' = (bg_error \/ leader.pc = "sync_error")
    /\ writers' = SubSeq(writers, leader.group + 1, Len(writers))
    /\ leader' = NoLeader
    /\ UNCHANGED <<disk, status, tables, work, manual_compaction, client, budget>>

-----------------------------------------------------------------------------
(* Reading *)

GetSnapshot ==
    /\ status = "open" /\ Spend("snapshots")
    /\ snapshots' = Append(snapshots, vset.last_sequence)
    /\ UNCHANGED <<files, status, vset, tables, queue, work, bg_error, manual, reads>>

ReleaseSnapshot ==
    /\ status = "open"
    /\ \E i \in DOMAIN snapshots : snapshots' = RemoveAt(snapshots, i)
    /\ UNCHANGED <<files, status, vset, tables, queue, work, bg_error, manual, reads, budget>>

\* Get (of one key) or NewIterator (over all) take their references under the mutex.
BeginRead(r, keys, iterate) ==
    /\ status = "open" /\ reads[r] = NoRead /\ Spend("reads")
    /\ \E seq \in {vset.last_sequence} \cup ToSet(snapshots) :
           reads' = [reads EXCEPT ![r] = [seq |-> seq, keys |-> keys, iterate |-> iterate,
                                          mem |-> mem, imm |-> imm, version |-> vset.current]]
    /\ UNCHANGED <<files, status, vset, tables, queue, work, bg_error, manual, snapshots>>

\* What a read finds: an iterator merges all its sources, Get asks them in turn.
EntriesOf(m)  == IF m = NULL THEN {} ELSE memtables[m]
TablesOf(v)   == UNION {disk.tables[n] : n \in NumbersOf(v)}
InMemory(rd, k) ==
    LET m == Visible(EntriesOf(rd.mem), <<k, rd.seq>>)
    IN IF m # {} THEN m ELSE Visible(EntriesOf(rd.imm), <<k, rd.seq>>)
Find(rd, k) ==
    IF rd.iterate
    THEN ValueOf(Visible(EntriesOf(rd.mem) \cup EntriesOf(rd.imm) \cup TablesOf(rd.version),
                         <<k, rd.seq>>))
    ELSE IF InMemory(rd, k) # {} THEN ValueOf(InMemory(rd, k))
    ELSE ValueOf(VersionGet(rd.version, disk.tables, <<k, rd.seq>>))
Result(rd) == [k \in rd.keys |-> Find(rd, k)]

\* The read returns and drops its references; the file it was charged to may
\* have used up its seeks.
EndRead(r) ==
    /\ status = "open" /\ reads[r] # NoRead
    /\ reads' = [reads EXCEPT ![r] = NoRead]
    /\ memtables' = Unreferenced(memtables, mem, imm, reads')
    /\ LET rd == reads[r]
           charged == {s \in UNION {IF rd.iterate THEN ReadSample(vset.current, <<k, rd.seq>>)
                                    ELSE IF InMemory(rd, k) # {} THEN {}
                                    ELSE SeekFile(rd.version, disk.tables, <<k, rd.seq>>) : k \in rd.keys} :
                         rd.iterate \/ rd.version = vset.current}
       IN \/ UNCHANGED <<vset, bg_compaction_scheduled, budget>>
          \/ /\ vset.file_to_compact = {} /\ Spend("seeks")
             /\ \E s \in charged : vset' = [vset EXCEPT !.file_to_compact = {s}]
             /\ bg_compaction_scheduled' =
                    Scheduled(bg_compaction_scheduled, vset', imm, manual_compaction, bg_error)
    /\ UNCHANGED <<files, status, mem, imm, queue, bg, pending_outputs, bg_error, manual, snapshots>>

-----------------------------------------------------------------------------
(* The background thread *)

\* Mutant: nothing is scheduled at the end of a call.
EndCallUnscheduled(vs, i, man, error) == bg' = NoWork /\ bg_compaction_scheduled' = FALSE

\* The end of BackgroundCall.
EndCall(vs, i, man, error) ==
    /\ bg' = NoWork
    /\ bg_compaction_scheduled' = Scheduled(FALSE, vs, i, man, error)

\* The end of BackgroundCompaction for a manual compaction: the range that is
\* left is remembered, and manual_compaction_ set to NULL.
EndManual(failed, range) ==
    /\ manual_compaction' = IF bg.is_manual THEN FALSE ELSE manual_compaction
    /\ caller' = IF ~bg.is_manual THEN caller
                 ELSE [caller EXCEPT !.done = failed,
                                     !.range = IF failed THEN @ ELSE range]

\* A compaction moves a file to the next level, or merges its inputs into the
\* outputs that are to be written.
Pointer(c) == {<<c.level, c.pointer>>}
Move(c) ==
    LET f == CHOOSE f \in c.inputs0 : TRUE
    IN bg' = [bg EXCEPT !.pc = "manifest", !.compaction = c,
                 !.edit = EditFor("move", VersionEdit({<<c.level, f.number>>}, {<<c.level + 1, f>>},
                                                      Pointer(c)), vset.log_number, vset)]
Work(c) ==
    LET smallest_snapshot == IF snapshots = <<>> THEN vset.last_sequence ELSE Head(snapshots)
        input == UNION {disk.tables[f.number] : f \in c.inputs0 \cup c.inputs1}
    IN bg' = [bg EXCEPT !.pc = "work", !.is_manual = manual_compaction, !.compaction = c,
                        !.todo = CompactionOutputs(c, input, smallest_snapshot)]

\* BackgroundCall: nothing after an error or at the end, else a flush, the
\* manual compaction, or one that the version calls for.
BackgroundCall ==
    /\ bg_compaction_scheduled /\ bg.pc = "idle"
    /\ LET idle == status # "open" \/ bg_error
           picked == IF manual_compaction
                     THEN CompactRange(vset.current, caller.level, caller.range)
                     ELSE PickCompaction(vset.current, vset.compact_pointer, vset.file_to_compact)
       IN \/ /\ idle
             /\ EndCall(vset, imm, manual_compaction, bg_error)
             /\ UNCHANGED <<vset, pending_outputs, manual>>
          \/ /\ ~idle /\ imm # NULL
             /\ bg' = [bg EXCEPT !.pc = "flush", !.number = vset.next_file_number]
             /\ vset' = [vset EXCEPT !.next_file_number = @ + 1]
             /\ pending_outputs' = pending_outputs \cup {vset.next_file_number}
             /\ UNCHANGED <<bg_compaction_scheduled, manual>>
          \/ /\ ~idle /\ imm = NULL /\ picked = {}
             /\ manual_compaction' = FALSE
             /\ caller' = IF manual_compaction THEN [caller EXCEPT !.done = TRUE] ELSE caller
             /\ EndCall(vset, imm, FALSE, bg_error)
             /\ UNCHANGED <<vset, pending_outputs>>
          \/ /\ ~idle /\ imm = NULL
             /\ \E c \in picked :
                    /\ vset' = [vset EXCEPT !.compact_pointer[c.level] = c.pointer]
                    /\ IF ~manual_compaction /\ IsTrivialMove(c) THEN Move(c) ELSE Work(c)
             /\ UNCHANGED <<bg_compaction_scheduled, pending_outputs, manual>>
    /\ UNCHANGED <<files, status, tables, queue, bg_error, client, budget>>

\* The merge is done before every entry with what is urgent: shutting down, or
\* a memtable that waits to be flushed.
BeginNestedFlush ==
    /\ bg.pc = "work" /\ status = "open" /\ imm # NULL
    /\ bg' = [bg EXCEPT !.pc = "flush", !.number = vset.next_file_number]
    /\ vset' = [vset EXCEPT !.next_file_number = @ + 1]
    /\ pending_outputs' = pending_outputs \cup {vset.next_file_number}
    /\ UNCHANGED <<files, status, tables, queue, bg_compaction_scheduled, bg_error, manual,
                   client, budget>>

\* After a flush the thread goes on with the compaction it interrupted, if any.
AfterFlush(vs, i, error) ==
    IF bg.compaction = NoCompaction THEN EndCall(vs, i, manual_compaction, error)
    ELSE /\ bg' = [bg EXCEPT !.pc = "work", !.number = NULL, !.edit = NoEdit]
         /\ UNCHANGED bg_compaction_scheduled

RecordBackgroundError == bg_error' = TRUE

\* An empty memtable makes no file; one that cannot be written leaves none.
BuildTable(d, number, es) == IF es = {} THEN d ELSE [d EXCEPT !.tables = Put(@, number, es)]

\* WriteLevel0Table writes the table without the mutex; with it again, the edit
\* is made.
FlushTable ==
    /\ bg.pc = "flush"
    /\ pending_outputs' = pending_outputs \ {bg.number}
    /\ LET es == memtables[imm]
           f == FileMetaData(bg.number, es)
           level == PickLevelForMemTableOutput(vset.current, <<f.smallest[1], f.largest[1]>>)
           added == IF es = {} THEN {} ELSE {<<level, f>>}
           fail(d) == RecordBackgroundError /\ disk' = d /\ AfterFlush(vset, imm, TRUE)
           built == BuildTable(disk, bg.number, es)
       IN \/ /\ status = "open"
             /\ disk' = built
             /\ bg' = [bg EXCEPT !.pc = "manifest",
                          !.edit = EditFor("flush", VersionEdit({}, added, {}), mem, vset)]
             /\ UNCHANGED <<bg_error, bg_compaction_scheduled, budget>>
          \/ status # "open" /\ fail(built) /\ UNCHANGED budget
          \/ Spend("errors") /\ fail(disk)
    /\ UNCHANGED <<history, status, vset, tables, queue, manual, client>>

\* Mutant: the output is not protected from DeleteObsoleteFiles.
WriteOutputUnprotected ==
    /\ bg.pc = "work" /\ status = "open" /\ bg.todo # <<>>
    /\ LET n == vset.next_file_number
       IN /\ vset' = [vset EXCEPT !.next_file_number = n + 1]
          /\ disk' = [disk EXCEPT !.tables = Put(@, n, Head(bg.todo))]
          /\ bg' = [bg EXCEPT !.todo = Tail(@), !.outputs = @ \cup {FileMetaData(n, Head(bg.todo))}]
    /\ UNCHANGED <<history, status, tables, queue, bg_compaction_scheduled, pending_outputs, bg_error,
                   manual, client, budget>>

\* One output of a compaction is written: its number is pending until the end.
WriteOutput ==
    /\ bg.pc = "work" /\ status = "open" /\ bg.todo # <<>>
    /\ LET n == vset.next_file_number
       IN /\ vset' = [vset EXCEPT !.next_file_number = n + 1]
          /\ disk' = [disk EXCEPT !.tables = Put(@, n, Head(bg.todo))]
          /\ pending_outputs' = pending_outputs \cup {n}
          /\ bg' = [bg EXCEPT !.todo = Tail(@), !.outputs = @ \cup {FileMetaData(n, Head(bg.todo))}]
    /\ UNCHANGED <<history, status, tables, queue, bg_compaction_scheduled, bg_error, manual,
                   client, budget>>

OutputNumbers == {f.number : f \in bg.outputs}

\* The end of a compaction that failed, at a write or because the store closes.
AbortCompaction ==
    /\ bg.pc = "work"
    /\ \/ status = "closing" /\ UNCHANGED budget
       \/ status = "open" /\ bg.todo # <<>> /\ Spend("errors")
    /\ bg.is_manual => manual_compaction
    /\ RecordBackgroundError
    /\ pending_outputs' = pending_outputs \ OutputNumbers
    /\ EndManual(TRUE, caller.range)
    /\ EndCall(vset, imm, manual_compaction', TRUE)
    /\ UNCHANGED <<files, status, vset, tables, queue, client>>

\* InstallCompactionResults, when all outputs are written.
FinishCompaction ==
    /\ bg.pc = "work" /\ status = "open" /\ bg.todo = <<>>
    /\ LET c == bg.compaction
           edit == VersionEdit(AddInputDeletions(c), {<<c.level + 1, f>> : f \in bg.outputs}, Pointer(c))
       IN bg' = [bg EXCEPT !.pc = "manifest", !.edit = EditFor("compaction", edit, vset.log_number, vset)]
    /\ UNCHANGED <<files, status, vset, tables, queue, bg_compaction_scheduled, pending_outputs,
                   bg_error, manual, client, budget>>

\* The unlocked half of LogAndApply.  Opening makes a new manifest and lets
\* CURRENT name it.  A failure may leave the record in the manifest.
Persisted ==
    LET opening == bg.edit.kind = "open"
        n == IF opening THEN vset.manifest_file_number ELSE disk.current
        old == disk.manifests[disk.current]
    IN [disk EXCEPT !.current = n,
           !.manifests = Put(@, n, IF opening
                                   THEN Folded(vset.current, vset.compact_pointer, bg.edit)
                                   ELSE Folded(old.files, old.compact_pointer, bg.edit))]

\* The logs before a manifest's number are not read again.  Its tables have what
\* was in them, but for the batches of failed writes, which no memtable had; an
\* opening puts those in tables too.
InTables(b, log_number) == b.log < log_number /\ (b.applied \/ status = "opening")

WriteManifest ==
    /\ bg.pc = "manifest"
    /\ disk' = Persisted
    /\ history' = [i \in DOMAIN history |->
                      [history[i] EXCEPT !.durable = @ \/ InTables(history[i], bg.edit.log_number)]]
    /\ bg' = [bg EXCEPT !.pc = "install"]
    /\ UNCHANGED <<status, vset, tables, queue, bg_compaction_scheduled, pending_outputs, bg_error,
                   manual, client, budget>>

WriteManifestFails ==
    /\ bg.pc = "manifest" /\ bg.edit.kind # "open" /\ Spend("errors")
    /\ disk' \in {disk, Persisted}
    /\ RecordBackgroundError
    /\ IF bg.edit.kind = "flush" THEN AfterFlush(vset, imm, TRUE) /\ UNCHANGED <<pending_outputs, manual>>
       ELSE /\ pending_outputs' = pending_outputs \ OutputNumbers
            /\ EndManual(TRUE, caller.range)
            /\ EndCall(vset, imm, manual_compaction', TRUE)
    /\ bg.edit.kind = "compaction" /\ bg.is_manual => manual_compaction
    /\ UNCHANGED <<history, status, vset, tables, queue, client>>

\* When the manifest of an opening fails, DB::Open does, and all is as it was,
\* but for files that nothing refers to.
OpenFails ==
    /\ status = "opening" /\ bg.pc = "manifest" /\ Spend("errors")
    /\ status' = "down" /\ vset' = NoVersions /\ mem' = NULL /\ memtables' = <<>>
    /\ bg' = NoWork
    /\ UNCHANGED <<files, imm, queue, bg_compaction_scheduled, pending_outputs, bg_error, manual,
                   client>>

LastInput == CHOOSE f \in bg.compaction.inputs0 :
                 \A g \in bg.compaction.inputs0 \ {f} : BySmallestKey(g, f)

\* The version becomes current, and each caller of LogAndApply goes on.
Install ==
    /\ bg.pc = "install"
    /\ LET e == bg.edit
           vs == [vset EXCEPT !.current = ApplyEdit(vset.current, e.version_edit), !.log_number = e.log_number,
                              !.file_to_compact = {}]
           live(pending) == pending \cup
               UNION {NumbersOf(v) : v \in LiveVersions(vs.current, bg', reads)}
       IN /\ vset' = vs
          /\ CASE e.kind = "open" ->
                     /\ status' = "open"
                     /\ history' = [i \in DOMAIN history |-> [history[i] EXCEPT !.applied = TRUE]]
                     /\ bg' = NoWork
                     /\ disk' = DeleteObsoleteFiles(disk, vs, live({}), FALSE)
                     /\ bg_compaction_scheduled' = Scheduled(FALSE, vs, NULL, FALSE, FALSE)
                     /\ UNCHANGED <<imm, memtables, pending_outputs, manual>>
               [] e.kind = "flush" ->
                     /\ imm' = NULL
                     /\ memtables' = Unreferenced(memtables, mem, NULL, reads)
                     /\ AfterFlush(vs, NULL, bg_error)
                     /\ disk' = DeleteObsoleteFiles(disk, vs, live(pending_outputs), bg_error)
                     /\ UNCHANGED <<history, status, pending_outputs, manual>>
               [] e.kind = "move" ->
                     /\ EndCall(vs, imm, manual_compaction, bg_error)
                     /\ UNCHANGED <<history, status, disk, imm, memtables, pending_outputs, manual>>
               [] OTHER ->
                     /\ bg.is_manual => manual_compaction
                     /\ EndManual(FALSE, <<LastInput.largest[1], caller.range[2]>>)
                     /\ EndCall(vs, imm, manual_compaction', bg_error)
                     /\ pending_outputs' = pending_outputs \ OutputNumbers
                     /\ disk' = DeleteObsoleteFiles(disk, vs, live(pending_outputs'), bg_error)
                     /\ UNCHANGED <<history, status, imm, memtables>>
    /\ UNCHANGED <<mem, queue, bg_error, client, budget>>

-----------------------------------------------------------------------------
(* CompactRange *)

CallCompactRange(range) ==
    /\ status = "open" /\ caller.pc = "idle" /\ Spend("manual")
    /\ LET deep == {l \in Levels \ {0} : OverlapInLevel(vset.current, l, range)} \cup {1}
       IN caller' = [pc |-> "write", level |-> 0, max_level |-> CHOOSE l \in deep : \A m \in deep : m <= l,
                     whole |-> range, range |-> range, done |-> FALSE]
    /\ writers' = Append(writers, [who |-> Compactor, ops |-> <<>>, sync |-> FALSE])
    /\ UNCHANGED <<files, status, vset, tables, leader, work, bg_error, manual_compaction, client>>

\* TEST_CompactMemTable waits for the flush.
FinishCompactMemTable ==
    /\ caller.pc = "imm"
    /\ imm = NULL \/ bg_error
    /\ caller' = [caller EXCEPT !.pc = "range"]
    /\ UNCHANGED <<files, status, vset, tables, queue, work, bg_error, manual_compaction, client, budget>>

\* TEST_CompactRange: the thread asks for its compaction as long as it is not done.
StartManual ==
    /\ caller.pc = "range" /\ caller.level < caller.max_level
    /\ ~caller.done /\ ~bg_error /\ ~manual_compaction
    /\ manual_compaction' = TRUE
    /\ bg_compaction_scheduled' = Scheduled(bg_compaction_scheduled, vset, imm, TRUE, bg_error)
    /\ UNCHANGED <<files, status, vset, tables, queue, bg, pending_outputs, bg_error, caller, client, budget>>

\* Done, or cancelled after an error: the next level, or the end.
FinishManual ==
    /\ caller.pc = "range"
    /\ caller.level < caller.max_level => caller.done \/ bg_error
    /\ manual_compaction' = FALSE
    /\ caller' = IF caller.level + 1 < caller.max_level
                 THEN [caller EXCEPT !.level = @ + 1, !.range = caller.whole, !.done = FALSE]
                 ELSE NoCaller
    /\ UNCHANGED <<files, status, vset, tables, queue, work, bg_error, client, budget>>

-----------------------------------------------------------------------------
(* The end of the process *)

EndProcess ==
    /\ status' = "down" /\ vset' = NoVersions
    /\ mem' = NULL /\ imm' = NULL /\ memtables' = <<>>
    /\ writers' = <<>> /\ leader' = NoLeader
    /\ bg_compaction_scheduled' = FALSE /\ bg' = NoWork /\ pending_outputs' = {}
    /\ bg_error' = FALSE
    /\ manual_compaction' = FALSE /\ caller' = NoCaller
    /\ snapshots' = <<>> /\ reads' = [r \in Readers |-> NoRead]

\* ~DBImpl: no call is in progress; the background thread is waited for.
Close ==
    /\ status = "open" /\ Spend("closes")
    /\ writers = <<>> /\ caller.pc = "idle" /\ \A r \in Readers : reads[r] = NoRead
    /\ status' = "closing"
    /\ UNCHANGED <<files, vset, tables, queue, work, bg_error, manual, client>>

\* What the next opening can find of the batches: those in the tables of the
\* manifest, and those whose records can be read from a log.
Recoverable(d, h) ==
    LET oldest == d.manifests[d.current].log_number
    IN Subsequence(h, {i \in DOMAIN h :
           \/ InTables(h[i], oldest)
           \/ /\ h[i].log \in DOMAIN d.logs /\ h[i].log >= oldest
              /\ h[i].record <= Len(d.logs[h[i].log].records)
              /\ h[i].record \notin d.logs[h[i].log].dropped})

Closed ==
    /\ status = "closing" /\ ~bg_compaction_scheduled
    /\ EndProcess
    /\ history' = Recoverable(disk, history)
    /\ UNCHANGED <<disk, budget>>

\* A manual compaction that its caller has cancelled meanwhile ends with a
\* NULL manual_compaction_, which BackgroundCompaction dereferences.
NullManual ==
    /\ bg.is_manual /\ ~manual_compaction
    /\ bg.pc = "install" \/ (bg.pc = "work" /\ bg.todo = <<>>)

Kill ==
    /\ status # "down"
    /\ Spend("crashes") \/ (NullManual /\ UNCHANGED budget)
    /\ EndProcess
    /\ history' = Recoverable(disk, history)
    /\ UNCHANGED disk

\* Of each log the part that was forced to disk is kept, and any more of it.
PowerLoss ==
    /\ status # "down" /\ Spend("crashes")
    /\ \E kept \in [DOMAIN disk.logs -> 0 .. Len(history)] :
          /\ \A n \in DOMAIN kept : kept[n] \in disk.logs[n].synced .. Len(disk.logs[n].records)
          /\ disk' = [disk EXCEPT !.logs = [n \in DOMAIN kept |->
                 [disk.logs[n] EXCEPT !.records = SubSeq(@, 1, kept[n]), !.synced = kept[n]]]]
    /\ history' = Recoverable(disk', history)
    /\ EndProcess

-----------------------------------------------------------------------------
Next ==
    \/ NewDB \/ Open \/ OpenFails
    \/ \E w \in Writers, b \in Batches, sync \in BOOLEAN : Write(w, b, sync)
    \/ DelayWrite \/ SwitchMemtable \/ FailWrite \/ FinishNullWrite \/ WriteGroup \/ FinishWrite
    \/ GetSnapshot \/ ReleaseSnapshot
    \/ \E r \in Readers : \/ \E k \in Keys : BeginRead(r, {k}, FALSE)
                          \/ BeginRead(r, Keys, TRUE)
                          \/ EndRead(r)
    \/ BackgroundCall \/ BeginNestedFlush \/ FlushTable \/ WriteOutput \/ AbortCompaction
    \/ FinishCompaction \/ WriteManifest \/ WriteManifestFails \/ Install
    \/ \E range \in Ranges : CallCompactRange(range)
    \/ FinishCompactMemTable \/ StartManual \/ FinishManual
    \/ Close \/ Closed \/ Kill \/ PowerLoss

Spec == Init /\ [][Next]_vars

-----------------------------------------------------------------------------
(* Properties *)

\* Every table of a version that somebody may read is on disk, and so is all
\* that the next opening will ask for: the tables of the manifest that CURRENT
\* names, and the logs of the batches that are in no table yet
\* (DeleteObsoleteFiles), with records that the reader will return unless an
\* append to that log had failed before (log::Writer::AddRecord).  No number that
\* is in use will be given out again (VersionSet::NewFileNumber,
\* MarkFileNumberUsed).
NeededFilesExist ==
    /\ status # "down" =>
           /\ mem \in DOMAIN disk.logs
           /\ \A n \in NumbersOf(vset.current) \cup pending_outputs \cup {mem, imm} : n < vset.next_file_number
    /\ status \in {"open", "closing"} =>
           \A v \in LiveVersions(vset.current, bg, reads) : NumbersOf(v) \subseteq DOMAIN disk.tables
    /\ disk.current # 0 =>
           /\ disk.current \in DOMAIN disk.manifests
           /\ NumbersOf(disk.manifests[disk.current].files) \subseteq DOMAIN disk.tables
           /\ \A i \in DOMAIN history :
                  history[i].log >= disk.manifests[disk.current].log_number =>
                      /\ history[i].log \in DOMAIN disk.logs
                      /\ history[i].record <= Len(disk.logs[history[i].log].records)
                      /\ history[i].record \in disk.logs[history[i].log].dropped =>
                             history[i].after_failure

\* Entries never hop across levels: of two entries for a key the one in the
\* smaller level is the newer, and in level 0 the one of the younger file.
EntriesFor(k, numbers) == {e \in UNION {disk.tables[n] : n \in numbers} : e.key = k}
AllNewer(es, ds) == \A e \in es, d \in ds : e.seq > d.seq
SmallerLevelIsNewer(v) ==
    \A k \in Keys :
        LET at(l) == EntriesFor(k, {f.number : f \in v[l]})
        IN /\ \A l \in Levels : \A m \in l + 1 .. kNumLevels - 1 : AllNewer(at(l), at(m))
           /\ \A f, g \in v[0] : f.number > g.number =>
                  AllNewer(EntriesFor(k, {f.number}), EntriesFor(k, {g.number}))
EntriesNeverHop == status = "open" => SmallerLevelIsNewer(vset.current)

\* What Version::Get relies on: that, and that the files of a level below 0 do
\* not overlap (Builder::MaybeAddFile asserts it).
LevelsAreSorted ==
    status = "open" =>
        /\ \A l \in Levels \ {0} : \A f, g \in vset.current[l] :
               f # g => ILess(f.largest, g.smallest) \/ ILess(g.largest, f.smallest)
        /\ SmallerLevelIsNewer(vset.current)

\* A synced batch that took effect is on disk where the next opening finds it,
\* whoever wrote its group (DBImpl::Write, BuildBatchGroup), unless an append to
\* its log had failed before.  Without that exception it does not hold, although
\* WriteOptions::sync promises it (options.h:199-201).
SyncedWritesAreDurable ==
    \A i \in DOMAIN history :
        history[i].sync /\ history[i].applied => history[i].durable \/ history[i].after_failure

\* What callers see is an abstract store: nothing that a flush, a compaction,
\* a deletion of files or a recovery does shows in a read.
Now == [seq |-> vset.last_sequence, keys |-> Keys, iterate |-> FALSE,
        mem |-> mem, imm |-> imm, version |-> vset.current]
KV == INSTANCE KVStore WITH
          NoRead    <- <<>>,
          batches   <- [i \in DOMAIN history |->
                           [id |-> history[i].id, ops |-> history[i].ops,
                            durable |-> history[i].durable, applied |-> history[i].applied]],
          open      <- status \in {"open", "closing"},
          view      <- IF status \in {"open", "closing"} THEN Result(Now) ELSE [k \in Keys |-> Deleted],
          snapshots <- [i \in DOMAIN snapshots |-> Result([Now EXCEPT !.seq = snapshots[i]])],
          reads     <- [r \in Readers |-> IF reads[r] = NoRead THEN <<>> ELSE Result(reads[r])]
ImplementsKV == KV!Spec

\* Whoever waits on bg_cv_ (for room, for a flush, for a manual compaction) waits
\* for a background call that is scheduled, or for one after the other.
Waiting ==
    \/ Leading /\ ~MustDelay /\ ~HasRoom /\ (imm # NULL \/ NumLevelFiles(0) >= kL0_StopWritesTrigger)
    \/ caller.pc = "imm" /\ imm # NULL
    \/ caller.pc = "range" /\ manual_compaction
NobodyWaitsForNothing ==
    status = "open" /\ ~bg_error /\ Waiting => bg_compaction_scheduled
=============================================================================
