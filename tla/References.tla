------------------------------ MODULE References ------------------------------
(***************************************************************************)
(* The reference counts of a database's memtables, versions and            *)
(* FileMetaData: readers and iterators hold pointers across the unlocked   *)
(* part of their calls, while writers switch memtables and the background  *)
(* thread installs versions and deletes what it replaced.                  *)
(*                                                                         *)
(* An object is [refs, files, seek]: a version has FileMetaData and the one *)
(* that reads have asked to be compacted, the others have none.  One        *)
(* action is what happens while mutex_ is held.                             *)
(***************************************************************************)
EXTENDS TableCache

CONSTANTS
    RefReaders,     \* threads that read
    MaxMetas,       \* bound: FileMetaData at a time
    MaxTurns        \* bound: reads, switches and compactions that begin

ASSUME ReferencesAssumption == IsFiniteSet(RefReaders) /\ {MaxMetas, MaxTurns} \subseteq Nat

VARIABLES
    objects,        \* object -> [refs, files, seek]
    impl,           \* DBImpl: [mem, imm, current, failed], or Gone
    readers,        \* [reader -> [call, mem, imm, version]]
    flushing,       \* CompactMemTable: [pc, base, v]
    compacting,     \* Compaction: [pc, input_version, inputs, v]
    used_deleted,   \* whether a deleted object was used
    turns           \* reads, switches and compactions so far

refVars == <<objects, impl, readers, flushing, compacting, used_deleted, turns>>

None == <<"none", 0>>
Gone == [mem |-> None, imm |-> None, current |-> None, failed |-> FALSE]

-----------------------------------------------------------------------------
(* Counting *)

Turn == turns < MaxTurns /\ turns' = turns + 1

NoSeek == None
NewObject(files) == [refs |-> 0, files |-> files, seek |-> NoSeek]
FreshObject(o, kind) == CHOOSE c \in {kind} \X (1 .. Cardinality(DOMAIN o) + 1) : c \notin DOMAIN o
With(o, c, object) == [d \in DOMAIN o \cup {c} |-> IF d = c THEN object ELSE o[d]]
Deallocated(o, c) == [d \in DOMAIN o \ {c} |-> o[d]]

AddRefs(o, cells) == [d \in DOMAIN o |-> IF d \in cells THEN [o[d] EXCEPT !.refs = @ + 1] ELSE o[d]]
AddRef(o, c) == AddRefs(o, {c})
\* A count written to an object that is gone shows as -1.
Lost == [NewObject({}) EXCEPT !.refs = -1]
OneLess(o, c) == IF c \in DOMAIN o THEN [o[c] EXCEPT !.refs = @ - 1] ELSE Lost
\* ~Version, and delete of a MemTable.  A file goes with its last count.
Delete(o, c) ==
    LET left == Deallocated(o, c)
        files == o[c].files
    IN [d \in (DOMAIN left \cup files) \ {f \in files \cap DOMAIN left : left[f].refs <= 1} |->
           IF d \in files THEN OneLess(left, d) ELSE left[d]]
DropRef(o, c) ==
    IF c = None THEN o
    ELSE IF c \in DOMAIN o /\ o[c].refs <= 1 THEN Delete(o, c)
    ELSE With(o, c, OneLess(o, c))
DropAll(o, mem, imm, version) == DropRef(DropRef(DropRef(o, mem), imm), version)

-----------------------------------------------------------------------------
(* Readers *)

NoCall == [call |-> "none", mem |-> None, imm |-> None, version |-> None]
Pins(r) == {readers[r].mem, readers[r].imm, readers[r].version}
UseOf(cells) == used_deleted' = (used_deleted \/ ~(cells \ {None} \subseteq DOMAIN objects))

\* Get and NewInternalIterator refer to all three, GetApproximateSizes to the version.
TakeReferences(r, call) ==
    LET all == call # "sizes"
        mine == [call |-> call, mem |-> IF all THEN impl.mem ELSE None,
                 imm |-> IF all THEN impl.imm ELSE None, version |-> impl.current]
    IN /\ impl.current # None /\ readers[r] = NoCall /\ Turn
       /\ readers' = [readers EXCEPT ![r] = mine]
       /\ objects' = AddRefs(objects, {mine.mem, mine.imm, mine.version})
       /\ UNCHANGED <<impl, flushing, compacting, used_deleted>>

DropReferences(r, o) ==
    /\ objects' = DropAll(o, readers[r].mem, readers[r].imm, readers[r].version)
    /\ readers' = [readers EXCEPT ![r] = NoCall]
    /\ UNCHANGED <<impl, flushing, compacting, turns>>
\* The end of Get: a file of its version that cost a seek too many is noted there.
EndGet(r) ==
    LET v == readers[r].version
    IN /\ readers[r].call = "get" /\ UseOf(Pins(r) \cup objects[v].files)
       /\ \/ DropReferences(r, objects)
          \/ \E f \in objects[v].files :
                objects[v].seek = NoSeek /\ DropReferences(r, [objects EXCEPT ![v].seek = f])
\* ~Iterator: the children are deleted first, then CleanupIteratorState runs.
DeleteIterator(r) == readers[r].call = "iterator" /\ UseOf(Pins(r)) /\ DropReferences(r, objects)
EndSizes(r) == readers[r].call = "sizes" /\ UseOf(Pins(r) \cup objects[readers[r].version].files) /\ DropReferences(r, objects)

-----------------------------------------------------------------------------
(* Memtables and versions *)

\* MakeRoomForWrite
SwitchMemTable ==
    /\ impl.current # None /\ impl.imm = None /\ ~impl.failed /\ Turn
    /\ LET m == FreshObject(objects, "mem")
       IN /\ objects' = With(objects, m, [NewObject({}) EXCEPT !.refs = 1])
          /\ impl' = [impl EXCEPT !.imm = impl.mem, !.mem = m]
    /\ UNCHANGED <<readers, flushing, compacting, used_deleted>>

\* LogAndApply up to where it unlocks: Builder refers to the base while it works and
\* gives a file that is new one FileMetaData, which a version that takes it keeps.
NewVersion(o, deleted, added) ==
    LET f == FreshObject(o, "meta")
        v == FreshObject(o, "version")
        files == (o[impl.current].files \ deleted) \cup (IF added THEN {f} ELSE {})
        metas == IF added THEN With(o, f, NewObject({})) ELSE o
    IN [v |-> v, objects |-> AddRefs(With(metas, v, NewObject(files)), files)]
HasRoomForMeta == Cardinality({c \in DOMAIN objects : c[1] = "meta"}) < MaxMetas

\* AppendVersion, or the deletion of a version that could not be logged.
AppendVersion(o, v) == DropRef(AddRef(o, v), impl.current)
Rejected(o, v) == Delete(o, v)

-----------------------------------------------------------------------------
(* CompactMemTable, also in the middle of a compaction *)

NotFlushing == [pc |-> "none", base |-> None, v |-> None]
BeginFlush ==
    /\ impl.current # None /\ impl.imm # None /\ ~impl.failed
    /\ flushing.pc = "none" /\ compacting.pc \in {"none", "work"}
    /\ flushing' = [NotFlushing EXCEPT !.pc = "write", !.base = impl.current]
    /\ objects' = AddRef(objects, impl.current) /\ UNCHANGED <<impl, readers, compacting, used_deleted, turns>>
\* The base is let go before LogAndApply builds on the current version.
LogFlush ==
    /\ flushing.pc = "write" /\ UseOf({impl.imm, flushing.base})
    /\ LET o == DropRef(objects, flushing.base)
       IN \/ /\ flushing' = NotFlushing /\ objects' = o
             /\ impl' = [impl EXCEPT !.failed = TRUE]
          \/ \E added \in BOOLEAN :
                /\ added => HasRoomForMeta
                /\ LET n == NewVersion(o, {}, added)
                   IN objects' = n.objects /\ flushing' = [NotFlushing EXCEPT !.pc = "log", !.v = n.v]
                /\ UNCHANGED impl
    /\ UNCHANGED <<readers, compacting, turns>>
EndFlush ==
    /\ flushing.pc = "log" /\ flushing' = NotFlushing
    /\ \/ /\ objects' = DropRef(AppendVersion(objects, flushing.v), impl.imm)
          /\ impl' = [impl EXCEPT !.current = flushing.v, !.imm = None]
       \/ objects' = Rejected(objects, flushing.v) /\ impl' = [impl EXCEPT !.failed = TRUE]
    /\ UNCHANGED <<readers, compacting, used_deleted, turns>>

-----------------------------------------------------------------------------
(* Compactions *)

NotCompacting == [pc |-> "none", input_version |-> None, inputs |-> {}, v |-> None]
\* PickCompaction or CompactRange; it looks at the file that a read noted.
PickInputs ==
    /\ impl.current # None /\ ~impl.failed /\ impl.imm = None /\ Turn
    /\ flushing.pc = "none" /\ compacting.pc = "none"
    /\ LET version == objects[impl.current]
       IN \E inputs \in (SUBSET version.files) \ {{}}, pc \in {"work", "move"} :
             /\ pc = "move" => Cardinality(inputs) = 1
             /\ compacting' = [pc |-> pc, input_version |-> impl.current, inputs |-> inputs, v |-> None]
    /\ UseOf(compacting'.inputs \cup {objects[impl.current].seek}) /\ objects' = AddRef(objects, impl.current)
    /\ UNCHANGED <<impl, readers, flushing>>
\* Mutant: the pointer stays.
ReleaseInputsKeeping(c) == [version |-> c.input_version, left |-> c]
\* ReleaseInputs forgets the version, so that ~Compaction does not release it again.
ReleaseInputs(c) == [version |-> c.input_version, left |-> [c EXCEPT !.input_version = None]]
Released(o) ==
    LET released == ReleaseInputs(compacting)
    IN DropRef(DropRef(o, released.version), released.left.input_version)

\* The inputs have been read and the output written; or it failed.
LogCompaction ==
    /\ compacting.pc \in {"work", "move"} /\ flushing.pc = "none"
    /\ UseOf(compacting.inputs \cup {compacting.input_version})
    /\ \/ /\ compacting.pc = "work" /\ compacting' = NotCompacting
          /\ objects' = Released(objects) /\ impl' = [impl EXCEPT !.failed = TRUE]
       \/ \E added \in BOOLEAN :
             /\ compacting.pc = "move" => added
             /\ added => HasRoomForMeta
             /\ LET n == NewVersion(objects, compacting.inputs, added)
                IN objects' = n.objects /\ compacting' = [compacting EXCEPT !.pc = "log", !.v = n.v]
             /\ UNCHANGED impl
    /\ UNCHANGED <<readers, flushing, turns>>
\* BackgroundCompaction writes of the file it moved before it lets the inputs go.
EndCompaction ==
    /\ compacting.pc = "log" /\ compacting' = NotCompacting
    /\ \/ /\ LET o == AppendVersion(objects, compacting.v)
             IN /\ used_deleted' = (used_deleted \/ ~(compacting.inputs \subseteq DOMAIN o))
                /\ objects' = Released(o)
          /\ impl' = [impl EXCEPT !.current = compacting.v]
       \/ /\ objects' = Released(Rejected(objects, compacting.v)) /\ impl' = [impl EXCEPT !.failed = TRUE]
          /\ UNCHANGED used_deleted
    /\ UNCHANGED <<readers, flushing, turns>>

\* ~DBImpl waits for the background; iterators are to be deleted before.
DeleteDB ==
    /\ impl.current # None /\ flushing.pc = "none" /\ compacting.pc = "none"
    /\ \A r \in RefReaders : readers[r] = NoCall
    /\ objects' = DropAll(objects, impl.mem, impl.imm, impl.current) /\ impl' = Gone
    /\ UNCHANGED <<readers, flushing, compacting, used_deleted, turns>>

RefInit ==
    /\ objects = [c \in {"mem", "version"} \X {1} |-> [NewObject({}) EXCEPT !.refs = 1]]
    /\ impl = [mem |-> <<"mem", 1>>, imm |-> None, current |-> <<"version", 1>>, failed |-> FALSE]
    /\ readers = [r \in RefReaders |-> NoCall]
    /\ flushing = NotFlushing /\ compacting = NotCompacting /\ used_deleted = FALSE /\ turns = 0
RefNext ==
    \/ \E r \in RefReaders : \/ \E call \in {"get", "iterator", "sizes"} : TakeReferences(r, call)
                             \/ EndGet(r) \/ DeleteIterator(r) \/ EndSizes(r)
    \/ SwitchMemTable \/ BeginFlush \/ LogFlush \/ EndFlush
    \/ PickInputs \/ LogCompaction \/ EndCompaction \/ DeleteDB

RefSpec == RefInit /\ [][RefNext]_refVars

-----------------------------------------------------------------------------
(* Properties *)

\* Every object counts those who have a pointer to it, is there as long as one does
\* and no longer, and none is used after its deletion (MemTable::Unref,
\* Version::Unref, ~Version, Builder, Compaction::ReleaseInputs).
Pointers(c) ==
    Cardinality({r \in RefReaders : c \in Pins(r)})
    + (IF c \in {impl.mem, impl.imm, impl.current} THEN 1 ELSE 0)
    + (IF flushing.base = c THEN 1 ELSE 0) + (IF compacting.input_version = c THEN 1 ELSE 0)
    + Cardinality({v \in DOMAIN objects : c \in objects[v].files})
Unlisted == {flushing.v, compacting.v}
ReferencesHold ==
    /\ ~used_deleted
    /\ \A c \in DOMAIN objects : objects[c].refs = Pointers(c) /\ (c \notin Unlisted => objects[c].refs > 0)
    /\ \A r \in RefReaders : Pins(r) \ {None} \subseteq DOMAIN objects
    /\ \A v \in DOMAIN objects : objects[v].files \cup ({objects[v].seek} \ {NoSeek}) \subseteq DOMAIN objects
    /\ compacting.inputs \subseteq DOMAIN objects
    /\ (Unlisted \cup {flushing.base, compacting.input_version}) \ {None} \subseteq DOMAIN objects
    /\ impl = Gone => DOMAIN objects = {}
===============================================================================
