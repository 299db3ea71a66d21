---------------------------- MODULE Tables_proofs ----------------------------
(* What TLAPS proves of the table files of DBImpl: every table that a       *)
(* version in use names is on disk, and every table that the next opening   *)
(* will ask for, whatever fails and wherever the process or the power ends. *)
(* Their invariant is TablesInv, on top of DBInv.                           *)
EXTENDS DBImpl_proofs

-----------------------------------------------------------------------------
(* The invariant                                                            *)

Tables == DOMAIN disk.tables
NextNumber == vset.next_file_number
Below(n) == 0 .. n - 1
AddedNumbers(edit) == {a[2].number : a \in edit.new_files}
Logging == bg.pc \in {"manifest", "install"}

\* What is in use has a number that was given out, and a flush has its own.
NumbersAreGiven ==
    status # "down" =>
        /\ imm \in Below(NextNumber) /\ pending_outputs \subseteq Below(NextNumber)
        /\ NumbersOf(vset.current) \subseteq Below(NextNumber)
        /\ CurrentManifest.next_file <= NextNumber
        /\ bg.pc = "flush" => bg.number \in Below(NextNumber) /\ bg.number \notin OutputNumbers

\* An edit adds tables that are there, with numbers the manifest will know of.
EditIsKept ==
    Logging =>
        /\ bg.edit.next_file <= NextNumber
        /\ CurrentManifest.next_file <= bg.edit.next_file
        /\ AddedNumbers(bg.edit.version_edit) \subseteq Below(bg.edit.next_file)
        /\ AddedNumbers(bg.edit.version_edit) \subseteq Tables

\* The outputs of a compaction are pending until a version names them, also
\* through a flush in between.
OutputsAreKept == OutputNumbers \subseteq pending_outputs /\ OutputNumbers \subseteq Tables

\* The tables of every version that somebody refers to are there, and the file
\* that was sought too often is one of the current version's.
VersionsAreKept ==
    status # "down" =>
        /\ NumbersOf(vset.current) \subseteq Tables
        /\ reads = [r \in Readers |-> reads[r]]
        /\ \A r \in Readers : reads[r] # NoRead => NumbersOf(reads[r].version) \subseteq Tables
        /\ bg.compaction # NoCompaction => NumbersOf(bg.compaction.version) \subseteq Tables
        /\ \A s \in vset.file_to_compact : s.level \in Levels /\ s.file \in vset.current[s.level]

\* The manifest says what the version set holds, as long as nothing failed.
Folding == IF bg.pc = "install" THEN ApplyEdit(vset.current, bg.edit.version_edit) ELSE vset.current
ManifestIsKept ==
    /\ disk.current # 0 =>
           /\ NumbersOf(CurrentManifest.files) \subseteq Tables
           /\ NumbersOf(CurrentManifest.files) \subseteq Below(CurrentManifest.next_file)
    /\ status # "down" /\ ~bg_error => CurrentManifest.files = Folding

TablesInv == NumbersAreGiven /\ EditIsKept /\ OutputsAreKept /\ VersionsAreKept /\ ManifestIsKept

-----------------------------------------------------------------------------
(* What the operators on versions return                                    *)

\* Numbers below a number are below every greater one.
LEMMA BelowGrows ==
    ASSUME NEW m \in Nat, NEW n \in Nat, m <= n
    PROVE  Below(m) \subseteq Below(n) /\ m \in Below(n + 1) /\ Below(m) \in SUBSET Nat
BY DEF Below

\* An edit brings nothing into a version but what it adds.
LEMMA ApplyEditNumbers ==
    ASSUME NEW v, NEW edit
    PROVE  NumbersOf(ApplyEdit(v, edit)) \subseteq NumbersOf(v) \cup AddedNumbers(edit)
<1>1. SUFFICES ASSUME NEW l \in Levels, NEW f \in ApplyEdit(v, edit)[l]
               PROVE  f.number \in NumbersOf(v) \cup AddedNumbers(edit)
    BY DEF NumbersOf, FilesOf
<1>2. CASE f \in v[l]
    BY <1>2 DEF NumbersOf, FilesOf
<1>3. CASE \E a \in edit.new_files : f = a[2]
    BY <1>3 DEF AddedNumbers
<1> QED
    BY <1>1, <1>2, <1>3 DEF ApplyEdit

\* The empty version has no files.
LEMMA EmptyVersionNumbers == NumbersOf(EmptyVersion) = {}
BY DEF NumbersOf, FilesOf, EmptyVersion

\* A file of a level is one of the version.
LEMMA FileOfLevel ==
    ASSUME NEW v, NEW l \in Levels, NEW f \in v[l]
    PROVE  f.number \in NumbersOf(v)
BY DEF NumbersOf, FilesOf

\* A search only looks at files of their levels.
LEMMA FirstFilesOverlap ==
    ASSUME NEW v, NEW ikey, NEW s \in ForEachOverlapping(v, ikey), 0 \in Levels
    PROVE  s.level \in Levels /\ s.file \in v[s.level]
<1>1. CASE \E f \in v[0] : s = [level |-> 0, file |-> f]
    BY <1>1
<1>2. CASE \E l \in Levels \ {0} : \E f \in FindFile(v[l], ikey) : s = [level |-> l, file |-> f]
    BY <1>2 DEF FindFile, FirstOf
<1> QED
    BY <1>1, <1>2 DEF ForEachOverlapping

\* So is the file that a search or an iterator is charged to.
LEMMA ChargedFiles ==
    ASSUME NEW v, NEW ts, NEW ikey, 0 \in Levels, NEW s \in SeekFile(v, ts, ikey) \cup ReadSample(v, ikey)
    PROVE  s.level \in Levels /\ s.file \in v[s.level]
<1>1. s \in ForEachOverlapping(v, ikey)
    BY DEF SeekFile, ReadSample, FirstOf
<1> QED
    BY <1>1, FirstFilesOverlap
\* The recursion of GetOverlappingInputs: files that overlap files.
Grown(v, level, direct, N, g) ==
    g = [n \in 0 .. N |->
            IF n = 0 THEN direct
            ELSE {f \in v[level] :
                     \E h \in g[n - 1] : Overlaps(f, <<h.smallest[1], h.largest[1]>>)}]

\* It has a value.
LEMMA GrownExists ==
    ASSUME NEW v, NEW level, NEW direct, NEW N \in Nat
    PROVE  \E g : Grown(v, level, direct, N, g)
<1> DEFINE Step(g, n) == IF n = 0 THEN direct
                         ELSE {f \in v[level] :
                                  \E h \in g[n - 1] : Overlaps(f, <<h.smallest[1], h.largest[1]>>)}
           T == {k \in 0 .. N : \E g : g = [n \in 0 .. k |-> Step(g, n)]}
<1>1. 0 \in T
    <2> DEFINE g == [n \in 0 .. 0 |-> direct]
    <2>1. \A n \in 0 .. 0 : n = 0
        OBVIOUS
    <2>2. g = [n \in 0 .. 0 |-> Step(g, n)]
        BY <2>1
    <2> HIDE DEF g
    <2>3. \E h : h = [n \in 0 .. 0 |-> Step(h, n)]
        BY <2>2
    <2> QED
        BY <2>3
<1>2. ASSUME NEW k \in 1 .. N, k - 1 \in T
      PROVE  k \in T
    <2>1. PICK g : g = [n \in 0 .. k - 1 |-> Step(g, n)]
        BY <1>2
    <2> DEFINE h == [n \in 0 .. k |-> IF n = k THEN Step(g, k) ELSE g[n]]
    <2>2. \A n \in 0 .. k : n # 0 => n - 1 \in 0 .. k /\ n - 1 # k /\ n - 1 \in 0 .. k - 1
        OBVIOUS
    <2>3. \A n \in 0 .. k : n # 0 => h[n - 1] = g[n - 1]
        BY <2>2
    <2>4. \A n \in 0 .. k : Step(h, n) = Step(g, n)
        BY <2>3
    <2>5. \A n \in 0 .. k : n # k => n \in 0 .. k - 1
        OBVIOUS
    <2>6. \A n \in 0 .. k : n # k => g[n] = Step(g, n)
        BY <2>1, <2>5
    <2>7. \A n \in 0 .. k : h[n] = Step(h, n)
        BY <2>4, <2>6
    <2>8. h = [n \in 0 .. k |-> h[n]]
        OBVIOUS
    <2>9. h = [n \in 0 .. k |-> Step(h, n)]
        BY <2>7, <2>8
    <2> HIDE DEF h
    <2>10. \E j : j = [n \in 0 .. k |-> Step(j, n)]
        BY <2>9
    <2>11. k \in 0 .. N
        OBVIOUS
    <2> QED
        BY <2>10, <2>11
<1> HIDE DEF T
<1>3. 0 .. N \subseteq T
    BY <1>1, <1>2, UpTo
<1>4. N \in T
    BY <1>3
<1> QED
    BY <1>4 DEF T, Grown

\* Overlapping inputs are files of their level.
LEMMA OverlappingAreOfLevel ==
    ASSUME NEW v, NEW level \in Levels, NEW range, level = 0 => IsFiniteSet(v[level])
    PROVE  GetOverlappingInputs(v, level, range) \subseteq v[level]
<1> DEFINE direct == {f \in v[level] : Overlaps(f, range)}
           N == Cardinality(v[level])
           g == CHOOSE h : Grown(v, level, direct, N, h)
<1>1. CASE level > 0
    BY <1>1 DEF GetOverlappingInputs
<1>2. CASE ~(level > 0)
    <2>1. level = 0
        BY <1>2, VersionsAssumption DEF Levels
    <2>2. N \in Nat
        BY <2>1, FS_CardinalityType
    <2>3. GetOverlappingInputs(v, level, range) = g[N]
        BY <1>2 DEF GetOverlappingInputs, Grown
    <2>4. Grown(v, level, direct, N, g)
        BY <2>2, GrownExists
    <2> DEFINE Step(n) == IF n = 0 THEN direct
                          ELSE {f \in v[level] :
                                   \E h \in g[n - 1] : Overlaps(f, <<h.smallest[1], h.largest[1]>>)}
    <2> HIDE DEF g, N
    <2>5. g = [n \in 0 .. N |-> Step(n)]
        BY <2>4 DEF Grown
    <2>6. N \in 0 .. N
        BY <2>2
    <2>7. Step(N) \subseteq v[level]
        OBVIOUS
    <2> HIDE DEF Step
    <2>8. g[N] = Step(N)
        BY <2>5, <2>6
    <2> QED
        BY <2>3, <2>7, <2>8 DEF N, g
<1> QED
    BY <1>1, <1>2

\* A compaction takes files of its level, if it starts from some.
LEMMA SetupTakesFiles ==
    ASSUME NEW v, NEW level \in Levels, NEW inputs0, inputs0 \subseteq v[level], IsFiniteSet(v[0])
    PROVE  LET c == SetupOtherInputs(v, level, inputs0)
           IN c.version = v /\ c.level = level /\ c.inputs0 \subseteq v[level] /\ c # NoCompaction
<1>1. \A range : GetOverlappingInputs(v, level, range) \subseteq v[level]
    BY OverlappingAreOfLevel
<1>2. \A a, b, d, e, f, g :
          LET c == [level |-> a, version |-> b, inputs0 |-> d, inputs1 |-> e, grandparents |-> f, pointer |-> g]
          IN c.version = b /\ c.level = a /\ c.inputs0 = d /\ c # NoCompaction
    BY DEF NoCompaction
<1> QED
    BY <1>1, <1>2 DEF SetupOtherInputs

\* The level that is fullest has a next one.
LEMMA FullestLevel ==
    ASSUME NEW v, NEW l \in Finalize(v).compaction_level
    PROVE  l \in Levels
<1>1. l \in 0 .. kNumLevels - 2
    BY DEF Finalize
<1> QED
    BY <1>1, VersionsAssumption DEF Levels

\* What is picked is a compaction of files of the version.
LEMMA PickedFiles ==
    ASSUME NEW v, IsFiniteSet(v[0]), NEW pointer, NEW charged,
           \A s \in charged : s.level \in Levels /\ s.file \in v[s.level],
           NEW c \in PickCompaction(v, pointer, charged)
    PROVE  c.version = v /\ c.level \in Levels /\ c.inputs0 \subseteq v[c.level] /\ c # NoCompaction
<1> DEFINE after(l) == {f \in v[l] : ILess(pointer[l], f.largest)}
           next(l) == FirstOf(IF after(l) = {} THEN v[l] ELSE after(l), BySmallestKey)
           fullest == UNION {{[level |-> l, file |-> f] : f \in next(l)} :
                                l \in Finalize(v).compaction_level}
           start == IF Finalize(v).needed THEN fullest ELSE charged
           whole(s) == IF s.level = 0 THEN GetOverlappingInputs(v, 0, UserRange({s.file})) ELSE {s.file}
<1>1. PICK s \in start : c = SetupOtherInputs(v, s.level, whole(s))
    BY DEF PickCompaction
<1>2. s.level \in Levels /\ s.file \in v[s.level]
    <2>1. CASE s \in charged
        BY <2>1
    <2>2. CASE s \in fullest
        <3>1. PICK l \in Finalize(v).compaction_level : \E f \in next(l) : s = [level |-> l, file |-> f]
            BY <2>2
        <3>2. l \in Levels
            BY <3>1, FullestLevel
        <3>3. next(l) \subseteq v[l]
            BY DEF FirstOf
        <3> HIDE DEF next
        <3>4. s.level = l /\ s.file \in v[l]
            BY <3>1, <3>3
        <3> QED
            BY <3>2, <3>4
    <2> QED
        BY <1>1, <2>1, <2>2
<1>3. whole(s) \subseteq v[s.level]
    BY <1>2, OverlappingAreOfLevel
<1> DEFINE w == whole(s)
<1>4. c = SetupOtherInputs(v, s.level, w) /\ w \subseteq v[s.level]
    BY <1>1, <1>3
<1> HIDE DEF w
<1> QED
    BY <1>2, <1>4, SetupTakesFiles

\* So is what CompactRange takes.
LEMMA RangeIsOfVersion ==
    ASSUME NEW v, NEW level, NEW range, NEW c \in CompactRange(v, level, range)
    PROVE  c.version = v /\ c # NoCompaction
<1>1. \E inputs0 : c = SetupOtherInputs(v, level, inputs0)
    BY DEF CompactRange
<1>2. \A a, b, d, e, f, g :
          LET x == [level |-> a, version |-> b, inputs0 |-> d, inputs1 |-> e, grandparents |-> f, pointer |-> g]
          IN x.version = b /\ x # NoCompaction
    BY DEF NoCompaction
<1> QED
    BY <1>1, <1>2 DEF SetupOtherInputs
-----------------------------------------------------------------------------
(* The steps of a running database                                          *)

\* What they have in common: they take nothing away.
Runs ==
    /\ status # "down"
    /\ disk'.current = disk.current /\ disk'.manifests = disk.manifests
    /\ Tables \subseteq Tables'
    /\ vset'.current = vset.current /\ NextNumber <= NextNumber'
    /\ bg_error => bg_error'

\* The types of what is compared.
LEMMA RunningTypes ==
    ASSUME DBInv, status # "down"
    PROVE  /\ NextNumber \in Nat /\ mem \in Nat /\ mem < NextNumber /\ 0 < NextNumber
           /\ disk.current # 0 /\ disk.current \in DOMAIN disk.manifests
           /\ CurrentManifest.next_file \in Nat /\ IsFiniteSet(CurrentManifest.files[0])
           /\ Logging => bg.edit.next_file \in Nat
<1>1. NextNumber \in Nat /\ mem \in Nat /\ mem < NextNumber
    BY RunningNumbers DEF NextNumber
<1>2. disk.current # 0 /\ disk.current \in DOMAIN disk.manifests
    BY DEF DBInv, NumbersInv, DiskInv
<1>3. IsManifest(CurrentManifest)
    BY <1>2 DEF DBInv, DiskInv, AreManifests, CurrentManifest
<1>4. Logging => IsEdit(bg.edit)
    BY DEF DBInv, ThreadsInv, IsWork, Logging
<1> QED
    BY <1>1, <1>2, <1>3, <1>4 DEF IsManifest, IsEdit

\* The numbers that were given out stay below the next one.
LEMMA RunsNumbers ==
    ASSUME DBInv, DBInv', TablesInv, Runs, status' # "down",
           imm' \in Below(NextNumber'), pending_outputs' \subseteq Below(NextNumber'),
           bg'.pc = "flush" => bg'.number \in Below(NextNumber') /\ bg'.number \notin OutputNumbers'
    PROVE  NumbersAreGiven'
<1>1. NextNumber \in Nat /\ CurrentManifest.next_file \in Nat
    BY RunningTypes DEF Runs
<1>2. NextNumber' \in Nat
    BY DEF DBInv, VsetInv, IsVersions, NextNumber
<1>3. CurrentManifest' = CurrentManifest
    BY DEF Runs, CurrentManifest
<1>4. CurrentManifest'.next_file <= NextNumber'
    BY <1>1, <1>2, <1>3 DEF Runs, TablesInv, NumbersAreGiven
<1>5. NumbersOf(vset'.current) \subseteq Below(NextNumber')
    BY <1>1, <1>2, BelowGrows DEF Runs, TablesInv, NumbersAreGiven
<1> QED
    BY <1>4, <1>5 DEF NumbersAreGiven

\* A thread that stays where it is has its tables.
LEMMA SameWork ==
    ASSUME DBInv, DBInv', TablesInv, Runs, UNCHANGED bg, pending_outputs \subseteq pending_outputs'
    PROVE  /\ EditIsKept' /\ OutputsAreKept' /\ Folding' = Folding
           /\ bg'.compaction # NoCompaction => NumbersOf(bg'.compaction.version) \subseteq Tables'
           /\ bg'.pc = "flush" => bg'.number \in Below(NextNumber') /\ bg'.number \notin OutputNumbers'
<1>1. NextNumber \in Nat /\ (Logging => bg.edit.next_file \in Nat)
    BY RunningTypes DEF Runs
<1>2. NextNumber' \in Nat
    BY DEF DBInv, VsetInv, IsVersions, NextNumber
<1>3. CurrentManifest' = CurrentManifest
    BY DEF Runs, CurrentManifest
<1>4. Below(NextNumber) \subseteq Below(NextNumber')
    BY <1>1, <1>2, BelowGrows DEF Runs
<1>5. OutputNumbers' = OutputNumbers
    BY DEF OutputNumbers
<1>6. EditIsKept'
    <2>1. Logging' <=> Logging
        BY DEF Logging
    <2>2. Logging => bg.edit.next_file <= NextNumber'
        BY <1>1, <1>2 DEF TablesInv, EditIsKept, Runs
    <2> QED
        BY <1>3, <2>1, <2>2 DEF TablesInv, EditIsKept, Runs
<1>7. OutputsAreKept'
    BY <1>5 DEF TablesInv, OutputsAreKept, Runs
<1>8. Folding' = Folding
    BY DEF Folding, Runs
<1>9. bg'.pc = "flush" => bg'.number \in Below(NextNumber') /\ bg'.number \notin OutputNumbers'
    BY <1>4, <1>5 DEF TablesInv, NumbersAreGiven, Runs
<1>10. bg'.compaction # NoCompaction => NumbersOf(bg'.compaction.version) \subseteq Tables'
    BY DEF TablesInv, VersionsAreKept, Runs
<1> QED
    BY <1>6, <1>7, <1>8, <1>9, <1>10

\* A thread that is idle needs none.
LEMMA IdleWork ==
    ASSUME TablesInv, Runs, bg' = NoWork, bg.pc # "install"
    PROVE  /\ EditIsKept' /\ OutputsAreKept' /\ Folding' = Folding
           /\ bg'.compaction = NoCompaction /\ bg'.pc # "flush"
<1>1. bg'.pc = "idle" /\ bg'.compaction = NoCompaction /\ bg'.outputs = {}
    BY DEF NoWork
<1>2. OutputNumbers' = {}
    BY <1>1 DEF OutputNumbers
<1>3. Folding' = Folding
    BY <1>1 DEF Folding, Runs
<1> QED
    BY <1>1, <1>2, <1>3 DEF EditIsKept, OutputsAreKept, Logging

\* Versions that were kept are.
LEMMA RunsVersions ==
    ASSUME TablesInv, Runs, UNCHANGED reads, vset'.file_to_compact = vset.file_to_compact,
           bg'.compaction # NoCompaction => NumbersOf(bg'.compaction.version) \subseteq Tables'
    PROVE  VersionsAreKept'
BY DEF TablesInv, VersionsAreKept, Runs

\* So is the manifest.
LEMMA RunsManifest ==
    ASSUME TablesInv, Runs, bg_error' \/ Folding' = Folding
    PROVE  ManifestIsKept'
<1>1. CurrentManifest' = CurrentManifest
    BY DEF Runs, CurrentManifest
<1>2. disk'.current # 0 =>
           /\ NumbersOf(CurrentManifest'.files) \subseteq Tables'
           /\ NumbersOf(CurrentManifest'.files) \subseteq Below(CurrentManifest'.next_file)
    BY <1>1 DEF Runs, TablesInv, ManifestIsKept
<1>3. ~bg_error' => CurrentManifest'.files = Folding'
    BY <1>1 DEF Runs, TablesInv, ManifestIsKept
<1> QED
    BY <1>2, <1>3 DEF ManifestIsKept
-----------------------------------------------------------------------------
(* Steps that neither read nor change a version or a table                  *)

Quietly ==
    \/ \E w \in Writers, b \in Batches, sync \in BOOLEAN : Write(w, b, sync)
    \/ DelayWrite \/ FailWrite \/ FinishNullWrite \/ WriteGroup \/ FinishWrite
    \/ GetSnapshot \/ ReleaseSnapshot
    \/ \E range \in Ranges : CallCompactRange(range)
    \/ FinishCompactMemTable \/ StartManual \/ FinishManual
    \/ Close

\* What the queue of writers and CompactRange leave alone.
LEMMA QuietlyRuns ==
    ASSUME DBInv, Quietly
    PROVE  /\ Runs /\ status' # "down" /\ UNCHANGED <<imm, pending_outputs, bg, reads>>
           /\ vset'.file_to_compact = vset.file_to_compact /\ NextNumber' = NextNumber
<1>1. status # "down" /\ status' # "down"
    <2>1. Serving
        BY DEF Quietly, Serving
    <2> QED
        BY <2>1, ServingStatus
<1>2. UNCHANGED <<imm, pending_outputs, bg, reads>> /\ (bg_error => bg_error')
    <2>1. ASSUME NEW w \in Writers, NEW b \in Batches, NEW sync \in BOOLEAN, Write(w, b, sync)
          PROVE  UNCHANGED <<imm, pending_outputs, bg, reads>> /\ (bg_error => bg_error')
        BY <2>1 DEF Write, tables, work, client
    <2>2. ASSUME NEW range \in Ranges, CallCompactRange(range)
          PROVE  UNCHANGED <<imm, pending_outputs, bg, reads>> /\ (bg_error => bg_error')
        BY <2>2 DEF CallCompactRange, tables, work, client
    <2>3. DelayWrite \/ FailWrite \/ FinishNullWrite =>
              UNCHANGED <<imm, pending_outputs, bg, reads>> /\ (bg_error => bg_error')
        BY DEF DelayWrite, FailWrite, FinishNullWrite, tables, work, client
    <2>4. WriteGroup \/ FinishWrite =>
              UNCHANGED <<imm, pending_outputs, bg, reads>> /\ (bg_error => bg_error')
        BY DEF WriteGroup, FinishWrite, tables, work, client
    <2>5. GetSnapshot \/ ReleaseSnapshot =>
              UNCHANGED <<imm, pending_outputs, bg, reads>> /\ (bg_error => bg_error')
        BY DEF GetSnapshot, ReleaseSnapshot, tables, work
    <2>6. FinishCompactMemTable => UNCHANGED <<imm, pending_outputs, bg, reads>> /\ UNCHANGED bg_error
        BY DEF FinishCompactMemTable, tables, work, client
    <2>7. StartManual => UNCHANGED <<imm, pending_outputs, bg, reads>> /\ UNCHANGED bg_error
        BY DEF StartManual, tables, client
    <2>8. FinishManual \/ Close =>
              UNCHANGED <<imm, pending_outputs, bg, reads>> /\ (bg_error => bg_error')
        BY DEF FinishManual, Close, tables, work, client
    <2> QED
        BY <2>1, <2>2, <2>3, <2>4, <2>5, <2>6, <2>7, <2>8 DEF Quietly
<1>3. /\ vset'.current = vset.current /\ vset'.file_to_compact = vset.file_to_compact
      /\ vset'.next_file_number = vset.next_file_number
    <2>1. CASE FinishWrite
        <3>1. \E x : vset' = [vset EXCEPT !.last_sequence = x]
            BY <2>1 DEF FinishWrite
        <3> QED
            BY <3>1, VersionsExcept DEF DBInv, VsetInv
    <2>2. CASE ~FinishWrite
        <3>1. ASSUME NEW w \in Writers, NEW b \in Batches, NEW sync \in BOOLEAN, Write(w, b, sync)
              PROVE  UNCHANGED vset
            BY <3>1 DEF Write
        <3>2. ASSUME NEW range \in Ranges, CallCompactRange(range)
              PROVE  UNCHANGED vset
            BY <3>2 DEF CallCompactRange
        <3>3. DelayWrite \/ FailWrite \/ FinishNullWrite \/ WriteGroup => UNCHANGED vset
            BY DEF DelayWrite, FailWrite, FinishNullWrite, WriteGroup
        <3>4. GetSnapshot \/ ReleaseSnapshot => UNCHANGED vset
            BY DEF GetSnapshot, ReleaseSnapshot
        <3>5. FinishCompactMemTable \/ StartManual \/ FinishManual \/ Close => UNCHANGED vset
            BY DEF FinishCompactMemTable, StartManual, FinishManual, Close
        <3> QED
            BY <2>2, <3>1, <3>2, <3>3, <3>4, <3>5 DEF Quietly
    <2> QED
        BY <2>1, <2>2
<1>4. disk'.tables = disk.tables /\ disk'.manifests = disk.manifests /\ disk'.current = disk.current
    <2>1. CASE WriteGroup
        <3>1. PICK l : disk' = MemLog(l)
            BY <2>1, WriteGroupOutcomes
        <3> QED
            BY <3>1 DEF MemLog
    <2>2. CASE ~WriteGroup
        <3>1. ASSUME NEW w \in Writers, NEW b \in Batches, NEW sync \in BOOLEAN, Write(w, b, sync)
              PROVE  UNCHANGED disk
            BY <3>1 DEF Write, files
        <3>2. ASSUME NEW range \in Ranges, CallCompactRange(range)
              PROVE  UNCHANGED disk
            BY <3>2 DEF CallCompactRange, files
        <3>3. DelayWrite \/ FailWrite \/ FinishNullWrite \/ FinishWrite => UNCHANGED disk
            BY DEF DelayWrite, FailWrite, FinishNullWrite, FinishWrite, files
        <3>4. GetSnapshot \/ ReleaseSnapshot => UNCHANGED disk
            BY DEF GetSnapshot, ReleaseSnapshot, files
        <3>5. FinishCompactMemTable \/ StartManual \/ FinishManual \/ Close => UNCHANGED disk
            BY DEF FinishCompactMemTable, StartManual, FinishManual, Close, files
        <3> QED
            BY <2>2, <3>1, <3>2, <3>3, <3>4, <3>5 DEF Quietly
    <2> QED
        BY <2>1, <2>2
<1>5. NextNumber' = NextNumber /\ NextNumber <= NextNumber'
    BY <1>1, <1>3, RunningTypes DEF NextNumber
<1> QED
    BY <1>1, <1>2, <1>3, <1>4, <1>5 DEF Runs, Tables

\* So they keep the invariant.
LEMMA QuietlyKeeps ==
    ASSUME DBInv, DBInv', TablesInv, Quietly
    PROVE  TablesInv'
<1>1. /\ Runs /\ status' # "down" /\ UNCHANGED <<imm, pending_outputs, bg, reads>>
      /\ vset'.file_to_compact = vset.file_to_compact /\ NextNumber' = NextNumber
    BY QuietlyRuns
<1>2. imm' \in Below(NextNumber') /\ pending_outputs' \subseteq Below(NextNumber')
    BY <1>1 DEF Runs, TablesInv, NumbersAreGiven
<1> QED
    BY <1>1, <1>2, SameWork, RunsNumbers, RunsVersions, RunsManifest DEF TablesInv
-----------------------------------------------------------------------------
(* A new memtable, and reads                                                *)

\* What is left of a version set when a number is taken,
LEMMA TakesNumber ==
    ASSUME DBInv, NEW n, vset' = [vset EXCEPT !.next_file_number = n]
    PROVE  /\ vset'.current = vset.current /\ vset'.file_to_compact = vset.file_to_compact
           /\ vset'.next_file_number = n
<1>1. IsVersions(vset)
    BY DEF DBInv, VsetInv
<1>2. vset' = [current |-> vset.current, file_to_compact |-> vset.file_to_compact,
               next_file_number |-> n, last_sequence |-> vset.last_sequence,
               log_number |-> vset.log_number, manifest_file_number |-> vset.manifest_file_number,
               compact_pointer |-> vset.compact_pointer]
    BY <1>1, VersionsExcept
<1> QED
    BY <1>2

\* when a file is charged,
LEMMA ChargesFile ==
    ASSUME DBInv, NEW x, vset' = [vset EXCEPT !.file_to_compact = x]
    PROVE  /\ vset'.current = vset.current /\ vset'.file_to_compact = x
           /\ vset'.next_file_number = vset.next_file_number
<1>1. IsVersions(vset)
    BY DEF DBInv, VsetInv
<1>2. vset' = [current |-> vset.current, file_to_compact |-> x,
               next_file_number |-> vset.next_file_number, last_sequence |-> vset.last_sequence,
               log_number |-> vset.log_number, manifest_file_number |-> vset.manifest_file_number,
               compact_pointer |-> vset.compact_pointer]
    BY <1>1, VersionsExcept
<1> QED
    BY <1>2

\* and of the disk when it gets a log.
LEMMA TakesLogs ==
    ASSUME DBInv, NEW x, disk' = [disk EXCEPT !.logs = x]
    PROVE  disk'.tables = disk.tables /\ disk'.manifests = disk.manifests /\ disk'.current = disk.current
<1>1. disk' = [logs |-> x, tables |-> disk.tables, manifests |-> disk.manifests, current |-> disk.current]
    BY DiskExcept DEF DBInv, DiskInv
<1> QED
    BY <1>1

\* Switching memtables takes one number for a log.
LEMMA SwitchKeeps ==
    ASSUME DBInv, DBInv', TablesInv, SwitchMemtable
    PROVE  TablesInv'
<1> DEFINE n == vset.next_file_number
<1>1. status # "down" /\ status' # "down"
    BY LeadingIsServing DEF SwitchMemtable, MaySwitch
<1>2. UNCHANGED <<bg, pending_outputs, reads, bg_error>> /\ imm' = mem
    BY DEF SwitchMemtable, client
<1>3. n \in Nat /\ mem \in Nat /\ mem < n
    BY <1>1, RunningTypes DEF NextNumber
<1>4. /\ vset'.current = vset.current /\ vset'.file_to_compact = vset.file_to_compact
      /\ vset'.next_file_number = n + 1
    <2>1. PICK x : vset' = [vset EXCEPT !.next_file_number = x] /\ x = n + 1
        BY DEF SwitchMemtable
    <2> QED
        BY <2>1, TakesNumber
<1>5. disk'.tables = disk.tables /\ disk'.manifests = disk.manifests /\ disk'.current = disk.current
    <2>1. PICK x : disk' = [disk EXCEPT !.logs = x]
        BY DEF SwitchMemtable
    <2> QED
        BY <2>1, TakesLogs
<1>6. Runs
    BY <1>1, <1>2, <1>3, <1>4, <1>5 DEF Runs, Tables, NextNumber
<1>7. Below(NextNumber) \subseteq Below(NextNumber') /\ mem \in Below(NextNumber')
    BY <1>3, <1>4 DEF Below, NextNumber
<1>8. imm' \in Below(NextNumber') /\ pending_outputs' \subseteq Below(NextNumber')
    BY <1>1, <1>2, <1>7 DEF TablesInv, NumbersAreGiven
<1> QED
    BY <1>1, <1>2, <1>4, <1>6, <1>8, SameWork, RunsNumbers, RunsVersions, RunsManifest DEF TablesInv

\* A read keeps what it refers to: the current version when it begins.
LEMMA ReadsAreKept ==
    ASSUME TablesInv, status # "down", NEW r \in Readers, NEW rd, reads' = [reads EXCEPT ![r] = rd],
           rd = NoRead \/ rd.version = vset.current, disk'.tables = disk.tables
    PROVE  /\ reads' = [q \in Readers |-> reads'[q]]
           /\ \A q \in Readers : reads'[q] # NoRead => NumbersOf(reads'[q].version) \subseteq Tables'
<1>1. reads = [q \in Readers |-> reads[q]]
    BY DEF TablesInv, VersionsAreKept
<1>2. reads' = [q \in Readers |-> IF q = r THEN rd ELSE reads[q]]
    BY <1>1
<1>3. reads' = [q \in Readers |-> reads'[q]]
    BY <1>2
<1>4. Tables' = Tables
    BY DEF Tables
<1>5. ASSUME NEW q \in Readers, reads'[q] # NoRead
      PROVE  NumbersOf(reads'[q].version) \subseteq Tables'
    <2>1. CASE q = r
        BY <1>2, <1>4, <1>5, <2>1 DEF TablesInv, VersionsAreKept
    <2>2. CASE q # r
        BY <1>2, <1>4, <1>5, <2>2 DEF TablesInv, VersionsAreKept
    <2> QED
        BY <2>1, <2>2
<1> QED
    BY <1>3, <1>5

\* A read that begins takes references.
LEMMA BeginReadKeeps ==
    ASSUME DBInv, DBInv', TablesInv, NEW r \in Readers, NEW keys, NEW iterate, BeginRead(r, keys, iterate)
    PROVE  TablesInv'
<1>1. status = "open" /\ status' = "open"
    BY DEF BeginRead
<1>2. UNCHANGED <<disk, vset, imm, bg, pending_outputs, bg_error>>
    BY DEF BeginRead, files, tables, work
<1>3. PICK rd : reads' = [reads EXCEPT ![r] = rd] /\ rd.version = vset.current
    <2>1. PICK seq : reads' = [reads EXCEPT ![r] = [seq |-> seq, keys |-> keys, iterate |-> iterate,
                                                    mem |-> mem, imm |-> imm, version |-> vset.current]]
        BY DEF BeginRead
    <2>2. PICK rd : rd = [seq |-> seq, keys |-> keys, iterate |-> iterate,
                          mem |-> mem, imm |-> imm, version |-> vset.current]
        OBVIOUS
    <2>3. rd.version = vset.current
        BY <2>2
    <2>4. reads' = [reads EXCEPT ![r] = rd]
        BY <2>1, <2>2
    <2> QED
        BY <2>3, <2>4
<1>4. /\ reads' = [q \in Readers |-> reads'[q]]
      /\ \A q \in Readers : reads'[q] # NoRead => NumbersOf(reads'[q].version) \subseteq Tables'
    BY <1>1, <1>2, <1>3, ReadsAreKept
<1>5. Runs
    BY <1>1, <1>2, RunningTypes DEF Runs, Tables, NextNumber
<1>6. imm' \in Below(NextNumber') /\ pending_outputs' \subseteq Below(NextNumber')
    BY <1>1, <1>2 DEF TablesInv, NumbersAreGiven, NextNumber
<1>7. VersionsAreKept'
    BY <1>1, <1>2, <1>4 DEF TablesInv, VersionsAreKept, Tables
<1> QED
    BY <1>1, <1>2, <1>5, <1>6, <1>7, SameWork, RunsNumbers, RunsManifest DEF TablesInv

\* A read that ends drops them, and may charge a file of the current version.
LEMMA EndReadKeeps ==
    ASSUME DBInv, DBInv', TablesInv, NEW r \in Readers, EndRead(r)
    PROVE  TablesInv'
<1>1. status = "open" /\ status' = "open"
    BY DEF EndRead
<1>2. UNCHANGED <<disk, imm, bg, pending_outputs, bg_error>>
    BY DEF EndRead, files
<1>3. reads' = [reads EXCEPT ![r] = NoRead]
    BY DEF EndRead
<1>4. /\ reads' = [q \in Readers |-> reads'[q]]
      /\ \A q \in Readers : reads'[q] # NoRead => NumbersOf(reads'[q].version) \subseteq Tables'
    BY <1>1, <1>2, <1>3, ReadsAreKept
<1>5. /\ vset'.current = vset.current /\ vset'.next_file_number = vset.next_file_number
      /\ \A s \in vset'.file_to_compact : s.level \in Levels /\ s.file \in vset.current[s.level]
    <2>1. CASE UNCHANGED vset
        BY <1>1, <2>1 DEF TablesInv, VersionsAreKept
    <2>2. CASE ~UNCHANGED vset
        <3> DEFINE rd == reads[r]
                   of(k) == IF rd.iterate THEN ReadSample(vset.current, <<k, rd.seq>>)
                            ELSE IF InMemory(rd, k) # {} THEN {}
                            ELSE SeekFile(rd.version, disk.tables, <<k, rd.seq>>)
                   charged == {s \in UNION {of(k) : k \in rd.keys} : rd.iterate \/ rd.version = vset.current}
        <3>1. PICK s \in charged : vset' = [vset EXCEPT !.file_to_compact = {s}]
            BY <2>2 DEF EndRead
        <3>2. PICK k : s \in of(k) /\ (rd.iterate \/ rd.version = vset.current)
            BY <3>1
        <3>3. s \in SeekFile(vset.current, disk.tables, <<k, rd.seq>>) \cup ReadSample(vset.current, <<k, rd.seq>>)
            BY <3>2
        <3>4. 0 \in Levels
            BY VersionsAssumption DEF Levels
        <3>5. s.level \in Levels /\ s.file \in vset.current[s.level]
            BY <3>3, <3>4, ChargedFiles
        <3> QED
            BY <3>1, <3>5, ChargesFile
    <2> QED
        BY <2>1, <2>2
<1>6. Runs
    BY <1>1, <1>2, <1>5, RunningTypes DEF Runs, Tables, NextNumber
<1>7. imm' \in Below(NextNumber') /\ pending_outputs' \subseteq Below(NextNumber')
    BY <1>1, <1>2, <1>5 DEF TablesInv, NumbersAreGiven, NextNumber
<1>8. VersionsAreKept'
    BY <1>1, <1>2, <1>4, <1>5 DEF TablesInv, VersionsAreKept, Tables
<1> QED
    BY <1>1, <1>2, <1>6, <1>7, <1>8, SameWork, RunsNumbers, RunsManifest DEF TablesInv
-----------------------------------------------------------------------------
(* The background thread begins                                             *)

\* The locals of the thread at the steps that change some.
LEMMA WorkFields ==
    ASSUME DBInv
    PROVE  /\ \A x : bg' = [bg EXCEPT !.pc = "flush", !.number = x] =>
                  /\ bg'.pc = "flush" /\ bg'.number = x /\ bg'.outputs = bg.outputs
                  /\ bg'.compaction = bg.compaction
           /\ bg' = [bg EXCEPT !.pc = "work", !.number = NULL, !.edit = NoEdit] =>
                  bg'.pc = "work" /\ bg'.outputs = bg.outputs /\ bg'.compaction = bg.compaction
           /\ \A x, c, z : bg' = [bg EXCEPT !.pc = "work", !.is_manual = x, !.compaction = c, !.todo = z] =>
                  bg'.pc = "work" /\ bg'.outputs = bg.outputs /\ bg'.compaction = c
           /\ \A c, e : bg' = [bg EXCEPT !.pc = "manifest", !.compaction = c, !.edit = e] =>
                  /\ bg'.pc = "manifest" /\ bg'.edit = e /\ bg'.outputs = bg.outputs
                  /\ bg'.compaction = c
           /\ \A e : bg' = [bg EXCEPT !.pc = "manifest", !.edit = e] =>
                  /\ bg'.pc = "manifest" /\ bg'.edit = e /\ bg'.outputs = bg.outputs
                  /\ bg'.compaction = bg.compaction
           /\ \A x, y : bg' = [bg EXCEPT !.todo = x, !.outputs = y] =>
                  bg'.pc = bg.pc /\ bg'.outputs = y /\ bg'.compaction = bg.compaction
           /\ bg' = [bg EXCEPT !.pc = "install"] =>
                  /\ bg'.pc = "install" /\ bg'.edit = bg.edit /\ bg'.outputs = bg.outputs
                  /\ bg'.compaction = bg.compaction
<1>1. IsWork(bg)
    BY DEF DBInv, ThreadsInv
<1>2. ASSUME NEW x, bg' = [bg EXCEPT !.pc = "flush", !.number = x]
      PROVE  /\ bg'.pc = "flush" /\ bg'.number = x /\ bg'.outputs = bg.outputs
             /\ bg'.compaction = bg.compaction
    <2>1. \A p, q : [bg EXCEPT !.pc = p, !.number = q] =
              [pc |-> p, number |-> q, is_manual |-> bg.is_manual,
               compaction |-> bg.compaction, todo |-> bg.todo, outputs |-> bg.outputs,
               edit |-> bg.edit]
        BY <1>1, WorkExcept
    <2>2. bg' = [pc |-> "flush", number |-> x, is_manual |-> bg.is_manual,
               compaction |-> bg.compaction, todo |-> bg.todo, outputs |-> bg.outputs,
               edit |-> bg.edit]
        BY <1>2, <2>1
    <2> QED
        BY <2>2
<1>3. ASSUME bg' = [bg EXCEPT !.pc = "work", !.number = NULL, !.edit = NoEdit]
      PROVE  bg'.pc = "work" /\ bg'.outputs = bg.outputs /\ bg'.compaction = bg.compaction
    <2>1. \A p, q, r : [bg EXCEPT !.pc = p, !.number = q, !.edit = r] =
              [pc |-> p, number |-> q, is_manual |-> bg.is_manual,
               compaction |-> bg.compaction, todo |-> bg.todo, outputs |-> bg.outputs,
               edit |-> r]
        BY <1>1, WorkExcept
    <2>2. bg' = [pc |-> "work", number |-> NULL, is_manual |-> bg.is_manual,
               compaction |-> bg.compaction, todo |-> bg.todo, outputs |-> bg.outputs,
               edit |-> NoEdit]
        BY <1>3, <2>1
    <2> QED
        BY <2>2
<1>4. ASSUME NEW x, NEW c, NEW z,
             bg' = [bg EXCEPT !.pc = "work", !.is_manual = x, !.compaction = c, !.todo = z]
      PROVE  bg'.pc = "work" /\ bg'.outputs = bg.outputs /\ bg'.compaction = c
    <2>1. \A p, q, r, s : [bg EXCEPT !.pc = p, !.is_manual = q, !.compaction = r, !.todo = s] =
              [pc |-> p, number |-> bg.number, is_manual |-> q,
               compaction |-> r, todo |-> s, outputs |-> bg.outputs,
               edit |-> bg.edit]
        BY <1>1, WorkExcept
    <2>2. bg' = [pc |-> "work", number |-> bg.number, is_manual |-> x,
               compaction |-> c, todo |-> z, outputs |-> bg.outputs,
               edit |-> bg.edit]
        BY <1>4, <2>1
    <2> QED
        BY <2>2
<1>5. ASSUME NEW c, NEW e, bg' = [bg EXCEPT !.pc = "manifest", !.compaction = c, !.edit = e]
      PROVE  /\ bg'.pc = "manifest" /\ bg'.edit = e /\ bg'.outputs = bg.outputs
             /\ bg'.compaction = c
    <2>1. \A p, q, r : [bg EXCEPT !.pc = p, !.compaction = q, !.edit = r] =
              [pc |-> p, number |-> bg.number, is_manual |-> bg.is_manual,
               compaction |-> q, todo |-> bg.todo, outputs |-> bg.outputs,
               edit |-> r]
        BY <1>1, WorkExcept
    <2>2. bg' = [pc |-> "manifest", number |-> bg.number, is_manual |-> bg.is_manual,
               compaction |-> c, todo |-> bg.todo, outputs |-> bg.outputs,
               edit |-> e]
        BY <1>5, <2>1
    <2> QED
        BY <2>2
<1>6. ASSUME NEW e, bg' = [bg EXCEPT !.pc = "manifest", !.edit = e]
      PROVE  /\ bg'.pc = "manifest" /\ bg'.edit = e /\ bg'.outputs = bg.outputs
             /\ bg'.compaction = bg.compaction
    <2>1. \A p, q : [bg EXCEPT !.pc = p, !.edit = q] =
              [pc |-> p, number |-> bg.number, is_manual |-> bg.is_manual,
               compaction |-> bg.compaction, todo |-> bg.todo, outputs |-> bg.outputs,
               edit |-> q]
        BY <1>1, WorkExcept
    <2>2. bg' = [pc |-> "manifest", number |-> bg.number, is_manual |-> bg.is_manual,
               compaction |-> bg.compaction, todo |-> bg.todo, outputs |-> bg.outputs,
               edit |-> e]
        BY <1>6, <2>1
    <2> QED
        BY <2>2
<1>7. ASSUME NEW x, NEW y, bg' = [bg EXCEPT !.todo = x, !.outputs = y]
      PROVE  bg'.pc = bg.pc /\ bg'.outputs = y /\ bg'.compaction = bg.compaction
    <2>1. \A p, q : [bg EXCEPT !.todo = p, !.outputs = q] =
              [pc |-> bg.pc, number |-> bg.number, is_manual |-> bg.is_manual,
               compaction |-> bg.compaction, todo |-> p, outputs |-> q,
               edit |-> bg.edit]
        BY <1>1, WorkExcept
    <2>2. bg' = [pc |-> bg.pc, number |-> bg.number, is_manual |-> bg.is_manual,
               compaction |-> bg.compaction, todo |-> x, outputs |-> y,
               edit |-> bg.edit]
        BY <1>7, <2>1
    <2> QED
        BY <2>2
<1>8. ASSUME bg' = [bg EXCEPT !.pc = "install"]
      PROVE  /\ bg'.pc = "install" /\ bg'.edit = bg.edit /\ bg'.outputs = bg.outputs
             /\ bg'.compaction = bg.compaction
    <2>1. bg' = [pc |-> "install", number |-> bg.number, is_manual |-> bg.is_manual,
               compaction |-> bg.compaction, todo |-> bg.todo, outputs |-> bg.outputs,
               edit |-> bg.edit]
        BY <1>1, <1>8, WorkExcept
    <2> QED
        BY <2>1
<1> QED
    BY <1>2, <1>3, <1>4, <1>5, <1>6, <1>7, <1>8

\* A thread that has no edit keeps its outputs.
LEMMA OutputsStay ==
    ASSUME TablesInv, Runs, bg.pc # "install", bg'.pc \in {"work", "flush"},
           bg'.outputs = bg.outputs, OutputNumbers \subseteq pending_outputs'
    PROVE  EditIsKept' /\ OutputsAreKept' /\ Folding' = Folding /\ OutputNumbers' = OutputNumbers
<1>1. OutputNumbers' = OutputNumbers
    BY DEF OutputNumbers
<1>2. EditIsKept' /\ Folding' = Folding
    BY DEF EditIsKept, Logging, Folding, Runs
<1> QED
    BY <1>1, <1>2 DEF TablesInv, OutputsAreKept, Runs

\* An edit is begun with numbers and tables that are there.
LEMMA EditBegins ==
    ASSUME DBInv, TablesInv, Runs, bg.pc # "install", bg'.pc = "manifest",
           bg'.outputs = bg.outputs, OutputNumbers \subseteq pending_outputs',
           vset'.next_file_number = vset.next_file_number,
           bg'.edit.next_file = vset.next_file_number,
           AddedNumbers(bg'.edit.version_edit) \subseteq Below(NextNumber),
           AddedNumbers(bg'.edit.version_edit) \subseteq Tables'
    PROVE  EditIsKept' /\ OutputsAreKept' /\ Folding' = Folding
<1>1. OutputNumbers' = OutputNumbers
    BY DEF OutputNumbers
<1>2. Folding' = Folding
    BY DEF Folding, Runs
<1>3. CurrentManifest' = CurrentManifest
    BY DEF Runs, CurrentManifest
<1>4. EditIsKept'
    <2>1. NextNumber \in Nat
        BY RunningTypes DEF Runs
    <2>2. bg'.edit.next_file <= NextNumber'
        BY <2>1 DEF NextNumber
    <2>3. CurrentManifest'.next_file <= bg'.edit.next_file
        BY <1>3 DEF TablesInv, NumbersAreGiven, Runs, NextNumber
    <2> QED
        BY <2>2, <2>3 DEF EditIsKept, NextNumber
<1>5. OutputsAreKept'
    BY <1>1 DEF TablesInv, OutputsAreKept, Runs
<1> QED
    BY <1>2, <1>4, <1>5

\* What EditFor takes along.
LEMMA EditForFields ==
    ASSUME NEW kind, NEW d, NEW a, NEW p, NEW n, NEW vs
    PROVE  LET e == EditFor(kind, VersionEdit(d, a, p), n, vs)
           IN e.next_file = vs.next_file_number /\ AddedNumbers(e.version_edit) = {x[2].number : x \in a}
<1>1. VersionEdit(d, a, p).new_files = a
    BY VersionEditFiles
<1> DEFINE ve == VersionEdit(d, a, p)
<1>2. AddedNumbers(ve) = {x[2].number : x \in a}
    BY <1>1 DEF AddedNumbers
<1> HIDE DEF ve
<1>3. EditFor(kind, ve, n, vs).next_file = vs.next_file_number /\ EditFor(kind, ve, n, vs).version_edit = ve
    BY DEF EditFor
<1> QED
    BY <1>2, <1>3 DEF ve

\* The numbers of the files that are added to a level.
LEMMA NumbersOfOne ==
    ASSUME NEW l, NEW f
    PROVE  {x[2].number : x \in {<<l, f>>}} = {f.number}
OBVIOUS
LEMMA NumbersOfMany ==
    ASSUME NEW l, NEW fs
    PROVE  {x[2].number : x \in {<<l, f>> : f \in fs}} = {f.number : f \in fs}
<1>1. \A f : <<l, f>>[2].number = f.number
    OBVIOUS
<1>2. \A y : y \in {x[2].number : x \in {<<l, f>> : f \in fs}} <=> \E f \in fs : y = <<l, f>>[2].number
    OBVIOUS
<1> QED
    BY <1>1, <1>2

\* A flush takes a number and makes it pending.
LEMMA FlushBegins ==
    ASSUME DBInv, DBInv', TablesInv, status = "open", bg.pc # "install",
           UNCHANGED <<disk, status, imm, reads, bg_error>>,
           bg' = [bg EXCEPT !.pc = "flush", !.number = vset.next_file_number],
           vset' = [vset EXCEPT !.next_file_number = vset.next_file_number + 1],
           pending_outputs' = pending_outputs \cup {vset.next_file_number}
    PROVE  TablesInv'
<1>1. NextNumber \in Nat
    BY RunningTypes
<1>2. /\ vset'.current = vset.current /\ vset'.file_to_compact = vset.file_to_compact
      /\ NextNumber' = NextNumber + 1
    <2>1. PICK x : vset' = [vset EXCEPT !.next_file_number = x] /\ x = vset.next_file_number + 1
        OBVIOUS
    <2> QED
        BY <2>1, TakesNumber DEF NextNumber
<1>3. Runs
    BY <1>1, <1>2 DEF Runs, Tables
<1>4. Below(NextNumber) \subseteq Below(NextNumber') /\ NextNumber \in Below(NextNumber')
    BY <1>1, <1>2 DEF Below
<1>5. /\ bg'.pc = "flush" /\ bg'.number = NextNumber /\ bg'.outputs = bg.outputs
      /\ bg'.compaction = bg.compaction
    BY WorkFields DEF NextNumber
<1>6. OutputNumbers \subseteq pending_outputs /\ pending_outputs \subseteq Below(NextNumber)
    BY DEF TablesInv, OutputsAreKept, NumbersAreGiven
<1>7. EditIsKept' /\ OutputsAreKept' /\ Folding' = Folding /\ OutputNumbers' = OutputNumbers
    BY <1>3, <1>5, <1>6, OutputsStay
<1>8. NextNumber \notin OutputNumbers
    BY <1>1, <1>6 DEF Below
<1>9. imm' \in Below(NextNumber') /\ pending_outputs' \subseteq Below(NextNumber')
    BY <1>4, <1>6 DEF TablesInv, NumbersAreGiven, NextNumber
<1>10. NumbersAreGiven'
    BY <1>3, <1>4, <1>5, <1>7, <1>8, <1>9, RunsNumbers
<1>11. VersionsAreKept'
    BY <1>2, <1>3, <1>5, RunsVersions DEF TablesInv, VersionsAreKept, Runs
<1> QED
    BY <1>3, <1>7, <1>10, <1>11, RunsManifest DEF TablesInv
\* A compaction is interrupted by a flush.
LEMMA BeginNestedFlushKeeps ==
    ASSUME DBInv, DBInv', TablesInv, BeginNestedFlush
    PROVE  TablesInv'
<1>1. status = "open" /\ bg.pc = "work" /\ UNCHANGED <<disk, status, imm, reads, bg_error>>
    BY DEF BeginNestedFlush, files, tables, client
<1>2. /\ bg' = [bg EXCEPT !.pc = "flush", !.number = vset.next_file_number]
      /\ vset' = [vset EXCEPT !.next_file_number = vset.next_file_number + 1]
      /\ pending_outputs' = pending_outputs \cup {vset.next_file_number}
    BY DEF BeginNestedFlush
<1> QED
    BY <1>1, <1>2, FlushBegins

\* A call that ends with nothing done leaves all as it was.
LEMMA CallEndsKeeps ==
    ASSUME DBInv, DBInv', TablesInv, status # "down", bg.pc # "install", bg' = NoWork,
           UNCHANGED <<disk, status, vset, imm, reads>>, bg_error => bg_error',
           pending_outputs' \subseteq pending_outputs
    PROVE  TablesInv'
<1>1. Runs
    BY RunningTypes DEF Runs, Tables, NextNumber
<1>2. EditIsKept' /\ OutputsAreKept' /\ Folding' = Folding /\ bg'.compaction = NoCompaction /\ bg'.pc # "flush"
    BY <1>1, IdleWork
<1>3. imm' \in Below(NextNumber') /\ pending_outputs' \subseteq Below(NextNumber')
    BY DEF TablesInv, NumbersAreGiven, NextNumber
<1>4. NumbersAreGiven'
    BY <1>1, <1>2, <1>3, RunsNumbers
<1> QED
    BY <1>1, <1>2, <1>4, RunsVersions, RunsManifest DEF TablesInv

\* A compaction that begins refers to the current version, and a move takes
\* a file of it.
LEMMA CompactionBegins ==
    ASSUME DBInv, DBInv', TablesInv, status = "open", bg.pc = "idle",
           UNCHANGED <<disk, status, imm, reads, bg_error, pending_outputs>>,
           NEW c, c.version = vset.current, c # NoCompaction,
           vset' = [vset EXCEPT !.compact_pointer[c.level] = c.pointer],
           \/ Work(c)
           \/ /\ Move(c) /\ Cardinality(c.inputs0) = 1
              /\ c.level \in Levels /\ c.inputs0 \subseteq vset.current[c.level]
    PROVE  TablesInv'
<1>1. /\ vset'.current = vset.current /\ vset'.file_to_compact = vset.file_to_compact
      /\ vset'.next_file_number = vset.next_file_number
    <2>1. IsVersions(vset)
        BY DEF DBInv, VsetInv
    <2>2. PICK x : vset' = [vset EXCEPT !.compact_pointer = x]
        OBVIOUS
    <2>3. vset' = [current |-> vset.current, file_to_compact |-> vset.file_to_compact,
                   next_file_number |-> vset.next_file_number, last_sequence |-> vset.last_sequence,
                   log_number |-> vset.log_number, manifest_file_number |-> vset.manifest_file_number,
                   compact_pointer |-> x]
        BY <2>1, <2>2, VersionsExcept
    <2> QED
        BY <2>3
<1>2. Runs
    BY <1>1, RunningTypes DEF Runs, Tables, NextNumber
<1>3. /\ OutputNumbers \subseteq pending_outputs /\ pending_outputs' \subseteq Below(NextNumber')
      /\ imm' \in Below(NextNumber')
    BY <1>1 DEF TablesInv, OutputsAreKept, NumbersAreGiven, NextNumber
<1>4. NumbersOf(c.version) \subseteq Tables'
    BY DEF TablesInv, VersionsAreKept, Tables
<1>5. /\ EditIsKept' /\ OutputsAreKept' /\ Folding' = Folding
      /\ bg'.compaction = c /\ bg'.pc # "flush"
    <2>1. CASE Work(c)
        <3>1. PICK x, z : bg' = [bg EXCEPT !.pc = "work", !.is_manual = x, !.compaction = c, !.todo = z]
            BY <2>1 DEF Work
        <3>2. bg'.pc = "work" /\ bg'.outputs = bg.outputs /\ bg'.compaction = c
            BY <3>1, WorkFields
        <3> QED
            BY <1>2, <1>3, <3>2, OutputsStay
    <2>2. CASE ~Work(c)
        <3> DEFINE f == CHOOSE f \in c.inputs0 : TRUE
                   new == {<<c.level + 1, f>>}
                   e == EditFor("move", VersionEdit({<<c.level, f.number>>}, new, Pointer(c)),
                                vset.log_number, vset)
        <3>1. bg' = [bg EXCEPT !.pc = "manifest", !.compaction = c, !.edit = e]
            BY <2>2 DEF Move
        <3>2. c.inputs0 # {}
            <4>1. Cardinality({}) = 0
                BY FS_EmptySet
            <4> QED
                BY <2>2, <4>1
        <3>3. f \in vset.current[c.level] /\ c.level \in Levels
            BY <2>2, <3>2
        <3>4. f.number \in NumbersOf(vset.current)
            BY <3>3, FileOfLevel
        <3>8. {x[2].number : x \in new} = {f.number}
            BY NumbersOfOne
        <3> HIDE DEF new
        <3>9. e.next_file = vset.next_file_number /\ AddedNumbers(e.version_edit) = {x[2].number : x \in new}
            BY EditForFields
        <3>5. e.next_file = vset.next_file_number /\ AddedNumbers(e.version_edit) = {f.number}
            BY <3>8, <3>9
        <3>6. /\ AddedNumbers(e.version_edit) \subseteq Below(NextNumber)
              /\ AddedNumbers(e.version_edit) \subseteq Tables'
            BY <3>4, <3>5 DEF TablesInv, NumbersAreGiven, VersionsAreKept, Tables
        <3> HIDE DEF e
        <3>7. /\ bg'.pc = "manifest" /\ bg'.edit = e /\ bg'.outputs = bg.outputs
              /\ bg'.compaction = c
            BY <3>1, WorkFields
        <3> QED
            BY <1>1, <1>2, <1>3, <3>5, <3>6, <3>7, EditBegins
    <2> QED
        BY <2>1, <2>2
<1>6. NumbersAreGiven'
    BY <1>2, <1>3, <1>5, RunsNumbers
<1>7. VersionsAreKept'
    BY <1>1, <1>2, <1>4, <1>5, RunsVersions
<1> QED
    BY <1>2, <1>5, <1>6, <1>7, RunsManifest DEF TablesInv

\* What a background call begins with.
LEMMA BackgroundCallKeeps ==
    ASSUME DBInv, DBInv', TablesInv, BackgroundCall
    PROVE  TablesInv'
<1> DEFINE picked == IF manual_compaction
                     THEN CompactRange(vset.current, caller.level, caller.range)
                     ELSE PickCompaction(vset.current, vset.compact_pointer, vset.file_to_compact)
<1>1. /\ bg.pc = "idle" /\ bg_compaction_scheduled
      /\ UNCHANGED <<disk, status, imm, reads, bg_error>>
    BY DEF BackgroundCall, files, tables, client
<1>2. status # "down"
    BY <1>1 DEF DBInv, StatusInv, InitProcess
<1>3. \/ bg' = NoWork /\ UNCHANGED <<vset, pending_outputs>>
      \/ /\ status = "open"
         /\ bg' = [bg EXCEPT !.pc = "flush", !.number = vset.next_file_number]
         /\ vset' = [vset EXCEPT !.next_file_number = vset.next_file_number + 1]
         /\ pending_outputs' = pending_outputs \cup {vset.next_file_number}
      \/ \E c \in picked :
             /\ status = "open" /\ UNCHANGED pending_outputs
             /\ vset' = [vset EXCEPT !.compact_pointer[c.level] = c.pointer]
             /\ IF ~manual_compaction /\ IsTrivialMove(c) THEN Move(c) ELSE Work(c)
    BY DEF BackgroundCall, EndCall
<1>4. CASE bg' = NoWork /\ UNCHANGED <<vset, pending_outputs>>
    BY <1>1, <1>2, <1>4, CallEndsKeeps
<1>5. CASE /\ status = "open"
           /\ bg' = [bg EXCEPT !.pc = "flush", !.number = vset.next_file_number]
           /\ vset' = [vset EXCEPT !.next_file_number = vset.next_file_number + 1]
           /\ pending_outputs' = pending_outputs \cup {vset.next_file_number}
    BY <1>1, <1>5, FlushBegins
<1>6. ASSUME NEW c \in picked, status = "open", UNCHANGED pending_outputs,
             vset' = [vset EXCEPT !.compact_pointer[c.level] = c.pointer],
             IF ~manual_compaction /\ IsTrivialMove(c) THEN Move(c) ELSE Work(c)
      PROVE  TablesInv'
    <2>1. IsFiniteSet(vset.current[0])
        BY DEF DBInv, VsetInv, IsVersions
    <2>2. \A s \in vset.file_to_compact : s.level \in Levels /\ s.file \in vset.current[s.level]
        BY <1>2 DEF TablesInv, VersionsAreKept
    <2>3. CASE manual_compaction
        <3>1. c.version = vset.current /\ c # NoCompaction
            BY <1>6, <2>3, RangeIsOfVersion
        <3> QED
            BY <1>1, <1>6, <2>3, <3>1, CompactionBegins
    <2>4. CASE ~manual_compaction
        <3>1. /\ c.version = vset.current /\ c # NoCompaction
              /\ c.level \in Levels /\ c.inputs0 \subseteq vset.current[c.level]
            BY <1>6, <2>1, <2>2, <2>4, PickedFiles
        <3>2. Work(c) \/ (Move(c) /\ Cardinality(c.inputs0) = 1)
            BY <1>6 DEF IsTrivialMove
        <3> QED
            BY <1>1, <1>6, <3>1, <3>2, CompactionBegins
    <2> QED
        BY <2>3, <2>4
<1> QED
    BY <1>3, <1>4, <1>5, <1>6
-----------------------------------------------------------------------------
(* The background thread writes tables                                      *)

\* A step that leaves the thread where its compaction was, or idle, keeps the
\* invariant if the outputs stay pending.
LEMMA CallGoesOnKeeps ==
    ASSUME DBInv, DBInv', TablesInv, Runs, status' # "down", bg.pc # "install",
           bg' = NoWork \/ bg' = [bg EXCEPT !.pc = "work", !.number = NULL, !.edit = NoEdit],
           UNCHANGED <<vset, imm, reads>>,
           pending_outputs' \subseteq pending_outputs,
           bg' = NoWork \/ OutputNumbers \subseteq pending_outputs'
    PROVE  TablesInv'
<1>1. imm' \in Below(NextNumber') /\ pending_outputs' \subseteq Below(NextNumber')
    BY DEF TablesInv, NumbersAreGiven, NextNumber, Runs
<1>2. /\ EditIsKept' /\ OutputsAreKept' /\ Folding' = Folding /\ bg'.pc # "flush"
      /\ bg'.compaction # NoCompaction => NumbersOf(bg'.compaction.version) \subseteq Tables'
    <2>1. CASE bg' = NoWork
        BY <2>1, IdleWork
    <2>2. CASE bg' # NoWork
        <3>1. bg'.pc = "work" /\ bg'.outputs = bg.outputs /\ bg'.compaction = bg.compaction
            BY <2>2, WorkFields
        <3>2. EditIsKept' /\ OutputsAreKept' /\ Folding' = Folding
            BY <2>2, <3>1, OutputsStay
        <3> QED
            BY <3>1, <3>2 DEF TablesInv, VersionsAreKept, Runs
    <2> QED
        BY <2>1, <2>2
<1>3. NumbersAreGiven'
    BY <1>1, <1>2, RunsNumbers
<1>4. VersionsAreKept'
    BY <1>2, RunsVersions
<1> QED
    BY <1>2, <1>3, <1>4, RunsManifest DEF TablesInv

\* So does one that hands an edit on.
LEMMA EditBeginsKeeps ==
    ASSUME DBInv, DBInv', TablesInv, Runs, status' # "down", bg.pc # "install",
           NEW e, bg' = [bg EXCEPT !.pc = "manifest", !.edit = e], e.next_file = vset.next_file_number,
           AddedNumbers(e.version_edit) \subseteq Below(NextNumber),
           AddedNumbers(e.version_edit) \subseteq Tables',
           UNCHANGED <<vset, imm, reads>>,
           pending_outputs' \subseteq pending_outputs, OutputNumbers \subseteq pending_outputs'
    PROVE  TablesInv'
<1>1. imm' \in Below(NextNumber') /\ pending_outputs' \subseteq Below(NextNumber')
    BY DEF TablesInv, NumbersAreGiven, NextNumber, Runs
<1>2. /\ bg'.pc = "manifest" /\ bg'.edit = e /\ bg'.outputs = bg.outputs
      /\ bg'.compaction = bg.compaction
    BY WorkFields
<1>3. EditIsKept' /\ OutputsAreKept' /\ Folding' = Folding
    BY <1>2, EditBegins
<1>4. NumbersAreGiven'
    BY <1>1, <1>2, RunsNumbers
<1>5. VersionsAreKept'
    BY <1>2, RunsVersions DEF TablesInv, VersionsAreKept, Runs
<1> QED
    BY <1>3, <1>4, <1>5, RunsManifest DEF TablesInv

\* A table more on the disk, or as many.
LEMMA TablesGrow ==
    ASSUME DBInv, NEW n, NEW es, disk' = [disk EXCEPT !.tables = Put(disk.tables, n, es)]
    PROVE  Tables' = Tables \cup {n} /\ disk'.manifests = disk.manifests /\ disk'.current = disk.current
<1> DEFINE ts == Put(disk.tables, n, es)
<1>1. DOMAIN ts = DOMAIN disk.tables \cup {n}
    BY PutProperties
<1> HIDE DEF ts
<1>2. disk' = [logs |-> disk.logs, tables |-> ts, manifests |-> disk.manifests, current |-> disk.current]
    BY DiskExcept DEF DBInv, DiskInv, ts
<1> QED
    BY <1>1, <1>2 DEF Tables

\* BuildTable makes a table if there is something to write.
LEMMA BuiltTables ==
    ASSUME DBInv, NEW n, NEW es, disk' = BuildTable(disk, n, es)
    PROVE  /\ Tables' = IF es = {} THEN Tables ELSE Tables \cup {n}
           /\ disk'.manifests = disk.manifests /\ disk'.current = disk.current
<1>1. CASE es = {}
    BY <1>1 DEF BuildTable, Tables
<1>2. CASE es # {}
    <2>1. disk' = [disk EXCEPT !.tables = Put(disk.tables, n, es)]
        BY <1>2 DEF BuildTable
    <2> QED
        BY <1>2, <2>1, TablesGrow
<1> QED
    BY <1>1, <1>2

\* A flush writes its table, which the edit adds; its number is not pending
\* any more.
LEMMA FlushTableKeeps ==
    ASSUME DBInv, DBInv', TablesInv, FlushTable
    PROVE  TablesInv'
<1> DEFINE es == memtables[imm]
           f == FileMetaData(bg.number, es)
           level == PickLevelForMemTableOutput(vset.current, <<f.smallest[1], f.largest[1]>>)
           added == IF es = {} THEN {} ELSE {<<level, f>>}
           e == EditFor("flush", VersionEdit({}, added, {}), mem, vset)
           built == BuildTable(disk, bg.number, es)
<1>1. /\ bg.pc = "flush" /\ UNCHANGED <<status, vset, imm, reads>>
      /\ pending_outputs' = pending_outputs \ {bg.number}
    BY DEF FlushTable, tables, client
<1>2. status # "down" /\ status' # "down"
    BY <1>1, BusyIsRunning
<1>3. \/ disk' = built /\ bg' = [bg EXCEPT !.pc = "manifest", !.edit = e] /\ UNCHANGED bg_error
      \/ disk' \in {disk, built} /\ bg_error' /\ AfterFlush(vset, imm, TRUE)
    BY DEF FlushTable, RecordBackgroundError
<1>4. /\ disk' = built => Tables' = IF es = {} THEN Tables ELSE Tables \cup {bg.number}
      /\ disk'.manifests = disk.manifests /\ disk'.current = disk.current
      /\ Tables \subseteq Tables'
    <2>1. CASE disk' = built
        BY <2>1, BuiltTables
    <2>2. CASE disk' = disk
        <3>1. Tables' = Tables /\ disk'.manifests = disk.manifests /\ disk'.current = disk.current
            BY <2>2 DEF Tables
        <3>2. disk' = built => Tables' = IF es = {} THEN Tables ELSE Tables \cup {bg.number}
            BY BuiltTables
        <3> QED
            BY <3>1, <3>2
    <2> QED
        BY <1>3, <2>1, <2>2
<1>9. bg_error => bg_error'
    BY <1>3
<1>5. Runs
    <2>1. NextNumber' = NextNumber /\ NextNumber \in Nat /\ vset'.current = vset.current
        BY <1>1, <1>2, RunningTypes DEF NextNumber
    <2> QED
        BY <1>2, <1>4, <1>9, <2>1 DEF Runs
<1>6. /\ bg.number \in Below(NextNumber) /\ bg.number \notin OutputNumbers
      /\ OutputNumbers \subseteq pending_outputs'
    BY <1>1, <1>2 DEF TablesInv, NumbersAreGiven, OutputsAreKept
<1>7. CASE disk' = built /\ bg' = [bg EXCEPT !.pc = "manifest", !.edit = e]
    <2>1. {x[2].number : x \in added} = IF es = {} THEN {} ELSE {bg.number}
        <3>1. f.number = bg.number
            BY DEF FileMetaData
        <3>2. CASE es = {}
            BY <3>2
        <3>3. CASE es # {}
            <4> HIDE DEF f, level
            <4>1. added = {<<level, f>>}
                BY <3>3
            <4> QED
                BY <3>1, <3>3, <4>1, NumbersOfOne
        <3> QED
            BY <3>2, <3>3
    <2> HIDE DEF added
    <2>2. e.next_file = vset.next_file_number /\ AddedNumbers(e.version_edit) = {x[2].number : x \in added}
        BY EditForFields
    <2> HIDE DEF e
    <2>3. /\ AddedNumbers(e.version_edit) \subseteq Below(NextNumber)
          /\ AddedNumbers(e.version_edit) \subseteq Tables'
        BY <1>4, <1>6, <1>7, <2>1, <2>2
    <2> QED
        BY <1>1, <1>2, <1>5, <1>6, <1>7, <2>2, <2>3, EditBeginsKeeps
<1>8. CASE AfterFlush(vset, imm, TRUE)
    <2>1. bg' = NoWork \/ bg' = [bg EXCEPT !.pc = "work", !.number = NULL, !.edit = NoEdit]
        BY <1>8, AfterFlushWorks
    <2> QED
        BY <1>1, <1>2, <1>5, <1>6, <2>1, CallGoesOnKeeps
<1> QED
    BY <1>3, <1>7, <1>8

\* A compaction writes one of its outputs, with a number that becomes pending.
LEMMA WriteOutputKeeps ==
    ASSUME DBInv, DBInv', TablesInv, WriteOutput
    PROVE  TablesInv'
<1> DEFINE n == vset.next_file_number
           f == FileMetaData(n, Head(bg.todo))
<1>1. /\ status = "open" /\ bg.pc = "work" /\ UNCHANGED <<status, imm, reads, bg_error>>
      /\ pending_outputs' = pending_outputs \cup {n}
      /\ disk' = [disk EXCEPT !.tables = Put(disk.tables, n, Head(bg.todo))]
    BY DEF WriteOutput, tables, client
<1>2. n \in Nat
    BY <1>1, RunningTypes DEF NextNumber
<1>3. /\ vset'.current = vset.current /\ vset'.file_to_compact = vset.file_to_compact
      /\ vset'.next_file_number = n + 1
    <2>1. PICK x : vset' = [vset EXCEPT !.next_file_number = x] /\ x = n + 1
        BY DEF WriteOutput
    <2> QED
        BY <2>1, TakesNumber
<1>4. Tables' = Tables \cup {n} /\ disk'.manifests = disk.manifests /\ disk'.current = disk.current
    BY <1>1, TablesGrow
<1>5. bg'.pc = "work" /\ bg'.outputs = bg.outputs \cup {f} /\ bg'.compaction = bg.compaction
    <2>1. PICK x, y : bg' = [bg EXCEPT !.todo = x, !.outputs = y] /\ y = bg.outputs \cup {f}
        BY DEF WriteOutput
    <2> QED
        BY <1>1, <2>1, WorkFields
<1>6. Runs
    BY <1>1, <1>2, <1>3, <1>4 DEF Runs, NextNumber
<1>7. OutputNumbers' = OutputNumbers \cup {n}
    <2>1. f.number = n
        BY DEF FileMetaData
    <2> HIDE DEF f
    <2> QED
        BY <1>5, <2>1 DEF OutputNumbers
<1>8. EditIsKept' /\ OutputsAreKept' /\ Folding' = Folding
    <2>1. EditIsKept' /\ Folding' = Folding
        BY <1>1, <1>3, <1>5 DEF EditIsKept, Logging, Folding
    <2>2. OutputsAreKept'
        BY <1>1, <1>4, <1>7 DEF TablesInv, OutputsAreKept
    <2> QED
        BY <2>1, <2>2
<1>9. Below(NextNumber) \subseteq Below(NextNumber') /\ n \in Below(NextNumber')
    BY <1>2, <1>3 DEF Below, NextNumber
<1>10. NumbersAreGiven'
    <2>1. imm' \in Below(NextNumber') /\ pending_outputs' \subseteq Below(NextNumber')
        BY <1>1, <1>9 DEF TablesInv, NumbersAreGiven
    <2> QED
        BY <1>1, <1>5, <1>6, <2>1, RunsNumbers
<1>11. VersionsAreKept'
    BY <1>1, <1>3, <1>5, <1>6, RunsVersions DEF TablesInv, VersionsAreKept, Runs
<1> QED
    BY <1>6, <1>8, <1>10, <1>11, RunsManifest DEF TablesInv

\* A compaction that failed gives its outputs up.
LEMMA AbortCompactionKeeps ==
    ASSUME DBInv, DBInv', TablesInv, AbortCompaction
    PROVE  TablesInv'
<1>1. /\ bg.pc = "work" /\ UNCHANGED <<disk, status, vset, imm, reads>> /\ bg_error'
      /\ pending_outputs' = pending_outputs \ OutputNumbers
    BY DEF AbortCompaction, RecordBackgroundError, files, tables, client
<1>2. bg' = NoWork
    BY DEF AbortCompaction, EndCall
<1>3. status # "down"
    BY <1>1, BusyIsRunning
<1> QED
    BY <1>1, <1>2, <1>3, CallEndsKeeps

\* A compaction that is done adds its outputs.
LEMMA FinishCompactionKeeps ==
    ASSUME DBInv, DBInv', TablesInv, FinishCompaction
    PROVE  TablesInv'
<1> DEFINE c == bg.compaction
           new == {<<c.level + 1, f>> : f \in bg.outputs}
           e == EditFor("compaction", VersionEdit(AddInputDeletions(c), new, Pointer(c)),
                        vset.log_number, vset)
<1>1. /\ status = "open" /\ bg.pc = "work"
      /\ UNCHANGED <<disk, status, vset, imm, reads, pending_outputs, bg_error>>
    BY DEF FinishCompaction, files, tables, client
<1>2. bg' = [bg EXCEPT !.pc = "manifest", !.edit = e]
    BY DEF FinishCompaction
<1>3. {x[2].number : x \in new} = OutputNumbers
    <2>1. PICK l : l = c.level + 1
        OBVIOUS
    <2>2. new = {<<l, f>> : f \in bg.outputs}
        BY <2>1
    <2> HIDE DEF new
    <2>3. \A fs : {x[2].number : x \in {<<l, f>> : f \in fs}} = {f.number : f \in fs}
        BY NumbersOfMany
    <2>4. {x[2].number : x \in {<<l, f>> : f \in bg.outputs}} = {f.number : f \in bg.outputs}
        BY <2>3
    <2>5. {x[2].number : x \in new} = {f.number : f \in bg.outputs}
        BY <2>2, <2>4, Zenon
    <2> QED
        BY <2>5 DEF OutputNumbers
<1> HIDE DEF new
<1>7. e.next_file = vset.next_file_number /\ AddedNumbers(e.version_edit) = {x[2].number : x \in new}
    BY EditForFields
<1>4. e.next_file = vset.next_file_number /\ AddedNumbers(e.version_edit) = OutputNumbers
    BY <1>3, <1>7
<1> HIDE DEF e
<1>5. Runs
    BY <1>1, RunningTypes DEF Runs, Tables, NextNumber
<1>6. /\ OutputNumbers \subseteq Below(NextNumber) /\ OutputNumbers \subseteq Tables'
      /\ OutputNumbers \subseteq pending_outputs'
    BY <1>1 DEF TablesInv, NumbersAreGiven, OutputsAreKept, Tables
<1> QED
    BY <1>1, <1>2, <1>4, <1>5, <1>6, EditBeginsKeeps
-----------------------------------------------------------------------------
(* The manifest is written                                                  *)

\* What WriteManifest folds the edit into: the files of the manifest before.
LEMMA PersistedFiles ==
    ASSUME DBInv, TablesInv, bg.pc = "manifest", disk' = Persisted
    PROVE  /\ disk'.tables = disk.tables /\ disk'.current # 0
           /\ CurrentManifest'.files = ApplyEdit(CurrentManifest.files, bg.edit.version_edit)
           /\ CurrentManifest'.next_file = bg.edit.next_file
<1> DEFINE opening == bg.edit.kind = "open"
           n == IF opening THEN vset.manifest_file_number ELSE disk.current
           base == IF opening THEN vset.current ELSE CurrentManifest.files
           pointers == IF opening THEN vset.compact_pointer ELSE CurrentManifest.compact_pointer
           m == Folded(base, pointers, bg.edit)
           ms == Put(disk.manifests, n, m)
<1>1. status # "down" /\ IsDisk(disk)
    BY BusyIsRunning DEF DBInv, DiskInv
<1>2. n # 0
    BY <1>1 DEF DBInv, NumbersInv
<1>3. base = CurrentManifest.files
    <2>1. CASE opening
        <3>1. status = "opening"
            BY <1>1, <2>1 DEF DBInv, StatusInv
        <3>2. ~bg_error
            BY <3>1 DEF DBInv, StatusInv, Opening
        <3> QED
            BY <1>1, <2>1, <3>2 DEF TablesInv, ManifestIsKept, Folding
    <2>2. CASE ~opening
        BY <2>2
    <2> QED
        BY <2>1, <2>2
<1>4. Persisted = [disk EXCEPT !.current = n, !.manifests = ms]
    BY DEF Persisted, CurrentManifest
<1>5. m.files = ApplyEdit(base, bg.edit.version_edit) /\ m.next_file = bg.edit.next_file
    <2> HIDE DEF base, pointers
    <2> QED
        BY DEF Folded
<1>6. ms[n] = m
    <2> HIDE DEF m, n
    <2> QED
        BY DEF Put
<1> HIDE DEF ms, m, n, base, pointers, opening
<1>10. \A x, y : [disk EXCEPT !.current = x, !.manifests = y] =
          [logs |-> disk.logs, tables |-> disk.tables, manifests |-> y, current |-> x]
    BY <1>1, DiskExcept
<1>7. Persisted = [logs |-> disk.logs, tables |-> disk.tables, manifests |-> ms, current |-> n]
    BY <1>4, <1>10
<1>8. disk'.tables = disk.tables /\ disk'.current = n /\ disk'.manifests = ms
    BY <1>7
<1>9. CurrentManifest' = m
    BY <1>6, <1>8 DEF CurrentManifest
<1> QED
    BY <1>2, <1>3, <1>5, <1>8, <1>9

\* They are there, with numbers below the edit's.
LEMMA PersistedAreKept ==
    ASSUME DBInv, TablesInv, bg.pc = "manifest", disk' = Persisted
    PROVE  /\ NumbersOf(CurrentManifest'.files) \subseteq Tables'
           /\ NumbersOf(CurrentManifest'.files) \subseteq Below(CurrentManifest'.next_file)
           /\ Tables' = Tables /\ CurrentManifest'.next_file <= NextNumber
<1>1. /\ disk'.tables = disk.tables
      /\ CurrentManifest'.files = ApplyEdit(CurrentManifest.files, bg.edit.version_edit)
      /\ CurrentManifest'.next_file = bg.edit.next_file
    BY PersistedFiles
<1>2. Logging /\ status # "down"
    BY BusyIsRunning DEF Logging
<1>3. disk.current # 0 /\ CurrentManifest.next_file \in Nat /\ bg.edit.next_file \in Nat
    BY <1>2, RunningTypes
<1>4. NumbersOf(CurrentManifest'.files)
          \subseteq NumbersOf(CurrentManifest.files) \cup AddedNumbers(bg.edit.version_edit)
    BY <1>1, ApplyEditNumbers
<1>5. /\ bg.edit.next_file <= NextNumber /\ CurrentManifest.next_file <= bg.edit.next_file
      /\ AddedNumbers(bg.edit.version_edit) \subseteq Below(bg.edit.next_file)
      /\ AddedNumbers(bg.edit.version_edit) \subseteq Tables
    BY <1>2 DEF TablesInv, EditIsKept
<1>6. /\ NumbersOf(CurrentManifest.files) \subseteq Tables
      /\ NumbersOf(CurrentManifest.files) \subseteq Below(CurrentManifest.next_file)
    BY <1>3 DEF TablesInv, ManifestIsKept
<1>7. Below(CurrentManifest.next_file) \subseteq Below(bg.edit.next_file)
    BY <1>3, <1>5, BelowGrows
<1>8. Tables' = Tables
    BY <1>1 DEF Tables
<1> QED
    BY <1>1, <1>4, <1>5, <1>6, <1>7, <1>8

\* Writing the manifest keeps the invariant: the manifest is ahead of the
\* version set until the edit is installed.
LEMMA WriteManifestKeeps ==
    ASSUME DBInv, DBInv', TablesInv, WriteManifest
    PROVE  TablesInv'
<1>1. /\ bg.pc = "manifest" /\ disk' = Persisted
      /\ UNCHANGED <<status, vset, imm, pending_outputs, bg_error, reads>>
    BY DEF WriteManifest, tables, client
<1>2. /\ bg'.pc = "install" /\ bg'.edit = bg.edit /\ bg'.outputs = bg.outputs
      /\ bg'.compaction = bg.compaction
    <2>1. bg' = [bg EXCEPT !.pc = "install"]
        BY DEF WriteManifest
    <2> QED
        BY <2>1, WorkFields
<1>3. status # "down" /\ Logging
    BY <1>1, BusyIsRunning DEF Logging
<1>4. bg.edit.next_file \in Nat
    BY <1>3, RunningTypes
<1>5. /\ NumbersOf(CurrentManifest'.files) \subseteq Tables'
      /\ NumbersOf(CurrentManifest'.files) \subseteq Below(CurrentManifest'.next_file)
      /\ Tables' = Tables /\ CurrentManifest'.next_file <= NextNumber
    BY <1>1, PersistedAreKept
<1>6. /\ CurrentManifest'.files = ApplyEdit(CurrentManifest.files, bg.edit.version_edit)
      /\ CurrentManifest'.next_file = bg.edit.next_file
    BY <1>1, PersistedFiles
<1>7. NextNumber' = NextNumber /\ OutputNumbers' = OutputNumbers
    BY <1>1, <1>2 DEF NextNumber, OutputNumbers
<1>8. NumbersAreGiven'
    BY <1>1, <1>2, <1>3, <1>5, <1>7 DEF TablesInv, NumbersAreGiven
<1>9. EditIsKept'
    <2>1. CurrentManifest'.next_file <= bg'.edit.next_file
        BY <1>2, <1>4, <1>6
    <2> QED
        BY <1>2, <1>3, <1>5, <1>7, <2>1 DEF TablesInv, EditIsKept
<1>10. OutputsAreKept'
    BY <1>1, <1>5, <1>7 DEF TablesInv, OutputsAreKept
<1>11. VersionsAreKept'
    BY <1>1, <1>2, <1>5 DEF TablesInv, VersionsAreKept
<1>12. ManifestIsKept'
    <2>1. ASSUME ~bg_error
          PROVE  CurrentManifest'.files = Folding'
        <3>1. CurrentManifest.files = vset.current
            BY <1>1, <1>3, <2>1 DEF TablesInv, ManifestIsKept, Folding
        <3>2. Folding' = ApplyEdit(vset.current, bg.edit.version_edit)
            BY <1>1, <1>2 DEF Folding
        <3> QED
            BY <1>6, <3>1, <3>2
    <2> QED
        BY <1>1, <1>5, <2>1 DEF ManifestIsKept
<1> QED
    BY <1>8, <1>9, <1>10, <1>11, <1>12 DEF TablesInv

\* A manifest that failed to be written may say what the edit says or not; from
\* then on no table is deleted.
LEMMA WriteManifestFailsKeeps ==
    ASSUME DBInv, DBInv', TablesInv, WriteManifestFails
    PROVE  TablesInv'
<1>1. /\ bg.pc = "manifest" /\ disk' \in {disk, Persisted} /\ bg_error'
      /\ UNCHANGED <<status, vset, imm, reads>>
    BY DEF WriteManifestFails, RecordBackgroundError, tables, client
<1>2. status # "down"
    BY <1>1, BusyIsRunning
<1>3. /\ bg' = NoWork \/ bg' = [bg EXCEPT !.pc = "work", !.number = NULL, !.edit = NoEdit]
      /\ bg' = NoWork \/ pending_outputs' = pending_outputs
      /\ pending_outputs' \subseteq pending_outputs
    <2>1. CASE bg.edit.kind = "flush"
        <3>1. AfterFlush(vset, imm, TRUE) /\ UNCHANGED pending_outputs
            BY <2>1 DEF WriteManifestFails
        <3> QED
            BY <3>1, AfterFlushWorks
    <2>2. CASE bg.edit.kind # "flush"
        BY <2>2 DEF WriteManifestFails, EndCall
    <2> QED
        BY <2>1, <2>2
<1>4. bg' = NoWork \/ OutputNumbers \subseteq pending_outputs'
    BY <1>3 DEF TablesInv, OutputsAreKept
<1>5. CASE disk' = disk
    <2>1. Runs
        BY <1>1, <1>2, <1>5, RunningTypes DEF Runs, Tables, NextNumber
    <2> QED
        BY <1>1, <1>2, <1>3, <1>4, <2>1, CallGoesOnKeeps
<1>6. CASE disk' = Persisted
    <2>1. /\ NumbersOf(CurrentManifest'.files) \subseteq Tables'
          /\ NumbersOf(CurrentManifest'.files) \subseteq Below(CurrentManifest'.next_file)
          /\ Tables' = Tables /\ CurrentManifest'.next_file <= NextNumber
        BY <1>1, <1>6, PersistedAreKept
    <2>2. /\ bg'.pc \in {"idle", "work"} /\ OutputsAreKept'
          /\ bg'.compaction # NoCompaction => bg'.compaction = bg.compaction
        <3>1. CASE bg' = NoWork
            <4>1. bg'.pc = "idle" /\ bg'.compaction = NoCompaction /\ bg'.outputs = {}
                BY <3>1 DEF NoWork
            <4> QED
                BY <4>1 DEF OutputsAreKept, OutputNumbers
        <3>2. CASE bg' # NoWork
            <4>1. bg'.pc = "work" /\ bg'.outputs = bg.outputs /\ bg'.compaction = bg.compaction
                BY <1>3, <3>2, WorkFields
            <4>2. OutputNumbers' = OutputNumbers
                BY <4>1 DEF OutputNumbers
            <4> QED
                BY <1>4, <2>1, <3>2, <4>1, <4>2 DEF TablesInv, OutputsAreKept
        <3> QED
            BY <3>1, <3>2
    <2>3. NextNumber' = NextNumber
        BY <1>1 DEF NextNumber
    <2>4. NumbersAreGiven'
        BY <1>1, <1>2, <1>3, <2>1, <2>2, <2>3 DEF TablesInv, NumbersAreGiven
    <2>5. EditIsKept'
        BY <2>2 DEF EditIsKept, Logging
    <2>6. VersionsAreKept'
        BY <1>1, <1>2, <2>1, <2>2 DEF TablesInv, VersionsAreKept
    <2>7. ManifestIsKept'
        BY <1>1, <2>1 DEF ManifestIsKept
    <2> QED
        BY <2>2, <2>4, <2>5, <2>6, <2>7 DEF TablesInv
<1> QED
    BY <1>1, <1>5, <1>6
-----------------------------------------------------------------------------
(* The version is installed                                                 *)

\* DeleteObsoleteFiles leaves every live table, and all of them after an error.
LEMMA DeletedTables ==
    ASSUME NEW d, IsDisk(d), NEW vs, NEW live, NEW error
    PROVE  LET dd == DeleteObsoleteFiles(d, vs, live, error)
           IN DOMAIN d.tables \cap live \subseteq DOMAIN dd.tables /\ (error => dd = d)
<1> DEFINE x == Restrict(d.logs, {n \in DOMAIN d.logs : n >= vs.log_number})
           y == Restrict(d.manifests, {n \in DOMAIN d.manifests : n >= vs.manifest_file_number})
           z == Restrict(d.tables, DOMAIN d.tables \cap live)
           dd == DeleteObsoleteFiles(d, vs, live, error)
<1>1. error => dd = d
    BY DEF DeleteObsoleteFiles
<1>2. ASSUME ~error
      PROVE  DOMAIN dd.tables = DOMAIN d.tables \cap live
    <2>1. dd = [d EXCEPT !.logs = x, !.manifests = y, !.tables = z]
        BY <1>2 DEF DeleteObsoleteFiles
    <2>2. DOMAIN z = DOMAIN d.tables \cap live
        BY RestrictProperties
    <2> HIDE DEF dd, x, y, z
    <2>3. dd = [logs |-> x, tables |-> z, manifests |-> y, current |-> d.current]
        <3>1. \A a, b, c : [d EXCEPT !.logs = a, !.manifests = b, !.tables = c] =
                               [logs |-> a, tables |-> c, manifests |-> b, current |-> d.current]
            BY DiskExcept
        <3> QED
            BY <2>1, <3>1
    <2> QED
        BY <2>2, <2>3
<1> HIDE DEF dd
<1>3. error => DOMAIN d.tables \cap live \subseteq DOMAIN dd.tables
    BY <1>1
<1> QED
    BY <1>1, <1>2, <1>3 DEF dd

\* The tables that something refers to after a step.
LiveNumbers == pending_outputs \cup UNION {NumbersOf(v) : v \in LiveVersions(vset.current, bg, reads)}

\* What Install leaves of the tables: those, or all of them after an error.
LEMMA InstallTables ==
    ASSUME DBInv, Install
    PROVE  Tables \cap LiveNumbers' \subseteq Tables' /\ (bg_error => Tables' = Tables)
<1> DEFINE vs == [vset EXCEPT !.current = ApplyEdit(vset.current, bg.edit.version_edit),
                              !.log_number = bg.edit.log_number, !.file_to_compact = {}]
           live(pending) == pending \cup UNION {NumbersOf(v) : v \in LiveVersions(vs.current, bg', reads)}
<1>1. IsDisk(disk)
    BY DEF DBInv, DiskInv
<1>2. vset' = vs /\ UNCHANGED reads
    BY DEF Install, client
<1>3. LiveNumbers' = live(pending_outputs')
    BY <1>2 DEF LiveNumbers
<1>4. ASSUME NEW l, NEW error, bg_error => error, l = LiveNumbers',
             disk' = DeleteObsoleteFiles(disk, vset', l, error)
      PROVE  Tables \cap LiveNumbers' \subseteq Tables' /\ (bg_error => Tables' = Tables)
    <2>1. DOMAIN disk.tables \cap l \subseteq DOMAIN disk'.tables /\ (error => disk' = disk)
        BY <1>1, <1>4, DeletedTables
    <2> QED
        BY <1>4, <2>1 DEF Tables
<1>5. CASE bg.edit.kind = "open"
    <2>1. disk' = DeleteObsoleteFiles(disk, vs, live({}), FALSE) /\ UNCHANGED pending_outputs
        BY <1>5 DEF Install
    <2>2. status = "opening"
        <3>1. bg.pc = "install"
            BY DEF Install
        <3> QED
            BY <1>5, <3>1, BusyIsRunning DEF DBInv, StatusInv
    <2>3. pending_outputs = {} /\ bg_error = FALSE
        BY <2>2 DEF DBInv, StatusInv, Opening
    <2>4. live({}) = LiveNumbers'
        BY <1>3, <2>1, <2>3
    <2> HIDE DEF live, vs
    <2> QED
        BY <1>2, <1>4, <2>1, <2>3, <2>4
<1>6. CASE bg.edit.kind = "move"
    <2>1. disk' = disk
        BY <1>6 DEF Install
    <2> QED
        BY <2>1 DEF Tables
<1>7. CASE bg.edit.kind = "flush"
    <2>1. disk' = DeleteObsoleteFiles(disk, vs, live(pending_outputs), bg_error) /\ UNCHANGED pending_outputs
        BY <1>7 DEF Install
    <2>2. live(pending_outputs) = LiveNumbers'
        BY <1>3, <2>1
    <2> HIDE DEF live, vs
    <2> QED
        BY <1>2, <1>4, <2>1, <2>2
<1>8. CASE bg.edit.kind \notin {"open", "flush", "move"}
    <2>1. disk' = DeleteObsoleteFiles(disk, vs, live(pending_outputs'), bg_error)
        BY <1>8 DEF Install
    <2> HIDE DEF live, vs
    <2> QED
        BY <1>2, <1>3, <1>4, <2>1
<1> QED
    BY <1>5, <1>6, <1>7, <1>8

\* The version set after Install, and what its caller goes on with.
LEMMA InstallGoesOn ==
    ASSUME DBInv, Install
    PROVE  /\ vset'.current = ApplyEdit(vset.current, bg.edit.version_edit)
           /\ vset'.file_to_compact = {}
           /\ imm' \in {imm, NULL} /\ status' # "down" /\ status # "down"
           /\ pending_outputs' \subseteq pending_outputs
           /\ \/ bg' = NoWork
              \/ /\ bg' = [bg EXCEPT !.pc = "work", !.number = NULL, !.edit = NoEdit]
                 /\ UNCHANGED pending_outputs
           /\ UNCHANGED <<reads, bg_error>>
<1> DEFINE x == ApplyEdit(vset.current, bg.edit.version_edit)
           y == bg.edit.log_number
           vs == [vset EXCEPT !.current = x, !.log_number = y, !.file_to_compact = {}]
<1>1. IsVersions(vset) /\ status # "down"
    <2>1. bg.pc = "install"
        BY DEF Install
    <2> QED
        BY <2>1, BusyIsRunning DEF DBInv, VsetInv
<1>2. vset' = vs
    BY DEF Install
<1>3. vset'.current = x /\ vset'.file_to_compact = {}
    <2> HIDE DEF x, y
    <2>1. \A a, b : [vset EXCEPT !.current = a, !.log_number = b, !.file_to_compact = {}] =
              [current |-> a, file_to_compact |-> {}, next_file_number |-> vset.next_file_number,
               last_sequence |-> vset.last_sequence, log_number |-> b,
               manifest_file_number |-> vset.manifest_file_number,
               compact_pointer |-> vset.compact_pointer]
        BY <1>1, VersionsExcept
    <2>2. vs = [current |-> x, file_to_compact |-> {}, next_file_number |-> vset.next_file_number,
                last_sequence |-> vset.last_sequence, log_number |-> y,
                manifest_file_number |-> vset.manifest_file_number,
                compact_pointer |-> vset.compact_pointer]
        BY <2>1
    <2> HIDE DEF vs
    <2> QED
        BY <1>2, <2>2
<1>4. CASE bg.edit.kind = "open"
    <2>1. bg' = NoWork /\ status' = "open" /\ UNCHANGED <<imm, pending_outputs, reads, bg_error>>
        BY <1>4 DEF Install, client
    <2> QED
        BY <1>1, <1>3, <2>1
<1>5. CASE bg.edit.kind = "flush"
    <2>1. /\ AfterFlush(vs, NULL, bg_error) /\ imm' = NULL
          /\ UNCHANGED <<status, pending_outputs, reads, bg_error>>
        BY <1>5 DEF Install, client
    <2> HIDE DEF vs
    <2> QED
        BY <1>1, <1>3, <2>1, AfterFlushWorks
<1>6. CASE bg.edit.kind = "move"
    <2>1. bg' = NoWork /\ UNCHANGED <<status, imm, pending_outputs, reads, bg_error>>
        BY <1>6 DEF Install, EndCall, client
    <2> QED
        BY <1>1, <1>3, <2>1
<1>7. CASE bg.edit.kind \notin {"open", "flush", "move"}
    <2>1. /\ bg' = NoWork /\ pending_outputs' = pending_outputs \ OutputNumbers
          /\ UNCHANGED <<status, imm, reads, bg_error>>
        BY <1>7 DEF Install, EndCall, client
    <2> QED
        BY <1>1, <1>3, <2>1
<1> QED
    BY <1>4, <1>5, <1>6, <1>7

\* Installing a version keeps the invariant: what is deleted nobody refers to,
\* the next opening neither.
LEMMA InstallKeeps ==
    ASSUME DBInv, DBInv', TablesInv, Install
    PROVE  TablesInv'
<1>1. bg.pc = "install" /\ Logging
    BY DEF Install, Logging
<1>2. /\ vset'.current = ApplyEdit(vset.current, bg.edit.version_edit)
      /\ vset'.file_to_compact = {}
      /\ imm' \in {imm, NULL} /\ status' # "down" /\ status # "down"
      /\ pending_outputs' \subseteq pending_outputs
      /\ UNCHANGED <<reads, bg_error>>
    BY InstallGoesOn
<1>3. NextNumber' = NextNumber /\ vset'.manifest_file_number = vset.manifest_file_number
    BY InstallVersions DEF NextNumber
<1>4. /\ NextNumber \in Nat /\ 0 < NextNumber /\ disk.current # 0
      /\ disk.current \in DOMAIN disk.manifests /\ bg.edit.next_file \in Nat
    BY <1>1, <1>2, RunningTypes
<1>5. CurrentManifest' = CurrentManifest /\ disk'.current = disk.current
    <2>1. disk.current = vset'.manifest_file_number /\ vset'.manifest_file_number \in Nat
        BY <1>1, <1>2, <1>3 DEF DBInv, NumbersInv, VsetInv, IsVersions
    <2>2. KeepsYoung(disk, disk', vset')
        BY InstallDeletes
    <2>3. disk.current \in DOMAIN disk'.manifests /\ disk'.current = disk.current
        BY <1>4, <2>1, <2>2 DEF KeepsYoung
    <2> QED
        BY <2>2, <2>3 DEF KeepsYoung, PartOf, CurrentManifest
<1>6. /\ bg.edit.next_file <= NextNumber
      /\ AddedNumbers(bg.edit.version_edit) \subseteq Below(bg.edit.next_file)
      /\ AddedNumbers(bg.edit.version_edit) \subseteq Tables
    BY <1>1 DEF TablesInv, EditIsKept
<1>7. NumbersOf(vset'.current) \subseteq NumbersOf(vset.current) \cup AddedNumbers(bg.edit.version_edit)
    BY <1>2, ApplyEditNumbers
<1>8. NumbersOf(vset'.current) \subseteq Tables /\ NumbersOf(vset'.current) \subseteq Below(NextNumber)
    <2>1. Below(bg.edit.next_file) \subseteq Below(NextNumber)
        BY <1>4, <1>6, BelowGrows
    <2> QED
        BY <1>2, <1>6, <1>7, <2>1 DEF TablesInv, NumbersAreGiven, VersionsAreKept
<1>9. Tables \cap LiveNumbers' \subseteq Tables' /\ (bg_error => Tables' = Tables)
    BY InstallTables
<1>10. /\ bg'.pc \in {"idle", "work"} /\ OutputNumbers' \subseteq pending_outputs'
       /\ OutputNumbers' \subseteq OutputNumbers
       /\ bg'.compaction # NoCompaction => bg'.compaction = bg.compaction
    <2>1. CASE bg' = NoWork
        <3>1. bg'.pc = "idle" /\ bg'.compaction = NoCompaction /\ bg'.outputs = {}
            BY <2>1 DEF NoWork
        <3> QED
            BY <3>1 DEF OutputNumbers
    <2>2. CASE bg' # NoWork
        <3>1. UNCHANGED pending_outputs /\ bg' = [bg EXCEPT !.pc = "work", !.number = NULL, !.edit = NoEdit]
            BY <2>2, InstallGoesOn
        <3>2. bg'.pc = "work" /\ bg'.outputs = bg.outputs /\ bg'.compaction = bg.compaction
            BY <3>1, WorkFields
        <3>3. OutputNumbers' = OutputNumbers
            BY <3>2 DEF OutputNumbers
        <3> QED
            BY <3>1, <3>2, <3>3 DEF TablesInv, OutputsAreKept
    <2> QED
        BY <2>1, <2>2
<1>11. NumbersAreGiven'
    <2>1. CurrentManifest'.next_file <= NextNumber'
        BY <1>2, <1>3, <1>5 DEF TablesInv, NumbersAreGiven
    <2>2. imm' \in Below(NextNumber')
        BY <1>2, <1>3, <1>4 DEF TablesInv, NumbersAreGiven, Below, NULL
    <2>3. pending_outputs' \subseteq Below(NextNumber')
        BY <1>2, <1>3 DEF TablesInv, NumbersAreGiven
    <2> QED
        BY <1>3, <1>8, <1>10, <2>1, <2>2, <2>3 DEF NumbersAreGiven
<1>12. EditIsKept'
    BY <1>10 DEF EditIsKept, Logging
<1>13. OutputsAreKept'
    BY <1>9, <1>10 DEF TablesInv, OutputsAreKept, LiveNumbers
<1>14. ASSUME NEW v \in LiveVersions(vset.current, bg, reads)', NumbersOf(v) \subseteq Tables
       PROVE  NumbersOf(v) \subseteq Tables'
    <2>1. NumbersOf(v) \subseteq LiveNumbers'
        BY <1>14 DEF LiveNumbers
    <2> QED
        BY <1>9, <1>14, <2>1
<1>15. VersionsAreKept'
    <2>1. NumbersOf(vset'.current) \subseteq Tables'
        <3>1. vset'.current \in LiveVersions(vset.current, bg, reads)'
            BY DEF LiveVersions
        <3> QED
            BY <1>8, <1>14, <3>1
    <2>2. ASSUME NEW r \in Readers, reads'[r] # NoRead
          PROVE  NumbersOf(reads'[r].version) \subseteq Tables'
        <3>1. reads'[r].version \in LiveVersions(vset.current, bg, reads)'
            BY <2>2 DEF LiveVersions
        <3>2. NumbersOf(reads'[r].version) \subseteq Tables
            BY <1>2, <2>2 DEF TablesInv, VersionsAreKept
        <3> QED
            BY <1>14, <3>1, <3>2
    <2>3. ASSUME bg'.compaction # NoCompaction
          PROVE  NumbersOf(bg'.compaction.version) \subseteq Tables'
        <3>1. bg'.compaction.version \in LiveVersions(vset.current, bg, reads)'
            BY <2>3 DEF LiveVersions
        <3>2. NumbersOf(bg'.compaction.version) \subseteq Tables
            BY <1>2, <1>10, <2>3 DEF TablesInv, VersionsAreKept
        <3> QED
            BY <1>14, <3>1, <3>2
    <2>4. reads' = [r \in Readers |-> reads'[r]]
        BY <1>2 DEF TablesInv, VersionsAreKept
    <2> QED
        BY <1>2, <2>1, <2>2, <2>3, <2>4 DEF VersionsAreKept
<1>16. ManifestIsKept'
    <2>1. ~bg_error => CurrentManifest.files = vset'.current
        BY <1>1, <1>2 DEF TablesInv, ManifestIsKept, Folding
    <2>2. Folding' = vset'.current
        BY <1>10 DEF Folding
    <2>3. NumbersOf(CurrentManifest.files) \subseteq Tables'
        <3>1. CASE bg_error
            BY <1>4, <1>9, <3>1 DEF TablesInv, ManifestIsKept
        <3>2. CASE ~bg_error
            BY <1>15, <1>2, <2>1, <3>2 DEF VersionsAreKept
        <3> QED
            BY <3>1, <3>2
    <2> QED
        BY <1>2, <1>4, <1>5, <2>1, <2>2, <2>3 DEF TablesInv, ManifestIsKept
<1> QED
    BY <1>11, <1>12, <1>13, <1>15, <1>16 DEF TablesInv
-----------------------------------------------------------------------------
(* The process begins and ends                                              *)

\* Between two processes only the tables that the manifest names count.
LEMMA DownKeeps ==
    ASSUME DBInv', status' = "down",
           disk'.current # 0 =>
               /\ NumbersOf(CurrentManifest'.files) \subseteq Tables'
               /\ NumbersOf(CurrentManifest'.files) \subseteq Below(CurrentManifest'.next_file)
    PROVE  TablesInv'
<1>1. bg' = NoWork
    BY DEF DBInv, StatusInv, InitProcess
<1>2. bg'.pc = "idle" /\ bg'.outputs = {}
    BY <1>1 DEF NoWork
<1> QED
    BY <1>2 DEF TablesInv, NumbersAreGiven, EditIsKept, OutputsAreKept, OutputNumbers, VersionsAreKept,
                ManifestIsKept, Logging

\* The new database has no table.
LEMMA NewDBKeeps ==
    ASSUME DBInv, DBInv', NewDB
    PROVE  TablesInv'
<1> DEFINE m == [files |-> EmptyVersion, log_number |-> 0, next_file |-> 2,
                 last_sequence |-> 0, compact_pointer |-> NoVersions.compact_pointer]
           ms == Put(disk.manifests, 1, m)
<1>1. status' = "down" /\ disk' = [disk EXCEPT !.current = 1, !.manifests = ms]
    BY DEF NewDB
<1>2. ms[1] = m
    <2> HIDE DEF m
    <2> QED
        BY DEF Put
<1>3. NumbersOf(m.files) = {}
    BY EmptyVersionNumbers
<1> HIDE DEF m, ms
<1>4. \A x, y : [disk EXCEPT !.current = x, !.manifests = y] =
          [logs |-> disk.logs, tables |-> disk.tables, manifests |-> y, current |-> x]
    BY DiskExcept DEF DBInv, DiskInv
<1>5. disk' = [logs |-> disk.logs, tables |-> disk.tables, manifests |-> ms, current |-> 1]
    BY <1>1, <1>4
<1>6. CurrentManifest' = m
    BY <1>2, <1>5 DEF CurrentManifest
<1> QED
    BY <1>1, <1>3, <1>6, DownKeeps

\* Whatever ends the process leaves the tables and the manifests as they are.
LEMMA EndKeeps ==
    ASSUME DBInv, DBInv', TablesInv, OpenFails \/ Closed \/ Kill \/ PowerLoss
    PROVE  TablesInv'
<1>1. status' = "down"
    BY DEF OpenFails, Closed, Kill, PowerLoss, EndProcess
<1>2. disk'.tables = disk.tables /\ disk'.manifests = disk.manifests /\ disk'.current = disk.current
    <2>1. CASE OpenFails \/ Closed \/ Kill
        BY <2>1 DEF OpenFails, Closed, Kill, files
    <2>2. CASE PowerLoss
        <3>1. PICK logs : disk' = [logs |-> logs, tables |-> disk.tables,
                                   manifests |-> disk.manifests, current |-> disk.current]
            BY <2>2, PowerLossDisk
        <3> QED
            BY <3>1
    <2> QED
        BY <2>1, <2>2
<1>3. Tables' = Tables /\ CurrentManifest' = CurrentManifest
    BY <1>2 DEF Tables, CurrentManifest
<1> QED
    BY <1>1, <1>2, <1>3, DownKeeps DEF TablesInv, ManifestIsKept

\* What Open makes of the version set, the tables and the edit.
LEMMA OpenTables ==
    ASSUME DBInv, Open
    PROVE  LET m == CurrentManifest
               r == RecoverLogs(m)
               written == {r.written[i][1] : i \in DOMAIN r.written}
           IN /\ vset'.current = m.files /\ vset'.file_to_compact = {}
              /\ NumbersOf(m.files) \subseteq Tables /\ Tables' = Tables \cup written
              /\ disk'.current = disk.current /\ disk'.manifests = disk.manifests
              /\ bg'.pc = "manifest" /\ bg'.outputs = bg.outputs /\ bg'.compaction = bg.compaction
              /\ bg'.edit.next_file = r.next + 1 /\ AddedNumbers(bg'.edit.version_edit) = written
<1> DEFINE m == CurrentManifest
           r == RecoverLogs(m)
           written == {r.written[i][1] : i \in DOMAIN r.written}
           recovered == {r.written[i][2] : i \in DOMAIN r.written}
           seqs == {m.last_sequence} \cup {e.seq : e \in UNION recovered}
           last == CHOOSE s \in seqs : \A t \in seqs : t <= s
           file(i) == FileMetaData(r.written[i][1], r.written[i][2])
           new == {<<0, file(i)>> : i \in DOMAIN r.written}
           logs == Put(disk.logs, r.next, NewLog)
           ts == [n \in DOMAIN disk.tables \cup written |->
                     LET w == {i \in DOMAIN r.written : r.written[i][1] = n}
                     IN IF w = {} THEN disk.tables[n] ELSE UNION {r.written[i][2] : i \in w}]
           e == EditFor("open", VersionEdit({}, new, {}), r.next, vset')
<1>1. vset'.current = m.files /\ vset'.file_to_compact = {} /\ vset'.next_file_number = r.next + 1
    <2>1. vset' = [current |-> m.files, file_to_compact |-> {}, next_file_number |-> r.next + 1,
                   last_sequence |-> last, log_number |-> m.log_number,
                   manifest_file_number |-> m.next_file, compact_pointer |-> m.compact_pointer]
        BY Zenon DEF Open, CurrentManifest
    <2> HIDE DEF last, m, r
    <2> QED
        BY <2>1
<1>2. NumbersOf(m.files) \subseteq Tables
    BY DEF Open, CurrentManifest, Tables
<1>3. /\ Tables' = Tables \cup written
      /\ disk'.current = disk.current /\ disk'.manifests = disk.manifests
    <2>1. disk' = [disk EXCEPT !.logs = logs, !.tables = ts]
        BY Zenon DEF Open, CurrentManifest
    <2>2. DOMAIN ts = DOMAIN disk.tables \cup written
        OBVIOUS
    <2> HIDE DEF logs, ts, written
    <2>3. \A x, y : [disk EXCEPT !.logs = x, !.tables = y] =
              [logs |-> x, tables |-> y, manifests |-> disk.manifests, current |-> disk.current]
        BY DiskExcept DEF DBInv, DiskInv
    <2>4. disk' = [logs |-> logs, tables |-> ts, manifests |-> disk.manifests, current |-> disk.current]
        BY <2>1, <2>3, Zenon
    <2> QED
        BY <2>2, <2>4 DEF Tables
<1>4. {x[2].number : x \in new} = written
    <2>1. \A i : <<0, file(i)>>[2].number = r.written[i][1]
        BY DEF FileMetaData
    <2> HIDE DEF file, r
    <2>2. \A x \in new : \E i \in DOMAIN r.written : x[2].number = r.written[i][1]
        BY <2>1
    <2>3. \A i \in DOMAIN r.written : \E x \in new : x[2].number = r.written[i][1]
        BY <2>1
    <2> HIDE DEF new
    <2> QED
        BY <2>2, <2>3
<1>5. bg' = [bg EXCEPT !.pc = "manifest", !.edit = e]
    BY DEF Open, CurrentManifest
<1> HIDE DEF new, r
<1>6. e.next_file = vset'.next_file_number /\ AddedNumbers(e.version_edit) = {x[2].number : x \in new}
    BY EditForFields
<1> HIDE DEF e
<1>7. /\ bg'.pc = "manifest" /\ bg'.edit = e /\ bg'.outputs = bg.outputs
      /\ bg'.compaction = bg.compaction
    BY <1>5, WorkFields
<1> QED
    BY <1>1, <1>2, <1>3, <1>4, <1>6, <1>7 DEF r

\* An opening starts from what the manifest names, and adds the tables that it
\* makes of the logs.
LEMMA OpenKeeps ==
    ASSUME DBInv, DBInv', TablesInv, Open
    PROVE  TablesInv'
<1> DEFINE m == CurrentManifest
           r == RecoverLogs(m)
           written == {r.written[i][1] : i \in DOMAIN r.written}
<1>1. /\ vset'.current = m.files /\ vset'.file_to_compact = {}
      /\ NumbersOf(m.files) \subseteq Tables /\ Tables' = Tables \cup written
      /\ disk'.current = disk.current /\ disk'.manifests = disk.manifests
      /\ bg'.pc = "manifest" /\ bg'.outputs = bg.outputs /\ bg'.compaction = bg.compaction
      /\ bg'.edit.next_file = r.next + 1 /\ AddedNumbers(bg'.edit.version_edit) = written
    BY OpenTables
<1>2. IsManifest(m) /\ IsRecovery(r) /\ m.next_file < r.next
    BY OpenStartsWithRecovery
<1>3. NextNumber' = r.next + 1
    BY OpenVersions DEF NextNumber
<1>4. status = "down" /\ disk.current # 0 /\ status' = "opening"
    BY DEF Open
<1>5. CurrentManifest' = CurrentManifest
    BY <1>1 DEF CurrentManifest
<1>6. NumbersOf(m.files) \subseteq Below(m.next_file)
    BY <1>4 DEF TablesInv, ManifestIsKept
<1> HIDE DEF r, m
<1>7. m.next_file \in Nat /\ r.next \in Nat
    BY <1>2 DEF IsManifest, IsRecovery
<1>8. Below(m.next_file) \subseteq Below(r.next + 1) /\ 0 \in Below(r.next + 1)
    BY <1>2, <1>7 DEF Below
<1>9. written \subseteq Below(r.next + 1)
    <2>1. \A i \in DOMAIN r.written : r.written[i][1] \in 0 .. r.next - 1
        BY <1>2 DEF IsRecovery
    <2> QED
        BY <1>7, <2>1 DEF Below
<1> HIDE DEF written
<1>10. /\ imm' = 0 /\ pending_outputs' = {} /\ reads' = [q \in Readers |-> NoRead]
    BY <1>4 DEF DBInv, StatusInv, Opening, NULL
<1>11. bg'.outputs = {} /\ bg'.compaction = NoCompaction
    <2>1. bg = NoWork
        BY <1>4 DEF DBInv, StatusInv, InitProcess
    <2> QED
        BY <1>1, <2>1 DEF NoWork
<1>12. NumbersAreGiven'
    <2>1. CurrentManifest'.next_file <= NextNumber'
        BY <1>2, <1>3, <1>5, <1>7 DEF m
    <2>2. NumbersOf(vset'.current) \subseteq Below(NextNumber')
        BY <1>1, <1>3, <1>6, <1>8
    <2>3. imm' \in Below(NextNumber') /\ pending_outputs' \subseteq Below(NextNumber')
        BY <1>3, <1>8, <1>10
    <2> QED
        BY <1>1, <2>1, <2>2, <2>3 DEF NumbersAreGiven
<1>13. EditIsKept'
    <2>1. bg'.edit.next_file <= NextNumber' /\ CurrentManifest'.next_file <= bg'.edit.next_file
        BY <1>1, <1>2, <1>3, <1>5, <1>7 DEF m
    <2> QED
        BY <1>1, <1>9, <2>1 DEF EditIsKept
<1>14. OutputsAreKept'
    BY <1>11 DEF OutputsAreKept, OutputNumbers
<1>15. VersionsAreKept'
    <2>1. reads' = [q \in Readers |-> reads'[q]] /\ \A q \in Readers : reads'[q] = NoRead
        BY <1>10
    <2> QED
        BY <1>1, <1>11, <2>1 DEF VersionsAreKept
<1>16. ManifestIsKept'
    <2>1. Folding' = m.files
        BY <1>1 DEF Folding
    <2> QED
        BY <1>1, <1>5, <1>6, <2>1 DEF ManifestIsKept, m
<1> QED
    BY <1>12, <1>13, <1>14, <1>15, <1>16 DEF TablesInv
-----------------------------------------------------------------------------
(* The invariant always holds                                               *)

\* It holds at first.
LEMMA InitTables ==
    ASSUME Init
    PROVE  TablesInv
<1>1. status = "down" /\ bg = NoWork /\ disk.current = 0
    BY DEF Init, InitProcess
<1>2. bg.pc = "idle" /\ bg.outputs = {}
    BY <1>1 DEF NoWork
<1> QED
    BY <1>1, <1>2 DEF TablesInv, NumbersAreGiven, EditIsKept, OutputsAreKept, OutputNumbers, VersionsAreKept,
                      ManifestIsKept, Logging

\* Every step keeps it.
LEMMA TablesInvIsInductive ==
    ASSUME DBInv, TablesInv, [Next]_vars
    PROVE  TablesInv'
<1>1. DBInv'
    BY DBInvIsInductive
<1>2. CASE UNCHANGED vars
    BY <1>2 DEF vars, files, tables, queue, work, manual, client, TablesInv, NumbersAreGiven, EditIsKept,
                OutputsAreKept, VersionsAreKept, ManifestIsKept, Tables, NextNumber, AddedNumbers, Logging,
                Folding, OutputNumbers, CurrentManifest
<1>3. CASE Next
    <2>1. CASE NewDB \/ Open
        BY <1>1, <2>1, NewDBKeeps, OpenKeeps
    <2>2. CASE OpenFails \/ Closed \/ Kill \/ PowerLoss
        BY <1>1, <2>2, EndKeeps
    <2>3. CASE WriteManifest \/ WriteManifestFails
        BY <1>1, <2>3, WriteManifestKeeps, WriteManifestFailsKeeps
    <2>4. CASE Install
        BY <1>1, <2>4, InstallKeeps
    <2>5. CASE SwitchMemtable \/ BackgroundCall
        BY <1>1, <2>5, SwitchKeeps, BackgroundCallKeeps
    <2>6. CASE BeginNestedFlush \/ FlushTable
        BY <1>1, <2>6, BeginNestedFlushKeeps, FlushTableKeeps
    <2>7. CASE WriteOutput \/ AbortCompaction \/ FinishCompaction
        BY <1>1, <2>7, WriteOutputKeeps, AbortCompactionKeeps, FinishCompactionKeeps
    <2>8. ASSUME NEW r \in Readers,
                 (\E k \in Keys : BeginRead(r, {k}, FALSE)) \/ BeginRead(r, Keys, TRUE) \/ EndRead(r)
          PROVE  TablesInv'
        BY <1>1, <2>8, BeginReadKeeps, EndReadKeeps
    <2>9. CASE Quietly
        BY <1>1, <2>9, QuietlyKeeps
    <2> QED
        BY <1>3, <2>1, <2>2, <2>3, <2>4, <2>5, <2>6, <2>7, <2>8, <2>9 DEF Next, Quietly
<1> QED
    BY <1>2, <1>3

\* So it always holds.
LEMMA TablesInvAlways == Spec => [](DBInv /\ TablesInv)
<1>1. Init => DBInv /\ TablesInv
    BY InitInv, InitTables
<1>2. DBInv /\ TablesInv /\ [Next]_vars => (DBInv /\ TablesInv)'
    BY DBInvIsInductive, TablesInvIsInductive
<1> QED
    BY <1>1, <1>2, PTL DEF Spec

\* Every table that a read or a compaction may still open is there, and so is
\* all that the next opening will ask for, after whatever crash, clean-up, failed
\* write or interrupted compaction, the records that follow a failed append to
\* their log excepted; and no number in use is given out again
\* (DeleteObsoleteFiles, NewFileNumber, LogAndApply).
THEOREM NeededFilesAlwaysExist == Spec => []NeededFilesExist
<1>1. DBInv /\ TablesInv => NeededFilesExist
    <2> SUFFICES ASSUME DBInv, TablesInv PROVE NeededFilesExist
        OBVIOUS
    <2>1. ASSUME status # "down"
          PROVE  /\ mem \in DOMAIN disk.logs
                 /\ \A n \in NumbersOf(vset.current) \cup pending_outputs \cup {mem, imm} :
                        n < vset.next_file_number
        <3>1. NextNumber \in Nat /\ mem \in Nat /\ mem < NextNumber
            BY <2>1, RunningTypes
        <3>2. \A n \in Below(NextNumber) : n < NextNumber
            BY <3>1 DEF Below
        <3>3. /\ NumbersOf(vset.current) \subseteq Below(NextNumber)
              /\ pending_outputs \subseteq Below(NextNumber) /\ imm \in Below(NextNumber)
            BY <2>1 DEF TablesInv, NumbersAreGiven
        <3>4. mem \in DOMAIN disk.logs
            BY <2>1 DEF DBInv, NumbersInv
        <3> QED
            BY <3>1, <3>2, <3>3, <3>4 DEF NextNumber
    <2>2. ASSUME status \in {"open", "closing"}, NEW v \in LiveVersions(vset.current, bg, reads)
          PROVE  NumbersOf(v) \subseteq DOMAIN disk.tables
        BY <2>2 DEF LiveVersions, TablesInv, VersionsAreKept, Tables
    <2>3. ASSUME disk.current # 0
          PROVE  /\ disk.current \in DOMAIN disk.manifests
                 /\ NumbersOf(CurrentManifest.files) \subseteq DOMAIN disk.tables
                 /\ OnDisk(history, CurrentManifest.log_number, disk.logs)
        <3>1. NumbersOf(CurrentManifest.files) \subseteq DOMAIN disk.tables
            BY <2>3 DEF TablesInv, ManifestIsKept, Tables
        <3> QED
            BY <2>3, <3>1, RecordsAreThere DEF RecordsExist
    <2> QED
        BY <2>1, <2>2, <2>3 DEF NeededFilesExist, OnDisk, CurrentManifest
<1> QED
    BY <1>1, TablesInvAlways, PTL
=============================================================================
