--------------------------- MODULE Layers_proofs ---------------------------
(***************************************************************************)
(* The layers under the database, each for any values of its constants:    *)
(* the names of the lock table (FileLocks), the Limiters and the           *)
(* background queue (PosixEnv), what CURRENT names (CurrentFile), what a   *)
(* repair keeps (Repair) and the readers of the skip list (MemTable).      *)
(***************************************************************************)
EXTENDS FileLocks, PosixEnv, CurrentFile, Repair, MemTable, FiniteSetTheorems, SequenceTheorems, TLAPS

-----------------------------------------------------------------------------
(* FileLocks.  The record lock does not help: it belongs to the whole        *)
(* process, and may even be lost.  What keeps two threads apart is the name  *)
(* in the table, which a thread past InsertName put there and nobody else.   *)

PastInsert == {"inserted", "holding", "refused", "unlocked"}

OpenerStates == PastInsert \cup {"idle", "opened", "removed"}

OpenerType == opener \in [Openers -> OpenerStates]

\* The name of a thread past InsertName is in its process's table.
NamesAreInserted == \A t \in Openers : opener[t] \in PastInsert => ProcessOf[t] \in locked_files

\* And it is the only one of its process there.
OneInserter ==
    \A t, u \in Openers :
        ProcessOf[t] = ProcessOf[u] /\ opener[t] \in PastInsert /\ opener[u] \in PastInsert => t = u

LockInv == OpenerType /\ NamesAreInserted /\ OneInserter

LEMMA LockInitHolds == LockInit => LockInv
BY DEF LockInit, LockInv, OpenerType, NamesAreInserted, OneInserter, PastInsert, OpenerStates

\* A thread that goes from one state past InsertName to another, or out of them, and
\* leaves the table alone, keeps the invariant.
LEMMA GoesKeepsTable ==
    ASSUME LockInv, NEW t \in Openers, NEW from, NEW to \in OpenerStates, Goes(t, from, to),
           to \in PastInsert => from \in PastInsert, locked_files' = locked_files
    PROVE  LockInv'
BY DEF LockInv, OpenerType, NamesAreInserted, OneInserter, Goes

\* Who leaves and takes the name of its process along was the only one there.
LEMMA GoesTakesName ==
    ASSUME LockInv, NEW t \in Openers, NEW from \in PastInsert, NEW to \in OpenerStates, Goes(t, from, to),
           to \notin PastInsert, locked_files' = locked_files \ {ProcessOf[t]}
    PROVE  LockInv'
BY DEF LockInv, OpenerType, NamesAreInserted, OneInserter, Goes

\* InsertName finds no name, hence nobody of its process past it.
LEMMA InsertNameHolds == ASSUME LockInv, NEW t \in Openers, InsertName(t) PROVE LockInv'
BY DEF LockInv, OpenerType, NamesAreInserted, OneInserter, PastInsert, OpenerStates, InsertName, Goes

LEMMA ProcessDiesHolds == ASSUME LockInv, NEW p \in Processes, ProcessDies(p) PROVE LockInv'
BY DEF LockInv, OpenerType, NamesAreInserted, OneInserter, PastInsert, OpenerStates, ProcessDies

LEMMA LockNextHolds == LockInv /\ [LockNext]_lockVars => LockInv'
<1> SUFFICES ASSUME LockInv, [LockNext]_lockVars PROVE LockInv'
    OBVIOUS
<1>1. ASSUME NEW t \in Openers, OpenLockFile(t) PROVE LockInv'
    BY <1>1, GoesKeepsTable DEF OpenLockFile, PastInsert, OpenerStates
<1>2. ASSUME NEW t \in Openers, InsertName(t) PROVE LockInv'
    BY <1>2, InsertNameHolds
<1>3. ASSUME NEW t \in Openers, NameIsTaken(t) PROVE LockInv'
    BY <1>3, GoesKeepsTable DEF NameIsTaken, PastInsert, OpenerStates
<1>4. ASSUME NEW t \in Openers, SetLock(t) PROVE LockInv'
    BY <1>4, GoesKeepsTable DEF SetLock, PastInsert, OpenerStates
<1>5. ASSUME NEW t \in Openers, LockIsTaken(t) PROVE LockInv'
    BY <1>5, GoesKeepsTable DEF LockIsTaken, PastInsert, OpenerStates
<1>6. ASSUME NEW t \in Openers, RemoveRefused(t) PROVE LockInv'
    BY <1>6, GoesTakesName DEF RemoveRefused, PastInsert, OpenerStates
<1>7. ASSUME NEW t \in Openers, Unlock(t) PROVE LockInv'
    BY <1>7, GoesKeepsTable DEF Unlock, PastInsert, OpenerStates
<1>8. ASSUME NEW t \in Openers, RemoveName(t) PROVE LockInv'
    BY <1>8, GoesTakesName DEF RemoveName, PastInsert, OpenerStates
<1>9. ASSUME NEW t \in Openers, CloseUnlocked(t) PROVE LockInv'
    BY <1>9, GoesKeepsTable DEF CloseUnlocked, PastInsert, OpenerStates
<1>10. ASSUME NEW p \in Processes, ProcessDies(p) PROVE LockInv'
    BY <1>10, ProcessDiesHolds
<1>11. CASE UNCHANGED lockVars
    BY <1>11 DEF lockVars, LockInv, OpenerType, NamesAreInserted, OneInserter
<1> QED
    BY <1>1, <1>2, <1>3, <1>4, <1>5, <1>6, <1>7, <1>8, <1>9, <1>10, <1>11 DEF LockNext

\* Threads of one process never have the database open at once (PosixLockTable), for
\* any number of processes and threads, whichever of them fail or die.
THEOREM OneHolder == LockSpec => []OneHolderPerProcess
<1>1. LockInv => OneHolderPerProcess
    BY DEF LockInv, OneInserter, OneHolderPerProcess, Holding, PastInsert
<1> QED
    BY <1>1, LockInitHolds, LockNextHolds, PTL DEF LockSpec
-----------------------------------------------------------------------------
(* PosixEnv: the Limiters and the background queue, for any number of items. *)

FileStates == {"closed", "mapping", "acquired", "unmapped", "mapped", "opening", "open",
               "temporary", "reading"}

EnvTypeOK ==
    /\ allowed \in [mmap : Int, fd : Int]
    /\ file \in [EnvThreads -> FileStates]
    /\ seen \in [EnvThreads -> Int]
    /\ queue \in Seq(Nat) /\ ran \in Seq(Nat) /\ scheduled \in Nat
    /\ bgthread \in {"none", "locking", "waiting", "running"}

EnvInv == EnvTypeOK /\ LimitsAreKept /\ ScheduledWorkRuns

-----------------------------------------------------------------------------
(* Who holds what                                                            *)

LEMMA HoldersFinite ==
    ASSUME NEW states PROVE IsFiniteSet(Holders(states)) /\ Cardinality(Holders(states)) \in Nat
<1>1. Holders(states) \subseteq EnvThreads
    BY DEF Holders
<1> QED
    BY <1>1, FS_Subset, FS_CardinalityType, PosixEnvAssumption

\* A thread that turns to another state joins the holders of what it gets there, and
\* leaves those of what it had.
LEMMA TurnsMovesHolder ==
    ASSUME EnvTypeOK, NEW t \in EnvThreads, NEW from, NEW to \in FileStates, Turns(t, from, to),
           NEW states
    PROVE  /\ file' \in [EnvThreads -> FileStates]
           /\ (from \in states <=> to \in states) =>
                 Cardinality(Holders(states))' = Cardinality(Holders(states))
           /\ from \notin states /\ to \in states =>
                 Cardinality(Holders(states))' = Cardinality(Holders(states)) + 1
           /\ from \in states /\ to \notin states =>
                 Cardinality(Holders(states))' = Cardinality(Holders(states)) - 1
<1>1. file' = [file EXCEPT ![t] = to] /\ file[t] = from /\ file \in [EnvThreads -> FileStates]
    BY DEF Turns, EnvTypeOK
<1>2. file' \in [EnvThreads -> FileStates]
    BY <1>1
<1>3. CASE from \in states <=> to \in states
    <2>1. Holders(states)' = Holders(states)
        BY <1>1, <1>3 DEF Holders
    <2> QED
        BY <1>2, <1>3, <2>1
<1>4. CASE from \notin states /\ to \in states
    <2>1. Holders(states)' = Holders(states) \cup {t} /\ t \notin Holders(states)
        BY <1>1, <1>4 DEF Holders
    <2> QED
        BY <1>2, <1>4, <2>1, HoldersFinite, FS_AddElement
<1>5. CASE from \in states /\ to \notin states
    <2>1. Holders(states)' = Holders(states) \ {t} /\ t \in Holders(states)
        BY <1>1, <1>5 DEF Holders
    <2> QED
        BY <1>2, <1>5, <2>1, HoldersFinite, FS_RemoveElement
<1> QED
    BY <1>3, <1>4, <1>5

LEMMA LimitsInitHolds == EnvInit => LimitsAreKept
<1> SUFFICES ASSUME EnvInit PROVE LimitsAreKept
    OBVIOUS
<1>1. Holders({"acquired", "mapped"}) = {} /\ Holders({"open"}) = {}
    BY DEF EnvInit, Holders
<1>2. Cardinality(Holders({"acquired", "mapped"})) = 0 /\ Cardinality(Holders({"open"})) = 0
    BY <1>1, FS_EmptySet
<1>3. allowed.mmap = MaxMmaps /\ allowed.fd = MaxOpenFiles
    BY DEF EnvInit, Limits
<1> QED
    BY <1>2, <1>3, PosixEnvAssumption DEF LimitsAreKept

\* A step that changes neither Limiter, of a thread that holds as much after it as before.
LEMMA TurnKeepsLimits ==
    ASSUME EnvInv, NEW t \in EnvThreads, NEW from, NEW to \in FileStates, Turns(t, from, to),
           allowed' = allowed,
           from \in {"acquired", "mapped"} <=> to \in {"acquired", "mapped"},
           from \in {"open"} <=> to \in {"open"}
    PROVE  LimitsAreKept' /\ allowed' \in [mmap : Int, fd : Int] /\ file' \in [EnvThreads -> FileStates]
<1>1. EnvTypeOK /\ LimitsAreKept
    BY DEF EnvInv
<1>2. Cardinality(Holders({"acquired", "mapped"}))' = Cardinality(Holders({"acquired", "mapped"}))
    BY <1>1, TurnsMovesHolder
<1>3. Cardinality(Holders({"open"}))' = Cardinality(Holders({"open"}))
    BY <1>1, TurnsMovesHolder
<1>4. file' \in [EnvThreads -> FileStates]
    BY <1>1, TurnsMovesHolder
<1> QED
    BY <1>1, <1>2, <1>3, <1>4 DEF LimitsAreKept, EnvTypeOK

LEMMA AcquireMmapKeepsLimits ==
    ASSUME EnvInv, NEW t \in EnvThreads, AcquireMmap(t)
    PROVE  LimitsAreKept' /\ allowed' \in [mmap : Int, fd : Int] /\ file' \in [EnvThreads -> FileStates]
<1> DEFINE Mapped == Cardinality(Holders({"acquired", "mapped"}))
           Opened == Cardinality(Holders({"open"}))
<1>1. EnvTypeOK /\ LimitsAreKept /\ Mapped \in Nat /\ Opened \in Nat
    BY HoldersFinite DEF EnvInv
<1>0. allowed \in [mmap : Int, fd : Int]
    BY <1>1 DEF EnvTypeOK
<1>2. CASE seen[t] > 0 /\ allowed.mmap > 0
    <2>1. Turns(t, "mapping", "acquired") /\ allowed' = [allowed EXCEPT !.mmap = @ - 1]
        BY <1>2 DEF AcquireMmap, Acquire
    <2>2. Mapped' = Mapped + 1 /\ Opened' = Opened /\ file' \in [EnvThreads -> FileStates]
        BY <1>1, <2>1, TurnsMovesHolder DEF FileStates
    <2>3. allowed' \in [mmap : Int, fd : Int] /\ allowed'.mmap = allowed.mmap - 1 /\ allowed'.fd = allowed.fd
        BY <1>0, <2>1
    <2>4. allowed.mmap \in Int /\ allowed.fd \in Int
        BY <1>0
    <2> QED
        BY <1>1, <1>2, <2>2, <2>3, <2>4, PosixEnvAssumption DEF LimitsAreKept
<1>3. CASE ~(seen[t] > 0 /\ allowed.mmap > 0)
    <2>1. Turns(t, "mapping", "unmapped") /\ allowed' = allowed
        BY <1>1, <1>3 DEF AcquireMmap, Acquire, EnvTypeOK
    <2> QED
        BY <2>1, TurnKeepsLimits DEF FileStates
<1> QED
    BY <1>2, <1>3

LEMMA AcquireFdKeepsLimits ==
    ASSUME EnvInv, NEW t \in EnvThreads, AcquireFd(t)
    PROVE  LimitsAreKept' /\ allowed' \in [mmap : Int, fd : Int] /\ file' \in [EnvThreads -> FileStates]
<1> DEFINE Mapped == Cardinality(Holders({"acquired", "mapped"}))
           Opened == Cardinality(Holders({"open"}))
<1>1. EnvTypeOK /\ LimitsAreKept /\ Mapped \in Nat /\ Opened \in Nat
    BY HoldersFinite DEF EnvInv
<1>0. allowed \in [mmap : Int, fd : Int]
    BY <1>1 DEF EnvTypeOK
<1>2. CASE seen[t] > 0 /\ allowed.fd > 0
    <2>1. Turns(t, "opening", "open") /\ allowed' = [allowed EXCEPT !.fd = @ - 1]
        BY <1>2 DEF AcquireFd, Acquire
    <2>2. Mapped' = Mapped /\ Opened' = Opened + 1 /\ file' \in [EnvThreads -> FileStates]
        BY <1>1, <2>1, TurnsMovesHolder DEF FileStates
    <2>3. allowed' \in [mmap : Int, fd : Int] /\ allowed'.fd = allowed.fd - 1 /\ allowed'.mmap = allowed.mmap
        BY <1>0, <2>1
    <2>4. allowed.mmap \in Int /\ allowed.fd \in Int
        BY <1>0
    <2> QED
        BY <1>1, <1>2, <2>2, <2>3, <2>4, PosixEnvAssumption DEF LimitsAreKept
<1>3. CASE ~(seen[t] > 0 /\ allowed.fd > 0)
    <2>1. Turns(t, "opening", "temporary") /\ allowed' = allowed
        BY <1>1, <1>3 DEF AcquireFd, Acquire, EnvTypeOK
    <2> QED
        BY <2>1, TurnKeepsLimits DEF FileStates
<1> QED
    BY <1>2, <1>3

\* What is given back was held: MapFails and CloseMapped, then CloseOpen.
LEMMA GiveBackMmapKeepsLimits ==
    ASSUME EnvInv, NEW t \in EnvThreads, NEW from \in {"acquired", "mapped"},
           GiveBack(t, from, "mmap", "closed")
    PROVE  LimitsAreKept' /\ allowed' \in [mmap : Int, fd : Int] /\ file' \in [EnvThreads -> FileStates]
<1> DEFINE Mapped == Cardinality(Holders({"acquired", "mapped"}))
           Opened == Cardinality(Holders({"open"}))
<1>1. EnvTypeOK /\ LimitsAreKept /\ Mapped \in Nat /\ Opened \in Nat
    BY HoldersFinite DEF EnvInv
<1>0. allowed \in [mmap : Int, fd : Int]
    BY <1>1 DEF EnvTypeOK
<1>2. Turns(t, from, "closed") /\ allowed' = [allowed EXCEPT !.mmap = @ + 1]
    BY DEF GiveBack
<1>3. Mapped' = Mapped - 1 /\ Opened' = Opened /\ file' \in [EnvThreads -> FileStates]
    BY <1>1, <1>2, TurnsMovesHolder DEF FileStates
<1>4. allowed' \in [mmap : Int, fd : Int] /\ allowed'.mmap = allowed.mmap + 1 /\ allowed'.fd = allowed.fd
    BY <1>0, <1>2
<1>5. allowed.mmap \in Int /\ allowed.fd \in Int
    BY <1>0
<1> QED
    BY <1>1, <1>3, <1>4, <1>5, PosixEnvAssumption DEF LimitsAreKept

LEMMA CloseOpenKeepsLimits ==
    ASSUME EnvInv, NEW t \in EnvThreads, CloseOpen(t)
    PROVE  LimitsAreKept' /\ allowed' \in [mmap : Int, fd : Int] /\ file' \in [EnvThreads -> FileStates]
<1> DEFINE Mapped == Cardinality(Holders({"acquired", "mapped"}))
           Opened == Cardinality(Holders({"open"}))
<1>1. EnvTypeOK /\ LimitsAreKept /\ Mapped \in Nat /\ Opened \in Nat
    BY HoldersFinite DEF EnvInv
<1>0. allowed \in [mmap : Int, fd : Int]
    BY <1>1 DEF EnvTypeOK
<1>2. Turns(t, "open", "closed") /\ allowed' = [allowed EXCEPT !.fd = @ + 1]
    BY DEF CloseOpen, GiveBack
<1>3. Mapped' = Mapped /\ Opened' = Opened - 1 /\ file' \in [EnvThreads -> FileStates]
    BY <1>1, <1>2, TurnsMovesHolder DEF FileStates
<1>4. allowed' \in [mmap : Int, fd : Int] /\ allowed'.fd = allowed.fd + 1 /\ allowed'.mmap = allowed.mmap
    BY <1>0, <1>2
<1>5. allowed.mmap \in Int /\ allowed.fd \in Int
    BY <1>0
<1> QED
    BY <1>1, <1>3, <1>4, <1>5, PosixEnvAssumption DEF LimitsAreKept

LEMMA FileStepKeepsLimits ==
    ASSUME EnvInv, NEW t \in EnvThreads, FileStep(t) PROVE EnvInv'
<1>1. LimitsAreKept' /\ allowed' \in [mmap : Int, fd : Int] /\ file' \in [EnvThreads -> FileStates]
    <2>1. CASE OpenFile(t) \/ MapFile(t) \/ LookForFd(t) \/ ReadTemporary(t) \/ HaveRead(t) \/ CloseTemporary(t)
        BY <2>1, TurnKeepsLimits
        DEF OpenFile, MapFile, LookForFd, ReadTemporary, HaveRead, CloseTemporary, Look, FileStates
    <2>2. CASE AcquireMmap(t) \/ AcquireFd(t)
        BY <2>2, AcquireMmapKeepsLimits, AcquireFdKeepsLimits
    <2>3. CASE MapFails(t) \/ CloseMapped(t) \/ CloseOpen(t)
        BY <2>3, GiveBackMmapKeepsLimits, CloseOpenKeepsLimits DEF MapFails, CloseMapped
    <2> QED
        BY <2>1, <2>2, <2>3 DEF FileStep
<1>2. seen' \in [EnvThreads -> Int]
    BY DEF FileStep, EnvInv, EnvTypeOK, OpenFile, MapFile, LookForFd, ReadTemporary, HaveRead,
           CloseTemporary, AcquireMmap, AcquireFd, MapFails, CloseMapped, CloseOpen, Look, Acquire, GiveBack
<1>3. UNCHANGED queueVars
    BY DEF FileStep
<1> QED
    BY <1>1, <1>2, <1>3 DEF EnvInv, EnvTypeOK, ScheduledWorkRuns, queueVars

-----------------------------------------------------------------------------
(* The queue                                                                 *)

\* Appending to the queue appends to what was begun and what waits.
LEMMA ScheduleKeepsOrder ==
    ASSUME EnvTypeOK, ScheduledWorkRuns, Schedule PROVE ScheduledWorkRuns'
<1>1. /\ ran \in Seq(Nat) /\ queue \in Seq(Nat) /\ scheduled \in Nat
      /\ ran' = ran /\ queue' = Append(queue, scheduled) /\ scheduled' = scheduled + 1
    BY DEF EnvTypeOK, Schedule
<1>2. ran \o queue = [i \in 1 .. scheduled |-> i - 1]
    BY DEF ScheduledWorkRuns
<1>3. ran' \o queue' = Append(ran \o queue, scheduled)
    BY <1>1
<1>4. Len(ran \o queue) = scheduled
    BY <1>1, <1>2
<1>5. ran' \o queue' = [i \in 1 .. scheduled' |-> i - 1]
    BY <1>1, <1>2, <1>3, <1>4
<1>6. queue' # <<>> => bgthread' \in {"locking", "running"}
    BY DEF EnvTypeOK, ScheduledWorkRuns, Schedule, Signal
<1> QED
    BY <1>5, <1>6 DEF ScheduledWorkRuns

\* Taking the head moves the border between them.
LEMMA BGTakeKeepsOrder ==
    ASSUME EnvTypeOK, ScheduledWorkRuns, BGTake PROVE ScheduledWorkRuns'
<1>1. /\ ran \in Seq(Nat) /\ queue \in Seq(Nat) /\ queue # <<>> /\ scheduled' = scheduled
      /\ ran' = Append(ran, Head(queue)) /\ queue' = Tail(queue) /\ bgthread' = "running"
    BY DEF EnvTypeOK, BGTake
<1>2. ran' \o queue' = ran \o queue
    BY <1>1
<1> QED
    BY <1>1, <1>2 DEF ScheduledWorkRuns

LEMMA QueueStepHolds == ASSUME EnvInv, QueueStep PROVE EnvInv'
<1>1. EnvTypeOK /\ ScheduledWorkRuns /\ LimitsAreKept /\ UNCHANGED fileVars
    BY DEF EnvInv, QueueStep
<1>2. EnvTypeOK'
    <2>1. UNCHANGED <<allowed, file, seen>>
        BY <1>1 DEF fileVars
    <2>2. CASE Schedule
        BY <1>1, <2>1, <2>2 DEF EnvTypeOK, Schedule, Signal
    <2>3. CASE BGTake
        <3>1. Head(queue) \in Nat /\ Tail(queue) \in Seq(Nat)
            BY <1>1, <2>3 DEF EnvTypeOK, BGTake
        <3> QED
            BY <1>1, <2>1, <2>3, <3>1 DEF EnvTypeOK, BGTake
    <2>4. CASE BGWait \/ BGDone \/ WakeUp
        BY <1>1, <2>1, <2>4 DEF EnvTypeOK, BGWait, BGDone, WakeUp
    <2> QED
        BY <2>2, <2>3, <2>4 DEF QueueStep
<1>3. LimitsAreKept'
    BY <1>1 DEF LimitsAreKept, Holders, fileVars
<1>4. ScheduledWorkRuns'
    <2>1. CASE Schedule
        BY <1>1, <2>1, ScheduleKeepsOrder
    <2>2. CASE BGTake
        BY <1>1, <2>2, BGTakeKeepsOrder
    <2>3. CASE BGWait \/ BGDone \/ WakeUp
        BY <1>1, <2>3 DEF ScheduledWorkRuns, BGWait, BGDone, WakeUp
    <2> QED
        BY <2>1, <2>2, <2>3 DEF QueueStep
<1> QED
    BY <1>2, <1>3, <1>4 DEF EnvInv

-----------------------------------------------------------------------------
LEMMA EnvInitHolds == EnvInit => EnvInv
<1> SUFFICES ASSUME EnvInit PROVE EnvInv
    OBVIOUS
<1>1. EnvTypeOK
    BY PosixEnvAssumption DEF EnvInit, Limits, EnvTypeOK, FileStates
<1>2. ScheduledWorkRuns
    BY DEF EnvInit, ScheduledWorkRuns
<1> QED
    BY <1>1, <1>2, LimitsInitHolds DEF EnvInv

LEMMA EnvNextHolds == EnvInv /\ [EnvNext]_envVars => EnvInv'
<1> SUFFICES ASSUME EnvInv, [EnvNext]_envVars PROVE EnvInv'
    OBVIOUS
<1>1. ASSUME NEW t \in EnvThreads, FileStep(t) PROVE EnvInv'
    BY <1>1, FileStepKeepsLimits
<1>2. CASE QueueStep
    BY <1>2, QueueStepHolds
<1>3. CASE UNCHANGED envVars
    BY <1>3 DEF envVars, EnvInv, EnvTypeOK, LimitsAreKept, Holders, ScheduledWorkRuns
<1> QED
    BY <1>1, <1>2, <1>3 DEF EnvNext

\* No more files are mapped or kept open than the Limiters allow, and what is acquired
\* is given back, for any number of threads and any limits.
THEOREM LimitsKept == EnvSpec => []LimitsAreKept
<1>1. EnvInv => LimitsAreKept
    BY DEF EnvInv
<1> QED
    BY <1>1, EnvInitHolds, EnvNextHolds, PTL DEF EnvSpec

\* What is scheduled is begun once and in order, and the background thread never waits
\* while there is work, for any number of items.
THEOREM WorkRuns == EnvSpec => []ScheduledWorkRuns
<1>1. EnvInv => ScheduledWorkRuns
    BY DEF EnvInv
<1> QED
    BY <1>1, EnvInitHolds, EnvNextHolds, PTL DEF EnvSpec
-----------------------------------------------------------------------------
(* CurrentFile: what CURRENT names, in every directory a loss of power leaves. *)

Names == {CURRENT} \cup {Manifest(n) : n \in Nat \ {0}} \cup {TempFile(n) : n \in Nat \ {0}}
IsManifest(f) == f[1] = "MANIFEST"

FileType == [number : Nat, buffer : 0 .. 1, cache : 0 .. 2, disk : 0 .. 2]
DirectoryType == UNION {[D -> Nat] : D \in SUBSET Names}
BeforeRename == {"manifest", "snapshot", "edit", "written", "temp", "line", "synced", "ready"}
OpeningStages == BeforeRename \cup {"closed", "renamed", "open"}

CurrentTypeOK ==
    /\ files \in Seq(FileType)
    /\ dirs \in Seq(DirectoryType) /\ dirs # <<>>
    /\ opening \in [at : OpeningStages, first : BOOLEAN, number : Nat]

\* What the parts below say of a directory and its files.
NamesAreRight(d) ==
    \A f \in DOMAIN d :
        /\ d[f] \in DOMAIN files
        /\ LET named == files[d[f]]
           IN /\ named.number > 0 /\ named.disk <= named.cache
              /\ f # CURRENT => named.number = f[2]
              /\ IF IsManifest(f) THEN named.buffer = 0 ELSE named.buffer + named.cache <= 1

DirectoriesAreRight == \A d \in ToSet(dirs) : NamesAreRight(d)

\* A file that is a manifest in one directory does not name one in another.
KindsAreApart ==
    \A d, e \in ToSet(dirs) : \A f \in DOMAIN d, g \in DOMAIN e :
        d[f] = e[g] => (IsManifest(f) <=> IsManifest(g))

\* How far the manifest being written and the file that will name it have come.
ManifestGrows ==
    opening.at \in BeforeRename =>
        /\ Manifest(Number) \in DOMAIN Dir
        /\ LET m == files[Dir[Manifest(Number)]]
           IN /\ opening.at \in {"manifest", "snapshot", "edit"} => m.disk = 0
              /\ opening.at = "edit" => m.cache = WholeManifest
              /\ opening.at \notin {"manifest", "snapshot", "edit"} /\ ~opening.first => m.disk = WholeManifest
TempGrows ==
    opening.at \in {"temp", "line", "synced", "ready"} =>
        /\ TempFile(Number) \in DOMAIN Dir
        /\ LET t == files[Dir[TempFile(Number)]]
           IN /\ opening.at = "temp" => t.buffer = 0 /\ t.cache = 0
              /\ opening.at = "line" => t.buffer = 1
              /\ opening.at \in {"synced", "ready"} => t.disk = 1
\* The manifest that CURRENT names is another than the one being written, and NewDB's is
\* the first.
OpeningIsNew ==
    /\ opening.at # "closed" => IF opening.first THEN Number = 1 ELSE Number > 1
    /\ opening.at \in BeforeRename => /\ CURRENT \in DOMAIN Dir <=> ~opening.first
                                      /\ CURRENT \in DOMAIN Dir => NumberIn(Dir) # Number
    /\ opening.at = "renamed" => CURRENT \in DOMAIN Dir /\ NumberIn(Dir) = Number

CurrentInv ==
    /\ CurrentTypeOK /\ DirectoriesAreRight /\ KindsAreApart
    /\ ManifestGrows /\ TempGrows /\ OpeningIsNew /\ CurrentNamesAManifest

\* CURRENT, the manifests and the temporary files have different names.
LEMMA NamesApart ==
    /\ \A n : ~IsManifest(CURRENT) /\ IsManifest(Manifest(n)) /\ ~IsManifest(TempFile(n))
    /\ \A n : CURRENT # Manifest(n) /\ CURRENT # TempFile(n)
    /\ \A n, m : Manifest(n) # TempFile(m) /\ Manifest(n)[2] = n /\ TempFile(n)[2] = n
    /\ \A n, m : (Manifest(n) = Manifest(m) => n = m) /\ (TempFile(n) = TempFile(m) => n = m)
    /\ CURRENT \in Names /\ \A n \in Nat \ {0} : Manifest(n) \in Names /\ TempFile(n) \in Names
BY DEF IsManifest, CURRENT, Manifest, TempFile, Names

\* Dir, the last of dirs, is one of the directories.
LEMMA DirIsOne ==
    ASSUME CurrentTypeOK
    PROVE  /\ Dir \in ToSet(dirs) /\ ToSet(dirs) \subseteq DirectoryType
           /\ \A d \in DirectoryType : DOMAIN d \subseteq Names /\ d \in [DOMAIN d -> Nat]
<1>1. dirs \in Seq(DirectoryType) /\ Len(dirs) \in DOMAIN dirs /\ \A i \in DOMAIN dirs : dirs[i] \in DirectoryType
    BY DEF CurrentTypeOK
<1>2. \A d \in DirectoryType : DOMAIN d \subseteq Names /\ d \in [DOMAIN d -> Nat]
    BY DEF DirectoryType
<1> QED
    BY <1>1, <1>2 DEF ToSet, Last, Dir

\* And it is the one that a step appends.
LEMMA DirAdded ==
    ASSUME CurrentTypeOK, NEW e \in DirectoryType, dirs' = Append(dirs, e)
    PROVE  /\ dirs' \in Seq(DirectoryType) /\ dirs' # <<>>
           /\ Dir' = e /\ ToSet(dirs)' = ToSet(dirs) \cup {e}
<1>1. /\ Len(dirs') = Len(dirs) + 1 /\ dirs'[Len(dirs) + 1] = e
      /\ \A i \in 1 .. Len(dirs) : dirs'[i] = dirs[i]
      /\ DOMAIN dirs = 1 .. Len(dirs) /\ DOMAIN dirs' = 1 .. Len(dirs) + 1
      /\ Len(dirs) \in Nat
      /\ dirs' \in Seq(DirectoryType)
    BY DEF CurrentTypeOK
<1>2. ToSet(dirs') = ToSet(dirs) \cup {e}
    BY <1>1 DEF ToSet
<1> QED
    BY <1>1, <1>2 DEF Last, Dir

\* An empty directory that was never synced.
LEMMA FileInit == CurrentInit => CurrentInv
<1> SUFFICES ASSUME CurrentInit PROVE CurrentInv
    OBVIOUS
<1>1. files = <<>> /\ dirs = <<<<>>>> /\ opening = [at |-> "closed", first |-> FALSE, number |-> 0]
    BY DEF CurrentInit
<1>2. <<>> \in [{} -> Nat] /\ {} \in SUBSET Names
    OBVIOUS
<1>3. <<>> \in DirectoryType
    BY <1>2 DEF DirectoryType
<1>4. CurrentTypeOK
    BY <1>1, <1>3 DEF CurrentTypeOK, OpeningStages
<1>5. \A d \in ToSet(dirs) : DOMAIN d = {}
    BY <1>1 DEF ToSet
<1> QED
    BY <1>1, <1>4, <1>5 DEF CurrentInv, DirectoriesAreRight, NamesAreRight, KindsAreApart, ManifestGrows,
       TempGrows, OpeningIsNew, CurrentNamesAManifest, BeforeRename

\* A step that adds no directory, and writes to files what keeps them right.
LEMMA FilesWritten ==
    ASSUME CurrentInv, files' \in Seq(FileType), ToSet(dirs)' \subseteq ToSet(dirs),
           \A d \in ToSet(dirs)' : \A f \in DOMAIN d :
               /\ d[f] \in DOMAIN files'
               /\ files'[d[f]].number = files[d[f]].number
               /\ files'[d[f]].disk >= files[d[f]].disk /\ files'[d[f]].cache >= files'[d[f]].disk
               /\ IF IsManifest(f) THEN files'[d[f]].buffer = 0
                  ELSE files'[d[f]].buffer + files'[d[f]].cache <= 1
    PROVE  DirectoriesAreRight' /\ KindsAreApart' /\ CurrentNamesAManifest'
<1>1. DirectoriesAreRight'
    BY DEF CurrentInv, DirectoriesAreRight, NamesAreRight
<1>2. KindsAreApart'
    BY DEF CurrentInv, KindsAreApart
<1>3. ASSUME NEW d \in ToSet(dirs)', CURRENT \in DOMAIN d
      PROVE  /\ files'[d[CURRENT]].disk = 1
             /\ Manifest(NumberIn(d)') \in DOMAIN d
             /\ NumberIn(d)' # 1 => files'[d[Manifest(NumberIn(d)')]].disk = WholeManifest
    <2>1. NumberIn(d)' = NumberIn(d)
        BY <1>3 DEF NumberIn
    <2>2. /\ files[d[CURRENT]].disk = 1
          /\ Manifest(NumberIn(d)) \in DOMAIN d
          /\ NumberIn(d) # 1 => files[d[Manifest(NumberIn(d))]].disk = WholeManifest
        BY <1>3 DEF CurrentInv, CurrentNamesAManifest
    <2>3. ~IsManifest(CURRENT)
        BY NamesApart
    <2>4. files'[d[CURRENT]].disk \in 0 .. 2 /\ files'[d[CURRENT]].cache \in 0 .. 2 /\ files'[d[CURRENT]].buffer \in 0 .. 1
        <3>1. d[CURRENT] \in DOMAIN files'
            BY <1>3
        <3>2. files'[d[CURRENT]] \in FileType
            BY <3>1
        <3> QED
            BY <3>2 DEF FileType
    <2>5. files'[d[CURRENT]].disk = 1
        BY <1>3, <2>2, <2>3, <2>4
    <2>6. ASSUME NumberIn(d) # 1 PROVE files'[d[Manifest(NumberIn(d))]].disk = WholeManifest
        <3>1. files'[d[Manifest(NumberIn(d))]].disk \in 0 .. 2
            <4>1. d[Manifest(NumberIn(d))] \in DOMAIN files'
                BY <1>3, <2>2
            <4>2. files'[d[Manifest(NumberIn(d))]] \in FileType
                BY <4>1
            <4> QED
                BY <4>2 DEF FileType
        <3>2. files'[d[Manifest(NumberIn(d))]].disk >= files[d[Manifest(NumberIn(d))]].disk
            BY <1>3, <2>2
        <3> QED
            BY <3>1, <3>2, <2>2, <2>6 DEF WholeManifest
    <2> QED
        BY <2>1, <2>2, <2>5, <2>6
<1> QED
    BY <1>1, <1>2, <1>3 DEF CurrentNamesAManifest

\* A step that adds a directory: what it has was in the last one, or is a file just made.
LEMMA DirectoryChanged ==
    ASSUME CurrentInv, NEW e \in DirectoryType, dirs' = Append(dirs, e),
           files' \in Seq(FileType), Len(files') >= Len(files), \A i \in DOMAIN files : files'[i] = files[i],
           \A f \in DOMAIN e :
               \/ \E g \in DOMAIN Dir : /\ e[f] = Dir[g] /\ (IsManifest(f) <=> IsManifest(g))
                                        /\ f # CURRENT => f[2] = files[Dir[g]].number
               \/ /\ e[f] = Len(files) + 1 /\ f # CURRENT /\ Len(files') = Len(files) + 1 /\ f[2] > 0
                  /\ files'[e[f]] = [NoFile EXCEPT !.number = f[2]]
                  /\ \A g \in DOMAIN e : e[g] = e[f] => g = f,
           CURRENT \in DOMAIN e =>
               /\ files'[e[CURRENT]].disk = 1
               /\ Manifest(files'[e[CURRENT]].number) \in DOMAIN e
               /\ files'[e[CURRENT]].number # 1 => files'[e[Manifest(files'[e[CURRENT]].number)]].disk = WholeManifest
    PROVE  DirectoriesAreRight' /\ KindsAreApart' /\ CurrentNamesAManifest'
<1>0. CurrentTypeOK /\ DirectoriesAreRight /\ KindsAreApart /\ CurrentNamesAManifest
    BY DEF CurrentInv
<1>1. ToSet(dirs)' = ToSet(dirs) \cup {e}
    BY <1>0, DirAdded
<1>2. Dir \in ToSet(dirs)
    BY <1>0, DirIsOne
<1>3. /\ DOMAIN files = 1 .. Len(files) /\ DOMAIN files' = 1 .. Len(files') /\ Len(files) \in Nat /\ Len(files') \in Nat
      /\ DOMAIN files \subseteq DOMAIN files'
    BY <1>0 DEF CurrentTypeOK
<1>4. \A d \in ToSet(dirs) : \A f \in DOMAIN d : d[f] \in DOMAIN files /\ files'[d[f]] = files[d[f]]
    BY <1>0 DEF DirectoriesAreRight, NamesAreRight
<1>5. ASSUME NEW d \in ToSet(dirs) PROVE NamesAreRight(d)'
    <2>1. NamesAreRight(d)
        BY <1>0 DEF DirectoriesAreRight
    <2>2. \A f \in DOMAIN d : d[f] \in DOMAIN files' /\ files'[d[f]] = files[d[f]]
        BY <1>3, <1>4
    <2> QED
        BY <2>1, <2>2 DEF NamesAreRight
<1>6. NamesAreRight(e)'
    <2> SUFFICES ASSUME NEW f \in DOMAIN e
                 PROVE  /\ e[f] \in DOMAIN files'
                        /\ files'[e[f]].number > 0 /\ files'[e[f]].disk <= files'[e[f]].cache
                        /\ f # CURRENT => files'[e[f]].number = f[2]
                        /\ IF IsManifest(f) THEN files'[e[f]].buffer = 0
                           ELSE files'[e[f]].buffer + files'[e[f]].cache <= 1
        BY DEF NamesAreRight
    <2>1. CASE \E g \in DOMAIN Dir : /\ e[f] = Dir[g] /\ (IsManifest(f) <=> IsManifest(g))
                                     /\ f # CURRENT => f[2] = files[Dir[g]].number
        <3>1. PICK g \in DOMAIN Dir : /\ e[f] = Dir[g] /\ (IsManifest(f) <=> IsManifest(g))
                                      /\ f # CURRENT => f[2] = files[Dir[g]].number
            BY <2>1
        <3>2. NamesAreRight(Dir)
            BY <1>0, <1>2 DEF DirectoriesAreRight
        <3>3. e[f] \in DOMAIN files' /\ files'[e[f]] = files[Dir[g]]
            BY <3>1, <1>2, <1>3, <1>4
        <3> QED
            BY <3>1, <3>2, <3>3 DEF NamesAreRight
    <2>2. CASE /\ e[f] = Len(files) + 1 /\ f # CURRENT /\ Len(files') = Len(files) + 1 /\ f[2] > 0
               /\ files'[e[f]] = [NoFile EXCEPT !.number = f[2]]
        BY <2>2, <1>3 DEF NoFile
    <2> QED
        BY <2>1, <2>2
<1>7. DirectoriesAreRight'
    BY <1>1, <1>5, <1>6 DEF DirectoriesAreRight
<1>a. \A i \in 1 .. Len(files) : i # Len(files) + 1
    <2>1. \A n \in Nat : \A i \in 1 .. n : i # n + 1
        OBVIOUS
    <2> QED
        BY <2>1, <1>3
<1>b. \A f \in DOMAIN e : e[f] # Len(files) + 1 => \E g \in DOMAIN Dir : e[f] = Dir[g] /\ (IsManifest(f) <=> IsManifest(g))
    OBVIOUS
<1>8. \A d \in ToSet(dirs) : \A f \in DOMAIN e, g \in DOMAIN d : e[f] = d[g] => (IsManifest(f) <=> IsManifest(g))
    <2> SUFFICES ASSUME NEW d \in ToSet(dirs), NEW f \in DOMAIN e, NEW g \in DOMAIN d, e[f] = d[g]
                 PROVE  IsManifest(f) <=> IsManifest(g)
        OBVIOUS
    <2>1. d[g] \in 1 .. Len(files)
        BY <1>3, <1>4
    <2>2. PICK h \in DOMAIN Dir : e[f] = Dir[h] /\ (IsManifest(f) <=> IsManifest(h))
        BY <2>1, <1>a, <1>b
    <2> QED
        <3>1. \A h1 \in DOMAIN Dir, h2 \in DOMAIN d : Dir[h1] = d[h2] => (IsManifest(h1) <=> IsManifest(h2))
            BY <1>0, <1>2 DEF KindsAreApart
        <3> QED
            BY <2>2, <3>1
<1>9. \A f, g \in DOMAIN e : e[f] = e[g] => (IsManifest(f) <=> IsManifest(g))
    <2> SUFFICES ASSUME NEW f \in DOMAIN e, NEW g \in DOMAIN e, e[f] = e[g] PROVE IsManifest(f) <=> IsManifest(g)
        OBVIOUS
    <2>1. CASE e[f] = Len(files) + 1
        <3>1. \A h \in DOMAIN Dir : Dir[h] # Len(files) + 1
            <4>1. \A h \in DOMAIN Dir : Dir[h] \in 1 .. Len(files)
                BY <1>2, <1>3, <1>4
            <4> QED
                BY <4>1, <1>a
        <3>2. f \notin DOMAIN Dir \/ e[f] # Dir[f]
            BY <3>1, <2>1
        <3>3. g \notin DOMAIN Dir \/ e[g] # Dir[g]
            BY <3>1, <2>1
        <3>4. f = g
            BY <3>1, <2>1, <3>2, <3>3
        <3> QED
            BY <3>4
    <2>2. CASE e[f] # Len(files) + 1
        <3>1. PICK h \in DOMAIN Dir : e[g] = Dir[h] /\ (IsManifest(g) <=> IsManifest(h))
            BY <2>2
        <3> QED
            BY <3>1, <1>2, <1>8
    <2> QED
        BY <2>1, <2>2
<1>10. KindsAreApart'
    BY <1>0, <1>1, <1>8, <1>9 DEF KindsAreApart
<1>11. ASSUME NEW d \in ToSet(dirs), CURRENT \in DOMAIN d
       PROVE  /\ files'[d[CURRENT]].disk = 1
              /\ Manifest(NumberIn(d)') \in DOMAIN d
              /\ NumberIn(d)' # 1 => files'[d[Manifest(NumberIn(d)')]].disk = WholeManifest
    BY <1>0, <1>4, <1>11 DEF CurrentNamesAManifest, NumberIn
<1>12. CurrentNamesAManifest'
    BY <1>1, <1>11 DEF CurrentNamesAManifest, NumberIn
<1> QED
    BY <1>7, <1>10, <1>12

\* The same, of a file made.
LEMMA FileMade ==
    ASSUME CurrentInv, NEW name \in Names \ {CURRENT}, NewWritableFile(name, name[2]),
           CURRENT \in DOMAIN Dir => name # Manifest(NumberIn(Dir))
    PROVE  /\ CurrentTypeOK' \/ opening' \notin [at : OpeningStages, first : BOOLEAN, number : Nat]
           /\ DirectoriesAreRight' /\ KindsAreApart' /\ CurrentNamesAManifest'
           /\ files' \in Seq(FileType) /\ dirs' \in Seq(DirectoryType) /\ dirs' # <<>>
           /\ DOMAIN Dir' = DOMAIN Dir \cup {name}
           /\ files'[Dir'[name]] = [NoFile EXCEPT !.number = name[2]]
           /\ \A f \in DOMAIN Dir \ {name} : Dir'[f] = Dir[f] /\ files'[Dir'[f]] = files[Dir[f]]
<1>e. PICK e : e = [f \in DOMAIN Dir \cup {name} |-> IF f = name THEN Len(files) + 1 ELSE Dir[f]]
    OBVIOUS
<1> DEFINE new == [NoFile EXCEPT !.number = name[2]]
<1>0. CurrentTypeOK /\ DirectoriesAreRight /\ CurrentNamesAManifest
    BY DEF CurrentInv
<1>1. name[2] \in Nat /\ name[2] > 0 /\ name # CURRENT
    BY NamesApart DEF Names
<1>2. files' = Append(files, new) /\ dirs' = Append(dirs, e)
    BY <1>e DEF NewWritableFile
<1>3. new \in FileType /\ Len(files) \in Nat /\ files \in Seq(FileType)
    BY <1>0, <1>1 DEF NoFile, FileType, CurrentTypeOK
<1>4. /\ files' \in Seq(FileType) /\ Len(files') = Len(files) + 1 /\ files'[Len(files) + 1] = new
      /\ \A i \in DOMAIN files : files'[i] = files[i] /\ i # Len(files) + 1
    BY <1>2, <1>3
<1>5. /\ Dir \in ToSet(dirs) /\ DOMAIN Dir \subseteq Names /\ Dir \in [DOMAIN Dir -> Nat]
    BY <1>0, DirIsOne
<1>6. e \in DirectoryType
    <2>1. e \in [DOMAIN Dir \cup {name} -> Nat] /\ DOMAIN Dir \cup {name} \in SUBSET Names
        BY <1>e, <1>3, <1>5
    <2> QED
        BY <2>1 DEF DirectoryType
<1>7. NamesAreRight(Dir)
    BY <1>0, <1>5 DEF DirectoriesAreRight
<1>8. /\ DOMAIN e = DOMAIN Dir \cup {name} /\ e[name] = Len(files) + 1
      /\ \A f \in DOMAIN Dir \ {name} : e[f] = Dir[f] /\ Dir[f] \in DOMAIN files
    BY <1>e, <1>7 DEF NamesAreRight
<1> HIDE DEF new
<1>9. Dir' = e /\ dirs' \in Seq(DirectoryType) /\ dirs' # <<>>
    BY <1>0, <1>2, <1>6, DirAdded
<1>10. \A f \in DOMAIN Dir \ {name} : files'[e[f]] = files[Dir[f]]
    BY <1>4, <1>8
<1>11. \A f \in DOMAIN e :
            \/ \E g \in DOMAIN Dir : /\ e[f] = Dir[g] /\ (IsManifest(f) <=> IsManifest(g))
                                     /\ f # CURRENT => f[2] = files[Dir[g]].number
            \/ /\ e[f] = Len(files) + 1 /\ f # CURRENT /\ Len(files') = Len(files) + 1 /\ f[2] > 0
               /\ files'[e[f]] = [NoFile EXCEPT !.number = f[2]]
               /\ \A g \in DOMAIN e : e[g] = e[f] => g = f
    <2> SUFFICES ASSUME NEW f \in DOMAIN e
                 PROVE  \/ \E g \in DOMAIN Dir : /\ e[f] = Dir[g] /\ (IsManifest(f) <=> IsManifest(g))
                                                 /\ f # CURRENT => f[2] = files[Dir[g]].number
                        \/ /\ e[f] = Len(files) + 1 /\ f # CURRENT /\ Len(files') = Len(files) + 1 /\ f[2] > 0
                           /\ files'[e[f]] = [NoFile EXCEPT !.number = f[2]]
                           /\ \A g \in DOMAIN e : e[g] = e[f] => g = f
        OBVIOUS
    <2>1. CASE f = name
        BY <2>1, <1>1, <1>4, <1>8 DEF new
    <2>2. CASE f # name
        <3>1. f \in DOMAIN Dir /\ e[f] = Dir[f] /\ (f # CURRENT => f[2] = files[Dir[f]].number)
            BY <2>2, <1>7, <1>8 DEF NamesAreRight
        <3> QED
            BY <3>1
    <2> QED
        BY <2>1, <2>2
<1>12. ASSUME CURRENT \in DOMAIN e
       PROVE  /\ files'[e[CURRENT]].disk = 1
              /\ Manifest(files'[e[CURRENT]].number) \in DOMAIN e
              /\ files'[e[CURRENT]].number # 1 => files'[e[Manifest(files'[e[CURRENT]].number)]].disk = WholeManifest
    <2>1. CURRENT \in DOMAIN Dir \ {name} /\ files'[e[CURRENT]] = files[Dir[CURRENT]]
        BY <1>1, <1>8, <1>10, <1>12
    <2>2. /\ files[Dir[CURRENT]].disk = 1
          /\ Manifest(files[Dir[CURRENT]].number) \in DOMAIN Dir \ {name}
          /\ files[Dir[CURRENT]].number # 1 => files[Dir[Manifest(files[Dir[CURRENT]].number)]].disk = WholeManifest
        BY <2>1, <1>0, <1>5 DEF CurrentNamesAManifest, NumberIn
    <2> QED
        BY <2>1, <2>2, <1>8, <1>10
<1>13. DirectoriesAreRight' /\ KindsAreApart' /\ CurrentNamesAManifest'
    <2>1. Len(files') >= Len(files)
        BY <1>3, <1>4
    <2> QED
        BY <2>1, <1>2, <1>4, <1>6, <1>11, <1>12, DirectoryChanged
<1> QED
    BY <1>4, <1>8, <1>9, <1>10, <1>13 DEF new, CurrentTypeOK

\* What a file that is written to becomes, when it has a name and keeps its kind.
LEMMA FileWritten ==
    ASSUME CurrentInv, NEW n \in DOMAIN Dir, NEW g \in FileType, files' = [files EXCEPT ![Dir[n]] = g],
           dirs' = dirs \/ dirs' = <<Dir>>,
           g.number = files[Dir[n]].number, g.disk >= files[Dir[n]].disk, g.cache >= g.disk,
           IF IsManifest(n) THEN g.buffer = 0 ELSE g.buffer + g.cache <= 1
    PROVE  /\ files' \in Seq(FileType) /\ dirs' \in Seq(DirectoryType) /\ dirs' # <<>> /\ Dir' = Dir
           /\ DirectoriesAreRight' /\ KindsAreApart' /\ CurrentNamesAManifest'
           /\ files'[Dir[n]] = g
           /\ \A m \in DOMAIN Dir : /\ files'[Dir[m]].number = files[Dir[m]].number
                                    /\ (IsManifest(m) <=> ~IsManifest(n)) => files'[Dir[m]] = files[Dir[m]]
<1>0. CurrentTypeOK /\ DirectoriesAreRight /\ KindsAreApart
    BY DEF CurrentInv
<1>1. /\ Dir \in ToSet(dirs) /\ ToSet(dirs) \subseteq DirectoryType
    BY <1>0, DirIsOne
<1>2. NamesAreRight(Dir)
    BY <1>0, <1>1 DEF DirectoriesAreRight
<1>3. Dir[n] \in DOMAIN files
    BY <1>2 DEF NamesAreRight
<1>4. files \in Seq(FileType)
    BY <1>0 DEF CurrentTypeOK
<1>5. files' \in Seq(FileType) /\ DOMAIN files' = DOMAIN files /\ files'[Dir[n]] = g
    BY <1>3, <1>4
<1>6. \A i \in DOMAIN files : i # Dir[n] => files'[i] = files[i]
    BY <1>3, <1>4
<1>7. ToSet(dirs)' \subseteq ToSet(dirs) /\ dirs' \in Seq(DirectoryType) /\ dirs' # <<>> /\ Dir' = Dir
    <2>1. CASE dirs' = dirs
        BY <2>1, <1>0 DEF CurrentTypeOK, Dir
    <2>2. CASE dirs' = <<Dir>>
        <3>1. Len(dirs') = 1 /\ dirs'[1] = Dir /\ DOMAIN dirs' = {1}
            BY <2>2
        <3> QED
            BY <3>1, <2>2, <1>1 DEF Dir, Last, ToSet
    <2> QED
        BY <2>1, <2>2
<1>8. ASSUME NEW d \in ToSet(dirs), NEW f \in DOMAIN d
      PROVE  /\ d[f] \in DOMAIN files'
             /\ files'[d[f]].number = files[d[f]].number
             /\ files'[d[f]].disk >= files[d[f]].disk /\ files'[d[f]].cache >= files'[d[f]].disk
             /\ IF IsManifest(f) THEN files'[d[f]].buffer = 0
                ELSE files'[d[f]].buffer + files'[d[f]].cache <= 1
             /\ (IsManifest(f) <=> ~IsManifest(n)) => files'[d[f]] = files[d[f]]
    <2>1. NamesAreRight(d)
        BY <1>0 DEF DirectoriesAreRight
    <2>2. d[f] \in DOMAIN files
        BY <2>1 DEF NamesAreRight
    <2>3. CASE d[f] = Dir[n]
        <3>1. IsManifest(f) <=> IsManifest(n)
            BY <2>3, <1>0, <1>1 DEF KindsAreApart
        <3> QED
            BY <3>1, <2>2, <2>3, <1>5
    <2>4. CASE d[f] # Dir[n]
        <3>1. files'[d[f]] = files[d[f]] /\ files[d[f]] \in FileType
            BY <2>2, <2>4, <1>4, <1>6
        <3>2. files[d[f]].disk <= files[d[f]].cache /\ files[d[f]].disk \in Nat /\ files[d[f]].cache \in Nat
            BY <2>1, <3>1 DEF NamesAreRight, FileType
        <3>3. IF IsManifest(f) THEN files[d[f]].buffer = 0 ELSE files[d[f]].buffer + files[d[f]].cache <= 1
            BY <2>1 DEF NamesAreRight
        <3> QED
            BY <3>1, <3>2, <3>3, <2>2, <1>5
    <2> QED
        BY <2>3, <2>4
<1>9. DirectoriesAreRight' /\ KindsAreApart' /\ CurrentNamesAManifest'
    BY <1>5, <1>7, <1>8, FilesWritten
<1> QED
    BY <1>1, <1>5, <1>7, <1>8, <1>9

\* The files that are written, by their names.
LEMMA FileOfName ==
    ASSUME CurrentInv, NEW f \in DOMAIN Dir
    PROVE  /\ Dir[f] \in DOMAIN files /\ files[Dir[f]] \in FileType /\ files[Dir[f]].disk <= files[Dir[f]].cache
           /\ f # CURRENT => files[Dir[f]].number = f[2]
           /\ IF IsManifest(f) THEN files[Dir[f]].buffer = 0 ELSE files[Dir[f]].buffer + files[Dir[f]].cache <= 1
<1>1. CurrentTypeOK /\ Dir \in ToSet(dirs) /\ DirectoriesAreRight
    BY DirIsOne DEF CurrentInv
<1>2. NamesAreRight(Dir)
    BY <1>1 DEF DirectoriesAreRight
<1> QED
    BY <1>1, <1>2 DEF NamesAreRight, CurrentTypeOK

\* The manifest being written grows, and no other file changes.
LEMMA ManifestWritten ==
    ASSUME CurrentInv, NEW from \in {"manifest", "snapshot", "edit"}, NEW to \in {"snapshot", "edit", "written"}, Then(from, to),
           NEW g \in FileType, files' = [files EXCEPT ![Dir[Manifest(Number)]] = g],
           dirs' = dirs \/ dirs' = <<Dir>>,
           g.number = files[Dir[Manifest(Number)]].number, g.cache >= g.disk, g.buffer = 0,
           to # "written" => g.disk = 0, to = "edit" => g.cache = WholeManifest,
           to = "written" /\ ~opening.first => g.disk = WholeManifest
    PROVE  CurrentInv'
<1>0. CurrentTypeOK /\ ManifestGrows /\ OpeningIsNew
    BY DEF CurrentInv
<1> DEFINE n == Manifest(Number)
<1>1. opening.at = from /\ opening' = [opening EXCEPT !.at = to]
    BY DEF Then
<1>2. /\ opening' \in [at : OpeningStages, first : BOOLEAN, number : Nat]
      /\ opening'.at = to /\ opening'.first = opening.first /\ Number' = Number
    BY <1>0, <1>1 DEF CurrentTypeOK, OpeningStages, BeforeRename, Number
<1>3. opening.at \in BeforeRename /\ opening'.at \in BeforeRename
    BY <1>1, <1>2 DEF BeforeRename
<1>4. n \in DOMAIN Dir /\ files[Dir[n]].disk = 0 /\ IsManifest(n)
    BY <1>0, <1>1, <1>3, NamesApart DEF ManifestGrows
<1>5. g.disk \in Nat /\ g.disk >= files[Dir[n]].disk
    BY <1>4 DEF FileType
<1>6. /\ files' \in Seq(FileType) /\ dirs' \in Seq(DirectoryType) /\ dirs' # <<>> /\ Dir' = Dir
      /\ DirectoriesAreRight' /\ KindsAreApart' /\ CurrentNamesAManifest'
      /\ files'[Dir[n]] = g
      /\ \A m \in DOMAIN Dir : files'[Dir[m]].number = files[Dir[m]].number
    BY <1>4, <1>5, FileWritten
<1>7. CurrentTypeOK'
    BY <1>2, <1>6 DEF CurrentTypeOK
<1>8. ManifestGrows'
    BY <1>1, <1>2, <1>4, <1>6 DEF ManifestGrows
<1>9. TempGrows'
    BY <1>2 DEF TempGrows
<1>10. OpeningIsNew'
    BY <1>0, <1>1, <1>2, <1>3, <1>6 DEF OpeningIsNew, NumberIn
<1> QED
    BY <1>6, <1>7, <1>8, <1>9, <1>10 DEF CurrentInv

\* The same, of the file that will be CURRENT.
LEMMA TempWritten ==
    ASSUME CurrentInv, NEW from \in {"temp", "line", "synced"}, NEW to \in {"line", "synced", "ready"}, Then(from, to),
           NEW g \in FileType, files' = [files EXCEPT ![Dir[TempFile(Number)]] = g], dirs' = dirs,
           g.number = files[Dir[TempFile(Number)]].number, g.disk >= files[Dir[TempFile(Number)]].disk,
           g.cache >= g.disk, g.buffer + g.cache <= 1,
           to = "line" => g.buffer = 1, to # "line" => g.disk = 1
    PROVE  CurrentInv'
<1>0. CurrentTypeOK /\ ManifestGrows /\ TempGrows /\ OpeningIsNew
    BY DEF CurrentInv
<1> DEFINE n == TempFile(Number)
<1>1. opening.at = from /\ opening' = [opening EXCEPT !.at = to]
    BY DEF Then
<1>2. /\ opening' \in [at : OpeningStages, first : BOOLEAN, number : Nat]
      /\ opening'.at = to /\ opening'.first = opening.first /\ Number' = Number
    BY <1>0, <1>1 DEF CurrentTypeOK, OpeningStages, BeforeRename, Number
<1>3. opening.at \in BeforeRename /\ opening'.at \in BeforeRename
    BY <1>1, <1>2 DEF BeforeRename
<1>4. n \in DOMAIN Dir /\ ~IsManifest(n)
    BY <1>0, <1>1, NamesApart DEF TempGrows
<1>5. Manifest(Number) \in DOMAIN Dir /\ IsManifest(Manifest(Number))
    BY <1>0, <1>3, NamesApart DEF ManifestGrows
<1>6. /\ files' \in Seq(FileType) /\ dirs' \in Seq(DirectoryType) /\ dirs' # <<>> /\ Dir' = Dir
      /\ DirectoriesAreRight' /\ KindsAreApart' /\ CurrentNamesAManifest'
      /\ files'[Dir[n]] = g
      /\ \A m \in DOMAIN Dir : /\ files'[Dir[m]].number = files[Dir[m]].number
                               /\ (IsManifest(m) <=> ~IsManifest(n)) => files'[Dir[m]] = files[Dir[m]]
    BY <1>4, FileWritten
<1>7. CurrentTypeOK'
    BY <1>2, <1>6 DEF CurrentTypeOK
<1>8. ManifestGrows'
    <2>1. files'[Dir[Manifest(Number)]] = files[Dir[Manifest(Number)]]
        BY <1>4, <1>5, <1>6
    <2> QED
        BY <2>1, <1>0, <1>1, <1>2, <1>3, <1>5, <1>6 DEF ManifestGrows
<1>9. TempGrows'
    BY <1>1, <1>2, <1>4, <1>6 DEF TempGrows
<1>10. OpeningIsNew'
    BY <1>0, <1>1, <1>2, <1>3, <1>6 DEF OpeningIsNew, NumberIn
<1> QED
    BY <1>6, <1>7, <1>8, <1>9, <1>10 DEF CurrentInv

\* NewDB and Recover make a manifest of a number that no directory has.
LEMMA BeginsManifest ==
    ASSUME CurrentInv, NEW n \in Nat \ {0}, NewWritableFile(Manifest(n), n),
           opening'.at = "manifest", opening' \in [at : OpeningStages, first : BOOLEAN, number : Nat],
           opening'.number = n, IF opening'.first THEN n = 1 ELSE n > 1,
           CURRENT \in DOMAIN Dir <=> ~opening'.first, CURRENT \in DOMAIN Dir => NumberIn(Dir) # n
    PROVE  CurrentInv'
<1> DEFINE name == Manifest(n)
<1>1. name \in Names \ {CURRENT} /\ name[2] = n /\ (CURRENT \in DOMAIN Dir => name # Manifest(NumberIn(Dir)))
    BY NamesApart
<1>2. NewWritableFile(name, name[2])
    BY <1>1
<1> HIDE DEF name
<1>3. /\ DirectoriesAreRight' /\ KindsAreApart' /\ CurrentNamesAManifest'
      /\ files' \in Seq(FileType) /\ dirs' \in Seq(DirectoryType) /\ dirs' # <<>>
      /\ DOMAIN Dir' = DOMAIN Dir \cup {name}
      /\ files'[Dir'[name]] = [NoFile EXCEPT !.number = name[2]]
      /\ \A f \in DOMAIN Dir \ {name} : Dir'[f] = Dir[f] /\ files'[Dir'[f]] = files[Dir[f]]
    BY <1>1, <1>2, FileMade
<1>4. Number' = n
    BY DEF Number
<1>5. CurrentTypeOK'
    BY <1>3 DEF CurrentTypeOK
<1>6. files'[Dir'[name]].disk = 0
    BY <1>1, <1>3 DEF NoFile
<1>7. ManifestGrows'
    BY <1>3, <1>4, <1>6 DEF ManifestGrows, name
<1>8. TempGrows'
    BY DEF TempGrows
<1>9. OpeningIsNew'
    <2>1. CURRENT \in DOMAIN Dir' <=> CURRENT \in DOMAIN Dir
        BY <1>1, <1>3
    <2>2. CURRENT \in DOMAIN Dir' => files'[Dir'[CURRENT]] = files[Dir[CURRENT]]
        BY <1>1, <1>3
    <2> QED
        BY <2>1, <2>2, <1>4 DEF OpeningIsNew, NumberIn
<1> QED
    BY <1>3, <1>5, <1>7, <1>8, <1>9 DEF CurrentInv

LEMMA BeginNewDBHolds == ASSUME CurrentInv, BeginNewDB PROVE CurrentInv'
<1>1. CURRENT \notin DOMAIN Dir /\ opening' = [at |-> "manifest", first |-> TRUE, number |-> 1] /\ NewWritableFile(Manifest(1), 1)
    BY DEF BeginNewDB
<1>2. opening' \in [at : OpeningStages, first : BOOLEAN, number : Nat]
    BY <1>1 DEF OpeningStages, BeforeRename
<1> QED
    BY <1>1, <1>2, BeginsManifest

LEMMA RecoverHolds == ASSUME CurrentInv, Recover PROVE CurrentInv'
<1>1. PICK n : n = NumberIn(Dir) + 1
    OBVIOUS
<1>2. CURRENT \in DOMAIN Dir /\ opening' = [at |-> "manifest", first |-> FALSE, number |-> n] /\ NewWritableFile(Manifest(n), n)
    BY <1>1 DEF Recover
<1>3. CurrentTypeOK /\ Dir \in ToSet(dirs) /\ DirectoriesAreRight
    BY DirIsOne DEF CurrentInv
<1>4. NumberIn(Dir) \in Nat /\ NumberIn(Dir) > 0
    BY <1>2, <1>3, FileOfName DEF DirectoriesAreRight, NamesAreRight, NumberIn, FileType
<1>5. n \in Nat \ {0} /\ n > 1 /\ NumberIn(Dir) # n
    BY <1>1, <1>4
<1>6. opening' \in [at : OpeningStages, first : BOOLEAN, number : Nat]
    BY <1>2, <1>5 DEF OpeningStages, BeforeRename
<1> QED
    BY <1>2, <1>5, <1>6, BeginsManifest

LEMMA EndNewDBHolds == ASSUME CurrentInv, EndNewDB PROVE CurrentInv'
<1>1. opening.at = "renamed" /\ opening.first /\ NewWritableFile(Manifest(2), 2)
      /\ opening' = [opening EXCEPT !.at = "manifest", !.first = FALSE, !.number = 2]
    BY DEF EndNewDB
<1>2. CurrentTypeOK /\ OpeningIsNew
    BY DEF CurrentInv
<1>3. /\ opening' \in [at : OpeningStages, first : BOOLEAN, number : Nat]
      /\ opening'.at = "manifest" /\ opening'.first = FALSE /\ opening'.number = 2
    BY <1>1, <1>2 DEF CurrentTypeOK, OpeningStages, BeforeRename
<1>4. CURRENT \in DOMAIN Dir /\ NumberIn(Dir) = 1
    BY <1>1, <1>2 DEF OpeningIsNew, Number
<1> QED
    BY <1>1, <1>3, <1>4, BeginsManifest

LEMMA NewTempHolds == ASSUME CurrentInv, NewTemp PROVE CurrentInv'
<1> DEFINE name == TempFile(Number)
<1>0. CurrentTypeOK /\ ManifestGrows /\ OpeningIsNew
    BY DEF CurrentInv
<1>1. opening.at = "written" /\ opening' = [opening EXCEPT !.at = "temp"] /\ NewWritableFile(TempFile(Number), Number)
    BY DEF NewTemp, Then
<1>2. /\ opening' \in [at : OpeningStages, first : BOOLEAN, number : Nat]
      /\ opening'.at = "temp" /\ opening'.first = opening.first /\ Number' = Number /\ Number \in Nat
    BY <1>0, <1>1 DEF CurrentTypeOK, OpeningStages, BeforeRename, Number
<1>3. Number \in Nat \ {0}
    BY <1>0, <1>1, <1>2 DEF OpeningIsNew
<1>4. name \in Names \ {CURRENT} /\ name[2] = Number /\ \A n : name # Manifest(n)
    BY <1>3, NamesApart
<1>5. NewWritableFile(name, name[2])
    BY <1>1, <1>4
<1> HIDE DEF name
<1>6. /\ DirectoriesAreRight' /\ KindsAreApart' /\ CurrentNamesAManifest'
      /\ files' \in Seq(FileType) /\ dirs' \in Seq(DirectoryType) /\ dirs' # <<>>
      /\ DOMAIN Dir' = DOMAIN Dir \cup {name}
      /\ files'[Dir'[name]] = [NoFile EXCEPT !.number = name[2]]
      /\ \A f \in DOMAIN Dir \ {name} : Dir'[f] = Dir[f] /\ files'[Dir'[f]] = files[Dir[f]]
    BY <1>4, <1>5, FileMade
<1>7. CurrentTypeOK'
    BY <1>2, <1>6 DEF CurrentTypeOK
<1>8. opening.at \in BeforeRename /\ opening'.at \in BeforeRename
    BY <1>1, <1>2 DEF BeforeRename
<1>9. ManifestGrows'
    <2>1. Manifest(Number) \in DOMAIN Dir /\ Manifest(Number) # name
        BY <1>0, <1>4, <1>8 DEF ManifestGrows
    <2>2. files'[Dir'[Manifest(Number)]] = files[Dir[Manifest(Number)]] /\ Manifest(Number) \in DOMAIN Dir'
        BY <2>1, <1>6
    <2> QED
        BY <2>2, <1>0, <1>1, <1>2, <1>8 DEF ManifestGrows
<1>10. files'[Dir'[name]].buffer = 0 /\ files'[Dir'[name]].cache = 0
    BY <1>4, <1>6 DEF NoFile
<1>11. TempGrows'
    BY <1>2, <1>6, <1>10 DEF TempGrows, name
<1>12. OpeningIsNew'
    <2>1. CURRENT \in DOMAIN Dir' <=> CURRENT \in DOMAIN Dir
        BY <1>4, <1>6
    <2>2. CURRENT \in DOMAIN Dir' => files'[Dir'[CURRENT]] = files[Dir[CURRENT]]
        BY <1>4, <1>6
    <2> QED
        BY <2>1, <2>2, <1>0, <1>1, <1>2, <1>8 DEF OpeningIsNew, NumberIn
<1> QED
    BY <1>6, <1>7, <1>9, <1>11, <1>12 DEF CurrentInv

\* What close() adds to the cache of a file is what its buffer held.
LEMMA BufferFlushed ==
    ASSUME NEW f \in FileType, f.buffer + f.cache <= 2
    PROVE  LET g == FlushedBuffer(f)
               h == [FlushedBuffer(f) EXCEPT !.disk = FlushedBuffer(f).cache]
           IN /\ g \in FileType /\ g.number = f.number /\ g.buffer = 0 /\ g.cache = f.cache + f.buffer /\ g.disk = f.disk
              /\ h \in FileType /\ h.number = f.number /\ h.buffer = 0 /\ h.cache = f.cache + f.buffer /\ h.disk = h.cache
<1>1. f.number \in Nat /\ f.cache + f.buffer \in 0 .. 2 /\ f.disk \in 0 .. 2
    BY DEF FileType
<1>2. FlushedBuffer(f) \in [number : {f.number}, buffer : {0}, cache : {f.cache + f.buffer}, disk : {f.disk}]
    BY DEF FileType, FlushedBuffer
<1>3. [FlushedBuffer(f) EXCEPT !.disk = FlushedBuffer(f).cache]
          \in [number : {f.number}, buffer : {0}, cache : {f.cache + f.buffer}, disk : {f.cache + f.buffer}]
    BY <1>2
<1> QED
    BY <1>1, <1>2, <1>3 DEF FileType

\* AddSnapshot, AddEdit, SyncManifest, CloseManifest
LEMMA ManifestStepHolds ==
    ASSUME CurrentInv, AddSnapshot \/ AddEdit \/ SyncManifest \/ CloseManifest PROVE CurrentInv'
<1> DEFINE n == Manifest(Number)
           m == files[Dir[n]]
<1>0. CurrentTypeOK /\ ManifestGrows
    BY DEF CurrentInv
<1>1. ASSUME opening.at \in {"manifest", "snapshot", "edit"}
      PROVE  /\ n \in DOMAIN Dir /\ m \in FileType /\ m.buffer = 0 /\ m.disk = 0
             /\ opening.at = "edit" => m.cache = WholeManifest
    <2>1. opening.at \in BeforeRename
        BY <1>1 DEF BeforeRename
    <2>2. n \in DOMAIN Dir /\ m.disk = 0 /\ (opening.at = "edit" => m.cache = WholeManifest)
        BY <2>1, <1>0, <1>1 DEF ManifestGrows
    <2>3. IsManifest(n)
        BY NamesApart
    <2> QED
        BY <2>2, <2>3, FileOfName
<1>2. CASE AddSnapshot
    <2>1. /\ Then("manifest", "snapshot") /\ dirs' = dirs
          /\ files' = [files EXCEPT ![Dir[n]] = [m EXCEPT !.cache = 1]]
        BY <1>2 DEF AddSnapshot
    <2>2. opening.at = "manifest"
        BY <2>1 DEF Then
    <2>3. [m EXCEPT !.cache = 1] \in FileType /\ [m EXCEPT !.cache = 1].disk = 0 /\ [m EXCEPT !.cache = 1].buffer = 0
          /\ [m EXCEPT !.cache = 1].cache >= 0 /\ [m EXCEPT !.cache = 1].number = m.number
        BY <1>1, <2>2 DEF FileType
    <2> QED
        BY <2>1, <2>3, ManifestWritten
<1>3. CASE AddEdit
    <2>1. /\ Then("snapshot", "edit") /\ dirs' = dirs
          /\ files' = [files EXCEPT ![Dir[n]] = [m EXCEPT !.cache = 2]]
        BY <1>3 DEF AddEdit
    <2>2. opening.at = "snapshot"
        BY <2>1 DEF Then
    <2>3. [m EXCEPT !.cache = 2] \in FileType /\ [m EXCEPT !.cache = 2].disk = 0 /\ [m EXCEPT !.cache = 2].buffer = 0
          /\ [m EXCEPT !.cache = 2].cache = WholeManifest /\ [m EXCEPT !.cache = 2].cache >= 0
          /\ [m EXCEPT !.cache = 2].number = m.number
        BY <1>1, <2>2 DEF FileType, WholeManifest
    <2> QED
        BY <2>1, <2>3, ManifestWritten
<1>4. CASE SyncManifest
    <2>1. /\ Then("edit", "written") /\ n[1] = "MANIFEST"
          /\ files' = [files EXCEPT ![Dir[n]] = [FlushedBuffer(m) EXCEPT !.disk = FlushedBuffer(m).cache]]
          /\ dirs' = <<Dir>>
        BY <1>4 DEF SyncManifest, Sync, Manifest
    <2>2. opening.at = "edit"
        BY <2>1 DEF Then
    <2> DEFINE g == [FlushedBuffer(m) EXCEPT !.disk = FlushedBuffer(m).cache]
    <2>3. m \in FileType /\ m.buffer = 0 /\ m.disk = 0 /\ m.cache = WholeManifest
        BY <1>1, <2>2
    <2>e. m.buffer + m.cache <= 2
        BY <2>3 DEF WholeManifest
    <2>f. LET g0 == FlushedBuffer(m)
              h0 == [FlushedBuffer(m) EXCEPT !.disk = FlushedBuffer(m).cache]
          IN /\ g0 \in FileType /\ g0.number = m.number /\ g0.buffer = 0 /\ g0.cache = m.cache + m.buffer /\ g0.disk = m.disk
             /\ h0 \in FileType /\ h0.number = m.number /\ h0.buffer = 0 /\ h0.cache = m.cache + m.buffer /\ h0.disk = h0.cache
        BY <2>3, <2>e, BufferFlushed
    <2>4. g \in FileType /\ g.disk = WholeManifest /\ g.buffer = 0 /\ g.cache >= g.disk /\ g.number = m.number
        BY <2>3, <2>f DEF WholeManifest, FileType
    <2> QED
        BY <2>1, <2>4, ManifestWritten
<1>5. CASE CloseManifest
    <2>1. /\ Then("edit", "written") /\ opening.first /\ dirs' = dirs
          /\ files' = [files EXCEPT ![Dir[n]] = FlushedBuffer(m)]
        BY <1>5 DEF CloseManifest, Flush
    <2>2. opening.at = "edit"
        BY <2>1 DEF Then
    <2>3. m \in FileType /\ m.buffer = 0 /\ m.disk = 0 /\ m.cache = WholeManifest
        BY <1>1, <2>2
    <2>e. m.buffer + m.cache <= 2
        BY <2>3 DEF WholeManifest
    <2>f. LET g0 == FlushedBuffer(m)
              h0 == [FlushedBuffer(m) EXCEPT !.disk = FlushedBuffer(m).cache]
          IN /\ g0 \in FileType /\ g0.number = m.number /\ g0.buffer = 0 /\ g0.cache = m.cache + m.buffer /\ g0.disk = m.disk
             /\ h0 \in FileType /\ h0.number = m.number /\ h0.buffer = 0 /\ h0.cache = m.cache + m.buffer /\ h0.disk = h0.cache
        BY <2>3, <2>e, BufferFlushed
    <2>4. FlushedBuffer(m) \in FileType /\ FlushedBuffer(m).buffer = 0 /\ FlushedBuffer(m).cache >= FlushedBuffer(m).disk
          /\ FlushedBuffer(m).number = m.number
        BY <2>3, <2>f DEF WholeManifest, FileType
    <2> QED
        BY <2>1, <2>4, ManifestWritten
<1> QED
    BY <1>2, <1>3, <1>4, <1>5

\* WriteTemp, SyncTemp, CloseTemp
LEMMA TempStepHolds == ASSUME CurrentInv, WriteTemp \/ SyncTemp \/ CloseTemp PROVE CurrentInv'
<1> DEFINE n == TempFile(Number)
           t == files[Dir[n]]
<1>0. CurrentTypeOK /\ TempGrows
    BY DEF CurrentInv
<1>1. ASSUME opening.at \in {"temp", "line", "synced"}
      PROVE  /\ n \in DOMAIN Dir /\ t \in FileType /\ t.buffer + t.cache <= 1 /\ t.disk <= t.cache
             /\ opening.at = "temp" => t.buffer = 0 /\ t.cache = 0
             /\ opening.at = "line" => t.buffer = 1
             /\ opening.at = "synced" => t.disk = 1
    <2>1. /\ n \in DOMAIN Dir
          /\ opening.at = "temp" => t.buffer = 0 /\ t.cache = 0
          /\ opening.at = "line" => t.buffer = 1
          /\ opening.at = "synced" => t.disk = 1
        BY <1>0, <1>1 DEF TempGrows
    <2>2. ~IsManifest(n) /\ n # CURRENT
        BY NamesApart
    <2> QED
        BY <2>1, <2>2, FileOfName
<1>2. CASE WriteTemp
    <2>1. /\ Then("temp", "line") /\ dirs' = dirs
          /\ files' = [files EXCEPT ![Dir[n]] = [t EXCEPT !.buffer = @ + 1]]
        BY <1>2 DEF WriteTemp, AppendTo
    <2>2. opening.at = "temp"
        BY <2>1 DEF Then
    <2>3. t \in FileType /\ t.buffer = 0 /\ t.cache = 0 /\ t.disk <= t.cache
        BY <1>1, <2>2
    <2>4. \A f \in FileType : f.buffer = 0 /\ f.cache = 0 /\ f.disk <= f.cache =>
              LET g == [f EXCEPT !.buffer = @ + 1]
              IN /\ g \in FileType /\ g.buffer = 1 /\ g.number = f.number /\ g.disk >= f.disk
                 /\ g.cache >= g.disk /\ g.buffer + g.cache <= 1
        BY DEF FileType
    <2>5. LET g == [t EXCEPT !.buffer = @ + 1]
          IN /\ g \in FileType /\ g.buffer = 1 /\ g.number = t.number /\ g.disk >= t.disk
             /\ g.cache >= g.disk /\ g.buffer + g.cache <= 1
        BY <2>3, <2>4
    <2> QED
        BY <2>1, <2>5, TempWritten
<1>3. CASE SyncTemp
    <2>1. /\ Then("line", "synced") /\ n[1] # "MANIFEST"
          /\ files' = [files EXCEPT ![Dir[n]] = [FlushedBuffer(t) EXCEPT !.disk = FlushedBuffer(t).cache]]
          /\ dirs' = dirs
        BY <1>3 DEF SyncTemp, Sync, TempFile
    <2>2. opening.at = "line"
        BY <2>1 DEF Then
    <2> DEFINE g == [FlushedBuffer(t) EXCEPT !.disk = FlushedBuffer(t).cache]
    <2>3. t \in FileType /\ t.buffer = 1 /\ t.cache = 0 /\ t.disk = 0
        BY <1>1, <2>2 DEF FileType
    <2>e. t.buffer + t.cache <= 2
        BY <2>3 DEF WholeManifest
    <2>f. LET g0 == FlushedBuffer(t)
              h0 == [FlushedBuffer(t) EXCEPT !.disk = FlushedBuffer(t).cache]
          IN /\ g0 \in FileType /\ g0.number = t.number /\ g0.buffer = 0 /\ g0.cache = t.cache + t.buffer /\ g0.disk = t.disk
             /\ h0 \in FileType /\ h0.number = t.number /\ h0.buffer = 0 /\ h0.cache = t.cache + t.buffer /\ h0.disk = h0.cache
        BY <2>3, <2>e, BufferFlushed
    <2>4. g \in FileType /\ g.buffer = 0 /\ g.cache = 1 /\ g.disk = 1 /\ g.number = t.number
        BY <2>3, <2>f DEF FileType
    <2>5. g.disk >= t.disk /\ g.cache >= g.disk /\ g.buffer + g.cache <= 1
        BY <2>3, <2>4
    <2> QED
        BY <2>1, <2>4, <2>5, TempWritten
<1>4. CASE CloseTemp
    <2>1. /\ Then("synced", "ready") /\ dirs' = dirs
          /\ files' = [files EXCEPT ![Dir[n]] = FlushedBuffer(t)]
        BY <1>4 DEF CloseTemp, Flush
    <2>2. opening.at = "synced"
        BY <2>1 DEF Then
    <2>3. t \in FileType /\ t.buffer = 0 /\ t.cache = 1 /\ t.disk = 1
        BY <1>1, <2>2 DEF FileType
    <2>e. t.buffer + t.cache <= 2
        BY <2>3 DEF WholeManifest
    <2>f. LET g0 == FlushedBuffer(t)
              h0 == [FlushedBuffer(t) EXCEPT !.disk = FlushedBuffer(t).cache]
          IN /\ g0 \in FileType /\ g0.number = t.number /\ g0.buffer = 0 /\ g0.cache = t.cache + t.buffer /\ g0.disk = t.disk
             /\ h0 \in FileType /\ h0.number = t.number /\ h0.buffer = 0 /\ h0.cache = t.cache + t.buffer /\ h0.disk = h0.cache
        BY <2>3, <2>e, BufferFlushed
    <2>4. FlushedBuffer(t) \in FileType /\ FlushedBuffer(t).buffer = 0 /\ FlushedBuffer(t).cache = 1
          /\ FlushedBuffer(t).disk = 1 /\ FlushedBuffer(t).number = t.number
        BY <2>3, <2>f DEF FileType
    <2>5. /\ FlushedBuffer(t).disk >= t.disk /\ FlushedBuffer(t).cache >= FlushedBuffer(t).disk
          /\ FlushedBuffer(t).buffer + FlushedBuffer(t).cache <= 1
        BY <2>3, <2>4
    <2> QED
        BY <2>1, <2>4, <2>5, TempWritten
<1> QED
    BY <1>2, <1>3, <1>4

\* A step that only takes names away keeps what the directory's parts say.
LEMMA NamesTaken ==
    ASSUME CurrentInv, NEW names, DeleteFiles(names), UNCHANGED files,
           CURRENT \notin names,
           CURRENT \in DOMAIN Dir => Manifest(NumberIn(Dir)) \notin names
    PROVE  /\ DirectoriesAreRight' /\ KindsAreApart' /\ CurrentNamesAManifest'
           /\ files' \in Seq(FileType) /\ dirs' \in Seq(DirectoryType) /\ dirs' # <<>>
           /\ CURRENT \in DOMAIN Dir' <=> CURRENT \in DOMAIN Dir
           /\ CURRENT \in DOMAIN Dir => NumberIn(Dir)' = NumberIn(Dir)
<1>0. CurrentTypeOK /\ DirectoriesAreRight /\ KindsAreApart /\ CurrentNamesAManifest
    BY DEF CurrentInv
<1>1. CASE names \cap DOMAIN Dir = {}
    <2>1. dirs' = dirs
        BY <1>1 DEF DeleteFiles
    <2> QED
        BY <2>1, <1>0 DEF DirectoriesAreRight, NamesAreRight, KindsAreApart, CurrentNamesAManifest, NumberIn, CurrentTypeOK, Dir
<1>2. CASE names \cap DOMAIN Dir # {}
    <2>1. PICK e : e = [f \in DOMAIN Dir \ names |-> Dir[f]]
        OBVIOUS
    <2>2. dirs' = Append(dirs, e) /\ files' = files
        BY <1>2, <2>1 DEF DeleteFiles, Without
    <2>3. /\ Dir \in ToSet(dirs) /\ DOMAIN Dir \subseteq Names /\ Dir \in [DOMAIN Dir -> Nat]
        BY <1>0, DirIsOne
    <2>4. e \in DirectoryType
        <3>1. e \in [DOMAIN Dir \ names -> Nat] /\ DOMAIN Dir \ names \in SUBSET Names
            BY <2>1, <2>3
        <3> QED
            BY <3>1 DEF DirectoryType
    <2>5. DOMAIN e = DOMAIN Dir \ names /\ \A f \in DOMAIN e : e[f] = Dir[f]
        BY <2>1
    <2>6. Dir' = e /\ dirs' \in Seq(DirectoryType) /\ dirs' # <<>>
        BY <1>0, <2>2, <2>4, DirAdded
    <2>7. \A f \in DOMAIN e :
               \/ \E g \in DOMAIN Dir : /\ e[f] = Dir[g] /\ (IsManifest(f) <=> IsManifest(g))
                                        /\ f # CURRENT => f[2] = files[Dir[g]].number
               \/ /\ e[f] = Len(files) + 1 /\ f # CURRENT /\ Len(files') = Len(files) + 1 /\ f[2] > 0
                  /\ files'[e[f]] = [NoFile EXCEPT !.number = f[2]]
                  /\ \A g \in DOMAIN e : e[g] = e[f] => g = f
        <3>1. \A f \in DOMAIN e : f \in DOMAIN Dir /\ e[f] = Dir[f] /\ (f # CURRENT => f[2] = files[Dir[f]].number)
            BY <2>5, FileOfName
        <3> QED
            BY <3>1
    <2>8. ASSUME CURRENT \in DOMAIN e
          PROVE  /\ files'[e[CURRENT]].disk = 1
                 /\ Manifest(files'[e[CURRENT]].number) \in DOMAIN e
                 /\ files'[e[CURRENT]].number # 1 => files'[e[Manifest(files'[e[CURRENT]].number)]].disk = WholeManifest
        <3>1. CURRENT \in DOMAIN Dir /\ e[CURRENT] = Dir[CURRENT]
            BY <2>5, <2>8
        <3>2. /\ files[Dir[CURRENT]].disk = 1
              /\ Manifest(files[Dir[CURRENT]].number) \in DOMAIN Dir
              /\ files[Dir[CURRENT]].number # 1 => files[Dir[Manifest(files[Dir[CURRENT]].number)]].disk = WholeManifest
            BY <3>1, <1>0, <2>3 DEF CurrentNamesAManifest, NumberIn
        <3>3. Manifest(files[Dir[CURRENT]].number) \in DOMAIN e
            BY <3>1, <3>2, <2>5 DEF NumberIn
        <3> QED
            BY <3>1, <3>2, <3>3, <2>2, <2>5
    <2>9. /\ files' \in Seq(FileType) /\ Len(files') >= Len(files) /\ \A i \in DOMAIN files : files'[i] = files[i]
        BY <1>0, <2>2 DEF CurrentTypeOK
    <2>10. DirectoriesAreRight' /\ KindsAreApart' /\ CurrentNamesAManifest'
        BY <2>2, <2>4, <2>7, <2>8, <2>9, DirectoryChanged
    <2> QED
        BY <2>2, <2>5, <2>6, <2>9, <2>10 DEF NumberIn
<1> QED
    BY <1>1, <1>2

\* RemoveObsoleteFiles keeps CURRENT and the manifest it names.
LEMMA DeleteObsoleteHolds == ASSUME CurrentInv, DeleteObsolete PROVE CurrentInv'
<1> DEFINE names == {f \in DOMAIN Dir : f[1] = "dbtmp" \/ (f[1] = "MANIFEST" /\ f[2] < Number)}
<1>0. CurrentTypeOK /\ OpeningIsNew
    BY DEF CurrentInv
<1>1. opening.at = "renamed" /\ opening' = [opening EXCEPT !.at = "open"] /\ UNCHANGED files /\ DeleteFiles(names)
    BY DEF DeleteObsolete, Then
<1>2. /\ opening' \in [at : OpeningStages, first : BOOLEAN, number : Nat]
      /\ opening'.at = "open" /\ opening'.first = opening.first /\ Number' = Number /\ Number \in Nat
    BY <1>0, <1>1 DEF CurrentTypeOK, OpeningStages, BeforeRename, Number
<1>3. CURRENT \notin names /\ (CURRENT \in DOMAIN Dir => Manifest(NumberIn(Dir)) \notin names)
    BY <1>0, <1>1, <1>2 DEF OpeningIsNew, CURRENT, Manifest
<1> HIDE DEF names
<1>4. /\ DirectoriesAreRight' /\ KindsAreApart' /\ CurrentNamesAManifest'
      /\ files' \in Seq(FileType) /\ dirs' \in Seq(DirectoryType) /\ dirs' # <<>>
    BY <1>1, <1>3, NamesTaken
<1> QED
    BY <1>0, <1>1, <1>2, <1>4 DEF CurrentInv, CurrentTypeOK, OpeningIsNew, ManifestGrows, TempGrows, BeforeRename

LEMMA FailsHolds == ASSUME CurrentInv, Fails PROVE CurrentInv'
<1>0. CurrentTypeOK /\ OpeningIsNew
    BY DEF CurrentInv
<1>1. PICK names : /\ opening.at \in BeforeRename /\ opening' = [opening EXCEPT !.at = "closed"] /\ UNCHANGED files
                   /\ DeleteFiles(names) /\ names \subseteq {TempFile(Number), Manifest(Number)}
    BY DEF Fails, BeforeRename
<1>2. /\ opening' \in [at : OpeningStages, first : BOOLEAN, number : Nat] /\ opening'.at = "closed"
    BY <1>0, <1>1 DEF CurrentTypeOK, OpeningStages
<1>3. CURRENT \notin names /\ (CURRENT \in DOMAIN Dir => Manifest(NumberIn(Dir)) \notin names)
    <2>1. CURRENT \in DOMAIN Dir => NumberIn(Dir) # Number
        BY <1>0, <1>1 DEF OpeningIsNew
    <2> QED
        BY <2>1, <1>1, NamesApart
<1>4. /\ DirectoriesAreRight' /\ KindsAreApart' /\ CurrentNamesAManifest'
      /\ files' \in Seq(FileType) /\ dirs' \in Seq(DirectoryType) /\ dirs' # <<>>
    BY <1>1, <1>3, NamesTaken
<1> QED
    BY <1>2, <1>4 DEF CurrentInv, CurrentTypeOK, OpeningIsNew, ManifestGrows, TempGrows, BeforeRename

\* The step that matters: CURRENT is renamed over, to a manifest that is on disk.
LEMMA RenameTempHolds == ASSUME CurrentInv, RenameTemp PROVE CurrentInv'
<1> DEFINE n == TempFile(Number)
<1>0. CurrentTypeOK /\ ManifestGrows /\ TempGrows /\ OpeningIsNew
    BY DEF CurrentInv
<1>1. PICK e : e = [f \in (DOMAIN Dir \ {n}) \cup {CURRENT} |-> IF f = CURRENT THEN Dir[n] ELSE Dir[f]]
    OBVIOUS
<1>2. opening.at = "ready" /\ opening' = [opening EXCEPT !.at = "renamed"] /\ files' = files /\ dirs' = Append(dirs, e)
    BY <1>1 DEF RenameTemp, Then
<1>3. /\ opening' \in [at : OpeningStages, first : BOOLEAN, number : Nat]
      /\ opening'.at = "renamed" /\ opening'.first = opening.first /\ Number' = Number
    BY <1>0, <1>2 DEF CurrentTypeOK, OpeningStages, BeforeRename, Number
<1>4. /\ Dir \in ToSet(dirs) /\ DOMAIN Dir \subseteq Names /\ Dir \in [DOMAIN Dir -> Nat]
    BY <1>0, DirIsOne
<1>5. /\ n \in DOMAIN Dir /\ files[Dir[n]].disk = 1 /\ files[Dir[n]].number = Number /\ ~IsManifest(n)
    <2>1. n \in DOMAIN Dir /\ files[Dir[n]].disk = 1
        BY <1>0, <1>2 DEF TempGrows
    <2>2. n # CURRENT /\ n[2] = Number /\ ~IsManifest(n)
        BY NamesApart
    <2> QED
        BY <2>1, <2>2, FileOfName
<1>6. /\ Manifest(Number) \in DOMAIN Dir /\ (~opening.first => files[Dir[Manifest(Number)]].disk = WholeManifest)
      /\ IF opening.first THEN Number = 1 ELSE Number > 1
    BY <1>0, <1>2 DEF ManifestGrows, OpeningIsNew, BeforeRename
<1>7. /\ DOMAIN e = (DOMAIN Dir \ {n}) \cup {CURRENT} /\ e[CURRENT] = Dir[n]
      /\ \A f \in DOMAIN e \ {CURRENT} : f \in DOMAIN Dir /\ e[f] = Dir[f]
    BY <1>1
<1>8. e \in DirectoryType
    <2>1. e \in [(DOMAIN Dir \ {n}) \cup {CURRENT} -> Nat] /\ (DOMAIN Dir \ {n}) \cup {CURRENT} \in SUBSET Names
        BY <1>1, <1>4, <1>5, NamesApart
    <2> QED
        BY <2>1 DEF DirectoryType
<1>9. ~IsManifest(CURRENT) /\ Manifest(Number) # n /\ Manifest(Number) # CURRENT
    BY NamesApart
<1> HIDE DEF n
<1>10. \A f \in DOMAIN e :
           \/ \E g \in DOMAIN Dir : /\ e[f] = Dir[g] /\ (IsManifest(f) <=> IsManifest(g))
                                    /\ f # CURRENT => f[2] = files[Dir[g]].number
           \/ /\ e[f] = Len(files) + 1 /\ f # CURRENT /\ Len(files') = Len(files) + 1 /\ f[2] > 0
              /\ files'[e[f]] = [NoFile EXCEPT !.number = f[2]]
              /\ \A g \in DOMAIN e : e[g] = e[f] => g = f
    <2>1. \A f \in DOMAIN e \ {CURRENT} : f \in DOMAIN Dir /\ e[f] = Dir[f] /\ f[2] = files[Dir[f]].number
        BY <1>7, FileOfName
    <2>2. e[CURRENT] = Dir[n] /\ n \in DOMAIN Dir /\ (IsManifest(CURRENT) <=> IsManifest(n))
        BY <1>5, <1>7, <1>9
    <2> QED
        BY <2>1, <2>2
<1>11. /\ files'[e[CURRENT]].disk = 1 /\ files'[e[CURRENT]].number = Number
       /\ Manifest(Number) \in DOMAIN e /\ e[Manifest(Number)] = Dir[Manifest(Number)]
       /\ Number # 1 => files'[e[Manifest(Number)]].disk = WholeManifest
    BY <1>2, <1>5, <1>6, <1>7, <1>9
<1>12. /\ files' \in Seq(FileType) /\ Len(files') >= Len(files) /\ \A i \in DOMAIN files : files'[i] = files[i]
    BY <1>0, <1>2 DEF CurrentTypeOK
<1>13. DirectoriesAreRight' /\ KindsAreApart' /\ CurrentNamesAManifest'
    BY <1>2, <1>8, <1>10, <1>11, <1>12, DirectoryChanged
<1>14. Dir' = e /\ dirs' \in Seq(DirectoryType) /\ dirs' # <<>>
    BY <1>0, <1>2, <1>8, DirAdded
<1>15. OpeningIsNew'
    BY <1>3, <1>6, <1>7, <1>11, <1>14 DEF OpeningIsNew, NumberIn, BeforeRename
<1> QED
    BY <1>3, <1>12, <1>13, <1>14, <1>15 DEF CurrentInv, CurrentTypeOK, ManifestGrows, TempGrows, BeforeRename

\* What the end of the process or of the power leaves is closed.
LEMMA ClosedHolds ==
    ASSUME CurrentInv, opening' = [opening EXCEPT !.at = "closed"],
           files' \in Seq(FileType), dirs' \in Seq(DirectoryType), dirs' # <<>>,
           DirectoriesAreRight', KindsAreApart', CurrentNamesAManifest'
    PROVE  CurrentInv'
<1>1. CurrentTypeOK
    BY DEF CurrentInv
<1>2. /\ opening' \in [at : OpeningStages, first : BOOLEAN, number : Nat] /\ opening'.at = "closed"
    BY <1>1 DEF CurrentTypeOK, OpeningStages
<1> QED
    BY <1>2 DEF CurrentInv, CurrentTypeOK, OpeningIsNew, ManifestGrows, TempGrows, BeforeRename

LEMMA DiesHolds == ASSUME CurrentInv, Dies PROVE CurrentInv'
<1>0. CurrentTypeOK /\ DirectoriesAreRight
    BY DEF CurrentInv
<1>1. /\ opening' = [opening EXCEPT !.at = "closed"] /\ dirs' = dirs
      /\ files' = [i \in DOMAIN files |-> [files[i] EXCEPT !.buffer = 0]]
    BY DEF Dies
<1>2. \A f \in FileType : [f EXCEPT !.buffer = 0] \in FileType
    BY DEF FileType
<1>3. files' \in Seq(FileType) /\ DOMAIN files' = DOMAIN files
    <2>1. DOMAIN files = 1 .. Len(files) /\ Len(files) \in Nat /\ \A i \in DOMAIN files : files[i] \in FileType
        BY <1>0 DEF CurrentTypeOK
    <2> QED
        BY <2>1, <1>1, <1>2
<1>4. ASSUME NEW d \in ToSet(dirs), NEW f \in DOMAIN d
      PROVE  /\ d[f] \in DOMAIN files'
             /\ files'[d[f]].number = files[d[f]].number
             /\ files'[d[f]].disk >= files[d[f]].disk /\ files'[d[f]].cache >= files'[d[f]].disk
             /\ IF IsManifest(f) THEN files'[d[f]].buffer = 0
                ELSE files'[d[f]].buffer + files'[d[f]].cache <= 1
    <2>1. NamesAreRight(d)
        BY <1>0 DEF DirectoriesAreRight
    <2>2. d[f] \in DOMAIN files /\ files[d[f]] \in FileType
        BY <2>1, <1>0 DEF NamesAreRight, CurrentTypeOK
    <2>3. files'[d[f]] = [files[d[f]] EXCEPT !.buffer = 0]
        BY <2>2, <1>1
    <2> QED
        BY <2>1, <2>2, <2>3, <1>3 DEF NamesAreRight, FileType
<1>5. DirectoriesAreRight' /\ KindsAreApart' /\ CurrentNamesAManifest'
    BY <1>1, <1>3, <1>4, FilesWritten
<1> QED
    BY <1>0, <1>1, <1>3, <1>5, ClosedHolds DEF CurrentTypeOK

\* A loss of power leaves one of dirs, its files as they were synced.
LEMMA LosesPowerHolds == ASSUME CurrentInv, LosesPower PROVE CurrentInv'
<1> DEFINE unsynced == {i \in DOMAIN files : files[i].disk < files[i].cache}
<1>0. CurrentTypeOK /\ DirectoriesAreRight
    BY DEF CurrentInv
<1>1. PICK d \in ToSet(dirs), kept \in [unsynced -> 0 .. WholeManifest] :
          /\ \A i \in unsynced : kept[i] \in files[i].disk .. files[i].cache
          /\ opening' = [opening EXCEPT !.at = "closed"]
          /\ dirs' = <<d>>
          /\ files' = [i \in DOMAIN files |->
                  IF i \notin Range(d) THEN NoFile
                  ELSE IF i \in unsynced THEN [files[i] EXCEPT !.buffer = 0, !.cache = kept[i], !.disk = kept[i]]
                  ELSE [files[i] EXCEPT !.buffer = 0]]
    BY DEF LosesPower
<1>2. \A f \in FileType : [f EXCEPT !.buffer = 0] \in FileType
    BY DEF FileType
<1> DEFINE Kept(f, k) == [f EXCEPT !.buffer = 0, !.cache = k, !.disk = k]
<1>3. ASSUME NEW f \in FileType, NEW k \in 0 .. 2
      PROVE  /\ Kept(f, k) \in FileType /\ Kept(f, k).number = f.number /\ Kept(f, k).buffer = 0
             /\ Kept(f, k).cache = k /\ Kept(f, k).disk = k
    <2>1. Kept(f, k) \in [number : {f.number}, buffer : {0}, cache : {k}, disk : {k}]
        BY DEF FileType
    <2>2. f.number \in Nat
        BY DEF FileType
    <2> HIDE DEF Kept
    <2> QED
        BY <2>1, <2>2 DEF FileType
<1>a. \A i \in DOMAIN files : /\ i \notin Range(d) => files'[i] = NoFile
                              /\ i \in Range(d) /\ i \in unsynced => files'[i] = Kept(files[i], kept[i])
                              /\ i \in Range(d) /\ i \notin unsynced => files'[i] = [files[i] EXCEPT !.buffer = 0]
    BY <1>1
<1>b. DOMAIN files' = DOMAIN files
    BY <1>1
<1> HIDE DEF Kept
<1>4. NoFile \in FileType
    BY DEF FileType, NoFile
<1>5. files' \in Seq(FileType) /\ DOMAIN files' = DOMAIN files
    <2>1. DOMAIN files = 1 .. Len(files) /\ Len(files) \in Nat /\ \A i \in DOMAIN files : files[i] \in FileType
        BY <1>0 DEF CurrentTypeOK
    <2>2. \A i \in unsynced : kept[i] \in 0 .. 2
        BY <1>1 DEF WholeManifest
    <2>3. ASSUME NEW i \in DOMAIN files PROVE files'[i] \in FileType
        <3>1. files[i] \in FileType
            BY <2>1
        <3>2. CASE i \notin Range(d)
            BY <3>2, <1>a, <1>4
        <3>3. CASE i \in Range(d) /\ i \in unsynced
            <4>1. kept[i] \in 0 .. 2
                BY <2>2, <3>3
            <4>2. Kept(files[i], kept[i]) \in FileType
                BY <3>1, <4>1, <1>3
            <4> QED
                BY <4>2, <3>3, <1>a
        <3>4. CASE i \in Range(d) /\ i \notin unsynced
            BY <3>1, <3>4, <1>a, <1>2
        <3> QED
            BY <3>2, <3>3, <3>4
    <2>4. files' = [i \in 1 .. Len(files) |-> files'[i]]
        BY <2>1, <1>1
    <2> QED
        BY <2>1, <2>3, <2>4, <1>b
<1>6. ASSUME NEW f \in DOMAIN d
      PROVE  /\ d[f] \in DOMAIN files'
             /\ files'[d[f]].number = files[d[f]].number
             /\ files'[d[f]].disk >= files[d[f]].disk /\ files'[d[f]].cache >= files'[d[f]].disk
             /\ IF IsManifest(f) THEN files'[d[f]].buffer = 0
                ELSE files'[d[f]].buffer + files'[d[f]].cache <= 1
    <2>1. NamesAreRight(d)
        BY <1>0 DEF DirectoriesAreRight
    <2>2. d[f] \in DOMAIN files /\ files[d[f]] \in FileType /\ d[f] \in Range(d)
        BY <2>1, <1>0 DEF NamesAreRight, CurrentTypeOK, Range
    <2>3. CASE d[f] \in unsynced
        <3>1. kept[d[f]] \in 0 .. 2 /\ kept[d[f]] >= files[d[f]].disk /\ kept[d[f]] <= files[d[f]].cache
            <4>1. kept[d[f]] \in 0 .. 2 /\ kept[d[f]] \in files[d[f]].disk .. files[d[f]].cache
                BY <2>3, <1>1 DEF WholeManifest
            <4> QED
                BY <4>1, <2>2 DEF FileType
        <3>2. LET g == files'[d[f]]
              IN g.number = files[d[f]].number /\ g.buffer = 0 /\ g.cache = kept[d[f]] /\ g.disk = kept[d[f]]
            <4>1. files'[d[f]] = Kept(files[d[f]], kept[d[f]])
                BY <2>2, <2>3, <1>a
            <4> QED
                BY <2>2, <3>1, <4>1, <1>3
        <3>3. files[d[f]].buffer \in 0 .. 1 /\ files[d[f]].cache \in 0 .. 2 /\ files[d[f]].disk \in 0 .. 2
            BY <2>2 DEF FileType
        <3>4. IF IsManifest(f) THEN TRUE ELSE files[d[f]].buffer + files[d[f]].cache <= 1
            BY <2>1 DEF NamesAreRight
        <3> QED
            BY <2>2, <3>1, <3>2, <3>3, <3>4, <1>5
    <2>4. CASE d[f] \notin unsynced
        <3>1. files'[d[f]] = [files[d[f]] EXCEPT !.buffer = 0]
            BY <2>2, <2>4, <1>a
        <3> QED
            BY <2>1, <2>2, <3>1, <1>5 DEF NamesAreRight, FileType
    <2> QED
        BY <2>3, <2>4
<1>7. ToSet(dirs)' = {d}
    <2>1. DOMAIN <<d>> = {1} /\ <<d>>[1] = d
        OBVIOUS
    <2> QED
        BY <2>1, <1>1 DEF ToSet
<1>8. DirectoriesAreRight' /\ KindsAreApart' /\ CurrentNamesAManifest'
    BY <1>5, <1>6, <1>7, FilesWritten
<1>9. dirs' \in Seq(DirectoryType) /\ dirs' # <<>>
    <2>1. d \in DirectoryType
        BY <1>0, DirIsOne
    <2>2. <<d>> \in Seq(DirectoryType) /\ <<d>> # <<>>
        BY <2>1
    <2> QED
        BY <2>2, <1>1
<1> QED
    BY <1>1, <1>5, <1>8, <1>9, ClosedHolds

LEMMA CurrentNextHolds == CurrentInv /\ [CurrentNext]_currentVars => CurrentInv'
<1> SUFFICES ASSUME CurrentInv, [CurrentNext]_currentVars PROVE CurrentInv'
    OBVIOUS
<1>1. CASE CloseDB
    <2>1. opening' = [opening EXCEPT !.at = "closed"] /\ UNCHANGED <<files, dirs>>
        BY <1>1 DEF CloseDB, Then
    <2>2. /\ files' \in Seq(FileType) /\ dirs' \in Seq(DirectoryType) /\ dirs' # <<>>
          /\ DirectoriesAreRight' /\ KindsAreApart' /\ CurrentNamesAManifest'
        BY <2>1 DEF CurrentInv, CurrentTypeOK, DirectoriesAreRight, NamesAreRight, KindsAreApart,
           CurrentNamesAManifest, NumberIn
    <2> QED
        BY <2>1, <2>2, ClosedHolds
<1>2. CASE UNCHANGED currentVars
    BY <1>2 DEF currentVars, CurrentInv, CurrentTypeOK, DirectoriesAreRight, NamesAreRight, KindsAreApart,
       CurrentNamesAManifest, NumberIn, Number, Dir, ManifestGrows, TempGrows, OpeningIsNew
<1> QED
    BY <1>1, <1>2, BeginNewDBHolds, RecoverHolds, ManifestStepHolds, NewTempHolds, TempStepHolds, RenameTempHolds,
       EndNewDBHolds, DeleteObsoleteHolds, FailsHolds, DiesHolds, LosesPowerHolds DEF CurrentNext

\* However often the database is opened, whichever calls fail and wherever the process
\* or the power ends, CURRENT names a manifest that is there and whole, in the directory
\* and in any that a loss of power would leave (SetCurrentFile, LogAndApply, NewDB).
THEOREM CurrentIsWhole == CurrentSpec => []CurrentNamesAManifest
<1>1. CurrentInv => CurrentNamesAManifest
    BY DEF CurrentInv
<1> QED
    BY <1>1, FileInit, CurrentNextHolds, PTL DEF CurrentSpec

-----------------------------------------------------------------------------
(* Repair: what is found can still be read, in place or in lost.  A file goes  *)
(* over another in lost only if it has the number of one archived before.  New *)
(* tables have numbers beyond those in lost as long as a table of no smaller   *)
(* number stands for each of them (NamesAreNew); so one fault at most puts a   *)
(* table over one in lost, and then that table is whole (OneFault).            *)
\* A finite set that is not empty has a first element in any order of its elements.
LEMMA FiniteHasFirst ==
    ASSUME NEW S, IsFiniteSet(S), S # {}, NEW R,
           \A x, y \in S : <<x, y>> \in R \/ <<y, x>> \in R,
           \A x, y, z \in S : <<x, y>> \in R /\ <<y, z>> \in R => <<x, z>> \in R
    PROVE  \E x \in S : \A y \in S : <<x, y>> \in R
<1> DEFINE Bad == {T \in SUBSET S : IsFiniteSet(T) /\ T # {} /\ ~ \E x \in T : \A y \in T : <<x, y>> \in R}
<1>1. SUFFICES ASSUME S \in Bad PROVE FALSE
    OBVIOUS
<1>2. IsWellFoundedOn(StrictSubsetOrdering(S), FiniteSubsetsOf(S))
    BY FS_StrictSubsetOrderingWellFounded
<1>3. Bad \subseteq FiniteSubsetsOf(S) /\ Bad # {}
    BY <1>1 DEF FiniteSubsetsOf
<1>4. PICK T \in Bad : \A U \in Bad : <<U, T>> \notin StrictSubsetOrdering(S)
    <2> HIDE DEF Bad
    <2> QED
        BY <1>2, <1>3, WFMin
<1>5. PICK t : t \in T
    OBVIOUS
<1> DEFINE U == T \ {t}
<1>6. IsFiniteSet(U) /\ U \subseteq T /\ U # T /\ T \subseteq S /\ T # {}
    BY <1>5, FS_Subset
<1>7. U \notin Bad
    <2>1. <<U, T>> \in (SUBSET S) \X (SUBSET S) /\ <<U, T>>[1] = U /\ <<U, T>>[2] = T
        BY <1>6
    <2>2. <<U, T>> \in StrictSubsetOrdering(S)
        BY <2>1, <1>6 DEF StrictSubsetOrdering
    <2> HIDE DEF U, Bad
    <2> QED
        BY <2>2, <1>4
<1>8. CASE U = {}
    BY <1>5, <1>8, <1>6
<1>9. CASE U # {}
    <2>1. PICK x \in U : \A y \in U : <<x, y>> \in R
        BY <1>6, <1>7, <1>9
    <2>2. CASE <<x, t>> \in R
        <3>1. \A y \in T : <<x, y>> \in R
            BY <2>1, <2>2
        <3> QED
            BY <2>1, <3>1
    <2>3. CASE <<t, x>> \in R
        <3>1. \A y \in T : <<t, y>> \in R
            BY <2>1, <2>3, <1>5, <1>6
        <3> QED
            BY <1>5, <3>1
    <2> QED
        BY <2>1, <2>2, <2>3, <1>5, <1>6
<1> QED
    BY <1>8, <1>9

\* Max is the greatest of a finite set of numbers.
LEMMA MaxIsGreatest ==
    ASSUME NEW S \in SUBSET Int, IsFiniteSet(S), S # {}
    PROVE  Max(S) \in S /\ \A x \in S : x <= Max(S)
<1> DEFINE R == {p \in S \X S : p[1] >= p[2]}
<1>1. \A x, y \in S : <<x, y>> \in R <=> x >= y
    OBVIOUS
<1>2. \E x \in S : \A y \in S : <<x, y>> \in R
    <2>1. ASSUME NEW x \in S, NEW y \in S
          PROVE  <<x, y>> \in R \/ <<y, x>> \in R
        <3>1. x >= y \/ y >= x
            OBVIOUS
        <3> QED
            BY <1>1, <3>1
    <2>2. ASSUME NEW x \in S, NEW y \in S, NEW z \in S, <<x, y>> \in R, <<y, z>> \in R
          PROVE  <<x, z>> \in R
        <3>1. x >= y /\ y >= z /\ x \in Int /\ y \in Int /\ z \in Int
            BY <1>1, <2>2
        <3>2. x >= z
            BY <3>1
        <3> QED
            BY <1>1, <3>2
    <2> HIDE DEF R
    <2> QED
        BY <2>1, <2>2, FiniteHasFirst
<1>3. \E x \in S : \A y \in S : x >= y
    BY <1>1, <1>2
<1> QED
    BY <1>3 DEF Max

Copying == {"copied", "archived", "finished"}
RepairStages == {"idle", "logs", "converted", "copy", "described", "done"} \cup Copying
RepairerType == [at : RepairStages, logs : SUBSET Nat, tables : SUBSET (Nat \ {0}), file : Nat, copy : Nat,
                 scanned : EntrySets, read : EntrySets, misread : BOOLEAN, listed : SUBSET Nat,
                 next : Nat \ {0}, max_sequence : Nat]
LostNames == {"log", "table"} \X Nat
Found(d) == d \in [DOMAIN d -> RepairFile]

RepairTypeOK ==
    /\ Found(dir) /\ DOMAIN dir \subseteq Nat \ {0} /\ IsFiniteSet(DOMAIN dir)
    /\ Found(lost_dir) /\ DOMAIN lost_dir \subseteq LostNames
    /\ repair \in RepairerType
    /\ repair_calls \in Nat /\ repair_faults \in Nat /\ unarchived \in BOOLEAN

LogIsLost(n) == <<"log", n>> \in DOMAIN lost_dir
TableIsLost(n) == <<"table", n>> \in DOMAIN lost_dir
WholeTable(n) == dir[n].kind = "table" /\ dir[n].state = "whole"
IsCopy(n) == repair.at \in Copying /\ n = repair.copy
Moved == repair.at \in {"archived", "finished"}

\* What the Repairer knows of the directory.
RepairerKnows ==
    /\ repair.at # "idle" => \A n \in DOMAIN dir \cup repair.tables : n < repair.next
    /\ \A n \in repair.logs : n \in DOMAIN dir /\ dir[n].kind = "log"
    /\ \A n \in repair.tables :
          \/ n \in DOMAIN dir /\ dir[n].kind = "table"
          \/ n = repair.file /\ Moved
    /\ \A n \in repair.listed :
          /\ n \in DOMAIN dir /\ WholeTable(n)
          /\ ~repair.misread => \A e \in dir[n].entries : e <= repair.max_sequence
    /\ repair.tables \cap repair.listed = {}
    /\ repair.at \notin {"logs", "converted"} => repair.logs = {}
    /\ repair.at \in {"idle", "described", "done"} => repair.tables = {}
    /\ repair.at = "idle" => repair.listed = {}
    /\ repair.at = "converted" => repair.file \in repair.logs
    /\ repair.at \in {"copy"} \cup Copying => repair.file \in repair.tables
    /\ repair.at = "copy" /\ ~repair.misread =>
          repair.scanned = dir[repair.file].entries /\ ~WholeTable(repair.file)
    /\ repair.at \in Copying /\ ~repair.misread => repair.read \subseteq repair.scanned
    /\ repair_faults = 0 => ~repair.misread
    /\ repair.at = "done" =>
          descriptor = [listed |-> repair.listed, next |-> repair.next, last |-> repair.max_sequence]

\* The copy of a table that is repaired.
CopyIsKnown ==
    repair.at \in Copying =>
        /\ repair.copy \in DOMAIN dir /\ repair.copy \notin repair.listed
        /\ \A n \in repair.tables : n < repair.copy
        /\ dir[repair.copy] = IF repair.at = "finished" THEN Table(repair.read, "whole")
                                                        ELSE Table({}, "unfinished")

Kept(numbers) == UNION {dir[n].entries : n \in numbers \cap DOMAIN dir}
InHand == repair.logs \cup repair.tables \cup repair.listed

\* Without a fault all that is not in hand is empty.
AllIsInHand ==
    repair_faults = 0 =>
        /\ repair.at = "idle" => at_first = Readable(dir)
        /\ repair.at # "idle" =>
              /\ at_first = Kept(InHand) \cup (IF repair.at \in Copying THEN repair.read ELSE {})
              /\ \A n \in DOMAIN dir \ InHand :
                    (repair.at = "finished" /\ n = repair.copy) \/ dir[n].entries = {}
        /\ repair.at = "converted" => dir[repair.file].entries \subseteq Kept(repair.tables)
        /\ repair.at = "copied" => dir[repair.file].entries = repair.read
        /\ Moved => /\ repair.file \notin DOMAIN dir /\ TableIsLost(repair.file)
                    /\ lost_dir[<<"table", repair.file>>].entries = repair.read

\* With one nothing is lost: a table that lost has too is whole, so that only a scan
\* that failed, the one fault, can put it over what lost has.
OneFault ==
    /\ \A n \in DOMAIN dir : dir[n].kind = "log" => ~LogIsLost(n)
    /\ repair_faults <= 1 =>
          /\ at_first \subseteq Readable(dir) \cup Readable(lost_dir)
          /\ \A n \in DOMAIN dir : dir[n].kind = "table" /\ TableIsLost(n) => WholeTable(n)
          /\ repair.at \in {"copy", "copied"} /\ WholeTable(repair.file) => at_first \subseteq Readable(dir)
          /\ Moved /\ repair.file \in DOMAIN dir => dir[repair.file].entries \subseteq repair.read

LostBelow(n) == \A m \in Nat : TableIsLost(m) => m < n
\* A table of that number is there, or comes back when the copy of it gets its name.
Stands(n) ==
    \/ n \in DOMAIN dir /\ dir[n].kind = "table" /\ ~IsCopy(n)
    \/ repair.at \in Copying /\ n = repair.file
Covered == \A m \in Nat : TableIsLost(m) => \E n \in Nat : Stands(n) /\ m <= n
\* What the Repairer is done with.
Leftover(n) == n \in DOMAIN dir /\ n \notin repair.logs \cup repair.tables /\ ~IsCopy(n)
AllWhole ==
    /\ repair.at \in {"logs", "described", "done"} /\ repair.logs = {}
    /\ \A n \in DOMAIN dir : WholeTable(n)

\* Why a new table never gets the number of one in lost: a table of no smaller number
\* is still there, or nothing is left that will have to be replaced.
NamesAreNew ==
    repair_faults <= 1 =>
        /\ repair.at # "idle" => LostBelow(repair.next) \/ (repair_faults = 1 /\ AllWhole)
        /\ repair.at \in Copying => LostBelow(repair.copy)
        /\ Covered \/ (repair_faults = 1 /\ repair.at # "idle" /\ \A n : Leftover(n) => WholeTable(n))
        /\ repair_faults = 0 /\ repair.at # "idle" =>
              \A n : Leftover(n) =>
                 /\ repair.logs = {} /\ dir[n].kind = "table"
                 /\ WholeTable(n) \/ (LostBelow(n) /\ \A m \in repair.tables : m < n)

\* One call that can move what it replaces never puts two files in one place of lost.
OneCall ==
    repair_calls <= 1 /\ ~unarchived =>
        /\ repair_calls = 0 => repair.at = "idle" /\ \A n : ~LogIsLost(n) /\ ~TableIsLost(n)
        /\ at_first \subseteq Kept({n \in DOMAIN dir : ~IsCopy(n)}) \cup Readable(lost_dir)
        /\ repair.at # "idle" => \A n \in Nat : LogIsLost(n) \/ TableIsLost(n) => n < repair.next
        /\ \A n \in repair.tables : n \in DOMAIN dir => ~TableIsLost(n)
        /\ Moved => repair.file \notin DOMAIN dir

RepairInv ==
    /\ RepairTypeOK /\ RepairerKnows /\ CopyIsKnown /\ AllIsInHand
    /\ OneFault /\ NamesAreNew /\ OneCall

\* A directory without one of its files, and the first state.
LEMMA WithoutFileIs ==
    ASSUME NEW fs, NEW n
    PROVE  /\ DOMAIN WithoutFile(fs, n) = DOMAIN fs \ {n}
           /\ \A m \in DOMAIN fs \ {n} : WithoutFile(fs, n)[m] = fs[m]
           /\ Found(fs) => Found(WithoutFile(fs, n))
BY DEF WithoutFile, Restrict, Found

LEMMA RepairInitHolds == RepairInit => RepairInv
<1> SUFFICES ASSUME RepairInit PROVE RepairInv
    OBVIOUS
<1>1. /\ DOMAIN dir \subseteq Nat \ {0} /\ IsFiniteSet(DOMAIN dir) /\ Found(dir)
      /\ lost_dir = <<>> /\ repair = NoRepair /\ repair_calls = 0 /\ repair_faults = 0
      /\ at_first = Readable(dir) /\ unarchived = FALSE
    BY RepairAssumption DEF RepairInit, RepairInitFrom, Found
<1>2. {} \in EntrySets
    BY FS_EmptySet DEF EntrySets
<1>3. DOMAIN lost_dir = {} /\ Found(lost_dir)
    BY <1>1 DEF Found
<1>4. RepairTypeOK
    <2>1. repair \in RepairerType
        BY <1>1, <1>2 DEF NoRepair, RepairStages, RepairerType
    <2> QED
        BY <1>1, <1>3, <2>1 DEF RepairTypeOK
<1>5. RepairerKnows /\ CopyIsKnown
    BY <1>1 DEF RepairerKnows, CopyIsKnown, NoRepair, Copying, Moved
<1>6. \A n : ~LogIsLost(n) /\ ~TableIsLost(n)
    BY <1>3 DEF LogIsLost, TableIsLost
<1>7. repair.at = "idle" /\ repair.logs = {} /\ repair.tables = {}
    BY <1>1 DEF NoRepair
<1>8. AllIsInHand /\ OneFault /\ NamesAreNew
    BY <1>1, <1>6, <1>7 DEF AllIsInHand, OneFault, NamesAreNew, Moved, Copying, Covered
<1>9. OneCall
    BY <1>1, <1>6, <1>7 DEF OneCall, Moved, IsCopy, Copying, Kept, Readable
<1> QED
    BY <1>4, <1>5, <1>8, <1>9 DEF RepairInv

\* A log or a table that a step leaves in lost, or does not put there.
LEMMA LostStays ==
    ASSUME lost_dir' = lost_dir
    PROVE  /\ \A n : LogIsLost(n)' <=> LogIsLost(n)
           /\ \A n : TableIsLost(n)' <=> TableIsLost(n)
           /\ \A n : LostBelow(n)' <=> LostBelow(n)
BY DEF LogIsLost, TableIsLost, LostBelow

LEMMA FindFilesHolds == ASSUME RepairInv, FindFiles PROVE RepairInv'
<1> DEFINE top == Max({0} \cup DOMAIN dir)
<1>1. /\ repair.at \in {"idle", "done"} /\ repair_calls' = repair_calls + 1
      /\ repair' = [NoRepair EXCEPT
                     !.at = "logs",
                     !.logs = {n \in DOMAIN dir : dir[n].kind = "log"},
                     !.tables = {n \in DOMAIN dir : dir[n].kind = "table"},
                     !.next = 1 + top]
      /\ dir' = dir /\ lost_dir' = lost_dir /\ descriptor' = descriptor /\ at_first' = at_first
      /\ repair_faults' = repair_faults /\ unarchived' = unarchived
    BY DEF FindFiles, NoFault, DirectoriesStay
<1>2. RepairTypeOK /\ RepairerKnows /\ AllIsInHand /\ OneFault /\ NamesAreNew /\ OneCall
    BY DEF RepairInv
<1>3. /\ Found(dir) /\ IsFiniteSet(DOMAIN dir) /\ DOMAIN dir \subseteq Nat \ {0}
      /\ repair_calls \in Nat /\ repair_faults \in Nat
    BY <1>2 DEF RepairTypeOK
<1>4. top \in Nat /\ \A n \in DOMAIN dir : n <= top
    <2> DEFINE S == {0} \cup DOMAIN dir
    <2>1. S \subseteq Nat
        BY <1>3
    <2>2. IsFiniteSet(S)
        BY <1>3, FS_AddElement
    <2>3. S # {} /\ DOMAIN dir \subseteq S
        OBVIOUS
    <2>4. S \in SUBSET Int
        BY <2>1
    <2> HIDE DEF S
    <2>5. Max(S) \in S /\ \A n \in S : n <= Max(S)
        BY <2>2, <2>3, <2>4, MaxIsGreatest
    <2> QED
        BY <2>1, <2>3, <2>5 DEF S
<1> HIDE DEF top
<1>5. /\ repair'.at = "logs" /\ repair'.logs = {n \in DOMAIN dir : dir[n].kind = "log"}
      /\ repair'.tables = {n \in DOMAIN dir : dir[n].kind = "table"} /\ repair'.next = 1 + top
      /\ repair'.listed = {} /\ repair'.misread = FALSE /\ repair' \in RepairerType
    <2>1. {} \in EntrySets
        BY FS_EmptySet DEF EntrySets
    <2>2. repair' = [at |-> "logs", logs |-> {n \in DOMAIN dir : dir[n].kind = "log"},
                     tables |-> {n \in DOMAIN dir : dir[n].kind = "table"}, file |-> 0, copy |-> 0,
                     scanned |-> {}, read |-> {}, misread |-> FALSE, listed |-> {}, next |-> 1 + top,
                     max_sequence |-> 0]
        BY <1>1 DEF NoRepair
    <2>3. 1 + top \in Nat \ {0}
        BY <1>4
    <2> QED
        BY <1>3, <2>1, <2>2, <2>3 DEF RepairStages, RepairerType
<1>6. \A n \in DOMAIN dir : dir[n].kind = "log" \/ dir[n].kind = "table"
    BY <1>3 DEF Found, RepairFile
<1>7. RepairTypeOK'
    BY <1>1, <1>2, <1>5 DEF RepairTypeOK
<1>8. RepairerKnows'
    <2>1. \A n \in DOMAIN dir : n < 1 + top
        BY <1>3, <1>4
    <2>2. /\ \A n \in DOMAIN dir' \cup repair'.tables : n < repair'.next
          /\ \A n \in repair'.logs : n \in DOMAIN dir' /\ dir'[n].kind = "log"
          /\ \A n \in repair'.tables : n \in DOMAIN dir' /\ dir'[n].kind = "table"
        BY <1>1, <1>5, <2>1
    <2> QED
        BY <1>5, <2>2 DEF RepairerKnows, Copying
<1>9. AllIsInHand'
    <2>1. InHand' = DOMAIN dir
        BY <1>5, <1>6 DEF InHand
    <2>2. Kept(InHand)' = Readable(dir)
        BY <2>1, <1>1 DEF Kept, Readable
    <2>3. ASSUME repair_faults = 0 PROVE at_first = Readable(dir)
        <3>1. CASE repair.at = "idle"
            BY <1>2, <2>3, <3>1 DEF AllIsInHand
        <3>2. CASE repair.at = "done"
            <4>1. at_first = Kept(InHand) /\ \A n \in DOMAIN dir \ InHand : dir[n].entries = {}
                BY <1>2, <2>3, <3>2 DEF AllIsInHand, Copying
            <4> QED
                BY <4>1 DEF Kept, Readable
        <3> QED
            BY <3>1, <3>2, <1>1
    <2> QED
        BY <1>1, <1>5, <2>1, <2>2, <2>3 DEF AllIsInHand, Copying, Moved
<1>10. OneFault'
    BY <1>1, <1>2, <1>5, LostStays DEF OneFault, Moved, WholeTable
<1>11. \A n : ~Leftover(n)'
    BY <1>1, <1>5, <1>6 DEF Leftover
<1>12. \A n : Stands(n) <=> n \in DOMAIN dir /\ dir[n].kind = "table"
    BY <1>1 DEF Stands, IsCopy, Copying
<1>13. \A n : Stands(n)' <=> n \in DOMAIN dir /\ dir[n].kind = "table"
    BY <1>1, <1>5 DEF Stands, IsCopy, Copying
<1>14. \A n : TableIsLost(n)' <=> TableIsLost(n)
    BY <1>1, LostStays
<1>15. NamesAreNew'
    <2> SUFFICES ASSUME repair_faults <= 1 PROVE NamesAreNew'
        BY <1>1 DEF NamesAreNew
    <2>1. CASE Covered
        <3>1. ASSUME NEW m \in Nat, TableIsLost(m) PROVE m < 1 + top
            <4>1. PICK n \in Nat : n \in DOMAIN dir /\ m <= n
                BY <2>1, <3>1, <1>12 DEF Covered
            <4> QED
                BY <1>3, <1>4, <4>1
        <3>2. LostBelow(repair.next)'
            BY <1>5, <1>14, <3>1 DEF LostBelow
        <3>3. Covered'
            BY <2>1, <1>12, <1>13, <1>14 DEF Covered
        <3> QED
            BY <1>5, <1>11, <3>2, <3>3 DEF NamesAreNew, Copying
    <2>2. CASE ~Covered
        <3>1. /\ repair_faults = 1 /\ repair.at = "done"
              /\ \A n : Leftover(n) => WholeTable(n)
            BY <1>1, <1>2, <2>2 DEF NamesAreNew
        <3>2. \A n \in DOMAIN dir : WholeTable(n)
            BY <1>2, <3>1 DEF RepairerKnows, Leftover, IsCopy, Copying
        <3>3. AllWhole'
            BY <1>1, <1>5, <3>2 DEF AllWhole, WholeTable
        <3> QED
            BY <1>1, <1>5, <1>11, <3>1, <3>3 DEF NamesAreNew, Copying
    <2> QED
        BY <2>1, <2>2
<1>16. OneCall'
    <2> SUFFICES ASSUME repair_calls' <= 1, ~unarchived' PROVE OneCall'
        BY DEF OneCall
    <2>1. repair_calls = 0 /\ ~unarchived
        BY <1>1, <1>3
    <2>2. /\ \A n : ~LogIsLost(n) /\ ~TableIsLost(n)
          /\ at_first \subseteq Kept({n \in DOMAIN dir : ~IsCopy(n)}) \cup Readable(lost_dir)
        BY <1>2, <2>1 DEF OneCall
    <2>3. \A n : ~LogIsLost(n)' /\ ~TableIsLost(n)'
        BY <1>1, <2>2, LostStays
    <2>4. ASSUME NEW e \in Kept({n \in DOMAIN dir : ~IsCopy(n)}) PROVE e \in Kept({n \in DOMAIN dir : ~IsCopy(n)})'
        BY <1>1, <1>5 DEF Kept, IsCopy, Copying
    <2>5. at_first' \subseteq Kept({n \in DOMAIN dir : ~IsCopy(n)})' \cup Readable(lost_dir)'
        BY <1>1, <2>2, <2>4 DEF Readable
    <2>6. repair_calls' # 0
        BY <1>1, <1>3
    <2>7. ~Moved'
        BY <1>5 DEF Moved
    <2> QED
        BY <2>3, <2>5, <2>6, <2>7 DEF OneCall
<1> QED
    BY <1>5, <1>7, <1>8, <1>9, <1>10, <1>15, <1>16 DEF RepairInv, CopyIsKnown, Copying

\* A directory with another table.
LEMMA AddedIs ==
    ASSUME RepairTypeOK, NEW k \in Nat \ {0}, NEW S \in EntrySets, NEW st \in {"whole", "unfinished"},
           dir' = WithFile(dir, k, Table(S, st))
    PROVE  /\ DOMAIN dir' = DOMAIN dir \cup {k} /\ \A m \in DOMAIN dir \ {k} : dir'[m] = dir[m]
           /\ dir'[k] = Table(S, st)
           /\ dir'[k].kind = "table" /\ dir'[k].entries = S /\ dir'[k].state = st
           /\ Found(dir') /\ IsFiniteSet(DOMAIN dir') /\ DOMAIN dir' \subseteq Nat \ {0}
<1> DEFINE f == Table(S, st)
<1>1. f \in RepairFile /\ f.kind = "table" /\ f.entries = S /\ f.state = st
    BY DEF RepairFile, Table
<1> HIDE DEF f
<1>2. /\ Found(dir) /\ IsFiniteSet(DOMAIN dir) /\ DOMAIN dir \subseteq Nat \ {0}
      /\ dir' = WithFile(dir, k, f)
    BY DEF RepairTypeOK, f
<1>3. /\ DOMAIN dir' = DOMAIN dir \cup {k} /\ dir'[k] = f
      /\ \A m \in DOMAIN dir \ {k} : dir'[m] = dir[m]
      /\ Found(dir')
    BY <1>1, <1>2 DEF WithFile, Found
<1>4. IsFiniteSet(DOMAIN dir')
    BY <1>2, <1>3, FS_AddElement
<1> QED
    BY <1>1, <1>2, <1>3, <1>4 DEF f

LEMMA PartsAreSets == ASSUME NEW S \in EntrySets, NEW T \in SUBSET S PROVE T \in EntrySets
BY FS_Subset DEF EntrySets

LEMMA ConvertLogHolds == ASSUME RepairInv, NEW n \in repair.logs, ConvertLog(n) PROVE RepairInv'
<1> DEFINE k == repair.next
<1>1. PICK read \in SUBSET dir[n].entries :
          /\ repair.at = "logs"
          /\ IF read = dir[n].entries THEN repair_faults' = repair_faults
                                      ELSE repair_faults' = repair_faults + 1
          /\ repair' = [repair EXCEPT !.at = "converted", !.file = n, !.next = k + 1,
                                      !.tables = IF read = {} THEN repair.tables ELSE repair.tables \cup {k}]
          /\ dir' = IF read = {} THEN dir ELSE WithFile(dir, k, Table(read, "whole"))
          /\ lost_dir' = lost_dir /\ descriptor' = descriptor /\ unarchived' = unarchived
          /\ repair_calls' = repair_calls /\ at_first' = at_first
    BY DEF ConvertLog, NoFault, Fault
<1>2. RepairTypeOK /\ RepairerKnows /\ AllIsInHand /\ OneFault /\ NamesAreNew /\ OneCall
    BY DEF RepairInv
<1>3. /\ repair \in RepairerType /\ Found(dir) /\ IsFiniteSet(DOMAIN dir) /\ DOMAIN dir \subseteq Nat \ {0}
      /\ repair_calls \in Nat /\ repair_faults \in Nat
    BY <1>2 DEF RepairTypeOK
<1>4. /\ n \in DOMAIN dir /\ dir[n].kind = "log" /\ n \in Nat /\ k \in Nat \ {0} /\ k + 1 \in Nat \ {0}
      /\ \A m \in DOMAIN dir : m < k
    BY <1>1, <1>2, <1>3 DEF RepairerKnows, RepairerType
<1>5. read \in EntrySets
    BY <1>3, <1>4, PartsAreSets DEF Found, RepairFile
<1>6. k \notin DOMAIN dir
    BY <1>4
<1> HIDE DEF k
<1>7. /\ \A m \in DOMAIN dir : m \in DOMAIN dir' /\ dir'[m] = dir[m]
      /\ \A m \in DOMAIN dir' : m \in DOMAIN dir \/ m = k
      /\ read = {} => DOMAIN dir' = DOMAIN dir
      /\ read # {} => /\ k \in DOMAIN dir' /\ dir'[k].kind = "table" /\ dir'[k].entries = read
                      /\ dir'[k].state = "whole"
      /\ Found(dir') /\ IsFiniteSet(DOMAIN dir') /\ DOMAIN dir' \subseteq Nat \ {0}
    <2>1. CASE read = {}
        BY <1>1, <1>3, <2>1
    <2>2. CASE read # {}
        <3>1. dir' = WithFile(dir, k, Table(read, "whole"))
            BY <1>1, <2>2
        <3>2. /\ DOMAIN dir' = DOMAIN dir \cup {k} /\ \A m \in DOMAIN dir \ {k} : dir'[m] = dir[m]
              /\ dir'[k].kind = "table" /\ dir'[k].entries = read /\ dir'[k].state = "whole"
              /\ Found(dir') /\ IsFiniteSet(DOMAIN dir') /\ DOMAIN dir' \subseteq Nat \ {0}
            BY <1>2, <1>4, <1>5, <3>1, AddedIs
        <3> QED
            BY <1>6, <2>2, <3>2
    <2> QED
        BY <2>1, <2>2
<1>8. /\ repair'.at = "converted" /\ repair'.file = n /\ repair'.next = k + 1
      /\ repair'.tables = (IF read = {} THEN repair.tables ELSE repair.tables \cup {k})
      /\ repair'.logs = repair.logs /\ repair'.listed = repair.listed
      /\ repair'.max_sequence = repair.max_sequence /\ repair'.misread = repair.misread
      /\ repair' \in RepairerType
    <2>1. repair.tables \cup {k} \in SUBSET (Nat \ {0})
        BY <1>3, <1>4 DEF RepairerType
    <2>2. repair' \in RepairerType
        BY <1>1, <1>3, <1>4, <2>1 DEF RepairerType, RepairStages
    <2> QED
        BY <1>1, <1>3, <2>2 DEF RepairerType
<1>9. RepairTypeOK'
    <2>1. repair_faults' \in Nat
        BY <1>1, <1>3
    <2> QED
        BY <1>1, <1>2, <1>7, <1>8, <2>1 DEF RepairTypeOK
<1>10. /\ \A m \in repair.tables : m \in DOMAIN dir /\ dir[m].kind = "table"
       /\ \A m \in repair.listed : m \in DOMAIN dir
       /\ \A m \in repair.logs : m \in DOMAIN dir /\ dir[m].kind = "log"
    BY <1>1, <1>2 DEF RepairerKnows, Moved
<1>11. RepairerKnows'
    <2>1. \A m \in DOMAIN dir' \cup repair'.tables : m < k + 1
        BY <1>3, <1>4, <1>7, <1>8, <1>10
    <2>2. /\ \A m \in repair'.logs : m \in DOMAIN dir' /\ dir'[m].kind = "log"
          /\ \A m \in repair'.tables : m \in DOMAIN dir' /\ dir'[m].kind = "table"
        BY <1>7, <1>8, <1>10
    <2>3. \A m \in repair'.listed :
             /\ m \in DOMAIN dir' /\ WholeTable(m)'
             /\ ~repair'.misread => \A e \in dir'[m].entries : e <= repair'.max_sequence
        BY <1>2, <1>7, <1>8, <1>10 DEF RepairerKnows, WholeTable
    <2>4. repair'.tables \cap repair'.listed = {} /\ (repair_faults' = 0 => ~repair'.misread)
        <3>1. repair_faults' = 0 => repair_faults = 0
            BY <1>1, <1>3
        <3> QED
            BY <1>2, <1>6, <1>8, <1>10, <3>1 DEF RepairerKnows
    <2> QED
        BY <1>8, <2>1, <2>2, <2>3, <2>4 DEF RepairerKnows, Copying
<1>12. AllIsInHand'
    <2> SUFFICES ASSUME repair_faults' = 0 PROVE AllIsInHand'
        BY DEF AllIsInHand
    <2>1. repair_faults = 0 /\ read = dir[n].entries
        BY <1>1, <1>3
    <2>2. at_first = Kept(InHand) /\ \A m \in DOMAIN dir \ InHand : dir[m].entries = {}
        BY <1>1, <1>2, <2>1 DEF AllIsInHand, Copying
    <2>3. InHand' = IF read = {} THEN InHand ELSE InHand \cup {k}
        BY <1>8 DEF InHand
    <2>4. n \in InHand
        BY DEF InHand
    <2>5. Kept(InHand)' = Kept(InHand)
        <3>1. ASSUME NEW e PROVE e \in Kept(InHand)' <=> e \in Kept(InHand)
            BY <1>4, <1>6, <1>7, <2>1, <2>3, <2>4 DEF Kept
        <3> QED
            BY <3>1
    <2>6. \A m \in DOMAIN dir' \ InHand' : dir'[m].entries = {}
        BY <1>7, <2>2, <2>3
    <2>7. dir'[n].entries \subseteq Kept(repair.tables)'
        BY <1>4, <1>7, <1>8, <2>1 DEF Kept
    <2> QED
        BY <1>1, <1>8, <2>2, <2>5, <2>6, <2>7 DEF AllIsInHand, Copying, Moved
<1>13. repair_faults' <= 1 => repair_faults <= 1
    BY <1>1, <1>3
<1>14. OneFault'
    <2>1. \A m \in DOMAIN dir' : dir'[m].kind = "log" => ~LogIsLost(m)'
        BY <1>1, <1>2, <1>7, LostStays DEF OneFault
    <2>2. \A m \in DOMAIN dir' : dir'[m].kind = "table" /\ TableIsLost(m)' /\ repair_faults <= 1 => WholeTable(m)'
        BY <1>1, <1>2, <1>7, LostStays DEF OneFault, WholeTable
    <2>3. repair_faults <= 1 => at_first' \subseteq Readable(dir') \cup Readable(lost_dir')
        BY <1>1, <1>2, <1>7 DEF OneFault, Readable
    <2> QED
        BY <1>8, <1>13, <2>1, <2>2, <2>3 DEF OneFault, Moved
<1>15. NamesAreNew'
    <2> SUFFICES ASSUME repair_faults <= 1 PROVE NamesAreNew'
        BY <1>13 DEF NamesAreNew
    <2>1. LostBelow(k)
        BY <1>1, <1>2 DEF NamesAreNew, AllWhole, k
    <2>2. LostBelow(repair.next)'
        BY <1>1, <1>4, <1>8, <2>1, LostStays DEF LostBelow
    <2>3. \A m : TableIsLost(m)' <=> TableIsLost(m)
        BY <1>1, LostStays
    <2>4. \A m \in Nat : Stands(m) => Stands(m)'
        BY <1>1, <1>7, <1>8 DEF Stands, IsCopy, Copying
    <2>5. Covered => Covered'
        BY <2>3, <2>4 DEF Covered
    <2>6. \A m : Leftover(m)' => Leftover(m) /\ dir'[m] = dir[m]
        BY <1>1, <1>7, <1>8 DEF Leftover, IsCopy, Copying
    <2>7. CASE Covered
        <3>1. repair_faults' = 0 => \A m : ~Leftover(m)
            <4>1. repair_faults' = 0 => repair_faults = 0
                BY <1>1, <1>3
            <4> QED
                BY <1>1, <1>2, <4>1 DEF NamesAreNew
        <3> QED
            BY <1>8, <2>2, <2>5, <2>6, <2>7, <3>1 DEF NamesAreNew, Copying
    <2>8. CASE ~Covered
        <3>1. repair_faults = 1 /\ \A m : Leftover(m) => WholeTable(m)
            BY <1>2, <2>8 DEF NamesAreNew
        <3>2. repair_faults' <= 1 => repair_faults' = 1
            BY <1>1, <3>1
        <3>3. \A m : Leftover(m)' => WholeTable(m)'
            BY <2>6, <3>1 DEF WholeTable
        <3> QED
            BY <1>8, <2>2, <3>2, <3>3 DEF NamesAreNew, Copying
    <2> QED
        BY <2>7, <2>8
<1>16. OneCall'
    <2> SUFFICES ASSUME repair_calls <= 1, ~unarchived PROVE OneCall'
        BY <1>1 DEF OneCall
    <2>1. /\ repair_calls # 0
          /\ at_first \subseteq Kept({m \in DOMAIN dir : ~IsCopy(m)}) \cup Readable(lost_dir)
          /\ \A m \in Nat : LogIsLost(m) \/ TableIsLost(m) => m < k
          /\ \A m \in repair.tables : m \in DOMAIN dir => ~TableIsLost(m)
        BY <1>1, <1>2 DEF OneCall, k
    <2>2. \A m : (LogIsLost(m)' <=> LogIsLost(m)) /\ (TableIsLost(m)' <=> TableIsLost(m))
        BY <1>1, LostStays
    <2>3. Kept({m \in DOMAIN dir : ~IsCopy(m)}) \subseteq Kept({m \in DOMAIN dir : ~IsCopy(m)})'
        BY <1>7, <1>8 DEF Kept, IsCopy, Copying
    <2>4. at_first' \subseteq Kept({m \in DOMAIN dir : ~IsCopy(m)})' \cup Readable(lost_dir)'
        BY <1>1, <2>1, <2>3 DEF Readable
    <2>5. \A m \in Nat : LogIsLost(m)' \/ TableIsLost(m)' => m < repair'.next
        BY <1>4, <1>8, <2>1, <2>2
    <2>6. \A m \in repair'.tables : m \in DOMAIN dir' => ~TableIsLost(m)'
        <3>1. ~TableIsLost(k)
            BY <1>4, <2>1
        <3> QED
            BY <1>8, <1>10, <2>1, <2>2, <3>1
    <2> QED
        BY <1>1, <1>8, <2>1, <2>4, <2>5, <2>6 DEF OneCall, Moved
<1> QED
    BY <1>8, <1>9, <1>11, <1>12, <1>14, <1>15, <1>16 DEF RepairInv, CopyIsKnown, Copying

LEMMA ConvertFailsHolds == ASSUME RepairInv, NEW n \in repair.logs, ConvertFails(n) PROVE RepairInv'
<1>1. /\ repair.at = "logs"
      /\ repair' = [repair EXCEPT !.at = "converted", !.file = n, !.next = repair.next + 1]
      /\ dir' = dir /\ lost_dir' = lost_dir /\ unarchived' = unarchived /\ descriptor' = descriptor
      /\ repair_calls' = repair_calls /\ at_first' = at_first /\ repair_faults' = repair_faults + 1
    BY DEF ConvertFails, Fault, DirectoriesStay
<1>2. RepairTypeOK /\ RepairerKnows /\ OneFault /\ NamesAreNew /\ OneCall
    BY DEF RepairInv
<1>3. /\ repair \in RepairerType /\ DOMAIN dir \subseteq Nat \ {0} /\ repair_faults \in Nat
      /\ repair.next \in Nat \ {0} /\ repair.next + 1 \in Nat \ {0} /\ repair.tables \subseteq Nat /\ n \in Nat
    BY <1>2 DEF RepairTypeOK, RepairerType
<1>4. /\ repair'.at = "converted" /\ repair'.file = n /\ repair'.next = repair.next + 1
      /\ repair'.tables = repair.tables /\ repair'.misread = repair.misread
      /\ repair'.logs = repair.logs /\ repair'.listed = repair.listed
      /\ repair'.max_sequence = repair.max_sequence /\ repair' \in RepairerType
    <2>1. repair' \in RepairerType
        BY <1>1, <1>3 DEF RepairerType, RepairStages
    <2> QED
        BY <1>1, <1>3, <2>1 DEF RepairerType
<1>5. RepairTypeOK'
    BY <1>1, <1>2, <1>3, <1>4 DEF RepairTypeOK
<1>6. RepairerKnows'
    <2>1. \A m \in DOMAIN dir \cup repair.tables : m < repair.next + 1
        BY <1>1, <1>2, <1>3 DEF RepairerKnows
    <2>2. \A m \in repair.tables : m \in DOMAIN dir /\ dir[m].kind = "table"
        BY <1>1, <1>2 DEF RepairerKnows, Moved
    <2>3. repair_faults' # 0
        BY <1>1, <1>3
    <2> QED
        BY <1>1, <1>2, <1>4, <2>1, <2>2, <2>3 DEF RepairerKnows, Copying, WholeTable
<1>7. repair_faults' <= 1 => repair_faults = 0 /\ repair_faults' = 1
    BY <1>1, <1>3
<1>8. \A m : (LogIsLost(m)' <=> LogIsLost(m)) /\ (TableIsLost(m)' <=> TableIsLost(m))
    BY <1>1, LostStays
<1>9. OneFault'
    BY <1>1, <1>2, <1>4, <1>7, <1>8 DEF OneFault, Moved, WholeTable
<1>10. NamesAreNew'
    <2> SUFFICES ASSUME repair_faults = 0, repair_faults' = 1 PROVE NamesAreNew'
        BY <1>7 DEF NamesAreNew
    <2>1. LostBelow(repair.next) /\ Covered
        BY <1>1, <1>2 DEF NamesAreNew
    <2>2. LostBelow(repair.next)'
        BY <1>3, <1>4, <1>8, <2>1 DEF LostBelow
    <2>3. Covered'
        BY <1>1, <1>4, <1>8, <2>1 DEF Covered, Stands, IsCopy, Copying
    <2> QED
        BY <1>4, <2>2, <2>3 DEF NamesAreNew, Copying
<1>11. OneCall'
    <2> SUFFICES ASSUME repair_calls <= 1, ~unarchived PROVE OneCall'
        BY <1>1 DEF OneCall
    <2>1. /\ repair_calls # 0
          /\ at_first \subseteq Kept({m \in DOMAIN dir : ~IsCopy(m)}) \cup Readable(lost_dir)
          /\ \A m \in Nat : LogIsLost(m) \/ TableIsLost(m) => m < repair.next
          /\ \A m \in repair.tables : m \in DOMAIN dir => ~TableIsLost(m)
        BY <1>1, <1>2 DEF OneCall
    <2>2. at_first' \subseteq Kept({m \in DOMAIN dir : ~IsCopy(m)})' \cup Readable(lost_dir)'
        BY <1>1, <1>4, <2>1 DEF Readable, Kept, IsCopy, Copying
    <2>3. \A m \in Nat : LogIsLost(m)' \/ TableIsLost(m)' => m < repair'.next
        BY <1>3, <1>4, <1>8, <2>1
    <2> QED
        BY <1>1, <1>4, <1>8, <2>1, <2>2, <2>3 DEF OneCall, Moved
<1>12. AllIsInHand' /\ CopyIsKnown'
    BY <1>1, <1>3, <1>4 DEF AllIsInHand, CopyIsKnown, Copying
<1> QED
    BY <1>5, <1>6, <1>9, <1>10, <1>11, <1>12 DEF RepairInv

\* What is moved to lost can be read there, and all the rest where it was, but for
\* what lost had in that place.
LEMMA MovedIs ==
    ASSUME RepairTypeOK, NEW n \in DOMAIN dir, MoveToLost(n)
    PROVE  /\ unarchived' = unarchived
           /\ DOMAIN dir' = DOMAIN dir \ {n} /\ \A m \in DOMAIN dir \ {n} : dir'[m] = dir[m]
           /\ Found(dir') /\ IsFiniteSet(DOMAIN dir') /\ DOMAIN dir' \subseteq Nat \ {0}
           /\ Found(lost_dir') /\ DOMAIN lost_dir' \subseteq LostNames
           /\ lost_dir'[<<dir[n].kind, n>>] = dir[n]
           /\ \A m : LogIsLost(m)' <=> LogIsLost(m) \/ (dir[n].kind = "log" /\ m = n)
           /\ \A m : TableIsLost(m)' <=> TableIsLost(m) \/ (dir[n].kind = "table" /\ m = n)
           /\ dir[n].entries \subseteq Readable(lost_dir')
           /\ Readable(dir) \subseteq Readable(dir') \cup Readable(lost_dir')
           /\ \/ <<dir[n].kind, n>> \in DOMAIN lost_dir
              \/ Readable(lost_dir) \subseteq Readable(lost_dir')
<1> DEFINE name == <<dir[n].kind, n>>
<1>1. dir' = WithoutFile(dir, n) /\ lost_dir' = WithFile(lost_dir, name, dir[n]) /\ unarchived' = unarchived
    BY DEF MoveToLost
<1>2. /\ Found(dir) /\ Found(lost_dir) /\ dir[n] \in RepairFile /\ IsFiniteSet(DOMAIN dir)
      /\ DOMAIN dir \subseteq Nat \ {0} /\ DOMAIN lost_dir \subseteq LostNames
    BY DEF RepairTypeOK, Found
<1>3. name \in LostNames
    BY <1>2 DEF LostNames, RepairFile
<1>4. \A m : (<<"log", m>> = name <=> dir[n].kind = "log" /\ m = n)
             /\ (<<"table", m>> = name <=> dir[n].kind = "table" /\ m = n)
    OBVIOUS
<1> HIDE DEF name
<1>5. DOMAIN dir' = DOMAIN dir \ {n} /\ \A m \in DOMAIN dir \ {n} : dir'[m] = dir[m]
    BY <1>1 DEF WithoutFile, Restrict
<1>6. Found(dir')
    BY <1>2, <1>5, <1>1 DEF Found, WithoutFile, Restrict
<1>7. IsFiniteSet(DOMAIN dir')
    BY <1>2, <1>5, FS_RemoveElement
<1>8. /\ DOMAIN lost_dir' = DOMAIN lost_dir \cup {name} /\ lost_dir'[name] = dir[n]
      /\ \A m \in DOMAIN lost_dir \ {name} : lost_dir'[m] = lost_dir[m]
    BY <1>1 DEF WithFile
<1>9. Found(lost_dir')
    BY <1>1, <1>2 DEF Found, WithFile
<1>10. /\ \A m : LogIsLost(m)' <=> LogIsLost(m) \/ (dir[n].kind = "log" /\ m = n)
       /\ \A m : TableIsLost(m)' <=> TableIsLost(m) \/ (dir[n].kind = "table" /\ m = n)
    BY <1>4, <1>8 DEF LogIsLost, TableIsLost
<1>11. dir[n].entries \subseteq Readable(lost_dir')
    BY <1>8 DEF Readable
<1>12. Readable(dir) \subseteq Readable(dir') \cup Readable(lost_dir')
    BY <1>5, <1>11 DEF Readable
<1>13. name \notin DOMAIN lost_dir => Readable(lost_dir) \subseteq Readable(lost_dir')
    BY <1>8 DEF Readable
<1> QED
    BY <1>1, <1>2, <1>3, <1>5, <1>6, <1>7, <1>8, <1>9, <1>10, <1>11, <1>12, <1>13 DEF name

\* A file that could not be moved is where it was.
LEMMA StuckIs ==
    ASSUME Stuck
    PROVE  /\ dir' = dir /\ lost_dir' = lost_dir /\ unarchived' = TRUE
           /\ \A m : LogIsLost(m)' <=> LogIsLost(m)
           /\ \A m : TableIsLost(m)' <=> TableIsLost(m)
BY LostStays DEF Stuck, DirectoriesStay

LEMMA ArchiveLogHolds == ASSUME RepairInv, ArchiveLog PROVE RepairInv'
<1> DEFINE f == repair.file
<1>1. /\ repair.at = "converted" /\ repair' = [repair EXCEPT !.at = "logs", !.logs = repair.logs \ {f}]
      /\ \/ MoveToLost(f) /\ repair_faults' = repair_faults
         \/ Stuck /\ repair_faults' = repair_faults + 1
      /\ descriptor' = descriptor /\ repair_calls' = repair_calls /\ at_first' = at_first
    BY DEF ArchiveLog, Archive, Fault, NoFault
<1>2. RepairTypeOK /\ RepairerKnows /\ AllIsInHand /\ OneFault /\ NamesAreNew /\ OneCall
    BY DEF RepairInv
<1>3. /\ repair \in RepairerType /\ repair_calls \in Nat /\ repair_faults \in Nat
    BY <1>2 DEF RepairTypeOK
<1>4. f \in repair.logs /\ f \in DOMAIN dir /\ dir[f].kind = "log"
    BY <1>1, <1>2 DEF RepairerKnows
<1>5. /\ repair'.at = "logs" /\ repair'.next = repair.next /\ repair'.tables = repair.tables
      /\ repair'.logs = repair.logs \ {f} /\ repair'.listed = repair.listed
      /\ repair'.max_sequence = repair.max_sequence /\ repair'.misread = repair.misread
      /\ repair' \in RepairerType
    <2>1. repair' \in RepairerType
        BY <1>1, <1>3 DEF RepairerType, RepairStages
    <2> QED
        BY <1>1, <1>3, <2>1 DEF RepairerType
<1>6. /\ \A m \in repair.tables : m \in DOMAIN dir /\ dir[m].kind = "table"
      /\ \A m \in repair.listed : m \in DOMAIN dir /\ dir[m].kind = "table"
    BY <1>1, <1>2 DEF RepairerKnows, Moved, WholeTable
<1>7. LostBelow(repair.next) \/ repair_faults > 1
    BY <1>1, <1>2, <1>3 DEF NamesAreNew, AllWhole
<1>8. CopyIsKnown'
    BY <1>5 DEF CopyIsKnown, Copying
<1>9. \A m \in DOMAIN dir \cup repair.tables : m < repair.next
    BY <1>1, <1>2 DEF RepairerKnows
<1>10. CASE Stuck /\ repair_faults' = repair_faults + 1
    <2>1. /\ dir' = dir /\ lost_dir' = lost_dir /\ unarchived' = TRUE
          /\ \A m : LogIsLost(m)' <=> LogIsLost(m)
          /\ \A m : TableIsLost(m)' <=> TableIsLost(m)
        BY <1>10, StuckIs
    <2>2. RepairTypeOK'
        BY <1>1, <1>2, <1>3, <1>5, <1>10, <2>1 DEF RepairTypeOK
    <2>3. repair_faults' # 0 /\ (repair_faults' <= 1 => repair_faults = 0 /\ repair_faults' = 1)
        BY <1>3, <1>10
    <2>4. RepairerKnows'
        BY <1>1, <1>2, <1>5, <1>6, <2>1, <2>3 DEF RepairerKnows, Copying, WholeTable
    <2>5. OneFault'
        BY <1>1, <1>2, <1>5, <2>1, <2>3 DEF OneFault, Moved, WholeTable
    <2>6. NamesAreNew'
        <3> SUFFICES ASSUME repair_faults = 0, repair_faults' = 1 PROVE NamesAreNew'
            BY <2>3 DEF NamesAreNew
        <3>1. LostBelow(repair.next)' /\ Covered
            BY <1>2, <1>5, <1>7, <2>1 DEF NamesAreNew, LostBelow
        <3>2. Covered'
            BY <1>1, <1>5, <2>1, <3>1 DEF Covered, Stands, IsCopy, Copying
        <3> QED
            BY <1>5, <3>1, <3>2 DEF NamesAreNew, Copying
    <2> QED
        BY <1>8, <2>1, <2>2, <2>3, <2>4, <2>5, <2>6 DEF RepairInv, AllIsInHand, OneCall
<1>11. CASE MoveToLost(f) /\ repair_faults' = repair_faults
    <2> HIDE DEF f
    <2>1. /\ unarchived' = unarchived
          /\ DOMAIN dir' = DOMAIN dir \ {f} /\ \A m \in DOMAIN dir \ {f} : dir'[m] = dir[m]
          /\ Found(dir') /\ IsFiniteSet(DOMAIN dir') /\ DOMAIN dir' \subseteq Nat \ {0}
          /\ Found(lost_dir') /\ DOMAIN lost_dir' \subseteq LostNames
          /\ \A m : LogIsLost(m)' <=> LogIsLost(m) \/ m = f
          /\ \A m : TableIsLost(m)' <=> TableIsLost(m)
          /\ Readable(dir) \subseteq Readable(dir') \cup Readable(lost_dir')
          /\ LogIsLost(f) \/ Readable(lost_dir) \subseteq Readable(lost_dir')
        <3>1. dir[f].kind = "log" /\ dir[f].kind # "table" /\ (<<dir[f].kind, f>> \in DOMAIN lost_dir => LogIsLost(f))
            BY <1>4 DEF LogIsLost
        <3> QED
            BY <1>2, <1>4, <1>11, <3>1, MovedIs
    <2>2. RepairTypeOK'
        BY <1>1, <1>2, <1>3, <1>5, <1>11, <2>1 DEF RepairTypeOK
    <2>3. f \notin repair.tables /\ f \notin repair.listed
        BY <1>4, <1>6
    <2>4. RepairerKnows'
        BY <1>1, <1>2, <1>5, <1>6, <1>11, <2>1, <2>3 DEF RepairerKnows, Copying, WholeTable
    <2>5. ~LogIsLost(f)
        BY <1>2, <1>4 DEF OneFault
    <2>6. OneFault'
        <3>1. \A m \in DOMAIN dir' : dir'[m].kind = "log" => ~LogIsLost(m)'
            BY <1>2, <2>1 DEF OneFault
        <3>2. repair_faults <= 1 =>
                 /\ at_first' \subseteq Readable(dir') \cup Readable(lost_dir')
                 /\ \A m \in DOMAIN dir' : dir'[m].kind = "table" /\ TableIsLost(m)' => WholeTable(m)'
            BY <1>1, <1>2, <2>1, <2>5 DEF OneFault, WholeTable
        <3> QED
            BY <1>5, <1>11, <3>1, <3>2 DEF OneFault, Moved
    <2>7. NamesAreNew'
        <3> SUFFICES ASSUME repair_faults <= 1 PROVE NamesAreNew'
            BY <1>11 DEF NamesAreNew
        <3>1. LostBelow(repair.next)'
            BY <1>3, <1>5, <1>7, <2>1 DEF LostBelow
        <3>2. \A m \in Nat : Stands(m) => Stands(m)'
            BY <1>1, <1>4, <1>5, <2>1 DEF Stands, IsCopy, Copying
        <3>3. Covered => Covered'
            BY <2>1, <3>2 DEF Covered
        <3>4. \A m : Leftover(m)' => Leftover(m) /\ dir'[m] = dir[m]
            BY <1>1, <1>5, <2>1 DEF Leftover, IsCopy, Copying
        <3>5. repair_faults = 0 => Covered /\ \A m : ~Leftover(m)
            BY <1>1, <1>2, <1>4 DEF NamesAreNew
        <3>6. ~Covered => repair_faults = 1 /\ \A m : Leftover(m) => WholeTable(m)
            BY <1>2 DEF NamesAreNew
        <3>7. ~Covered => \A m : Leftover(m)' => WholeTable(m)'
            BY <3>4, <3>6 DEF WholeTable
        <3> QED
            BY <1>5, <1>11, <3>1, <3>3, <3>4, <3>5, <3>6, <3>7 DEF NamesAreNew, Copying
    <2>8. OneCall'
        <3> SUFFICES ASSUME repair_calls <= 1, ~unarchived PROVE OneCall'
            BY <1>1, <2>1 DEF OneCall
        <3>1. /\ repair_calls # 0
              /\ at_first \subseteq Kept({m \in DOMAIN dir : ~IsCopy(m)}) \cup Readable(lost_dir)
              /\ \A m \in Nat : LogIsLost(m) \/ TableIsLost(m) => m < repair.next
              /\ \A m \in repair.tables : m \in DOMAIN dir => ~TableIsLost(m)
            BY <1>1, <1>2 DEF OneCall
        <3>2. Kept({m \in DOMAIN dir : ~IsCopy(m)}) \subseteq Readable(dir)
            BY DEF Kept, Readable
        <3>3. Readable(dir') \subseteq Kept({m \in DOMAIN dir : ~IsCopy(m)})'
            BY <1>5 DEF Kept, Readable, IsCopy, Copying
        <3>4. at_first' \subseteq Kept({m \in DOMAIN dir : ~IsCopy(m)})' \cup Readable(lost_dir')
            BY <1>1, <2>1, <2>5, <3>1, <3>2, <3>3
        <3>5. \A m \in Nat : LogIsLost(m)' \/ TableIsLost(m)' => m < repair'.next
            BY <1>4, <1>5, <1>9, <2>1, <3>1
        <3> QED
            BY <1>1, <1>5, <1>9, <2>1, <3>1, <3>4, <3>5 DEF OneCall, Moved
    <2>9. AllIsInHand'
        <3> SUFFICES ASSUME repair_faults = 0 PROVE AllIsInHand'
            BY <1>11 DEF AllIsInHand
        <3>1. /\ at_first = Kept(InHand) /\ \A m \in DOMAIN dir \ InHand : dir[m].entries = {}
              /\ dir[f].entries \subseteq Kept(repair.tables)
            BY <1>1, <1>2 DEF AllIsInHand, Copying, f
        <3>2. InHand' = InHand \ {f} /\ f \in InHand /\ repair.tables \subseteq InHand
            BY <1>4, <1>5, <2>3 DEF InHand
        <3>3. Kept(InHand)' = Kept(InHand)
            <4>1. ASSUME NEW e PROVE e \in Kept(InHand)' <=> e \in Kept(InHand)
                BY <2>1, <2>3, <3>1, <3>2 DEF Kept
            <4> QED
                BY <4>1
        <3>4. \A m \in DOMAIN dir' \ InHand' : dir'[m].entries = {}
            BY <2>1, <3>1, <3>2
        <3> QED
            BY <1>1, <1>5, <3>1, <3>3, <3>4 DEF AllIsInHand, Copying, Moved
    <2> QED
        BY <1>8, <2>2, <2>4, <2>6, <2>7, <2>8, <2>9 DEF RepairInv
<1> QED
    BY <1>1, <1>10, <1>11

\* The counter of a table that is listed is beyond its entries and all that were listed.
LEMMA ListingIs ==
    ASSUME repair \in RepairerType, NEW n \in Nat, NEW entries \in EntrySets, repair' = Listing(repair, n, entries)
    PROVE  /\ repair'.at = "logs" /\ repair'.next = repair.next /\ repair'.tables = repair.tables \ {n}
           /\ repair'.logs = repair.logs /\ repair'.listed = repair.listed \cup {n}
           /\ repair'.misread = repair.misread
           /\ repair'.max_sequence \in Nat /\ repair.max_sequence <= repair'.max_sequence
           /\ \A e \in entries : e <= repair'.max_sequence
           /\ repair' \in RepairerType
<1> DEFINE top == Max({repair.max_sequence} \cup entries)
<1>1. entries \in SUBSET Nat /\ IsFiniteSet(entries) /\ repair.max_sequence \in Nat
    BY DEF EntrySets, RepairerType
<1>2. top \in Nat /\ repair.max_sequence <= top /\ \A e \in entries : e <= top
    <2>1. IsFiniteSet({repair.max_sequence} \cup entries)
        BY <1>1, FS_Singleton, FS_Union
    <2>2. {repair.max_sequence} \cup entries \in SUBSET Int
        <3>1. entries \subseteq Int /\ repair.max_sequence \in Int
            BY <1>1
        <3> QED
            BY <3>1
    <2> QED
        <3>1. {repair.max_sequence} \cup entries # {}
            OBVIOUS
        <3>2. top \in {repair.max_sequence} \cup entries /\ \A e \in {repair.max_sequence} \cup entries : e <= top
            BY <2>1, <2>2, <3>1, MaxIsGreatest
        <3> QED
            BY <1>1, <3>2
<1>3. repair' = [repair EXCEPT !.at = "logs", !.listed = repair.listed \cup {n}, !.tables = repair.tables \ {n},
                                !.max_sequence = top]
    BY DEF Listing
<1> HIDE DEF top
<1>4. repair' \in RepairerType
    <2>1. repair.listed \cup {n} \in SUBSET Nat /\ repair.tables \ {n} \in SUBSET (Nat \ {0})
        BY DEF RepairerType
    <2> QED
        BY <1>2, <1>3, <2>1 DEF RepairerType, RepairStages
<1> QED
    BY <1>2, <1>3, <1>4 DEF RepairerType

\* A whole table is listed, and the Repairer is done with it.
LEMMA ListTableHolds ==
    ASSUME RepairInv, NEW n \in repair.tables, ScanTable(n), dir[n].state = "whole"
    PROVE  RepairInv'
<1>1. /\ repair.at = "logs" /\ repair.logs = {} /\ repair' = Listing(repair, n, dir[n].entries)
      /\ dir' = dir /\ lost_dir' = lost_dir /\ unarchived' = unarchived /\ descriptor' = descriptor
      /\ repair_calls' = repair_calls /\ at_first' = at_first /\ repair_faults' = repair_faults
    BY DEF ScanTable, Scans, NoFault, DirectoriesStay
<1>2. RepairTypeOK /\ RepairerKnows /\ AllIsInHand /\ OneFault /\ NamesAreNew /\ OneCall
    BY DEF RepairInv
<1>3. repair \in RepairerType /\ Found(dir)
    BY <1>2 DEF RepairTypeOK
<1>4. /\ \A m \in repair.tables : m \in DOMAIN dir /\ dir[m].kind = "table"
      /\ n \in Nat /\ WholeTable(n) /\ dir[n].entries \in EntrySets
    <2>1. \A m \in repair.tables : m \in DOMAIN dir /\ dir[m].kind = "table"
        BY <1>1, <1>2 DEF RepairerKnows, Moved
    <2>2. dir[n] \in RepairFile
        BY <1>3, <2>1 DEF Found
    <2> QED
        BY <1>3, <2>1, <2>2 DEF RepairerType, RepairFile, WholeTable
<1>5. /\ repair'.at = "logs" /\ repair'.next = repair.next /\ repair'.tables = repair.tables \ {n}
      /\ repair'.logs = repair.logs /\ repair'.listed = repair.listed \cup {n}
      /\ repair'.misread = repair.misread
      /\ repair'.max_sequence \in Nat /\ repair.max_sequence <= repair'.max_sequence
      /\ \A e \in dir[n].entries : e <= repair'.max_sequence
      /\ repair' \in RepairerType
    BY <1>1, <1>3, <1>4, ListingIs
<1>6. RepairTypeOK'
    BY <1>1, <1>2, <1>5 DEF RepairTypeOK
<1>7. RepairerKnows'
    <2>1. ASSUME NEW m \in repair'.listed
          PROVE  /\ m \in DOMAIN dir /\ WholeTable(m)
                 /\ ~repair.misread => \A e \in dir[m].entries : e <= repair'.max_sequence
        <3>1. CASE m = n
            BY <1>4, <1>5, <3>1
        <3>2. CASE m # n
            <4>1. /\ m \in DOMAIN dir /\ WholeTable(m)
                  /\ ~repair.misread => \A e \in dir[m].entries : e <= repair.max_sequence
                BY <1>2, <1>5, <3>2 DEF RepairerKnows
            <4>2. /\ \A e \in dir[m].entries : e \in Nat
                  /\ repair.max_sequence \in Nat
                BY <1>3, <4>1 DEF Found, RepairFile, EntrySets, RepairerType
            <4> QED
                BY <1>5, <4>1, <4>2
        <3> QED
            BY <3>1, <3>2
    <2> QED
        BY <1>1, <1>2, <1>4, <1>5, <2>1 DEF RepairerKnows, Copying, WholeTable
<1>8. InHand' = InHand
    BY <1>5 DEF InHand
<1>9. AllIsInHand'
    BY <1>1, <1>2, <1>5, <1>8 DEF AllIsInHand, Copying, Moved, Kept
<1>10. \A m : (LogIsLost(m)' <=> LogIsLost(m)) /\ (TableIsLost(m)' <=> TableIsLost(m))
    BY <1>1, LostStays
<1>11. OneFault'
    BY <1>1, <1>2, <1>5, <1>10 DEF OneFault, Moved, WholeTable
<1>12. NamesAreNew'
    <2> SUFFICES ASSUME repair_faults <= 1 PROVE NamesAreNew'
        BY <1>1 DEF NamesAreNew
    <2>1. \A m : Leftover(m)' => Leftover(m) \/ m = n
        BY <1>1, <1>5 DEF Leftover, IsCopy, Copying
    <2>2. Covered' <=> Covered
        BY <1>1, <1>5, <1>10 DEF Covered, Stands, IsCopy, Copying
    <2>3. AllWhole => AllWhole'
        BY <1>1, <1>5 DEF AllWhole, WholeTable
    <2>4. \A m : LostBelow(m)' <=> LostBelow(m)
        BY <1>10 DEF LostBelow
    <2>5. \A m : (WholeTable(m)' <=> WholeTable(m)) /\ dir'[m] = dir[m]
        BY <1>1 DEF WholeTable
    <2>6. LostBelow(repair.next)' <=> LostBelow(repair.next)
        BY <1>5, <1>10 DEF LostBelow
    <2>7. LostBelow(repair.next)' \/ (repair_faults = 1 /\ AllWhole')
        BY <1>1, <1>2, <2>3, <2>6 DEF NamesAreNew
    <2>8. Covered' \/ (repair_faults = 1 /\ \A m : Leftover(m)' => WholeTable(m)')
        BY <1>2, <1>4, <2>1, <2>2, <2>5 DEF NamesAreNew
    <2>9. ASSUME repair_faults = 0, NEW m, Leftover(m)'
          PROVE  /\ dir'[m].kind = "table"
                 /\ WholeTable(m)' \/ (LostBelow(m)' /\ \A k \in repair'.tables : k < m)
        <3>1. CASE m = n
            BY <1>4, <2>5, <3>1 DEF WholeTable
        <3>2. CASE Leftover(m)
            BY <1>1, <1>2, <1>5, <2>4, <2>5, <2>9, <3>2 DEF NamesAreNew
        <3> QED
            BY <2>1, <2>9, <3>1, <3>2
    <2> QED
        BY <1>1, <1>5, <2>7, <2>8, <2>9 DEF NamesAreNew, Copying
<1>13. OneCall'
    <2> SUFFICES ASSUME repair_calls <= 1, ~unarchived PROVE OneCall'
        BY <1>1 DEF OneCall
    <2>1. Kept({m \in DOMAIN dir : ~IsCopy(m)})' = Kept({m \in DOMAIN dir : ~IsCopy(m)})
        BY <1>1, <1>5 DEF Kept, IsCopy, Copying
    <2>2. at_first' \subseteq Kept({m \in DOMAIN dir : ~IsCopy(m)})' \cup Readable(lost_dir)'
        BY <1>1, <1>2, <2>1 DEF OneCall, Readable
    <2> QED
        BY <1>1, <1>2, <1>5, <1>10, <2>2 DEF OneCall, Moved
<1> QED
    BY <1>5, <1>6, <1>7, <1>9, <1>11, <1>12, <1>13 DEF RepairInv, CopyIsKnown, Copying

\* A table that is not whole, or whose scan fails, is to be repaired.
LEMMA ToRepairHolds ==
    ASSUME RepairInv, NEW n \in repair.tables,
           (ScanTable(n) /\ dir[n].state # "whole") \/ ScanFails(n)
    PROVE  RepairInv'
<1>1. /\ repair.at = "logs" /\ repair.logs = {}
      /\ dir' = dir /\ lost_dir' = lost_dir /\ unarchived' = unarchived /\ descriptor' = descriptor
      /\ repair_calls' = repair_calls /\ at_first' = at_first
    BY DEF ScanTable, ScanFails, Scans, NoFault, DirectoriesStay
<1>2. RepairTypeOK /\ RepairerKnows /\ AllIsInHand /\ OneFault /\ NamesAreNew /\ OneCall
    BY DEF RepairInv
<1>3. repair \in RepairerType /\ Found(dir) /\ repair_faults \in Nat
    BY <1>2 DEF RepairTypeOK
<1>4. /\ \A m \in repair.tables : m \in DOMAIN dir /\ dir[m].kind = "table"
      /\ n \in Nat /\ dir[n].entries \in EntrySets
    <2>1. \A m \in repair.tables : m \in DOMAIN dir /\ dir[m].kind = "table"
        BY <1>1, <1>2 DEF RepairerKnows, Moved
    <2>2. dir[n] \in RepairFile
        BY <1>3, <2>1 DEF Found
    <2> QED
        BY <1>3, <2>1, <2>2 DEF RepairerType, RepairFile
<1>5. PICK scanned \in SUBSET dir[n].entries, misread \in BOOLEAN :
          /\ repair' = [repair EXCEPT !.at = "copy", !.file = n, !.scanned = scanned, !.misread = misread]
          /\ \/ /\ misread = repair.misread /\ scanned = dir[n].entries /\ dir[n].state # "whole"
                /\ repair_faults' = repair_faults
             \/ misread /\ repair_faults' = repair_faults + 1
    <2>1. CASE ScanTable(n) /\ dir[n].state # "whole"
        <3>1. /\ repair' = [repair EXCEPT !.at = "copy", !.file = n, !.scanned = dir[n].entries]
              /\ repair_faults' = repair_faults
            BY <2>1 DEF ScanTable, NoFault
        <3>2. repair' = [repair EXCEPT !.at = "copy", !.file = n, !.scanned = dir[n].entries,
                                       !.misread = repair.misread]
            BY <1>3, <3>1 DEF RepairerType
        <3>3. repair.misread \in BOOLEAN
            BY <1>3 DEF RepairerType
        <3> QED
            BY <2>1, <3>1, <3>2, <3>3
    <2>2. CASE ScanFails(n)
        BY <2>2 DEF ScanFails, Fault
    <2> QED
        BY <2>1, <2>2
<1>6. /\ repair'.at = "copy" /\ repair'.file = n /\ repair'.scanned = scanned
      /\ repair'.misread = misread /\ repair'.next = repair.next /\ repair'.tables = repair.tables
      /\ repair'.logs = {} /\ repair'.listed = repair.listed
      /\ repair'.max_sequence = repair.max_sequence /\ repair' \in RepairerType
    <2>1. scanned \in EntrySets
        BY <1>4, PartsAreSets
    <2>2. repair' \in RepairerType
        BY <1>3, <1>4, <1>5, <2>1 DEF RepairerType, RepairStages
    <2> QED
        BY <1>1, <1>3, <1>5, <2>2 DEF RepairerType
<1>7. RepairTypeOK'
    <2>1. repair_faults' \in Nat
        BY <1>3, <1>5
    <2> QED
        BY <1>1, <1>2, <1>6, <2>1 DEF RepairTypeOK
<1>8. repair.misread => misread
    BY <1>5
<1>9. RepairerKnows'
    <2>1. ~misread => scanned = dir[n].entries /\ ~WholeTable(n) /\ repair_faults' = repair_faults
        BY <1>5 DEF WholeTable
    <2>2. repair_faults' = 0 => ~misread
        BY <1>2, <1>3, <1>5 DEF RepairerKnows
    <2> QED
        BY <1>1, <1>2, <1>4, <1>6, <1>8, <2>1, <2>2 DEF RepairerKnows, Copying, WholeTable
<1>10. \A m : (LogIsLost(m)' <=> LogIsLost(m)) /\ (TableIsLost(m)' <=> TableIsLost(m))
    BY <1>1, LostStays
<1>11. InHand' = InHand
    BY <1>1, <1>6 DEF InHand
<1>12. AllIsInHand'
    <2>1. repair_faults' = 0 => repair_faults = 0
        BY <1>3, <1>5
    <2> QED
        BY <1>1, <1>2, <1>6, <1>11, <2>1 DEF AllIsInHand, Copying, Moved, Kept
<1>13. repair_faults' <= 1 => repair_faults <= 1
    BY <1>3, <1>5
<1>14. OneFault'
    <2>1. ASSUME repair_faults' <= 1, WholeTable(n) PROVE at_first \subseteq Readable(dir)
        <3>1. repair_faults = 0
            BY <1>3, <1>5, <2>1 DEF WholeTable
        <3>2. at_first = Kept(InHand)
            BY <1>1, <1>2, <3>1 DEF AllIsInHand, Copying
        <3> QED
            BY <3>2 DEF Kept, Readable
    <2> QED
        BY <1>1, <1>2, <1>6, <1>10, <1>13, <2>1 DEF OneFault, Moved, WholeTable
<1>15. NamesAreNew'
    <2> SUFFICES ASSUME repair_faults <= 1, repair_faults' <= 1 PROVE NamesAreNew'
        BY <1>13 DEF NamesAreNew
    <2>1. LostBelow(repair.next)
        <3>1. dir[n].state # "whole" \/ repair_faults = 0
            BY <1>3, <1>5
        <3>2. ~AllWhole \/ repair_faults = 0
            BY <1>4, <3>1 DEF AllWhole, WholeTable
        <3> QED
            BY <1>1, <1>2, <3>2 DEF NamesAreNew
    <2>2. LostBelow(repair.next)'
        BY <1>6, <1>10, <2>1 DEF LostBelow
    <2>3. \A m : Leftover(m)' <=> Leftover(m)
        BY <1>1, <1>6 DEF Leftover, IsCopy, Copying
    <2>4. Covered' <=> Covered
        BY <1>1, <1>6, <1>10 DEF Covered, Stands, IsCopy, Copying
    <2>5. \A m : (WholeTable(m)' <=> WholeTable(m)) /\ dir'[m] = dir[m] /\ (LostBelow(m)' <=> LostBelow(m))
        BY <1>1, <1>10 DEF WholeTable, LostBelow
    <2>6. (repair_faults' = 0 => repair_faults = 0) /\ (repair_faults = 1 => repair_faults' = 1)
        BY <1>3, <1>5
    <2>7. Covered' \/ (repair_faults' = 1 /\ \A m : Leftover(m)' => WholeTable(m)')
        BY <1>2, <2>3, <2>4, <2>5, <2>6 DEF NamesAreNew
    <2>8. ASSUME repair_faults' = 0, NEW m, Leftover(m)'
          PROVE  /\ dir'[m].kind = "table"
                 /\ WholeTable(m)' \/ (LostBelow(m)' /\ \A k \in repair'.tables : k < m)
        BY <1>1, <1>2, <1>6, <2>3, <2>5, <2>6, <2>8 DEF NamesAreNew
    <2> QED
        BY <1>6, <2>2, <2>7, <2>8 DEF NamesAreNew, Copying
<1>16. OneCall'
    <2> SUFFICES ASSUME repair_calls <= 1, ~unarchived PROVE OneCall'
        BY <1>1 DEF OneCall
    <2>1. Kept({m \in DOMAIN dir : ~IsCopy(m)})' = Kept({m \in DOMAIN dir : ~IsCopy(m)})
        BY <1>1, <1>6 DEF Kept, IsCopy, Copying
    <2>2. at_first' \subseteq Kept({m \in DOMAIN dir : ~IsCopy(m)})' \cup Readable(lost_dir)'
        BY <1>1, <1>2, <2>1 DEF OneCall, Readable
    <2> QED
        BY <1>1, <1>2, <1>6, <1>10, <2>2 DEF OneCall, Moved
<1> QED
    BY <1>6, <1>7, <1>9, <1>12, <1>14, <1>15, <1>16 DEF RepairInv, CopyIsKnown, Copying

LEMMA ScanTableHolds == ASSUME RepairInv, NEW n \in repair.tables, ScanTable(n) \/ ScanFails(n) PROVE RepairInv'
BY ListTableHolds, ToRepairHolds

LEMMA SizeFailsHolds == ASSUME RepairInv, NEW n \in repair.tables, SizeFails(n) PROVE RepairInv'
<1>1. /\ repair.at = "logs" /\ repair.logs = {} /\ repair' = [repair EXCEPT !.tables = repair.tables \ {n}]
      /\ repair_faults' = repair_faults + 1 /\ (MoveToLost(n) \/ Stuck)
      /\ descriptor' = descriptor /\ repair_calls' = repair_calls /\ at_first' = at_first
    BY DEF SizeFails, Scans, Fault
<1>2. RepairTypeOK /\ RepairerKnows /\ AllIsInHand /\ OneFault /\ NamesAreNew /\ OneCall
    BY DEF RepairInv
<1>3. repair \in RepairerType /\ repair_faults \in Nat
    BY <1>2 DEF RepairTypeOK
<1>4. /\ \A m \in repair.tables : m \in DOMAIN dir /\ dir[m].kind = "table"
      /\ n \in Nat /\ n \in DOMAIN dir /\ dir[n].kind = "table" /\ dir[n].kind # "log" /\ n \notin repair.listed
      /\ \A m \in DOMAIN dir \cup repair.tables : m < repair.next
    BY <1>1, <1>2, <1>3 DEF RepairerKnows, Moved, RepairerType
<1>5. /\ repair'.at = "logs" /\ repair'.next = repair.next /\ repair'.tables = repair.tables \ {n}
      /\ repair'.logs = {} /\ repair'.listed = repair.listed /\ repair'.misread = repair.misread
      /\ repair'.max_sequence = repair.max_sequence /\ repair' \in RepairerType
    <2>1. repair' \in RepairerType
        BY <1>1, <1>3 DEF RepairerType
    <2> QED
        BY <1>1, <1>3, <2>1 DEF RepairerType
<1>6. repair_faults' # 0 /\ repair_faults' \in Nat /\ (repair_faults' <= 1 => repair_faults = 0 /\ repair_faults' = 1)
    BY <1>1, <1>3
<1>7. AllIsInHand' /\ CopyIsKnown'
    BY <1>5, <1>6 DEF AllIsInHand, CopyIsKnown, Copying
<1>8. repair_faults = 0 => LostBelow(repair.next) /\ Covered
    BY <1>1, <1>2 DEF NamesAreNew
<1>9. CASE Stuck
    <2>1. /\ dir' = dir /\ lost_dir' = lost_dir /\ unarchived' = TRUE
          /\ \A m : LogIsLost(m)' <=> LogIsLost(m)
          /\ \A m : TableIsLost(m)' <=> TableIsLost(m)
        BY <1>9, StuckIs
    <2>2. RepairTypeOK'
        BY <1>1, <1>2, <1>5, <1>6, <2>1 DEF RepairTypeOK
    <2>3. RepairerKnows'
        BY <1>1, <1>2, <1>4, <1>5, <1>6, <2>1 DEF RepairerKnows, Copying, WholeTable
    <2>4. OneFault'
        BY <1>1, <1>2, <1>5, <1>6, <2>1 DEF OneFault, Moved, WholeTable
    <2>5. NamesAreNew'
        <3> SUFFICES ASSUME repair_faults = 0, repair_faults' = 1 PROVE NamesAreNew'
            BY <1>6 DEF NamesAreNew
        <3>1. LostBelow(repair.next)'
            BY <1>5, <1>8, <2>1 DEF LostBelow
        <3>2. Covered'
            BY <1>1, <1>5, <1>8, <2>1 DEF Covered, Stands, IsCopy, Copying
        <3> QED
            BY <1>5, <3>1, <3>2 DEF NamesAreNew, Copying
    <2> QED
        BY <1>7, <2>1, <2>2, <2>3, <2>4, <2>5 DEF RepairInv, OneCall
<1>10. CASE MoveToLost(n)
    <2>1. /\ unarchived' = unarchived
          /\ DOMAIN dir' = DOMAIN dir \ {n} /\ \A m \in DOMAIN dir \ {n} : dir'[m] = dir[m]
          /\ Found(dir') /\ IsFiniteSet(DOMAIN dir') /\ DOMAIN dir' \subseteq Nat \ {0}
          /\ Found(lost_dir') /\ DOMAIN lost_dir' \subseteq LostNames
          /\ \A m : LogIsLost(m)' <=> LogIsLost(m)
          /\ \A m : TableIsLost(m)' <=> TableIsLost(m) \/ m = n
          /\ Readable(dir) \subseteq Readable(dir') \cup Readable(lost_dir')
          /\ TableIsLost(n) \/ Readable(lost_dir) \subseteq Readable(lost_dir')
        <3>1. <<dir[n].kind, n>> \in DOMAIN lost_dir => TableIsLost(n)
            BY <1>4 DEF TableIsLost
        <3> QED
            BY <1>2, <1>4, <1>10, <3>1, MovedIs
    <2>2. RepairTypeOK'
        BY <1>1, <1>2, <1>5, <1>6, <2>1 DEF RepairTypeOK
    <2>3. RepairerKnows'
        BY <1>1, <1>2, <1>4, <1>5, <1>6, <2>1 DEF RepairerKnows, Copying, WholeTable
    <2>4. OneFault'
        <3>1. \A m \in DOMAIN dir' : dir'[m].kind = "log" => ~LogIsLost(m)'
            BY <1>2, <2>1 DEF OneFault
        <3>2. repair_faults <= 1 =>
                 \A m \in DOMAIN dir' : dir'[m].kind = "table" /\ TableIsLost(m)' => WholeTable(m)'
            BY <1>2, <2>1 DEF OneFault, WholeTable
        <3>3. repair_faults = 0 => at_first \subseteq Readable(dir') \cup Readable(lost_dir')
            <4>1. repair_faults = 0 => at_first = Kept(InHand)
                BY <1>1, <1>2 DEF AllIsInHand, Copying
            <4>2. Kept(InHand) \subseteq Readable(dir)
                BY DEF Kept, Readable
            <4> QED
                BY <2>1, <4>1, <4>2
        <3> QED
            BY <1>1, <1>5, <1>6, <3>1, <3>2, <3>3 DEF OneFault, Moved
    <2>5. NamesAreNew'
        <3> SUFFICES ASSUME repair_faults = 0, repair_faults' = 1 PROVE NamesAreNew'
            BY <1>6 DEF NamesAreNew
        <3>1. LostBelow(repair.next)'
            BY <1>4, <1>5, <1>8, <2>1 DEF LostBelow
        <3>2. \A m : Leftover(m)' => Leftover(m) /\ dir'[m] = dir[m]
            BY <1>1, <1>5, <2>1 DEF Leftover, IsCopy, Copying
        <3>3. CASE \A m : Leftover(m) => WholeTable(m)
            <4>1. \A m : Leftover(m)' => WholeTable(m)'
                BY <3>2, <3>3 DEF WholeTable
            <4> QED
                BY <1>5, <3>1, <4>1 DEF NamesAreNew, Copying
        <3>4. ASSUME NEW m, Leftover(m), ~WholeTable(m) PROVE NamesAreNew'
            <4>1. /\ dir[m].kind = "table" /\ LostBelow(m) /\ n < m /\ m \in DOMAIN dir /\ m # n
                BY <1>1, <1>2, <1>4, <3>4 DEF NamesAreNew, Leftover
            <4>2. m \in Nat
                BY <1>2, <4>1 DEF RepairTypeOK
            <4>3. Stands(m)'
                BY <1>5, <2>1, <4>1 DEF Stands, IsCopy, Copying
            <4>4. \A k \in Nat : TableIsLost(k)' => k <= m
                BY <1>4, <2>1, <4>1, <4>2 DEF LostBelow
            <4>5. Covered'
                BY <4>2, <4>3, <4>4 DEF Covered
            <4> QED
                BY <1>5, <3>1, <4>5 DEF NamesAreNew, Copying
        <3> QED
            BY <3>3, <3>4
    <2>6. OneCall'
        <3> SUFFICES ASSUME repair_calls <= 1, ~unarchived PROVE OneCall'
            BY <1>1, <2>1 DEF OneCall
        <3>1. /\ repair_calls # 0
              /\ at_first \subseteq Kept({m \in DOMAIN dir : ~IsCopy(m)}) \cup Readable(lost_dir)
              /\ \A m \in Nat : LogIsLost(m) \/ TableIsLost(m) => m < repair.next
              /\ \A m \in repair.tables : m \in DOMAIN dir => ~TableIsLost(m)
            BY <1>1, <1>2 DEF OneCall
        <3>2. Kept({m \in DOMAIN dir : ~IsCopy(m)}) \subseteq Readable(dir)
            BY DEF Kept, Readable
        <3>3. Readable(dir') \subseteq Kept({m \in DOMAIN dir : ~IsCopy(m)})'
            BY <1>5 DEF Kept, Readable, IsCopy, Copying
        <3>4. at_first' \subseteq Kept({m \in DOMAIN dir : ~IsCopy(m)})' \cup Readable(lost_dir')
            BY <1>1, <1>4, <2>1, <3>1, <3>2, <3>3
        <3>5. \A m \in Nat : LogIsLost(m)' \/ TableIsLost(m)' => m < repair'.next
            BY <1>4, <1>5, <2>1, <3>1
        <3> QED
            BY <1>1, <1>5, <2>1, <3>1, <3>4, <3>5 DEF OneCall, Moved
    <2> QED
        BY <1>7, <2>2, <2>3, <2>4, <2>5, <2>6 DEF RepairInv
<1> QED
    BY <1>1, <1>9, <1>10

LEMMA CopyTableHolds == ASSUME RepairInv, CopyTable PROVE RepairInv'
<1> DEFINE k == repair.next
           f == repair.file
<1>1. PICK read \in SUBSET dir[f].entries :
          /\ repair.at = "copy"
          /\ \/ /\ repair_faults' = repair_faults
                /\ read = dir[f].entries \/ repair.scanned # dir[f].entries
             \/ repair_faults' = repair_faults + 1
          /\ repair' = [repair EXCEPT !.at = "copied", !.copy = k, !.next = k + 1, !.read = read]
          /\ dir' = WithFile(dir, k, Table({}, "unfinished"))
          /\ lost_dir' = lost_dir /\ descriptor' = descriptor /\ unarchived' = unarchived
          /\ repair_calls' = repair_calls /\ at_first' = at_first
    BY DEF CopyTable, NoFault, Fault
<1>2. RepairTypeOK /\ RepairerKnows /\ AllIsInHand /\ OneFault /\ NamesAreNew /\ OneCall
    BY DEF RepairInv
<1>3. /\ repair \in RepairerType /\ Found(dir) /\ repair_faults \in Nat /\ DOMAIN dir \subseteq Nat \ {0}
    BY <1>2 DEF RepairTypeOK
<1>4. /\ f \in repair.tables /\ f \in DOMAIN dir /\ repair.logs = {} /\ k \in Nat \ {0} /\ k + 1 \in Nat \ {0}
      /\ \A m \in repair.tables : m \in DOMAIN dir /\ dir[m].kind = "table"
      /\ \A m \in DOMAIN dir : m < k
      /\ \A m \in repair.listed : m \in DOMAIN dir
    <2>1. f \in repair.tables /\ \A m \in repair.tables : m \in DOMAIN dir /\ dir[m].kind = "table"
        BY <1>1, <1>2 DEF RepairerKnows, Copying, Moved
    <2>2. k \in Nat \ {0}
        BY <1>3 DEF RepairerType
    <2> QED
        BY <1>1, <1>2, <2>1, <2>2 DEF RepairerKnows
<1>5. k \notin DOMAIN dir /\ f # k /\ f < k
    BY <1>3, <1>4
<1>6. read \in EntrySets
    <2>1. dir[f].entries \in EntrySets
        BY <1>3, <1>4 DEF Found, RepairFile
    <2> QED
        BY <2>1, PartsAreSets
<1> HIDE DEF k, f
<1>7. /\ DOMAIN dir' = DOMAIN dir \cup {k} /\ \A m \in DOMAIN dir : dir'[m] = dir[m]
      /\ dir'[k] = Table({}, "unfinished")
      /\ dir'[k].kind = "table" /\ dir'[k].entries = {} /\ dir'[k].state = "unfinished"
      /\ Found(dir') /\ IsFiniteSet(DOMAIN dir') /\ DOMAIN dir' \subseteq Nat \ {0}
    <2>1. {} \in EntrySets
        BY FS_EmptySet DEF EntrySets
    <2>2. dir' = WithFile(dir, k, Table({}, "unfinished"))
        BY <1>1
    <2>3. k \in Nat \ {0} /\ "unfinished" \in {"whole", "unfinished"} /\ DOMAIN dir \ {k} = DOMAIN dir
        BY <1>4, <1>5
    <2>4. /\ DOMAIN dir' = DOMAIN dir \cup {k} /\ \A m \in DOMAIN dir \ {k} : dir'[m] = dir[m]
          /\ dir'[k] = Table({}, "unfinished")
          /\ dir'[k].kind = "table" /\ dir'[k].entries = {} /\ dir'[k].state = "unfinished"
          /\ Found(dir') /\ IsFiniteSet(DOMAIN dir') /\ DOMAIN dir' \subseteq Nat \ {0}
        BY <1>2, <2>1, <2>2, <2>3, AddedIs
    <2> QED
        BY <2>3, <2>4
<1>8. /\ repair'.at = "copied" /\ repair'.copy = k /\ repair'.next = k + 1 /\ repair'.read = read
      /\ repair'.file = f /\ repair'.scanned = repair.scanned
      /\ repair'.tables = repair.tables /\ repair'.logs = {} /\ repair'.listed = repair.listed
      /\ repair'.max_sequence = repair.max_sequence /\ repair'.misread = repair.misread
      /\ repair' \in RepairerType
    <2>1. repair' \in RepairerType
        BY <1>1, <1>3, <1>4, <1>6 DEF RepairerType, RepairStages, Copying
    <2> QED
        BY <1>1, <1>3, <1>4, <2>1 DEF RepairerType, f
<1>9. repair_faults' \in Nat /\ (repair_faults' <= 1 => repair_faults <= 1)
      /\ (repair_faults' = 0 => repair_faults = 0) /\ (repair_faults = 1 /\ repair_faults' <= 1 => repair_faults' = 1)
    BY <1>1, <1>3
<1>10. RepairTypeOK'
    BY <1>1, <1>2, <1>7, <1>8, <1>9 DEF RepairTypeOK
<1>11. ~repair.misread => repair.scanned = dir[f].entries
    BY <1>1, <1>2 DEF RepairerKnows, f
<1>12. RepairerKnows'
    <2>1. \A m \in DOMAIN dir' \cup repair'.tables : m < k + 1
        BY <1>3, <1>4, <1>7, <1>8
    <2>2. /\ \A m \in repair'.tables : m \in DOMAIN dir' /\ dir'[m].kind = "table"
          /\ \A m \in repair'.listed :
                /\ m \in DOMAIN dir' /\ WholeTable(m)'
                /\ ~repair'.misread => \A e \in dir'[m].entries : e <= repair'.max_sequence
        BY <1>2, <1>4, <1>7, <1>8 DEF RepairerKnows, WholeTable
    <2>3. ~repair'.misread => repair'.read \subseteq repair'.scanned
        BY <1>8, <1>11
    <2>4. repair'.tables \cap repair'.listed = {} /\ (repair_faults' = 0 => ~repair'.misread)
        BY <1>2, <1>8, <1>9 DEF RepairerKnows
    <2> QED
        BY <1>4, <1>8, <2>1, <2>2, <2>3, <2>4 DEF RepairerKnows, Copying
<1>13. CopyIsKnown'
    <2>1. repair'.copy \in DOMAIN dir' /\ repair'.copy \notin repair'.listed
        BY <1>4, <1>5, <1>7, <1>8
    <2>2. \A m \in repair'.tables : m < repair'.copy
        BY <1>4, <1>8
    <2> QED
        BY <1>7, <1>8, <2>1, <2>2 DEF CopyIsKnown
<1>14. AllIsInHand'
    <2> SUFFICES ASSUME repair_faults' = 0 PROVE AllIsInHand'
        BY DEF AllIsInHand
    <2>1. repair_faults = 0 /\ read = dir[f].entries
        <3>1. repair_faults = 0 /\ repair_faults' = repair_faults
            BY <1>1, <1>3, <1>9
        <3>2. ~repair.misread
            BY <1>2, <3>1 DEF RepairerKnows
        <3> QED
            BY <1>1, <1>3, <1>11, <3>1, <3>2
    <2>2. at_first = Kept(InHand) /\ \A m \in DOMAIN dir \ InHand : dir[m].entries = {}
        BY <1>1, <1>2, <2>1 DEF AllIsInHand, Copying
    <2>3. InHand' = InHand /\ k \notin InHand /\ f \in InHand
        BY <1>4, <1>5, <1>8 DEF InHand
    <2>4. Kept(InHand)' = Kept(InHand)
        BY <1>5, <1>7, <2>3 DEF Kept
    <2>5. read \subseteq Kept(InHand)
        BY <1>4, <2>1, <2>3 DEF Kept
    <2>6. \A m \in DOMAIN dir' \ InHand' : dir'[m].entries = {}
        BY <1>7, <2>2, <2>3
    <2>7. dir'[f].entries = read
        BY <1>4, <1>7, <2>1
    <2> QED
        BY <1>1, <1>8, <2>2, <2>4, <2>5, <2>6, <2>7 DEF AllIsInHand, Copying, Moved
<1>15. \A m : (LogIsLost(m)' <=> LogIsLost(m)) /\ (TableIsLost(m)' <=> TableIsLost(m))
    BY <1>1, LostStays
<1>16. repair_faults <= 1 => LostBelow(k)
    BY <1>1, <1>2 DEF NamesAreNew, AllWhole, k
<1>17. OneFault'
    <2>1. \A m \in DOMAIN dir' : dir'[m].kind = "log" => ~LogIsLost(m)'
        BY <1>2, <1>7, <1>15 DEF OneFault
    <2>2. ASSUME repair_faults <= 1
          PROVE  /\ at_first \subseteq Readable(dir') \cup Readable(lost_dir')
                 /\ \A m \in DOMAIN dir' : dir'[m].kind = "table" /\ TableIsLost(m)' => WholeTable(m)'
                 /\ dir'[f].kind = "table" /\ dir'[f].state = "whole" => at_first \subseteq Readable(dir')
        <3>1. Readable(dir) \subseteq Readable(dir')
            BY <1>7 DEF Readable
        <3>2. ~TableIsLost(k)
            BY <1>4, <1>16, <2>2 DEF LostBelow
        <3>3. at_first \subseteq Readable(dir) \cup Readable(lost_dir)
            BY <1>2, <2>2 DEF OneFault
        <3>4. \A m \in DOMAIN dir' : dir'[m].kind = "table" /\ TableIsLost(m)' => WholeTable(m)'
            BY <1>2, <1>7, <1>15, <2>2, <3>2 DEF OneFault, WholeTable
        <3>5. dir'[f].kind = "table" /\ dir'[f].state = "whole" => at_first \subseteq Readable(dir)
            BY <1>1, <1>2, <1>4, <1>7, <2>2 DEF OneFault, WholeTable, f
        <3> QED
            BY <1>1, <3>1, <3>3, <3>4, <3>5
    <2> QED
        BY <1>1, <1>8, <1>9, <2>1, <2>2 DEF OneFault, Moved, WholeTable
<1>18. NamesAreNew'
    <2> SUFFICES ASSUME repair_faults <= 1, repair_faults' <= 1 PROVE NamesAreNew'
        BY <1>9 DEF NamesAreNew
    <2>1. LostBelow(repair.copy)' /\ LostBelow(repair.next)'
        BY <1>4, <1>8, <1>15, <1>16 DEF LostBelow
    <2>2. \A m \in Nat : Stands(m) => Stands(m)'
        BY <1>1, <1>5, <1>7, <1>8 DEF Stands, IsCopy, Copying
    <2>3. Covered => Covered'
        BY <1>15, <2>2 DEF Covered
    <2>4. \A m : Leftover(m)' => Leftover(m) /\ dir'[m] = dir[m]
        BY <1>1, <1>4, <1>7, <1>8 DEF Leftover, IsCopy, Copying
    <2>5. Covered' \/ (repair_faults' = 1 /\ \A m : Leftover(m)' => WholeTable(m)')
        BY <1>2, <1>9, <2>3, <2>4 DEF NamesAreNew, WholeTable
    <2>6. ASSUME repair_faults' = 0, NEW m, Leftover(m)'
          PROVE  /\ dir'[m].kind = "table"
                 /\ WholeTable(m)' \/ (LostBelow(m)' /\ \A i \in repair'.tables : i < m)
        <3>1. Leftover(m) /\ dir'[m] = dir[m] /\ repair_faults = 0
            BY <1>9, <2>4, <2>6
        <3>2. dir[m].kind = "table" /\ (WholeTable(m) \/ (LostBelow(m) /\ \A i \in repair.tables : i < m))
            BY <1>1, <1>2, <3>1 DEF NamesAreNew
        <3> QED
            BY <1>8, <1>15, <3>1, <3>2 DEF WholeTable, LostBelow
    <2> QED
        BY <1>8, <2>1, <2>5, <2>6 DEF NamesAreNew, Copying
<1>19. OneCall'
    <2> SUFFICES ASSUME repair_calls <= 1, ~unarchived PROVE OneCall'
        BY <1>1 DEF OneCall
    <2>1. /\ repair_calls # 0
          /\ at_first \subseteq Kept({m \in DOMAIN dir : ~IsCopy(m)}) \cup Readable(lost_dir)
          /\ \A m \in Nat : LogIsLost(m) \/ TableIsLost(m) => m < k
          /\ \A m \in repair.tables : m \in DOMAIN dir => ~TableIsLost(m)
        BY <1>1, <1>2 DEF OneCall, k
    <2>2. Kept({m \in DOMAIN dir : ~IsCopy(m)}) \subseteq Kept({m \in DOMAIN dir : ~IsCopy(m)})'
        BY <1>5, <1>7, <1>8 DEF Kept, IsCopy
    <2>3. at_first' \subseteq Kept({m \in DOMAIN dir : ~IsCopy(m)})' \cup Readable(lost_dir)'
        BY <1>1, <2>1, <2>2 DEF Readable
    <2>4. \A m \in Nat : LogIsLost(m)' \/ TableIsLost(m)' => m < repair'.next
        BY <1>4, <1>8, <1>15, <2>1
    <2>5. \A m \in repair'.tables : ~TableIsLost(m)'
        BY <1>4, <1>8, <1>15, <2>1
    <2> QED
        BY <1>1, <1>8, <2>1, <2>3, <2>4, <2>5 DEF OneCall, Moved
<1> QED
    BY <1>10, <1>12, <1>13, <1>14, <1>17, <1>18, <1>19 DEF RepairInv

LEMMA ArchiveTableHolds == ASSUME RepairInv, ArchiveTable PROVE RepairInv'
<1> DEFINE f == repair.file
           k == repair.copy
<1>1. /\ repair.at = "copied" /\ repair' = [repair EXCEPT !.at = "archived"]
      /\ \/ MoveToLost(f) /\ repair_faults' = repair_faults
         \/ Stuck /\ repair_faults' = repair_faults + 1
      /\ descriptor' = descriptor /\ repair_calls' = repair_calls /\ at_first' = at_first
    BY DEF ArchiveTable, Reaches, Archive, Fault, NoFault
<1>2. RepairTypeOK /\ RepairerKnows /\ CopyIsKnown /\ AllIsInHand /\ OneFault /\ NamesAreNew /\ OneCall
    BY DEF RepairInv
<1>3. repair \in RepairerType /\ repair_faults \in Nat
    BY <1>2 DEF RepairTypeOK
<1>4. /\ repair'.at = "archived" /\ repair'.next = repair.next /\ repair'.tables = repair.tables
      /\ repair'.logs = repair.logs /\ repair'.listed = repair.listed /\ repair'.file = f /\ repair'.copy = k
      /\ repair'.scanned = repair.scanned /\ repair'.read = repair.read
      /\ repair'.max_sequence = repair.max_sequence /\ repair'.misread = repair.misread
      /\ repair' \in RepairerType
    <2>1. repair' \in RepairerType
        BY <1>1, <1>3 DEF RepairerType, RepairStages, Copying
    <2> QED
        BY <1>1, <1>3, <2>1 DEF RepairerType
<1>5. /\ f \in repair.tables /\ repair.logs = {}
      /\ \A m \in repair.tables : m \in DOMAIN dir /\ dir[m].kind = "table"
      /\ \A m \in DOMAIN dir \cup repair.tables : m < repair.next
    BY <1>1, <1>2 DEF RepairerKnows, Copying, Moved
<1>6. /\ k \in DOMAIN dir /\ k \notin repair.listed /\ (\A m \in repair.tables : m < k)
      /\ dir[k] = Table({}, "unfinished")
    BY <1>1, <1>2 DEF CopyIsKnown, Copying
<1>7. f \in DOMAIN dir /\ dir[f].kind = "table" /\ f \notin repair.listed /\ f # k /\ f \in Nat
    <2>1. f \in Nat /\ f < k /\ k \in Nat
        BY <1>3, <1>5, <1>6 DEF RepairerType
    <2> QED
        BY <1>2, <1>5, <2>1 DEF RepairerKnows
<1>8. repair_faults <= 1 => LostBelow(repair.next) /\ LostBelow(k)
    BY <1>1, <1>2 DEF NamesAreNew, AllWhole, Copying
<1> HIDE DEF f, k
<1>9. CASE Stuck /\ repair_faults' = repair_faults + 1
    <2>1. /\ dir' = dir /\ lost_dir' = lost_dir /\ unarchived' = TRUE
          /\ \A m : LogIsLost(m)' <=> LogIsLost(m)
          /\ \A m : TableIsLost(m)' <=> TableIsLost(m)
        BY <1>9, StuckIs
    <2>2. RepairTypeOK'
        BY <1>1, <1>2, <1>3, <1>4, <1>9, <2>1 DEF RepairTypeOK
    <2>3. repair_faults' # 0 /\ (repair_faults' <= 1 => repair_faults = 0 /\ repair_faults' = 1)
        BY <1>3, <1>9
    <2>4. RepairerKnows'
        BY <1>1, <1>2, <1>4, <1>5, <2>1, <2>3 DEF RepairerKnows, Copying, WholeTable, Moved
    <2>5. CopyIsKnown'
        BY <1>4, <1>6, <2>1 DEF CopyIsKnown
    <2>6. repair_faults = 0 => dir[f].entries = repair.read
        BY <1>1, <1>2 DEF AllIsInHand, f
    <2>7. OneFault'
        BY <1>1, <1>2, <1>4, <2>1, <2>3, <2>6 DEF OneFault, Moved, WholeTable
    <2>8. NamesAreNew'
        <3> SUFFICES ASSUME repair_faults = 0, repair_faults' = 1 PROVE NamesAreNew'
            BY <2>3 DEF NamesAreNew
        <3>1. Covered
            BY <1>2 DEF NamesAreNew
        <3>2. Covered'
            BY <1>1, <1>4, <2>1, <3>1 DEF Covered, Stands, IsCopy, Copying, f, k
        <3>3. LostBelow(repair.next)' /\ LostBelow(repair.copy)'
            BY <1>4, <1>8, <2>1 DEF LostBelow
        <3> QED
            BY <1>4, <3>2, <3>3 DEF NamesAreNew
    <2> QED
        BY <2>1, <2>2, <2>3, <2>4, <2>5, <2>7, <2>8 DEF RepairInv, AllIsInHand, OneCall
<1>10. CASE MoveToLost(f) /\ repair_faults' = repair_faults
    <2>1. /\ unarchived' = unarchived
          /\ DOMAIN dir' = DOMAIN dir \ {f} /\ \A m \in DOMAIN dir \ {f} : dir'[m] = dir[m]
          /\ Found(dir') /\ IsFiniteSet(DOMAIN dir') /\ DOMAIN dir' \subseteq Nat \ {0}
          /\ Found(lost_dir') /\ DOMAIN lost_dir' \subseteq LostNames
          /\ lost_dir'[<<"table", f>>] = dir[f]
          /\ \A m : LogIsLost(m)' <=> LogIsLost(m)
          /\ \A m : TableIsLost(m)' <=> TableIsLost(m) \/ m = f
          /\ dir[f].entries \subseteq Readable(lost_dir')
          /\ Readable(dir) \subseteq Readable(dir') \cup Readable(lost_dir')
          /\ TableIsLost(f) \/ Readable(lost_dir) \subseteq Readable(lost_dir')
        <3>1. dir[f].kind = "table" /\ dir[f].kind # "log" /\ (<<dir[f].kind, f>> \in DOMAIN lost_dir => TableIsLost(f))
            BY <1>7 DEF TableIsLost
        <3> QED
            BY <1>2, <1>7, <1>10, <3>1, MovedIs
    <2>2. RepairTypeOK'
        BY <1>1, <1>2, <1>4, <1>10, <2>1 DEF RepairTypeOK
    <2>3. RepairerKnows'
        <3>1. \A m \in repair'.listed :
                 /\ m \in DOMAIN dir' /\ WholeTable(m)'
                 /\ ~repair'.misread => \A e \in dir'[m].entries : e <= repair'.max_sequence
            BY <1>2, <1>4, <1>7, <2>1 DEF RepairerKnows, WholeTable
        <3>2. \A m \in repair'.tables : (m \in DOMAIN dir' /\ dir'[m].kind = "table") \/ (m = repair'.file /\ Moved')
            BY <1>4, <1>5, <2>1 DEF Moved
        <3> QED
            BY <1>1, <1>2, <1>4, <1>5, <1>10, <2>1, <3>1, <3>2 DEF RepairerKnows, Copying, f
    <2>4. CopyIsKnown'
        BY <1>4, <1>6, <1>7, <2>1 DEF CopyIsKnown
    <2>5. AllIsInHand'
        <3> SUFFICES ASSUME repair_faults = 0 PROVE AllIsInHand'
            BY <1>10 DEF AllIsInHand
        <3>1. /\ at_first = Kept(InHand) \cup repair.read /\ \A m \in DOMAIN dir \ InHand : dir[m].entries = {}
              /\ dir[f].entries = repair.read
            BY <1>1, <1>2 DEF AllIsInHand, Copying, f
        <3>2. InHand' = InHand /\ f \in InHand
            BY <1>4, <1>5 DEF InHand
        <3>3. Kept(InHand)' \cup repair.read = Kept(InHand) \cup repair.read
            <4>1. ASSUME NEW e PROVE e \in Kept(InHand)' \cup repair.read <=> e \in Kept(InHand) \cup repair.read
                BY <1>7, <2>1, <3>1, <3>2 DEF Kept
            <4> QED
                BY <4>1
        <3>4. \A m \in DOMAIN dir' \ InHand' : dir'[m].entries = {}
            BY <2>1, <3>1, <3>2
        <3>5. /\ f \notin DOMAIN dir' /\ <<"table", f>> \in DOMAIN lost_dir'
              /\ lost_dir'[<<"table", f>>].entries = repair.read
            BY <2>1, <3>1 DEF TableIsLost
        <3> QED
            BY <1>1, <1>4, <2>1, <3>1, <3>3, <3>4, <3>5 DEF AllIsInHand, Copying, Moved, TableIsLost
    <2>6. OneFault'
        <3>1. \A m \in DOMAIN dir' : dir'[m].kind = "log" => ~LogIsLost(m)'
            BY <1>2, <2>1 DEF OneFault
        <3>2. ASSUME repair_faults <= 1
              PROVE  /\ \A m \in DOMAIN dir' : dir'[m].kind = "table" /\ TableIsLost(m)' => WholeTable(m)'
                     /\ at_first \subseteq Readable(dir') \cup Readable(lost_dir')
            <4>1. \A m \in DOMAIN dir' : dir'[m].kind = "table" /\ TableIsLost(m)' => WholeTable(m)'
                BY <1>2, <2>1, <3>2 DEF OneFault, WholeTable
            <4>2. at_first \subseteq Readable(dir) \cup Readable(lost_dir)
                BY <1>2, <3>2 DEF OneFault
            <4>3. TableIsLost(f) => at_first \subseteq Readable(dir)
                BY <1>1, <1>2, <1>7, <3>2 DEF OneFault, f
            <4> QED
                BY <2>1, <4>1, <4>2, <4>3
        <3> QED
            BY <1>1, <1>4, <1>10, <2>1, <3>1, <3>2 DEF OneFault, Moved
    <2>7. NamesAreNew'
        <3> SUFFICES ASSUME repair_faults <= 1 PROVE NamesAreNew'
            BY <1>10 DEF NamesAreNew
        <3>1. LostBelow(repair.next)' /\ LostBelow(repair.copy)'
            BY <1>4, <1>5, <1>6, <1>8, <2>1 DEF LostBelow
        <3>2. \A m \in Nat : Stands(m) => Stands(m)'
            BY <1>1, <1>4, <2>1 DEF Stands, IsCopy, Copying, f, k
        <3>3. \A n : n = f => Stands(n)'
            BY <1>4 DEF Stands, Copying
        <3>4. Covered => Covered'
            <4> SUFFICES ASSUME Covered, NEW m \in Nat, TableIsLost(m)' PROVE \E n \in Nat : Stands(n)' /\ m <= n
                BY DEF Covered
            <4>1. CASE m = f
                BY <1>7, <3>3, <4>1
            <4>2. CASE TableIsLost(m)
                BY <3>2, <4>2 DEF Covered
            <4> QED
                BY <2>1, <4>1, <4>2
        <3>5. \A m : Leftover(m)' => Leftover(m) /\ dir'[m] = dir[m] /\ m \in Nat
            <4>1. DOMAIN dir \subseteq Nat
                BY <1>2 DEF RepairTypeOK
            <4> QED
                BY <1>1, <1>4, <2>1, <4>1 DEF Leftover, IsCopy, Copying, k
        <3>6. Covered' \/ (repair_faults' = 1 /\ \A m : Leftover(m)' => WholeTable(m)')
            BY <1>2, <1>10, <3>4, <3>5 DEF NamesAreNew, WholeTable
        <3>7. ASSUME repair_faults = 0, NEW m, Leftover(m)'
              PROVE  /\ dir'[m].kind = "table"
                     /\ WholeTable(m)' \/ (LostBelow(m)' /\ \A i \in repair'.tables : i < m)
            <4>1. Leftover(m) /\ dir'[m] = dir[m] /\ m \in Nat
                BY <3>5, <3>7
            <4>2. dir[m].kind = "table" /\ (WholeTable(m) \/ (LostBelow(m) /\ \A i \in repair.tables : i < m))
                BY <1>1, <1>2, <3>7, <4>1 DEF NamesAreNew
            <4>3. LostBelow(m) /\ (\A i \in repair.tables : i < m) => LostBelow(m)'
                BY <1>5, <2>1, <4>1 DEF LostBelow
            <4> QED
                BY <1>4, <4>1, <4>2, <4>3 DEF WholeTable
        <3> QED
            BY <1>4, <1>5, <1>10, <3>1, <3>6, <3>7 DEF NamesAreNew
    <2>8. OneCall'
        <3> SUFFICES ASSUME repair_calls <= 1, ~unarchived PROVE OneCall'
            BY <1>1, <2>1 DEF OneCall
        <3>1. /\ repair_calls # 0
              /\ at_first \subseteq Kept({m \in DOMAIN dir : ~IsCopy(m)}) \cup Readable(lost_dir)
              /\ \A m \in Nat : LogIsLost(m) \/ TableIsLost(m) => m < repair.next
              /\ \A m \in repair.tables : ~TableIsLost(m)
            BY <1>1, <1>2, <1>5 DEF OneCall
        <3>2. ASSUME NEW e \in Kept({m \in DOMAIN dir : ~IsCopy(m)})
              PROVE  e \in Kept({m \in DOMAIN dir : ~IsCopy(m)})' \cup Readable(lost_dir')
            <4>1. PICK m \in DOMAIN dir : ~IsCopy(m) /\ e \in dir[m].entries
                BY DEF Kept
            <4>2. CASE m = f
                BY <2>1, <4>1, <4>2
            <4>3. CASE m # f
                <5>1. m \in DOMAIN dir' /\ dir'[m] = dir[m] /\ ~IsCopy(m)'
                    BY <1>1, <1>4, <2>1, <4>1, <4>3 DEF IsCopy, Copying, k
                <5> QED
                    BY <4>1, <5>1 DEF Kept
            <4> QED
                BY <4>2, <4>3
        <3>3. Readable(lost_dir) \subseteq Readable(lost_dir')
            BY <1>5, <2>1, <3>1
        <3>4. at_first' \subseteq Kept({m \in DOMAIN dir : ~IsCopy(m)})' \cup Readable(lost_dir')
            BY <1>1, <3>1, <3>2, <3>3
        <3>5. \A m \in Nat : LogIsLost(m)' \/ TableIsLost(m)' => m < repair'.next
            BY <1>4, <1>5, <2>1, <3>1
        <3>6. \A m \in repair'.tables : m \in DOMAIN dir' => ~TableIsLost(m)'
            BY <1>4, <2>1, <3>1
        <3> QED
            BY <1>1, <1>4, <2>1, <3>1, <3>4, <3>5, <3>6 DEF OneCall, Moved
    <2> QED
        BY <2>2, <2>3, <2>4, <2>5, <2>6, <2>7, <2>8 DEF RepairInv
<1> QED
    BY <1>1, <1>9, <1>10 DEF f

LEMMA FinishCopyHolds == ASSUME RepairInv, FinishCopy PROVE RepairInv'
<1> DEFINE f == repair.file
           k == repair.copy
<1>1. /\ repair.at = "archived" /\ repair_faults' = repair_faults
      /\ \/ /\ repair.read = {} /\ dir' = dir
            /\ repair' = [repair EXCEPT !.at = "logs", !.tables = repair.tables \ {f}]
         \/ /\ repair.read # {} /\ dir' = WithFile(dir, k, Table(repair.read, "whole"))
            /\ repair' = [repair EXCEPT !.at = "finished"]
      /\ lost_dir' = lost_dir /\ unarchived' = unarchived
      /\ descriptor' = descriptor /\ repair_calls' = repair_calls /\ at_first' = at_first
    BY DEF FinishCopy, NoFault
<1>2. RepairTypeOK /\ RepairerKnows /\ CopyIsKnown /\ AllIsInHand /\ OneFault /\ NamesAreNew /\ OneCall
    BY DEF RepairInv
<1>3. /\ repair \in RepairerType /\ repair_faults \in Nat /\ DOMAIN dir \subseteq Nat \ {0}
      /\ repair.read \in EntrySets
    <2>1. repair \in RepairerType
        BY <1>2 DEF RepairTypeOK
    <2> QED
        BY <1>2, <2>1 DEF RepairTypeOK, RepairerType
<1>4. /\ f \in repair.tables /\ repair.logs = {} /\ repair.tables \cap repair.listed = {}
      /\ \A m \in repair.tables \ {f} : m \in DOMAIN dir /\ dir[m].kind = "table"
      /\ \A m \in DOMAIN dir \cup repair.tables : m < repair.next
    BY <1>1, <1>2 DEF RepairerKnows, Copying, Moved
<1>5. /\ k \in DOMAIN dir /\ k \notin repair.listed /\ (\A m \in repair.tables : m < k)
      /\ dir[k] = Table({}, "unfinished")
    BY <1>1, <1>2 DEF CopyIsKnown, Copying
<1>6. /\ f \in Nat /\ k \in Nat \ {0} /\ k \notin repair.tables /\ f # k
      /\ dir[k].kind = "table" /\ dir[k].entries = {}
    <2>1. k \in Nat \ {0} /\ f \in Nat /\ repair.tables \subseteq Nat
        BY <1>3, <1>4, <1>5 DEF RepairerType
    <2> QED
        BY <1>4, <1>5, <2>1 DEF Table
<1>7. repair_faults <= 1 => LostBelow(repair.next) /\ LostBelow(k)
    BY <1>1, <1>2 DEF NamesAreNew, AllWhole, Copying
<1>8. /\ repair_faults = 0 => f \notin DOMAIN dir
      /\ repair_calls <= 1 /\ ~unarchived => f \notin DOMAIN dir
    BY <1>1, <1>2 DEF AllIsInHand, OneCall, Moved
<1>9. \A m : (LogIsLost(m)' <=> LogIsLost(m)) /\ (TableIsLost(m)' <=> TableIsLost(m)) /\ (LostBelow(m)' <=> LostBelow(m))
    BY <1>1, LostStays
<1>10. Readable(lost_dir') = Readable(lost_dir)
    BY <1>1
<1> HIDE DEF f, k
<1>11. CASE /\ repair.read = {} /\ dir' = dir
            /\ repair' = [repair EXCEPT !.at = "logs", !.tables = repair.tables \ {f}]
    <2>1. /\ repair'.at = "logs" /\ repair'.next = repair.next /\ repair'.tables = repair.tables \ {f}
          /\ repair'.logs = {} /\ repair'.listed = repair.listed
          /\ repair'.max_sequence = repair.max_sequence /\ repair'.misread = repair.misread
          /\ repair' \in RepairerType
        <3>1. repair' \in RepairerType
            BY <1>3, <1>11 DEF RepairerType, RepairStages
        <3> QED
            BY <1>3, <1>4, <1>11, <3>1 DEF RepairerType
    <2>2. RepairTypeOK'
        BY <1>1, <1>2, <1>11, <2>1 DEF RepairTypeOK
    <2>3. RepairerKnows'
        <3>1. \A m \in repair'.tables : m \in DOMAIN dir' /\ dir'[m].kind = "table"
            BY <1>4, <1>11, <2>1
        <3>2. \A m \in repair'.listed :
                 /\ m \in DOMAIN dir' /\ WholeTable(m)'
                 /\ ~repair'.misread => \A e \in dir'[m].entries : e <= repair'.max_sequence
            BY <1>2, <1>11, <2>1 DEF RepairerKnows, WholeTable
        <3> QED
            BY <1>1, <1>2, <1>4, <1>11, <2>1, <3>1, <3>2 DEF RepairerKnows, Copying
    <2>4. AllIsInHand'
        <3> SUFFICES ASSUME repair_faults = 0 PROVE AllIsInHand'
            BY <1>1 DEF AllIsInHand
        <3>1. at_first = Kept(InHand) /\ \A m \in DOMAIN dir \ InHand : dir[m].entries = {}
            BY <1>1, <1>2, <1>11 DEF AllIsInHand, Copying
        <3>2. InHand' = InHand \ {f} /\ f \notin DOMAIN dir
            BY <1>4, <1>8, <2>1 DEF InHand
        <3>3. Kept(InHand)' = Kept(InHand)
            BY <1>11, <3>2 DEF Kept
        <3>4. \A m \in DOMAIN dir' \ InHand' : dir'[m].entries = {}
            BY <1>11, <3>1, <3>2
        <3> QED
            BY <1>1, <2>1, <3>1, <3>3, <3>4 DEF AllIsInHand, Copying, Moved
    <2>5. OneFault'
        BY <1>1, <1>2, <1>9, <1>10, <1>11, <2>1 DEF OneFault, Moved, WholeTable
    <2>6. NamesAreNew'
        <3> SUFFICES ASSUME repair_faults <= 1 PROVE NamesAreNew'
            BY <1>1 DEF NamesAreNew
        <3>1. \A m : m = k => Stands(m)'
            BY <1>5, <1>6, <1>11, <2>1 DEF Stands, IsCopy, Copying
        <3>2. \A m \in Nat : TableIsLost(m)' => m <= k
            BY <1>6, <1>7, <1>9 DEF LostBelow
        <3>3. Covered'
            BY <1>6, <3>1, <3>2 DEF Covered
        <3>4. ASSUME repair_faults = 0, NEW m, Leftover(m)'
              PROVE  /\ dir'[m].kind = "table"
                     /\ WholeTable(m)' \/ (LostBelow(m)' /\ \A i \in repair'.tables : i < m)
            <4>1. m \in DOMAIN dir /\ m \notin repair.tables \ {f}
                BY <1>11, <2>1, <3>4 DEF Leftover
            <4>2. CASE m = k
                BY <1>5, <1>6, <1>7, <1>9, <1>11, <2>1, <3>4, <4>2
            <4>3. CASE m # k
                <5>1. Leftover(m)
                    BY <1>4, <1>8, <3>4, <4>1, <4>3 DEF Leftover, IsCopy, k
                <5>2. dir[m].kind = "table" /\ (WholeTable(m) \/ (LostBelow(m) /\ \A i \in repair.tables : i < m))
                    BY <1>1, <1>2, <3>4, <5>1 DEF NamesAreNew
                <5> QED
                    BY <1>9, <1>11, <2>1, <5>2 DEF WholeTable
            <4> QED
                BY <4>2, <4>3
        <3>5. LostBelow(repair.next)'
            BY <1>7, <1>9, <2>1 DEF LostBelow
        <3> QED
            BY <1>1, <2>1, <3>3, <3>4, <3>5 DEF NamesAreNew, Copying
    <2>7. OneCall'
        <3> SUFFICES ASSUME repair_calls <= 1, ~unarchived PROVE OneCall'
            BY <1>1 DEF OneCall
        <3>1. /\ repair_calls # 0
              /\ at_first \subseteq Kept({m \in DOMAIN dir : ~IsCopy(m)}) \cup Readable(lost_dir)
              /\ \A m \in Nat : LogIsLost(m) \/ TableIsLost(m) => m < repair.next
              /\ \A m \in repair.tables : m \in DOMAIN dir => ~TableIsLost(m)
            BY <1>1, <1>2 DEF OneCall
        <3>2. Kept({m \in DOMAIN dir : ~IsCopy(m)}) \subseteq Kept({m \in DOMAIN dir : ~IsCopy(m)})'
            BY <1>11, <2>1 DEF Kept, IsCopy, Copying
        <3> QED
            BY <1>1, <1>9, <1>10, <1>11, <2>1, <3>1, <3>2 DEF OneCall, Moved
    <2> QED
        BY <2>1, <2>2, <2>3, <2>4, <2>5, <2>6, <2>7 DEF RepairInv, CopyIsKnown, Copying
<1>12. CASE /\ repair.read # {} /\ dir' = WithFile(dir, k, Table(repair.read, "whole"))
            /\ repair' = [repair EXCEPT !.at = "finished"]
    <2>1. /\ repair'.at = "finished" /\ repair'.next = repair.next /\ repair'.tables = repair.tables
          /\ repair'.logs = {} /\ repair'.listed = repair.listed /\ repair'.file = f /\ repair'.copy = k
          /\ repair'.scanned = repair.scanned /\ repair'.read = repair.read
          /\ repair'.max_sequence = repair.max_sequence /\ repair'.misread = repair.misread
          /\ repair' \in RepairerType
        <3>1. repair' \in RepairerType
            BY <1>3, <1>12 DEF RepairerType, RepairStages, Copying
        <3> QED
            BY <1>3, <1>4, <1>12, <3>1 DEF RepairerType, f, k
    <2>2. /\ DOMAIN dir' = DOMAIN dir /\ \A m \in DOMAIN dir \ {k} : dir'[m] = dir[m]
          /\ dir'[k] = Table(repair.read, "whole")
          /\ dir'[k].kind = "table" /\ dir'[k].entries = repair.read /\ dir'[k].state = "whole"
          /\ Found(dir') /\ IsFiniteSet(DOMAIN dir') /\ DOMAIN dir' \subseteq Nat \ {0}
        <3>1. "whole" \in {"whole", "unfinished"} /\ DOMAIN dir \cup {k} = DOMAIN dir
            BY <1>5
        <3>2. /\ DOMAIN dir' = DOMAIN dir \cup {k} /\ \A m \in DOMAIN dir \ {k} : dir'[m] = dir[m]
              /\ dir'[k] = Table(repair.read, "whole")
              /\ dir'[k].kind = "table" /\ dir'[k].entries = repair.read /\ dir'[k].state = "whole"
              /\ Found(dir') /\ IsFiniteSet(DOMAIN dir') /\ DOMAIN dir' \subseteq Nat \ {0}
            BY <1>2, <1>3, <1>6, <1>12, <3>1, AddedIs
        <3> QED
            BY <3>1, <3>2
    <2>3. RepairTypeOK'
        BY <1>1, <1>2, <2>1, <2>2 DEF RepairTypeOK
    <2>4. RepairerKnows'
        <3>1. /\ \A m \in repair'.tables : \/ m \in DOMAIN dir' /\ dir'[m].kind = "table"
                                           \/ m = repair'.file /\ Moved'
              /\ \A m \in repair'.listed :
                    /\ m \in DOMAIN dir' /\ WholeTable(m)'
                    /\ ~repair'.misread => \A e \in dir'[m].entries : e <= repair'.max_sequence
            BY <1>2, <1>4, <1>5, <1>6, <2>1, <2>2 DEF RepairerKnows, WholeTable, Moved
        <3>2. ~repair'.misread => repair'.read \subseteq repair'.scanned
            BY <1>1, <1>2, <2>1 DEF RepairerKnows, Copying
        <3> QED
            BY <1>1, <1>2, <1>4, <2>1, <2>2, <3>1, <3>2 DEF RepairerKnows, Copying
    <2>5. CopyIsKnown'
        BY <1>5, <2>1, <2>2 DEF CopyIsKnown
    <2>6. AllIsInHand'
        <3> SUFFICES ASSUME repair_faults = 0 PROVE AllIsInHand'
            BY <1>1 DEF AllIsInHand
        <3>1. at_first = Kept(InHand) \cup repair.read /\ \A m \in DOMAIN dir \ InHand : dir[m].entries = {}
            BY <1>1, <1>2 DEF AllIsInHand, Copying
        <3>2. InHand' = InHand /\ k \notin InHand
            BY <1>4, <1>5, <1>6, <2>1 DEF InHand
        <3>3. Kept(InHand)' = Kept(InHand)
            BY <2>2, <3>2 DEF Kept
        <3>4. \A m \in DOMAIN dir' \ InHand' : m = k \/ dir'[m].entries = {}
            BY <2>2, <3>1, <3>2
        <3>5. f \notin DOMAIN dir /\ TableIsLost(f) /\ lost_dir[<<"table", f>>].entries = repair.read
            BY <1>1, <1>2 DEF AllIsInHand, Moved, f
        <3> QED
            BY <1>1, <2>1, <2>2, <3>1, <3>3, <3>4, <3>5 DEF AllIsInHand, Copying, Moved, TableIsLost
    <2>7. OneFault'
        <3>1. \A m \in DOMAIN dir' : dir'[m].kind = "log" => ~LogIsLost(m)'
            BY <1>2, <1>9, <2>2 DEF OneFault
        <3>2. ASSUME repair_faults <= 1
              PROVE  /\ \A m \in DOMAIN dir' : dir'[m].kind = "table" /\ TableIsLost(m)' => WholeTable(m)'
                     /\ at_first' \subseteq Readable(dir') \cup Readable(lost_dir')
                     /\ f \in DOMAIN dir' => dir'[f].entries \subseteq repair.read
            <4>1. \A m \in DOMAIN dir' : dir'[m].kind = "table" /\ TableIsLost(m)' => WholeTable(m)'
                BY <1>2, <1>9, <2>2, <3>2 DEF OneFault, WholeTable
            <4>2. Readable(dir) \subseteq Readable(dir')
                BY <1>6, <2>2 DEF Readable
            <4>3. at_first \subseteq Readable(dir) \cup Readable(lost_dir)
                BY <1>2, <3>2 DEF OneFault
            <4>4. f \in DOMAIN dir => dir[f].entries \subseteq repair.read
                BY <1>1, <1>2, <3>2 DEF OneFault, Moved, f
            <4> QED
                BY <1>1, <1>6, <2>2, <4>1, <4>2, <4>3, <4>4
        <3> QED
            BY <1>1, <2>1, <3>1, <3>2 DEF OneFault, Moved
    <2>8. NamesAreNew'
        <3> SUFFICES ASSUME repair_faults <= 1 PROVE NamesAreNew'
            BY <1>1 DEF NamesAreNew
        <3>1. LostBelow(repair.next)' /\ LostBelow(repair.copy)'
            BY <1>7, <1>9, <2>1 DEF LostBelow
        <3>2. \A m \in Nat : Stands(m) => Stands(m)'
            BY <1>1, <2>1, <2>2 DEF Stands, IsCopy, Copying, f, k
        <3>3. Covered => Covered'
            BY <1>9, <3>2 DEF Covered
        <3>4. \A m : Leftover(m)' => Leftover(m) /\ dir'[m] = dir[m]
            BY <1>1, <1>4, <2>1, <2>2 DEF Leftover, IsCopy, Copying, k
        <3>5. Covered' \/ (repair_faults' = 1 /\ \A m : Leftover(m)' => WholeTable(m)')
            BY <1>1, <1>2, <3>3, <3>4 DEF NamesAreNew, WholeTable
        <3>6. ASSUME repair_faults = 0, NEW m, Leftover(m)'
              PROVE  /\ dir'[m].kind = "table"
                     /\ WholeTable(m)' \/ (LostBelow(m)' /\ \A i \in repair'.tables : i < m)
            <4>1. Leftover(m) /\ dir'[m] = dir[m]
                BY <3>4, <3>6
            <4>2. dir[m].kind = "table" /\ (WholeTable(m) \/ (LostBelow(m) /\ \A i \in repair.tables : i < m))
                BY <1>1, <1>2, <3>6, <4>1 DEF NamesAreNew
            <4> QED
                BY <1>9, <2>1, <4>1, <4>2 DEF WholeTable
        <3> QED
            BY <1>1, <2>1, <3>1, <3>5, <3>6 DEF NamesAreNew
    <2>9. OneCall'
        <3> SUFFICES ASSUME repair_calls <= 1, ~unarchived PROVE OneCall'
            BY <1>1 DEF OneCall
        <3>1. /\ repair_calls # 0
              /\ at_first \subseteq Kept({m \in DOMAIN dir : ~IsCopy(m)}) \cup Readable(lost_dir)
              /\ \A m \in Nat : LogIsLost(m) \/ TableIsLost(m) => m < repair.next
              /\ \A m \in repair.tables : m \in DOMAIN dir => ~TableIsLost(m)
            BY <1>1, <1>2 DEF OneCall
        <3>2. Kept({m \in DOMAIN dir : ~IsCopy(m)}) \subseteq Kept({m \in DOMAIN dir : ~IsCopy(m)})'
            BY <1>1, <2>1, <2>2 DEF Kept, IsCopy, Copying, k
        <3>3. f \notin DOMAIN dir'
            BY <1>8, <2>2
        <3> QED
            BY <1>1, <1>9, <1>10, <2>1, <2>2, <3>1, <3>2, <3>3 DEF OneCall, Moved
    <2> QED
        BY <2>3, <2>4, <2>5, <2>6, <2>7, <2>8, <2>9 DEF RepairInv
<1> QED
    BY <1>1, <1>11, <1>12 DEF f, k

LEMMA RenameCopyHolds == ASSUME RepairInv, RenameCopy PROVE RepairInv'
<1> DEFINE f == repair.file
           k == repair.copy
<1>1. /\ repair.at = "finished" /\ repair_faults' = repair_faults
      /\ dir' = WithFile(WithoutFile(dir, k), f, dir[k]) /\ repair' = Listing(repair, f, repair.scanned)
      /\ lost_dir' = lost_dir /\ unarchived' = unarchived
      /\ descriptor' = descriptor /\ repair_calls' = repair_calls /\ at_first' = at_first
    BY DEF RenameCopy, NoFault
<1>2. RepairTypeOK /\ RepairerKnows /\ CopyIsKnown /\ AllIsInHand /\ OneFault /\ NamesAreNew /\ OneCall
    BY DEF RepairInv
<1>3. repair \in RepairerType /\ DOMAIN dir \subseteq Nat \ {0} /\ Found(dir) /\ IsFiniteSet(DOMAIN dir)
    BY <1>2 DEF RepairTypeOK
<1>4. /\ f \in repair.tables /\ repair.logs = {} /\ repair.tables \cap repair.listed = {}
      /\ \A m \in repair.tables \ {f} : m \in DOMAIN dir /\ dir[m].kind = "table"
      /\ \A m \in DOMAIN dir \cup repair.tables : m < repair.next
    BY <1>1, <1>2 DEF RepairerKnows, Copying, Moved
<1>5. /\ k \in DOMAIN dir /\ k \notin repair.listed /\ (\A m \in repair.tables : m < k)
      /\ dir[k] = Table(repair.read, "whole")
    BY <1>1, <1>2 DEF CopyIsKnown, Copying
<1>6. /\ f \in Nat \ {0} /\ k \in Nat /\ k \notin repair.tables /\ f # k
      /\ dir[k].kind = "table" /\ dir[k].entries = repair.read /\ dir[k].state = "whole"
      /\ dir[k] \in RepairFile /\ repair.scanned \in EntrySets
    <2>1. k \in Nat /\ f \in Nat \ {0} /\ repair.tables \subseteq Nat /\ repair.scanned \in EntrySets
        BY <1>3, <1>4, <1>5 DEF RepairerType
    <2>2. dir[k] \in RepairFile
        BY <1>3, <1>5 DEF Found
    <2> QED
        BY <1>4, <1>5, <2>1, <2>2 DEF Table
<1>7. repair_faults <= 1 => LostBelow(repair.next)
    BY <1>1, <1>2 DEF NamesAreNew, AllWhole
<1>8. /\ repair_faults = 0 => f \notin DOMAIN dir
      /\ repair_calls <= 1 /\ ~unarchived => f \notin DOMAIN dir
      /\ repair_faults <= 1 /\ f \in DOMAIN dir => dir[f].entries \subseteq repair.read
    BY <1>1, <1>2 DEF AllIsInHand, OneCall, OneFault, Moved
<1>9. \A m : (LogIsLost(m)' <=> LogIsLost(m)) /\ (TableIsLost(m)' <=> TableIsLost(m)) /\ (LostBelow(m)' <=> LostBelow(m))
    BY <1>1, LostStays
<1>10. Readable(lost_dir') = Readable(lost_dir)
    BY <1>1
<1> HIDE DEF f, k
<1>11. /\ repair'.at = "logs" /\ repair'.next = repair.next /\ repair'.tables = repair.tables \ {f}
       /\ repair'.logs = {} /\ repair'.listed = repair.listed \cup {f} /\ repair'.misread = repair.misread
       /\ repair'.max_sequence \in Nat /\ repair.max_sequence <= repair'.max_sequence
       /\ \A e \in repair.scanned : e <= repair'.max_sequence
       /\ repair' \in RepairerType
    BY <1>1, <1>3, <1>4, <1>6, ListingIs
<1>12. /\ DOMAIN dir' = (DOMAIN dir \ {k}) \cup {f} /\ \A m \in DOMAIN dir' \ {f} : dir'[m] = dir[m]
       /\ dir'[f].kind = "table" /\ dir'[f].entries = repair.read /\ dir'[f].state = "whole"
       /\ Found(dir') /\ IsFiniteSet(DOMAIN dir') /\ DOMAIN dir' \subseteq Nat \ {0}
    <2> DEFINE others == WithoutFile(dir, k)
    <2>1. /\ DOMAIN others = DOMAIN dir \ {k} /\ \A m \in DOMAIN dir \ {k} : others[m] = dir[m]
          /\ Found(others)
        BY <1>3, WithoutFileIs
    <2>2. dir' = WithFile(others, f, dir[k])
        BY <1>1
    <2> HIDE DEF others
    <2>3. /\ DOMAIN dir' = DOMAIN others \cup {f} /\ dir'[f] = dir[k]
          /\ \A m \in DOMAIN others \ {f} : dir'[m] = others[m]
          /\ Found(dir')
        BY <1>6, <2>1, <2>2 DEF WithFile, Found
    <2>4. IsFiniteSet(DOMAIN dir')
        BY <1>3, <2>1, <2>3, FS_AddElement, FS_RemoveElement
    <2> QED
        BY <1>3, <1>6, <2>1, <2>3, <2>4
<1>13. RepairTypeOK'
    BY <1>1, <1>2, <1>11, <1>12 DEF RepairTypeOK
<1>14. RepairerKnows'
    <2>1. \A m \in repair'.tables : m \in DOMAIN dir' /\ dir'[m].kind = "table"
        BY <1>4, <1>6, <1>11, <1>12
    <2>2. ASSUME NEW m \in repair'.listed
          PROVE  /\ m \in DOMAIN dir' /\ WholeTable(m)'
                 /\ ~repair'.misread => \A e \in dir'[m].entries : e <= repair'.max_sequence
        <3>1. CASE m = f
            <4>1. ~repair.misread => repair.read \subseteq repair.scanned
                BY <1>1, <1>2 DEF RepairerKnows, Copying
            <4> QED
                BY <1>11, <1>12, <3>1, <4>1 DEF WholeTable
        <3>2. CASE m # f
            <4>1. /\ m \in DOMAIN dir /\ WholeTable(m)
                  /\ ~repair.misread => \A e \in dir[m].entries : e <= repair.max_sequence
                BY <1>2, <1>11, <2>2, <3>2 DEF RepairerKnows
            <4>2. m # k
                BY <1>5, <1>11, <2>2, <3>2
            <4>3. \A e \in dir[m].entries : e \in Nat
                BY <1>3, <4>1 DEF Found, RepairFile, EntrySets
            <4>4. repair.max_sequence \in Nat
                BY <1>3 DEF RepairerType
            <4> QED
                BY <1>11, <1>12, <3>2, <4>1, <4>2, <4>3, <4>4 DEF WholeTable
        <3> QED
            BY <3>1, <3>2
    <2>3. \A m \in DOMAIN dir' \cup repair'.tables : m < repair'.next
        BY <1>4, <1>11, <1>12
    <2>4. repair'.tables \cap repair'.listed = {} /\ (repair_faults' = 0 => ~repair'.misread)
        BY <1>1, <1>2, <1>4, <1>11 DEF RepairerKnows
    <2> QED
        BY <1>11, <2>1, <2>2, <2>3, <2>4 DEF RepairerKnows, Copying
<1>15. AllIsInHand'
    <2> SUFFICES ASSUME repair_faults = 0 PROVE AllIsInHand'
        BY <1>1 DEF AllIsInHand
    <2>1. /\ at_first = Kept(InHand) \cup repair.read
          /\ \A m \in DOMAIN dir \ InHand : m = k \/ dir[m].entries = {}
        BY <1>1, <1>2 DEF AllIsInHand, Copying, k
    <2>2. InHand' = InHand /\ k \notin InHand /\ f \in InHand /\ f \notin DOMAIN dir
        BY <1>4, <1>5, <1>6, <1>8, <1>11 DEF InHand
    <2>3. Kept(InHand)' = Kept(InHand) \cup repair.read
        <3>1. ASSUME NEW e PROVE e \in Kept(InHand)' <=> e \in Kept(InHand) \cup repair.read
            BY <1>12, <2>2 DEF Kept
        <3> QED
            BY <3>1
    <2>4. \A m \in DOMAIN dir' \ InHand' : dir'[m].entries = {}
        BY <1>12, <2>1, <2>2
    <2> QED
        BY <1>1, <1>11, <2>1, <2>3, <2>4 DEF AllIsInHand, Copying, Moved
<1>16. OneFault'
    <2>1. \A m \in DOMAIN dir' : dir'[m].kind = "log" => ~LogIsLost(m)'
        BY <1>2, <1>9, <1>12 DEF OneFault
    <2>2. ASSUME repair_faults <= 1
          PROVE  /\ \A m \in DOMAIN dir' : dir'[m].kind = "table" /\ TableIsLost(m)' => WholeTable(m)'
                 /\ at_first' \subseteq Readable(dir') \cup Readable(lost_dir')
        <3>1. \A m \in DOMAIN dir' : dir'[m].kind = "table" /\ TableIsLost(m)' => WholeTable(m)'
            BY <1>2, <1>9, <1>12, <2>2 DEF OneFault, WholeTable
        <3>2. ASSUME NEW e \in Readable(dir) PROVE e \in Readable(dir')
            <4>1. PICK m \in DOMAIN dir : e \in dir[m].entries
                BY DEF Readable
            <4>2. CASE m \in {f, k}
                <5>1. e \in dir'[f].entries /\ f \in DOMAIN dir'
                    BY <1>6, <1>8, <1>12, <2>2, <4>1, <4>2
                <5> QED
                    BY <5>1 DEF Readable
            <4>3. CASE m \notin {f, k}
                BY <1>12, <4>1, <4>3 DEF Readable
            <4> QED
                BY <4>2, <4>3
        <3>3. at_first \subseteq Readable(dir) \cup Readable(lost_dir)
            BY <1>2, <2>2 DEF OneFault
        <3> QED
            BY <1>1, <1>10, <3>1, <3>2, <3>3
    <2> QED
        BY <1>1, <1>11, <2>1, <2>2 DEF OneFault, Moved
<1>17. NamesAreNew'
    <2> SUFFICES ASSUME repair_faults <= 1 PROVE NamesAreNew'
        BY <1>1 DEF NamesAreNew
    <2>1. LostBelow(repair.next)'
        BY <1>7, <1>9, <1>11 DEF LostBelow
    <2>2. ASSUME NEW m \in Nat, Stands(m) PROVE Stands(m)'
        <3>1. m = f \/ (m \in DOMAIN dir /\ dir[m].kind = "table" /\ m # k)
            BY <1>1, <2>2 DEF Stands, IsCopy, Copying, f, k
        <3> QED
            BY <1>11, <1>12, <3>1 DEF Stands, IsCopy, Copying
    <2>3. Covered => Covered'
        BY <1>9, <2>2 DEF Covered
    <2>4. ASSUME NEW m, Leftover(m)' PROVE WholeTable(m)' \/ (Leftover(m) /\ dir'[m] = dir[m])
        BY <1>4, <1>11, <1>12, <2>4 DEF Leftover, IsCopy, k, WholeTable
    <2>5. Covered' \/ (repair_faults' = 1 /\ \A m : Leftover(m)' => WholeTable(m)')
        BY <1>1, <1>2, <2>3, <2>4 DEF NamesAreNew, WholeTable
    <2>6. ASSUME repair_faults = 0, NEW m, Leftover(m)'
          PROVE  /\ dir'[m].kind = "table"
                 /\ WholeTable(m)' \/ (LostBelow(m)' /\ \A i \in repair'.tables : i < m)
        <3>1. CASE WholeTable(m)'
            BY <3>1 DEF WholeTable
        <3>2. CASE Leftover(m) /\ dir'[m] = dir[m]
            <4>1. dir[m].kind = "table" /\ (WholeTable(m) \/ (LostBelow(m) /\ \A i \in repair.tables : i < m))
                BY <1>1, <1>2, <2>6, <3>2 DEF NamesAreNew
            <4> QED
                BY <1>9, <1>11, <3>2, <4>1 DEF WholeTable
        <3> QED
            BY <2>4, <2>6, <3>1, <3>2
    <2> QED
        BY <1>1, <1>11, <2>1, <2>5, <2>6 DEF NamesAreNew, Copying
<1>18. OneCall'
    <2> SUFFICES ASSUME repair_calls <= 1, ~unarchived PROVE OneCall'
        BY <1>1 DEF OneCall
    <2>1. /\ repair_calls # 0
          /\ at_first \subseteq Kept({m \in DOMAIN dir : ~IsCopy(m)}) \cup Readable(lost_dir)
          /\ \A m \in Nat : LogIsLost(m) \/ TableIsLost(m) => m < repair.next
          /\ \A m \in repair.tables : m \in DOMAIN dir => ~TableIsLost(m)
        BY <1>1, <1>2 DEF OneCall
    <2>2. Kept({m \in DOMAIN dir : ~IsCopy(m)}) \subseteq Kept({m \in DOMAIN dir : ~IsCopy(m)})'
        BY <1>1, <1>8, <1>11, <1>12 DEF Kept, IsCopy, Copying, k
    <2>3. \A m \in repair'.tables : m \in DOMAIN dir' => ~TableIsLost(m)'
        BY <1>9, <1>11, <1>12, <2>1
    <2> QED
        BY <1>1, <1>9, <1>10, <1>11, <2>1, <2>2, <2>3 DEF OneCall, Moved
<1> QED
    BY <1>11, <1>13, <1>14, <1>15, <1>16, <1>17, <1>18 DEF RepairInv, CopyIsKnown, Copying

LEMMA CopyFailsHolds == ASSUME RepairInv, CopyFails PROVE RepairInv'
<1> DEFINE f == repair.file
           k == repair.copy
<1>1. /\ repair.at \in {"copy", "archived", "finished"} /\ repair_faults' = repair_faults + 1
      /\ repair.at = "copy" => dir' = dir
      /\ repair.at # "copy" => dir' = WithoutFile(dir, k)
      /\ repair' = [repair EXCEPT !.at = "logs", !.tables = repair.tables \ {f}]
      /\ lost_dir' = lost_dir /\ unarchived' = unarchived
      /\ descriptor' = descriptor /\ repair_calls' = repair_calls /\ at_first' = at_first
    BY DEF CopyFails, Fault
<1>2. RepairTypeOK /\ RepairerKnows /\ CopyIsKnown /\ AllIsInHand /\ OneFault /\ NamesAreNew /\ OneCall
    BY DEF RepairInv
<1>3. /\ repair \in RepairerType /\ Found(dir) /\ IsFiniteSet(DOMAIN dir) /\ repair_faults \in Nat
      /\ DOMAIN dir \subseteq Nat \ {0}
    BY <1>2 DEF RepairTypeOK
<1>4. /\ f \in repair.tables /\ repair.logs = {} /\ repair.tables \cap repair.listed = {}
      /\ \A m \in repair.tables \ {f} : m \in DOMAIN dir /\ dir[m].kind = "table"
      /\ \A m \in DOMAIN dir \cup repair.tables : m < repair.next
      /\ \A m \in repair.listed :
            /\ m \in DOMAIN dir /\ WholeTable(m)
            /\ ~repair.misread => \A e \in dir[m].entries : e <= repair.max_sequence
    BY <1>1, <1>2 DEF RepairerKnows, Copying, Moved
<1>5. repair.at # "copy" => k \in DOMAIN dir /\ k \notin repair.listed /\ k \notin repair.tables
    <2>1. repair.at # "copy" => k \in DOMAIN dir /\ k \notin repair.listed /\ (\A m \in repair.tables : m < k)
        BY <1>1, <1>2 DEF CopyIsKnown, Copying
    <2>2. k \in Nat
        BY <1>3 DEF RepairerType
    <2> QED
        BY <2>1, <2>2
<1>6. repair_faults = 0 => LostBelow(repair.next) /\ Covered
    BY <1>1, <1>2 DEF NamesAreNew
<1>7. /\ repair'.at = "logs" /\ repair'.next = repair.next /\ repair'.tables = repair.tables \ {f}
      /\ repair'.logs = {} /\ repair'.listed = repair.listed /\ repair'.misread = repair.misread
      /\ repair'.max_sequence = repair.max_sequence /\ repair' \in RepairerType
    <2>1. repair' \in RepairerType
        BY <1>1, <1>3 DEF RepairerType, RepairStages
    <2> QED
        BY <1>1, <1>3, <1>4, <2>1 DEF RepairerType
<1>8. repair_faults' # 0 /\ repair_faults' \in Nat /\ (repair_faults' <= 1 => repair_faults = 0 /\ repair_faults' = 1)
    BY <1>1, <1>3
<1>9. \A m : (LogIsLost(m)' <=> LogIsLost(m)) /\ (TableIsLost(m)' <=> TableIsLost(m)) /\ (LostBelow(m)' <=> LostBelow(m))
    BY <1>1, LostStays
<1>10. repair_faults = 0 => LostBelow(repair.next)'
    BY <1>6, <1>7, <1>9 DEF LostBelow
<1>11. repair_calls <= 1 /\ ~unarchived =>
          /\ repair_calls # 0
          /\ at_first \subseteq Kept({m \in DOMAIN dir : ~IsCopy(m)}) \cup Readable(lost_dir)
          /\ \A m \in Nat : LogIsLost(m) \/ TableIsLost(m) => m < repair.next
          /\ \A m \in repair.tables : m \in DOMAIN dir => ~TableIsLost(m)
    BY <1>1, <1>2 DEF OneCall
<1> HIDE DEF f, k
<1>12. AllIsInHand' /\ CopyIsKnown'
    BY <1>7, <1>8 DEF AllIsInHand, CopyIsKnown, Copying
<1>13. CASE repair.at = "copy" /\ dir' = dir
    <2>1. RepairTypeOK'
        BY <1>1, <1>2, <1>7, <1>8, <1>13 DEF RepairTypeOK
    <2>2. RepairerKnows'
        BY <1>4, <1>7, <1>8, <1>13 DEF RepairerKnows, Copying, WholeTable
    <2>3. OneFault'
        BY <1>1, <1>2, <1>7, <1>8, <1>9, <1>13 DEF OneFault, Moved, WholeTable
    <2>4. repair_faults = 0 => Covered'
        BY <1>6, <1>7, <1>9, <1>13 DEF Covered, Stands, IsCopy, Copying
    <2>5. NamesAreNew'
        BY <1>7, <1>8, <1>10, <2>4 DEF NamesAreNew, Copying
    <2>6. Kept({m \in DOMAIN dir : ~IsCopy(m)}) \subseteq Kept({m \in DOMAIN dir : ~IsCopy(m)})'
        BY <1>7, <1>13 DEF Kept, IsCopy, Copying
    <2>7. OneCall'
        BY <1>1, <1>7, <1>9, <1>11, <1>13, <2>6 DEF OneCall, Moved
    <2> QED
        BY <1>12, <2>1, <2>2, <2>3, <2>5, <2>7 DEF RepairInv
<1>14. CASE repair.at \in {"archived", "finished"} /\ dir' = WithoutFile(dir, k)
    <2>1. /\ DOMAIN dir' = DOMAIN dir \ {k} /\ \A m \in DOMAIN dir \ {k} : dir'[m] = dir[m]
          /\ Found(dir') /\ IsFiniteSet(DOMAIN dir') /\ DOMAIN dir' \subseteq Nat \ {0}
        <3>1. DOMAIN dir' = DOMAIN dir \ {k} /\ \A m \in DOMAIN dir \ {k} : dir'[m] = dir[m]
            BY <1>14, WithoutFileIs
        <3>2. Found(dir')
            BY <1>3, <1>14 DEF Found, WithoutFile, Restrict
        <3> QED
            BY <1>3, <3>1, <3>2, FS_RemoveElement
    <2>2. k \in DOMAIN dir /\ k \notin repair.listed /\ k \notin repair.tables
        BY <1>5, <1>14
    <2>3. RepairTypeOK'
        BY <1>1, <1>2, <1>7, <1>8, <2>1 DEF RepairTypeOK
    <2>4. RepairerKnows'
        <3>1. /\ \A m \in repair'.tables : m \in DOMAIN dir' /\ dir'[m].kind = "table"
              /\ \A m \in repair'.listed :
                    /\ m \in DOMAIN dir' /\ WholeTable(m)'
                    /\ ~repair'.misread => \A e \in dir'[m].entries : e <= repair'.max_sequence
            BY <1>4, <1>7, <2>1, <2>2 DEF WholeTable
        <3> QED
            BY <1>4, <1>7, <1>8, <2>1, <3>1 DEF RepairerKnows, Copying
    <2>5. repair_faults = 0 => f \notin DOMAIN dir /\ at_first \subseteq Readable(dir') \cup Readable(lost_dir')
        <3> SUFFICES ASSUME repair_faults = 0
                     PROVE  f \notin DOMAIN dir /\ at_first \subseteq Readable(dir') \cup Readable(lost_dir')
            OBVIOUS
        <3>1. /\ at_first = Kept(InHand) \cup repair.read
              /\ f \notin DOMAIN dir /\ TableIsLost(f) /\ lost_dir[<<"table", f>>].entries = repair.read
            BY <1>2, <1>14 DEF AllIsInHand, Copying, Moved, f
        <3>2. k \notin InHand
            BY <1>4, <2>2 DEF InHand
        <3>3. Kept(InHand) \subseteq Readable(dir')
            BY <2>1, <3>2 DEF Kept, Readable
        <3>4. repair.read \subseteq Readable(lost_dir')
            BY <1>1, <3>1 DEF Readable, TableIsLost
        <3> QED
            BY <3>1, <3>3, <3>4
    <2>6. OneFault'
        <3>1. \A m \in DOMAIN dir' : dir'[m].kind = "log" => ~LogIsLost(m)'
            BY <1>2, <1>9, <2>1 DEF OneFault
        <3>2. repair_faults = 0 =>
                 \A m \in DOMAIN dir' : dir'[m].kind = "table" /\ TableIsLost(m)' => WholeTable(m)'
            BY <1>2, <1>9, <2>1 DEF OneFault, WholeTable
        <3> QED
            BY <1>1, <1>7, <1>8, <2>5, <3>1, <3>2 DEF OneFault, Moved
    <2>7. NamesAreNew'
        <3> SUFFICES ASSUME repair_faults = 0, repair_faults' = 1 PROVE NamesAreNew'
            BY <1>8 DEF NamesAreNew
        <3>1. \A m : Leftover(m)' => Leftover(m) /\ dir'[m] = dir[m]
            BY <1>4, <1>7, <2>1, <2>5 DEF Leftover, IsCopy, Copying, k
        <3>2. CASE \A m : Leftover(m) => WholeTable(m)
            <4>1. \A m : Leftover(m)' => WholeTable(m)'
                BY <3>1, <3>2 DEF WholeTable
            <4> QED
                BY <1>7, <1>10, <4>1 DEF NamesAreNew, Copying
        <3>3. ASSUME NEW m, Leftover(m), ~WholeTable(m) PROVE NamesAreNew'
            <4>1. dir[m].kind = "table" /\ LostBelow(m)
                BY <1>2, <1>14, <3>3 DEF NamesAreNew
            <4>2. m \in DOMAIN dir /\ m # k
                BY <1>14, <3>3 DEF Leftover, IsCopy, Copying, k
            <4>3. m \in Nat
                BY <1>3, <4>2
            <4>4. Stands(m)'
                BY <1>7, <2>1, <4>1, <4>2 DEF Stands, IsCopy, Copying
            <4>5. \A i \in Nat : TableIsLost(i)' => i <= m
                BY <1>9, <4>1, <4>3 DEF LostBelow
            <4>6. Covered'
                BY <4>3, <4>4, <4>5 DEF Covered
            <4> QED
                BY <1>7, <1>10, <4>6 DEF NamesAreNew, Copying
        <3> QED
            BY <3>2, <3>3
    <2>8. Kept({m \in DOMAIN dir : ~IsCopy(m)}) \subseteq Kept({m \in DOMAIN dir : ~IsCopy(m)})'
        BY <1>7, <1>14, <2>1 DEF Kept, IsCopy, Copying, k
    <2>9. OneCall'
        BY <1>1, <1>7, <1>9, <1>11, <2>1, <2>8 DEF OneCall, Moved
    <2> QED
        BY <1>12, <2>3, <2>4, <2>6, <2>7, <2>9 DEF RepairInv
<1> QED
    BY <1>1, <1>13, <1>14 DEF f, k

\* The descriptor is written when all is listed, or was left.
LEMMA DescriptorHolds == ASSUME RepairInv, ArchiveManifests \/ InstallDescriptor PROVE RepairInv'
<1>1. /\ \/ /\ repair.at = "logs" /\ repair.logs = {} /\ repair.tables = {}
            /\ repair' = [repair EXCEPT !.at = "described"]
         \/ /\ repair.at = "described" /\ repair' = [repair EXCEPT !.at = "done"]
            /\ descriptor' = [listed |-> repair.listed, next |-> repair.next, last |-> repair.max_sequence]
      /\ dir' = dir /\ lost_dir' = lost_dir /\ unarchived' = unarchived /\ repair_faults' = repair_faults
      /\ repair_calls' = repair_calls /\ at_first' = at_first
    BY DEF ArchiveManifests, InstallDescriptor, Reaches, NoFault, DirectoriesStay
<1>2. RepairTypeOK /\ RepairerKnows /\ AllIsInHand /\ OneFault /\ NamesAreNew /\ OneCall
    BY DEF RepairInv
<1>3. repair \in RepairerType /\ repair.logs = {} /\ repair.tables = {}
    BY <1>1, <1>2 DEF RepairTypeOK, RepairerKnows
<1>4. /\ repair'.at \in {"described", "done"} /\ repair'.next = repair.next /\ repair'.tables = {}
      /\ repair'.logs = {} /\ repair'.listed = repair.listed /\ repair'.misread = repair.misread
      /\ repair'.max_sequence = repair.max_sequence /\ repair' \in RepairerType
      /\ repair'.at = "done" =>
            descriptor' = [listed |-> repair.listed, next |-> repair.next, last |-> repair.max_sequence]
    <2>1. repair' \in RepairerType
        BY <1>1, <1>3 DEF RepairerType, RepairStages
    <2> QED
        BY <1>1, <1>3, <2>1 DEF RepairerType
<1>5. repair.at \in {"logs", "described"} /\ repair'.at \notin Copying /\ repair.at \notin Copying
    BY <1>1, <1>4 DEF Copying
<1>6. \A m : (LogIsLost(m)' <=> LogIsLost(m)) /\ (TableIsLost(m)' <=> TableIsLost(m)) /\ (LostBelow(m)' <=> LostBelow(m))
    BY <1>1, LostStays
<1>7. RepairTypeOK' /\ CopyIsKnown'
    BY <1>1, <1>2, <1>4, <1>5 DEF RepairTypeOK, CopyIsKnown
<1>8. RepairerKnows'
    BY <1>1, <1>2, <1>4, <1>5 DEF RepairerKnows, WholeTable, Copying
<1>9. AllIsInHand'
    <2>1. InHand' = InHand
        BY <1>3, <1>4 DEF InHand
    <2>2. Kept(InHand)' = Kept(InHand)
        BY <1>1, <2>1 DEF Kept
    <2> QED
        BY <1>1, <1>2, <1>4, <1>5, <2>1, <2>2 DEF AllIsInHand, Moved, Copying
<1>10. OneFault'
    BY <1>1, <1>2, <1>4, <1>6 DEF OneFault, Moved, WholeTable
<1>11. NamesAreNew'
    <2>1. \A m : Leftover(m)' => Leftover(m)
        BY <1>1, <1>3, <1>4, <1>5 DEF Leftover, IsCopy
    <2>2. Covered => Covered'
        BY <1>1, <1>5, <1>6 DEF Covered, Stands, IsCopy
    <2>3. LostBelow(repair.next) => LostBelow(repair.next)'
        BY <1>4, <1>6 DEF LostBelow
    <2>4. AllWhole => AllWhole'
        BY <1>1, <1>4 DEF AllWhole, WholeTable
    <2>5. \A m : (WholeTable(m)' <=> WholeTable(m)) /\ dir'[m] = dir[m]
        BY <1>1 DEF WholeTable
    <2> QED
        BY <1>1, <1>2, <1>3, <1>4, <1>5, <1>6, <2>1, <2>2, <2>3, <2>4, <2>5 DEF NamesAreNew
<1>12. OneCall'
    <2>1. Kept({m \in DOMAIN dir : ~IsCopy(m)}) = Kept({m \in DOMAIN dir : ~IsCopy(m)})'
        BY <1>1, <1>5 DEF Kept, IsCopy
    <2> QED
        BY <1>1, <1>2, <1>3, <1>4, <1>6, <2>1 DEF OneCall, Moved
<1> QED
    BY <1>7, <1>8, <1>9, <1>10, <1>11, <1>12 DEF RepairInv

LEMMA RepairDiesHolds == ASSUME RepairInv, RepairDies PROVE RepairInv'
<1> DEFINE f == repair.file
           k == repair.copy
           n == repair.next
<1>1. /\ repair.at \notin {"idle", "done"} /\ repair' = NoRepair /\ repair_faults' = repair_faults + 1
      /\ \/ dir' = dir
         \/ repair.at = "logs" /\ dir' = WithFile(dir, n, Table({}, "unfinished"))
      /\ lost_dir' = lost_dir /\ unarchived' = unarchived
      /\ descriptor' = descriptor /\ repair_calls' = repair_calls /\ at_first' = at_first
    BY DEF RepairDies, Fault
<1>2. RepairTypeOK /\ RepairerKnows /\ CopyIsKnown /\ OneFault /\ NamesAreNew /\ OneCall
    BY DEF RepairInv
<1>3. /\ repair \in RepairerType /\ Found(dir) /\ IsFiniteSet(DOMAIN dir) /\ repair_faults \in Nat
      /\ DOMAIN dir \subseteq Nat \ {0}
    BY <1>2 DEF RepairTypeOK
<1>4. \A m \in DOMAIN dir : m < n
    BY <1>1, <1>2 DEF RepairerKnows
<1>5. n \in Nat \ {0} /\ n \notin DOMAIN dir /\ f \in Nat /\ k \in Nat
    <2>1. n \in Nat \ {0} /\ f \in Nat /\ k \in Nat
        BY <1>3 DEF RepairerType
    <2> QED
        BY <1>3, <1>4, <2>1
<1>6. /\ repair'.at = "idle" /\ repair'.logs = {} /\ repair'.tables = {} /\ repair'.listed = {}
      /\ repair'.misread = FALSE /\ repair' \in RepairerType
    <2>1. {} \in EntrySets
        BY FS_EmptySet DEF EntrySets
    <2> QED
        BY <1>1, <2>1 DEF NoRepair, RepairerType, RepairStages
<1>7. repair_faults' # 0 /\ repair_faults' \in Nat /\ (repair_faults' <= 1 => repair_faults = 0 /\ repair_faults' = 1)
    BY <1>1, <1>3
<1>8. \A m : (LogIsLost(m)' <=> LogIsLost(m)) /\ (TableIsLost(m)' <=> TableIsLost(m))
    BY <1>1, LostStays
<1>9. repair.at = "logs" /\ repair_faults = 0 => ~TableIsLost(n)
    BY <1>2, <1>5 DEF NamesAreNew, LostBelow
<1> HIDE DEF f, k, n
\* What was there still is, and a new table is empty.
<1>10. /\ \A m \in DOMAIN dir : m \in DOMAIN dir' /\ dir'[m] = dir[m]
       /\ \A m \in DOMAIN dir' \ DOMAIN dir :
             repair.at = "logs" /\ m = n /\ dir'[m].kind = "table" /\ dir'[m].entries = {}
       /\ Found(dir') /\ IsFiniteSet(DOMAIN dir') /\ DOMAIN dir' \subseteq Nat \ {0}
    <2>1. CASE dir' = dir
        BY <1>3, <2>1 DEF Found
    <2>2. CASE repair.at = "logs" /\ dir' = WithFile(dir, n, Table({}, "unfinished"))
        <3>1. {} \in EntrySets /\ "unfinished" \in {"whole", "unfinished"}
            BY FS_EmptySet DEF EntrySets
        <3>2. /\ DOMAIN dir' = DOMAIN dir \cup {n} /\ \A m \in DOMAIN dir \ {n} : dir'[m] = dir[m]
              /\ dir'[n].kind = "table" /\ dir'[n].entries = {}
              /\ Found(dir') /\ IsFiniteSet(DOMAIN dir') /\ DOMAIN dir' \subseteq Nat \ {0}
            BY <1>2, <1>5, <2>2, <3>1, AddedIs
        <3> QED
            BY <1>5, <2>2, <3>2
    <2> QED
        BY <1>1, <2>1, <2>2 DEF n
<1>11. RepairTypeOK'
    BY <1>1, <1>2, <1>6, <1>7, <1>10 DEF RepairTypeOK
<1>12. RepairerKnows' /\ CopyIsKnown' /\ AllIsInHand'
    BY <1>6, <1>7 DEF RepairerKnows, CopyIsKnown, AllIsInHand, Copying
<1>13. Readable(dir) \subseteq Readable(dir') /\ Readable(lost_dir') = Readable(lost_dir)
    BY <1>1, <1>10 DEF Readable
<1>14. OneFault'
    <2>1. \A m \in DOMAIN dir' : dir'[m].kind = "log" => ~LogIsLost(m)'
        <3> SUFFICES ASSUME NEW m \in DOMAIN dir', dir'[m].kind = "log" PROVE ~LogIsLost(m)
            BY <1>8
        <3>1. m \in DOMAIN dir
            BY <1>10
        <3> QED
            BY <1>2, <1>10, <3>1 DEF OneFault
    <2>2. repair_faults = 0 =>
             \A m \in DOMAIN dir' : dir'[m].kind = "table" /\ TableIsLost(m)' => WholeTable(m)'
        BY <1>2, <1>8, <1>9, <1>10 DEF OneFault, WholeTable
    <2>3. repair_faults = 0 => at_first' \subseteq Readable(dir') \cup Readable(lost_dir')
        BY <1>1, <1>2, <1>13 DEF OneFault
    <2> QED
        BY <1>6, <1>7, <2>1, <2>2, <2>3 DEF OneFault, Moved
<1>15. NamesAreNew'
    <2> SUFFICES ASSUME repair_faults = 0 PROVE Covered'
        BY <1>6, <1>7 DEF NamesAreNew, Copying
    <2>1. Covered
        BY <1>2 DEF NamesAreNew
    <2>2. \A m : Stands(m)' <=> m \in DOMAIN dir' /\ dir'[m].kind = "table"
        BY <1>6 DEF Stands, IsCopy, Copying
    <2>3. ASSUME NEW m \in Nat, Stands(m) PROVE \E i \in Nat : Stands(i)' /\ m <= i
        <3>1. CASE m \in DOMAIN dir /\ dir[m].kind = "table"
            BY <1>10, <2>2, <3>1
        <3>2. CASE repair.at \in Copying /\ m = f
            <4>1. repair.at \in Copying => f \in repair.tables
                BY <1>2 DEF RepairerKnows, f
            <4>2. k \in DOMAIN dir /\ dir[k].kind = "table" /\ f < k
                BY <1>2, <3>2, <4>1 DEF CopyIsKnown, Table, k
            <4> QED
                BY <1>5, <1>10, <2>2, <3>2, <4>2
        <3> QED
            BY <2>3, <3>1, <3>2 DEF Stands, f
    <2> QED
        <3> SUFFICES ASSUME NEW j \in Nat, TableIsLost(j) PROVE \E i \in Nat : Stands(i)' /\ j <= i
            BY <1>8 DEF Covered
        <3>1. PICK m \in Nat : Stands(m) /\ j <= m
            BY <2>1 DEF Covered
        <3>2. PICK i \in Nat : Stands(i)' /\ m <= i
            BY <2>3, <3>1
        <3> QED
            BY <3>1, <3>2
<1>16. OneCall'
    <2> SUFFICES ASSUME repair_calls <= 1, ~unarchived PROVE OneCall'
        BY <1>1 DEF OneCall
    <2>1. /\ repair_calls # 0
          /\ at_first \subseteq Kept({m \in DOMAIN dir : ~IsCopy(m)}) \cup Readable(lost_dir)
        BY <1>1, <1>2 DEF OneCall
    <2>2. Kept({m \in DOMAIN dir : ~IsCopy(m)}) \subseteq Kept({m \in DOMAIN dir : ~IsCopy(m)})'
        BY <1>6, <1>10 DEF Kept, IsCopy, Copying
    <2> QED
        BY <1>1, <1>6, <1>13, <2>1, <2>2 DEF OneCall, Moved
<1> QED
    BY <1>11, <1>12, <1>14, <1>15, <1>16 DEF RepairInv

LEMMA RepairNextHolds == ASSUME RepairInv, [RepairNext]_repairVars PROVE RepairInv'
<1>1. CASE UNCHANGED repairVars
    <2>1. /\ dir' = dir /\ lost_dir' = lost_dir /\ descriptor' = descriptor /\ repair' = repair
          /\ repair_calls' = repair_calls /\ repair_faults' = repair_faults /\ at_first' = at_first
          /\ unarchived' = unarchived
        BY <1>1 DEF repairVars
    <2>2. RepairTypeOK' /\ RepairerKnows' /\ CopyIsKnown'
        BY <2>1 DEF RepairInv, RepairTypeOK, Found, RepairerKnows, WholeTable, Moved, CopyIsKnown
    <2>3. AllIsInHand'
        BY <2>1 DEF RepairInv, AllIsInHand, Kept, InHand, Moved, TableIsLost, Readable
    <2>4. OneFault'
        BY <2>1 DEF RepairInv, OneFault, Moved, WholeTable, LogIsLost, TableIsLost, Readable
    <2>5. NamesAreNew'
        BY <2>1 DEF RepairInv, NamesAreNew, LostBelow, AllWhole, Covered, Stands, IsCopy, Leftover, WholeTable,
                    TableIsLost
    <2>6. OneCall'
        BY <2>1 DEF RepairInv, OneCall, Kept, IsCopy, Moved, LogIsLost, TableIsLost, Readable
    <2> QED
        BY <2>2, <2>3, <2>4, <2>5, <2>6 DEF RepairInv
<1>2. CASE RepairNext
    BY <1>2, FindFilesHolds, ConvertLogHolds, ConvertFailsHolds, ArchiveLogHolds, ScanTableHolds,
       SizeFailsHolds, CopyTableHolds, ArchiveTableHolds, FinishCopyHolds, RenameCopyHolds, CopyFailsHolds,
       DescriptorHolds, RepairDiesHolds DEF RepairNext
<1> QED
    BY <1>1, <1>2

\* One failure or death, in however many calls, loses nothing that could be read at
\* first: all of it is in the database or in lost.  Nor do any failures in one call
\* whose files could be moved (Repairer; repair.cc:5-27).
THEOREM RepairKeepsAll == RepairSpec => []RepairDestroysNothing
<1>1. RepairInv => RepairDestroysNothing
    <2> SUFFICES ASSUME RepairInv PROVE RepairDestroysNothing
        OBVIOUS
    <2>1. RepairTypeOK /\ RepairerKnows /\ AllIsInHand /\ OneFault /\ OneCall
        BY DEF RepairInv
    <2>2. ASSUME repair_calls <= 1, ~unarchived PROVE at_first \subseteq Readable(dir) \cup Readable(lost_dir)
        <3>1. at_first \subseteq Kept({n \in DOMAIN dir : ~IsCopy(n)}) \cup Readable(lost_dir)
            BY <2>1, <2>2 DEF OneCall
        <3>2. Kept({n \in DOMAIN dir : ~IsCopy(n)}) \subseteq Readable(dir)
            BY DEF Kept, Readable
        <3> QED
            BY <3>1, <3>2
    <2>3. ASSUME repair.at = "done"
          PROVE  /\ \A n \in DOMAIN dir : n < descriptor.next
                 /\ \A n \in descriptor.listed :
                       /\ dir[n].state = "whole"
                       /\ ~repair.misread => \A e \in dir[n].entries : e <= descriptor.last
                 /\ repair_faults = 0 => at_first = Readable(Restrict(dir, descriptor.listed))
        <3>1. /\ descriptor.listed = repair.listed /\ descriptor.next = repair.next
              /\ descriptor.last = repair.max_sequence
            BY <2>1, <2>3 DEF RepairerKnows
        <3>2. repair.logs = {} /\ repair.tables = {} /\ repair.listed \subseteq DOMAIN dir
            BY <2>1, <2>3 DEF RepairerKnows
        <3>3. repair_faults = 0 => at_first = Kept(repair.listed)
            BY <2>1, <2>3, <3>2 DEF AllIsInHand, Copying, InHand
        <3>4. Kept(repair.listed) = Readable(Restrict(dir, repair.listed))
            <4> DEFINE d == Restrict(dir, repair.listed)
            <4>1. DOMAIN d = repair.listed /\ \A n \in repair.listed : d[n] = dir[n]
                BY DEF Restrict
            <4> HIDE DEF d
            <4>2. ASSUME NEW e PROVE e \in Kept(repair.listed) <=> e \in Readable(d)
                BY <3>2, <4>1 DEF Kept, Readable
            <4> QED
                BY <4>2 DEF d
        <3> QED
            BY <2>1, <2>3, <3>1, <3>3, <3>4 DEF RepairerKnows, WholeTable
    <2> QED
        BY <2>1, <2>2, <2>3 DEF RepairDestroysNothing, OneFault
<1> QED
    BY <1>1, RepairInitHolds, RepairNextHolds, PTL DEF RepairSpec

-----------------------------------------------------------------------------
(* MemTable: the lists of all levels are in order at every step of an insert, *)
(* the inserter knows the last node before its key on each level it still has *)
(* to link, and a search has passed only nodes before its target.             *)
Levels == 0 .. kMaxHeight - 1
Keys == UserKeys \X (Nat \ {0})

\* The node that is being inserted is on the levels below the inserter's.
Busy == inserter.pc # "idle"
On(l) == {n \in DOMAIN nodes : l \in DOMAIN nodes[n] /\ ~(Busy /\ n = inserter.key /\ l >= inserter.level)}

\* Entries inserted: their sequence numbers are the first ones.
Entries == IF Busy THEN inserter.seq - 1 ELSE inserter.seq
UpTo(p) == {n \in DOMAIN nodes \ {head_} : n[2] <= p}

NodesType ==
    /\ head_ \in DOMAIN nodes /\ DOMAIN nodes \subseteq Keys \cup {head_} /\ IsFiniteSet(DOMAIN nodes)
    /\ DOMAIN nodes[head_] = Levels
    /\ \A n \in DOMAIN nodes : \E h \in 1 .. kMaxHeight : DOMAIN nodes[n] = 0 .. h - 1
    /\ max_height \in 1 .. kMaxHeight

\* m is the first of S after n, or Nil.
Follows(S, n, m) ==
    /\ m \in S \cup {Nil} /\ (m # Nil => KeyLess(n, m))
    /\ \A k \in S : KeyLess(n, k) => m # Nil /\ ~KeyLess(k, m)

\* n is the last of S before the key.
LastBefore(S, n, key) ==
    n \in S /\ KeyLess(n, key) /\ \A k \in S : ~KeyLess(n, k) \/ ~KeyLess(k, key)

Lists == \A l \in Levels : \A n \in On(l) : Follows(On(l), n, nodes[n][l])

InserterType ==
    /\ inserter = [pc |-> inserter.pc, seq |-> inserter.seq, key |-> inserter.key, height |-> inserter.height,
                   level |-> inserter.level, prev |-> inserter.prev, unseen |-> inserter.unseen]
    /\ inserter.pc \in {"idle", "link", "publish"} /\ inserter.seq \in Nat

EntriesCounted ==
    /\ Cardinality(DOMAIN nodes) = inserter.seq + 1
    /\ \A n \in DOMAIN nodes : n[2] <= inserter.seq /\ (Busy /\ n # inserter.key => n[2] < inserter.seq)

InserterKnows ==
    /\ Busy =>
        /\ inserter.key \in DOMAIN nodes \ {head_} /\ inserter.key[2] = inserter.seq
        /\ inserter.height \in 1 .. kMaxHeight /\ inserter.level \in 0 .. inserter.height - 1
        /\ DOMAIN nodes[inserter.key] = 0 .. inserter.height - 1
        /\ \A l \in inserter.level .. inserter.height - 1 : LastBefore(On(l), inserter.prev[l], inserter.key)
    /\ inserter.pc # "publish" => inserter.unseen = {}
    /\ inserter.pc = "publish" =>
        LET next == nodes[inserter.prev[inserter.level]][inserter.level]
        IN \/ inserter.unseen = {<<inserter.key, inserter.level, next>>}
           \/ inserter.unseen = {} /\ nodes[inserter.key][inserter.level] = next

SearchRecord == [phase : {"idle", "searching", "found"}, op : {"none", "seek", "less", "last", "next"},
                 target : (UserKeys \X Nat) \cup {Nil, head_}, x : Keys \cup {head_, Nil}, level : Nat,
                 present : SUBSET Keys, found : Keys \cup {Nil}, count : Nat]
SearchType == searches \in [MemReaders -> SearchRecord]

\* A search under way has passed only nodes before its target.
SearchKnows(s) ==
    /\ s.found \in (On(0) \ {head_}) \cup {Nil}
    /\ s.phase = "searching" =>
        /\ s.op \in {"seek", "less", "last"}
        /\ IF s.op = "last" THEN s.target = Nil
           ELSE s.target \in UserKeys \X Nat /\ (s.x = head_ \/ KeyLess(s.x, s.target))
        /\ s.level \in Levels /\ s.x \in On(s.level)
        /\ \E p \in 0 .. Entries : s.present = UpTo(p) /\ (s.op = "seek" => s.target[2] <= p)

SearchesKnow == \A r \in MemReaders : SearchKnows(searches[r])

ListInv == NodesType /\ Lists /\ InserterType /\ EntriesCounted /\ InserterKnows

PieceType == [block : Nat \ {0}, offset : Nat, bytes : Nat \ {0}, align : Nat \ {0}]
ArenaType == [blocks : Seq(Nat \ {0}), ptr : Nat \X Nat, remaining : Nat, given : SUBSET PieceType]

Aligned(offset, align) == offset % align = 0

\* Pieces lie in their blocks, are aligned and do not overlap.
Pieces(blocks, given) ==
    /\ \A g \in given : /\ g.block \in DOMAIN blocks /\ Aligned(g.offset, g.align)
                        /\ g.offset + g.bytes <= blocks[g.block]
    /\ \A g, h \in given :
          g # h /\ g.block = h.block => g.offset + g.bytes <= h.offset \/ h.offset + h.bytes <= g.offset

\* What remains of the current block lies behind all that was given of it.
RestIsFree(a) ==
    a.remaining > 0 =>
        /\ a.ptr[1] \in DOMAIN a.blocks /\ a.ptr[2] + a.remaining <= a.blocks[a.ptr[1]]
        /\ \A g \in a.given : g.block = a.ptr[1] => g.offset + g.bytes <= a.ptr[2]

ArenaOk(a) == a \in ArenaType /\ Pieces(a.blocks, a.given) /\ RestIsFree(a)

MemInv == ListInv /\ SearchType /\ SearchesKnow /\ SearchesFindTheNearest /\ ArenaOk(arena)

\* The arena: a piece is added behind what was given of its block.
LEMMA PieceAdded ==
    ASSUME NEW blocks \in Seq(Nat \ {0}), NEW given \in SUBSET PieceType, Pieces(blocks, given),
           NEW p \in PieceType, p.block \in DOMAIN blocks, Aligned(p.offset, p.align),
           p.offset + p.bytes <= blocks[p.block],
           \A g \in given : g.block = p.block => g.offset + g.bytes <= p.offset
    PROVE  Pieces(blocks, given \cup {p})
BY DEF Pieces, PieceType

\* A new block moves no piece given before.
LEMMA BlockAdded ==
    ASSUME NEW blocks \in Seq(Nat \ {0}), NEW given \in SUBSET PieceType, Pieces(blocks, given),
           NEW size \in Nat \ {0}
    PROVE  /\ Append(blocks, size) \in Seq(Nat \ {0}) /\ Len(blocks) + 1 \in DOMAIN Append(blocks, size)
           /\ Append(blocks, size)[Len(blocks) + 1] = size
           /\ \A b \in DOMAIN blocks : b \in DOMAIN Append(blocks, size) /\ Append(blocks, size)[b] = blocks[b]
           /\ Pieces(Append(blocks, size), given)
           /\ \A g \in given : g.block # Len(blocks) + 1
<1>1. /\ Append(blocks, size) \in Seq(Nat \ {0}) /\ Len(blocks) + 1 \in DOMAIN Append(blocks, size)
      /\ Append(blocks, size)[Len(blocks) + 1] = size
      /\ \A b \in DOMAIN blocks : b \in DOMAIN Append(blocks, size) /\ Append(blocks, size)[b] = blocks[b]
    OBVIOUS
<1>2. Len(blocks) + 1 \notin DOMAIN blocks
    OBVIOUS
<1>3. Pieces(Append(blocks, size), given)
    BY <1>1 DEF Pieces
<1> QED
    BY <1>1, <1>2, <1>3 DEF Pieces

IsArena(a, B, P, R, G) == a = [blocks |-> B, ptr |-> P, remaining |-> R, given |-> G]

\* The parts of what Give and AllocateNewBlock return.
LEMMA ArenaParts ==
    ASSUME NEW a \in ArenaType
    PROVE  IsArena(a, a.blocks, a.ptr, a.remaining, a.given)
BY DEF ArenaType, IsArena

\* What a change of one field of the arena leaves of the others.
LEMMA ArenaChanges ==
    ASSUME NEW a, NEW B, NEW P, NEW R, NEW G, IsArena(a, B, P, R, G), NEW X
    PROVE  /\ IsArena([a EXCEPT !.blocks = X], X, P, R, G) /\ IsArena([a EXCEPT !.given = X], B, P, R, X)
           /\ \A Y : IsArena([a EXCEPT !.ptr = X, !.remaining = Y], B, X, Y, G)
<1>1. IsArena([a EXCEPT !.blocks = X], X, P, R, G)
    BY DEF IsArena
<1>2. IsArena([a EXCEPT !.given = X], B, P, R, X)
    BY DEF IsArena
<1>3. ASSUME NEW Y
      PROVE  IsArena([a EXCEPT !.ptr = X, !.remaining = Y], B, X, Y, G)
    <2>1. PICK b : b = [a EXCEPT !.ptr = X]
        OBVIOUS
    <2>2. IsArena(b, B, X, R, G)
        BY <2>1 DEF IsArena
    <2>3. [a EXCEPT !.ptr = X, !.remaining = Y] = [b EXCEPT !.remaining = Y]
        BY <2>1
    <2>4. IsArena([b EXCEPT !.remaining = Y], B, X, Y, G)
        BY <2>2 DEF IsArena
    <2> QED
        BY <2>3, <2>4
<1> QED
    BY <1>1, <1>2, <1>3

\* The arena after a piece is given.
LEMMA GiveIs ==
    ASSUME NEW a, NEW B, NEW P, NEW R, NEW G, IsArena(a, B, P, R, G),
           NEW block, NEW offset, NEW bytes, NEW align
    PROVE  IsArena(Give(a, block, offset, bytes, align), B, P, R,
                   G \cup {[block |-> block, offset |-> offset, bytes |-> bytes, align |-> align]})
<1> DEFINE p == [block |-> block, offset |-> offset, bytes |-> bytes, align |-> align]
<1>1. a.given = G
    BY DEF IsArena
<1>2. Give(a, block, offset, bytes, align) = [a EXCEPT !.given = G \cup {p}]
    BY <1>1 DEF Give
<1> HIDE DEF p
<1>3. IsArena([a EXCEPT !.given = G \cup {p}], B, P, R, G \cup {p})
    BY ArenaChanges
<1> QED
    BY <1>2, <1>3 DEF p

\* The arena after a new block is allocated.
LEMMA NewBlockIs ==
    ASSUME NEW a, NEW B, NEW P, NEW R, NEW G, IsArena(a, B, P, R, G), NEW size
    PROVE  IsArena(AllocateNewBlock(a, size), Append(B, size), P, R, G)
<1>1. a.blocks = B
    BY DEF IsArena
<1>2. PICK X : X = Append(B, size)
    OBVIOUS
<1>3. AllocateNewBlock(a, size) = [a EXCEPT !.blocks = X]
    BY <1>1, <1>2 DEF AllocateNewBlock
<1>4. IsArena([a EXCEPT !.blocks = X], X, P, R, G)
    BY ArenaChanges
<1> QED
    BY <1>2, <1>3, <1>4

\* AllocateFallback gives a piece of a new block: its own, or the new current one.
LEMMA FallbackIsOk ==
    ASSUME NEW a, ArenaOk(a), NEW bytes \in Nat \ {0}, NEW align \in Nat \ {0}
    PROVE  ArenaOk(AllocateFallback(a, bytes, align))
<1> DEFINE block == Len(a.blocks) + 1
           p == [block |-> block, offset |-> 0, bytes |-> bytes, align |-> align]
<1>1. /\ a \in ArenaType /\ a.blocks \in Seq(Nat \ {0}) /\ a.given \in SUBSET PieceType /\ Pieces(a.blocks, a.given)
      /\ RestIsFree(a) /\ a.ptr \in Nat \X Nat /\ a.remaining \in Nat
    BY DEF ArenaOk, ArenaType
<1>2. p \in PieceType /\ p.block = block /\ p.offset = 0 /\ p.bytes = bytes /\ Aligned(0, align) /\ p.align = align
    BY <1>1 DEF PieceType, Aligned
<1>3. ASSUME NEW size \in Nat \ {0}, bytes <= size
      PROVE  /\ IsArena(AllocateNewBlock(a, size), Append(a.blocks, size), a.ptr, a.remaining, a.given)
             /\ Append(a.blocks, size) \in Seq(Nat \ {0}) /\ a.given \cup {p} \in SUBSET PieceType
             /\ block \in DOMAIN Append(a.blocks, size) /\ Append(a.blocks, size)[block] = size
             /\ \A b \in DOMAIN a.blocks : b \in DOMAIN Append(a.blocks, size) /\ Append(a.blocks, size)[b] = a.blocks[b]
             /\ \A g \in a.given : g.block # block
             /\ Pieces(Append(a.blocks, size), a.given \cup {p})
    <2> DEFINE B == Append(a.blocks, size)
    <2>1. /\ B \in Seq(Nat \ {0}) /\ Pieces(B, a.given) /\ block \in DOMAIN B /\ B[block] = size
          /\ \A g \in a.given : g.block # block
          /\ \A b \in DOMAIN a.blocks : b \in DOMAIN B /\ B[b] = a.blocks[b]
        <3> DEFINE blocks == a.blocks
                   given == a.given
        <3>1. blocks \in Seq(Nat \ {0}) /\ given \in SUBSET PieceType /\ Pieces(blocks, given)
            BY <1>1
        <3> HIDE DEF blocks, given
        <3>2. /\ Append(blocks, size) \in Seq(Nat \ {0}) /\ Len(blocks) + 1 \in DOMAIN Append(blocks, size)
              /\ Append(blocks, size)[Len(blocks) + 1] = size
              /\ \A b \in DOMAIN blocks : b \in DOMAIN Append(blocks, size) /\ Append(blocks, size)[b] = blocks[b]
              /\ Pieces(Append(blocks, size), given)
              /\ \A g \in given : g.block # Len(blocks) + 1
            BY <3>1, BlockAdded
        <3> QED
            BY <3>2 DEF blocks, given
    <2>2. p.offset + p.bytes <= B[p.block]
        BY <1>2, <1>3, <2>1
    <2>3. Pieces(B, a.given \cup {p})
        <3> HIDE DEF B, p, block
        <3> QED
            BY <1>1, <1>2, <2>1, <2>2, PieceAdded
    <2>4. IsArena(AllocateNewBlock(a, size), B, a.ptr, a.remaining, a.given)
        BY <1>1, ArenaParts, NewBlockIs
    <2> QED
        BY <1>1, <1>2, <2>1, <2>3, <2>4
<1>4. CASE bytes > ArenaBlock \div 4
    <2> DEFINE c == AllocateNewBlock(a, bytes)
               B == Append(a.blocks, bytes)
    <2>1. IsArena(c, B, a.ptr, a.remaining, a.given)
        BY <1>3
    <2>2. PICK b : b = Give(c, block, 0, bytes, align)
        OBVIOUS
    <2>3. AllocateFallback(a, bytes, align) = b
        BY <1>4, <2>2 DEF AllocateFallback
    <2>4. IsArena(b, B, a.ptr, a.remaining, a.given \cup {p})
        <3> HIDE DEF c, B
        <3> QED
            BY <2>1, <2>2, GiveIs
    <2>5. /\ b \in ArenaType /\ b.blocks = B /\ b.ptr = a.ptr /\ b.remaining = a.remaining
          /\ b.given = a.given \cup {p}
        <3> HIDE DEF p
        <3> QED
            BY <1>1, <1>3, <2>4 DEF IsArena, ArenaType
    <2>6. RestIsFree(b)
        <3>1. /\ \A x \in DOMAIN a.blocks : x \in DOMAIN B /\ B[x] = a.blocks[x]
              /\ block \notin DOMAIN a.blocks
            BY <1>1, <1>3
        <3> HIDE DEF B, block, p
        <3> QED
            BY <1>1, <1>2, <2>5, <3>1 DEF RestIsFree
    <2> QED
        <3>1. Pieces(B, a.given \cup {p})
            <4>1. bytes <= bytes
                OBVIOUS
            <4> HIDE DEF p, block
            <4> QED
                BY <1>3, <4>1
        <3> HIDE DEF B, p
        <3> QED
            BY <2>3, <2>5, <2>6, <3>1 DEF ArenaOk
<1>5. CASE ~(bytes > ArenaBlock \div 4)
    <2> DEFINE c == AllocateNewBlock(a, ArenaBlock)
               B == Append(a.blocks, ArenaBlock)
    <2>0. ArenaBlock \in Nat \ {0} /\ bytes <= ArenaBlock
        BY <1>5, MemTableAssumption
    <2>1. IsArena(c, B, a.ptr, a.remaining, a.given)
        BY <1>3, <2>0
    <2>2. PICK e : e = [c EXCEPT !.ptr = <<block, bytes>>, !.remaining = ArenaBlock - bytes]
        OBVIOUS
    <2>3. PICK b : b = Give(e, block, 0, bytes, align)
        OBVIOUS
    <2>4. AllocateFallback(a, bytes, align) = b
        BY <1>5, <2>2, <2>3 DEF AllocateFallback
    <2>5. IsArena(b, B, <<block, bytes>>, ArenaBlock - bytes, a.given \cup {p})
        <3> HIDE DEF c, B
        <3>1. IsArena(e, B, <<block, bytes>>, ArenaBlock - bytes, a.given)
            BY <2>1, <2>2, ArenaChanges
        <3> QED
            BY <3>1, <2>3, GiveIs
    <2>6. /\ b.blocks = B /\ b.ptr[1] = block /\ b.ptr[2] = bytes /\ b.remaining = ArenaBlock - bytes
          /\ b.given = a.given \cup {p} /\ b \in ArenaType
        <3>1. <<block, bytes>> \in Nat \X Nat /\ ArenaBlock - bytes \in Nat
            BY <1>1, <2>0
        <3> HIDE DEF p, block
        <3> QED
            BY <1>1, <1>3, <2>0, <2>5, <3>1 DEF IsArena, ArenaType
    <2>7. RestIsFree(b)
        <3>1. \A g \in b.given : g.block = block => g.offset + g.bytes <= bytes
            <4> HIDE DEF p, block
            <4> QED
                BY <1>2, <1>3, <2>0, <2>6
        <3>2. bytes + (ArenaBlock - bytes) <= ArenaBlock
            BY <2>0
        <3>3. block \in DOMAIN B /\ B[block] = ArenaBlock
            BY <1>3, <2>0
        <3> HIDE DEF B, block
        <3> QED
            BY <2>6, <3>1, <3>2, <3>3 DEF RestIsFree
    <2> QED
        BY <1>3, <2>0, <2>4, <2>6, <2>7 DEF ArenaOk
<1> QED
    BY <1>4, <1>5

\* The sums of a piece cut from the rest of the current block.
LEMMA TakeSums ==
    ASSUME NEW o \in Nat, NEW slop \in Nat, NEW bytes \in Nat, NEW rest \in Nat, NEW size \in Nat,
           bytes + slop <= rest, o + rest <= size
    PROVE  /\ o + slop \in Nat /\ o + slop + bytes \in Nat /\ rest - slop - bytes \in Nat
           /\ (o + slop) + bytes <= size /\ (o + slop + bytes) + (rest - slop - bytes) <= size
           /\ \A x \in Nat : x <= o => x <= o + slop /\ x <= o + slop + bytes
OBVIOUS

\* A piece cut from the rest of the current block lies apart from those before it.
LEMMA TakeIsOk ==
    ASSUME NEW a, ArenaOk(a), NEW bytes \in Nat \ {0}, NEW align \in Nat \ {0}, NEW slop \in Nat,
           bytes + slop <= a.remaining, Aligned(a.ptr[2] + slop, align)
    PROVE  ArenaOk(TakeFrom(a, slop, bytes, align))
<1> DEFINE block == a.ptr[1]
           o == a.ptr[2]
           rest == a.remaining
           size == a.blocks[block]
           p == [block |-> block, offset |-> o + slop, bytes |-> bytes, align |-> align]
<1>1. /\ a \in ArenaType /\ a.blocks \in Seq(Nat \ {0}) /\ a.given \in SUBSET PieceType /\ Pieces(a.blocks, a.given)
      /\ RestIsFree(a) /\ rest \in Nat /\ block \in Nat /\ o \in Nat /\ bytes + slop <= rest
    BY DEF ArenaOk, ArenaType
<1>2. /\ block \in DOMAIN a.blocks /\ o + rest <= size /\ block \in Nat \ {0}
      /\ \A g \in a.given : g.block = block => g.offset + g.bytes <= o
    <2>1. rest > 0
        <3> HIDE DEF rest
        <3> QED
            BY <1>1
    <2>2. /\ block \in DOMAIN a.blocks /\ o + rest <= size
          /\ \A g \in a.given : g.block = block => g.offset + g.bytes <= o
        BY <1>1, <2>1 DEF RestIsFree
    <2>3. DOMAIN a.blocks = 1 .. Len(a.blocks)
        BY <1>1
    <2> HIDE DEF block, o, rest, size
    <2> QED
        BY <1>1, <2>2, <2>3
<1>3. size \in Nat
    BY <1>1, <1>2
<1>4. PICK b : b = TakeFrom(a, slop, bytes, align)
    OBVIOUS
<1>5. IsArena(b, a.blocks, <<block, o + slop + bytes>>, rest - slop - bytes, a.given \cup {p})
    <2>1. PICK c : c = [a EXCEPT !.ptr = <<block, o + slop + bytes>>, !.remaining = rest - slop - bytes]
        OBVIOUS
    <2>2. b = Give(c, block, o + slop, bytes, align)
        BY <1>4, <2>1 DEF TakeFrom
    <2>3. IsArena(a, a.blocks, a.ptr, a.remaining, a.given)
        BY <1>1, ArenaParts
    <2> HIDE DEF block, o, rest
    <2>4. IsArena(c, a.blocks, <<block, o + slop + bytes>>, rest - slop - bytes, a.given)
        BY <2>1, <2>3, ArenaChanges
    <2> QED
        BY <2>2, <2>4, GiveIs
<1> HIDE DEF rest, size, o, block
<1>6. /\ o + slop \in Nat /\ o + slop + bytes \in Nat /\ rest - slop - bytes \in Nat
      /\ (o + slop) + bytes <= size /\ (o + slop + bytes) + (rest - slop - bytes) <= size
      /\ \A x \in Nat : x <= o => x <= o + slop /\ x <= o + slop + bytes
    BY <1>1, <1>2, <1>3, TakeSums
<1>7. p \in PieceType /\ p.block = block /\ p.offset = o + slop /\ p.bytes = bytes /\ p.align = align
    BY <1>2, <1>6 DEF PieceType
<1>8. \A g \in a.given : g.block = block => g.offset + g.bytes <= o + slop /\ g.offset + g.bytes <= o + slop + bytes
    <2>1. ASSUME NEW g \in a.given, g.block = block
          PROVE  g.offset + g.bytes <= o + slop /\ g.offset + g.bytes <= o + slop + bytes
        <3>1. g.offset \in Nat /\ g.bytes \in Nat
            BY <1>1 DEF PieceType
        <3>2. g.offset + g.bytes \in Nat
            BY <3>1
        <3>3. g.offset + g.bytes <= o
            BY <1>2, <2>1
        <3> QED
            BY <1>6, <3>2, <3>3
    <2> QED
        BY <2>1
<1>9. /\ b.blocks = a.blocks /\ b.ptr[1] = block /\ b.ptr[2] = o + slop + bytes
      /\ b.remaining = rest - slop - bytes /\ b.given = a.given \cup {p} /\ b \in ArenaType
    <2> DEFINE end == o + slop + bytes
               left == rest - slop - bytes
    <2>1. end \in Nat /\ left \in Nat /\ IsArena(b, a.blocks, <<block, end>>, left, a.given \cup {p})
        BY <1>5, <1>6
    <2> HIDE DEF p, end, left
    <2>2. /\ b.blocks = a.blocks /\ b.ptr = <<block, end>> /\ b.remaining = left /\ b.given = a.given \cup {p}
          /\ b \in ArenaType
        BY <1>1, <1>2, <1>7, <2>1 DEF IsArena, ArenaType
    <2> QED
        BY <2>2 DEF end, left
<1>10. Pieces(a.blocks, a.given \cup {p})
    <2> HIDE DEF p
    <2>1. p.offset + p.bytes <= a.blocks[p.block]
        BY <1>6, <1>7 DEF size
    <2>2. Aligned(p.offset, p.align)
        BY <1>7 DEF o
    <2>3. \A g \in a.given : g.block = p.block => g.offset + g.bytes <= p.offset
        BY <1>7, <1>8
    <2> QED
        BY <1>1, <1>2, <1>7, <2>1, <2>2, <2>3, PieceAdded
<1>11. RestIsFree(b)
    <2>1. \A g \in b.given : g.block = block => g.offset + g.bytes <= o + slop + bytes
        <3>1. p.offset + p.bytes <= o + slop + bytes
            BY <1>6, <1>7
        <3> HIDE DEF p
        <3> QED
            BY <1>8, <1>9, <3>1
    <2> HIDE DEF p
    <2> QED
        BY <1>2, <1>6, <1>9, <2>1 DEF RestIsFree, size
<1> QED
    BY <1>4, <1>9, <1>10, <1>11 DEF ArenaOk

\* A number is a multiple of the divisor and a remainder below it.
LEMMA WholeAndRest ==
    ASSUME NEW x \in Nat, NEW y \in Nat \ {0}
    PROVE  x % y \in 0 .. y - 1 /\ x = y * (x \div y) + (x % y) /\ x \div y \in Nat
<1>1. x % y \in 0 .. y - 1
    OBVIOUS
<1>2. x \div y \in Int /\ x = y * (x \div y) + (x % y)
    OBVIOUS
<1>3. x \div y \in Nat
    <2>1. PICK q \in Int : q = x \div y
        BY <1>2
    <2>2. q >= 0
        BY <1>1, <1>2, <2>1
    <2> QED
        BY <2>1, <2>2
<1> QED
    BY <1>1, <1>2, <1>3

\* The bytes skipped bring the pointer to a multiple of the alignment.
LEMMA SlopAligns ==
    ASSUME NEW a \in ArenaType
    PROVE  Slop(a) \in Nat /\ Aligned(a.ptr[2] + Slop(a), ArenaAlign)
<1> DEFINE o == a.ptr[2]
           A == ArenaAlign
<1>1. o \in Nat /\ A \in Nat \ {0}
    BY MemTableAssumption DEF ArenaType
<1>2. o % A \in 0 .. A - 1 /\ o = A * (o \div A) + (o % A) /\ o \div A \in Nat
    <2> HIDE DEF o, A
    <2> QED
        BY <1>1, WholeAndRest
<1>3. CASE o % A = 0
    BY <1>1, <1>3 DEF Slop, Aligned
<1>4. CASE o % A # 0
    <2>1. Slop(a) = A - (o % A) /\ Slop(a) \in Nat
        BY <1>1, <1>2, <1>4 DEF Slop
    <2>2. o + Slop(a) = A * ((o \div A) + 1)
        BY <1>1, <1>2, <2>1
    <2>3. \A q \in Nat : (A * q) % A = 0
        <3> HIDE DEF A, o
        <3> QED
            BY <1>1
    <2> QED
        BY <1>2, <2>1, <2>2, <2>3 DEF Aligned
<1> QED
    BY <1>3, <1>4

\* Allocate keeps the arena well formed.
LEMMA AllocateIsOk ==
    ASSUME NEW a, ArenaOk(a), NEW bytes \in Nat \ {0}
    PROVE  ArenaOk(Allocate(a, bytes))
<1>1. a.ptr[2] \in Nat /\ a.remaining \in Nat
    BY DEF ArenaOk, ArenaType
<1>2. CASE bytes <= a.remaining
    <2>1. bytes + 0 <= a.remaining /\ Aligned(a.ptr[2] + 0, 1)
        BY <1>1, <1>2 DEF Aligned
    <2> QED
        BY <1>2, <2>1, TakeIsOk DEF Allocate
<1> QED
    BY <1>2, FallbackIsOk DEF Allocate

\* So does AllocateAligned.
LEMMA AllocateAlignedIsOk ==
    ASSUME NEW a, ArenaOk(a), NEW bytes \in Nat \ {0}
    PROVE  ArenaOk(AllocateAligned(a, bytes))
<1>1. a \in ArenaType /\ ArenaAlign \in Nat \ {0}
    BY MemTableAssumption DEF ArenaOk
<1>2. Slop(a) \in Nat /\ Aligned(a.ptr[2] + Slop(a), ArenaAlign)
    BY <1>1, SlopAligns
<1>3. CASE bytes + Slop(a) <= a.remaining
    BY <1>1, <1>2, <1>3, TakeIsOk DEF AllocateAligned
<1> QED
    BY <1>1, <1>3, FallbackIsOk DEF AllocateAligned

\* A well-formed arena has given no byte twice, and aligned what it had to.
LEMMA ArenaIsDisjoint ==
    ASSUME ArenaOk(arena)
    PROVE  ArenaGivesDisjointMemory
BY DEF ArenaOk, ArenaType, PieceType, Pieces, Aligned, ArenaGivesDisjointMemory

-----------------------------------------------------------------------------
(* The order of the keys, and lists in it.                                    *)
Pairs == Nat \X Nat

\* The order of the keys is strict and total.
LEMMA KeyOrder ==
    ASSUME NEW a \in Pairs, NEW b \in Pairs, NEW c \in Pairs
    PROVE  /\ ~KeyLess(a, a) /\ (KeyLess(a, b) \/ a = b \/ KeyLess(b, a)) /\ ~(KeyLess(a, b) /\ KeyLess(b, a))
           /\ KeyLess(a, b) /\ KeyLess(b, c) => KeyLess(a, c)
BY DEF Pairs, KeyLess

LEMMA KeysAre ==
    /\ Keys \cup {head_} \subseteq Pairs /\ UserKeys \X Nat \subseteq Pairs /\ Nil \notin Pairs
    /\ \A t \in UserKeys \X Nat : KeyLess(head_, t) /\ ~KeyLess(t, head_) /\ t # head_ /\ t # Nil
    /\ Keys \subseteq UserKeys \X Nat
<1>1. UserKeys \subseteq Nat \ {0}
    BY MemTableAssumption
<1>2. \A t \in UserKeys \X Nat : t[1] \in Nat \ {0} /\ t[2] \in Nat /\ t = <<t[1], t[2]>>
    <2>1. \A t \in UserKeys \X Nat : t[1] \in UserKeys /\ t[2] \in Nat /\ t = <<t[1], t[2]>>
        OBVIOUS
    <2> QED
        BY <1>1, <2>1
<1>3. \A t \in UserKeys \X Nat : KeyLess(head_, t) /\ ~KeyLess(t, head_)
    BY <1>2 DEF KeyLess, head_
<1>4. \A t \in UserKeys \X Nat : t # head_ /\ t # Nil
    BY <1>2 DEF head_, Nil
<1>5. Keys \subseteq UserKeys \X Nat
    BY DEF Keys
<1>6. UserKeys \X Nat \subseteq Pairs /\ head_ \in Pairs
    BY <1>1 DEF Pairs, head_
<1>7. Nil \notin Pairs
    BY DEF Pairs, Nil
<1> QED
    BY <1>3, <1>4, <1>5, <1>6, <1>7

\* A key that is linked in after the last before it.
LEMMA LinkedIn ==
    ASSUME NEW S \in SUBSET Pairs, NEW key \in Pairs \ S, NEW prev, LastBefore(S, prev, key), NEW next,
           Follows(S, prev, next)
    PROVE  /\ Follows(S \cup {key}, key, next) /\ Follows(S \cup {key}, prev, key)
           /\ \A n \in S \ {prev} : \A m : Follows(S, n, m) => Follows(S \cup {key}, n, m)
<1>1. prev \in S /\ KeyLess(prev, key) /\ \A k \in S : ~KeyLess(prev, k) \/ ~KeyLess(k, key)
    BY DEF LastBefore
<1>2. /\ next \in S \cup {Nil} /\ (next # Nil => KeyLess(prev, next))
      /\ \A k \in S : KeyLess(prev, k) => next # Nil /\ ~KeyLess(k, next)
    BY DEF Follows
<1>3. Nil \notin Pairs
    BY KeysAre
<1>4. Follows(S \cup {key}, key, next)
    <2>1. next # Nil => KeyLess(key, next)
        BY <1>1, <1>2, KeyOrder
    <2>2. ASSUME NEW k \in S, KeyLess(key, k)
          PROVE  next # Nil /\ ~KeyLess(k, next)
        <3>1. KeyLess(prev, k)
            BY <1>1, <2>2, KeyOrder
        <3> QED
            BY <1>2, <3>1
    <2>3. ~KeyLess(key, key)
        BY KeyOrder
    <2> QED
        BY <1>2, <2>1, <2>2, <2>3 DEF Follows
<1>5. Follows(S \cup {key}, prev, key)
    <2>1. key # Nil /\ ~KeyLess(key, key)
        BY <1>3, KeyOrder
    <2> QED
        BY <1>1, <2>1 DEF Follows
<1>6. ASSUME NEW n \in S \ {prev}, NEW m, Follows(S, n, m)
      PROVE  Follows(S \cup {key}, n, m)
    <2>1. /\ m \in S \cup {Nil} /\ (m # Nil => KeyLess(n, m))
          /\ \A k \in S : KeyLess(n, k) => m # Nil /\ ~KeyLess(k, m)
        BY <1>6 DEF Follows
    <2>2. ASSUME KeyLess(n, key)
          PROVE  m # Nil /\ ~KeyLess(key, m)
        <3>1. KeyLess(n, prev)
            BY <1>1, <2>2, KeyOrder
        <3>2. m # Nil /\ ~KeyLess(prev, m)
            BY <1>1, <2>1, <3>1
        <3> QED
            BY <1>1, <2>1, <3>2, KeyOrder
    <2> QED
        BY <2>1, <2>2 DEF Follows
<1> QED
    BY <1>4, <1>5, <1>6

\* A finite set of keys that is not empty has a last one.
LEMMA LastExists ==
    ASSUME NEW S \in SUBSET Pairs, IsFiniteSet(S), S # {}
    PROVE  \E n \in S : \A m \in S \ {n} : KeyLess(m, n)
<1> DEFINE R == {p \in S \X S : p[1] = p[2] \/ KeyLess(p[2], p[1])}
<1>1. \A x, y \in S : <<x, y>> \in R <=> x = y \/ KeyLess(y, x)
    OBVIOUS
<1>2. \E x \in S : \A y \in S : <<x, y>> \in R
    <2>1. ASSUME NEW x \in S, NEW y \in S
          PROVE  <<x, y>> \in R \/ <<y, x>> \in R
        BY <1>1, KeyOrder
    <2>2. ASSUME NEW x \in S, NEW y \in S, NEW z \in S, <<x, y>> \in R, <<y, z>> \in R
          PROVE  <<x, z>> \in R
        <3>1. (x = y \/ KeyLess(y, x)) /\ (y = z \/ KeyLess(z, y))
            BY <1>1, <2>2
        <3>2. x = z \/ KeyLess(z, x)
            BY <3>1, KeyOrder
        <3> QED
            BY <1>1, <3>2
    <2> HIDE DEF R
    <2> QED
        BY <2>1, <2>2, FiniteHasFirst
<1> QED
    BY <1>1, <1>2

\* What the levels are: a node on one is on those below it.
LEMMA OnIs ==
    ASSUME ListInv, NEW l \in Levels
    PROVE  /\ On(l) \subseteq DOMAIN nodes /\ On(l) \subseteq Keys \cup {head_} /\ On(l) \subseteq Pairs
           /\ IsFiniteSet(On(l)) /\ head_ \in On(l) /\ \A n \in On(l) : l \in DOMAIN nodes[n]
           /\ \A n \in On(l) : Follows(On(l), n, nodes[n][l])
<1>1. On(l) \subseteq DOMAIN nodes /\ \A n \in On(l) : l \in DOMAIN nodes[n]
    BY DEF On
<1>2. DOMAIN nodes \subseteq Keys \cup {head_} /\ IsFiniteSet(DOMAIN nodes)
    BY DEF ListInv, NodesType
<1>3. IsFiniteSet(On(l))
    BY <1>1, <1>2, FS_Subset
<1>4. head_ \in On(l)
    BY DEF ListInv, NodesType, InserterKnows, On
<1> QED
    BY <1>1, <1>2, <1>3, <1>4, KeysAre DEF ListInv, Lists

\* A node on a level is on every level below it.
LEMMA OnBelow ==
    ASSUME ListInv, NEW l \in Levels, l > 0
    PROVE  l - 1 \in Levels /\ On(l) \subseteq On(l - 1)
<1>1. kMaxHeight \in Nat
    BY MemTableAssumption
<1>2. l \in Nat /\ l - 1 \in Levels
    BY <1>1 DEF Levels
<1>3. ASSUME NEW n \in On(l)
      PROVE  n \in On(l - 1)
    <2>1. n \in DOMAIN nodes /\ l \in DOMAIN nodes[n] /\ ~(Busy /\ n = inserter.key /\ l >= inserter.level)
        BY DEF On
    <2>2. PICK h \in 1 .. kMaxHeight : DOMAIN nodes[n] = 0 .. h - 1
        BY <2>1 DEF ListInv, NodesType
    <2>3. l - 1 \in DOMAIN nodes[n]
        BY <1>1, <1>2, <2>1, <2>2
    <2>4. Busy => inserter.level \in Int
        BY DEF ListInv, InserterKnows
    <2> QED
        BY <1>2, <2>1, <2>3, <2>4 DEF On
<1> QED
    BY <1>2, <1>3

\* Entries that are inserted are on the lowest level.
LEMMA UpToIsOn ==
    ASSUME ListInv, NEW p \in 0 .. Entries
    PROVE  UpTo(p) \subseteq On(0) \ {head_} /\ 0 \in Levels
<1>1. inserter.seq \in Nat /\ kMaxHeight \in Nat \ {0}
    BY MemTableAssumption DEF ListInv, InserterType
<1>2. ASSUME NEW n \in UpTo(p)
      PROVE  n \in On(0) \ {head_}
    <2>1. n \in DOMAIN nodes \ {head_} /\ n[2] <= p
        BY DEF UpTo
    <2>2. PICK h \in 1 .. kMaxHeight : DOMAIN nodes[n] = 0 .. h - 1
        BY <2>1 DEF ListInv, NodesType
    <2>3. 0 \in DOMAIN nodes[n]
        BY <1>1, <2>2
    <2>4. Busy => inserter.key[2] = inserter.seq /\ Entries = inserter.seq - 1
        BY DEF ListInv, InserterKnows, Entries
    <2>5. ~(Busy /\ n = inserter.key)
        BY <1>1, <2>1, <2>4
    <2> QED
        BY <2>1, <2>3, <2>5 DEF On
<1> QED
    BY <1>1, <1>2 DEF Levels

-----------------------------------------------------------------------------
(* What a search finds                                                        *)
\* A reader at the end of its search: x is on the lowest level, next is after it.
LEMMA EndFindsNearest ==
    ASSUME ListInv, NEW s, NEW p \in 0 .. Entries, s.present = UpTo(p), NEW x \in On(0), NEW next,
           Follows(On(0), x, next), s.op \in {"seek", "less", "last"},
           IF s.op = "last" THEN s.target = Nil
           ELSE s.target \in UserKeys \X Nat /\ (x = head_ \/ KeyLess(x, s.target)),
           s.op = "seek" => s.target[2] <= p, ~Passes(s, next),
           s.found = IF s.op = "seek" THEN next ELSE IF x = head_ THEN Nil ELSE x
    PROVE  FindsTheNearest(s) /\ s.found \in (On(0) \ {head_}) \cup {Nil}
<1>1. /\ 0 \in Levels /\ UpTo(p) \subseteq On(0) \ {head_} /\ On(0) \subseteq Keys \cup {head_} /\ On(0) \subseteq Pairs
      /\ On(0) \subseteq DOMAIN nodes
    BY UpToIsOn, OnIs
<1>2. /\ next \in On(0) \cup {Nil} /\ (next # Nil => KeyLess(x, next))
      /\ \A k \in On(0) : KeyLess(x, k) => next # Nil /\ ~KeyLess(k, next)
    BY DEF Follows
<1>3. next # head_
    <2>1. CASE next = Nil
        BY <2>1, <1>1, KeysAre
    <2>2. CASE next # Nil
        <3>1. KeyLess(x, next) /\ x \in Keys \cup {head_}
            BY <1>1, <1>2, <2>2
        <3>2. ~KeyLess(head_, head_) /\ \A t \in Keys : ~KeyLess(t, head_)
            BY KeysAre, KeyOrder
        <3> QED
            BY <3>1, <3>2
    <2> QED
        BY <2>1, <2>2
<1>4. s.found \in (On(0) \ {head_}) \cup {Nil} /\ s.found \in (DOMAIN nodes \cup {Nil}) \ {head_}
    <2>1. Nil # head_
        BY KeysAre
    <2> QED
        BY <1>1, <1>2, <1>3, <2>1
<1>5. CASE s.op = "seek"
    <2> DEFINE target == s.target
    <2>1. /\ target \in UserKeys \X Nat /\ (x = head_ \/ KeyLess(x, target)) /\ target[2] <= p /\ s.found = next
          /\ ~(next # Nil /\ KeyLess(next, target))
        BY <1>5 DEF Passes, IsAfterNode
    <2>2. KeyLess(x, target) /\ target \in Pairs
        BY <2>1, KeysAre
    \* What is not before the target is not before next.
    <2>3. ASSUME NEW n \in UpTo(p), n = target \/ KeyLess(target, n)
          PROVE  next \in On(0) /\ next # Nil /\ (n = next \/ KeyLess(next, n))
        <3>1. n \in On(0) /\ n \in Pairs
            BY <1>1
        <3>2. KeyLess(x, n)
            BY <1>1, <2>2, <2>3, <3>1, KeyOrder
        <3>3. next # Nil /\ ~KeyLess(n, next) /\ next \in On(0)
            BY <1>2, <3>1, <3>2
        <3> QED
            BY <1>1, <3>1, <3>3, KeyOrder
    <2>4. target \notin s.present \/ s.found = target
        <3>1. ASSUME target \in UpTo(p)
              PROVE  next = target
            BY <1>1, <2>1, <2>2, <2>3, <3>1, KeyOrder
        <3> QED
            BY <2>1, <3>1
    <2>5. Between(s.present, target, s.found) = {}
        <3>1. SUFFICES ASSUME NEW n \in UpTo(p), target = head_ \/ KeyLess(target, n), next = Nil \/ KeyLess(n, next)
                       PROVE  FALSE
            BY <2>1 DEF Between
        <3>2. KeyLess(target, n)
            BY <2>1, <3>1, KeysAre
        <3>3. next \in On(0) /\ next # Nil /\ (n = next \/ KeyLess(next, n))
            BY <2>3, <3>2
        <3> QED
            BY <1>1, <3>1, <3>3, KeyOrder
    <2> DEFINE newest == {n \in s.present : n[1] = target[1] /\ n[2] <= target[2]}
    <2>6. ASSUME newest # {}
          PROVE  s.found = CHOOSE n \in newest : \A m \in newest : m[2] <= n[2]
        <3>1. \A n \in UpTo(p) : n \in Keys /\ n[1] \in Nat /\ n[2] \in Nat /\ n = <<n[1], n[2]>>
            BY <1>1, MemTableAssumption DEF Keys
        <3>2. target[1] \in Nat /\ target[2] \in Nat /\ target = <<target[1], target[2]>>
            <4>1. UserKeys \subseteq Nat
                BY MemTableAssumption
            <4>2. target[1] \in UserKeys /\ target[2] \in Nat /\ target = <<target[1], target[2]>>
                BY <2>1
            <4> QED
                BY <4>1, <4>2
        <3>3. \A n \in newest : n \in UpTo(p) /\ n[1] = target[1] /\ n[2] <= target[2]
            OBVIOUS
        <3>4. ASSUME NEW n \in newest
              PROVE  n = target \/ KeyLess(target, n)
            BY <3>1, <3>2, <3>3 DEF KeyLess
        <3>5. PICK n : n \in newest
            BY <2>6
        <3>6. next \in On(0) /\ next # Nil /\ (n = next \/ KeyLess(next, n)) /\ n[1] = target[1]
            BY <2>3, <3>3, <3>4, <3>5
        <3>7. next \in Keys /\ next[1] \in Nat /\ next[2] \in Nat /\ next = <<next[1], next[2]>>
            BY <1>1, <1>3, <3>6, MemTableAssumption DEF Keys
        <3>8. ~KeyLess(next, target)
            BY <2>1, <3>6
        <3>9. next[1] = target[1] /\ next[2] <= target[2]
            BY <3>1, <3>2, <3>3, <3>5, <3>6, <3>7, <3>8 DEF KeyLess
        <3>10. p \in Nat /\ next[2] <= p
            <4>1. p \in Int
                OBVIOUS
            <4> QED
                BY <2>1, <3>2, <3>7, <3>9, <4>1
        <3>11. next \in newest
            BY <1>1, <1>3, <3>6, <3>9, <3>10 DEF UpTo
        <3>12. ASSUME NEW m \in newest
               PROVE  m[2] <= next[2]
            <4>1. m = next \/ KeyLess(next, m)
                BY <2>3, <3>3, <3>4
            <4> QED
                BY <3>1, <3>3, <3>7, <3>9, <4>1 DEF KeyLess
        <3>13. ASSUME NEW m \in newest, \A k \in newest : k[2] <= m[2]
               PROVE  m = next
            <4>1. m[2] = next[2] /\ m[1] = next[1]
                BY <3>1, <3>3, <3>7, <3>9, <3>11, <3>12, <3>13
            <4> QED
                BY <3>1, <3>3, <3>7, <4>1
        <3> HIDE DEF newest
        <3> QED
            BY <2>1, <3>11, <3>12, <3>13
    <2> QED
        BY <1>4, <1>5, <2>1, <2>4, <2>5, <2>6 DEF FindsTheNearest
<1>6. CASE s.op \in {"less", "last"}
    <2> DEFINE f == IF s.found = Nil THEN head_ ELSE s.found
    <2>1. f = x
        <3>1. x # Nil
            BY <1>1, KeysAre
        <3> QED
            BY <1>6, <3>1
    <2>2. ASSUME NEW n \in UpTo(p), KeyLess(x, n)
          PROVE  s.target # Nil /\ ~KeyLess(n, s.target)
        <3>1. next # Nil /\ ~KeyLess(n, next) /\ n \in On(0) /\ next \in On(0)
            BY <1>1, <1>2, <2>2
        <3>2. s.op = "less" /\ s.target \in UserKeys \X Nat /\ ~KeyLess(next, s.target)
            BY <1>6, <3>1 DEF Passes, IsAfterNode
        <3> QED
            BY <1>1, <3>1, <3>2, KeysAre, KeyOrder
    <2>3. Between(s.present, f, s.target) = {}
        <3>1. SUFFICES ASSUME NEW n \in UpTo(p), x = head_ \/ KeyLess(x, n), s.target = Nil \/ KeyLess(n, s.target)
                       PROVE  FALSE
            BY <2>1 DEF Between
        <3>2. KeyLess(x, n)
            BY <1>1, <3>1, KeysAre
        <3> QED
            BY <2>2, <3>1, <3>2
    <2>4. s.op = "less" /\ s.found # Nil => KeyLess(s.found, s.target)
        OBVIOUS
    <2>5. s.op # "seek" /\ s.op # "next"
        BY <1>6
    <2> QED
        BY <1>4, <2>3, <2>4, <2>5 DEF FindsTheNearest
<1> QED
    BY <1>4, <1>5, <1>6

\* One pointer of the lowest level leads to the entry after a node.
LEMMA NextFindsNearest ==
    ASSUME ListInv, NEW s, NEW p \in 0 .. Entries, s.present = UpTo(p), s.op = "next", s.target \in On(0),
           s.found = nodes[s.target][0]
    PROVE  FindsTheNearest(s) /\ s.found \in (On(0) \ {head_}) \cup {Nil}
<1> DEFINE x == s.target
           next == s.found
<1>1. /\ 0 \in Levels /\ UpTo(p) \subseteq On(0) \ {head_} /\ On(0) \subseteq Keys \cup {head_} /\ On(0) \subseteq Pairs
      /\ On(0) \subseteq DOMAIN nodes /\ Follows(On(0), x, next)
    BY UpToIsOn, OnIs
<1>2. /\ next \in On(0) \cup {Nil} /\ (next # Nil => KeyLess(x, next))
      /\ \A k \in On(0) : KeyLess(x, k) => next # Nil /\ ~KeyLess(k, next)
    BY <1>1 DEF Follows
<1>3. next # head_
    <2>1. CASE next = Nil
        BY <2>1, <1>1, KeysAre
    <2>2. CASE next # Nil
        <3>1. KeyLess(x, next) /\ x \in Keys \cup {head_}
            BY <1>1, <1>2, <2>2
        <3>2. ~KeyLess(head_, head_) /\ \A t \in Keys : ~KeyLess(t, head_)
            BY KeysAre, KeyOrder
        <3> QED
            BY <3>1, <3>2
    <2> QED
        BY <2>1, <2>2
<1>4. Between(s.present, x, next) = {}
    <2>1. SUFFICES ASSUME NEW n \in UpTo(p), x = head_ \/ KeyLess(x, n), next = Nil \/ KeyLess(n, next)
                   PROVE  FALSE
        BY DEF Between
    <2>2. KeyLess(x, n)
        BY <1>1, <2>1, KeysAre
    <2> QED
        BY <1>1, <1>2, <2>1, <2>2
<1>5. s.op \notin {"seek", "less", "last"}
    OBVIOUS
<1>6. next # Nil => x = head_ \/ KeyLess(x, next)
    BY <1>2
<1> QED
    BY <1>1, <1>2, <1>3, <1>4, <1>5, <1>6 DEF FindsTheNearest

-----------------------------------------------------------------------------
(* Inserting                                                                  *)
\* What goes on while the list grows does not harm the searches.
LEMMA SearchesStay ==
    ASSUME MemInv, searches' = searches, DOMAIN nodes \subseteq DOMAIN nodes', Entries' \in Int, Entries <= Entries',
           \A l \in Levels : On(l) \subseteq On(l)',
           \A n \in DOMAIN nodes' : n \in DOMAIN nodes \/ (n[2] \in Nat /\ n[2] > Entries)
    PROVE  SearchType' /\ SearchesKnow' /\ SearchesFindTheNearest'
<1>1. SearchType' /\ 0 \in Levels
    <2>1. kMaxHeight \in Nat \ {0}
        BY MemTableAssumption
    <2> QED
        BY <2>1 DEF MemInv, SearchType, Levels
<1>2. Entries \in Int
    <2>1. inserter.seq \in Nat
        BY DEF MemInv, ListInv, InserterType
    <2> QED
        BY <2>1 DEF Entries
<1>3. ASSUME NEW p \in 0 .. Entries
      PROVE  p \in 0 .. Entries' /\ UpTo(p) = UpTo(p)'
    BY <1>2, <1>3 DEF UpTo
<1>4. ASSUME NEW r \in MemReaders
      PROVE  SearchKnows(searches[r])'
    <2>1. SearchKnows(searches[r])
        BY DEF MemInv, SearchesKnow
    <2> QED
        BY <1>1, <1>3, <2>1 DEF SearchKnows
<1>5. ASSUME NEW s, FindsTheNearest(s)
      PROVE  FindsTheNearest(s)'
    BY <1>5 DEF FindsTheNearest
<1>6. SearchesFindTheNearest'
    BY <1>5 DEF MemInv, SearchesFindTheNearest
<1> QED
    BY <1>1, <1>4, <1>6 DEF SearchesKnow

\* What a store that is seen changes.
LEMMA SeenIs ==
    ASSUME NEW ns, NEW n \in DOMAIN ns, NEW l \in DOMAIN ns[n], NEW v
    PROVE  /\ DOMAIN Seen(ns, <<n, l, v>>) = DOMAIN ns
           /\ \A m \in DOMAIN ns : DOMAIN Seen(ns, <<n, l, v>>)[m] = DOMAIN ns[m]
           /\ \A m \in DOMAIN ns : \A k \in DOMAIN ns[m] :
                  Seen(ns, <<n, l, v>>)[m][k] = IF m = n /\ k = l THEN v ELSE ns[m][k]
<1> DEFINE store == <<n, l, v>>
<1>1. store[1] = n /\ store[2] = l /\ store[3] = v
    OBVIOUS
<1> HIDE DEF store
<1> SUFFICES /\ DOMAIN Seen(ns, store) = DOMAIN ns
             /\ \A m \in DOMAIN ns : DOMAIN Seen(ns, store)[m] = DOMAIN ns[m]
             /\ \A m \in DOMAIN ns : \A k \in DOMAIN ns[m] :
                    Seen(ns, store)[m][k] = IF m = n /\ k = l THEN v ELSE ns[m][k]
    BY DEF store
<1> QED
    BY <1>1 DEF Seen

\* When no node moves on or off its levels, the lists and what is known of them stay.
LEMMA StoreIsSeenHolds == ASSUME MemInv, StoreIsSeen PROVE MemInv'
<1>1. PICK store \in inserter.unseen :
          nodes' = Seen(nodes, store) /\ inserter' = [inserter EXCEPT !.unseen = @ \ {store}]
    BY DEF StoreIsSeen
<1>2. UNCHANGED <<max_height, searches, arena>> /\ ListInv
    BY DEF StoreIsSeen, MemInv
<1> DEFINE key == inserter.key
           level == inserter.level
           prev == inserter.prev
           next == nodes[prev[level]][level]
<1>3. inserter.pc = "publish" /\ Busy /\ inserter.unseen = {<<key, level, next>>} /\ store = <<key, level, next>>
    <2>1. inserter.unseen # {}
        BY <1>1
    <2>2. inserter.pc = "publish"
        BY <1>2, <2>1 DEF ListInv, InserterKnows
    <2> QED
        BY <1>1, <1>2, <2>1, <2>2 DEF ListInv, InserterKnows, Busy
<1>4. /\ key \in DOMAIN nodes \ {head_} /\ level \in DOMAIN nodes[key] /\ level \in Levels
      /\ LastBefore(On(level), prev[level], key) /\ level \in Nat
      /\ DOMAIN nodes[key] = 0 .. inserter.height - 1 /\ inserter.height \in 1 .. kMaxHeight
    <2>1. kMaxHeight \in Nat
        BY MemTableAssumption
    <2>2. /\ key \in DOMAIN nodes \ {head_} /\ inserter.height \in 1 .. kMaxHeight /\ level \in 0 .. inserter.height - 1
          /\ DOMAIN nodes[key] = 0 .. inserter.height - 1
        BY <1>2, <1>3 DEF ListInv, InserterKnows
    <2>3. level \in level .. inserter.height - 1
        BY <2>1, <2>2
    <2>4. LastBefore(On(level), prev[level], key)
        BY <1>2, <1>3, <2>3 DEF ListInv, InserterKnows
    <2> QED
        BY <2>1, <2>2, <2>4 DEF Levels
<1>5. /\ DOMAIN nodes' = DOMAIN nodes /\ \A m \in DOMAIN nodes : DOMAIN nodes'[m] = DOMAIN nodes[m]
      /\ \A m \in DOMAIN nodes : \A k \in DOMAIN nodes[m] :
             nodes'[m][k] = IF m = key /\ k = level THEN next ELSE nodes[m][k]
    <2>1. key \in DOMAIN nodes /\ level \in DOMAIN nodes[key] /\ nodes' = Seen(nodes, <<key, level, next>>)
        BY <1>1, <1>3, <1>4
    <2> HIDE DEF key, level, prev, next
    <2> QED
        BY <2>1, SeenIs
<1>6. /\ inserter' = [pc |-> inserter.pc, seq |-> inserter.seq, key |-> key, height |-> inserter.height,
                      level |-> level, prev |-> prev, unseen |-> {}]
    <2>1. inserter = [pc |-> inserter.pc, seq |-> inserter.seq, key |-> key, height |-> inserter.height,
                      level |-> level, prev |-> prev, unseen |-> inserter.unseen]
        BY <1>2 DEF ListInv, InserterType
    <2>2. inserter.unseen \ {store} = {}
        BY <1>3
    <2>3. inserter' = [inserter EXCEPT !.unseen = {}]
        BY <1>1, <2>2
    <2> DEFINE a == inserter.pc
               b == inserter.seq
               c == inserter.height
               d == inserter.unseen
    <2> HIDE DEF a, b, c, d, key, level, prev
    <2>4. inserter = [pc |-> a, seq |-> b, key |-> key, height |-> c, level |-> level, prev |-> prev, unseen |-> d]
        BY <2>1 DEF a, b, c, d
    <2>5. [inserter EXCEPT !.unseen = {}]
          = [pc |-> a, seq |-> b, key |-> key, height |-> c, level |-> level, prev |-> prev, unseen |-> {}]
        BY <2>4
    <2> QED
        BY <2>3, <2>5 DEF a, b, c
<1>7. /\ inserter'.pc = inserter.pc /\ inserter'.seq = inserter.seq /\ inserter'.key = key
      /\ inserter'.height = inserter.height /\ inserter'.level = level /\ inserter'.prev = prev
      /\ inserter'.unseen = {} /\ Busy'
    BY <1>3, <1>6 DEF Busy
<1>8. \A l \in Levels : On(l)' = On(l)
    BY <1>3, <1>5, <1>7 DEF On
<1>9. \A l \in Levels : \A n \in On(l) : nodes'[n][l] = nodes[n][l]
    BY <1>3, <1>4, <1>5 DEF On
<1>10. NodesType'
    BY <1>2, <1>5 DEF ListInv, NodesType
<1>11. Lists'
    BY <1>2, <1>8, <1>9 DEF ListInv, Lists, Follows
<1>12. InserterType' /\ EntriesCounted'
    <2>1. InserterType'
        BY <1>2, <1>6, <1>7 DEF ListInv, InserterType
    <2>2. EntriesCounted'
        BY <1>2, <1>3, <1>5, <1>7 DEF ListInv, EntriesCounted
    <2> QED
        BY <2>1, <2>2
<1>13. InserterKnows'
    <2>1. \A l \in level .. inserter.height - 1 : LastBefore(On(l), prev[l], key) /\ l \in Levels
        <3>1. kMaxHeight \in Nat
            BY MemTableAssumption
        <3>2. \A l \in level .. inserter.height - 1 : l \in Levels
            BY <1>4, <3>1 DEF Levels
        <3> QED
            BY <1>2, <1>3, <3>2 DEF ListInv, InserterKnows
    <2>2. \A l \in level .. inserter.height - 1 : LastBefore(On(l)', prev[l], key)
        BY <1>8, <2>1
    <2>3. nodes'[key][level] = next /\ nodes'[prev[level]][level] = next
        <3>1. prev[level] \in On(level)
            BY <1>4 DEF LastBefore
        <3> QED
            BY <1>4, <1>5, <1>9, <3>1
    <2>4. key[2] = inserter.seq /\ level \in 0 .. inserter.height - 1
        BY <1>2, <1>3 DEF ListInv, InserterKnows
    <2> HIDE DEF key, level, prev, next
    <2>5. /\ inserter'.key \in DOMAIN nodes' \ {head_} /\ inserter'.key[2] = inserter'.seq
          /\ inserter'.height \in 1 .. kMaxHeight /\ inserter'.level \in 0 .. inserter'.height - 1
          /\ DOMAIN nodes'[inserter'.key] = 0 .. inserter'.height - 1
        BY <1>4, <1>5, <1>7, <2>4
    <2>6. \A l \in inserter'.level .. inserter'.height - 1 : LastBefore(On(l)', inserter'.prev[l], inserter'.key)
        BY <1>7, <2>2
    <2>7. inserter'.unseen = {} /\ nodes'[inserter'.key][inserter'.level] = nodes'[inserter'.prev[inserter'.level]][inserter'.level]
        BY <1>7, <2>3
    <2> QED
        BY <2>5, <2>6, <2>7 DEF InserterKnows, LastBefore
<1>14. SearchType' /\ SearchesKnow' /\ SearchesFindTheNearest'
    <2>1. Entries' = Entries /\ Entries \in Int
        BY <1>2, <1>3, <1>7 DEF Entries, ListInv, InserterType
    <2>2. Entries <= Entries'
        BY <2>1
    <2> QED
        BY <1>2, <1>5, <1>8, <2>1, <2>2, SearchesStay
<1>15. ArenaOk(arena)'
    BY <1>2 DEF MemInv
<1> QED
    BY <1>10, <1>11, <1>12, <1>13, <1>14, <1>15 DEF MemInv, ListInv

\* The inserter's locals with other values of some.
IsInserter(i, pc, seq, key, height, level, prev, unseen) ==
    i = [pc |-> pc, seq |-> seq, key |-> key, height |-> height, level |-> level, prev |-> prev, unseen |-> unseen]

LEMMA InserterExcept ==
    ASSUME NEW i, NEW pc, NEW seq, NEW key, NEW height, NEW level, NEW prev, NEW unseen,
           IsInserter(i, pc, seq, key, height, level, prev, unseen), NEW X, NEW Y
    PROVE  /\ IsInserter([i EXCEPT !.pc = X, !.unseen = Y], X, seq, key, height, level, prev, Y)
           /\ \A Z : IsInserter([i EXCEPT !.level = Z, !.unseen = Y, !.pc = X], X, seq, key, height, Z, prev, Y)
<1>1. ASSUME NEW j, NEW u, IsInserter(j, pc, seq, key, height, level, prev, u)
      PROVE  IsInserter([j EXCEPT !.pc = X], X, seq, key, height, level, prev, u)
    BY <1>1 DEF IsInserter
<1>2. ASSUME NEW j, NEW p, NEW l, NEW u, IsInserter(j, p, seq, key, height, l, prev, u)
      PROVE  IsInserter([j EXCEPT !.unseen = Y], p, seq, key, height, l, prev, Y)
    BY <1>2 DEF IsInserter
<1>3. ASSUME NEW Z
      PROVE  IsInserter([i EXCEPT !.level = Z], pc, seq, key, height, Z, prev, unseen)
    BY DEF IsInserter
<1>4. IsInserter([i EXCEPT !.pc = X, !.unseen = Y], X, seq, key, height, level, prev, Y)
    <2>1. PICK j : j = [i EXCEPT !.pc = X]
        OBVIOUS
    <2>2. IsInserter([j EXCEPT !.unseen = Y], X, seq, key, height, level, prev, Y)
        BY <1>1, <1>2, <2>1
    <2>3. [i EXCEPT !.pc = X, !.unseen = Y] = [j EXCEPT !.unseen = Y]
        BY <2>1
    <2> QED
        BY <2>2, <2>3
<1>5. ASSUME NEW Z
      PROVE  IsInserter([i EXCEPT !.level = Z, !.unseen = Y, !.pc = X], X, seq, key, height, Z, prev, Y)
    <2>1. PICK j : j = [i EXCEPT !.level = Z]
        OBVIOUS
    <2>2. PICK k : k = [j EXCEPT !.unseen = Y]
        OBVIOUS
    <2>3. IsInserter(k, pc, seq, key, height, Z, prev, Y)
        BY <1>2, <1>3, <2>1, <2>2
    <2>4. IsInserter([k EXCEPT !.pc = X], X, seq, key, height, Z, prev, Y)
        BY <2>3 DEF IsInserter
    <2>5. [i EXCEPT !.level = Z, !.unseen = Y, !.pc = X] = [k EXCEPT !.pc = X]
        BY <2>1, <2>2
    <2> QED
        BY <2>4, <2>5
<1> QED
    BY <1>4, <1>5

LEMMA InserterParts ==
    ASSUME ListInv
    PROVE  IsInserter(inserter, inserter.pc, inserter.seq, inserter.key, inserter.height, inserter.level,
                      inserter.prev, inserter.unseen)
BY DEF ListInv, InserterType, IsInserter

\* What the inserter knows of the level it is about to link.
LEMMA InserterIs ==
    ASSUME ListInv, Busy
    PROVE  LET i == inserter
           IN /\ i.key \in DOMAIN nodes \ {head_} /\ i.key \in Keys /\ i.key[2] = i.seq
              /\ i.height \in 1 .. kMaxHeight /\ i.level \in 0 .. i.height - 1
              /\ DOMAIN nodes[i.key] = 0 .. i.height - 1
              /\ \A l \in i.level .. i.height - 1 : l \in Levels /\ LastBefore(On(l), i.prev[l], i.key)
              /\ i.level \in i.level .. i.height - 1
<1>1. kMaxHeight \in Nat
    BY MemTableAssumption
<1> DEFINE i == inserter
<1>2. /\ i.key \in DOMAIN nodes \ {head_} /\ i.key[2] = i.seq
      /\ i.height \in 1 .. kMaxHeight /\ i.level \in 0 .. i.height - 1
      /\ DOMAIN nodes[i.key] = 0 .. i.height - 1
      /\ \A l \in i.level .. i.height - 1 : LastBefore(On(l), i.prev[l], i.key)
    BY DEF ListInv, InserterKnows
<1>3. i.key \in Keys
    BY <1>2 DEF ListInv, NodesType
<1>4. (\A l \in i.level .. i.height - 1 : l \in Levels) /\ i.level \in i.level .. i.height - 1
    BY <1>1, <1>2 DEF Levels
<1> QED
    BY <1>2, <1>3, <1>4

\* NoBarrier_SetNext on the new node moves it on no list.
LEMMA SetOwnNextHolds == ASSUME MemInv, SetOwnNext PROVE MemInv'
<1> DEFINE key == inserter.key
           level == inserter.level
           prev == inserter.prev
           next == nodes[prev[level]][level]
<1>1. ListInv /\ Busy /\ inserter.pc = "link" /\ inserter.unseen = {}
    BY DEF SetOwnNext, MemInv, Busy, ListInv, InserterKnows
<1>2. UNCHANGED <<nodes, max_height, searches, arena>>
    BY DEF SetOwnNext
<1>3. IsInserter(inserter', "publish", inserter.seq, key, inserter.height, level, prev, {<<key, level, next>>})
    <2>1. inserter' = [inserter EXCEPT !.pc = "publish", !.unseen = {<<key, level, next>>}]
        BY <1>1 DEF SetOwnNext, NoBarrier_Store
    <2>2. PICK X : X = {<<key, level, next>>}
        OBVIOUS
    <2>3. IsInserter([inserter EXCEPT !.pc = "publish", !.unseen = X],
                     "publish", inserter.seq, key, inserter.height, level, prev, X)
        BY <1>1, InserterParts, InserterExcept
    <2> QED
        BY <2>1, <2>2, <2>3
<1>4. /\ inserter'.pc = "publish" /\ inserter'.seq = inserter.seq /\ inserter'.key = key
      /\ inserter'.height = inserter.height /\ inserter'.level = level /\ inserter'.prev = prev
      /\ inserter'.unseen = {<<key, level, next>>} /\ Busy'
    <2> HIDE DEF key, level, prev, next
    <2> QED
        BY <1>3 DEF IsInserter, Busy
<1>5. \A l \in Levels : On(l)' = On(l)
    BY <1>1, <1>2, <1>4 DEF On
<1>6. NodesType' /\ Lists'
    BY <1>1, <1>2, <1>5 DEF ListInv, NodesType, Lists, Follows
<1>7. InserterType' /\ EntriesCounted'
    <2>1. InserterType'
        BY <1>1, <1>3, <1>4 DEF ListInv, InserterType, IsInserter
    <2> QED
        BY <1>1, <1>2, <1>4, <2>1 DEF ListInv, EntriesCounted
<1>8. InserterKnows'
    <2>1. \A l \in level .. inserter.height - 1 : LastBefore(On(l)', prev[l], key)
        BY <1>1, <1>5, InserterIs
    <2>2. /\ key \in DOMAIN nodes \ {head_} /\ key[2] = inserter.seq
          /\ inserter.height \in 1 .. kMaxHeight /\ level \in 0 .. inserter.height - 1
          /\ DOMAIN nodes[key] = 0 .. inserter.height - 1
        BY <1>1, InserterIs
    <2>3. inserter'.unseen = {<<inserter'.key, inserter'.level, nodes'[inserter'.prev[inserter'.level]][inserter'.level]>>}
        BY <1>2, <1>4
    <2> HIDE DEF key, level, prev, next
    <2>4. /\ inserter'.key \in DOMAIN nodes' \ {head_} /\ inserter'.key[2] = inserter'.seq
          /\ inserter'.height \in 1 .. kMaxHeight /\ inserter'.level \in 0 .. inserter'.height - 1
          /\ DOMAIN nodes'[inserter'.key] = 0 .. inserter'.height - 1
        BY <1>2, <1>4, <2>2
    <2>5. \A l \in inserter'.level .. inserter'.height - 1 : LastBefore(On(l)', inserter'.prev[l], inserter'.key)
        BY <1>4, <2>1
    <2> QED
        BY <1>4, <2>3, <2>4, <2>5 DEF InserterKnows, LastBefore
<1>9. SearchType' /\ SearchesKnow' /\ SearchesFindTheNearest'
    <2>1. Entries' = Entries /\ Entries \in Int
        BY <1>1, <1>4 DEF Entries, ListInv, InserterType
    <2>2. Entries <= Entries'
        BY <2>1
    <2> QED
        BY <1>2, <1>5, <2>1, <2>2, SearchesStay
<1>10. ArenaOk(arena)'
    BY <1>2 DEF MemInv
<1> QED
    BY <1>6, <1>7, <1>8, <1>9, <1>10 DEF MemInv, ListInv

\* After the barrier the node's own pointer is seen.
LEMMA BarrierIs ==
    ASSUME ListInv, inserter.pc = "publish"
    PROVE  LET i == inserter
               next == nodes[i.prev[i.level]][i.level]
           IN /\ DOMAIN MemoryBarrier = DOMAIN nodes
              /\ \A m \in DOMAIN nodes : DOMAIN MemoryBarrier[m] = DOMAIN nodes[m]
              /\ \A m \in DOMAIN nodes : \A k \in DOMAIN nodes[m] :
                     MemoryBarrier[m][k] = IF m = i.key /\ k = i.level THEN next ELSE nodes[m][k]
<1> DEFINE key == inserter.key
           level == inserter.level
           next == nodes[inserter.prev[level]][level]
           late(m, k) == {store \in inserter.unseen : store[1] = m /\ store[2] = k}
<1>1. \/ inserter.unseen = {<<key, level, next>>}
      \/ inserter.unseen = {} /\ nodes[key][level] = next
    BY DEF ListInv, InserterKnows
<1>2. /\ DOMAIN MemoryBarrier = DOMAIN nodes
      /\ \A m \in DOMAIN nodes : DOMAIN MemoryBarrier[m] = DOMAIN nodes[m]
      /\ \A m \in DOMAIN nodes : \A k \in DOMAIN nodes[m] :
             MemoryBarrier[m][k] = IF late(m, k) = {} THEN nodes[m][k] ELSE (CHOOSE store \in late(m, k) : TRUE)[3]
    BY DEF MemoryBarrier
<1>3. CASE inserter.unseen = {} /\ nodes[key][level] = next
    <2>1. \A m, k : late(m, k) = {}
        BY <1>3
    <2> HIDE DEF late
    <2> QED
        BY <1>2, <1>3, <2>1
<1>4. CASE inserter.unseen = {<<key, level, next>>}
    <2> DEFINE store == <<key, level, next>>
    <2>1. store[1] = key /\ store[2] = level /\ store[3] = next
        OBVIOUS
    <2> HIDE DEF store, key, level, next
    <2>2. \A m, k : late(m, k) = IF m = key /\ k = level THEN {store} ELSE {}
        BY <1>4, <2>1 DEF store
    <2>3. (CHOOSE x \in {store} : TRUE) = store
        OBVIOUS
    <2> HIDE DEF late
    <2>4. \A m \in DOMAIN nodes : \A k \in DOMAIN nodes[m] :
              MemoryBarrier[m][k] = IF m = key /\ k = level THEN next ELSE nodes[m][k]
        <3>1. ASSUME NEW m \in DOMAIN nodes, NEW k \in DOMAIN nodes[m], m = key /\ k = level
              PROVE  MemoryBarrier[m][k] = next
            <4>1. late(m, k) = {store} /\ late(m, k) # {}
                BY <2>2, <3>1
            <4> QED
                BY <1>2, <2>1, <2>3, <4>1
        <3>2. ASSUME NEW m \in DOMAIN nodes, NEW k \in DOMAIN nodes[m], ~(m = key /\ k = level)
              PROVE  MemoryBarrier[m][k] = nodes[m][k]
            <4>1. late(m, k) = {}
                BY <2>2, <3>2
            <4> QED
                BY <1>2, <4>1
        <3> QED
            BY <3>1, <3>2
    <2> QED
        BY <1>2, <2>4 DEF key, level, next
<1> QED
    BY <1>1, <1>3, <1>4

\* Linking the node on its level makes it the successor there, and the next level is to do.
LEMMA PublishHolds == ASSUME MemInv, Publish PROVE MemInv'
<1>0. PICK level : level = inserter.level
    OBVIOUS
<1> DEFINE key == inserter.key
           prev == inserter.prev
           height == inserter.height
           p == prev[level]
           next == nodes[p][level]
           pc == IF level + 1 < height THEN "link" ELSE "idle"
<1>1. ListInv /\ Busy /\ inserter.pc = "publish" /\ UNCHANGED <<max_height, searches, arena>>
    BY DEF Publish, MemInv, Busy
<1>2. /\ key \in DOMAIN nodes \ {head_} /\ key \in Keys /\ key[2] = inserter.seq
      /\ height \in 1 .. kMaxHeight /\ level \in 0 .. height - 1 /\ DOMAIN nodes[key] = 0 .. height - 1
      /\ \A l \in level .. height - 1 : l \in Levels /\ LastBefore(On(l), prev[l], key)
      /\ level \in Levels /\ LastBefore(On(level), p, key) /\ kMaxHeight \in Nat
    BY <1>0, <1>1, InserterIs, MemTableAssumption
<1>3. /\ p \in On(level) /\ p \in DOMAIN nodes /\ level \in DOMAIN nodes[p] /\ key \notin On(level) /\ p # key
      /\ level \in DOMAIN nodes[key] /\ Follows(On(level), p, next) /\ On(level) \subseteq Pairs /\ key \in Pairs
    <2>1. p \in On(level)
        BY <1>2 DEF LastBefore
    <2>2. key \notin On(level)
        BY <1>0, <1>1, <1>2 DEF On
    <2> QED
        BY <1>1, <1>2, <2>1, <2>2, OnIs, KeysAre
<1>4. /\ DOMAIN nodes' = DOMAIN nodes /\ \A m \in DOMAIN nodes : DOMAIN nodes'[m] = DOMAIN nodes[m]
      /\ \A m \in DOMAIN nodes : \A k \in DOMAIN nodes[m] :
             nodes'[m][k] = IF m = p /\ k = level THEN key
                            ELSE IF m = key /\ k = level THEN next ELSE nodes[m][k]
    <2> DEFINE ns == MemoryBarrier
    <2>1. /\ DOMAIN ns = DOMAIN nodes /\ \A m \in DOMAIN nodes : DOMAIN ns[m] = DOMAIN nodes[m]
          /\ \A m \in DOMAIN nodes : \A k \in DOMAIN nodes[m] :
                 ns[m][k] = IF m = key /\ k = level THEN next ELSE nodes[m][k]
        BY <1>0, <1>1, BarrierIs
    <2>2. nodes' = Seen(ns, <<p, level, key>>)
        BY <1>0 DEF Publish, Release_Store
    <2>3. p \in DOMAIN ns /\ level \in DOMAIN ns[p]
        BY <1>3, <2>1
    <2> HIDE DEF ns, p, key, next
    <2>4. /\ DOMAIN nodes' = DOMAIN ns /\ \A m \in DOMAIN ns : DOMAIN nodes'[m] = DOMAIN ns[m]
          /\ \A m \in DOMAIN ns : \A k \in DOMAIN ns[m] :
                 nodes'[m][k] = IF m = p /\ k = level THEN key ELSE ns[m][k]
        BY <2>2, <2>3, SeenIs
    <2> QED
        BY <2>1, <2>4
<1>5. IsInserter(inserter', pc, inserter.seq, key, height, level + 1, prev, {})
    <2>1. inserter' = [inserter EXCEPT !.level = level + 1, !.unseen = {}, !.pc = pc]
        BY <1>0 DEF Publish
    <2> HIDE DEF pc, key, prev, height
    <2>2. IsInserter(inserter, inserter.pc, inserter.seq, key, height, level, prev, inserter.unseen)
        BY <1>0, <1>1, InserterParts DEF key, prev, height
    <2>3. IsInserter([inserter EXCEPT !.level = level + 1, !.unseen = {}, !.pc = pc],
                     pc, inserter.seq, key, height, level + 1, prev, {})
        BY <2>2, InserterExcept
    <2> QED
        BY <2>1, <2>3
<1>6. /\ inserter'.pc = pc /\ inserter'.seq = inserter.seq /\ inserter'.key = key
      /\ inserter'.height = height /\ inserter'.level = level + 1 /\ inserter'.prev = prev
      /\ inserter'.unseen = {} /\ (Busy' <=> level + 1 < height)
    <2>1. pc = "idle" <=> ~(level + 1 < height)
        OBVIOUS
    <2> HIDE DEF pc, key, prev, height
    <2> QED
        BY <1>5, <2>1 DEF IsInserter, Busy
<1>7. On(level)' = On(level) \cup {key}
    <2>1. ASSUME NEW n \in DOMAIN nodes
          PROVE  n \in On(level)' <=> n \in On(level) \cup {key}
        <3>1. CASE n = key
            BY <1>2, <1>3, <1>4, <1>6, <3>1 DEF On
        <3>2. CASE n # key
            BY <1>4, <1>6, <3>2 DEF On
        <3> QED
            BY <3>1, <3>2
    <2>2. On(level)' \subseteq DOMAIN nodes /\ On(level) \cup {key} \subseteq DOMAIN nodes
        BY <1>2, <1>4 DEF On
    <2> QED
        BY <2>1, <2>2
<1>8. ASSUME NEW l \in Levels, l # level
      PROVE  On(l)' = On(l)
    <2>0. l \in Int
        BY <1>2 DEF Levels
    <2>1. ASSUME NEW n \in DOMAIN nodes
          PROVE  n \in On(l)' <=> n \in On(l)
        <3>1. CASE n = key
            BY <1>0, <1>1, <1>2, <1>4, <1>6, <1>8, <2>0, <3>1 DEF On
        <3>2. CASE n # key
            BY <1>4, <1>6, <3>2 DEF On
        <3> QED
            BY <3>1, <3>2
    <2>2. On(l)' \subseteq DOMAIN nodes /\ On(l) \subseteq DOMAIN nodes
        BY <1>4 DEF On
    <2> QED
        BY <2>1, <2>2
<1>9. NodesType'
    BY <1>1, <1>4 DEF ListInv, NodesType
<1>10. Lists'
    <2>1. ASSUME NEW n \in On(level)'
          PROVE  Follows(On(level) \cup {key}, n, nodes'[n][level])
        <3>1. n \in On(level) \cup {key} /\ n \in DOMAIN nodes /\ level \in DOMAIN nodes[n]
            BY <1>1, <1>2, <1>3, <1>7, OnIs
        <3>2. nodes'[n][level] = IF n = p THEN key ELSE IF n = key THEN next ELSE nodes[n][level]
            BY <1>4, <3>1
        <3>3. /\ Follows(On(level) \cup {key}, key, next) /\ Follows(On(level) \cup {key}, p, key)
              /\ \A i \in On(level) \ {p} : \A m : Follows(On(level), i, m) => Follows(On(level) \cup {key}, i, m)
            <4> HIDE DEF key, p, next
            <4> QED
                BY <1>2, <1>3, LinkedIn
        <3>4. ASSUME n \in On(level)
              PROVE  Follows(On(level), n, nodes[n][level])
            BY <1>1, <1>2, <3>4, OnIs
        <3> HIDE DEF key, p, next
        <3> QED
            BY <1>3, <3>1, <3>2, <3>3, <3>4
    <2>2. ASSUME NEW l \in Levels, l # level, NEW n \in On(l)
          PROVE  Follows(On(l), n, nodes'[n][l])
        <3>1. n \in DOMAIN nodes /\ l \in DOMAIN nodes[n] /\ Follows(On(l), n, nodes[n][l])
            BY <1>1, OnIs
        <3>2. nodes'[n][l] = nodes[n][l]
            BY <1>4, <2>2, <3>1
        <3> QED
            BY <3>1, <3>2
    <2>3. ASSUME NEW l \in Levels, NEW n \in On(l)'
          PROVE  Follows(On(l)', n, nodes'[n][l])
        <3>1. CASE l = level
            BY <1>7, <2>1, <2>3, <3>1
        <3>2. CASE l # level
            BY <1>8, <2>2, <2>3, <3>2
        <3> QED
            BY <3>1, <3>2
    <2> QED
        BY <2>3 DEF Lists, Follows
<1>11. InserterType' /\ EntriesCounted'
    <2>1. InserterType'
        <3>1. pc \in {"idle", "link", "publish"} /\ inserter.seq \in Nat
            BY <1>1 DEF ListInv, InserterType
        <3> HIDE DEF pc, key, prev, height
        <3> QED
            BY <1>5, <1>6, <3>1 DEF InserterType, IsInserter
    <2> QED
        BY <1>1, <1>4, <1>6, <2>1 DEF ListInv, EntriesCounted
<1>12. InserterKnows'
    <2>1. ASSUME level + 1 < height
          PROVE  /\ level + 1 \in 0 .. height - 1
                 /\ \A l \in level + 1 .. height - 1 : LastBefore(On(l)', prev[l], key)
        <3>1. level + 1 \in 0 .. height - 1
            BY <1>2, <2>1
        <3>2. ASSUME NEW l \in level + 1 .. height - 1
              PROVE  LastBefore(On(l)', prev[l], key)
            <4>1. l \in level .. height - 1 /\ l # level
                BY <1>2, <3>2
            <4> QED
                BY <1>2, <1>8, <4>1
        <3> QED
            BY <3>1, <3>2
    <2>2. pc # "publish"
        OBVIOUS
    <2> HIDE DEF pc, key, prev, height, next, p
    <2>3. ASSUME Busy'
          PROVE  /\ inserter'.key \in DOMAIN nodes' \ {head_} /\ inserter'.key[2] = inserter'.seq
                 /\ inserter'.height \in 1 .. kMaxHeight /\ inserter'.level \in 0 .. inserter'.height - 1
                 /\ DOMAIN nodes'[inserter'.key] = 0 .. inserter'.height - 1
                 /\ \A l \in inserter'.level .. inserter'.height - 1 :
                       LastBefore(On(l)', inserter'.prev[l], inserter'.key)
        BY <1>2, <1>4, <1>6, <2>1, <2>3
    <2> QED
        BY <1>6, <2>2, <2>3 DEF InserterKnows, LastBefore
<1>13. SearchType' /\ SearchesKnow' /\ SearchesFindTheNearest'
    <2>1. Entries \in Int /\ Entries' \in Int /\ Entries <= Entries'
        <3>1. inserter.seq \in Nat
            BY <1>1 DEF ListInv, InserterType
        <3> QED
            BY <1>1, <1>6, <3>1 DEF Entries
    <2>2. \A l \in Levels : On(l) \subseteq On(l)'
        <3>1. ASSUME NEW l \in Levels
              PROVE  On(l) \subseteq On(l)'
            <4>1. CASE l = level
                BY <1>7, <4>1
            <4>2. CASE l # level
                BY <1>8, <4>2
            <4> QED
                BY <4>1, <4>2
        <3> QED
            BY <3>1
    <2> QED
        BY <1>1, <1>4, <2>1, <2>2, SearchesStay
<1>14. ArenaOk(arena)'
    BY <1>1 DEF MemInv
<1> QED
    BY <1>9, <1>10, <1>11, <1>12, <1>13, <1>14 DEF MemInv, ListInv

\* Between two calls of Insert, what is linked on a level is what is on it.
LEMMA LinkedIs ==
    ASSUME ListInv, ~Busy, NEW l \in Levels
    PROVE  Linked(l) = On(l) \ {head_}
<1>1. /\ On(l) = {n \in DOMAIN nodes : l \in DOMAIN nodes[n]} /\ On(l) \subseteq Keys \cup {head_} /\ On(l) \subseteq Pairs
      /\ IsFiniteSet(On(l)) /\ head_ \in On(l) /\ \A n \in On(l) : Follows(On(l), n, nodes[n][l])
    BY OnIs DEF On
<1>2. ASSUME NEW n \in Linked(l)
      PROVE  n \in On(l) \ {head_}
    <2>1. n \in DOMAIN nodes
        BY DEF Linked
    <2>2. PICK m \in DOMAIN nodes : l \in DOMAIN nodes[m] /\ nodes[m][l] = n
        BY DEF Linked
    <2>3. m \in On(l) /\ Follows(On(l), m, n)
        BY <1>1, <2>2
    <2>4. n # Nil
        BY <2>1, KeysAre DEF ListInv, NodesType
    <2>5. n \in On(l) /\ KeyLess(m, n)
        BY <2>3, <2>4 DEF Follows
    <2>6. n # head_
        BY <1>1, <2>3, <2>5, KeysAre, KeyOrder
    <2> QED
        BY <2>5, <2>6
<1>3. ASSUME NEW n \in On(l) \ {head_}
      PROVE  n \in Linked(l)
    <2> DEFINE T == {m \in On(l) : KeyLess(m, n)}
    <2>1. head_ \in T
        BY <1>1, KeysAre
    <2>2. IsFiniteSet(T) /\ T \in SUBSET Pairs
        BY <1>1, FS_Subset
    <2>3. PICK p \in T : \A m \in T \ {p} : KeyLess(m, p)
        <3> HIDE DEF T
        <3> QED
            BY <2>1, <2>2, LastExists
    <2>4. p \in On(l) /\ KeyLess(p, n) /\ Follows(On(l), p, nodes[p][l])
        BY <1>1
    <2>5. nodes[p][l] \in On(l) /\ KeyLess(p, nodes[p][l]) /\ ~KeyLess(n, nodes[p][l])
        BY <2>4 DEF Follows
    <2>6. ~KeyLess(nodes[p][l], n)
        <3>1. SUFFICES ASSUME nodes[p][l] \in T, nodes[p][l] # p PROVE FALSE
            BY <1>1, <2>4, <2>5, KeyOrder
        <3>2. KeyLess(nodes[p][l], p)
            BY <2>3, <3>1
        <3> QED
            BY <1>1, <2>4, <2>5, <3>2, KeyOrder
    <2>7. nodes[p][l] = n
        BY <1>1, <2>5, <2>6, KeyOrder
    <2> QED
        BY <1>1, <2>4, <2>7 DEF Linked
<1> QED
    BY <1>2, <1>3

\* What FindGreaterOrEqual leaves in prev is the last node before the key.
LEMMA PrevOnIs ==
    ASSUME ListInv, ~Busy, NEW l \in Levels, NEW key \in Keys
    PROVE  LastBefore(On(l), PrevOn(key, l), key)
<1>1. /\ Linked(l) = On(l) \ {head_} /\ On(l) \subseteq Pairs /\ IsFiniteSet(On(l)) /\ head_ \in On(l)
      /\ On(l) \subseteq Keys \cup {head_} /\ key \in Pairs
    BY LinkedIs, OnIs, KeysAre
<1> DEFINE before == {n \in Linked(l) : KeyLess(n, key)}
<1>2. \A n \in On(l) : KeyLess(n, key) => n = head_ \/ n \in before
    BY <1>1
<1>3. CASE before = {}
    <2>1. PrevOn(key, l) = head_
        BY <1>3 DEF PrevOn
    <2>2. KeyLess(head_, key)
        BY KeysAre
    <2>3. \A k \in On(l) : ~KeyLess(head_, k) \/ ~KeyLess(k, key)
        BY <1>1, <1>2, <1>3, KeyOrder
    <2> QED
        BY <1>1, <2>1, <2>2, <2>3 DEF LastBefore
<1>4. CASE before # {}
    <2>1. IsFiniteSet(before) /\ before \in SUBSET Pairs
        BY <1>1, FS_Subset
    <2>2. \E n \in before : \A m \in before \ {n} : KeyLess(m, n)
        <3> HIDE DEF before
        <3> QED
            BY <1>4, <2>1, LastExists
    <2>3. PICK n : n = PrevOn(key, l)
        OBVIOUS
    <2>4. n \in before /\ \A m \in before \ {n} : KeyLess(m, n)
        <3>1. n = CHOOSE x \in before : \A m \in before \ {x} : KeyLess(m, x)
            BY <1>4, <2>3 DEF PrevOn
        <3> HIDE DEF before
        <3> QED
            BY <2>2, <3>1
    <2>5. n \in On(l) /\ KeyLess(n, key) /\ n # head_
        BY <1>1, <2>4
    <2>6. ASSUME NEW k \in On(l), KeyLess(n, k), KeyLess(k, key)
          PROVE  FALSE
        <3>1. n \in Keys /\ ~KeyLess(n, head_)
            BY <1>1, <2>5, KeysAre
        <3>2. k \in before
            BY <1>2, <2>6, <3>1
        <3>3. k = n \/ KeyLess(k, n)
            BY <2>4, <3>2
        <3> QED
            BY <1>1, <2>5, <2>6, <3>3, KeyOrder
    <2> QED
        BY <2>3, <2>5, <2>6 DEF LastBefore
<1> QED
    BY <1>3, <1>4

\* A new entry is on no list yet; its predecessors are known on every level.
LEMMA MemAddHolds ==
    ASSUME MemInv, NEW k \in UserKeys, NEW h \in RandomHeight, MemAdd(k, h)
    PROVE  MemInv'
<1> DEFINE seq == inserter.seq + 1
           key == <<k, seq>>
           prev == [l \in 0 .. h - 1 |-> PrevOn(key, l)]
<1>1. /\ ListInv /\ ~Busy /\ inserter.seq \in Nat /\ seq \in Nat \ {0} /\ k \in Nat \ {0}
      /\ h \in 1 .. kMaxHeight /\ kMaxHeight \in Nat \ {0} /\ EntrySize[k] \in Nat \ {0} /\ NodeBytes \in Nat \ {0}
    BY MemTableAssumption DEF MemInv, MemAdd, Busy, ListInv, InserterType, RandomHeight
<1>2. /\ inserter' = [pc |-> "link", seq |-> seq, key |-> key, height |-> h, level |-> 0, prev |-> prev, unseen |-> {}]
      /\ nodes' = [n \in DOMAIN nodes \cup {key} |-> IF n = key THEN NewNode(h) ELSE nodes[n]]
      /\ max_height' = Max({max_height, h}) /\ searches' = searches
      /\ arena' = AllocateAligned(Allocate(arena, EntrySize[k]), NodeBytes * h)
    BY DEF MemAdd
<1>3. key \in Keys /\ key # head_ /\ key[2] = seq /\ key \notin DOMAIN nodes
    <2>1. key \in Keys
        BY <1>1 DEF Keys
    <2>2. \A n \in DOMAIN nodes : n[2] <= inserter.seq
        BY <1>1 DEF ListInv, EntriesCounted
    <2>3. ~(inserter.seq + 1 <= inserter.seq) /\ key[2] = inserter.seq + 1
        BY <1>1
    <2> QED
        BY <2>1, <2>2, <2>3, KeysAre
<1>4. /\ inserter'.pc = "link" /\ inserter'.seq = seq /\ inserter'.key = key /\ inserter'.height = h
      /\ inserter'.level = 0 /\ inserter'.prev = prev /\ inserter'.unseen = {} /\ Busy'
    <2> HIDE DEF seq, key, prev
    <2> QED
        BY <1>2 DEF Busy
<1>5. /\ DOMAIN nodes' = DOMAIN nodes \cup {key} /\ DOMAIN nodes'[key] = 0 .. h - 1
      /\ \A n \in DOMAIN nodes : nodes'[n] = nodes[n]
    <2> HIDE DEF key
    <2> QED
        BY <1>2, <1>3 DEF NewNode
<1>6. ASSUME NEW l \in Levels
      PROVE  On(l)' = On(l)
    <2>1. l >= 0
        BY <1>1 DEF Levels
    <2>2. ASSUME NEW n \in DOMAIN nodes \cup {key}
          PROVE  n \in On(l)' <=> n \in On(l)
        <3>1. CASE n = key
            BY <1>3, <1>4, <2>1, <3>1 DEF On
        <3>2. CASE n # key
            BY <1>1, <1>4, <1>5, <2>2, <3>2 DEF On
        <3> QED
            BY <3>1, <3>2
    <2>3. On(l)' \subseteq DOMAIN nodes \cup {key} /\ On(l) \subseteq DOMAIN nodes
        BY <1>5 DEF On
    <2> QED
        BY <2>2, <2>3
<1>7. NodesType'
    <2>1. max_height' \in 1 .. kMaxHeight
        <3>1. max_height \in 1 .. kMaxHeight
            BY <1>1 DEF ListInv, NodesType
        <3>2. {max_height, h} \in SUBSET Int /\ {max_height, h} # {}
            BY <1>1, <3>1
        <3>3. IsFiniteSet({max_height, h})
            <4>1. IsFiniteSet({max_height}) /\ {max_height, h} = {max_height} \cup {h}
                BY FS_Singleton
            <4> QED
                BY <4>1, FS_AddElement
        <3>4. Max({max_height, h}) \in {max_height, h}
            BY <3>2, <3>3, MaxIsGreatest
        <3> QED
            BY <1>1, <1>2, <3>1, <3>4
    <2>2. IsFiniteSet(DOMAIN nodes')
        <3>1. IsFiniteSet(DOMAIN nodes) /\ DOMAIN nodes' = DOMAIN nodes \cup {key}
            BY <1>1, <1>5 DEF ListInv, NodesType
        <3> HIDE DEF key
        <3> QED
            BY <3>1, FS_AddElement
    <2>3. DOMAIN nodes' \subseteq Keys \cup {head_} /\ head_ \in DOMAIN nodes' /\ DOMAIN nodes'[head_] = Levels
        BY <1>1, <1>3, <1>5 DEF ListInv, NodesType
    <2>4. ASSUME NEW n \in DOMAIN nodes'
          PROVE  \E g \in 1 .. kMaxHeight : DOMAIN nodes'[n] = 0 .. g - 1
        BY <1>1, <1>5 DEF ListInv, NodesType
    <2> QED
        BY <2>1, <2>2, <2>3, <2>4 DEF NodesType
<1>8. Lists'
    <2>1. ASSUME NEW l \in Levels, NEW n \in On(l)
          PROVE  Follows(On(l), n, nodes'[n][l])
        <3>1. n \in DOMAIN nodes /\ Follows(On(l), n, nodes[n][l])
            BY <1>1, OnIs
        <3> QED
            BY <1>5, <3>1
    <2> QED
        BY <1>6, <2>1 DEF Lists, Follows
<1>9. InserterType' /\ EntriesCounted'
    <2>1. InserterType'
        <3> HIDE DEF seq, key, prev
        <3> QED
            BY <1>1, <1>2, <1>4 DEF InserterType
    <2>2. Cardinality(DOMAIN nodes') = seq + 1
        <3>1. IsFiniteSet(DOMAIN nodes) /\ Cardinality(DOMAIN nodes) = inserter.seq + 1
            BY <1>1 DEF ListInv, NodesType, EntriesCounted
        <3>2. Cardinality(DOMAIN nodes \cup {key}) = Cardinality(DOMAIN nodes) + 1
            BY <1>3, <3>1, FS_AddElement
        <3> QED
            BY <1>1, <1>5, <3>1, <3>2
    <2>3. ASSUME NEW n \in DOMAIN nodes \cup {key}
          PROVE  n[2] <= seq /\ (n # key => n[2] < seq)
        <3>1. CASE n = key
            BY <1>1, <1>3, <3>1
        <3>2. CASE n # key
            <4>1. n \in DOMAIN nodes /\ n[2] <= inserter.seq /\ n \in Keys \cup {head_}
                BY <1>1, <2>3, <3>2 DEF ListInv, EntriesCounted, NodesType
            <4>2. n[2] \in Nat
                BY <4>1, MemTableAssumption DEF Keys, head_
            <4> QED
                BY <1>1, <4>1, <4>2
        <3> QED
            BY <3>1, <3>2
    <2> HIDE DEF seq, key, prev
    <2> QED
        BY <1>4, <1>5, <2>1, <2>2, <2>3 DEF EntriesCounted
<1>10. InserterKnows'
    <2>1. ASSUME NEW l \in 0 .. h - 1
          PROVE  LastBefore(On(l)', prev[l], key)
        <3>1. l \in Levels
            BY <1>1 DEF Levels
        <3>2. prev[l] = PrevOn(key, l)
            OBVIOUS
        <3> HIDE DEF key, prev
        <3> QED
            BY <1>1, <1>3, <1>6, <3>1, <3>2, PrevOnIs
    <2>2. 0 \in 0 .. h - 1
        BY <1>1
    <2> HIDE DEF seq, key, prev
    <2> QED
        BY <1>1, <1>3, <1>4, <1>5, <2>1, <2>2 DEF InserterKnows, LastBefore
<1>11. SearchType' /\ SearchesKnow' /\ SearchesFindTheNearest'
    <2>1. Entries = inserter.seq /\ Entries' = inserter.seq
        BY <1>1, <1>4 DEF Entries
    <2>2. key[2] \in Nat /\ key[2] > Entries /\ Entries' \in Int /\ Entries <= Entries'
        BY <1>1, <1>3, <2>1
    <2>3. \A n \in DOMAIN nodes' : n \in DOMAIN nodes \/ (n[2] \in Nat /\ n[2] > Entries)
        BY <1>5, <2>2
    <2> QED
        BY <1>2, <1>5, <1>6, <2>2, <2>3, SearchesStay
<1>12. ArenaOk(arena)'
    <2>1. ArenaOk(Allocate(arena, EntrySize[k]))
        BY <1>1, AllocateIsOk DEF MemInv
    <2>2. NodeBytes * h \in Nat \ {0}
        BY <1>1
    <2> QED
        BY <1>2, <2>1, <2>2, AllocateAlignedIsOk
<1> QED
    BY <1>7, <1>8, <1>9, <1>10, <1>11, <1>12 DEF MemInv, ListInv

-----------------------------------------------------------------------------
(* The readers' steps                                                         *)
LEMMA InsertedIs ==
    ASSUME ListInv
    PROVE  Inserted = UpTo(Entries) /\ Entries \in Nat /\ Cardinality(Inserted) = Entries
<1>1. /\ head_ \in DOMAIN nodes /\ IsFiniteSet(DOMAIN nodes) /\ Cardinality(DOMAIN nodes) = inserter.seq + 1
      /\ inserter.seq \in Nat /\ DOMAIN nodes \subseteq Keys \cup {head_}
      /\ \A n \in DOMAIN nodes : n[2] <= inserter.seq /\ (Busy /\ n # inserter.key => n[2] < inserter.seq)
    BY DEF ListInv, NodesType, EntriesCounted, InserterType
<1>2. \A n \in DOMAIN nodes : n[2] \in Nat
    BY <1>1, MemTableAssumption DEF Keys, head_
<1>3. IsFiniteSet(DOMAIN nodes \ {head_}) /\ Cardinality(DOMAIN nodes \ {head_}) = inserter.seq
    <2>1. Cardinality(DOMAIN nodes \ {head_}) = Cardinality(DOMAIN nodes) - 1 /\ IsFiniteSet(DOMAIN nodes \ {head_})
        BY <1>1, FS_RemoveElement
    <2> QED
        BY <1>1, <2>1
<1>4. CASE ~Busy
    <2>1. Inserted = DOMAIN nodes \ {head_} /\ Entries = inserter.seq
        BY <1>4 DEF Inserted, Busy, Entries
    <2>2. UpTo(Entries) = DOMAIN nodes \ {head_}
        BY <1>1, <2>1 DEF UpTo
    <2> QED
        BY <1>1, <1>3, <2>1, <2>2
<1>5. CASE Busy
    <2>1. inserter.key \in DOMAIN nodes \ {head_} /\ inserter.key[2] = inserter.seq /\ Entries = inserter.seq - 1
        BY <1>5, InserterIs DEF Entries
    <2>2. Inserted = (DOMAIN nodes \ {head_}) \ {inserter.key}
        BY <1>5 DEF Inserted, Busy
    <2>3. Cardinality(Inserted) = Cardinality(DOMAIN nodes \ {head_}) - 1
        BY <1>3, <2>1, <2>2, FS_RemoveElement
    <2>4. Cardinality(DOMAIN nodes \ {head_}) # 0
        BY <1>3, <2>1, FS_EmptySet
    <2>5. \A n \in DOMAIN nodes \ {head_} : n[2] <= Entries <=> n # inserter.key
        BY <1>1, <1>2, <1>5, <2>1
    <2>6. UpTo(Entries) = Inserted
        BY <2>2, <2>5 DEF UpTo
    <2> QED
        BY <1>1, <1>3, <2>1, <2>3, <2>4, <2>6
<1> QED
    BY <1>4, <1>5

\* A step of a reader that leaves its own search as it should be.
LEMMA ReaderHolds ==
    ASSUME MemInv, NEW r \in MemReaders, NEW t \in SearchRecord, searches' = [searches EXCEPT ![r] = t],
           UNCHANGED <<nodes, max_height, inserter, arena>>, SearchKnows(t), t.phase = "found" => FindsTheNearest(t)
    PROVE  MemInv'
<1>1. ListInv'
    BY DEF MemInv, ListInv, NodesType, Lists, Follows, On, Busy, InserterType, EntriesCounted, InserterKnows, LastBefore
<1>2. SearchType'
    BY DEF MemInv, SearchType, SearchRecord
<1>3. \A q \in MemReaders : searches'[q] = IF q = r THEN t ELSE searches[q]
    BY DEF MemInv, SearchType
<1>4. ASSUME NEW s, SearchKnows(s)
      PROVE  SearchKnows(s)'
    BY <1>4 DEF SearchKnows, On, Busy, UpTo, Entries
<1>5. ASSUME NEW s, FindsTheNearest(s)
      PROVE  FindsTheNearest(s)'
    BY <1>5 DEF FindsTheNearest
<1>6. ASSUME NEW q \in MemReaders
      PROVE  SearchKnows(searches[q])' /\ (searches'[q].phase = "found" => FindsTheNearest(searches[q])')
    <2>1. PICK s : s = searches'[q]
        OBVIOUS
    <2>2. SearchKnows(s) /\ (s.phase = "found" => FindsTheNearest(s))
        BY <1>3, <2>1 DEF MemInv, SearchesKnow, SearchesFindTheNearest
    <2>3. SearchKnows(s)' /\ (s.phase = "found" => FindsTheNearest(s)')
        BY <1>4, <1>5, <2>2
    <2> QED
        BY <2>1, <2>3 DEF SearchKnows, FindsTheNearest
<1>7. SearchesKnow' /\ SearchesFindTheNearest'
    BY <1>6 DEF SearchesKnow, SearchesFindTheNearest
<1>8. ArenaOk(arena)'
    BY DEF MemInv
<1> QED
    BY <1>1, <1>2, <1>7, <1>8 DEF MemInv

LEMMA SearchIs ==
    ASSUME MemInv, NEW r \in MemReaders
    PROVE  searches[r] \in SearchRecord /\ SearchKnows(searches[r])
BY DEF MemInv, SearchType, SearchRecord, SearchesKnow

LEMMA PresentIs == ASSUME MemInv PROVE Inserted \in SUBSET Keys /\ Inserted = UpTo(Entries) /\ Entries \in 0 .. Entries
<1>1. Inserted = UpTo(Entries) /\ Entries \in Nat
    BY InsertedIs DEF MemInv
<1>2. UpTo(Entries) \subseteq Keys
    BY DEF UpTo, MemInv, ListInv, NodesType
<1> QED
    BY <1>1, <1>2

LEMMA BeginSearchHolds ==
    ASSUME MemInv, NEW r \in MemReaders, NEW op \in {"seek", "less", "last"}, NEW target, BeginSearch(r, op, target),
           IF op = "last" THEN target = Nil ELSE target \in UserKeys \X Nat, op = "seek" => target[2] <= Entries
    PROVE  MemInv'
<1>1. PICK height \in 1 .. max_height :
          searches' = [searches EXCEPT ![r] =
              [@ EXCEPT !.phase = "searching", !.op = op, !.target = target, !.x = head_,
                        !.level = height - 1, !.present = Inserted, !.count = searches[r].count + 1]]
    BY DEF BeginSearch
<1> DEFINE s == searches[r]
<1>2. s \in SearchRecord /\ SearchKnows(s) /\ searches \in [MemReaders -> SearchRecord]
    BY SearchIs DEF MemInv, SearchType, SearchRecord
<1>3. PICK t : t = [s EXCEPT !.phase = "searching", !.op = op, !.target = target, !.x = head_,
                             !.level = height - 1, !.present = Inserted, !.count = s.count + 1]
    OBVIOUS
<1>4. searches' = [searches EXCEPT ![r] = t]
    BY <1>1, <1>3
<1>5. /\ t.phase = "searching" /\ t.op = op /\ t.target = target /\ t.x = head_ /\ t.level = height - 1
      /\ t.present = Inserted /\ t.found = s.found /\ t.count = s.count + 1
    <2> HIDE DEF s
    <2> QED
        BY <1>2, <1>3 DEF SearchRecord
<1>6. height - 1 \in Nat /\ height - 1 \in Levels
    BY MemTableAssumption DEF MemInv, ListInv, NodesType, Levels
<1>7. t \in SearchRecord
    <2>1. target \in (UserKeys \X Nat) \cup {Nil, head_}
        OBVIOUS
    <2> HIDE DEF s
    <2>2. Inserted \in SUBSET Keys
        BY PresentIs
    <2>3. PICK u : u = [s EXCEPT !.phase = "searching", !.op = op, !.target = target]
        OBVIOUS
    <2>4. u \in SearchRecord /\ u.count = s.count /\ s.count \in Nat
        BY <1>2, <2>1, <2>3 DEF SearchRecord
    <2>5. PICK v : v = [u EXCEPT !.x = head_, !.level = height - 1]
        OBVIOUS
    <2>6. v \in SearchRecord
        BY <1>6, <2>4, <2>5 DEF SearchRecord
    <2>7. PICK w : w = [v EXCEPT !.present = Inserted]
        OBVIOUS
    <2>8. w \in SearchRecord
        BY <2>2, <2>6, <2>7 DEF SearchRecord
    <2>9. t = [w EXCEPT !.count = s.count + 1]
        BY <1>3, <2>3, <2>5, <2>7
    <2> QED
        BY <2>4, <2>8, <2>9 DEF SearchRecord
<1>8. SearchKnows(t)
    <2>1. head_ \in On(t.level)
        BY <1>5, <1>6, OnIs DEF MemInv
    <2>2. s.found \in (On(0) \ {head_}) \cup {Nil}
        BY <1>2 DEF SearchKnows
    <2> HIDE DEF s
    <2> QED
        BY <1>5, <1>6, <2>1, <2>2, PresentIs DEF SearchKnows
<1>9. t.phase # "found"
    BY <1>5
<1> QED
    BY <1>4, <1>7, <1>8, <1>9, ReaderHolds DEF BeginSearch

\* A step right stays before the target, a step down stays on the list below.
LEMMA SearchStepHolds == ASSUME MemInv, NEW r \in MemReaders, SearchStep(r) PROVE MemInv'
<1> DEFINE s == searches[r]
           next == nodes[s.x][s.level]
<1>1. /\ s \in SearchRecord /\ SearchKnows(s) /\ ListInv /\ s.phase = "searching"
      /\ UNCHANGED <<nodes, max_height, inserter, arena>>
    BY SearchIs DEF MemInv, SearchStep
<1>2. /\ s.found \in (On(0) \ {head_}) \cup {Nil} /\ s.op \in {"seek", "less", "last"}
      /\ IF s.op = "last" THEN s.target = Nil
         ELSE s.target \in UserKeys \X Nat /\ (s.x = head_ \/ KeyLess(s.x, s.target))
      /\ s.level \in Levels /\ s.x \in On(s.level)
      /\ \E p \in 0 .. Entries : s.present = UpTo(p) /\ (s.op = "seek" => s.target[2] <= p)
    BY <1>1 DEF SearchKnows
<1>3. Follows(On(s.level), s.x, next) /\ On(s.level) \subseteq Keys \cup {head_}
    BY <1>1, <1>2, OnIs
<1>4. CASE Passes(s, next)
    <2>1. PICK t : t = [s EXCEPT !.x = next]
        OBVIOUS
    <2>2. searches' = [searches EXCEPT ![r] = t]
        BY <1>4, <2>1 DEF SearchStep
    <2>3. next # Nil /\ next \in On(s.level) /\ next \in Keys \cup {head_}
        BY <1>3, <1>4 DEF Passes, IsAfterNode, Follows
    <2>4. s.op = "last" \/ KeyLess(next, s.target)
        BY <1>4 DEF Passes, IsAfterNode
    <2> HIDE DEF s, next
    <2>5. /\ t \in SearchRecord /\ t.x = next /\ t.phase = s.phase /\ t.op = s.op /\ t.target = s.target
          /\ t.level = s.level /\ t.present = s.present /\ t.found = s.found
        BY <1>1, <2>1, <2>3 DEF SearchRecord
    <2>6. SearchKnows(t) /\ t.phase # "found"
        BY <1>1, <1>2, <2>3, <2>4, <2>5 DEF SearchKnows
    <2> QED
        BY <1>1, <2>2, <2>5, <2>6, ReaderHolds
<1>5. CASE ~Passes(s, next) /\ s.level > 0
    <2>1. PICK t : t = [s EXCEPT !.level = s.level - 1]
        OBVIOUS
    <2>2. searches' = [searches EXCEPT ![r] = t]
        BY <1>5, <2>1 DEF SearchStep
    <2>3. s.level - 1 \in Levels /\ s.level - 1 \in Nat /\ s.x \in On(s.level - 1)
        BY <1>1, <1>2, <1>5, OnBelow DEF Levels
    <2> HIDE DEF s, next
    <2>5. /\ t \in SearchRecord /\ t.x = s.x /\ t.phase = s.phase /\ t.op = s.op /\ t.target = s.target
          /\ t.level = s.level - 1 /\ t.present = s.present /\ t.found = s.found
        BY <1>1, <2>1, <2>3 DEF SearchRecord
    <2>6. SearchKnows(t) /\ t.phase # "found"
        BY <1>1, <1>2, <2>3, <2>5 DEF SearchKnows
    <2> QED
        BY <1>1, <2>2, <2>5, <2>6, ReaderHolds
<1>6. CASE ~Passes(s, next) /\ ~(s.level > 0)
    <2> DEFINE f == IF s.op = "seek" THEN next ELSE IF s.x = head_ THEN Nil ELSE s.x
    <2>1. PICK t : t = [s EXCEPT !.phase = "found", !.found = f]
        OBVIOUS
    <2>2. searches' = [searches EXCEPT ![r] = t]
        BY <1>6, <2>1 DEF SearchStep
    <2>3. s.level = 0
        BY <1>2, <1>6, MemTableAssumption DEF Levels
    <2>4. f \in Keys \cup {head_, Nil}
        BY <1>2, <1>3 DEF Follows
    <2> HIDE DEF f
    <2>5. /\ t.x = s.x /\ t.phase = "found" /\ t.op = s.op /\ t.target = s.target
          /\ t.level = s.level /\ t.present = s.present /\ t.found = f
        <3> HIDE DEF s, next
        <3> QED
            BY <1>1, <2>1 DEF SearchRecord
    <2>6. PICK p \in 0 .. Entries : s.present = UpTo(p) /\ (s.op = "seek" => s.target[2] <= p)
        BY <1>2
    <2>7. /\ t.present = UpTo(p) /\ s.x \in On(0) /\ Follows(On(0), s.x, next) /\ t.op \in {"seek", "less", "last"}
          /\ (IF t.op = "last" THEN t.target = Nil
              ELSE t.target \in UserKeys \X Nat /\ (s.x = head_ \/ KeyLess(s.x, t.target)))
          /\ (t.op = "seek" => t.target[2] <= p)
        <3> HIDE DEF s, next
        <3> QED
            BY <1>2, <1>3, <2>3, <2>5, <2>6
    <2>8. ~Passes(t, next)
        BY <1>6, <2>5 DEF Passes
    <2>9. t.found = IF t.op = "seek" THEN next ELSE IF s.x = head_ THEN Nil ELSE s.x
        BY <2>5 DEF f
    <2>10. FindsTheNearest(t) /\ t.found \in (On(0) \ {head_}) \cup {Nil}
        <3> HIDE DEF s, next
        <3> QED
            BY <1>1, <2>7, <2>8, <2>9, EndFindsNearest
    <2>11. t.found \in Keys \cup {Nil}
        BY <2>4, <2>5, <2>10
    <2> HIDE DEF s, next
    <2>12. t \in SearchRecord
        BY <1>1, <2>1, <2>5, <2>11 DEF SearchRecord
    <2>13. SearchKnows(t)
        BY <2>5, <2>10 DEF SearchKnows
    <2> QED
        BY <1>1, <2>2, <2>10, <2>12, <2>13, ReaderHolds
<1> QED
    BY <1>4, <1>5, <1>6

LEMMA StepNextHolds ==
    ASSUME MemInv, NEW r \in MemReaders, NEW from \in On(0), StepNext(r, from)
    PROVE  MemInv'
<1> DEFINE s == searches[r]
<1>1. s \in SearchRecord /\ SearchKnows(s) /\ ListInv /\ UNCHANGED <<nodes, max_height, inserter, arena>>
    BY SearchIs DEF MemInv, StepNext
<1>2. PICK t : t = [s EXCEPT !.phase = "found", !.op = "next", !.target = from,
                             !.present = Inserted, !.found = nodes[from][0], !.count = s.count + 1]
    OBVIOUS
<1>3. searches' = [searches EXCEPT ![r] = t]
    BY <1>2 DEF StepNext
<1> HIDE DEF s
<1>4. /\ t.phase = "found" /\ t.op = "next" /\ t.target = from /\ t.present = Inserted /\ t.found = nodes[from][0]
    BY <1>1, <1>2 DEF SearchRecord
<1>5. Inserted \in SUBSET Keys /\ Inserted = UpTo(Entries) /\ Entries \in 0 .. Entries
    BY PresentIs
<1>6. FindsTheNearest(t) /\ t.found \in (On(0) \ {head_}) \cup {Nil}
    BY <1>1, <1>4, <1>5, NextFindsNearest
<1>7. 0 \in Levels /\ On(0) \subseteq Keys \cup {head_}
    BY <1>1, <1>5, UpToIsOn, OnIs
<1>8. nodes[from][0] \in Keys \cup {Nil} /\ from \in (UserKeys \X Nat) \cup {Nil, head_}
    BY <1>4, <1>6, <1>7, KeysAre
<1>9. t \in SearchRecord
    <2>1. PICK u : u = [s EXCEPT !.phase = "found", !.op = "next", !.target = from]
        OBVIOUS
    <2>2. u \in SearchRecord /\ s.count \in Nat
        BY <1>1, <1>8, <2>1 DEF SearchRecord
    <2>3. PICK v : v = [u EXCEPT !.present = Inserted, !.found = nodes[from][0]]
        OBVIOUS
    <2>4. v \in SearchRecord
        BY <1>5, <1>8, <2>2, <2>3 DEF SearchRecord
    <2>5. t = [v EXCEPT !.count = s.count + 1]
        BY <1>2, <2>1, <2>3
    <2> QED
        BY <2>2, <2>4, <2>5 DEF SearchRecord
<1>10. SearchKnows(t)
    BY <1>4, <1>6 DEF SearchKnows
<1> QED
    BY <1>1, <1>3, <1>6, <1>9, <1>10, ReaderHolds

LEMMA EndSearchHolds == ASSUME MemInv, NEW r \in MemReaders, EndSearch(r) PROVE MemInv'
<1> DEFINE s == searches[r]
<1>1. s \in SearchRecord /\ SearchKnows(s) /\ UNCHANGED <<nodes, max_height, inserter, arena>>
    BY SearchIs DEF MemInv, EndSearch
<1>2. PICK t : t = [NoSearch EXCEPT !.found = s.found, !.count = s.count]
    OBVIOUS
<1>3. searches' = [searches EXCEPT ![r] = t]
    BY <1>2 DEF EndSearch
<1>4. s.found \in (On(0) \ {head_}) \cup {Nil}
    BY <1>1 DEF SearchKnows
<1> HIDE DEF s
<1>5. t \in SearchRecord /\ t.phase = "idle" /\ t.found = s.found
    BY <1>1, <1>2 DEF SearchRecord, NoSearch
<1>6. SearchKnows(t)
    BY <1>4, <1>5 DEF SearchKnows
<1> QED
    BY <1>1, <1>3, <1>5, <1>6, ReaderHolds

-----------------------------------------------------------------------------
LEMMA MemInitHolds == MemInit => MemInv
<1> SUFFICES ASSUME MemInit PROVE MemInv
    OBVIOUS
<1>1. /\ nodes = [n \in {head_} |-> [l \in 0 .. kMaxHeight - 1 |-> Nil]] /\ max_height = 1
      /\ inserter = NotInserting /\ searches = [r \in MemReaders |-> NoSearch]
      /\ arena = AllocateAligned(EmptyArena, NodeBytes * kMaxHeight)
      /\ kMaxHeight \in Nat \ {0} /\ NodeBytes \in Nat \ {0}
    BY MemTableAssumption DEF MemInit
<1>2. DOMAIN nodes = {head_} /\ \A l \in Levels : nodes[head_][l] = Nil
    BY <1>1 DEF Levels
<1>3. DOMAIN nodes[head_] = Levels /\ head_[2] = 0 /\ head_ \in Pairs
    BY <1>1, <1>2 DEF Levels, head_, Pairs
<1>4. /\ inserter.pc = "idle" /\ inserter.seq = 0 /\ inserter.unseen = {} /\ ~Busy
    BY <1>1 DEF NotInserting, Busy
<1>5. NodesType
    <2>1. IsFiniteSet({head_}) /\ 1 \in 1 .. kMaxHeight /\ kMaxHeight \in 1 .. kMaxHeight
        <3>1. 1 \in 1 .. kMaxHeight /\ kMaxHeight \in 1 .. kMaxHeight
            BY <1>1
        <3> QED
            BY <3>1, FS_Singleton
    <2>2. DOMAIN nodes[head_] = 0 .. kMaxHeight - 1
        BY <1>3 DEF Levels
    <2>3. \A n \in DOMAIN nodes : \E h \in 1 .. kMaxHeight : DOMAIN nodes[n] = 0 .. h - 1
        BY <1>2, <2>1, <2>2
    <2> QED
        BY <1>1, <1>2, <1>3, <2>1, <2>3 DEF NodesType
<1>6. Lists
    <2>1. \A l \in Levels : On(l) = {head_}
        BY <1>2, <1>3, <1>4 DEF On
    <2>2. Follows({head_}, head_, Nil)
        BY <1>3, KeyOrder DEF Follows
    <2> QED
        BY <1>2, <2>1, <2>2 DEF Lists
<1>7. InserterType /\ EntriesCounted /\ InserterKnows
    <2>1. InserterType
        BY <1>1 DEF InserterType, NotInserting
    <2>2. Cardinality({head_}) = 1
        BY FS_Singleton
    <2> QED
        BY <1>2, <1>3, <1>4, <2>1, <2>2 DEF EntriesCounted, InserterKnows
<1>8. SearchType /\ SearchesKnow /\ SearchesFindTheNearest
    <2>1. NoSearch \in SearchRecord /\ NoSearch.found = Nil /\ NoSearch.phase = "idle"
        BY DEF NoSearch, SearchRecord
    <2> QED
        BY <1>1, <2>1 DEF SearchType, SearchRecord, SearchesKnow, SearchKnows, SearchesFindTheNearest
<1>9. ArenaOk(arena)
    <2>1. ArenaOk(EmptyArena)
        <3>1. /\ EmptyArena.blocks = <<>> /\ EmptyArena.given = {} /\ EmptyArena.remaining = 0
              /\ EmptyArena \in ArenaType
            BY DEF EmptyArena, ArenaType
        <3> QED
            BY <3>1 DEF ArenaOk, Pieces, RestIsFree
    <2>2. NodeBytes * kMaxHeight \in Nat \ {0}
        BY <1>1
    <2> QED
        BY <1>1, <2>1, <2>2, AllocateAlignedIsOk
<1> QED
    BY <1>5, <1>6, <1>7, <1>8, <1>9 DEF MemInv, ListInv

LEMMA MemNextHolds == MemInv /\ [MemNext]_memVars => MemInv'
<1> SUFFICES ASSUME MemInv, [MemNext]_memVars PROVE MemInv'
    OBVIOUS
<1>1. CASE \E k \in UserKeys, height \in RandomHeight : MemAdd(k, height)
    BY <1>1, MemAddHolds
<1>2. CASE SetOwnNext \/ Publish \/ StoreIsSeen
    BY <1>2, SetOwnNextHolds, PublishHolds, StoreIsSeenHolds
<1>3. ASSUME NEW r \in MemReaders
      PROVE  /\ Position(r) \in (On(0) \ {head_}) \cup {Nil} /\ head_ \in On(0)
             /\ (Position(r) # Nil => Position(r) \in UserKeys \X Nat)
    <2>1. 0 \in Levels /\ On(0) \subseteq Keys \cup {head_} /\ head_ \in On(0)
        BY PresentIs, UpToIsOn, OnIs DEF MemInv
    <2> QED
        BY <2>1, SearchIs, KeysAre DEF Position, SearchKnows
<1>4. ASSUME NEW r \in MemReaders, \E k \in UserKeys, seq \in 0 .. Cardinality(Inserted) : BeginSearch(r, "seek", <<k, seq>>)
      PROVE  MemInv'
    <2>1. PICK k \in UserKeys, seq \in 0 .. Cardinality(Inserted) : BeginSearch(r, "seek", <<k, seq>>)
        BY <1>4
    <2>2. Cardinality(Inserted) = Entries /\ Entries \in Nat
        BY InsertedIs DEF MemInv
    <2>3. <<k, seq>> \in UserKeys \X Nat /\ <<k, seq>>[2] = seq /\ seq <= Entries
        BY <2>2
    <2> QED
        BY <2>1, <2>3, BeginSearchHolds
<1>5. ASSUME NEW r \in MemReaders, Position(r) # Nil /\ BeginSearch(r, "less", Position(r))
      PROVE  MemInv'
    BY <1>3, <1>5, BeginSearchHolds
<1>6. ASSUME NEW r \in MemReaders, BeginSearch(r, "last", Nil)
      PROVE  MemInv'
    BY <1>6, BeginSearchHolds
<1>7. ASSUME NEW r \in MemReaders, (Position(r) # Nil /\ StepNext(r, Position(r))) \/ StepNext(r, head_)
      PROVE  MemInv'
    BY <1>3, <1>7, StepNextHolds
<1>8. CASE UNCHANGED memVars
    <2>1. UNCHANGED <<nodes, max_height, inserter, searches, arena>>
        BY <1>8 DEF memVars
    <2>2. ListInv'
        BY <2>1 DEF MemInv, ListInv, NodesType, Lists, Follows, On, Busy, InserterType, EntriesCounted,
                    InserterKnows, LastBefore
    <2>3. SearchType' /\ ArenaOk(arena)'
        BY <2>1 DEF MemInv, SearchType
    <2>4. SearchesKnow'
        BY <2>1 DEF MemInv, SearchesKnow, SearchKnows, On, Busy, Entries, UpTo
    <2>5. SearchesFindTheNearest'
        BY <2>1 DEF MemInv, SearchesFindTheNearest, FindsTheNearest
    <2> QED
        BY <2>2, <2>3, <2>4, <2>5 DEF MemInv
<1> QED
    BY <1>1, <1>2, <1>4, <1>5, <1>6, <1>7, <1>8, SearchStepHolds, EndSearchHolds DEF MemNext

\* A reader is led only through nodes that are initialized.
LEMMA ReadersAreLed == MemInv => ReadersSeeInitializedNodes
<1> SUFFICES ASSUME MemInv, NEW r \in MemReaders, searches[r].phase = "searching"
             PROVE  /\ searches[r].level \in DOMAIN nodes[searches[r].x]
                    /\ nodes[searches[r].x][searches[r].level] # Uninitialized
    BY DEF ReadersSeeInitializedNodes
<1> DEFINE s == searches[r]
<1>1. s.level \in Levels /\ s.x \in On(s.level)
    BY SearchIs DEF SearchKnows
<1>2. s.level \in DOMAIN nodes[s.x] /\ nodes[s.x][s.level] \in Pairs \cup {Nil}
    BY <1>1, OnIs DEF MemInv, Follows
<1>3. Uninitialized \notin Pairs \cup {Nil}
    BY DEF Uninitialized, Pairs, Nil
<1> QED
    BY <1>1, <1>2, <1>3

\* Whatever the heights of the nodes, the block size and the moments at which the
\* processors see the stores: a reader of the memtable, which takes no lock, comes
\* only to nodes that are initialized and ends at the entry it looks for, and no
\* two pieces of the arena share memory (skiplist.h, arena.cc).
THEOREM ReadersAreSafe == MemSpec => []ReadersNeedNoLock
<1>1. MemInv => ReadersNeedNoLock
    BY ReadersAreLed, ArenaIsDisjoint DEF MemInv, ReadersNeedNoLock
<1> QED
    BY <1>1, MemInitHolds, MemNextHolds, PTL DEF MemSpec
=============================================================================
