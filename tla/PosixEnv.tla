------------------------------ MODULE PosixEnv ------------------------------
(***************************************************************************)
(* Two services of PosixEnv that threads share: files opened for reading,  *)
(* mapped or kept open as long as two Limiters allow it, and the queue of  *)
(* work one background thread does.                                        *)
(***************************************************************************)
EXTENDS Integers, Sequences, FiniteSets

CONSTANTS
    EnvThreads,     \* threads that use the environment
    MaxMmaps,       \* limit of files that are mapped
    MaxOpenFiles,   \* limit of descriptors that are kept open
    MaxItems        \* bound: items scheduled

ASSUME PosixEnvAssumption ==
    IsFiniteSet(EnvThreads) /\ MaxMmaps \in Nat /\ MaxOpenFiles \in Nat /\ MaxItems \in Nat

VARIABLES
    allowed,    \* the two Limiters: what may still be acquired
    file,       \* where each thread is with the file it opens
    seen,       \* what a thread read of a Limiter without its lock
    queue,      \* work to do, numbers in the order of Schedule
    bgthread,   \* "none", "locking", "waiting", "running"
    ran,        \* items begun
    scheduled   \* number of items scheduled

envVars == <<allowed, file, seen, queue, bgthread, ran, scheduled>>
fileVars == <<allowed, file, seen>>
queueVars == <<queue, bgthread, ran, scheduled>>

\* What may be mapped or kept open at first.
Limits == [mmap |-> MaxMmaps, fd |-> MaxOpenFiles]

EnvInit == /\ allowed = Limits
           /\ file = [t \in EnvThreads |-> "closed"] /\ seen = [t \in EnvThreads |-> 0]
           /\ queue = <<>> /\ bgthread = "none" /\ ran = <<>> /\ scheduled = 0

Turns(t, from, to) == file[t] = from /\ file' = [file EXCEPT ![t] = to]

-----------------------------------------------------------------------------
(* Limiter and NewRandomAccessFile                                             *)

\* Acquire looks at the count before it takes the lock.
Look(t, from, limiter, to) ==
    /\ Turns(t, from, to)
    /\ seen' = [seen EXCEPT ![t] = allowed[limiter]] /\ UNCHANGED allowed
\* Mutant: what was seen without the lock is not looked at again.
AcquireSeen(t, from, limiter, got, denied) ==
    /\ Turns(t, from, IF seen[t] > 0 THEN got ELSE denied)
    /\ allowed' = [allowed EXCEPT ![limiter] = IF seen[t] > 0 THEN seen[t] - 1 ELSE @]
    /\ UNCHANGED seen
\* And again with it.
Acquire(t, from, limiter, got, denied) ==
    LET may == seen[t] > 0 /\ allowed[limiter] > 0
    IN /\ Turns(t, from, IF may THEN got ELSE denied)
       /\ allowed' = [allowed EXCEPT ![limiter] = IF may THEN @ - 1 ELSE @]
       /\ UNCHANGED seen
GiveBack(t, from, limiter, to) ==
    /\ Turns(t, from, to)
    /\ allowed' = [allowed EXCEPT ![limiter] = @ + 1] /\ UNCHANGED seen

\* A descriptor is opened; a mapped file closes it, another keeps it or opens one
\* for every read.
OpenFile(t) == Look(t, "closed", "mmap", "mapping")
AcquireMmap(t) == Acquire(t, "mapping", "mmap", "acquired", "unmapped")
MapFile(t) == Turns(t, "acquired", "mapped") /\ UNCHANGED <<allowed, seen>>
MapFails(t) == GiveBack(t, "acquired", "mmap", "closed")
LookForFd(t) == Look(t, "unmapped", "fd", "opening")
AcquireFd(t) == Acquire(t, "opening", "fd", "open", "temporary")
ReadTemporary(t) == Turns(t, "temporary", "reading") /\ UNCHANGED <<allowed, seen>>
HaveRead(t) == Turns(t, "reading", "temporary") /\ UNCHANGED <<allowed, seen>>
CloseMapped(t) == GiveBack(t, "mapped", "mmap", "closed")
CloseOpen(t) == GiveBack(t, "open", "fd", "closed")
CloseTemporary(t) == Turns(t, "temporary", "closed") /\ UNCHANGED <<allowed, seen>>

FileStep(t) ==
    /\ \/ OpenFile(t) \/ AcquireMmap(t) \/ MapFile(t) \/ MapFails(t)
       \/ LookForFd(t) \/ AcquireFd(t) \/ ReadTemporary(t) \/ HaveRead(t)
       \/ CloseMapped(t) \/ CloseOpen(t) \/ CloseTemporary(t)
    /\ UNCHANGED queueVars

-----------------------------------------------------------------------------
(* Schedule and BGThread, whose steps are whole critical sections               *)

\* Mutant: the thread is only woken for a queue that was not empty.
SignalWhenBusy == IF queue # <<>> /\ bgthread = "waiting" THEN "locking" ELSE bgthread
Signal == IF queue = <<>> /\ bgthread = "waiting" THEN "locking" ELSE bgthread

Schedule ==
    /\ scheduled < MaxItems /\ scheduled' = scheduled + 1
    /\ bgthread' = IF bgthread = "none" THEN "locking" ELSE Signal
    /\ queue' = Append(queue, scheduled)
    /\ UNCHANGED ran
BGWait == /\ bgthread = "locking" /\ queue = <<>>
          /\ bgthread' = "waiting" /\ UNCHANGED <<queue, ran, scheduled>>
BGTake == /\ bgthread = "locking" /\ queue # <<>>
          /\ bgthread' = "running"
          /\ ran' = Append(ran, Head(queue)) /\ queue' = Tail(queue) /\ UNCHANGED scheduled
\* What it does may schedule more: Schedule is enabled while it runs.
BGDone == bgthread = "running" /\ bgthread' = "locking" /\ UNCHANGED <<queue, ran, scheduled>>
\* pthread_cond_wait may return without a signal.
WakeUp == bgthread = "waiting" /\ bgthread' = "locking" /\ UNCHANGED <<queue, ran, scheduled>>

QueueStep == (Schedule \/ BGWait \/ BGTake \/ BGDone \/ WakeUp) /\ UNCHANGED fileVars

EnvNext == (\E t \in EnvThreads : FileStep(t)) \/ QueueStep

EnvSpec == EnvInit /\ [][EnvNext]_envVars

-----------------------------------------------------------------------------
(* Properties *)

Holders(states) == {t \in EnvThreads : file[t] \in states}

\* However threads race between the look without the lock and the one with it, no more
\* files are mapped or kept open than the limits allow, and each gives back what it
\* acquired (Limiter, "to avoid exhaustion").
LimitsAreKept ==
    /\ allowed.mmap >= 0 /\ allowed.mmap + Cardinality(Holders({"acquired", "mapped"})) = MaxMmaps
    /\ allowed.fd >= 0 /\ allowed.fd + Cardinality(Holders({"open"})) = MaxOpenFiles

\* Work is begun once and in the order it was scheduled, by a thread that never waits
\* for a signal while there is some (Schedule, BGThread).
ScheduledWorkRuns ==
    /\ ran \o queue = [i \in 1 .. scheduled |-> i - 1]
    /\ queue # <<>> => bgthread \in {"locking", "running"}
=============================================================================
