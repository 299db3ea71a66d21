----------------------------- MODULE FileLocks ------------------------------
(***************************************************************************)
(* The LOCK file of a database (PosixEnv::LockFile and UnlockFile): each   *)
(* process keeps a table of the names it has locked, and the system keeps  *)
(* a record lock that belongs to a process.  As POSIX has it, a process    *)
(* loses its lock on a file when it closes any of its descriptors of it.   *)
(***************************************************************************)
EXTENDS Integers, FiniteSets

CONSTANTS
    Processes,      \* processes that open the database
    Openers,        \* threads that open it
    ProcessOf,      \* [Openers -> Processes]
    NoProcess,      \* nobody
    MaxDeaths       \* bound: processes that die

ASSUME FileLocksAssumption ==
    ProcessOf \in [Openers -> Processes] /\ NoProcess \notin Processes /\ MaxDeaths \in Nat

VARIABLES
    record_lock,    \* the process whose lock is on the file
    locked_files,   \* PosixLockTable: the processes that have the name in theirs
    opener,         \* where each thread is in LockFile or UnlockFile
    deaths          \* number of processes that died

lockVars == <<record_lock, locked_files, opener, deaths>>

LockInit == /\ record_lock = NoProcess /\ locked_files = {}
            /\ opener = [t \in Openers |-> "idle"] /\ deaths = 0

Goes(t, from, to) == opener[t] = from /\ opener' = [opener EXCEPT ![t] = to] /\ UNCHANGED deaths
\* close of a descriptor of the file by process p.
CloseFd(p) == record_lock' = IF record_lock = p THEN NoProcess ELSE record_lock

\* fcntl(F_SETLK) by process p conflicts with the lock of another process only.
CanLock(p) == record_lock \in {NoProcess, p}

\* LockFile: open, the table, the lock, and the way back when one refuses.
OpenLockFile(t) == Goes(t, "idle", "opened") /\ UNCHANGED <<record_lock, locked_files>>
InsertName(t) ==
    /\ ProcessOf[t] \notin locked_files
    /\ Goes(t, "opened", "inserted")
    /\ locked_files' = locked_files \cup {ProcessOf[t]}
    /\ UNCHANGED record_lock
NameIsTaken(t) ==
    /\ ProcessOf[t] \in locked_files
    /\ Goes(t, "opened", "idle")
    /\ CloseFd(ProcessOf[t]) /\ UNCHANGED locked_files
SetLock(t) ==
    /\ CanLock(ProcessOf[t])
    /\ Goes(t, "inserted", "holding")
    /\ record_lock' = ProcessOf[t] /\ UNCHANGED locked_files
LockIsTaken(t) ==
    /\ ~CanLock(ProcessOf[t])
    /\ Goes(t, "inserted", "refused")
    /\ CloseFd(ProcessOf[t]) /\ UNCHANGED locked_files
RemoveRefused(t) ==
    /\ Goes(t, "refused", "idle")
    /\ locked_files' = locked_files \ {ProcessOf[t]} /\ UNCHANGED record_lock

\* UnlockFile: the lock, the table, then the descriptor.
Unlock(t) == /\ Goes(t, "holding", "unlocked")
             /\ CloseFd(ProcessOf[t]) /\ UNCHANGED locked_files
RemoveName(t) == /\ Goes(t, "unlocked", "removed")
                 /\ locked_files' = locked_files \ {ProcessOf[t]} /\ UNCHANGED record_lock
CloseUnlocked(t) == Goes(t, "removed", "idle") /\ CloseFd(ProcessOf[t]) /\ UNCHANGED locked_files

\* The system takes back what a process held.
ProcessDies(p) ==
    /\ deaths < MaxDeaths /\ deaths' = deaths + 1
    /\ CloseFd(p) /\ locked_files' = locked_files \ {p}
    /\ opener' = [t \in Openers |-> IF ProcessOf[t] = p THEN "idle" ELSE opener[t]]

LockNext ==
    \/ \E t \in Openers :
          \/ OpenLockFile(t) \/ InsertName(t) \/ NameIsTaken(t) \/ SetLock(t) \/ LockIsTaken(t)
          \/ RemoveRefused(t) \/ Unlock(t) \/ RemoveName(t) \/ CloseUnlocked(t)
    \/ \E p \in Processes : ProcessDies(p)

LockSpec == LockInit /\ [][LockNext]_lockVars

-----------------------------------------------------------------------------
(* Properties *)

Holding(t) == opener[t] = "holding"

\* Threads of one process never have the database open at once, whoever else opens
\* it, fails to or dies: what PosixLockTable adds to the record lock.
OneHolderPerProcess ==
    \A t, u \in Openers : ProcessOf[t] = ProcessOf[u] /\ Holding(t) /\ Holding(u) => t = u
=============================================================================
