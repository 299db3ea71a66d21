------------------------------- MODULE Repair -------------------------------
(***************************************************************************)
(* RepairDB: the logs are turned into tables, the tables are scanned and,  *)
(* when they cannot be read to their end, copied as far as they can, and a *)
(* new descriptor lists them all at level 0.  What is replaced is moved to *)
(* the directory lost.                                                     *)
(*                                                                         *)
(* A file is the set of entries that can be read from it, an entry being   *)
(* its sequence number; a table is "whole", "damaged" or not finished.     *)
(***************************************************************************)
EXTENDS Integers, FiniteSets, FiniteSetsExt, Functions

CONSTANTS
    Directories,        \* what is found: [number -> file]
    MaxRepairCalls,     \* bound: calls of RepairDB
    MaxRepairFaults     \* bound: deaths of the process, calls that fail

EntrySets == {S \in SUBSET Nat : IsFiniteSet(S)}
RepairFile == [kind : {"log", "table"}, entries : EntrySets, state : {"whole", "damaged", "unfinished"}]

\* Files have numbers from 1 on (versions_->NewFileNumber).
ASSUME RepairAssumption ==
    /\ MaxRepairCalls \in Nat /\ MaxRepairFaults \in Nat
    /\ \A found \in Directories :
          /\ DOMAIN found \subseteq Nat \ {0} /\ IsFiniteSet(DOMAIN found)
          /\ found \in [DOMAIN found -> RepairFile]

VARIABLES
    dir, lost_dir,      \* files by their numbers, the lost ones by kind too
    descriptor,         \* what CURRENT leads to: [listed, next, last], listed = {} for none
    repair,             \* the Repairer: NoRepair, or what it has come to
    repair_calls,       \* number of calls of RepairDB
    repair_faults,      \* number of deaths and failures
    at_first,           \* history variable: the entries that could be read
    unarchived          \* history variable: has a file not been moved to lost that should be?

repairVars == <<dir, lost_dir, descriptor, repair, repair_calls, repair_faults, at_first, unarchived>>

\* scanned and read: what ScanTable and then RepairTable read of a table; misread: has
\* a scan of this call failed?
NoRepair == [at |-> "idle", logs |-> {}, tables |-> {}, file |-> 0, copy |-> 0, scanned |-> {},
             read |-> {}, misread |-> FALSE, listed |-> {}, next |-> 1, max_sequence |-> 0]
NoDescriptor == [listed |-> {}, next |-> 0, last |-> 0]

Readable(fs) == UNION {fs[n].entries : n \in DOMAIN fs}
Table(entries, state) == [kind |-> "table", entries |-> entries, state |-> state]
WithFile(fs, n, f) == [m \in DOMAIN fs \cup {n} |-> IF m = n THEN f ELSE fs[m]]
WithoutFile(fs, n) == Restrict(fs, DOMAIN fs \ {n})

RepairInitFrom(S) ==
    /\ dir \in S /\ lost_dir = <<>> /\ descriptor = NoDescriptor
    /\ repair = NoRepair /\ repair_calls = 0 /\ repair_faults = 0
    /\ at_first = Readable(dir) /\ unarchived = FALSE
RepairInit == RepairInitFrom(Directories)

Reaches(from, to) == repair.at = from /\ repair' = [repair EXCEPT !.at = to]
Fault == repair_faults < MaxRepairFaults /\ repair_faults' = repair_faults + 1
NoFault == UNCHANGED repair_faults
DirectoriesStay == UNCHANGED <<dir, lost_dir>>

-----------------------------------------------------------------------------
(* Run *)

\* RepairDB may be called again, by a process that died in it or that saw it end.
FindFiles ==
    /\ repair.at \in {"idle", "done"}
    /\ repair_calls < MaxRepairCalls /\ repair_calls' = repair_calls + 1
    /\ repair' = [NoRepair EXCEPT
                     !.at = "logs",
                     !.logs = {n \in DOMAIN dir : dir[n].kind = "log"},
                     !.tables = {n \in DOMAIN dir : dir[n].kind = "table"},
                     !.next = 1 + Max({0} \cup DOMAIN dir)]
    /\ NoFault /\ DirectoriesStay /\ UNCHANGED <<descriptor, at_first, unarchived>>

\* ConvertLogToTable, of the logs in the order the directory has them: a table of what
\* can be read, unless that is nothing or it cannot be written.  An error in reading
\* looks like the end of the log.
ConvertLog(n) ==
    /\ repair.at = "logs" /\ n \in repair.logs
    /\ \E read \in SUBSET dir[n].entries :
          /\ IF read = dir[n].entries THEN NoFault ELSE Fault
          /\ repair' = [repair EXCEPT !.at = "converted", !.file = n, !.next = @ + 1,
                                      !.tables = IF read = {} THEN @ ELSE @ \cup {repair.next}]
          /\ dir' = IF read = {} THEN dir ELSE WithFile(dir, repair.next, Table(read, "whole"))
    /\ UNCHANGED <<lost_dir, descriptor, repair_calls, at_first, unarchived>>
ConvertFails(n) ==
    /\ repair.at = "logs" /\ n \in repair.logs
    /\ repair' = [repair EXCEPT !.at = "converted", !.file = n, !.next = @ + 1]
    /\ Fault /\ DirectoriesStay /\ UNCHANGED <<descriptor, repair_calls, at_first, unarchived>>

\* ArchiveFile renames, over what lost may have of that name; nobody looks whether it could.
MoveToLost(n) ==
    /\ dir' = WithoutFile(dir, n) /\ lost_dir' = WithFile(lost_dir, <<dir[n].kind, n>>, dir[n])
    /\ UNCHANGED unarchived
Stuck == unarchived' = TRUE /\ DirectoriesStay
Archive(n) == \/ MoveToLost(n) /\ NoFault
              \/ Stuck /\ Fault
\* Mutant: the log is gone for good.
ForgetLog ==
    /\ repair.at = "converted"
    /\ repair' = [repair EXCEPT !.at = "logs", !.logs = @ \ {repair.file}]
    /\ dir' = WithoutFile(dir, repair.file)
    /\ NoFault /\ UNCHANGED <<lost_dir, descriptor, repair_calls, at_first, unarchived>>
\* Then the log is archived.
ArchiveLog ==
    /\ repair.at = "converted"
    /\ repair' = [repair EXCEPT !.at = "logs", !.logs = @ \ {repair.file}]
    /\ Archive(repair.file)
    /\ UNCHANGED <<descriptor, repair_calls, at_first>>

\* ScanTable: a table that is read to its end is listed.  One that is not, because it
\* is damaged or a read fails, is repaired.  One whose size cannot be had is archived.
Listing(r, n, scanned) ==
    [r EXCEPT !.at = "logs", !.listed = @ \cup {n}, !.tables = @ \ {n},
              !.max_sequence = Max({@} \cup scanned)]
Scans(n) == repair.at = "logs" /\ repair.logs = {} /\ n \in repair.tables
ScanTable(n) ==
    /\ Scans(n)
    /\ repair' = IF dir[n].state = "whole" THEN Listing(repair, n, dir[n].entries)
                 ELSE [repair EXCEPT !.at = "copy", !.file = n, !.scanned = dir[n].entries]
    /\ NoFault /\ DirectoriesStay /\ UNCHANGED <<descriptor, repair_calls, at_first, unarchived>>
ScanFails(n) ==
    /\ Scans(n)
    /\ \E scanned \in SUBSET dir[n].entries :
          repair' = [repair EXCEPT !.at = "copy", !.file = n, !.scanned = scanned, !.misread = TRUE]
    /\ Fault /\ DirectoriesStay /\ UNCHANGED <<descriptor, repair_calls, at_first, unarchived>>
SizeFails(n) ==
    /\ Scans(n)
    /\ repair' = [repair EXCEPT !.tables = @ \ {n}]
    /\ Fault /\ (MoveToLost(n) \/ Stuck)
    /\ UNCHANGED <<descriptor, repair_calls, at_first>>

\* RepairTable: what can be read is copied (where the scan failed the copy may, too), the
\* table archived, the copy finished (or, when it is empty, abandoned where it is) and
\* given the name of the table.  The sequence number listed is the one the scan saw.
CopyTable ==
    /\ repair.at = "copy"
    /\ \E read \in SUBSET dir[repair.file].entries :
          /\ \/ NoFault /\ (read = dir[repair.file].entries \/ repair.scanned # dir[repair.file].entries)
             \/ Fault
          /\ repair' = [repair EXCEPT !.at = "copied", !.copy = repair.next, !.next = @ + 1,
                                      !.read = read]
    /\ dir' = WithFile(dir, repair.next, Table({}, "unfinished"))
    /\ UNCHANGED <<lost_dir, descriptor, repair_calls, at_first, unarchived>>
ArchiveTable ==
    /\ Reaches("copied", "archived")
    /\ Archive(repair.file)
    /\ UNCHANGED <<descriptor, repair_calls, at_first>>
FinishCopy ==
    /\ repair.at = "archived"
    /\ IF repair.read = {}
       THEN /\ repair' = [repair EXCEPT !.at = "logs", !.tables = @ \ {repair.file}]
            /\ UNCHANGED dir
       ELSE /\ repair' = [repair EXCEPT !.at = "finished"]
            /\ dir' = WithFile(dir, repair.copy, Table(repair.read, "whole"))
    /\ NoFault /\ UNCHANGED <<lost_dir, descriptor, repair_calls, at_first, unarchived>>
RenameCopy ==
    /\ repair.at = "finished"
    /\ dir' = WithFile(WithoutFile(dir, repair.copy), repair.file, dir[repair.copy])
    /\ repair' = Listing(repair, repair.file, repair.scanned)
    /\ NoFault /\ UNCHANGED <<lost_dir, descriptor, repair_calls, at_first, unarchived>>
\* The copy cannot be made, finished or renamed: the table is not listed.
CopyFails ==
    /\ repair.at \in {"copy", "archived", "finished"}
    /\ dir' = IF repair.at = "copy" THEN dir ELSE WithoutFile(dir, repair.copy)
    /\ repair' = [repair EXCEPT !.at = "logs", !.tables = @ \ {repair.file}]
    /\ Fault /\ UNCHANGED <<lost_dir, descriptor, repair_calls, at_first, unarchived>>

\* WriteDescriptor: the old manifests are archived before the new one is there.
ArchiveManifests ==
    /\ repair.at = "logs" /\ repair.logs = {} /\ repair.tables = {}
    /\ repair' = [repair EXCEPT !.at = "described"] /\ descriptor' = NoDescriptor
    /\ NoFault /\ DirectoriesStay /\ UNCHANGED <<repair_calls, at_first, unarchived>>
InstallDescriptor ==
    /\ Reaches("described", "done")
    /\ descriptor' = [listed |-> repair.listed, next |-> repair.next, last |-> repair.max_sequence]
    /\ NoFault /\ DirectoriesStay /\ UNCHANGED <<repair_calls, at_first, unarchived>>

\* The process dies, maybe while it builds the table of a log, or the descriptor cannot
\* be written.
RepairDies ==
    /\ repair.at \notin {"idle", "done"} /\ repair' = NoRepair
    /\ \/ UNCHANGED dir
       \/ /\ repair.at = "logs" /\ repair.logs # {}
          /\ dir' = WithFile(dir, repair.next, Table({}, "unfinished"))
    /\ Fault /\ UNCHANGED <<lost_dir, descriptor, repair_calls, at_first, unarchived>>

RepairNext ==
    \/ FindFiles \/ ArchiveLog \/ CopyTable \/ ArchiveTable \/ FinishCopy \/ RenameCopy
    \/ CopyFails \/ ArchiveManifests \/ InstallDescriptor \/ RepairDies
    \/ \E n \in repair.logs : ConvertLog(n) \/ ConvertFails(n)
    \/ \E n \in repair.tables : ScanTable(n) \/ ScanFails(n) \/ SizeFails(n)

RepairSpec == RepairInit /\ [][RepairNext]_repairVars

-----------------------------------------------------------------------------
(* Properties *)

\* One failure or death in any number of repairs costs nothing: what could be read at
\* first can still be read, from the database or from what was moved to lost.  So it is
\* for one call whatever fails in it, as long as the files to be replaced could be
\* moved.  (Two failures in two calls may put a part of a table over the whole of it in
\* lost.)  The descriptor's counters are beyond every file and, unless a scan failed,
\* beyond every entry; a repair without faults lists all there was (Repairer;
\* repair.cc:5-27).
RepairDestroysNothing ==
    /\ repair_faults <= 1 \/ (repair_calls <= 1 /\ ~unarchived) =>
           at_first \subseteq Readable(dir) \cup Readable(lost_dir)
    /\ repair.at = "done" =>
          /\ \A n \in DOMAIN dir : n < descriptor.next
          /\ \A n \in descriptor.listed :
                /\ dir[n].state = "whole"
                /\ ~repair.misread => \A e \in dir[n].entries : e <= descriptor.last
          /\ repair_faults = 0 => at_first = Readable(Restrict(dir, descriptor.listed))
=============================================================================
