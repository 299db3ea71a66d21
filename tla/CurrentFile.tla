---------------------------- MODULE CurrentFile -----------------------------
(***************************************************************************)
(* How a database gets a new manifest: NewDB writes the first, LogAndApply *)
(* one at every open, and SetCurrentFile points CURRENT to it through a    *)
(* temporary file.  A file has data in its stdio buffer, in the system's   *)
(* cache and on disk.  A power failure leaves of it anything between what  *)
(* was synced and what was cached, and of the directory the operations up  *)
(* to some point after the last that was synced, in order.                 *)
(***************************************************************************)
EXTENDS Integers, Sequences, FiniteSets, SequencesExt

CONSTANTS
    MaxOpens,       \* bound: times the database is opened
    MaxIOErrors     \* bound: calls that fail

ASSUME CurrentFileAssumption == MaxOpens \in Nat /\ MaxIOErrors \in Nat

VARIABLES
    files,      \* each file made: the manifest it is or names, and its data
    dirs,       \* the directory since it was last synced: [name -> file]
    opening,    \* NewDB or LogAndApply: [at, first, number]
    opens,      \* number of times the database was opened
    io_errors   \* number of calls that failed

currentVars == <<files, dirs, opening, opens, io_errors>>

CURRENT == <<"CURRENT", 0>>
Manifest(n) == <<"MANIFEST", n>>
TempFile(n) == <<"dbtmp", n>>

Dir == Last(dirs)
NumberIn(d) == files[d[CURRENT]].number
\* A manifest is a snapshot and an edit, what names it one line.
WholeManifest == 2

NoFile == [number |-> 0, buffer |-> 0, cache |-> 0, disk |-> 0]

CurrentInit == /\ files = <<>> /\ dirs = <<<<>>>> /\ opens = 0 /\ io_errors = 0
               /\ opening = [at |-> "closed", first |-> FALSE, number |-> 0]

-----------------------------------------------------------------------------
(* The environment: WritableFile, RenameFile, DeleteFile                       *)

NewWritableFile(name, number) ==
    /\ files' = Append(files, [NoFile EXCEPT !.number = number])
    /\ dirs' = Append(dirs, [f \in DOMAIN Dir \cup {name} |->
                                IF f = name THEN Len(files) + 1 ELSE Dir[f]])
AppendTo(name) == files' = [files EXCEPT ![Dir[name]].buffer = @ + 1]
FlushedBuffer(f) == [f EXCEPT !.buffer = 0, !.cache = @ + f.buffer]
Flush(name) == files' = [files EXCEPT ![Dir[name]] = FlushedBuffer(@)]
\* Mutant: the data is synced and the buffer is not flushed first.
SyncUnflushed(name) ==
    /\ files' = [files EXCEPT ![Dir[name]].disk = files[Dir[name]].cache]
    /\ UNCHANGED dirs
\* The directory too when the file is a manifest.
Sync(name) ==
    /\ files' = [files EXCEPT ![Dir[name]] = [FlushedBuffer(@) EXCEPT !.disk = FlushedBuffer(files[Dir[name]]).cache]]
    /\ dirs' = IF name[1] = "MANIFEST" THEN <<Dir>> ELSE dirs
Without(names) == [f \in DOMAIN Dir \ names |-> Dir[f]]
DeleteFiles(names) ==
    dirs' = IF names \cap DOMAIN Dir = {} THEN dirs ELSE Append(dirs, Without(names))

-----------------------------------------------------------------------------
(* Opening                                                                     *)

Number == opening.number
Then(from, to) == opening.at = from /\ opening' = [opening EXCEPT !.at = to] /\ UNCHANGED <<opens, io_errors>>

\* Recover: without CURRENT a database is made, with it the manifest must be whole.
Opens == opening.at = "closed" /\ opens < MaxOpens /\ opens' = opens + 1 /\ UNCHANGED io_errors
BeginNewDB ==
    /\ Opens /\ CURRENT \notin DOMAIN Dir
    /\ opening' = [at |-> "manifest", first |-> TRUE, number |-> 1]
    /\ NewWritableFile(Manifest(1), 1)
Recover ==
    /\ Opens /\ CURRENT \in DOMAIN Dir
    /\ files[Dir[CURRENT]].cache = 1
    /\ Manifest(NumberIn(Dir)) \in DOMAIN Dir
    /\ files[Dir[Manifest(NumberIn(Dir))]].cache = WholeManifest
    /\ opening' = [at |-> "manifest", first |-> FALSE, number |-> NumberIn(Dir) + 1]
    /\ NewWritableFile(Manifest(NumberIn(Dir) + 1), NumberIn(Dir) + 1)

\* AddRecord appends and flushes.
AddSnapshot ==
    /\ Then("manifest", "snapshot") /\ UNCHANGED dirs
    /\ files' = [files EXCEPT ![Dir[Manifest(Number)]].cache = 1]
AddEdit ==
    /\ Then("snapshot", "edit") /\ UNCHANGED dirs
    /\ files' = [files EXCEPT ![Dir[Manifest(Number)]].cache = 2]
\* LogAndApply syncs the manifest, NewDB only closes it.
SyncManifest == /\ ~opening.first /\ Then("edit", "written") /\ Sync(Manifest(Number))
CloseManifest == /\ opening.first /\ Then("edit", "written") /\ Flush(Manifest(Number)) /\ UNCHANGED dirs

\* SetCurrentFile
NewTemp == Then("written", "temp") /\ NewWritableFile(TempFile(Number), Number)
WriteTemp == Then("temp", "line") /\ AppendTo(TempFile(Number)) /\ UNCHANGED dirs
SyncTemp == Then("line", "synced") /\ Sync(TempFile(Number))
CloseTemp == Then("synced", "ready") /\ Flush(TempFile(Number)) /\ UNCHANGED dirs
RenameTemp ==
    /\ Then("ready", "renamed") /\ UNCHANGED files
    /\ dirs' = Append(dirs, [f \in (DOMAIN Dir \ {TempFile(Number)}) \cup {CURRENT} |->
                                IF f = CURRENT THEN Dir[TempFile(Number)] ELSE Dir[f]])

\* A new database is then recovered, another gives up its obsolete manifests.
EndNewDB == /\ opening.at = "renamed" /\ opening.first
            /\ opening' = [opening EXCEPT !.at = "manifest", !.first = FALSE, !.number = 2]
            /\ NewWritableFile(Manifest(2), 2) /\ UNCHANGED <<opens, io_errors>>
DeleteObsolete ==
    /\ ~opening.first /\ Then("renamed", "open") /\ UNCHANGED files
    /\ DeleteFiles({f \in DOMAIN Dir : f[1] = "dbtmp" \/ (f[1] = "MANIFEST" /\ f[2] < Number)})

\* A call fails: the temporary file goes, and the manifest, which NewDB leaves when it
\* was SetCurrentFile that failed.
Fails ==
    /\ io_errors < MaxIOErrors /\ io_errors' = io_errors + 1
    /\ opening.at \in {"manifest", "snapshot", "edit", "written", "temp", "line", "synced", "ready"}
    /\ opening' = [opening EXCEPT !.at = "closed"]
    /\ LET keeps == opening.first /\ opening.at \in {"written", "temp", "line", "synced", "ready"}
       IN DeleteFiles({TempFile(Number)} \cup IF keeps THEN {} ELSE {Manifest(Number)})
    /\ UNCHANGED <<files, opens>>
CloseDB == Then("open", "closed") /\ UNCHANGED <<files, dirs>>

-----------------------------------------------------------------------------
(* The end of the process, and of the power                                    *)

Dies == /\ opening.at # "closed" /\ opening' = [opening EXCEPT !.at = "closed"]
        /\ files' = [i \in DOMAIN files |-> [files[i] EXCEPT !.buffer = 0]]
        /\ UNCHANGED <<dirs, opens, io_errors>>
LosesPower ==
    LET unsynced == {i \in DOMAIN files : files[i].disk < files[i].cache}
    IN /\ opening' = [opening EXCEPT !.at = "closed"]
       /\ \E d \in ToSet(dirs), kept \in [unsynced -> 0 .. WholeManifest] :
             /\ \A i \in unsynced : kept[i] \in files[i].disk .. files[i].cache
             /\ dirs' = <<d>>
             /\ files' = [i \in DOMAIN files |->
                     IF i \notin Range(d) THEN NoFile
                     ELSE IF i \in unsynced THEN [files[i] EXCEPT !.buffer = 0, !.cache = kept[i], !.disk = kept[i]]
                     ELSE [files[i] EXCEPT !.buffer = 0]]
       /\ UNCHANGED <<opens, io_errors>>

CurrentNext ==
    \/ BeginNewDB \/ Recover \/ AddSnapshot \/ AddEdit \/ SyncManifest \/ CloseManifest
    \/ NewTemp \/ WriteTemp \/ SyncTemp \/ CloseTemp \/ RenameTemp
    \/ EndNewDB \/ DeleteObsolete \/ Fails \/ CloseDB \/ Dies \/ LosesPower

CurrentSpec == CurrentInit /\ [][CurrentNext]_currentVars

-----------------------------------------------------------------------------
(* Properties *)

\* At every moment, whatever failed before, CURRENT names a manifest that is there and
\* whole, as the system sees it and as any power failure would leave it; only the first
\* manifest, which NewDB does not sync, may be lost with the power (SetCurrentFile,
\* LogAndApply, NewDB).
CurrentNamesAManifest ==
    \A d \in ToSet(dirs) : CURRENT \in DOMAIN d =>
        /\ files[d[CURRENT]].disk = 1
        /\ Manifest(NumberIn(d)) \in DOMAIN d
        /\ NumberIn(d) # 1 => files[d[Manifest(NumberIn(d))]].disk = WholeManifest
=============================================================================
