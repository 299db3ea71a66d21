----------------------------- MODULE PosixFiles -----------------------------
(***************************************************************************)
(* The files of PosixEnv: one that is written through stdio's buffer, one  *)
(* that is read in sequence or at offsets (mapped, by a descriptor that is *)
(* kept, or by one that is opened for every read), whole files written and *)
(* read as strings, and the lines of a PosixLogger.                        *)
(*                                                                         *)
(* The bytes of a file are numbered as they are appended.  Of the calls of *)
(* the system each may fail, a write after part of its bytes.              *)
(***************************************************************************)
EXTENDS Integers, Sequences, FiniteSets, SequencesExt

CONSTANTS
    FileNames,       \* names of files
    MaxFiles,        \* bound: files made
    MaxBytes,        \* bound: bytes of a file
    kFragment,       \* what ReadFileToString reads at a time
    FileRanges,      \* offsets and sizes of reads
    MaxFileFaults,   \* bound: calls that fail, deaths and losses of power
    FirstBuffer, SecondBuffer, \* sizes of the buffers a line is printed into
    LogPrefix,       \* characters of a line before its message
    MaxMessage       \* bound: characters of a message

VARIABLES
    inodes,      \* the files made: [data, synced]
    named,         \* [name -> file]
    output,      \* a PosixWritableFile
    source_file,      \* a PosixSequentialFile or a file for random access
    line,        \* what a PosixLogger wrote last: [text, printed]
    file_faults  \* calls that failed

posixFileVars == <<inodes, named, output, source_file, line, file_faults>>

Least(a, b) == IF a < b THEN a ELSE b
Part(s, offset, n) == SubSeq(s, offset + 1, Least(offset + n, Len(s)))

NoWriter == [name |-> "", inode |-> 0, buffer |-> <<>>, given |-> <<>>, ok |-> TRUE,
             forced |-> 0, call |-> "none", sync |-> FALSE]
NotReading == [kind |-> "none", name |-> "", inode |-> 0, length |-> 0, at |-> 0, eof |-> FALSE,
              asked |-> <<0, 0>>, got |-> <<>>, status |-> ""]

FilesInit == /\ inodes = <<>> /\ named = <<>> /\ file_faults = 0
             /\ output = NoWriter /\ source_file = NotReading /\ line = [text |-> <<>>, printed |-> <<>>]

FileFault == file_faults < MaxFileFaults /\ file_faults' = file_faults + 1
NoFileFault == UNCHANGED file_faults
\* Bound: a logger has the directory for itself.
NotLogging == line.text = <<>>
\* What leveldb reads it does not write again: numbers of files are never used twice.
NotReadFrom(name) == source_file.kind = "none" \/ source_file.name # name

-----------------------------------------------------------------------------
(* PosixWritableFile.  `call` is the call that DoWriteStringToFile makes next, *)
(* or "any" when somebody else has the file.                                   *)

BeingWritten == output.call \notin {"none", "done", "removed"}
Data == inodes[output.inode].data
StoredBytes(data) == inodes' = [inodes EXCEPT ![output.inode].data = data]

\* fopen truncates the file when it is there.
OpenForWriting(name, first, sync) ==
    /\ ~BeingWritten /\ NotReadFrom(name) /\ NotLogging /\ NoFileFault
    /\ LET i == IF name \in DOMAIN named THEN named[name] ELSE Len(inodes) + 1
           empty == [data |-> <<>>, synced |-> 0]
       IN /\ i <= MaxFiles
          /\ inodes' = IF i > Len(inodes) THEN Append(inodes, empty) ELSE [inodes EXCEPT ![i] = empty]
          /\ named' = [n \in DOMAIN named \cup {name} |-> IF n = name THEN i ELSE named[n]]
          /\ output' = [NoWriter EXCEPT !.name = name, !.inode = i, !.call = first, !.sync = sync]
    /\ UNCHANGED <<source_file, line>>
\* fopen keeps what is there.
OpenForAppending(name) ==
    /\ ~BeingWritten /\ name \in DOMAIN named /\ NoFileFault
    /\ output' = [NoWriter EXCEPT !.name = name, !.inode = named[name], !.call = "any",
                                  !.given = inodes[named[name]].data]
    /\ UNCHANGED <<inodes, named, source_file, line>>

\* What DoWriteStringToFile does next.
AfterCall(call, ok) ==
    IF output.call = "any" THEN IF call = "close" THEN "none" ELSE "any"
    ELSE IF ~ok THEN "delete"
    ELSE CASE call = "append" -> IF output.sync THEN "sync" ELSE "close"
           [] call = "sync" -> "close"
           [] call = "close" -> "done"
Called(call) == output.call \in {"any", call} /\ UNCHANGED <<named, source_file, line>>

\* stdio hands on any part of what it holds, and when that fails loses the rest.
AppendData(n) ==
    /\ Called("append") /\ output.ok /\ Len(output.given) + n <= MaxBytes
    /\ LET new == [i \in 1 .. n |-> Len(output.given) + i]
           held == output.buffer \o new
       IN \E k \in 0 .. Len(held) :
             /\ StoredBytes(Data \o Part(held, 0, k))
             /\ \/ /\ NoFileFault
                   /\ output' = [output EXCEPT !.buffer = Part(held, k, Len(held)), !.given = @ \o new,
                                               !.call = AfterCall("append", TRUE)]
                \/ /\ FileFault
                   /\ output' = [output EXCEPT !.buffer = <<>>, !.ok = FALSE, !.call = AfterCall("append", FALSE)]
\* Of a file that its caller closed nothing is left.
LeftOf(w) == IF w.call = "none" THEN NoWriter ELSE w
FlushedFile(call) ==
    /\ NoFileFault /\ StoredBytes(Data \o output.buffer)
    /\ output' = LeftOf([output EXCEPT !.buffer = <<>>, !.call = AfterCall(call, TRUE)])
FlushFileFails(call) ==
    /\ FileFault
    /\ \E k \in 0 .. Len(output.buffer) : StoredBytes(Data \o Part(output.buffer, 0, k))
    /\ output' = LeftOf([output EXCEPT !.buffer = <<>>, !.ok = FALSE, !.call = AfterCall(call, FALSE)])
FlushFile == Called("flush") /\ (FlushedFile("flush") \/ FlushFileFails("flush"))
CloseFile == Called("close") /\ (FlushedFile("close") \/ FlushFileFails("close"))
\* A manifest's directory comes first, then the buffer, then the disk.
SyncDirFails == /\ output.name = "MANIFEST" /\ FileFault /\ UNCHANGED inodes
                /\ output' = [output EXCEPT !.ok = FALSE, !.call = AfterCall("sync", FALSE)]
Synced ==
    /\ NoFileFault
    /\ LET all == Data \o output.buffer
       IN /\ inodes' = [inodes EXCEPT ![output.inode] = [data |-> all, synced |-> Len(all)]]
          /\ output' = [output EXCEPT !.buffer = <<>>, !.call = AfterCall("sync", TRUE),
                                      !.forced = IF output.ok THEN Len(output.given) ELSE @]
SyncFile == Called("sync") /\ (SyncDirFails \/ Synced \/ FlushFileFails("sync"))

\* The destructor closes the file, and then a string that was not written goes.
RemoveHalf ==
    /\ output.call = "delete" /\ UNCHANGED <<inodes, source_file, line>>
    /\ \/ /\ NoFileFault /\ named' = [n \in DOMAIN named \ {output.name} |-> named[n]]
          /\ output' = [output EXCEPT !.call = "removed", !.buffer = <<>>]
       \/ FileFault /\ output' = NoWriter /\ UNCHANGED named

-----------------------------------------------------------------------------
(* Reading                                                                     *)

ReadInOrder == source_file.kind = "sequential" /\ source_file.status = ""
Bytes == inodes[source_file.inode].data
OpenForReading(name, kind) ==
    /\ ~ReadInOrder /\ name \in DOMAIN named
    /\ source_file' = [NotReading EXCEPT !.kind = kind, !.name = name, !.inode = named[name],
                                    !.length = Len(inodes[named[name]].data)]
    /\ NoFileFault /\ UNCHANGED <<inodes, named, output, line>>

\* fseek forgets that the end was met, and may go beyond it.
Skip(n) ==
    /\ ReadInOrder /\ source_file.got = <<>> /\ source_file.at + n <= MaxBytes
    /\ source_file' = [source_file EXCEPT !.at = @ + n, !.asked = <<@[1] + n, 0>>, !.eof = FALSE]
    /\ NoFileFault /\ UNCHANGED <<inodes, named, output, line>>
\* One turn of the loop of ReadFileToString, which an empty fragment ends.
ReadFragment ==
    /\ ReadInOrder /\ UNCHANGED <<inodes, named, output, line>>
    /\ LET fragment == IF source_file.eof THEN <<>> ELSE Part(Bytes, source_file.at, kFragment)
       IN \/ /\ NoFileFault
             /\ source_file' = [source_file EXCEPT !.at = @ + Len(fragment), !.got = @ \o fragment,
                                                   !.eof = Len(fragment) < kFragment,
                                                   !.status = IF fragment = <<>> THEN "ok" ELSE ""]
          \/ FileFault /\ source_file' = [source_file EXCEPT !.status = "error"]

Asked(offset, n, got, status) ==
    source_file' = [source_file EXCEPT !.asked = <<offset, n>>, !.got = got, !.status = status]
\* A mapped file has the length it had, the others are read up to their end.
ReadMapped(offset, n) ==
    /\ source_file.kind = "mapped" /\ NoFileFault
    /\ IF offset + n > source_file.length THEN Asked(offset, n, <<>>, "error")
                                     ELSE Asked(offset, n, Part(Bytes, offset, n), "ok")
\* A descriptor that is opened for the read finds what has the name by then.
FileRead == IF source_file.kind = "kept" THEN source_file.inode ELSE named[source_file.name]
ReadAt(offset, n) ==
    /\ source_file.kind \in {"kept", "opened"}
    /\ LET found == source_file.kind = "kept" \/ source_file.name \in DOMAIN named
       IN \/ NoFileFault /\ found /\ Asked(offset, n, Part(inodes[FileRead].data, offset, n), "ok")
          \/ NoFileFault /\ ~found /\ Asked(offset, n, <<>>, "error")
          \/ FileFault /\ Asked(offset, n, <<>>, "error")
RandomRead(offset, n) ==
    /\ source_file.status = "" /\ UNCHANGED <<inodes, named, output, line>>
    /\ ReadMapped(offset, n) \/ ReadAt(offset, n)

-----------------------------------------------------------------------------
(* Directories                                                                 *)

NamesChange == /\ NoFileFault /\ output' = IF BeingWritten THEN output ELSE NoWriter
               /\ UNCHANGED <<inodes, source_file, line>>
DeleteFileNamed(name) ==
    /\ name \in DOMAIN named /\ NamesChange /\ named' = [n \in DOMAIN named \ {name} |-> named[n]]
RenameFile(src, target) ==
    /\ src \in DOMAIN named /\ src # target /\ NotReadFrom(target) /\ NotReadFrom(src) /\ NamesChange
    /\ named' = [n \in (DOMAIN named \ {src}) \cup {target} |-> IF n = target THEN named[src] ELSE named[n]]

-----------------------------------------------------------------------------
(* PosixLogger::Logv: once into a small buffer, and once more into a large one  *)
(* when the line does not fit, where it is cut.                                *)

Newline == 0
Message(n, ends) == [i \in 1 .. LogPrefix + n |-> IF ends /\ i = LogPrefix + n /\ n > 0 THEN Newline ELSE i]
EndedLine(text) == IF text = <<>> \/ Last(text) # Newline THEN Append(text, Newline) ELSE text
\* Mutant: the room for the newline is forgotten.
CutLineLate(text) == IF Len(text) < FirstBuffer THEN text ELSE Part(text, 0, SecondBuffer)
CutLine(text) ==
    IF Len(text) < FirstBuffer \/ Len(text) < SecondBuffer THEN text ELSE Part(text, 0, SecondBuffer - 1)
Logv(n, ends) ==
    /\ inodes = <<>>
    /\ line' = [text |-> Message(n, ends), printed |-> EndedLine(CutLine(Message(n, ends)))]
    /\ NoFileFault /\ UNCHANGED <<inodes, named, output, source_file>>

-----------------------------------------------------------------------------
(* The end of the process, and of the power, which takes what was not synced.  *)

LoseProcess ==
    /\ FileFault /\ source_file' = NotReading /\ UNCHANGED <<named, line>>
    /\ \/ output' = (IF output.call = "done" THEN output ELSE NoWriter) /\ UNCHANGED inodes
       \/ /\ output' = IF output.call = "done" /\ output.sync THEN output ELSE NoWriter
          /\ \E kept \in [DOMAIN inodes -> 0 .. MaxBytes] :
                /\ \A i \in DOMAIN inodes : kept[i] \in inodes[i].synced .. Len(inodes[i].data)
                /\ inodes' = [i \in DOMAIN inodes |->
                                 [data |-> Part(inodes[i].data, 0, kept[i]), synced |-> kept[i]]]

FilesNext ==
    \/ \E name \in FileNames :
          \/ \E first \in {"any", "append"}, sync \in BOOLEAN : OpenForWriting(name, first, sync)
          \/ OpenForAppending(name) \/ DeleteFileNamed(name)
          \/ \E kind \in {"sequential", "mapped", "kept", "opened"} : OpenForReading(name, kind)
          \/ \E target \in FileNames : RenameFile(name, target)
    \/ Skip(1) \/ \E n \in 1 .. MaxBytes : AppendData(n)
    \/ FlushFile \/ CloseFile \/ SyncFile \/ RemoveHalf
    \/ ReadFragment \/ \E range \in FileRanges : RandomRead(range[1], range[2])
    \/ \E n \in 0 .. MaxMessage, ends \in BOOLEAN : Logv(n, ends)
    \/ LoseProcess

FilesSpec == FilesInit /\ [][FilesNext]_posixFileVars

-----------------------------------------------------------------------------
(* Properties *)

\* While all calls on a file succeed, what it holds and what stdio holds are what was
\* appended, and what was synced is on disk.  A string is written whole (and is on disk
\* when that was asked for) or its file is removed.
WritersKeepBytes ==
    /\ BeingWritten /\ output.ok => Data \o output.buffer = output.given
    /\ output.forced > 0 => inodes[output.inode].synced >= output.forced
    /\ output.call = "done" =>
          /\ Data = output.given
          /\ output.sync => inodes[output.inode].synced = Len(Data)
    /\ output.call = "removed" => output.name \notin DOMAIN named

\* A read that succeeds gives the bytes of the file that was opened, all that it had
\* then of what was asked for; a mapped file gives no less than that.
ReadersGetBytes ==
    source_file.status = "ok" =>
        LET offset == source_file.asked[1]
            n == IF source_file.kind = "sequential" THEN Len(Bytes) ELSE source_file.asked[2]
        IN /\ IsPrefix(source_file.got, Part(Bytes, offset, n))
           /\ Len(source_file.got) >= Least(n, source_file.length - offset)
           /\ source_file.kind = "mapped" => Len(source_file.got) = n

\* A line fits its buffer, ends in one newline, and is cut only when it is too long.
LinesAreWhole ==
    line.text # <<>> =>
        /\ Len(line.printed) <= SecondBuffer
        /\ Last(line.printed) = Newline /\ Newline \notin ToSet(Front(line.printed))
        /\ IsPrefix(Front(line.printed), line.text)
        /\ Len(line.text) < SecondBuffer => IsPrefix(line.text, line.printed)

\* What goes through a file comes out of it, or somebody is told (env_posix.cc,
\* WriteStringToFile, ReadFileToString, PosixLogger::Logv).
FilesKeepTheirBytes == WritersKeepBytes /\ ReadersGetBytes /\ LinesAreWhole
=============================================================================
