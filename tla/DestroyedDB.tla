----------------------------- MODULE DestroyedDB -----------------------------
(***************************************************************************)
(* The names of a database's files, and DestroyDB, which deletes them while *)
(* another process may open the database.                                  *)
(*                                                                         *)
(* A name is a sequence of words and digits; numbers have the base         *)
(* NumberBase and no value above kMaxNumber (10 and 2^64 - 1 in the code).  *)
(* The file that LOCK names is known by a number, as a lock is on the file  *)
(* and not on its name.                                                    *)
(***************************************************************************)
EXTENDS Integers, Sequences, FiniteSets, SequencesExt

CONSTANTS
    NumberBase, kMaxNumber, NameDigits,
    Listings,        \* what the directory has at first
    MaxReopens,      \* bound: times that the other process opens the database
    MaxDirFaults     \* bound: calls that fail

VARIABLES
    listing,     \* names in the directory, but LOCK
    directory,   \* whether it is there
    lock_file,   \* [at: the file that LOCK names or 0, made: files so named]
    locked,      \* [process -> file whose lock it has, or 0]
    destroyer,   \* DestroyDB: [pc, todo, listed, result]
    other_opener, \* the other process: [opens, files it has made]
    dir_faults

destroyVars == <<listing, directory, lock_file, locked, destroyer, other_opener, dir_faults>>

-----------------------------------------------------------------------------
(* Names                                                                       *)

Numerals == SubSeq(<<"0", "1", "2", "3", "4", "5", "6", "7", "8", "9">>, 1, NumberBase)
IsDigit(c) == c \in ToSet(Numerals)
ValueOf(c) == (CHOOSE i \in DOMAIN Numerals : Numerals[i] = c) - 1

\* At least NameDigits digits.
Digits(n) == LET width == CHOOSE w \in NameDigits .. 20 :
                              n < NumberBase ^ w /\ (w = NameDigits \/ n >= NumberBase ^ (w - 1))
             IN [i \in 1 .. width |-> Numerals[((n \div NumberBase ^ (width - i)) % NumberBase) + 1]]

LogFileName(n) == Append(Digits(n), ".log")
TableFileName(n) == Append(Digits(n), ".ldb")
SSTTableFileName(n) == Append(Digits(n), ".sst")
TempFileName(n) == Append(Digits(n), ".dbtmp")
DescriptorFileName(n) == <<"MANIFEST-">> \o Digits(n)
CurrentFileName == <<"CURRENT">>
LockFileName == <<"LOCK">>
InfoLogFileName == <<"LOG">>
OldInfoLogFileName == <<"LOG", ".old">>

\* The digits at the beginning, at least one, as long as the number does not overflow.
Overflows(v, digit) ==
    v > kMaxNumber \div NumberBase \/ (v = kMaxNumber \div NumberBase /\ digit > kMaxNumber % NumberBase)
ConsumeDecimalNumber(in) ==
    LET lengths == {k \in 0 .. Len(in) : \A i \in 1 .. k : IsDigit(in[i])}
        digits == Max(lengths)
        next(n, d) == [ok |-> n.ok /\ ~Overflows(n.val, d), val |-> n.val * NumberBase + d]
        n == FoldLeft(next, [ok |-> digits > 0, val |-> 0], [i \in 1 .. digits |-> ValueOf(in[i])])
    IN [ok |-> n.ok, val |-> n.val, rest |-> SubSeq(in, digits + 1, Len(in))]

Named(type, number) == [ok |-> TRUE, type |-> type, number |-> number]
NotOurs == [ok |-> FALSE, type |-> "", number |-> 0]
ParseFileName(name) ==
    IF name = CurrentFileName THEN Named("current", 0)
    ELSE IF name = LockFileName THEN Named("lock", 0)
    ELSE IF name \in {InfoLogFileName, OldInfoLogFileName} THEN Named("info", 0)
    ELSE IF name # <<>> /\ name[1] = "MANIFEST-"
    THEN LET n == ConsumeDecimalNumber(Tail(name))
         IN IF n.ok /\ n.rest = <<>> THEN Named("descriptor", n.val) ELSE NotOurs
    ELSE LET n == ConsumeDecimalNumber(name)
         IN CASE n.ok /\ n.rest = <<".log">> -> Named("log", n.val)
              [] n.ok /\ n.rest \in {<<".sst">>, <<".ldb">>} -> Named("table", n.val)
              [] n.ok /\ n.rest = <<".dbtmp">> -> Named("temp", n.val)
              [] OTHER -> NotOurs

-----------------------------------------------------------------------------
(* The directory.  LockFile makes LOCK when it is not there.                   *)

DestroyProcesses == {"destroyer", "opener"}
DirFault == dir_faults < MaxDirFaults /\ dir_faults' = dir_faults + 1
NoDirFault == UNCHANGED dir_faults
LockAfter == IF lock_file.at # 0 THEN lock_file ELSE [at |-> lock_file.made + 1, made |-> lock_file.made + 1]
LockTaken == \E p \in DestroyProcesses : locked[p] # 0 /\ locked[p] = LockAfter.at
LockIt(p) == directory /\ lock_file' = LockAfter /\ locked' = [locked EXCEPT ![p] = LockAfter.at]

-----------------------------------------------------------------------------
(* DestroyDB                                                                   *)

Done(result) == [destroyer EXCEPT !.pc = "done", !.result = result]
\* A directory that cannot be read is taken for one that is not there.
GetChildren ==
    /\ destroyer.pc = "list" /\ UNCHANGED <<listing, directory, lock_file, locked, other_opener>>
    /\ \/ /\ directory /\ NoDirFault
          /\ destroyer' = [destroyer EXCEPT !.pc = "lock", !.todo = listing, !.listed = listing]
       \/ ~directory /\ NoDirFault /\ destroyer' = Done("OK")
       \/ directory /\ DirFault /\ destroyer' = Done("OK")

\* Mutant: whether the lock was had is not looked at.
LockOrGoOn ==
    /\ destroyer.pc = "lock" /\ UNCHANGED <<listing, directory, other_opener, lock_file, locked>> /\ NoDirFault
    /\ destroyer' = [destroyer EXCEPT !.pc = "delete"]
LockDestroyed ==
    /\ destroyer.pc = "lock" /\ UNCHANGED <<listing, directory, other_opener>>
    /\ \/ ~LockTaken /\ LockIt("destroyer") /\ NoDirFault /\ destroyer' = [destroyer EXCEPT !.pc = "delete"]
       \/ (LockTaken \/ ~directory) /\ NoDirFault /\ destroyer' = Done("error") /\ UNCHANGED <<lock_file, locked>>
       \/ directory /\ DirFault /\ destroyer' = Done("error") /\ lock_file' \in {lock_file, LockAfter} /\ UNCHANGED locked

\* The first error is kept, the other files are deleted all the same.
DeleteNext(name) ==
    /\ destroyer.pc = "delete" /\ name \in destroyer.todo /\ UNCHANGED <<directory, lock_file, locked, other_opener>>
    /\ LET left == [destroyer EXCEPT !.todo = @ \ {name}]
       IN IF ~ParseFileName(name).ok THEN NoDirFault /\ destroyer' = left /\ UNCHANGED listing
          ELSE \/ name \in listing /\ NoDirFault /\ destroyer' = left /\ listing' = listing \ {name}
               \/ /\ IF name \in listing THEN DirFault ELSE NoDirFault
                  /\ destroyer' = [left EXCEPT !.result = "error"] /\ UNCHANGED listing

\* Errors from here on are ignored.
UnlockDestroyed ==
    /\ destroyer.pc = "delete" /\ destroyer.todo = {} /\ UNCHANGED <<listing, directory, lock_file, other_opener>>
    /\ locked' = [locked EXCEPT !["destroyer"] = 0] /\ destroyer' = [destroyer EXCEPT !.pc = "unlocked"]
    /\ NoDirFault
DeleteLock ==
    /\ destroyer.pc = "unlocked" /\ UNCHANGED <<listing, directory, locked, other_opener>>
    /\ destroyer' = [destroyer EXCEPT !.pc = "dir"]
    /\ \/ NoDirFault /\ lock_file' = [lock_file EXCEPT !.at = 0]
       \/ DirFault /\ UNCHANGED lock_file
DeleteDir ==
    /\ destroyer.pc = "dir" /\ UNCHANGED <<listing, lock_file, locked, other_opener>> /\ NoDirFault
    /\ destroyer' = Done(destroyer.result)
    /\ directory' = (directory /\ (listing # {} \/ lock_file.at # 0))

-----------------------------------------------------------------------------
(* Another process: it makes the directory if need be, locks the database,     *)
(* makes the files of a new log and manifest and deletes those before.         *)

OpenDestroyed ==
    /\ locked["opener"] = 0 /\ other_opener.opens < MaxReopens /\ NoDirFault /\ UNCHANGED <<listing, destroyer>>
    /\ directory' = TRUE
    /\ ~LockTaken /\ lock_file' = LockAfter /\ locked' = [locked EXCEPT !["opener"] = LockAfter.at]
    /\ other_opener' = [opens |-> other_opener.opens + 1, files |-> {}]
OpenersFiles == {CurrentFileName, DescriptorFileName(7 + other_opener.opens), LogFileName(9 + other_opener.opens)}
MakeFile(name) ==
    /\ locked["opener"] # 0 /\ directory /\ name \in OpenersFiles \ other_opener.files
    /\ listing' = listing \cup {name} /\ other_opener' = [other_opener EXCEPT !.files = @ \cup {name}]
    /\ NoDirFault /\ UNCHANGED <<directory, lock_file, locked, destroyer>>
DropOld(name) ==
    /\ other_opener.files = OpenersFiles /\ locked["opener"] # 0
    /\ name \in listing \ other_opener.files /\ ParseFileName(name).type \in {"descriptor", "log", "temp"}
    /\ listing' = listing \ {name}
    /\ NoDirFault /\ UNCHANGED <<directory, lock_file, locked, destroyer, other_opener>>
CloseOpened ==
    /\ locked["opener"] # 0 /\ locked' = [locked EXCEPT !["opener"] = 0] /\ other_opener' = [other_opener EXCEPT !.files = {}]
    /\ NoDirFault /\ UNCHANGED <<listing, directory, lock_file, destroyer>>

-----------------------------------------------------------------------------

DestroyInitFrom(listings) ==
    /\ listing \in listings /\ directory = TRUE
    /\ lock_file = [at |-> 1, made |-> 1] /\ locked = [p \in DestroyProcesses |-> 0]
    /\ destroyer = [pc |-> "list", todo |-> {}, listed |-> {}, result |-> "OK"]
    /\ other_opener = [opens |-> 0, files |-> {}] /\ dir_faults = 0
DestroyInit == DestroyInitFrom(Listings)

DestroyNext ==
    \/ GetChildren \/ LockDestroyed \/ \E name \in destroyer.todo : DeleteNext(name)
    \/ UnlockDestroyed \/ DeleteLock \/ DeleteDir
    \/ OpenDestroyed \/ CloseOpened
    \/ \E name \in OpenersFiles : MakeFile(name)
    \/ \E name \in listing : DropOld(name)

DestroySpec == DestroyInit /\ [][DestroyNext]_destroyVars

-----------------------------------------------------------------------------
(* Properties *)

\* The names of filename.cc's comment, of numbers that there are.
ValueOfDigits(s) == FoldLeft(LAMBDA v, c : v * NumberBase + ValueOf(c), 0, s)
IsDecimal(s) == s # <<>> /\ (\A i \in DOMAIN s : IsDigit(s[i])) /\ ValueOfDigits(s) <= kMaxNumber
OwnedName(name) ==
    \/ name \in {CurrentFileName, InfoLogFileName, OldInfoLogFileName}
    \/ name # <<>> /\ name[1] = "MANIFEST-" /\ IsDecimal(Tail(name))
    \/ name # <<>> /\ Last(name) \in {".log", ".sst", ".ldb", ".dbtmp"} /\ IsDecimal(Front(name))
NamesAreRead ==
    \A n \in 1 .. kMaxNumber :
        /\ ParseFileName(LogFileName(n)) = Named("log", n) /\ ParseFileName(TempFileName(n)) = Named("temp", n)
        /\ \A name \in {TableFileName(n), SSTTableFileName(n)} : ParseFileName(name) = Named("table", n)
        /\ ParseFileName(DescriptorFileName(n)) = Named("descriptor", n)

\* DestroyDB deletes no file that is not the database's, and none from under a process
\* that has it open, whatever that one did between the listing and the lock; when no error
\* is kept, all that was listed of the database is gone before the lock is let go.  Names
\* are read back as they were made (DestroyDB, ParseFileName, MakeFileName).
DestroyTakesOnlyItsOwn ==
    /\ NamesAreRead
    /\ locked["opener"] # 0 => other_opener.files \subseteq listing
    /\ {n \in destroyer.listed : ~OwnedName(n)} \subseteq listing
    /\ destroyer.pc = "delete" /\ destroyer.todo = {} /\ destroyer.result = "OK" =>
          \A n \in destroyer.listed : OwnedName(n) => n \notin listing
=============================================================================
