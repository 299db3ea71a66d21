# ChaosComs in TLA+

ChaosComs is an iOS chat application.  Two users meet in a room of a Firebase
Realtime Database; every message they send is looked up on YouTube, and the
first video that is found is stored with it.  Under the database client lies
the storage engine LevelDB, and under the client's analytics nanopb, an encoder
and decoder of protocol buffers; both are built from sources in this repository
and are most of its implementation code.  This directory holds TLA+ modules for
the parts of the program whose correctness depends on the order of things, TLC
configurations that check them on small instances, and proofs for TLAPS.

Paths below are relative to `src/ChaosComs/`; `DB` stands for
`Pods/FirebaseDatabase/Firebase/Database`, `LDB` for `Pods/leveldb-library`
(version 1.20) and `PB` for `Pods/nanopb`.

## 1. The system

| Component | Where | State | Operations | Talks to |
|---|---|---|---|---|
| Chat screen | `ChaosComs/ChatViewController.swift` | `messages`, `videoID`, `selectedUser` | open, go back, Send, search answered, childAdded, play | database client (calls), YouTube (request), user list (segue) |
| Room names | same, 47-51 | none | order two names, concatenate | |
| Database client: connection | `DB/Core/FPersistentConnection.m` | `connectionState`, `listens`, `outstandingPuts`, `putsToAck`, `unackedListensCount` | listen, put, responses, connect, disconnect, restoreState | server (messages), sync tree (callbacks) |
| Database client: sync tree and views | `DB/Core/FRepo.m`, `FSyncTree.m`, `FSyncPoint.m`, `View/FView.m`, `DB/FViewProcessor.m`, `DB/FEventGenerator.m` | pending writes, server cache, event cache, registrations | observe, setValue, server data, acknowledge, revert, listen complete | connection, main queue (events) |
| Sign-up and sign-in | `ChaosComs/RegistrationViewController.swift`, `LoginViewController.swift`, `Pods/FirebaseAuth/.../FIRAuth.m` | `currentUser`, text fields, `users/<uid>` | Register, Login, answers, sign-out | auth server, database client |
| List of users, login query | `ChaosComs/SelectUserTableViewController.swift`, `LoginViewController.swift:47-66` | `users`, `member` | childAdded on `users`, observe(.value), select, sign-out | database client |
| Push ids | `DB/Utilities/FNextPushId.m` | last time, last random digits | next id | |
| LevelDB: database | `LDB/db/db_impl.cc`, `version_set.cc`, `version_edit.cc` | `mem_`, `imm_`, log, `writers_`, `versions_`, `pending_outputs_`, `snapshots_`, background flags; reference counts | Open, Write, Get, NewIterator, GetSnapshot, CompactRange, background compaction, close | every layer below |
| LevelDB: log files | `LDB/db/log_writer.cc`, `log_reader.cc` | `block_offset_`; `buffer_`, `eof_`, `resyncing_` | AddRecord, ReadRecord | database (logs, manifests), repair |
| LevelDB: memtable | `LDB/db/memtable.cc`, `skiplist.h`, `util/arena.cc` | nodes and their pointers, `max_height_`, blocks | Add, Get, iterators, Allocate | database: one writer, readers without a lock |
| LevelDB: caches | `LDB/util/cache.cc`, `db/table_cache.cc` | hash table, `lru_`, `in_use_`, reference counts | Lookup, Insert, Release, Erase, Prune, FindTable, Evict | reads and compactions |
| LevelDB: iterators | `LDB/table/two_level_iterator.cc`, `merger.cc`, `db/db_iter.cc` | positions, direction, saved key | Seek, SeekToFirst, SeekToLast, Next, Prev | callers, compactions |
| LevelDB: tables | `LDB/table/*.cc`, `util/bloom.cc`, `comparator.cc` | blocks, pending index entry, filters | Add, Finish, Open, InternalGet, block iterators | table cache, compactions |
| LevelDB: environment | `LDB/util/env_posix.cc`, `posix_logger.h` | `Limiter`s, `PosixLockTable`, `queue_`, stdio's buffers | files that are written, read, renamed and deleted, LockFile, UnlockFile, Schedule, BGThread, Logv | database, threads, file system |
| LevelDB: file names, DestroyDB | `LDB/db/filename.cc`, `db_impl.cc:1537-1566` | names in the directory | ParseFileName, DestroyDB | environment, other processes |
| LevelDB: CURRENT | `LDB/db/filename.cc`, `util/env.cc`, `db_impl.cc` (NewDB), `version_set.cc` (LogAndApply) | files and their directory | NewDB, new manifest, SetCurrentFile | file system |
| LevelDB: encodings, Status | `LDB/util/coding.cc`, `db/write_batch.cc`, `version_edit.cc`, `dbformat.cc`, `util/status.cc` | the text of a Status | EncodeTo, DecodeFrom, Iterate, LookupKey | logs, manifests, memtable |
| LevelDB: checksums, random numbers | `LDB/util/crc32c.cc`, `random.h` | none; a seed | Extend, Mask, Unmask, Next | logs, tables, skip list |
| LevelDB: dumps, statistics, properties | `LDB/db/dumpfile.cc`, `util/histogram.cc`, `util/logging.cc`, `db_impl.cc:1395-1474` | buckets | DumpFile, Add, Percentile, GetProperty, GetApproximateSizes | people |
| LevelDB: C interface | `LDB/db/c.cc` | what a handle owns and borrows | the functions of `c.h` | callers in C |
| LevelDB: repair | `LDB/db/repair.cc` | `Repairer` | RepairDB | the directory of a database |
| nanopb | `PB/pb_encode.c`, `pb_decode.c`, `pb_common.c`, `pb.h` | the message, the streams, an iterator over a descriptor | pb_encode, pb_decode, pb_release, pb_field_iter_next | callers, the heap |
| Video player, message rendering, other screens | `YoutubeController.swift`, `Message.swift`, `Extensions.swift`, ... | | | |

Threads: the main queue runs the screens, the completions of requests and the
blocks of events; the database client runs on one serial dispatch queue;
FIRAuth on another.  What crosses a queue (an event, a call of `setValue` or
`observe`, an answer) is delivered later and in order, and everything else may
happen in between.  LevelDB has a mutex and a background thread of its own: any
number of threads call it, they give the mutex up for every file operation, and
readers of memtables and versions do not hold it at all.

What is hard here:

* the client shows a write before the server has it, and has to merge the local
  echo, the server's push, its response and a reload into one `childAdded`;
* responses may be overtaken by the data of a listen, and are held back;
* a connection is lost with everything in flight and restored later; a process
  dies and keeps nothing (but the signed-in user);
* the answer of a video search comes late, in any order, or not at all, and the
  message is only written then;
* an observer is never removed, so a reopened chat observes its room twice;
* Register sends two requests that race, and its completion looks at the state
  it finds instead of the answer it gets;
* the store groups the writes of several threads into one log record, moves
  entries between files while they are read, forgets those nobody may see, and
  must get all of it back after a failure of a call, of the process or of the
  power at any point;
* its layers share data without locks, count references by hand, and turn bytes
  that may be damaged into records.

For each component, what makes it correct:

* *connection*: no write is lost or forgotten before it is saved; the counter of
  unanswered listens is exact; responses held back are released; everything is
  recovered after a loss;
* *views*: the event cache is the server cache under the pending writes; a saved
  child never disappears; a quiet client shows what the server holds;
* *chat screen*: every message is listed once, under its author, in the end on
  every screen of the room; the player plays the last message's video;
* *room names*: both users arrive in the same room;
* *sign-up*: a profile belongs to an account, is whole, and its uid comes last;
* *LevelDB, as a whole*: it is a map from keys to values, changed by whole batches
  in one order, read at one moment, and what was synced survives;
* *its layers*: a log gives back whole records; readers of a memtable see only
  finished nodes; what is in use is never freed; an iterator shows its snapshot;
  a table finds what was added; CURRENT names a whole manifest; a repair that is
  cut short can be begun again; a file gives back what was appended; DestroyDB
  leaves alone what is not its own or in use; a checksum does not depend on how its
  text was cut; handles of the C interface free what is theirs, once;
* *nanopb*: a message is decoded to what its fields say together or refused,
  no allocation is lost, no stream is overrun, and a descriptor leads to the members
  of its struct.

The hazards, each at its line and with the properties aimed at it, are listed
in `PROJECT.json`.

## 2. The modules

| Module | What it is |
|---|---|
| `RealtimeDb` | the database client (connection, sync tree, views), with its server and network as environment |
| `Rooms` | the name of a room, as operators on sequences |
| `Chat` | the chat screens, extending `RealtimeDb`: their calls and the events they get |
| `ChatFeed` | what a chat promises: an abstract specification that `Chat` implements |
| `Account` | sign-up and sign-in |
| `KVStore` | what LevelDB promises: an abstract specification that `DBImpl` implements |
| `Versions` | the files of each level, what a search finds in them, what a compaction takes and drops, as operators |
| `DBImpl` | LevelDB's database, extending `Versions`: writers, readers, the background thread, the disk |
| `LogFormat`, `MemTable`, `TableCache`, `Iterators`, `SSTable`, `PosixEnv`, `FileLocks`, `PosixFiles`, `CurrentFile`, `Encodings`, `Words32`, `Repair` | the layers under and beside it, one module each |
| `References`, `Codecs` | the counts of what is in use, extending `TableCache`; further formats, extending `Encodings` and `Words32` |
| `DestroyedDB`, `Reports`, `CApi` | file names and DestroyDB; what is told to people, extending `DestroyedDB`; the C interface |
| `ProtoBuf`, `PbStreams`, `PbLayout` | nanopb: messages; streams and single fields; descriptors, extending `PbStreams` |
| `MCRealtimeDb`, `MCChat`, `MCAccount`, `MCLevelDB`, `MCLayers`, `MCFileLocks` | definitions for the configurations |
| `RealtimeDb_proofs`, `Views_proofs` | theorems of the database client: its writes, the two channels and the count of listens; what a view shows, extending the first |
| `Chat_proofs` | theorems of the chat, extending `Chat` and `Views_proofs` |
| `Account_proofs` | theorems of `Account` |
| `DBImpl_proofs`, `Tables_proofs` | theorems of `DBImpl`: its logs, syncs and calls; its tables, extending the first |
| `Layers_proofs` | theorems of `FileLocks`, `PosixEnv`, `CurrentFile`, `Repair` and `MemTable` |
| `References_proofs` | theorems of `References` |

### RealtimeDb

One action is one block on the client's dispatch queue or one message handled
by the server.  The app writes every child once (`childByAutoId`, then one
`setValue`), so a child is its key, and every cache is a set of keys; keys are
numbers in the order of push ids.

* `outstandingPuts`, `putIndex`, `putCounter`, `putsToAck`,
  `unackedListensCount`, `connectionState` are the fields of
  `FPersistentConnection` of those names.  `listens` is derived (`Views`): the
  app never removes an observer.  The states *GettingToken* and *Connecting*
  are folded into `OnReady`, which has a disjunct with and one without a token.
* `pendingWrites` is `FWriteTree.allWrites`; `serverCache`, `complete` and
  `eventCache` are the two cache nodes of `FViewCache`; `mainQueue` holds the
  events that `FEventRaiser` dispatched.
* `Observe` (new view or existing view) and `SetValue` are the app's calls;
  `RestoreState` sends all listens in any order and then the puts in index order;
  `Receive*` are the callbacks of responses and pushes; `AckedEventCache` is
  `ackUserWriteOn` and `revertUserWriteOn` of `FViewProcessor`.
* `Serve*` is the server, modelled from what the client sends and expects: it
  answers a connection in order, sends a location's data unless the hash says
  that the client has it, pushes a stored child to every listener, and pushes it
  to the writer before the response.
* `OnDisconnect` empties both channels; `Kill` resets all a process holds.

### Chat

Extends `RealtimeDb` with `visible`, `screens`, `messages`, `videoID`,
`selectedUser`, the searches in flight (`requests`) and the calls that wait on
the dispatch queue (`calls`).  `PressSend` takes the key and starts the search;
`VideoFound` assigns `videoID` and calls `setValue`; `SearchFailed` does nothing;
`ChildAdded` is `Dispatch` with the block of `observe` on every screen the event
is for.  An event for several registrations is one step that runs their blocks
one after the other: they are consecutive entries of the main queue and touch
different screens.  `Die` is `Kill` with the screens.

`ChatFeed` knows messages that are sent and saved, and screens that list
messages of their room, none twice and none taken back until their process
dies.  `Chat!Feed` maps `sent` to `written`, `saved` to `db`, `room` to the room
of an open screen and `shown` to `messages`.

### Account

An account is its email.  `PressRegister` sends *createUser* and *signIn*
together; the auth server serves requests in any order; `Answer` sets the
current user before the completion reaches the main queue; `SignInDone` is that
completion, with the guard of line 47 and the four `setValue`s of lines 56-59.
It reads the name field when it runs, so `TypeName` may come in between.
createUser does not look at the error of its second request
(`FIRAuth.m:913`), which leaves nobody signed in: `ServeCreateOnly`.  The
database is what `RealtimeDb` shows of it: the writes of a process arrive in
order unless it dies.

### Versions, DBImpl and KVStore

A step of `DBImpl` is what a thread does while it holds `mutex_`, or one piece of
the file work that is done with it released.  User keys are numbers, sizes count
entries, and a version is a set of file descriptions for every level.

* *Writers.*  `Write` enters the queue; the first waits for room (`DelayWrite`,
  `SwitchMemtable`, and waiting for the flush or for level 0), then takes a group
  with it (`BuildBatchGroup`), writes log and memtable (`WriteGroup`, one step:
  nobody else may touch either, and readers see the batch only when
  `FinishWrite` has set the last sequence number), and wakes its group.
* *Readers.*  `BeginRead` takes memtables, version and sequence number under the
  mutex; `EndRead` finds what it finds, charges a seek and drops the version,
  both of which may schedule a compaction.
* *Background thread.*  `BackgroundCall` begins what `PickCompaction`, a manual
  range or an immutable memtable ask for; `WriteOutput` writes one table,
  `BeginNestedFlush` interrupts it for a memtable, `WriteManifest` and `Install`
  are `LogAndApply`, `EndCall` schedules the next call and signals.
  `DeleteObsoleteFiles` and `Unreferenced` are part of the steps that make files
  obsolete.
* *Disk.*  A file has what was written and what was synced.  `Kill` keeps the
  first, `PowerLoss` the second and any part of the rest; `Open` recovers from the
  manifest and the logs.  A call fails where the code can meet a failure.
* *Appends that fail.*  `AddRecord` may leave nothing in the file, a part of the
  record, or all of it, and moves `block_offset_` as if all had been written; only a
  failed sync becomes `bg_error_`, so the next writes go to the same log.  `damaged`
  of a log says that this has happened, and any record written after it may be one
  that `log::Reader` drops (`dropped`, chosen when it is written: which ones depends
  on where the blocks' borders lie, and that is `LogFormat`'s).  The padding at a
  block's end is appended without looking at the result, so that a write may also
  succeed and hurt the log.  A batch whose write failed may be in the log as a
  whole: it is in `history`, not `applied`, and comes back at the next opening.
  `after_failure` marks the batches written to a log that was damaged before.

`KV` maps this to `KVStore`: `batches` to the batches of the logs in order with
what is durable of them, `view` to what a read at the last sequence number
finds (`Now`), the snapshots and the reads in progress to what they will return.
So `ImplementsKV` compares every state's search through memtables and levels
with the plain history of batches: an entry dropped too early, a file deleted
under a reader, a version installed twice or a half batch after a crash are
steps that `KVStore` does not have.

Simplified: `reuse_logs` is false (the default); `InsertInto` does not fail; what
a reader drops it does not read in part (`LogFormat`); a
table that was not finished is not a file (it is never referred to).
`NullManual` is the one place where the code can dereference NULL (a manual
compaction that its caller took back after an error, `db_impl.cc:764`): the
process may die there.

### The layers

* `LogFormat`: `AddRecord` cuts a record at block borders; `AddRecordFails`,
  `Corrupt` and `Truncate` are what happens to the file (its property leaves out
  what follows a failed append: that is `DBImpl`'s); one `ReadRecord` step is one
  turn of the reader's loop (`Handle` has its cases), from any initial offset.
* `MemTable`: `MemAdd`, `SetOwnNext` and `Publish` are the stores of an insertion,
  level by level; `SearchStep` is one turn of a reader's search; `Allocate` and
  `AllocateAligned` give out the arena, first of all `head_`; its pointer is the number of
  the current block and an offset in it.  A `NoBarrier_Store` waits in the writer's
  buffer, a set, until the processor lets it be seen (`StoreIsSeen`, in any order) or a
  `Release_Store` comes, which begins with a `MemoryBarrier` (`atomic_pointer.h`).
* `TableCache`: the shards of `LRUCache` with hash table, the two lists and counts
  (a step is a critical section), and `FindTable`, which releases the mutex
  between a miss and `Insert`.
* `References`: memtables, versions and the `FileMetaData` they name are objects with
  the count the code keeps.  `TakeReferences` and the ends of reads and iterators, switches of
  the memtable, flushes and compactions take and drop counts; each is what happens
  between two points where the mutex is released.
* `Iterators`: three levels of iterators as functions on their states, and the
  five calls of `DBIter`.
* `SSTable`: the builder's and the reader's state; blocks are read entry by entry
  in bytes (`ParseNextKey`, `BlockSeek`), and any block may be damaged.  Filters are
  made of user keys, through `InternalFilterPolicy`.  The
  8-byte tag is one element, checksums find all damage, compression is off, and
  the Bloom filter's hash is a constant.
* `PosixEnv`: the two `Limiter`s, whose count is read without their lock before it
  is read again with it, and the queue of the background thread with spurious
  wake-ups.  `FileLocks`: `PosixLockTable` beside the record lock of POSIX, which a
  process loses when it closes any descriptor of the file.
* `CurrentFile`: each call on a file and the directory, each of which may fail,
  with what stdio, the system and the disk hold.  Operations of a directory reach
  the disk in order.  The first manifest is not synced by NewDB; after a loss of
  power it is allowed to be missing.
* `Encodings`: bytes hold 2 bits of a varint instead of 7, and integers have 5 and
  7 bits, so that every boundary occurs; inputs may be cut anywhere.
* `Codecs`: fixed integers in base 4, so that carries and borrows of a tag occur; a
  memtable that is searched with a `LookupKey`; the state a Status owns, copied and
  assigned; the base64 of `fbase64.c` at every length.
* `Words32`: a crc is the set of its bits, `STEP1` and `STEP4` use tables that are
  computed from the polynomial, and one `Extend` adds a piece at any address; the
  processor's instruction is the division bit by bit.
* `PosixFiles`: what a file holds in stdio's buffer, in the system and on the disk; a
  write may be short; readers of the three kinds; lines of the log in a buffer
  that is too small at first.
* `DestroyedDB`: DestroyDB call by call beside a process that opens, writes and
  closes the database; the file that LOCK names is told from the name.
* `Reports`: `DumpFile` as lines, `Histogram` as counts of buckets with quotients
  kept exact, `GetApproximateSizes` over versions, `GetProperty` by name.
* `CApi`: the heap as cells with what they own and borrow; a client creates and
  destroys handles in any order that `c.h` allows, and any call may fail.
  `leveldb_destroy_db` takes the lock of the database; `leveldb_repair_db` takes none:
  it succeeds on a database that is open (`moved`: what is open writes to files that no
  opening looks at), and leaves an empty one where there was none.
* `Repair`: the steps of `Repairer` on files that can be read whole, in part or not
  at all; it may die or a call may fail between any two, and is called again after
  that or after it ended.  A table whose size cannot be had is archived (`SizeFails`);
  one that is whole and that a read or the opening fails for is repaired like a damaged
  one, and its copy may have a part of it (`ScanFails`, `CopyTable`).  `ArchiveFile` may
  fail, which nobody looks at (`unarchived`), and renames over a lost file of the
  same name.
* `ProtoBuf`: `PbDecodeField` is one turn of the loop of `pb_decode_noinit`; the
  stream is an encoded message whose fields were swapped, joined by unknown ones,
  followed by a second message or cut off.  `heap` counts allocations.  The members of
  a oneof are in place or pointers: `ReleaseUnion` leaves the member with the same tag
  alone, `Placing` clears a submessage in place and with it what its pointers held, and
  `left` says in which unions bytes of a member in place remain, which a pointer then
  takes for its own (`TakesBytesForPointer`; what happens next is not defined, status
  *undefined*).  ReadVarint has no limit of width here.
* `PbStreams`: integers are sets of bits at their full width, strings are bytes; an
  output stream counts or writes and may be full; `EncodeSubmessage` runs a callback
  twice, which may write something else the second time; the reader's field may be
  declared narrower.
* `PbLayout`: a C compiler's layout of a struct, the offsets that nanopb's macros put
  into the descriptor, and the iterator that adds them up.

## 3. The runs

Every run has `CHECK_DEADLOCK FALSE`: the bounds are limits on what the
environment does, and the system stops when there is nothing left to send.

| Run | Bounds | What it shows |
|---|---|---|
| `rtdb_room` | 2 clients, 1 room, 2 keys, 2 registrations, 1 lost connection, 1 death | `ListensCounted`: the counter of unanswered listens is exact over reconnects (so the assertion in `sendListen` holds); `WritesAccountedFor`: no write is lost in the client; `QuietViewsAgree`: with nothing in flight a view is what the server holds; `ForgottenOnlyIfSaved`; `SavedNeverVanishes` |
| `rtdb_two_locations` | 2 clients, 2 locations, 2 keys, refusals, 1 lost connection | `HeldAcksAreReleased`, `EventCacheIsOverlay`, with writes that the rules refuse |
| `rtdb_live` | 2 clients, 1 room, 2 keys, 1 registration, 1 lost connection | `WritesSettle`, `SavedReachesViews` |
| `chat_two_users` | 2 users, 2 screens, 2 messages in the shared room | `ShownOnce`, `ListIsView`, `PlaysLastVideo`, `ShownUnderItsAuthor` while both send and answers, calls and events interleave |
| `chat_reopened` | 1 user in the room with herself, 2 screens, 2 messages, 1 lost connection, 1 death | `ImplementsFeed` (refinement) |
| `chat_live` | the same with 1 message | `SavedIsShown` |
| `chat_order` | 1 user, 2 messages | violated: the list is not chronological |
| `account` | 1 phone, 2 people, 2 presses, 1 death, requests may fail | `ProfileNeedsAccount`, `UidComesLast`, `ProfilesAreWhole` |
| `account_profile` | 1 phone, 1 person, 1 press, nothing fails | violated: an account without a profile |
| `ldb_store` | 2 keys, 3 levels, tables of 2 entries, memtables of 1, stop at 2 files in level 0; six budgets of up to 4 writes | `NeededFilesExist`, `LevelsAreSorted`, `SyncedWritesAreDurable`, `NobodyWaitsForNothing`, and `ImplementsKV` (refinement) |
| `ldb_hop` | the same with tables of 1 entry, 3 writes and a snapshot | violated: a version of a key moves below an older one |
| `ldb_layers` | per layer, below | one property for each layer |

Why these bounds are enough for the cases to happen.  Two clients give a writer
and a reader, and each a write that the other's push may overtake; two keys give
a held response beside a pending write, and two messages whose order matters;
two registrations give the new and the existing view; two locations give the
counter a value above one, and a response that is held back while one of two
listens is answered.  One lost connection covers a loss with any message in
flight, in both states of a connection, and the reconnect after it.  The
safety runs of `RealtimeDb` use the symmetry of clients and of observers (no
definition tells them apart), those of `Chat` only that of observers: the names
of users are ordered.  In `chat_two_users` nobody opens the chat with oneself
(`NoSelfChat`, a constraint): `chat_reopened` is that chat.  Two presses in
`account` are two forms, for one person or for two, answered in any order
around a sign-out.

`ldb_store` begins in one of six budgets (`MCBudgets`), because the product of
everything is out of reach: four writes alone, so that a memtable fills during a
compaction and is flushed inside it; a manual compaction with a failing call; a
read that is charged to a file and starts a compaction; a snapshot while tables
are merged; a read at a snapshot; and two threads with synced and unsynced
writes, closing, a crash and a failure.  A level holds two entries before it is
compacted, so three writes reach level 2.  The failing call of two of them may be an
append, in each of the ways it can fail, with writes, flushes, closings and openings
after it.

`ldb_layers` runs one layer at a time: `part` is chosen at the start and only
that layer's steps are taken, the others stay where they begin, so that the run
is the sum of the layers and not their product, and a property of one layer is
checked in every state of it.  `RepairDB` has three calls and two faults: the first
fault may leave a part of a table in the place of the whole one, and it takes a second
call, and a second fault, to put the one over the other in lost.  A message may be sent
twice, or two one after the other, so that every two members of the oneof, also the same
one, follow each other.

| Part | Bounds | Properties |
|---|---|---|
| log | blocks of 8 bytes, headers of 3, 3 records of 0, 2 or 9 bytes, 1 fault | `LogIsReadBack`: whole records, in order, damage stays in its block and is reported |
| mem | 3 insertions of 2 keys, height 2, stores seen late, a reader with 2 searches | `ReadersNeedNoLock`: a reader is led through finished nodes to the right one, and the arena's pieces are aligned and disjoint |
| cache | 3 tables, 2 shards of capacity 1, hash collisions, 2 threads, 5 calls | `CacheKeepsItsTables`: what is used is open, and counts, lists and hash table agree |
| references | 2 readers, 2 `FileMetaData`, 5 reads, switches or compactions | `ReferencesHold`: a count is the number of pointers, nothing is deleted in use, nothing is left at the end |
| iter | 5 entries of 3 keys dealt to two children in every way, blocks that cannot be read, every sequence number, any walk | `IteratorShowsItsSnapshot` |
| table | 6 keys, up to 3 entries of two sizes, damage | `TableReadsBack`: gets, walks both ways and offsets |
| env | 3 threads, limits of 1, 3 items | `LimitsAreKept`, `ScheduledWorkRuns` |
| locks | 3 threads in 2 processes, 1 death | none here: its property is proved |
| current | 2 opens, 1 failing call, death and loss of power anywhere | `CurrentNamesAManifest` |
| encodings | edits and batches with every field, every value of a log number, cut anywhere | `FormatsReadBack` |
| keys, base64, statuses | 3 entries of two short keys, all sequences and types; texts of up to 20 bytes with every rest; 2 variables, 2 errors | `FormatsReadBack`: a lookup finds the newest entry it may see, no text is owned twice or lost |
| streams | buffers of 4 and 30 bytes, 2 items of every type, readers of the same and other widths | `PbFieldsAreExact` |
| layout | structs with every kind of member, 4 moves of the iterator | `PbFieldsAreExact` |
| repair | 5 directories of 3 tables or logs, whole or damaged, 3 calls, 2 faults | `RepairDestroysNothing`: with one fault in any number of calls, and with any in one call that could move its files, what could be read is in the directory or in lost |
| wire | a descriptor with twelve fields, one of each kind, 9 messages, 2 changes | `PbReadsWhatWasSent`: what whole fields say together, or an error; nothing given back that is in use, and no allocation lost but by a oneof's submessage in place that came twice |
| words | 25 bytes under one checksum in pieces at all 8 alignments, both ways to compute it; 4 draws from 5 seeds | `FormatsReadBack` (`WordsAreExact`): the checksum is the remainder, however the text is cut |
| capi | 1 key, 4 handles at a time, batches of 1 | `HandlesOwnTheirCells`: no call touches what was freed, nothing leaks |
| files | 1 file of 2 bytes, 2 names, 1 fault (a call, the process, the power); lines of up to 6 characters | `FilesKeepTheirBytes` |
| destroy | directories with own, foreign and odd names, 1 opening by another process, 1 failing call | `DestroyTakesOnlyItsOwn` |
| dumps, histograms, sizes, properties | files of each kind with damage; 4 values in 2 histograms; versions of 3 levels; names with numbers that overflow | `ReportsAreTrue` |

Each property has a mutant in `PROJECT.json`: a definition changed the way a
plausible error would change the code (a counter that is not reset, a response
that is never held back, puts that are not sent again, observers told twice, the
uid written first, outputs of a compaction that are not protected from deletion,
a log that is deleted before its table is in the manifest, a temporary file that
is renamed before it is flushed), under which the run finds the property
violated.

### What the violated properties say

* `ListIsChronological` (`chat_order`).  The comment on `childByAutoId` promises
  a chronologically sorted list.  A message gets its key when Send is pressed but
  is written when its search is answered, and the screen appends what comes: two
  answers in the other order leave the list out of order until it is reopened.
* `SignedUpHasProfile` (`account_profile`).  The README says that users sign up
  and that the database saves their profiles.  Register does not wait for
  *createUser* before *signIn*: if the sign-in is served first, it fails, nobody
  is signed in, the completion returns, and the account has no profile.
* `EntriesNeverHop` (`ldb_hop`).  A comment in `version_set.cc:346` bases the search
  by level on entries that never hop across levels.  A snapshot makes a
  compaction keep two versions of a key; when the first fills its table, the
  second begins the next table of the same level.  The next compaction may take
  only the first table down, since nothing adds a neighbour that has the same
  user key, and then the older version is in the smaller level.  With tables of
  two megabytes the two versions have to meet a table's end: rare, but not
  excluded.  `LevelsAreSorted`, `ImplementsKV` and the rest are checked with
  tables large enough that it does not happen in their bounds.

### What the exceptions stand for

Three properties except cases, most of which are errors of the code, each
named in the property; without the exception TLC finds it violated.

* `SyncedWritesAreDurable`, batches that follow a failed append in its log
  (`after_failure`).  `options.h:199` says that a write with sync is as safe as a
  `write()` followed by an `fsync()`.  An append that fails (a full disk, say) is
  reported to its writer, but is no background error (`db_impl.cc:1236`), and leaves
  `log::Writer` ahead of the file (`log_writer.cc:107`): the next record is cut at the
  wrong block border, or comes behind a torn fragment.  It is written, synced and
  acknowledged, and the reader drops it at the next opening.
* `PbReadsWhatWasSent`, first, a submessage in place of a oneof that arrives twice
  (`SentTwiceInPlace`).  `pb_release_union_field` leaves the member alone since the tag
  is the same, to be merged (`pb_decode.c:1113`), but `decode_static_field` clears it
  before it is decoded again (466), and what its pointers held is lost.
* `PbReadsWhatWasSent`, second, a pointer of a oneof after a member in place
  (`PointerSentOverBytes`).  The bytes of the first are still in the union, and
  `allocate_field` gives them to `pb_realloc` (`pb_decode.c:484`).  No descriptor of
  this repository has such a oneof; the vendored library allows it.
* `RepairDestroysNothing`, two faults in two calls: no document promises more.

### Fairness

`FairSpec` and `FairChatSpec` assume weak fairness only of what the code or the
system schedules: the two queues are served (`Dispatch`, `ChildAdded`,
`RunCall`), messages that arrived are handled (`Receive`), the server answers
(`Serve`), a lost connection is retried (`OnReady`; `tryScheduleReconnect` runs
after every loss and after every failed token), and a search ends with an answer
or URLSession's time-out (`SearchAnswered`).  Nothing is assumed of the user, of
which answer a search gets, or of losses and deaths, which are bounded.  Without
a bound on losses the liveness properties would not hold: a connection that
always breaks before a response delivers nothing.

No fairness is assumed of LevelDB.  What can go wrong with its progress is a
call that is never scheduled or a signal that is never sent, and
`NobodyWaitsForNothing` says this of every state: whoever waits on `bg_cv_` waits
for a background call that is scheduled or under way.

## 4. The theorems

All hold for every value of the constants that satisfies the named assumptions:
`KeysAssumption` (finitely many keys, which are numbers), `LocationAssumption`
(finitely many locations), `RejectAssumption` and `BoundAssumption` of
`RealtimeDb`; `NameAssumption` of `Chat` (a name for every user, and a room for
every two); `NoUserAssumption`, `FailAssumption`, `PressAssumption` of `Account`;
`VersionsAssumption` and `DBImplAssumption` (limits are numbers, a batch is a
sequence of operations that is not empty, the trigger of compactions is not above
the limit that stops writers, the caller of CompactRange is not a writer);
`PosixEnvAssumption` (finitely many threads, limits that are numbers);
`FileLocksAssumption`; `CurrentFileAssumption` (bounds that are numbers);
`RepairAssumption` (the files of a directory are finitely many, have positive
numbers and finitely many entries); `ReferencesAssumption` (finitely many readers,
bounds that are numbers).  TLC evaluates each in the runs of its module.

A proof has one step per action, and where two clients can meet, one case for the
client that acts and one for the others.

### The writes of the database client (`RealtimeDb_proofs`)

* `TypeCorrect`: `Spec => []TypeOK`, no longer checked by a run.
* `NoWriteIsLost`: `Spec => []WritesAccountedFor`.  Not inductive: a put could be
  made for a key whose response is held back.  `WritesInv` adds
  `PendingAreWritten` (pending writes were written, and `SetValue` takes a fresh
  key).
* `ForgottenWritesAreSaved`: `Spec => ForgottenOnlyIfSaved`.  A write is forgotten
  on a response, so a response has to be justified from the moment it is sent:
  `AcksJustified` (in `AcksInv`) says that every positive response in flight or held
  back is for a child that the server holds, and that there is no negative one when
  the rules refuse nothing.

### The channels (`RealtimeDb_proofs`, second part)

Begins with lemmas on sequences of messages: what `Append`, concatenation and
`Tail` do to what a channel holds, to how many messages of a kind it has
(`CountOf`), to what comes first (`Before`) and to what is there once (`Once`).  They
are what the proofs about the network, here and in `Views_proofs` and `Chat_proofs`,
rest on.

* `ListensAreCounted`: `Spec => []ListensCounted`.  A listen in flight becomes an answer
  in flight, a disconnect takes both and resets the count.
* `HeldAcksAlwaysReleased`: `Spec => []HeldAcksAreReleased`.  Not inductive: a client
  that holds a response back and reconnects must have something to ask for.
  `ListensInv` adds that it has a view then, and that every listen that is counted is
  about a view.

### The views (`Views_proofs`)

* `ViewsAreOverlays`: `Spec => []EventCacheIsOverlay`.
* `QuietViewsAlwaysAgree`: `Spec => []QuietViewsAgree`.
* `SavedStaysVisible`: `Spec => SavedNeverVanishes`, an action property.

`ViewsInv` extends `ConnectionInv`, which extends `ListensInv` and `WritesInv`.
`ConnectionInv` says that the token is first in a channel, that a put in flight is
there once, as a request or as a response, and that a connection that can send
writes has sent them all.  `ViewsInv` says where the server's data is: every child
of a location that the server pushes is in the server cache or in flight (`Covered`), a
snapshot in flight has whatever data is ahead of it (`DataGrows`), and takes nothing
out of the cache (`DataViewed`).  That is why late, repeated and reordered data
leaves a view as it should be, and the part that testing would hardly reach.
`SavedInv` adds `AcksOf`: a child whose response is on its way, or held back, will be in
the server cache before that response counts (`Coming`).  This is the reason for
holding responses back while listens are unanswered.

### The chat (`Chat_proofs`)

* `MessagesAreShownOnce`: `ChatSpec => []ShownOnce`.
* `ListsAreViews`: `ChatSpec => []ListIsView`.
* `PlayersFollowLists`: `ChatSpec => []PlaysLastVideo`.
* `ChatKeepsThePromise`: `ChatSpec => ImplementsFeed`, the refinement of `ChatFeed`.

`ChatInv` has four parts.  `DbInv` is what the modules before prove, carried over since
a step of the chat is a step of `RealtimeDb` or leaves its state alone.
`ScreensInv`: a screen belongs to one process, and observes, asks once for, and sends
to one room.  `ListsInv` relates the list, the events on the main queue and the
view: nothing is listed or on its way twice, what the view shows is listed or on its
way, and what else is listed was refused (`Gone`); `ListIsView` alone, which speaks of
runs without refusals, does not survive a step.  `VideosInv`: the player has the
last message's video unless a write of it or an event for it is still queued
(`ToWrite`), and a screen that plays a video already will hear of its message
(`WillHear`), which is why the order of the two calls on the queue matters.
In the refinement, opening a screen is `OpenScreen`, `RunSetValue` is `SendMessage`,
`ServePut` is `SaveMessage`, `ChildAdded` is `Show`, `Die` is `CloseScreens`; all
other steps stutter.

### Sign-up (`Account_proofs`)

* `AccountTypeCorrect`: `Spec => []AccountTypeOK`.
* `ProfilesNeedAccounts`: `Spec => []ProfileNeedsAccount`.  The invariant adds
  that a successful answer in flight is for an account (`AnswersHaveAccounts`)
  and that a write under way is for one (`WritesHaveAccounts`).
* `UidIsWrittenLast`: `Spec => []UidComesLast`.  `FieldsPrecedeUid`: in front of a
  uid that waits, each other field of its user waits or is stored.  For any number
  of phones that write to the same profile, where TLC checks one.
* `ProfilesOfOnePhoneAreWhole`: with `Devices = {d}`, `Spec => []ProfilesAreWhole`.  `WholeInv`: the
  writes that wait are whole blocks of four fields, the first perhaps begun, and
  a profile is stored up to the first of them, or is older and whole under that.
  The hypothesis is needed: blocks of two phones interleave, and then a profile may
  have the email of one form and the password of another.

### LevelDB's database (`DBImpl_proofs`, `Tables_proofs`)

* `SyncedWritesLast`: `Spec => []SyncedWritesAreDurable`: a synced batch that took effect
  is where the next opening finds it, unless an append to its log had failed before
  it.  Without that exception it is false, as TLC shows.
* `WaitersAreServed`: `Spec => []NobodyWaitsForNothing`.
* `NothingLoggedIsLost`: `Spec => []RecordsExist`, defined beside it: the manifest
  that CURRENT names exists, and so does the record of every batch whose log that
  manifest has not made obsolete; the reader returns it unless an append to that log had
  failed before.
* `NeededFilesAlwaysExist`: `Spec => []NeededFilesExist`, which adds the tables: those of
  every version that a reader or a compaction refers to, and those that the next
  opening asks for.

`DBInv` has eight parts: the shape of the disk (`DiskInv`), of the version set
(`VsetInv`) and of what the threads are doing (`ThreadsInv`); `StatusInv`, what is
empty while the database is closed or opening, and that the background
thread is busy only with a call that counts as scheduled; `CallIsScheduled`, which
each step that makes work has to re-establish; `NumbersInv`, the order of the
numbers of logs (the log number of the version set, of the edit being written, of the
current memtable, and the next file number), because what may be deleted is decided
by comparing numbers; `HistoryInv`, that each batch is in the log the history says,
and is not dropped there if nothing failed before it (`OnDisk`),
if that log is not older than the oldest that is needed; and `SyncInv`, what is
durable in each state of an opening and of a failed sync.  The last is what makes the
durability of a synced batch hold for its group and for the batches before it.

`TablesInv` comes on top of it for the tables, in five parts.  `NumbersAreGiven`: what is
in use has a number below the next one, and a flush one that no output has.
`EditIsKept`: the tables that an edit under way adds are there, with numbers that the
manifest will know of.  `OutputsAreKept`: outputs that no version names yet are in
`pending_outputs`, also while a flush interrupts their compaction and installs a version
that deletes files.  `VersionsAreKept`: the tables of every version that is referred to
are there, and a file that was sought too often is one of the current version, which
makes a picked compaction one of files that exist.  `ManifestIsKept`: the manifest names
tables that are there, and as long as nothing failed it says what the version set
holds, or will hold once the edit is installed.  After a failed write the two may
differ, and what keeps the next opening's tables is that nothing is deleted any more
(`bg_error`, `db_impl.cc:226`).

### The layers (`Layers_proofs`)

* `LimitsKept`: `EnvSpec => []LimitsAreKept`.  Inductive with the types:
  every step moves one thread, `TurnsMovesHolder` says what that does to the
  number of holders, and a Limiter is lowered only under its lock, where it is
  above zero.
* `WorkRuns`: `EnvSpec => []ScheduledWorkRuns`.  Inductive with the types: what was
  begun followed by what waits is what was scheduled, whichever end changes.
* `OneHolder`: `LockSpec => []OneHolderPerProcess`.  Holding is not inductive:
  `NamesAreInserted` and `OneInserter` speak of every thread past `InsertName`, also
  one that was refused or is leaving, and say that the name in the table is its
  own.  Between processes there is no such theorem, and it would be false: a
  thread that finds the name taken closes its descriptor, which drops the record
  lock of the thread that holds it (`env_posix.cc:470`).
* `CurrentIsWhole`: `CurrentSpec => []CurrentNamesAManifest`, also for the
  directories that a loss of power would leave.  `CurrentInv` speaks of every
  directory the disk may still show (`DirectoriesAreRight`), of what a file
  is by its name (`KindsAreApart`), of how much of the manifest and of the temporary
  file stdio, the system and the disk hold at each step (`ManifestGrows`,
  `TempGrows`), and says that the manifest being written is not yet named by CURRENT
  (`OpeningIsNew`): a rename is right because of what was synced three calls before.
* `RepairKeepsAll`: `RepairSpec => []RepairDestroysNothing`, for any directory, any
  number of calls and of faults: what could be read at first still can if there was one
  fault, whatever it was, in any number of calls, or one call whose files could
  be moved, whatever else failed in it.  Two faults in two calls can lose data: one
  makes a partial copy of a whole table, which is archived, and the other puts that copy
  over it in lost.  `RepairInv`: what the Repairer has in hand is there
  (`RepairerKnows`), a copy is of the table at hand (`CopyIsKnown`), and what is in hand
  holds all that was there at first while nothing failed (`AllIsInHand`).  `OneFault`
  says why one fault is harmless: a table that is in the directory and in lost is whole,
  so that only a scan that fails, which is that fault, can replace it in lost, and then
  everything can be read from the directory.  That a table is in both places only in
  this way needs `NamesAreNew`: numbers begin above those in the directory, and while
  the one fault has not happened, or whatever is left has nothing to be replaced, a table
  of no smaller number stands for every one in lost (`Covered`).  `OneCall` is the same
  for one call, which numbers above all it found.

* `ReadersAreSafe`: `MemSpec => []ReadersNeedNoLock`, for any keys, heights, readers,
  block sizes and alignments (`MemTableAssumption`: a block is a multiple of the
  alignment).  `MemInv` has three parts.  `ListInv`: on each level the pointer of
  every node is to the next of the nodes that are on it (`Lists`), the one being
  inserted counting only on the levels where it is linked; what `Insert` holds in
  `prev` is still the last node before the key on each level to come, and the node's
  own pointer is set or waits to be seen (`InserterKnows`).  Nobody
  but the one writer changes a list, which is why `prev` cannot go stale.  `SearchesKnow`: a search
  stands on its level and has passed only nodes before its target; what it must find
  is the entries up to the number they had when it began, all still there.  `ArenaOk`: the pieces lie
  apart in their blocks, and what remains of the current block lies behind them.  The
  step that needs the barrier is `Publish`: without it the own pointer may be
  waiting when the node is linked, and `Lists` fails.

### The reference counts (`References_proofs`)

* `CountsAreTrue`: `RefSpec => []ReferencesHold`, for any number of readers, files,
  flushes and compactions, whatever fails: each object counts those who point to it,
  none is used after its deletion, and nothing is left when the database is deleted.
  The counting is proved apart from the program.  `Sound(o, e, new)` says of objects `o`
  that `e[c]` others point to `c` besides the versions that list it, that what anybody
  points to is there, and that only what is in `new` may have no count; the lemmas about
  `AddRefs`, `Delete`, `DropRef`, `NewVersion` and `AppendVersion` say what each makes of
  `e` and `new`, whoever calls it.  `RefInv` then says who the others are (`Outside`:
  readers, `DBImpl`, the flush, the compaction) and what each may hold: a reader's
  three pointers are distinct, a flush has a base until it logs and a version
  from then on, a compaction's inputs are files of a version it keeps, and a version
  that is being logged is known to nobody (`NewIsNew`), so that one that cannot be
  logged may be deleted at once.  That the last object goes with
  the database needs `NobodyReadsWhatIsGone`: what is left then could be held only by
  versions, which nobody holds.

### What is only model-checked, and why

* The liveness properties (`WritesSettle`, `SavedReachesViews`, `SavedIsShown`): the
  prover handles neither fairness nor `ENABLED`.
* `ShownUnderItsAuthor` is not a theorem: with names that TLC's instance does not
  have, two pairs of users can share a room (`Rooms` concatenates names), and a message
  is then shown in a room of others.
* Of `DBImpl`: `LevelsAreSorted`, and `ImplementsKV`, which needs it
  and the meaning of a search through levels.  `LevelsAreSorted` and `ImplementsKV` are
  false where tables are so small that a level splits the versions of a key
  (`ldb_hop`), so that a theorem needs that excluded.
* The layers, but for the seven theorems above.  What the recursive functions of
  `SSTable`, `LogFormat`, `Encodings`, `ProtoBuf` and others compute for every input
  would need induction over data, which is out of the prover's reach.

## 5. What is not modelled

* The list of users, the login query, the other screens: they show what they are
  given; the order in which they are given it is that of `RealtimeDb`.  Push ids
  are ordered numbers.
* In the database client: fetching and refreshing the token while connected,
  unauth, interrupt and resume, refused tokens and listens, onDisconnect writes.
  Transactions, merges, removals, filtered queries and priorities: the app uses
  none of them.  The client's tracking of what is cached on disk is off unless
  an app asks for it, and this one does not: LevelDB is modelled as the library
  that is built here, with any callers.
* Child changes and removals: every message is written once.
* Language tagging, the query text, thumbnails, colours and layout: no state that
  a property is about.
* LevelDB: options that are off by default (`reuse_logs`, `paranoid_checks`,
  custom comparators and caches); the ports (pthread, taken as what
  it promises; the barriers of `atomic_pointer.h` are in `MemTable`); the accelerated crc of `port_posix_sse.cc`, which this build
  leaves out, other than by what it must return; the hash function, a constant of the
  modules that use it.  Composition of the layers with `DBImpl`: each promises
  what `DBImpl` assumes of it, which is checked on its own.
* nanopb: explicit defaults, failing allocations.
* Other vendored libraries (MessageKit, Alamofire, GTMSessionFetcher, Analytics):
  user interface, requests and logging that keep none of the app's data.

## 6. Plan

1. *done*: `RealtimeDb`, `Chat` on top of it with `ChatFeed` as its abstraction,
   `Rooms`, `Account`; every safety property of these that is true for all
   constants is a theorem, and so is the refinement.
2. *done*: `Versions` and `DBImpl` with `KVStore` as their abstraction; the layers, one
   module each, and the three modules of nanopb; theorems of `PosixEnv`,
   `FileLocks`, `CurrentFile`, `Repair`, `MemTable` and `References`; durability, wake-ups, logs
   and tables of `DBImpl`, with appends that fail.
3. Proofs to come: `LevelsAreSorted` for tables that keep the versions of a key
   together; then the lists and counts of `TableCache`.
4. `Connection`: token fetch attempts, refused tokens, refresh while connected,
   retries, as a refinement of `OnReady` and `OnDisconnect`.
