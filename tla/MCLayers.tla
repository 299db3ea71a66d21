------------------------------ MODULE MCLayers ------------------------------
(* The layers below DBImpl, and the wire format of the client, each on its  *)
(* own: `part` names the one that runs, the others stay at their Init.      *)
EXTENDS MCFileLocks, LogFormat, MemTable, References, Iterators, SSTable, ProtoBuf,
        PosixEnv, CurrentFile, Encodings, Repair,
        PbStreams, PbLayout, Words32, PosixFiles, Codecs, CApi, Reports

VARIABLE part

-----------------------------------------------------------------------------
(* MemTable, TableCache *)

MCEntrySize == [k \in UserKeys |-> 2 * k + 1]

MCHash == 1 :> 0 @@ 2 :> 1 @@ 3 :> 6
MCCharge == [k \in CacheKeys |-> 1]

-----------------------------------------------------------------------------
(* Iterators: five entries dealt to two children, one cut into two blocks    *)
(* of which the first may be unreadable.                                     *)

MCEntries == <<<<1, 3, 3>>, <<1, 1, 1>>, <<2, 4, 0>>, <<2, 2, 2>>, <<3, 5, 5>>>>
MCChild(deal, c) == LET mine == SelectSeq(<<1, 2, 3, 4, 5>>, LAMBDA i : deal[i] = c)
                    IN [i \in DOMAIN mine |-> MCEntries[mine[i]]]
MCBlock(es, last, ok) ==
    [entries |-> es, limit |-> IF last THEN <<9, 0>> ELSE EntryKey(es[Len(es)]), readable |-> ok]
MCCut(es, n, ok) ==
    IF n \in 1 .. Len(es) - 1
    THEN <<MCBlock(SubSeq(es, 1, n), FALSE, ok), MCBlock(SubSeq(es, n + 1, Len(es)), TRUE, TRUE)>>
    ELSE <<MCBlock(es, TRUE, TRUE)>>
MCSources ==
    {[children |-> <<MCCut(MCChild(d, 1), n, ok), MCCut(MCChild(d, 2), 0, TRUE)>>, sequence |-> s] :
        d \in [1 .. 5 -> {1, 2}], n \in 1 .. 3, ok \in BOOLEAN, s \in 1 .. 5}

-----------------------------------------------------------------------------
(* SSTable: a key is its bytes and the tag, sequence number and type in one  *)

MCStoredKeys == {<<1, 11>>, <<1, 3, 12>>, <<1, 3, 11>>, <<2, 3, 11>>, <<3, 3, 12>>, <<3, 3, 11>>}
MCBloomHash(k) == (k[1] * 37 + Len(k) * 11) % 64

-----------------------------------------------------------------------------
(* ProtoBuf: a message with fields of every kind that the code tells apart:  *)
(* numbers, strings and submessages, in place and by pointer, single,        *)
(* repeated and of a oneof, packed and of a fixed count, required, optional, *)
(* proto3, and in an extension.                                              *)

MCField(tag, ltype, htype, atype, max, group, sub) ==
    [tag |-> tag, ltype |-> ltype, htype |-> htype, atype |-> atype, max |-> max, group |-> group, sub |-> sub]
MCInner == <<MCField(1, "uvarint", "required", "static", 0, "", <<>>),
             MCField(2, "string", "optional", "pointer", 0, "", <<>>)>>
MCExtension == <<MCField(10, "string", "optional", "pointer", 0, "", <<>>),
                 MCField(11, "uvarint", "optional", "static", 0, "", <<>>)>>
MCPbFields ==
    <<MCField(1, "uvarint", "required", "static", 0, "", <<>>),
      MCField(2, "submessage", "optional", "static", 0, "", MCInner),
      MCField(3, "uvarint", "repeated", "static", 2, "", <<>>),
      MCField(4, "string", "oneof", "pointer", 0, "either", <<>>),
      MCField(5, "submessage", "oneof", "pointer", 0, "either", MCInner),
      MCField(14, "uvarint", "oneof", "static", 0, "either", <<>>),
      MCField(16, "submessage", "oneof", "static", 0, "either", MCInner),
      MCField(6, "submessage", "repeated", "pointer", 0, "", MCInner),
      MCField(7, "fixed32", "repeated", "static", 2, "fixed", <<>>),
      MCField(8, "string", "repeated", "pointer", 0, "", <<>>),
      MCField(9, "extension", "optional", "static", 0, "", MCExtension),
      MCField(12, "uvarint", "singular", "static", 0, "", <<>>)>>
MCOne == 1 :> <<1>> @@ 2 :> <<>>
MCTwo == 1 :> <<2>> @@ 2 :> <<<<7>>>>
MCZero == 1 :> <<0>> @@ 2 :> <<<<6>>>>
MCEmpty == [t \in (1 .. 8) \cup {10, 11, 12, 14, 16} |-> <<>>]
MCPbMessages ==
    {[MCEmpty EXCEPT ![1] = <<300>>, ![2] = <<MCTwo>>, ![3] = <<5>>, ![4] = <<<<9>>>>],
     [MCEmpty EXCEPT ![1] = <<1>>, ![2] = <<MCOne>>, ![5] = <<MCTwo>>, ![12] = <<3>>],
     [MCEmpty EXCEPT ![1] = <<2>>, ![6] = <<MCTwo, MCOne>>, ![8] = <<<<3>>, <<>>>>],
     [MCEmpty EXCEPT ![3] = <<6, 130>>, ![10] = <<<<4>>>>, ![11] = <<0>>, ![12] = <<0>>],
     [MCEmpty EXCEPT ![1] = <<2>>, ![7] = <<8, 9>>, ![4] = <<<<>>>>],
     [MCEmpty EXCEPT ![1] = <<3>>, ![14] = <<200>>],
     [MCEmpty EXCEPT ![1] = <<3>>, ![14] = <<0>>],
     [MCEmpty EXCEPT ![1] = <<4>>, ![16] = <<MCTwo>>],
     [MCEmpty EXCEPT ![1] = <<4>>, ![16] = <<MCZero>>]}
MCUnknownFields == {<<104, 1>>, <<0>>, <<122, 1, 5>>}

-----------------------------------------------------------------------------
(* PbStreams: integers at the edges of their widths, in fields of every size  *)

MCOf(ltype, size, atype) == [ltype |-> ltype, size |-> size, atype |-> atype]
MCItem(f, v) == [field |-> f, value |-> v]
MCPbItems ==
    {MCItem(MCOf("varint", 8, "static"), w) : w \in {{31}, 0 .. 6, {7}, 31 .. 63, 7 .. 63}}
    \cup {MCItem(MCOf("varint", 1, "static"), w) : w \in {{}, 7 .. 63}}
    \cup {MCItem(MCOf("uvarint", 8, "static"), w) : w \in {{15}, {63}, 0 .. 63}}
    \cup {MCItem(MCOf("svarint", 8, "static"), w) : w \in {{63}, 0 .. 63, 0 .. 62, {0, 33}}}
    \cup {MCItem(MCOf(l, 0, "static"), 7 .. 63) : l \in {"fixed32", "fixed64"}}
    \cup {MCItem(MCOf("string", 3, "static"), v) : v \in {<<>>, <<1, 0, 2>>, <<1, 2, 3>>}}
    \cup {MCItem(MCOf("bytes", 6, a), <<1, 0, 3>>) : a \in {"static", "pointer"}}
    \cup {MCItem(MCOf("packed", 0, "callback"), v) : v \in {<<>>, <<{0}, 0 .. 63>>}}
    \cup {MCItem(MCOf("submessage", 0, "static"), <<a, b>>) :
              a \in {<<>>, <<<<8>>, <<1, 2>>>>}, b \in {<<<<8>>, <<1, 2>>>>, <<<<8, 3>>, <<1, 2>>>>}}
MCPbReaders ==
    {MCOf(l, n, "static") : l \in {"varint", "uvarint", "svarint"}, n \in {1, 2, 4, 8}}
    \cup {MCOf(l, 8, "callback") : l \in {"svarint", "fixed64"}}
    \cup {MCOf(l, n, "static") : l \in {"string", "bytes"}, n \in {3, 6}}
    \cup {MCOf(l, 2, a) : l \in {"packed", "submessage"}, a \in {"callback"}}
    \cup {MCOf(l, 2, "static") : l \in {"fixed32", "fixed_length_bytes"}}

-----------------------------------------------------------------------------
(* PbLayout: members of every rule and allocation, between and in unions      *)

MCMember(tag, type, rules, alloc, size, align, count, union) ==
    [tag |-> tag, type |-> type, rules |-> rules, alloc |-> alloc,
     size |-> size, align |-> align, count |-> count, union |-> union]
MCMembers == <<
    MCMember(1, "BOOL", "REQUIRED", "STATIC", 1, 1, 1, ""),
    MCMember(2, "INT32", "OPTIONAL", "STATIC", 4, 4, 1, ""),
    MCMember(3, "FIXED64", "REPEATED", "STATIC", 8, 8, 3, ""),
    MCMember(4, "STRING", "ONEOF", "POINTER", 1, 1, 1, "u"),
    MCMember(5, "BYTES", "ONEOF", "STATIC", 11, 4, 1, "u"),
    MCMember(6, "MESSAGE", "REPEATED", "POINTER", 24, 8, 1, ""),
    MCMember(7, "SINT32", "FIXED_COUNT", "STATIC", 4, 4, 5, ""),
    MCMember(8, "STRING", "SINGULAR", "CALLBACK", 16, 8, 1, ""),
    MCMember(9, "EXTENSION", "OPTIONAL", "CALLBACK", 8, 8, 1, ""),
    MCMember(10, "INT64", "ONEOF", "STATIC", 8, 8, 1, "v")>>
MCStructs ==
    {<<>>, MCMembers, Reverse(MCMembers)}
    \cup {<<MCMembers[a], MCMembers[5], MCMembers[4], MCMembers[b]>> : a, b \in {1, 2, 3, 6, 8, 10}}

-----------------------------------------------------------------------------
(* Words32: texts shorter and longer than the sixteen bytes that are enough   *)
(* for the longer instructions.                                               *)

MCChunks == {<<255, 0, 128, 7, 64, 33>>, [i \in 1 .. 19 |-> (i * 37) % 256]}

-----------------------------------------------------------------------------
(* PosixFiles: reads within a file of two bytes, across its end and behind it *)

MCFileRanges == {<<0, 1>>, <<0, 2>>, <<1, 2>>, <<2, 1>>}

-----------------------------------------------------------------------------
(* DestroyedDB: names of ours, of others and of numbers too large             *)

MCListings ==
    {{<<"CURRENT">>, <<"MANIFEST-", "0", "2">>, <<"1", "0", ".log">>, <<"LOG">>, <<"LOG", ".log">>},
     {<<"1", "1", ".ldb">>, <<"1", "1", "1", ".sst">>, <<"2", "0", ".dbtmp">>, <<"LOG", ".old">>, <<"MANIFEST-">>},
     {<<"1", "1", "2", ".log">>, <<"1", "1", "1", ".log">>, <<"2", "1", ".old">>,
      <<"MANIFEST-", "2", "1", ".old">>, <<".log">>},
     {<<"CURRENT">>, <<"MANIFEST-", "1", "1", "1", "1">>, <<"MANIFEST-", "0", "0", "1", "2">>, <<"CURRENT", "1">>}}

-----------------------------------------------------------------------------
(* Reports: files of every type, records and entries whole and not; values    *)
(* at the limits of buckets; tables of level 0 that overlap.                   *)

MCDumpNames == {<<"d", "/", "1", "2", ".log">>, <<"1", ".sst">>, <<"/", "d", "/", "MANIFEST-", "0", "2">>, <<"CURRENT">>,
                <<"2", "/", ".log">>}
MCGap(n) == [kind |-> "gap", bytes |-> n]
MCDumpedEdit == [scalars |-> {"LogNumber", "LastSeq"}, pointers |-> <<<<1, "k">>>>, deleted |-> {<<1, 5>>, <<0, 7>>}, added |-> <<<<2, 8>>>>]
MCRecord(pos, size, ops, count, whole) ==
    [kind |-> "record", pos |-> pos, size |-> size, sequence |-> 5, ops |-> ops, count |-> count, whole |-> whole,
     edit |-> MCDumpedEdit]
MCLogPieces == {MCGap(7), MCRecord(1, 11, <<>>, 0, FALSE), MCRecord(2, 30, <<<<<<0>>, <<92>>>>, <<<<39>>>>>>, 2, TRUE),
               MCRecord(3, 20, <<<<<<1>>>>>>, 2, TRUE), MCRecord(4, 20, <<<<<<1>>>>>>, 1, FALSE)}
MCLogItems == UNION {[1 .. n -> MCLogPieces] : n \in 0 .. 2}
MCDumped(key, parsed, type) ==
    [kind |-> "entry", key |-> key, parsed |-> parsed, sequence |-> 3, type |-> type, value |-> <<65>>]
MCTableItems ==
    {<<>>, <<MCDumped(<<65>>, TRUE, "val"), MCDumped(<<0>>, FALSE, "del"), [kind |-> "error"]>>}
    \cup {<<MCDumped(k, TRUE, "del"), MCDumped(<<0>>, TRUE, "val"), MCDumped(l, TRUE, "val")>> :
              k \in {<<39>>, <<92, 120>>, <<200>>}, l \in {<<127, 126>>, <<92, 120, 48, 48>>, <<8, 0>>}}
MCPropertyNames ==
    {<<"leveldb.", "num-files-at-level">> \o d : d \in {<<>>, <<"0">>, <<"1">>, <<"3">>, <<"0", "2">>, <<"1", "x">>, <<"1", "2", "2">>}}
    \cup {<<"leveldb.", w>> : w \in {"stats", "sstables", "approximate-memory-usage", "other"}} \cup {<<>>, <<"stats">>}
MCStats ==
    [1 .. 3 -> {[micros |-> 0, bytes_read |-> 0, bytes_written |-> 0],
                [micros |-> 4, bytes_read |-> 9, bytes_written |-> 7]}]
MCBucketLimit == <<1, 2, 4, 7, 100>>
MCBlocksAt(keys) == [i \in DOMAIN keys |-> [last |-> keys[i], offset |-> (i - 1) * 10]]
MCSizedTable(keys, can_open) ==
    [smallest |-> keys[1], largest |-> keys[Len(keys)], size |-> 10 * Len(keys) + 5,
     blocks |-> MCBlocksAt(keys), metaindex |-> 10 * Len(keys), can_open |-> can_open]
MCSizedVersions ==
    {<<<<MCSizedTable(a, TRUE), MCSizedTable(b, o)>>, <<MCSizedTable(c, TRUE), MCSizedTable(<<4, 5, 6>>, p)>>, <<>>>> :
        a \in {<<2>>, <<4, 5>>}, b \in {<<1, 6>>, <<3>>}, c \in {<<1, 3>>, <<2, 4>>}, o, p \in BOOLEAN}
MCDatabases ==
    {[version |-> <<f, g, <<>>>>, stats |-> stats, usage |-> 3, mem |-> 2, imm |-> imm] :
        f \in {<<>>, <<MCSizedTable(<<2>>, TRUE), MCSizedTable(<<1, 6>>, TRUE)>>}, g \in {<<>>, <<MCSizedTable(<<3, 4>>, TRUE)>>},
        stats \in MCStats, imm \in {0, 4}}

-----------------------------------------------------------------------------
(* Encodings: an edit with every field, all values of a log number, batches  *)

MCEdits ==
    {[EmptyEdit EXCEPT !.scalars = kLogNumber :> n @@ kPrevLogNumber :> (127 - n)] : n \in 0 .. 127}
    \cup {[scalars |-> 1 :> <<1, 0, 3>> @@ 2 :> 100 @@ 9 :> 0 @@ 3 :> 64 @@ 4 :> 3,
           pointers |-> <<<<0, <<2>>>>, <<2, <<3, 1, 4, 1, 5>>>>>>,
           deleted |-> {<<0, 5>>, <<0, 90>>, <<2, 7>>},
           new_files |-> <<<<1, 33, 127, <<1, 1>>, <<2, 7>>>>, <<2, 4, 5, <<0>>, <<>>>>>>]}
MCOps == {<<<<1>>>>, <<<<>>>>, <<<<0>>, <<1, 0>>>>, <<<<2>>, <<3, 3, 3, 3, 3>>>>}
MCWriteBatches == {[sequence |-> 7, ops |-> ops] : ops \in UNION {[1 .. k -> MCOps] : k \in 0 .. 3}}

-----------------------------------------------------------------------------
(* Codecs: a key and its extension, up to a whole quantum of base64 and what  *)
(* the handshake encodes.                                                     *)

MCKeyTexts == {<<1>>, <<1, 0>>}
MCBase64Sources ==
    UNION {[1 .. n -> {0, 201, 255}] : n \in 0 .. 2}
    \cup {<<1, 2, 255>>, <<255, 0, 255, 37>>, [i \in 1 .. 16 |-> 255 - i], [i \in 1 .. 20 |-> i]}
MCStatusTexts == {<<>>, <<"m">>, <<"m", "n">>}

-----------------------------------------------------------------------------
(* Repair: tables and logs, whole or damaged, no manifest that can be used   *)

MCFile(k, e, st) == [kind |-> k, entries |-> e, state |-> st]
MCLog(e) == MCFile("log", e, "whole")
MCTable(e) == MCFile("table", e, "whole")
MCDamaged(e) == MCFile("table", e, "damaged")
MCDirectory(f, g, h) == [n \in {3, 4, 6} |-> CASE n = 3 -> f [] n = 4 -> g [] n = 6 -> h]
MCDirectories ==
    {MCDirectory(MCTable({1, 2}), MCLog({5}), MCLog({4})),
     MCDirectory(MCTable({1, 2}), MCDamaged({2, 3}), MCFile("log", {}, "damaged")),
     MCDirectory(MCTable({1, 2}), MCLog({4}), MCTable({5, 6})),
     MCDirectory(MCDamaged({1}), MCDamaged({2, 3}), MCFile("log", {}, "damaged")),
     MCDirectory(MCDamaged({}), MCDamaged({4}), MCTable({5}))}

-----------------------------------------------------------------------------
(* One part at a time.  What a part begins with is open for that part only.  *)

Parts == {"locks", "log", "mem", "cache", "iter", "table", "wire", "env", "current", "encodings", "repair",
          "streams", "layout", "words", "capi", "files", "keys", "base64", "statuses", "destroy",
          "dumps", "histograms", "sizes", "properties", "references"}

OpenFor(p, S) == IF part = p THEN S ELSE {CHOOSE x \in S : TRUE}

LayersInit ==
    /\ part \in Parts
    /\ LockInit /\ LogInit /\ MemInit /\ CacheInit /\ RefInit /\ TableInit /\ EnvInit /\ CurrentInit
    /\ IterInitFrom(OpenFor("iter", Sources))
    /\ PbInitFrom(OpenFor("wire", PbMessages))
    /\ EncodingInitFrom(OpenFor("encodings", Edits), IF part = "encodings" THEN WriteBatches ELSE {})
    /\ RepairInitFrom(OpenFor("repair", Directories))
    /\ StreamInitFrom(OpenFor("streams", PbRooms))
    /\ LayoutInitFrom(OpenFor("layout", PbStructs))
    /\ WordInitFrom(OpenFor("words", BOOLEAN), OpenFor("words", RandomSeeds))
    /\ CApiInit
    /\ FilesInit
    /\ CodecInit
    /\ DestroyInitFrom(OpenFor("destroy", Listings))
    /\ ReportInit

LayersNext ==
    /\ part' = part
    /\ IF part = "locks" THEN LockNext ELSE UNCHANGED lockVars
    /\ IF part = "log" THEN LogNext ELSE UNCHANGED logVars
    /\ IF part = "mem" THEN MemNext ELSE UNCHANGED memVars
    /\ IF part = "cache" THEN CacheNext ELSE UNCHANGED cacheVars
    /\ IF part = "references" THEN RefNext ELSE UNCHANGED refVars
    /\ IF part = "iter" THEN IterNextStep ELSE UNCHANGED iterVars
    /\ IF part = "table" THEN TableNext ELSE UNCHANGED tableVars
    /\ IF part = "wire" THEN PbNext ELSE UNCHANGED pbVars
    /\ IF part = "env" THEN EnvNext ELSE UNCHANGED envVars
    /\ IF part = "current" THEN CurrentNext ELSE UNCHANGED currentVars
    /\ IF part = "encodings" THEN EncodingNext ELSE UNCHANGED encodingVars
    /\ IF part = "repair" THEN RepairNext ELSE UNCHANGED repairVars
    /\ IF part = "streams" THEN StreamNext ELSE UNCHANGED streamVars
    /\ IF part = "layout" THEN LayoutNext ELSE UNCHANGED layoutVars
    /\ IF part = "words" THEN WordNext ELSE UNCHANGED wordVars
    /\ IF part = "capi" THEN CApiNext ELSE UNCHANGED capiVars
    /\ IF part = "files" THEN FilesNext ELSE UNCHANGED posixFileVars
    /\ CASE part = "keys" -> KeysNext [] part = "base64" -> Base64Next [] part = "statuses" -> StatusNext
         [] OTHER -> UNCHANGED codecVars
    /\ IF part = "destroy" THEN DestroyNext ELSE UNCHANGED destroyVars
    /\ CASE part = "dumps" -> DumpNext [] part = "histograms" -> HistogramNext [] part = "sizes" -> SizesNext
         [] part = "properties" -> PropertiesNext
         [] OTHER -> UNCHANGED reportVars

layersVars ==
    <<part, lockVars, logVars, memVars, cacheVars, iterVars, tableVars, pbVars, envVars, currentVars,
      encodingVars, repairVars, streamVars, layoutVars, wordVars, capiVars, posixFileVars, codecVars, destroyVars,
      reportVars, refVars>>

LayersSpec == LayersInit /\ [][LayersNext]_layersVars
=============================================================================
