----------------------------- MODULE Encodings ------------------------------
(***************************************************************************)
(* How version edits and write batches are written as bytes and read back: *)
(* varints, slices after their length, the fields of VersionEdit and the   *)
(* records of WriteBatch.  A byte holds GroupBits bits of a varint (7 in   *)
(* the code) and one that tells that more follow; Bits32 and Bits64 are    *)
(* the widths of the two integers.                                         *)
(***************************************************************************)
EXTENDS Integers, Sequences, FiniteSets, SequencesExt

CONSTANTS
    GroupBits, Bits32, Bits64,
    MaxLevel,       \* config::kNumLevels
    Edits,          \* version edits that are written
    WriteBatches    \* write batches: [sequence, ops], an op being a sequence of one or two slices

ASSUME EncodingsAssumption == GroupBits \in 1 .. 7 /\ Bits32 \in 1 .. 30 /\ Bits64 \in Bits32 .. 30

VARIABLES
    written_as,     \* what was written: [kind, edit, batch]
    input,          \* what is left of the bytes to read
    lost,           \* bytes that are missing at the end
    reading         \* [status, edit, inserted, count]

encodingVars == <<written_as, input, lost, reading>>

-----------------------------------------------------------------------------
(* Varints and slices                                                          *)

Group == 2 ^ GroupBits
Groups(bits) == (bits + GroupBits - 1) \div GroupBits

\* The groups of v, the lowest first; all but the last say that more follow.
PutVarint(v) ==
    LET n == CHOOSE k \in 1 .. 30 : v < Group ^ k /\ (k > 1 => v >= Group ^ (k - 1))
    IN [i \in 1 .. n |-> ((v \div Group ^ (i - 1)) % Group) + (IF i < n THEN Group ELSE 0)]
PutLengthPrefixedSlice(s) == PutVarint(Len(s)) \o s

Got(ok, value, rest) == [ok |-> ok, value |-> value, rest |-> rest]

ValueOfGroups(in, n, bits) ==
    FoldLeftDomain(LAMBDA v, i : v + (in[i] % Group) * Group ^ (i - 1), 0, SubSeq(in, 1, n)) % (2 ^ bits)
LastGroups(in, most) == {n \in 1 .. Len(in) : n <= most /\ in[n] < Group /\ \A i \in 1 .. n - 1 : in[i] >= Group}

\* Mutant: the loop ends one group early.
GetVarintShort(in, bits) ==
    IF LastGroups(in, Groups(bits) - 1) = {} THEN Got(FALSE, 0, in)
    ELSE LET n == CHOOSE k \in LastGroups(in, Groups(bits) - 1) : TRUE
         IN Got(TRUE, ValueOfGroups(in, n, bits), SubSeq(in, n + 1, Len(in)))

\* No more groups are read than the integer has; bits beyond its width are dropped.
GetVarint(in, bits) ==
    IF LastGroups(in, Groups(bits)) = {} THEN Got(FALSE, 0, in)
    ELSE LET n == CHOOSE k \in LastGroups(in, Groups(bits)) : TRUE
         IN Got(TRUE, ValueOfGroups(in, n, bits), SubSeq(in, n + 1, Len(in)))

SliceOf(size) ==
    IF size.ok /\ size.value <= Len(size.rest)
    THEN Got(TRUE, SubSeq(size.rest, 1, size.value), SubSeq(size.rest, size.value + 1, Len(size.rest)))
    ELSE Got(FALSE, <<>>, size.rest)
GetLengthPrefixedSlice(in) == SliceOf(GetVarint(in, Bits32))

LevelOf(n) == [n EXCEPT !.ok = n.ok /\ n.value < MaxLevel]
Get(type, in) ==
    CASE type = "slice" -> GetLengthPrefixedSlice(in)
      [] type = "level" -> LevelOf(GetVarint(in, Bits32))
      [] type = "number" -> GetVarint(in, Bits64)
Put(type, v) == IF type = "slice" THEN PutLengthPrefixedSlice(v) ELSE PutVarint(v)

\* The values of the given types, one after the other, up to one that cannot be read.
ThenGet(got, type) ==
    IF ~got.ok THEN got
    ELSE LET next == Get(type, got.rest)
         IN Got(next.ok, IF next.ok THEN Append(got.value, next.value) ELSE got.value, next.rest)
GetAll(types, in) == FoldLeft(ThenGet, Got(TRUE, <<>>, in), types)
PutAll(types, values) == FlattenSeq([i \in DOMAIN types |-> Put(types[i], values[i])])

-----------------------------------------------------------------------------
(* VersionEdit                                                                 *)

kComparator == 1
kLogNumber == 2
kNextFileNumber == 3
kLastSequence == 4
kCompactPointer == 5
kDeletedFile == 6
kNewFile == 7
kPrevLogNumber == 9

Tags == {1, 2, 3, 4, 5, 6, 7, 9}
TypesOf(tag) ==
    CASE tag = kComparator -> <<"slice">>
      [] tag = kCompactPointer -> <<"level", "slice">>
      [] tag = kDeletedFile -> <<"level", "number">>
      [] tag = kNewFile -> <<"level", "number", "number", "slice", "slice">>
      [] OTHER -> <<"number">>

\* An edit: the scalars it has, and its lists.
EmptyEdit == [scalars |-> <<>>, pointers |-> <<>>, deleted |-> {}, new_files |-> <<>>]
Store(e, field) ==
    CASE field.tag = kCompactPointer -> [e EXCEPT !.pointers = Append(@, field.values)]
      [] field.tag = kDeletedFile -> [e EXCEPT !.deleted = @ \cup {field.values}]
      [] field.tag = kNewFile -> [e EXCEPT !.new_files = Append(@, field.values)]
      [] OTHER -> [e EXCEPT !.scalars = [t \in DOMAIN @ \cup {field.tag} |->
                                            IF t = field.tag THEN field.values[1] ELSE @[t]]]

Field(tag, values) == [tag |-> tag, values |-> values]
Fields(e) ==
    LET order == SelectSeq(<<kComparator, kLogNumber, kPrevLogNumber, kNextFileNumber, kLastSequence>>,
                           LAMBDA t : t \in DOMAIN e.scalars)
        gone == SetToSortSeq(e.deleted, LAMBDA a, b : a[1] < b[1] \/ (a[1] = b[1] /\ a[2] < b[2]))
    IN [i \in DOMAIN order |-> Field(order[i], <<e.scalars[order[i]]>>)]
       \o [i \in DOMAIN e.pointers |-> Field(kCompactPointer, e.pointers[i])]
       \o [i \in DOMAIN gone |-> Field(kDeletedFile, gone[i])]
       \o [i \in DOMAIN e.new_files |-> Field(kNewFile, e.new_files[i])]
BytesOfField(f) == PutVarint(f.tag) \o PutAll(TypesOf(f.tag), f.values)
EncodeTo(fields) == FlattenSeq([i \in DOMAIN fields |-> BytesOfField(fields[i])])

-----------------------------------------------------------------------------
(* WriteBatch: the sequence number and the count, then a tag and slices each.   *)

kTypeDeletion == 0
kTypeValue == 1
Slices(tag) == IF tag = kTypeValue THEN <<"slice", "slice">> ELSE <<"slice">>
OpTag(op) == IF Len(op) = 2 THEN kTypeValue ELSE kTypeDeletion
BytesOfOp(op) == <<OpTag(op)>> \o PutAll(Slices(OpTag(op)), op)
Contents(ops) == <<Len(ops)>> \o FlattenSeq([i \in DOMAIN ops |-> BytesOfOp(ops[i])])

-----------------------------------------------------------------------------
(* Writing, and reading one field or record at a time                          *)

AllBytes == IF written_as.kind = "edit" THEN EncodeTo(Fields(written_as.edit)) ELSE Contents(written_as.batch.ops)

EncodingInitFrom(es, bs) ==
    /\ written_as \in {[kind |-> "edit", edit |-> e, batch |-> [sequence |-> 0, ops |-> <<>>]] : e \in es}
                      \cup {[kind |-> "batch", edit |-> EmptyEdit, batch |-> b] : b \in bs}
    /\ lost = 0 /\ input = <<>>
    /\ reading = [status |-> "written", edit |-> EmptyEdit, inserted |-> <<>>, count |-> 0]
EncodingInit == EncodingInitFrom(Edits, WriteBatches)

\* The header of a batch holds its count; one that is cut is too small.
BeginReading(n) ==
    /\ reading.status = "written" /\ lost' = n /\ UNCHANGED written_as
    /\ LET arrived == SubSeq(AllBytes, 1, Len(AllBytes) - n)
           header == IF written_as.kind = "batch" THEN 1 ELSE 0
       IN IF Len(arrived) < header
          THEN reading' = [reading EXCEPT !.status = "corruption"] /\ input' = arrived
          ELSE /\ reading' = [reading EXCEPT !.status = written_as.kind,
                                             !.count = IF header = 1 THEN arrived[1] ELSE 0]
               /\ input' = SubSeq(arrived, 1 + header, Len(arrived))

\* One turn of VersionEdit::DecodeFrom.
FieldRead(tag, got) ==
    /\ input' = got.rest
    /\ reading' = IF got.ok THEN [reading EXCEPT !.edit = Store(@, Field(tag, got.value))]
                  ELSE [reading EXCEPT !.status = "corruption"]
DecodeTagged(tag) ==
    IF ~tag.ok
    THEN reading' = [reading EXCEPT !.status = IF input = <<>> THEN "ok" ELSE "corruption"] /\ UNCHANGED input
    ELSE IF tag.value \in Tags THEN FieldRead(tag.value, GetAll(TypesOf(tag.value), tag.rest))
    ELSE reading' = [reading EXCEPT !.status = "corruption"] /\ UNCHANGED input
DecodeFrom ==
    /\ reading.status = "edit" /\ DecodeTagged(GetVarint(input, Bits32))
    /\ UNCHANGED <<written_as, lost>>

\* One turn of WriteBatch::Iterate: MemTableInserter numbers what it inserts.
OpRead(got) ==
    /\ input' = got.rest
    /\ reading' = IF got.ok
                  THEN [reading EXCEPT !.inserted = Append(@, [sequence |-> written_as.batch.sequence + Len(@),
                                                               op |-> got.value])]
                  ELSE [reading EXCEPT !.status = "corruption"]
EndOfBatch ==
    /\ reading' = [reading EXCEPT !.status = IF Len(reading.inserted) = reading.count THEN "ok" ELSE "corruption"]
    /\ UNCHANGED input
Iterate ==
    /\ reading.status = "batch"
    /\ IF input = <<>> THEN EndOfBatch
       ELSE IF Head(input) \in {kTypeDeletion, kTypeValue} THEN OpRead(GetAll(Slices(Head(input)), Tail(input)))
       ELSE reading' = [reading EXCEPT !.status = "corruption"] /\ UNCHANGED input
    /\ UNCHANGED <<written_as, lost>>

EncodingNext == (\E n \in 0 .. Len(AllBytes) : BeginReading(n)) \/ DecodeFrom \/ Iterate

EncodingSpec == EncodingInit /\ [][EncodingNext]_encodingVars

-----------------------------------------------------------------------------
(* Properties *)

WholePrefixes ==
    {k \in 0 .. Len(Fields(written_as.edit)) :
        Len(EncodeTo(SubSeq(Fields(written_as.edit), 1, k))) = Len(AllBytes) - lost}

\* What is written is read back.  Of an edit that was cut at the end, DecodeFrom takes
\* exactly the whole fields, and refuses it when it was cut within one; a batch that
\* was cut is always refused, though the records before are inserted by then, each in
\* its place and under its number (VersionEdit, WriteBatch::Iterate, coding.cc).
ReadsBackWhatWasWritten ==
    /\ reading.status = "ok" /\ written_as.kind = "edit" =>
          \E k \in WholePrefixes : reading.edit = FoldLeft(Store, EmptyEdit, SubSeq(Fields(written_as.edit), 1, k))
    /\ reading.status = "corruption" /\ written_as.kind = "edit" => WholePrefixes = {}
    /\ written_as.kind = "batch" =>
          /\ IsPrefix([i \in DOMAIN reading.inserted |-> reading.inserted[i].op], written_as.batch.ops)
          /\ reading.status = "ok" => lost = 0 /\ Len(reading.inserted) = Len(written_as.batch.ops)
          /\ reading.status = "corruption" => lost > 0
=============================================================================
