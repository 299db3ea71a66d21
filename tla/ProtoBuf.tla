------------------------------ MODULE ProtoBuf ------------------------------
(***************************************************************************)
(* nanopb as it is built here, with malloc: pb_encode writes a message by  *)
(* its field descriptors, pb_decode reads one field after the other, and   *)
(* pb_release gives back what was allocated.                               *)
(*                                                                         *)
(* A message maps each tag to the sequence of its values: at most one for  *)
(* a field that is not repeated, none when it is not set.  An entry of a   *)
(* descriptor is [tag, ltype, htype, atype, max, group, sub]: max is the   *)
(* size of a static array or string, group names the oneof, sub describes  *)
(* a submessage or lists the extensions.  The stream holds bytes.          *)
(***************************************************************************)
EXTENDS Integers, Sequences, FiniteSets, FiniteSetsExt, SequencesExt

CONSTANTS
    PbFields,        \* the descriptor
    PbMessages,      \* messages that are sent
    UnknownFields,   \* encoded fields the descriptor does not have
    MaxChanges       \* bound: changes to what was encoded

\* The members of a oneof share memory; only the message itself has one here.
ASSUME PbAssumption ==
    \A i \in DOMAIN PbFields : \A j \in DOMAIN PbFields[i].sub : PbFields[i].sub[j].htype # "oneof"

VARIABLES
    stream,     \* what is sent: encoded fields, and the bytes left out at the end
    changes,    \* number of changes made
    decoder     \* pb_decode: [status, in, dest, heap, left, seen, fixed]

pbVars == <<stream, changes, decoder>>

-----------------------------------------------------------------------------
(* Descriptors *)

Packable(f) == f.ltype \in {"uvarint", "fixed32"}
Repeated(f) == f.htype = "repeated"
IsPointer(f) == f.atype = "pointer"

\* Fields in the order of the iterator, extensions in the place of theirs.
Flat(fields) ==
    FlattenSeq([i \in DOMAIN fields |->
        IF fields[i].ltype = "extension" THEN fields[i].sub ELSE <<fields[i]>>])
FieldsOf(fields) == ToSet(Flat(fields))

\* pb_field_iter_find, else the extensions when the tag is in their range.
FindField(fields, tag) ==
    LET own == {f \in ToSet(fields) : f.tag = tag /\ f.ltype # "extension"}
        ranges == {f \in ToSet(fields) : f.ltype = "extension" /\ tag >= f.tag}
    IN IF own # {} THEN own
       ELSE UNION {{g \in ToSet(f.sub) : g.tag = tag} : f \in ranges}

Defaults(fields) == [t \in {f.tag : f \in FieldsOf(fields)} |-> <<>>]

-----------------------------------------------------------------------------
(* Encoding *)

RECURSIVE Varint(_)
Varint(v) == IF v < 128 THEN <<v>> ELSE <<128 + (v % 128)>> \o Varint(v \div 128)

WireType(f) == CASE f.ltype = "uvarint" -> 0 [] f.ltype = "fixed32" -> 5 [] OTHER -> 2
Tag(wireType, tag) == Varint(8 * tag + wireType)
Delimited(bytes) == Varint(Len(bytes)) \o bytes

\* In proto3 a field is sent when it is not zero.
IsDefault(f, v) == f.htype = "singular" /\ IF f.ltype = "string" THEN v = <<>> ELSE v = 0

RECURSIVE PbEncode(_, _)
EncodeValue(f, v) ==
    CASE f.ltype = "uvarint" -> Varint(v)
      [] f.ltype = "fixed32" -> <<v, 0, 0, 0>>
      [] f.ltype = "string" -> Delimited(v)
      [] f.ltype = "submessage" -> Delimited(FlattenSeq(PbEncode(f.sub, v)))

\* The encoded occurrences of a field: arrays of numbers are packed in one.
EncodeField(f, values) ==
    IF Repeated(f) /\ Packable(f)
    THEN IF values = <<>> THEN <<>>
         ELSE <<Tag(2, f.tag) \o Delimited(FlattenSeq([i \in DOMAIN values |-> EncodeValue(f, values[i])]))>>
    ELSE [i \in DOMAIN values |->
             IF IsDefault(f, values[i]) THEN <<>> ELSE Tag(WireType(f), f.tag) \o EncodeValue(f, values[i])]

PbEncode(fields, m) ==
    FlattenSeq([i \in DOMAIN Flat(fields) |-> EncodeField(Flat(fields)[i], m[Flat(fields)[i].tag])])

-----------------------------------------------------------------------------
(* Memory: the allocations a message holds, each a pointer in the structure.   *)

Sum(s) == FoldLeft(LAMBDA a, b : a + b, 0, s)

RECURSIVE Held(_, _)
HeldByValue(f, v) ==
    CASE f.ltype = "submessage" -> Held(f.sub, v)
      [] f.ltype = "string" /\ IsPointer(f) /\ Repeated(f) -> 1
      [] OTHER -> 0
HeldBy(f, values) ==
    IF values = <<>> THEN 0
    ELSE (IF IsPointer(f) THEN 1 ELSE 0) + Sum([i \in DOMAIN values |-> HeldByValue(f, values[i])])
Held(fields, m) == Sum([i \in DOMAIN Flat(fields) |-> HeldBy(Flat(fields)[i], m[Flat(fields)[i].tag])])

\* What a member of a oneof that is no pointer leaves in the memory of the union when
\* another takes its place: all but zeros, and the pointers it had, which are NULL then.
RECURSIVE LeavesBytes(_, _)
LeavesBytes(f, values) ==
    /\ ~IsPointer(f) /\ values # <<>>
    /\ CASE f.ltype = "submessage" -> \E g \in FieldsOf(f.sub) : LeavesBytes(g, values[1][g.tag])
         [] f.ltype = "string" -> values[1] # <<>>
         [] OTHER -> values[1] # 0

-----------------------------------------------------------------------------
(* Decoding.  A result is [ok, in, value, heap]: what is left of the stream,   *)
(* what was stored, even when it fails, and the number of live allocations.    *)

Result(ok, in, value, heap) == [ok |-> ok, in |-> in, value |-> value, heap |-> heap]

RECURSIVE ReadVarint(_)
ReadVarint(in) ==
    IF in = <<>> THEN Result(FALSE, in, 0, 0)
    ELSE IF Head(in) < 128 THEN Result(TRUE, Tail(in), Head(in), 0)
    ELSE LET r == ReadVarint(Tail(in)) IN [r EXCEPT !.value = 128 * @ + Head(in) - 128]

ReadBytes(in, n) ==
    IF Len(in) < n THEN Result(FALSE, in, <<>>, 0)
    ELSE Result(TRUE, SubSeq(in, n + 1, Len(in)), SubSeq(in, 1, n), 0)

\* A length, then the substream of that length.
SubstreamOf(size) == IF size.ok THEN ReadBytes(size.in, size.value) ELSE [size EXCEPT !.value = <<>>]
MakeSubstream(in) == SubstreamOf(ReadVarint(in))

RECURSIVE SkipVarint(_)
SkipVarint(in) ==
    IF in = <<>> THEN Result(FALSE, in, 0, 0)
    ELSE IF Head(in) < 128 THEN Result(TRUE, Tail(in), 0, 0) ELSE SkipVarint(Tail(in))
SkipField(wireType, in) ==
    CASE wireType = 0 -> SkipVarint(in)
      [] wireType = 1 -> ReadBytes(in, 8)
      [] wireType = 2 -> MakeSubstream(in)
      [] wireType = 5 -> ReadBytes(in, 4)
      [] OTHER -> Result(FALSE, in, 0, 0)

Start(in, dest, heap) ==
    [status |-> "decoding", in |-> in, dest |-> dest, heap |-> heap, left |-> {}, seen |-> {},
     fixed |-> [tag |-> 0, count |-> 0]]

RECURSIVE DecodeAll(_, _)

\* A submessage is decoded into what the field holds; an item of an array begins
\* anew, and one that fails there is given back.  A member of a oneof begins anew, too,
\* and when it holds one already nothing that one points to is given back.
Base(f, old) == IF Repeated(f) \/ f.htype = "oneof" \/ old = <<>> THEN Defaults(f.sub) ELSE Head(old)
SubmessageRead(f, sub, rest) ==
    IF sub.status = "ok" THEN Result(TRUE, rest, sub.dest, sub.heap)
    ELSE IF Repeated(f) THEN Result(FALSE, rest, Defaults(f.sub), sub.heap - Held(f.sub, sub.dest))
    ELSE Result(FALSE, rest, sub.dest, sub.heap)
ReadSubmessage(f, string, old, heap) ==
    IF string.ok THEN SubmessageRead(f, DecodeAll(f.sub, Start(string.value, Base(f, old), heap)), string.in)
    ELSE Result(FALSE, string.in, Base(f, old), heap)
ReadString(f, string, heap) ==
    Result(string.ok /\ (IsPointer(f) \/ Len(string.value) < f.max), string.in, string.value, heap)
ReadNumber(f, in) ==
    IF f.ltype = "uvarint" THEN ReadVarint(in)
    ELSE IF Len(in) < 4 THEN Result(FALSE, in, 0, 0) ELSE Result(TRUE, SubSeq(in, 5, Len(in)), in[1], 0)

\* One value into old, the values the field has so far.
DecodeValue(f, in, old, heap) ==
    CASE f.ltype = "string" -> ReadString(f, MakeSubstream(in), heap)
      [] f.ltype = "submessage" -> ReadSubmessage(f, MakeSubstream(in), old, heap)
      [] OTHER -> [ReadNumber(f, in) EXCEPT !.heap = heap]

\* A packed array; a static one must have room for all of it.
RECURSIVE DecodePacked(_, _, _)
AfterItem(f, r, values) ==
    IF r.ok THEN DecodePacked(f, r.in, Append(values, r.value)) ELSE Result(FALSE, r.in, values, 0)
DecodePacked(f, in, values) ==
    IF in = <<>> THEN Result(TRUE, in, values, 0)
    ELSE IF ~IsPointer(f) /\ Len(values) >= f.max THEN Result(FALSE, in, values, 0)
    ELSE AfterItem(f, ReadNumber(f, in), values)

\* The pointer of the field is allocated with its first value, and an item of a
\* repeated string has one of its own.
Allocated(f, old) ==
    (IF IsPointer(f) /\ old = <<>> THEN 1 ELSE 0)
    + (IF IsPointer(f) /\ Repeated(f) /\ f.ltype = "string" THEN 1 ELSE 0)

\* Results whose value is the new values of the field.
PackedRead(f, items, rest, old, heap) ==
    Result(items.ok, rest, items.value, heap + IF items.value = <<>> THEN 0 ELSE Allocated(f, old))
ReadPacked(f, packed, old, heap) ==
    IF packed.ok THEN PackedRead(f, DecodePacked(f, packed.value, old), packed.in, old, heap)
    ELSE Result(FALSE, packed.in, old, heap)
Placing(f, old, one) ==
    [one EXCEPT !.value = IF Repeated(f) THEN Append(old, @) ELSE IF IsDefault(f, @) THEN <<>> ELSE <<@>>]
DecodeField(f, wireType, in, old, heap) ==
    IF Repeated(f) /\ Packable(f) /\ wireType = 2
    THEN ReadPacked(f, MakeSubstream(in), old, heap)
    ELSE IF Repeated(f) /\ ~IsPointer(f) /\ Len(old) >= f.max THEN Result(FALSE, in, old, heap)
    ELSE Placing(f, old, DecodeValue(f, in, old, heap + Allocated(f, old)))

\* Mutant: another member of the oneof is overwritten without giving it back.
ForgetUnion(fields, f, d) ==
    LET others == {g \in FieldsOf(fields) : f.htype = "oneof" /\ g.group = f.group /\ g.tag # f.tag}
    IN [d EXCEPT !.dest = [t \in DOMAIN @ |-> IF \E g \in others : g.tag = t THEN <<>> ELSE @[t]]]

\* What a new value of the field first gives back: another member of its oneof (one
\* with the same tag is left as it is), or the submessage its pointer holds.
ReleaseUnion(fields, f, d) ==
    LET others == {g \in FieldsOf(fields) : f.htype = "oneof" /\ g.group = f.group /\ g.tag # f.tag}
    IN [d EXCEPT !.dest = [t \in DOMAIN @ |-> IF \E g \in others : g.tag = t THEN <<>> ELSE @[t]],
                 !.heap = @ - Sum([i \in DOMAIN Flat(fields) |->
                                      IF Flat(fields)[i] \in others
                                      THEN HeldBy(Flat(fields)[i], d.dest[Flat(fields)[i].tag]) ELSE 0])]
ReleaseSubmessage(f, d) ==
    IF IsPointer(f) /\ f.ltype = "submessage" /\ ~Repeated(f)
    THEN [d EXCEPT !.heap = @ - HeldBy(f, d.dest[f.tag]), !.dest[f.tag] = <<>>] ELSE d

\* An array without a count starts again when another one came between; the one
\* before must be whole.
FixedCount(f) == Repeated(f) /\ f.group = "fixed"
WholeArray(fields, d) ==
    \A f \in FieldsOf(fields) : d.fixed.tag = f.tag => d.fixed.count = f.max
BeginFixed(f, d) ==
    IF FixedCount(f) /\ d.fixed.tag # f.tag
    THEN [d EXCEPT !.fixed = [tag |-> f.tag, count |-> 0], !.dest[f.tag] = <<>>] ELSE d

Failing(d) == [d EXCEPT !.status = "error"]
Stored(f, d, r) ==
    [d EXCEPT !.status = IF r.ok THEN @ ELSE "error", !.in = r.in, !.heap = r.heap,
              !.dest[f.tag] = r.value, !.seen = @ \cup {f.tag},
              !.fixed.count = IF FixedCount(f) THEN Len(r.value) ELSE @]
\* Bytes stay in the union until a submessage is set to zero there.
Left(f, d) ==
    LET before == IF f.ltype = "submessage" THEN d.left \ {f.group} ELSE d.left
    IN IF f.htype # "oneof" \/ IsPointer(f) THEN d
       ELSE [d EXCEPT !.left = before \cup IF LeavesBytes(f, d.dest[f.tag]) THEN {f.group} ELSE {}]
Into(f, wireType, d) == Left(f, Stored(f, d, DecodeField(f, wireType, d.in, d.dest[f.tag], d.heap)))

\* A member that is a pointer takes bytes left in the union for its own allocation,
\* and what pb_realloc or pb_free makes of them is not defined.
TakesBytesForPointer(f, d) == f.htype = "oneof" /\ IsPointer(f) /\ f.group \in d.left
IntoField(fields, f, wireType, d) ==
    IF FixedCount(f) /\ d.fixed.tag # f.tag /\ ~WholeArray(fields, d) THEN Failing(d)
    ELSE IF TakesBytesForPointer(f, d) THEN [d EXCEPT !.status = "undefined"]
    ELSE Into(f, wireType, ReleaseSubmessage(f, ReleaseUnion(fields, f, BeginFixed(f, d))))

\* Mutant: a missing required field is not noticed.
EndDecodeLax(fields, d) ==
    IF WholeArray(fields, d) THEN [d EXCEPT !.status = "ok"] ELSE Failing(d)

\* The end of the stream, or a zero tag.
EndDecode(fields, d) ==
    IF WholeArray(fields, d) /\ \A f \in FieldsOf(fields) : f.htype = "required" => f.tag \in d.seen
    THEN [d EXCEPT !.status = "ok"] ELSE Failing(d)

\* One turn of pb_decode_noinit.
SkippedField(d, skipped) == IF skipped.ok THEN [d EXCEPT !.in = skipped.in] ELSE Failing(d)
ForTag(fields, d, tag, wireType, found) ==
    IF found = {} THEN SkippedField(d, SkipField(wireType, d.in))
    ELSE IntoField(fields, CHOOSE f \in found : TRUE, wireType, d)
ForKey(fields, d, key) ==
    IF key.ok /\ key.value # 0
    THEN ForTag(fields, [d EXCEPT !.in = key.in], key.value \div 8, key.value % 8,
                FindField(fields, key.value \div 8))
    ELSE IF key.ok THEN EndDecode(fields, [d EXCEPT !.in = key.in]) ELSE Failing(d)
DecodeStep(fields, d) == IF d.in = <<>> THEN EndDecode(fields, d) ELSE ForKey(fields, d, ReadVarint(d.in))

DecodeAll(fields, d) == IF d.status # "decoding" THEN d ELSE DecodeAll(fields, DecodeStep(fields, d))

-----------------------------------------------------------------------------
(* A sender and a receiver                                                     *)

Idle == [Start(<<>>, Defaults(PbFields), 0) EXCEPT !.status = "idle"]

\* What PbEncode writes, one occurrence of a field after the other.
OccurrencesOf(f, values) ==
    LET encoded == EncodeField(f, values)
        packed == Repeated(f) /\ Packable(f)
    IN [i \in DOMAIN encoded |->
           [tag |-> f.tag, values |-> IF packed THEN values ELSE <<values[i]>>, bytes |-> encoded[i]]]
Occurrences(m) ==
    FlattenSeq([i \in DOMAIN Flat(PbFields) |->
        SelectSeq(OccurrencesOf(Flat(PbFields)[i], m[Flat(PbFields)[i].tag]), LAMBDA o : o.bytes # <<>>)])

BytesOf(fields) == FlattenSeq([i \in DOMAIN fields |-> fields[i].bytes])
Received(s) == SubSeq(BytesOf(s.fields), 1, Len(BytesOf(s.fields)) - s.cut)

PbInitFrom(S) == /\ \E m \in S : stream = [fields |-> Occurrences(m), cut |-> 0]
                 /\ changes = 0 /\ decoder = Idle
PbInit == PbInitFrom(PbMessages)

\* Senders may order the fields otherwise, send some twice or of their own.
Change == decoder.status = "idle" /\ stream.cut = 0 /\ changes < MaxChanges /\ changes' = changes + 1
SwapFields(i) ==
    /\ Change /\ UNCHANGED decoder
    /\ stream' = [stream EXCEPT !.fields[i] = stream.fields[i + 1], !.fields[i + 1] = stream.fields[i]]
SendMore(m) ==
    /\ Change /\ UNCHANGED decoder
    /\ stream' = [stream EXCEPT !.fields = @ \o Occurrences(m)]
SendUnknown(u, i) ==
    /\ Change /\ UNCHANGED decoder
    /\ stream' = [stream EXCEPT !.fields = InsertAt(@, i, [tag |-> 0, values |-> <<>>, bytes |-> u])]
\* The end of the stream is lost.
Cut(n) ==
    /\ Change /\ UNCHANGED decoder
    /\ stream' = [stream EXCEPT !.cut = n]

PbDecode ==
    /\ decoder.status = "idle"
    /\ decoder' = Start(Received(stream), Defaults(PbFields), 0)
    /\ UNCHANGED <<stream, changes>>
PbDecodeField ==
    /\ decoder.status = "decoding"
    /\ decoder' = DecodeStep(PbFields, decoder)
    /\ UNCHANGED <<stream, changes>>
\* pb_decode gives back the message it failed to read, the receiver any other.
PbRelease ==
    /\ decoder.status \in {"ok", "error"}
    /\ decoder' = [decoder EXCEPT !.status = "released", !.dest = Defaults(PbFields),
                                  !.heap = @ - Held(PbFields, decoder.dest)]
    /\ UNCHANGED <<stream, changes>>

PbNext ==
    \/ \E i \in 1 .. Len(stream.fields) - 1 : SwapFields(i)
    \/ \E m \in PbMessages : SendMore(m)
    \/ \E u \in UnknownFields, i \in 1 .. Len(stream.fields) + 1 : SendUnknown(u, i)
    \/ \E n \in 1 .. Len(BytesOf(stream.fields)) : Cut(n)
    \/ PbDecode \/ PbDecodeField \/ PbRelease

PbSpec == PbInit /\ [][PbNext]_pbVars

-----------------------------------------------------------------------------
(* Properties *)

\* What the fields sent say, field by field: repeated ones add up, a member of a
\* oneof replaces the others, a submessage in place is merged.
RECURSIVE Merged(_, _, _)
MergedValue(f, old, v) ==
    IF f.ltype = "submessage" /\ ~IsPointer(f) /\ f.htype # "oneof" /\ old # <<>>
    THEN Merged(f.sub, Head(old), v) ELSE v
Merged(fields, m, n) ==
    [t \in DOMAIN m |->
        LET f == CHOOSE g \in FieldsOf(fields) : g.tag = t
        IN IF Repeated(f) THEN m[t] \o n[t]
           ELSE IF n[t] = <<>> THEN m[t] ELSE <<MergedValue(f, m[t], n[t][1])>>]

Said(m, o) ==
    LET f == CHOOSE g \in FieldsOf(PbFields) : g.tag = o.tag
    IN IF o.tag = 0 THEN m
       ELSE [t \in DOMAIN m |->
                IF t = o.tag THEN IF Repeated(f) THEN m[t] \o o.values ELSE <<MergedValue(f, m[t], o.values[1])>>
                ELSE IF f.htype = "oneof" /\ \E g \in FieldsOf(PbFields) : g.tag = t /\ g.group = f.group
                THEN <<>> ELSE m[t]]
AllSaid(fields) == FoldLeft(Said, Defaults(PbFields), fields)
CompleteMessage(m) ==
    \A f \in FieldsOf(PbFields) :
        /\ f.htype = "required" => m[f.tag] # <<>>
        /\ Repeated(f) /\ ~IsPointer(f) => Len(m[f.tag]) <= f.max
        /\ FixedCount(f) => Len(m[f.tag]) \in {0, f.max}

\* How many fields arrived whole: none when the stream ends within one, and those
\* before a zero byte, which ends a message.
SizeOf(k) == Len(BytesOf(SubSeq(stream.fields, 1, k)))
Ends == {k \in DOMAIN stream.fields : stream.fields[k].bytes = <<0>> /\ SizeOf(k) <= Len(Received(stream))}
WholeFields ==
    IF Ends # {} THEN {Min(Ends) - 1}
    ELSE {k \in 0 .. Len(stream.fields) : SizeOf(k) = Len(Received(stream))}

\* What makes a oneof go wrong.  A submessage in place that holds allocations is sent
\* and then again, with no other member between; or a pointer is sent after a member in
\* place that leaves bytes.
FieldAt(k) == CHOOSE f \in FieldsOf(PbFields) : f.tag = stream.fields[k].tag
SentAt == {k \in DOMAIN stream.fields : stream.fields[k].tag # 0}
InUnion(k) == FieldAt(k).htype = "oneof"
SentTwiceInPlace ==
    \E i, j \in {k \in SentAt : InUnion(k)} :
        /\ i < j /\ FieldAt(i) = FieldAt(j)
        /\ ~IsPointer(FieldAt(i)) /\ HeldBy(FieldAt(i), stream.fields[i].values) > 0
        /\ ~\E k \in SentAt : /\ i < k /\ k < j
                            /\ InUnion(k) /\ FieldAt(k).group = FieldAt(i).group /\ FieldAt(k) # FieldAt(i)
PointerSentOverBytes ==
    \E i, j \in {k \in SentAt : InUnion(k)} :
        /\ i < j /\ FieldAt(i).group = FieldAt(j).group
        /\ LeavesBytes(FieldAt(i), stream.fields[i].values) /\ IsPointer(FieldAt(j))

\* The allocations that the message points to: none any more after pb_release.
Reachable == IF decoder.status \in {"idle", "released"} THEN 0 ELSE Held(PbFields, decoder.dest)

\* A message is read exactly when whole fields arrived that make a complete one, and
\* it then holds what they say, in whatever order and with whatever unknown fields
\* they came; whatever arrives, nothing is given back that is still pointed to, what is
\* allocated is pointed to, and all of it is given back at the end (pb_encode, pb_decode,
\* pb_release).  Two cases of a oneof are excepted, and no more: those in which
\* pb_decode.c loses an allocation (line 466) or takes bytes for a pointer (line 484).
PbReadsWhatWasSent ==
    LET said == {AllSaid(SubSeq(stream.fields, 1, k)) : k \in WholeFields}
    IN /\ decoder.heap >= Reachable
       /\ SentTwiceInPlace \/ decoder.heap = Reachable
       /\ decoder.status = "undefined" => PointerSentOverBytes
       /\ decoder.status = "ok" => decoder.dest \in {m \in said : CompleteMessage(m)}
       /\ decoder.status = "error" => \A m \in said : ~CompleteMessage(m)
=============================================================================
