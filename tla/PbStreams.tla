------------------------------ MODULE PbStreams ------------------------------
(***************************************************************************)
(* nanopb's streams and the values of single fields at their full width:   *)
(* an output stream into a buffer that may be too small, the pseudo-stream *)
(* that only counts, and the reading of what was written by a field that   *)
(* may be declared otherwise.                                              *)
(*                                                                         *)
(* An integer is the set of its bits that are one, of the 64 of a          *)
(* pb_uint64_t; a string is its bytes; the value of a submessage is what   *)
(* its callback writes when it is asked the first and the second time.     *)
(***************************************************************************)
EXTENDS Integers, Sequences, FiniteSets, FiniteSetsExt, SequencesExt

CONSTANTS
    PbItems,      \* what is written: [field, value]; a field is [ltype, size, atype]
    PbReaders,    \* fields as a reader declares them
    PbRooms,      \* sizes of output buffers
    MaxStreamItems      \* bound: items in a stream

VARIABLES
    ostream,    \* [items, out, max, counted, status]
    istream     \* [in, got, status]

streamVars == <<ostream, istream>>

-----------------------------------------------------------------------------
(* Words *)

AllBits == 0 .. 63
Low(w, n) == {b \in w : b < n}
SignExtended(w, n) == IF n - 1 \in w THEN Low(w, n) \cup n .. 63 ELSE Low(w, n)
ShiftedLeft(w, n) == {b + n : b \in Low(w, 64 - n)}
ShiftedRight(w, n) == {b - n : b \in {c \in w : c >= n}}

Byte(w, from, n) == MapThenSumSet(LAMBDA b : 2 ^ (b - from), w \cap from .. from + n - 1)
BitsIn(byte) == {b \in 0 .. 7 : (byte \div 2 ^ b) % 2 = 1}

IntegerTypes == {"varint", "uvarint", "svarint"}
FixedWidth(f) == IF f.ltype = "fixed32" THEN 4 ELSE 8
IsNumber(f) == f.ltype \in IntegerTypes \cup {"fixed32", "fixed64"}

\* The value in a variable of the size of the field.
StoredIn(f, w) ==
    CASE f.ltype = "uvarint" -> Low(w, 8 * f.size)
      [] f.ltype \in {"varint", "svarint"} -> SignExtended(w, 8 * f.size)
      [] f.ltype \in {"fixed32", "fixed64"} -> Low(w, 8 * FixedWidth(f))
      [] OTHER -> w

-----------------------------------------------------------------------------
(* Output streams *)

ToBuffer(room) == [items |-> <<>>, out |-> <<>>, max |-> room, counted |-> 0, status |-> "ok"]
Refused(s) == [s EXCEPT !.status = "error"]

\* pb_write: all of it or nothing.
WriteTo(s, bytes) ==
    IF s.status # "ok" THEN s
    ELSE IF Len(s.out) + Len(bytes) > s.max THEN Refused(s) ELSE [s EXCEPT !.out = @ \o bytes]
WriteAll(s, pieces) == FoldLeft(WriteTo, s, pieces)

\* PB_OSTREAM_SIZING: what the pieces come to.
Counted(pieces) == Len(FlattenSeq(pieces))

WideVarint(w) ==
    LET last == IF w = {} THEN 0 ELSE Max(w) \div 7
    IN [i \in 1 .. last + 1 |-> Byte(w, 7 * (i - 1), 7) + IF i <= last THEN 128 ELSE 0]
LengthVarint(n) == WideVarint({b \in 0 .. 20 : (n \div 2 ^ b) % 2 = 1})

\* Signed numbers alternate: 0, -1, 1, -2, ...
ZigZag(w) == IF 63 \in w THEN AllBits \ ShiftedLeft(w, 1) ELSE ShiftedLeft(w, 1)
FixedBytes(w, n) == [i \in 1 .. n |-> Byte(w, 8 * (i - 1), 8)]

\* A static string ends with its array at the latest, any other with its zero.
CString(f, bytes) ==
    LET zeros == {i \in DOMAIN bytes : bytes[i] = 0}
        length == IF zeros = {} THEN Len(bytes) ELSE Min(zeros) - 1
    IN SubSeq(bytes, 1, IF f.atype = "pointer" THEN length ELSE Min({length, f.size}))
LengthAndBytes(bytes) == <<LengthVarint(Len(bytes)), bytes>>

\* A bytes field is its size and its bytes: four more than the bytes.
BytesHeader == 4
TooManyBytes(f, bytes) == f.ltype = "bytes" /\ f.atype = "static" /\ Len(bytes) + BytesHeader > f.size

\* The field encoders, by the pieces they write.
Pieces(f, v) ==
    CASE f.ltype \in {"varint", "uvarint"} -> <<WideVarint(StoredIn(f, v))>>
      [] f.ltype = "svarint" -> <<WideVarint(ZigZag(StoredIn(f, v)))>>
      [] f.ltype = "fixed32" -> <<FixedBytes(v, 4)>>
      [] f.ltype = "fixed64" -> <<FixedBytes(v, 8)>>
      [] f.ltype = "string" -> LengthAndBytes(CString(f, v))
      [] f.ltype \in {"bytes", "fixed_length_bytes"} -> LengthAndBytes(v)
      [] f.ltype = "submessage" -> <<LengthVarint(Counted(v[1]))>> \o v[1]
      [] f.ltype = "packed" -> LengthAndBytes(FlattenSeq([i \in DOMAIN v |-> WideVarint(v[i])]))

\* Mutant: what a callback writes the second time is not measured again.
EncodeTrusting(s, first, second) ==
    LET size == Counted(first)
        begun == WriteTo(s, LengthVarint(size))
    IN IF begun.status # "ok" \/ Len(begun.out) + size > begun.max THEN Refused(begun)
       ELSE WriteAll(begun, second)

\* pb_encode_submessage: sized first, then written into a stream of that size.
EncodeSubmessage(s, first, second) ==
    LET size == Counted(first)
        begun == WriteTo(s, LengthVarint(size))
        substream == WriteAll(ToBuffer(size), second)
        joined == [begun EXCEPT !.out = @ \o substream.out]
    IN IF begun.status # "ok" \/ Len(begun.out) + size > begun.max THEN Refused(begun)
       ELSE IF Len(substream.out) # size \/ substream.status # "ok" THEN Refused(joined)
       ELSE joined

Encoded(s, f, v) ==
    IF TooManyBytes(f, v) THEN Refused(s)
    ELSE IF f.ltype = "submessage" THEN EncodeSubmessage(s, v[1], v[2])
    ELSE WriteAll(s, Pieces(f, v))

TheEnd == [field |-> [ltype |-> "end", size |-> 0, atype |-> "static"], value |-> <<>>]
Ended(s) == s.items # <<>> /\ Last(s.items) = TheEnd

WriteItem(item) ==
    /\ ostream.status = "ok" /\ istream.status = "none" /\ Len(ostream.items) < MaxStreamItems /\ ~Ended(ostream)
    /\ ostream' = [Encoded(ostream, item.field, item.value) EXCEPT
                      !.items = Append(@, item),
                      !.counted = @ + Counted(Pieces(item.field, item.value))]
    /\ UNCHANGED istream

\* pb_encode_nullterminated
WriteZero ==
    /\ ostream.status = "ok" /\ istream.status = "none" /\ ~Ended(ostream)
    /\ ostream' = [WriteTo(ostream, <<0>>) EXCEPT !.items = Append(@, TheEnd), !.counted = @ + 1]
    /\ UNCHANGED istream

-----------------------------------------------------------------------------
(* Input streams.  A read gives [ok, in, value].                              *)

After(in, n) == SubSeq(in, n + 1, Len(in))
Read(in, value) == [ok |-> TRUE, in |-> in, value |-> value]
Unread(in) == [ok |-> FALSE, in |-> in, value |-> <<>>]
ReadCount(in, n) == IF Len(in) < n THEN Unread(in) ELSE Read(After(in, n), SubSeq(in, 1, n))

Stops(in) == {i \in DOMAIN in : in[i] < 128}
GroupsIn(in, n) == UNION {ShiftedLeft(BitsIn(in[i] % 128), 7 * (i - 1)) : i \in 1 .. n}

\* pb_decode_varint: ten bytes at most.
DecodeVarint(in) ==
    IF Stops(in) = {} \/ Min(Stops(in)) > 10 THEN Unread(in)
    ELSE Read(After(in, Min(Stops(in))), GroupsIn(in, Min(Stops(in))))

\* pb_decode_varint32: beyond 32 bits only zeros, or the sign of a negative number.
BeyondIsSign(in, n, low) ==
    \A i \in 6 .. n :
        in[i] % 128 = 0 \/ (31 \in low /\ in[i] = IF 7 * (i - 1) < 63 THEN 255 ELSE 1)
DecodeVarint32(in) ==
    LET n == Min(Stops(in))
        low == Low(GroupsIn(in, Min({n, 5})), 32)
    IN IF Stops(in) = {} \/ (n = 5 /\ in[5] >= 16) \/ ~BeyondIsSign(in, n, low) THEN Unread(in)
       ELSE Read(After(in, n), low)

NumberOf(w) == MapThenSumSet(LAMBDA b : 2 ^ b, w)
SubstreamBySize(size) ==
    IF ~size.ok \/ (size.value # {} /\ Max(size.value) > 20) THEN Unread(size.in)
    ELSE ReadCount(size.in, NumberOf(size.value))
DelimitedString(in) == SubstreamBySize(DecodeVarint32(in))

\* Mutant: an odd number is not turned back into a negative one.
HalfZigZag(w) == ShiftedRight(w, 1)

UnZigZag(w) == IF 0 \in w THEN AllBits \ ShiftedRight(w, 1) ELSE ShiftedRight(w, 1)
FixedOf(bytes) == UNION {ShiftedLeft(BitsIn(bytes[i]), 8 * (i - 1)) : i \in DOMAIN bytes}

\* What is left of a value in the variable of the field must be the value.
Clamped(r, value, clamped) ==
    IF ~r.ok \/ clamped # value THEN Unread(r.in) ELSE [r EXCEPT !.value = clamped]
DecodeSigned(f, r) ==
    LET value == IF f.size = 8 THEN r.value ELSE SignExtended(r.value, 32)
    IN Clamped(r, value, SignExtended(value, 8 * f.size))
DecodeUnsigned(f, r) == Clamped(r, r.value, Low(r.value, 8 * f.size))
DecodeZigZag(f, r) == Clamped(r, UnZigZag(r.value), SignExtended(UnZigZag(r.value), 8 * f.size))
DecodeFixed(f, r) == IF r.ok THEN [r EXCEPT !.value = FixedOf(@)] ELSE r

IfItFits(r, fits) == IF r.ok /\ fits THEN r ELSE Unread(r.in)
HasRoom(f, needed) == f.atype = "pointer" \/ needed <= f.size
DecodeBytes(f, r) == IfItFits(r, HasRoom(f, Len(r.value) + BytesHeader))
DecodeString(f, r) == IfItFits(r, HasRoom(f, Len(r.value) + 1))
\* No bytes stand for all of them zero.
DecodeFixedLength(f, r) ==
    IF r.ok /\ r.value = <<>> THEN [r EXCEPT !.value = [i \in 1 .. f.size |-> 0]]
    ELSE IfItFits(r, Len(r.value) = f.size)

DecodeNumber(f, in) ==
    CASE f.ltype = "varint" -> DecodeSigned(f, DecodeVarint(in))
      [] f.ltype = "uvarint" -> DecodeUnsigned(f, DecodeVarint(in))
      [] f.ltype = "svarint" -> DecodeZigZag(f, DecodeVarint(in))
      [] OTHER -> DecodeFixed(f, ReadCount(in, FixedWidth(f)))

\* A callback gets a number in a stream of its own, of ten bytes at most.
RawValue(f, in) ==
    IF f.ltype \notin IntegerTypes THEN ReadCount(in, FixedWidth(f))
    ELSE IF Stops(in) = {} \/ Min(Stops(in)) > 10 THEN Unread(in)
    ELSE ReadCount(in, Min(Stops(in)))
ByCallback(f, raw) == IF raw.ok THEN [DecodeNumber(f, raw.value) EXCEPT !.in = raw.in] ELSE raw

\* A callback is asked until its substream is empty, and at least once.
Element == [ltype |-> "uvarint", size |-> 8, atype |-> "callback"]
OneMore(r) ==
    LET n == DecodeNumber(Element, r.in)
    IN [ok |-> n.ok, in |-> n.in, value |-> Append(r.value, n.value)]
CallbackLoop(string) ==
    LET all == FoldLeft(LAMBDA r, i : IF r.ok /\ (i = 1 \/ r.in # <<>>) THEN OneMore(r) ELSE r,
                        Read(string.value, <<>>), [i \in 1 .. Len(string.value) + 1 |-> i])
    IN IF string.ok /\ all.ok THEN Read(string.in, all.value) ELSE Unread(string.in)

DecodeItem(f, in) ==
    CASE f.atype = "callback" /\ IsNumber(f) -> ByCallback([f EXCEPT !.atype = "static"], RawValue(f, in))
      [] f.atype # "callback" /\ IsNumber(f) -> DecodeNumber(f, in)
      [] f.ltype = "bytes" -> DecodeBytes(f, DelimitedString(in))
      [] f.ltype = "string" -> DecodeString(f, DelimitedString(in))
      [] f.ltype = "fixed_length_bytes" -> DecodeFixedLength(f, DelimitedString(in))
      [] f.ltype = "submessage" -> DelimitedString(in)
      [] f.ltype = "packed" -> CallbackLoop(DelimitedString(in))

\* pb_istream_from_buffer
OpenInput ==
    /\ ostream.status = "ok" /\ istream.status = "none"
    /\ istream' = [in |-> ostream.out, got |-> <<>>, status |-> "ok"]
    /\ UNCHANGED ostream

Strings == {"bytes", "string", "fixed_length_bytes"}
CanRead(f, written) == f.ltype = written.ltype \/ {f.ltype, written.ltype} \subseteq Strings

ReadItem(f) ==
    LET r == DecodeItem(f, istream.in)
        next == Len(istream.got) + 1
    IN /\ istream.status = "ok" /\ next <= Len(ostream.items)
       /\ CanRead(f, ostream.items[next].field)
       /\ istream' = [in |-> r.in, got |-> Append(istream.got, [field |-> f, ok |-> r.ok, value |-> r.value]),
                      status |-> IF r.ok THEN "ok" ELSE "error"]
       /\ UNCHANGED ostream

StreamInitFrom(rooms) ==
    /\ \E room \in rooms : ostream = ToBuffer(room)
    /\ istream = [in |-> <<>>, got |-> <<>>, status |-> "none"]
StreamInit == StreamInitFrom(PbRooms)

StreamNext ==
    \/ \E item \in PbItems : WriteItem(item)
    \/ WriteZero \/ OpenInput
    \/ \E f \in PbReaders : ReadItem(f)

StreamSpec == StreamInit /\ [][StreamNext]_streamVars

-----------------------------------------------------------------------------
(* Properties *)

\* What a field of the reader can hold of what was written.
Fits(f, v) ==
    CASE f.ltype \in IntegerTypes -> StoredIn(f, v) = v
      [] f.ltype = "bytes" -> HasRoom(f, Len(v) + BytesHeader)
      [] f.ltype = "string" -> HasRoom(f, Len(v) + 1)
      [] f.ltype = "fixed_length_bytes" -> Len(v) = f.size
      [] f.ltype = "packed" -> v # <<>>
      [] OTHER -> TRUE
Written(item) ==
    CASE item.field.ltype = "string" -> CString(item.field, item.value)
      [] item.field.ltype = "submessage" -> FlattenSeq(item.value[2])
      [] OTHER -> StoredIn(item.field, item.value)
\* Only its 32 low bits count for an int32 field, or one that is smaller.
CutTo32(f, v) == IF f.ltype = "varint" /\ f.size < 8 THEN SignExtended(v, 32) ELSE v
Zeros(f, v) == f.ltype = "fixed_length_bytes" /\ v = <<>>

Steady(item) == item.field.ltype # "submessage" \/ Counted(item.value[1]) = Counted(item.value[2])
Encodable(item) == Steady(item) /\ ~TooManyBytes(item.field, item.value)

\* A stream never holds more than its buffer, counts what it writes, and refuses
\* only what does not fit or does not stay as it was measured.  Each item is then
\* read as it was, and refused by exactly those fields that cannot hold it
\* (pb_write, pb_encode_submessage, the field encoders and decoders).
StreamsReadBack ==
    /\ Len(ostream.out) <= ostream.max
    /\ (ostream.status = "ok") <=>
           ostream.counted <= ostream.max /\ \A i \in DOMAIN ostream.items : Encodable(ostream.items[i])
    /\ ostream.status = "ok" => Len(ostream.out) = ostream.counted
    /\ \A i \in DOMAIN istream.got :
           LET g == istream.got[i]
               v == CutTo32(g.field, Written(ostream.items[i]))
           IN /\ g.ok <=> Fits(g.field, v) \/ Zeros(g.field, v)
              /\ g.ok /\ ~Zeros(g.field, v) => g.value = v
=============================================================================
