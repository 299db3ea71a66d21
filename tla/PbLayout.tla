------------------------------ MODULE PbLayout ------------------------------
(***************************************************************************)
(* Where nanopb finds a field: its macros put the distance from the end of *)
(* the field before into the descriptor, and pb_field_iter_t adds them up  *)
(* while it walks.                                                         *)
(*                                                                         *)
(* A member of a struct is [tag, type, rules, alloc, size, align, count,   *)
(* union]: size and align are those of one item, count the length of an    *)
(* array, union the oneof it is in.  Addresses count from the struct.      *)
(***************************************************************************)
EXTENDS PbStreams

CONSTANTS
    PbStructs,      \* structs: sequences of members
    MaxMoves        \* bound: calls on an iterator

VARIABLES
    struct,     \* [members, offsets, fields]: what is declared, laid out and described
    pos_iter    \* pb_field_iter_t: [pos, pData, pSize, required, answer, moves]

layoutVars == <<struct, pos_iter>>

-----------------------------------------------------------------------------
(* The compiler's layout, as the generator declares a message.               *)

PointerSize == 8
SizeWidth == 4

IsArray(m) == m.alloc = "STATIC" /\ m.rules \in {"REPEATED", "FIXED_COUNT"}
pb_membersize(m) == CASE m.alloc = "POINTER" -> PointerSize [] IsArray(m) -> m.size * m.count [] OTHER -> m.size
AlignOf(m) == IF m.alloc = "POINTER" THEN PointerSize ELSE m.align

HasFlag(m)  == m.alloc = "STATIC" /\ m.rules = "OPTIONAL"
HasCount(m) == m.alloc # "CALLBACK" /\ m.rules = "REPEATED"
HasWhich(m) == m.rules = "ONEOF"

Larger(a, b) == IF a > b THEN a ELSE b
AlignedUp(n, align) == ((n + align - 1) \div align) * align
UnionAlign(ms, m) ==
    FoldLeft(LAMBDA a, o : IF m.union # "" /\ o.union = m.union THEN Larger(a, AlignOf(o)) ELSE a, AlignOf(m), ms)
InUnionOf(ms, i) == i > 1 /\ ms[i].union # "" /\ ms[i - 1].union = ms[i].union

\* Offsets of the members and of what says whether or how often they are there.
Place(ms, at, i) ==
    LET m == ms[i]
        sizeAt == IF HasFlag(m) THEN at.end ELSE AlignedUp(at.end, SizeWidth)
        after == CASE HasFlag(m) -> sizeAt + 1 [] HasCount(m) \/ HasWhich(m) -> sizeAt + SizeWidth [] OTHER -> at.end
        data == AlignedUp(after, UnionAlign(ms, m))
    IN IF InUnionOf(ms, i)
       THEN [end |-> Larger(at.end, Last(at.data) + pb_membersize(m)),
             data |-> Append(at.data, Last(at.data)), size |-> Append(at.size, Last(at.size))]
       ELSE [end |-> data + pb_membersize(m), data |-> Append(at.data, data),
             size |-> Append(at.size, IF after = at.end THEN data ELSE sizeAt)]
Layout(ms) == FoldLeft(LAMBDA at, i : Place(ms, at, i), [end |-> 0, data |-> <<>>, size |-> <<>>], [i \in DOMAIN ms |-> i])

-----------------------------------------------------------------------------
(* The descriptor                                                            *)

PB_SIZE_MAX == -1

LType(type) ==
    CASE type \in {"BOOL", "ENUM", "INT32", "INT64"} -> "VARINT"
      [] type \in {"UENUM", "UINT32", "UINT64"} -> "UVARINT"
      [] type \in {"SINT32", "SINT64"} -> "SVARINT"
      [] type \in {"FIXED32", "SFIXED32", "FLOAT"} -> "FIXED32"
      [] type \in {"FIXED64", "SFIXED64", "DOUBLE"} -> "FIXED64"
      [] type = "MESSAGE" -> "SUBMESSAGE"
      [] OTHER -> type

pb_delta(at, i) == at.size[i] - at.data[i]

\* PB_DATAOFFSET_FIRST, _UNION and _OTHER
DataOffset(ms, at, i) ==
    CASE InUnionOf(ms, i) -> PB_SIZE_MAX
      [] i = 1 -> at.data[1]
      [] OTHER -> at.data[i] - at.data[i - 1] - pb_membersize(ms[i - 1])

HType(rules) ==
    CASE rules = "SINGULAR" -> "OPTIONAL" [] rules = "FIXED_COUNT" -> "REPEATED" [] OTHER -> rules
SizeOffset(m, at, i) == IF HasFlag(m) \/ HasCount(m) \/ HasWhich(m) THEN pb_delta(at, i) ELSE 0

\* PB_FIELD, PB_REPEATED_FIXED_COUNT, PB_ONEOF_FIELD
PbField(ms, at, i) ==
    [tag |-> ms[i].tag, ltype |-> LType(ms[i].type), htype |-> HType(ms[i].rules), atype |-> ms[i].alloc,
     data_offset |-> DataOffset(ms, at, i), size_offset |-> SizeOffset(ms[i], at, i),
     data_size |-> IF ms[i].alloc = "CALLBACK" THEN pb_membersize(ms[i]) ELSE ms[i].size,
     array_size |-> IF IsArray(ms[i]) THEN ms[i].count ELSE 0]
PB_LAST_FIELD ==
    [tag |-> 0, ltype |-> "VARINT", htype |-> "REQUIRED", atype |-> "STATIC",
     data_offset |-> 0, size_offset |-> 0, data_size |-> 0, array_size |-> 0]
Descriptor(ms, at) == Append([i \in DOMAIN ms |-> PbField(ms, at, i)], PB_LAST_FIELD)

-----------------------------------------------------------------------------
(* The iterator                                                              *)

\* pb_field_iter_begin
IterBegin(fields) ==
    [pos |-> 1, pData |-> fields[1].data_offset, pSize |-> fields[1].data_offset + fields[1].size_offset,
     required |-> 0, answer |-> fields[1].tag # 0, moves |-> 0]

\* Mutant: an array counts as one of its entries.
SizeOfOne(f) == IF f.atype = "POINTER" THEN PointerSize ELSE f.data_size

SizeInStruct(f) ==
    CASE f.atype = "STATIC" /\ f.htype = "REPEATED" -> f.data_size * f.array_size
      [] f.atype = "POINTER" -> PointerSize
      [] OTHER -> f.data_size

\* pb_field_iter_next: from the last field back to the first.
Moved(fields, it) ==
    LET prev == fields[it.pos]
        next == fields[it.pos + 1]
        pData == it.pData + SizeInStruct(prev) + next.data_offset
    IN CASE prev.tag = 0 -> [it EXCEPT !.answer = FALSE]
         [] prev.tag # 0 /\ next.tag = 0 -> [IterBegin(fields) EXCEPT !.answer = FALSE, !.moves = it.moves]
         [] prev.tag # 0 /\ next.tag # 0 /\ prev.htype = "ONEOF" /\ next.htype = "ONEOF" /\ next.data_offset = PB_SIZE_MAX ->
                [it EXCEPT !.pos = @ + 1, !.answer = TRUE]
         [] OTHER -> [it EXCEPT !.pos = @ + 1, !.pData = pData, !.pSize = pData + next.size_offset, !.answer = TRUE,
                                !.required = @ + IF prev.htype = "REQUIRED" THEN 1 ELSE 0]

Matches(f, tag) == f.tag = tag /\ f.ltype # "EXTENSION"
\* pb_field_iter_find: from where it is, once around.
Found(fields, it, tag) ==
    LET around == FoldLeft(LAMBDA i, n : IF Matches(fields[i.pos], tag) THEN i ELSE Moved(fields, i),
                           it, [n \in 1 .. Len(fields) - 1 |-> n])
    IN [around EXCEPT !.answer = Matches(fields[around.pos], tag)]

IterCall(it) == pos_iter.moves < MaxMoves /\ pos_iter' = [it EXCEPT !.moves = @ + 1] /\ UNCHANGED struct
IterMove == IterCall(Moved(struct.fields, pos_iter))
IterFind(tag) == IterCall(Found(struct.fields, pos_iter, tag))

LayoutInitFrom(S) ==
    /\ struct \in {[members |-> ms, offsets |-> Layout(ms), fields |-> Descriptor(ms, Layout(ms))] : ms \in S}
    /\ pos_iter = IterBegin(struct.fields)
LayoutInit == LayoutInitFrom(PbStructs)
TagsOf == {m.tag : m \in UNION {ToSet(ms) : ms \in PbStructs}}
LayoutNext == IterMove \/ \E tag \in TagsOf : IterFind(tag)

LayoutSpec == LayoutInit /\ [][LayoutNext]_layoutVars

-----------------------------------------------------------------------------
(* Properties *)

\* Wherever the iterator stands after any calls, its pointers are those of the
\* member that the compiler laid out there and of its flag, count or selector, and
\* the index among the required fields is that of the member
\* (PB_FIELD, pb_field_iter_next, pb_field_iter_find).
FieldsAreFound ==
    struct.members # <<>> =>
        LET p == pos_iter.pos
            Required == {i \in 1 .. p - 1 : struct.members[i].rules = "REQUIRED"}
        IN /\ p \in DOMAIN struct.members
           /\ pos_iter.pData = struct.offsets.data[p]
           /\ pos_iter.pSize = struct.offsets.size[p]
           /\ pos_iter.required = Cardinality(Required)

\* What a stream carries is read as it was written, and lies where its descriptor
\* says (pb_encode.c, pb_decode.c, pb_field_iter_next).
PbFieldsAreExact == StreamsReadBack /\ FieldsAreFound
=============================================================================
