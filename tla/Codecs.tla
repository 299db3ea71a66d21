------------------------------- MODULE Codecs -------------------------------
(***************************************************************************)
(* More of what is stored as bytes: internal keys and the key of a lookup  *)
(* in a memtable, the base64 of the web socket's handshake, and the text   *)
(* that a Status owns.  A byte of a fixed integer has FixedBase values     *)
(* (256 in the code), a tag TagBytes of them (8).  Checksums, by which      *)
(* damage is found, are those of Words32.                                  *)
(***************************************************************************)
EXTENDS Encodings, Words32

CONSTANTS
    FixedBase, TagBytes,
    SpaceBytes,      \* the room of a LookupKey that allocates nothing
    KeyTexts,        \* user keys
    MaxStored,       \* bound: entries of the memtable
    Base64Sources,   \* what is encoded
    StatusNames,     \* variables of type Status
    StatusTexts,     \* messages of a status
    MaxErrors        \* bound: errors made

VARIABLES
    stored,      \* entries of a memtable: [user_key, sequence, type, bytes]
    sought,      \* a lookup: [user_key, sequence, status, value]
    text,        \* base64: [source, chars, status, decoded]
    statuses,    \* [name -> cell, 0 for OK]
    cells        \* [cell -> what state_ points to]

codecVars == <<stored, sought, text, statuses, cells>>

-----------------------------------------------------------------------------
(* Integers of a fixed size, the lowest byte first; internal keys              *)

EncodeFixedInt(v, n) == [i \in 1 .. n |-> (v \div FixedBase ^ (i - 1)) % FixedBase]
DecodeFixedInt(bytes) == FoldLeftDomain(LAMBDA v, i : v + bytes[i] * FixedBase ^ (i - 1), 0, bytes)

kMaxSequenceNumber == FixedBase ^ (TagBytes - 1) - 1
kValueTypeForSeek == kTypeValue
PackSequenceAndType(sequence, type) == sequence * FixedBase + type
AppendInternalKey(user_key, sequence, type) ==
    user_key \o EncodeFixedInt(PackSequenceAndType(sequence, type), TagBytes)

UserPart(key) == SubSeq(key, 1, Len(key) - TagBytes)
TagIn(key) == DecodeFixedInt(SubSeq(key, Len(key) - TagBytes + 1, Len(key)))
ParseInternalKey(key) ==
    [ok |-> TagIn(key) % FixedBase <= kTypeValue, user_key |-> UserPart(key),
     sequence |-> TagIn(key) \div FixedBase, type |-> TagIn(key) % FixedBase]

\* Slice::compare: memcmp of what both have, then the lengths.
Shorter(a, b) == IF Len(a) < Len(b) THEN Len(a) ELSE Len(b)
Differences(a, b) == {i \in 1 .. Shorter(a, b) : a[i] # b[i]}
SliceLess(a, b) ==
    IF Differences(a, b) = {} THEN Len(a) < Len(b)
    ELSE LET i == CHOOSE d \in Differences(a, b) : \A e \in Differences(a, b) : d <= e IN a[i] < b[i]
\* The user key ascends, the tag descends.
KeyBefore(a, b) ==
    \/ SliceLess(UserPart(a), UserPart(b))
    \/ UserPart(a) = UserPart(b) /\ TagIn(a) > TagIn(b)

-----------------------------------------------------------------------------
(* MemTable::Add and Get: an entry is an internal key and a value, each after  *)
(* its length; a lookup is an internal key after its length.                   *)

\* Writes are numbered in their order.
AddStored(user_key, type) ==
    LET sequence == Cardinality(stored) + 1
        key == AppendInternalKey(user_key, sequence, type)
    IN /\ sequence <= MaxStored
       /\ stored' = stored \cup {[user_key |-> user_key, sequence |-> sequence, type |-> type,
                                  bytes |-> PutLengthPrefixedSlice(key) \o PutLengthPrefixedSlice(<<sequence>>)]}
       /\ sought' = [sought EXCEPT !.status = "none"]
       /\ UNCHANGED <<text, statuses, cells>>

Needed(user_key) == Len(user_key) + TagBytes + Groups(Bits32)
\* Mutant: a lookup takes the type of a deletion, the lowest.
LookupKeyOfDeletion(user_key, sequence) ==
    LET length == PutVarint(Len(user_key) + TagBytes)
        chars == length \o AppendInternalKey(user_key, sequence, kTypeDeletion)
    IN [chars |-> chars, kstart |-> Len(length), allocated |-> Needed(user_key) > SpaceBytes]
LookupKey(user_key, sequence) ==
    LET length == PutVarint(Len(user_key) + TagBytes)
        chars == length \o AppendInternalKey(user_key, sequence, kValueTypeForSeek)
    IN [chars |-> chars, kstart |-> Len(length), allocated |-> Needed(user_key) > SpaceBytes]
SoughtUserKey(lookup) == SubSeq(lookup.chars, lookup.kstart + 1, Len(lookup.chars) - TagBytes)

\* The first entry that is not before the key that is looked for.
StoredEntry(bytes) ==
    LET key == GetLengthPrefixedSlice(bytes)
    IN [key |-> key.value, value |-> GetLengthPrefixedSlice(key.rest).value]
SeekStored(key) ==
    LET after == {e \in {StoredEntry(s.bytes) : s \in stored} : ~KeyBefore(e.key, key)}
    IN {e \in after : \A f \in after : ~KeyBefore(f.key, e.key)}

GetStored(user_key, sequence) ==
    LET lookup == LookupKey(user_key, sequence)
        seek == {e \in SeekStored(GetLengthPrefixedSlice(lookup.chars).value) : UserPart(e.key) = SoughtUserKey(lookup)}
        found(status, value) == [user_key |-> user_key, sequence |-> sequence, status |-> status, value |-> value]
    IN /\ IF seek = {} THEN sought' = found("absent", <<>>)
          ELSE \E e \in seek :
                  \/ TagIn(e.key) % FixedBase = kTypeValue /\ sought' = found("value", e.value)
                  \/ TagIn(e.key) % FixedBase = kTypeDeletion /\ sought' = found("deleted", <<>>)
       /\ UNCHANGED <<stored, text, statuses, cells>>

-----------------------------------------------------------------------------
(* Base64: the digits are their numbers, then what is not a digit.             *)

Pad64 == 64
Space == 65
NoDigit == 66

BufferSize(length) == (length * 3 + 2) \div 2
\* Three bytes give four digits; one gives two and two pads, two give three and one.
Quantum(octets) ==
    LET byte(i) == IF i <= Len(octets) THEN octets[i] ELSE 0
        bits == byte(1) * 65536 + byte(2) * 256 + byte(3)
    IN [i \in 1 .. 4 |-> IF i <= Len(octets) + 1 THEN (bits \div 64 ^ (4 - i)) % 64 ELSE Pad64]
Quanta(source) ==
    FlattenSeq([q \in 1 .. (Len(source) + 2) \div 3 |->
                   Quantum(SubSeq(source, 3 * q - 2, IF 3 * q < Len(source) THEN 3 * q ELSE Len(source)))])

Used(t) == text' = t /\ UNCHANGED <<stored, sought, statuses, cells>>
\* The zero at the end needs room too.
f_b64_ntop(source, targsize) ==
    /\ text.status = "none"
    /\ IF Len(Quanta(source)) < targsize
       THEN Used([source |-> source, chars |-> Quanta(source), status |-> "encoded", decoded |-> <<>>])
       ELSE Used([source |-> source, chars |-> <<>>, status |-> "no room", decoded |-> <<targsize>>])

\* What arrives is not what was sent.
Disturb(i, chars) ==
    /\ text.status = "encoded" /\ i \in 0 .. Len(text.chars)
    /\ \E after \in {i, i + 1} :
          Used([text EXCEPT !.status = "disturbed",
                            !.chars = SubSeq(@, 1, i) \o chars \o SubSeq(@, after + 1, Len(@))])

\* The k-th digit of four ends a byte and begins the next.
TakeDigit(t, d) ==
    LET more == [i \in DOMAIN t.target |->
                    IF i = Len(t.target) /\ t.state # 0 THEN t.target[i] + d \div 4 ^ (3 - t.state) ELSE t.target[i]]
        next == IF t.state = 3 THEN <<>> ELSE <<(d % 4 ^ (3 - t.state)) * 4 ^ (t.state + 1)>>
    IN [t EXCEPT !.target = more \o next, !.state = (t.state + 1) % 4,
                 !.ok = Len(more \o next) <= t.targsize]
TakeChar(t, ch) ==
    IF ~t.ok \/ ch = Space THEN t
    ELSE IF ch = NoDigit THEN [t EXCEPT !.ok = FALSE]
    ELSE TakeDigit(t, ch)

\* After a pad: the second one, if the digits call for it, and spaces, and no bits
\* that would be lost.
PadsEnd(t, rest) ==
    LET solid == SelectSeq(rest, LAMBDA ch : ch # Space)
    IN /\ t.state \in {2, 3} /\ Last(t.target) = 0
       /\ solid = IF t.state = 2 THEN <<Pad64>> ELSE <<>>

f_b64_pton(targsize) ==
    /\ text.status \in {"encoded", "disturbed"}
    /\ LET pads == {i \in DOMAIN text.chars : text.chars[i] = Pad64}
           digits == IF pads = {} THEN Len(text.chars) ELSE (CHOOSE i \in pads : \A j \in pads : i <= j) - 1
           t == FoldLeft(TakeChar, [state |-> 0, target |-> <<>>, targsize |-> targsize, ok |-> TRUE],
                         SubSeq(text.chars, 1, digits))
           good == t.ok /\ IF pads = {} THEN t.state = 0
                           ELSE PadsEnd(t, SubSeq(text.chars, digits + 2, Len(text.chars)))
       IN IF good THEN Used([text EXCEPT !.status = "decoded",
                                         !.decoded = IF t.state = 0 THEN t.target ELSE Front(t.target)])
          ELSE Used([text EXCEPT !.status = "refused", !.decoded = <<targsize>>])

-----------------------------------------------------------------------------
(* Status: nothing for OK, else memory of its own with the length of the       *)
(* message, the code and the message.                                          *)

Codes == 1 .. 5   \* kNotFound .. kIOError
Unset == -1
Separator == <<":", " ">>
NewCell == CHOOSE c \in 1 .. Cardinality(StatusNames) + 1 : c \notin DOMAIN cells
\* What memory holds, whoever gave it back.
StateAt(c) == IF c \in DOMAIN cells THEN cells[c] ELSE [length |-> 0, code |-> 0, bytes |-> <<"freed">>]

StatusState(code, msg, msg2) ==
    LET size == Len(msg) + (IF msg2 = <<>> THEN 0 ELSE 2 + Len(msg2))
    IN [length |-> size, code |-> code, bytes |-> msg \o (IF msg2 = <<>> THEN <<>> ELSE Separator \o msg2)]

StatusStep(cs, ss) == cells' = cs /\ statuses' = ss /\ UNCHANGED <<stored, sought, text>>
CellsWithout(cs, c) == [d \in DOMAIN cs \ {c} |-> cs[d]]
\* A variable that holds nothing yet is given an error, or another's.
StatusError(s, code, msg, msg2) ==
    /\ statuses[s] = Unset /\ Cardinality(DOMAIN cells) < MaxErrors
    /\ StatusStep(cells @@ (NewCell :> StatusState(code, msg, msg2)), [statuses EXCEPT ![s] = NewCell])
StatusOk(s) == statuses[s] = Unset /\ StatusStep(cells, [statuses EXCEPT ![s] = 0])
CopyState(cs, c) ==
    LET new == CHOOSE d \in 1 .. Cardinality(StatusNames) + 1 : d \notin DOMAIN cs
        from == IF c \in DOMAIN cs THEN cs[c] ELSE StateAt(0)
    IN [cells |-> cs @@ (new :> [from EXCEPT !.bytes = SubSeq(@, 1, from.length)]), cell |-> new]
CopyStatus(s, from) ==
    /\ statuses[s] = Unset /\ statuses[from] # Unset
    /\ IF statuses[from] = 0 THEN StatusStep(cells, [statuses EXCEPT ![s] = 0])
       ELSE LET copy == CopyState(cells, statuses[from])
            IN StatusStep(copy.cells, [statuses EXCEPT ![s] = copy.cell])
\* Assignment gives back what it had, unless it is given itself.
AssignStatus(s, from) ==
    /\ statuses[s] # Unset /\ statuses[from] # Unset
    /\ IF statuses[s] = statuses[from] THEN StatusStep(cells, statuses)
       ELSE LET freed == CellsWithout(cells, statuses[s])
                copy == CopyState(freed, statuses[from])
            IN IF statuses[from] = 0 THEN StatusStep(freed, [statuses EXCEPT ![s] = 0])
               ELSE StatusStep(copy.cells, [statuses EXCEPT ![s] = copy.cell])
DestroyStatus(s) ==
    /\ statuses[s] # Unset
    /\ StatusStep(CellsWithout(cells, statuses[s]), [statuses EXCEPT ![s] = Unset])
StatusToString(s) == <<StateAt(statuses[s]).code>> \o SubSeq(StateAt(statuses[s]).bytes, 1, StateAt(statuses[s]).length)

-----------------------------------------------------------------------------

CodecInitFrom(names) ==
    /\ stored = {} /\ sought = [user_key |-> <<>>, sequence |-> 0, status |-> "none", value |-> <<>>]
    /\ text = [source |-> <<>>, chars |-> <<>>, status |-> "none", decoded |-> <<>>]
    /\ statuses = [s \in names |-> Unset] /\ cells = <<>>
CodecInit == CodecInitFrom(StatusNames)

KeysNext ==
    \E k \in KeyTexts :
       \/ \E type \in {kTypeDeletion, kTypeValue} : AddStored(k, type)
       \/ \E s \in 0 .. MaxStored : GetStored(k, s)
Base64Next ==
    \/ \E source \in Base64Sources :
          \E size \in {BufferSize(Len(source)), 4 * ((Len(source) + 2) \div 3), 64} : f_b64_ntop(source, size)
    \/ \E i \in 0 .. Len(text.chars), chars \in {<<>>, <<Pad64>>, <<Space>>, <<NoDigit>>, <<1>>} : Disturb(i, chars)
    \/ \E room \in {0, 1} : f_b64_pton(Len(text.source) + room)
StatusNext ==
    \E s \in StatusNames :
       \/ \E code \in Codes, msg, msg2 \in StatusTexts : StatusError(s, code, msg, msg2)
       \/ StatusOk(s) \/ DestroyStatus(s)
       \/ \E from \in StatusNames : CopyStatus(s, from) \/ AssignStatus(s, from)
CodecNext == KeysNext \/ Base64Next \/ StatusNext

CodecSpec == CodecInit /\ [][CodecNext]_codecVars

-----------------------------------------------------------------------------
(* Properties *)

\* A lookup at a sequence number finds the newest entry of its key that is not newer,
\* within the memory that its key was given; internal keys are read back.
Visible == {e \in stored : e.user_key = sought.user_key /\ e.sequence <= sought.sequence}
LookupsFindTheNewest ==
    /\ \A e \in stored : ParseInternalKey(StoredEntry(e.bytes).key) =
          [ok |-> TRUE, user_key |-> e.user_key, sequence |-> e.sequence, type |-> e.type]
    /\ sought.status # "none" =>
          /\ Len(LookupKey(sought.user_key, sought.sequence).chars) <= Needed(sought.user_key)
          /\ sought.status = "absent" <=> Visible = {}
          /\ Visible # {} =>
                LET newest == CHOOSE e \in Visible : \A f \in Visible : f.sequence <= e.sequence
                IN IF newest.type = kTypeValue THEN sought.status = "value" /\ sought.value = <<newest.sequence>>
                   ELSE sought.status = "deleted"

\* The buffers of the handshake are large enough for its key and its digest; what is
\* decoded is what was encoded, and only its own encoding, but for spaces, is accepted.
Base64IsCanonical ==
    /\ text.status = "no room" =>
          Len(text.source) \notin {16, 20} \/ text.decoded[1] < BufferSize(Len(text.source))
    /\ text.status = "decoded" => Quanta(text.decoded) = SelectSeq(text.chars, LAMBDA ch : ch # Space)
    /\ text.status = "refused" /\ text.decoded[1] > Len(text.source) =>
          SelectSeq(text.chars, LAMBDA ch : ch # Space) # Quanta(text.source)

\* Every error has memory of its own, which no other status shares and nobody keeps,
\* with its code and whole messages.
StatusesOwnTheirText ==
    LET errors == {s \in DOMAIN statuses : statuses[s] > 0}
    IN /\ DOMAIN cells = {statuses[s] : s \in errors}
       /\ \A s, t \in errors : statuses[s] = statuses[t] => s = t
       /\ \A s \in errors : \E code \in Codes, msg, msg2 \in StatusTexts :
             StatusToString(s) = <<code>> \o msg \o (IF msg2 = <<>> THEN <<>> ELSE Separator \o msg2)

\* What is stored as bytes is read back, and the checksums kept beside it are exact: the
\* same however a text is cut and wherever it lies, and unmasked to what was masked
\* (Encodings; dbformat.cc, MemTable::Get, fbase64.c, Status; crc32c::Extend, Mask,
\* Unmask).
FormatsReadBack ==
    /\ ReadsBackWhatWasWritten /\ LookupsFindTheNewest /\ Base64IsCanonical /\ StatusesOwnTheirText
    /\ WordsAreExact
=============================================================================
