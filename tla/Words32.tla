------------------------------- MODULE Words32 -------------------------------
(***************************************************************************)
(* LevelDB's arithmetic on 32-bit words: crc32c, which guards every record *)
(* of a log and every block of a table, computed four bytes at a time or   *)
(* by the processor, its masking, and the generator of random numbers.     *)
(*                                                                         *)
(* A word of crc32c is the set of its bits that are one; a byte is its     *)
(* number.                                                                 *)
(***************************************************************************)
EXTENDS Integers, Sequences, FiniteSets, FiniteSetsExt, SequencesExt

CONSTANTS
    Chunks,         \* byte strings by which a checksum is extended
    MaxCrcBytes,    \* bound: bytes under one checksum
    RandomSeeds,    \* seeds given to a generator
    MaxDraws        \* bound: numbers drawn

VARIABLES
    crc,       \* [accelerated, value, bytes]
    random     \* [seed, drawn, before]

wordVars == <<crc, random>>

-----------------------------------------------------------------------------
(* Words *)

WordBits == 0 .. 31
Xor(a, b) == (a \ b) \cup (b \ a)
Shr(w, n) == {b - n : b \in {c \in w : c >= n}}
RotatedRight(w, n) == {(b + (32 - n)) % 32 : b \in w}
ByteBits(byte) == {b \in 0 .. 7 : (byte \div 2 ^ b) % 2 = 1}
LowByte(w) == MapThenSumSet(LAMBDA b : 2 ^ b, {b \in w : b < 8})

\* A carry comes into a bit from a lower one that both have, over bits one has.
Carries(a, b) ==
    {i \in WordBits : \E j \in a \cap b : j < i /\ j + 1 .. i - 1 \subseteq a \cup b}
Plus(a, b) == Xor(Xor(a, b), Carries(a, b))
Minus(a, b) == Plus(Plus(a, WordBits \ b), {0})

-----------------------------------------------------------------------------
(* The tables: what a byte leaves, with none to three zero bytes after it.    *)

Polynomial == {3, 4, 5, 6, 8, 9, 11, 12, 13, 17, 18, 20, 21, 22, 23, 25, 31}
BitStep(w) == IF 0 \in w THEN Xor(Shr(w, 1), Polynomial) ELSE Shr(w, 1)

table0 == [byte \in 0 .. 255 |-> FoldLeft(LAMBDA w, i : BitStep(w), ByteBits(byte), <<1, 2, 3, 4, 5, 6, 7, 8>>)]
ZeroByteAfter(table) == [byte \in 0 .. 255 |-> Xor(Shr(table[byte], 8), table0[LowByte(table[byte])])]
table1 == ZeroByteAfter(table0)
table2 == ZeroByteAfter(table1)
table3 == ZeroByteAfter(table2)

STEP1(l, byte) == Xor(table0[LowByte(Xor(l, ByteBits(byte)))], Shr(l, 8))

\* Mutant: the tables of the four bytes the other way round.
STEP4Swapped(l, four) ==
    LET c(i) == LowByte(Xor(Shr(l, 8 * i), ByteBits(four[i + 1])))
    IN Xor(Xor(table0[c(0)], table1[c(1)]), Xor(table2[c(2)], table3[c(3)]))

STEP4(l, four) ==
    LET c(i) == LowByte(Xor(Shr(l, 8 * i), ByteBits(four[i + 1])))
    IN Xor(Xor(table3[c(0)], table2[c(1)]), Xor(table1[c(2)], table0[c(3)]))

ByBytes(l, bytes) == FoldLeft(STEP1, l, bytes)
ByFours(l, bytes) ==
    FoldLeft(LAMBDA w, i : STEP4(w, SubSeq(bytes, 4 * i - 3, 4 * i)), l, [i \in 1 .. Len(bytes) \div 4 |-> i])

\* Extend: single bytes up to an aligned one, then four at a time, then the rest.
ExtendPortably(value, bytes, address) ==
    LET n == Len(bytes)
        lead == (4 - (address % 4)) % 4
        single == IF lead <= n THEN lead ELSE 0
        fours == single + 4 * ((n - single) \div 4)
        l == ByFours(ByBytes(WordBits \ value, SubSeq(bytes, 1, single)), SubSeq(bytes, single + 1, fours))
    IN WordBits \ ByBytes(l, SubSeq(bytes, fours + 1, n))

-----------------------------------------------------------------------------
(* The processor's instruction takes one, four or eight bytes.                *)

ReadBit(l, bit) == IF (0 \in l) # bit THEN Xor(Shr(l, 1), Polynomial) ELSE Shr(l, 1)
Instruction(l, bytes) ==
    LET ReadByte[w \in SUBSET WordBits, byte \in 0 .. 255] ==
            FoldLeft(LAMBDA v, b : ReadBit(v, b \in ByteBits(byte)), w, <<0, 1, 2, 3, 4, 5, 6, 7>>)
    IN FoldLeft(LAMBDA w, byte : ReadByte[w, byte], l, bytes)

\* AcceleratedCRC32C: the sizes of what the instruction is given.
Steps(n, address) ==
    LET lead == IF n > 16 THEN address % 8 ELSE 0
        eights == IF n > 16 THEN (n - lead) \div 8 ELSE 0
        fours == IF n > 16 /\ (n - lead) % 8 >= 4 THEN 1 ELSE 0
        single == n - lead - 8 * eights - 4 * fours
    IN [i \in 1 .. lead + eights + fours + single |->
           IF i <= lead THEN 1 ELSE IF i <= lead + eights THEN 8
           ELSE IF i <= lead + eights + fours THEN 4 ELSE 1]
AcceleratedCRC32C(value, bytes, address) ==
    LET sizes == Steps(Len(bytes), address)
        upTo(i) == FoldLeft(LAMBDA x, y : x + y, 0, SubSeq(sizes, 1, i))
    IN WordBits \ FoldLeft(LAMBDA l, i : Instruction(l, SubSeq(bytes, upTo(i - 1) + 1, upTo(i))),
                           WordBits \ value, [i \in DOMAIN sizes |-> i])

\* Extend asks the processor when it can.
Extend(chunk, address) ==
    /\ Len(crc.bytes) + Len(chunk) <= MaxCrcBytes
    /\ crc' = [crc EXCEPT
                  !.value = IF crc.accelerated THEN AcceleratedCRC32C(@, chunk, address)
                            ELSE ExtendPortably(@, chunk, address),
                  !.bytes = @ \o chunk]
    /\ UNCHANGED random

\* A checksum that is stored is turned and moved by a constant.
kMaskDelta == {3, 4, 6, 7, 9, 11, 13, 14, 15, 17, 23, 25, 29, 31}
Mask(value) == Plus(RotatedRight(value, 15), kMaskDelta)
Unmask(masked) == RotatedRight(Minus(masked, kMaskDelta), 17)

-----------------------------------------------------------------------------
(* Random: 16807 times the seed modulo 2^31 - 1, in halves of 16 bits.        *)

Modulus == 2147483647
Factor == 16807
NewRandom(s) == IF s \in {0, Modulus} THEN 1 ELSE s

\* The product's bits above the 31st, and those below.
HighHalf(seed) == Factor * (seed \div 65536) + (Factor * (seed % 65536)) \div 65536
Above(seed) == HighHalf(seed) \div 32768
Below(seed) == (HighHalf(seed) % 32768) * 65536 + ((Factor * (seed % 65536)) % 65536)
Drawn(seed) == IF Above(seed) > Modulus - Below(seed) THEN Above(seed) - (Modulus - Below(seed)) ELSE Above(seed) + Below(seed)

Next32 ==
    /\ random.drawn < MaxDraws
    /\ random' = [seed |-> Drawn(random.seed), drawn |-> random.drawn + 1, before |-> random.seed]
    /\ UNCHANGED crc

WordInitFrom(processors, seeds) ==
    /\ \E fast \in processors : crc = [accelerated |-> fast, value |-> {}, bytes |-> <<>>]
    /\ \E s \in seeds : random = [seed |-> NewRandom(s), drawn |-> 0, before |-> 0]
WordInit == WordInitFrom(BOOLEAN, RandomSeeds)

WordNext == Next32 \/ \E chunk \in Chunks, address \in 0 .. 7 : Extend(chunk, address)

WordSpec == WordInit /\ [][WordNext]_wordVars

-----------------------------------------------------------------------------
(* Properties *)

\* The remainder of all bytes at once, bit by bit.
Remainder(bytes) == WordBits \ Instruction(WordBits, bytes)
\* The product without its overflow, by Schrage's decomposition of the modulus.
Schrage(seed) ==
    LET t == Factor * (seed % (Modulus \div Factor)) - (Modulus % Factor) * (seed \div (Modulus \div Factor)) IN IF t > 0 THEN t ELSE t + Modulus

\* However a text is cut and wherever its pieces lie, its checksum is the same, and
\* is found again under its mask; the generator steps through the numbers below its
\* modulus and is never stuck at zero (crc32c::Extend, Mask, Unmask, Random::Next).
WordsAreExact ==
    /\ crc.bytes # <<>> =>
          /\ crc.value = Remainder(crc.bytes)
          /\ Unmask(Mask(crc.value)) = crc.value
    /\ random.seed \in 1 .. Modulus - 1
    /\ random.drawn > 0 => random.seed = Schrage(random.before)
=============================================================================
