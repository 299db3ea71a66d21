---------------------------- MODULE DBImpl_proofs ----------------------------
(* What TLAPS proves of DBImpl: batches that asked for a sync survive every *)
(* failure, whoever waits has a background call scheduled for it, and no    *)
(* record that may still be needed disappears from the logs.                *)
(* Their inductive invariant is DBInv.  What it says beyond the properties  *)
(* is how the file numbers are ordered, that the background thread is busy  *)
(* only while its call counts as scheduled, and in which log every batch    *)
(* of the history is.                                                       *)
EXTENDS DBImpl, TLAPS, FiniteSetTheorems, SequenceTheorems

-----------------------------------------------------------------------------
(* Numbers                                                                  *)

NatLess == OpToRel(<, Nat)

\* A set of numbers that is not empty has a least one.
LEMMA LeastNumber ==
    ASSUME NEW T \in SUBSET Nat, T # {}
    PROVE  \E x \in T : \A y \in T : x <= y
<1>1. NatLess = {p \in Nat \X Nat : p[1] < p[2]}
    BY DEF NatLess, OpToRel
<1>2. IsWellFoundedOn(NatLess, Nat)
    BY NatLessThanWellFounded DEF NatLess
<1>3. PICK x \in T : \A y \in T : <<y, x>> \notin NatLess
    BY <1>2, WFMin
<1>4. ASSUME NEW y \in T
      PROVE  x <= y
    <2>1. x \in Nat /\ y \in Nat
        OBVIOUS
    <2>2. <<y, x>> \in Nat \X Nat /\ <<y, x>>[1] = y /\ <<y, x>>[2] = x
        BY <2>1
    <2>3. ~(y < x)
        BY <1>1, <1>3, <2>2
    <2> QED
        BY <2>1, <2>3
<1> QED
    BY <1>4

\* Induction up to n, for a set of numbers.
LEMMA UpTo ==
    ASSUME NEW n \in Nat, NEW T, 0 \in T,
           \A i \in 1 .. n : i - 1 \in T => i \in T
    PROVE  0 .. n \subseteq T
<1> DEFINE Bad == {i \in 0 .. n : i \notin T}
<1>1. SUFFICES ASSUME Bad # {}
               PROVE  FALSE
    OBVIOUS
<1>2. PICK x \in Bad : \A y \in Bad : x <= y
    <2>1. Bad \in SUBSET Nat
        OBVIOUS
    <2> QED
        BY <2>1, <1>1, LeastNumber
<1>3. x \in 1 .. n /\ x - 1 \in 0 .. n /\ ~(x <= x - 1)
    BY <1>2
<1>4. x - 1 \in T
    BY <1>2, <1>3
<1> QED
    BY <1>2, <1>3, <1>4

-----------------------------------------------------------------------------
(* Sequences                                                                *)

IsSequence(s) == s \in Seq(ToSet(s))

\* A sequence is indexed from one to its length.
LEMMA SequenceIndices ==
    ASSUME NEW s, IsSequence(s)
    PROVE  Len(s) \in Nat /\ DOMAIN s = 1 .. Len(s)
BY LenProperties DEF IsSequence

\* A sequence over any set is a sequence over what it holds.
LEMMA SequenceOver ==
    ASSUME NEW T, NEW s \in Seq(T)
    PROVE  IsSequence(s)
<1>1. s = [i \in 1 .. Len(s) |-> s[i]] /\ Len(s) \in Nat /\ DOMAIN s = 1 .. Len(s)
    BY LenProperties, SeqDef
<1>2. \A i \in 1 .. Len(s) : s[i] \in ToSet(s)
    BY <1>1 DEF ToSet
<1>3. s \in [1 .. Len(s) -> ToSet(s)]
    BY <1>1, <1>2
<1> QED
    BY <1>1, <1>3, SeqDef DEF IsSequence

\* A function on 1 .. n is a sequence of length n.
LEMMA ListIsSequence ==
    ASSUME NEW n \in Nat, NEW s, DOMAIN s = 1 .. n, s = [i \in 1 .. n |-> s[i]]
    PROVE  IsSequence(s) /\ Len(s) = n
<1>1. \A i \in 1 .. n : s[i] \in ToSet(s)
    BY DEF ToSet
<1>2. s \in [1 .. n -> ToSet(s)]
    BY <1>1
<1>3. IsSequence(s)
    BY <1>2, SeqDef DEF IsSequence
<1>4. Len(s) = n
    BY <1>2, <1>3, LenProperties DEF IsSequence
<1> QED
    BY <1>3, <1>4

\* The empty sequence is one.
LEMMA EmptyIsSequence == IsSequence(<<>>) /\ Len(<<>>) = 0 /\ DOMAIN <<>> = {}
BY EmptySeq DEF IsSequence

\* What Append returns, place by place.
LEMMA AppendIsSequence ==
    ASSUME NEW s, NEW x, IsSequence(s)
    PROVE  /\ IsSequence(Append(s, x))
           /\ Len(Append(s, x)) = Len(s) + 1
           /\ \A i \in 1 .. Len(s) : Append(s, x)[i] = s[i]
           /\ Append(s, x)[Len(s) + 1] = x
<1> DEFINE T == ToSet(s) \cup {x}
<1>1. s \in Seq(T) /\ x \in T
    BY SeqMonotonic DEF IsSequence
<1>2. Append(s, x) \in Seq(T)
    BY <1>1, AppendProperties
<1>3. IsSequence(Append(s, x))
    BY <1>2, SequenceOver
<1> QED
    BY <1>1, <1>3, AppendProperties

\* What concatenation returns, place by place.
LEMMA ConcatIsSequence ==
    ASSUME NEW s, NEW t, IsSequence(s), IsSequence(t)
    PROVE  /\ IsSequence(s \o t)
           /\ Len(s \o t) = Len(s) + Len(t)
           /\ \A i \in 1 .. Len(s) + Len(t) :
                 (s \o t)[i] = IF i <= Len(s) THEN s[i] ELSE t[i - Len(s)]
<1> DEFINE T == ToSet(s) \cup ToSet(t)
<1>1. s \in Seq(T) /\ t \in Seq(T)
    BY SeqMonotonic DEF IsSequence
<1>2. s \o t \in Seq(T)
    BY <1>1, ConcatProperties
<1>3. IsSequence(s \o t)
    BY <1>2, SequenceOver
<1> QED
    BY <1>1, <1>3, ConcatProperties

\* The tail of a sequence is one.
LEMMA TailIsSequence ==
    ASSUME NEW s, IsSequence(s), s # <<>>
    PROVE  IsSequence(Tail(s))
<1>1. Tail(s) \in Seq(ToSet(s))
    BY HeadTailProperties DEF IsSequence
<1> QED
    BY <1>1, SequenceOver

\* What a prefix holds, place by place.
LEMMA SubSeqIsSequence ==
    ASSUME NEW s, IsSequence(s), NEW m \in Nat, NEW n \in Nat, 1 <= m, n <= Len(s)
    PROVE  IsSequence(SubSeq(s, m, n)) /\ Len(SubSeq(s, m, n)) = IF m <= n THEN n - m + 1 ELSE 0
<1>1. Len(s) \in Nat /\ DOMAIN s = 1 .. Len(s)
    BY SequenceIndices
<1>2. s \in Seq(ToSet(s))
    BY DEF IsSequence
<1>3. SubSeq(s, m, n) \in Seq(ToSet(s)) /\ Len(SubSeq(s, m, n)) = IF m <= n THEN n - m + 1 ELSE 0
    BY <1>1, <1>2, SubSeqProperties
<1> QED
    BY <1>3, SequenceOver

-----------------------------------------------------------------------------
(* A finite set of numbers in order: InOrder                                *)

\* How many numbers of S are less than x.
Rank(S, x) == Cardinality({y \in S : y < x})

\* A member of a finite set has fewer members below it than the set has.
LEMMA RankIsBounded ==
    ASSUME NEW S \in SUBSET Nat, IsFiniteSet(S), NEW x \in S
    PROVE  Rank(S, x) \in 0 .. Cardinality(S) - 1
<1> DEFINE below == {y \in S : y < x}
<1>1. x \notin below /\ below \in SUBSET S
    OBVIOUS
<1>2. IsFiniteSet(below) /\ Cardinality(below) <= Cardinality(S)
      /\ (Cardinality(S) = Cardinality(below) => S = below)
    BY <1>1, FS_Subset
<1>3. S # below
    BY <1>1
<1>4. Cardinality(below) \in Nat /\ Cardinality(S) \in Nat
    BY <1>2, FS_CardinalityType
<1>5. Cardinality(below) # Cardinality(S)
    BY <1>2, <1>3
<1> HIDE DEF below
<1>6. Cardinality(below) \in 0 .. Cardinality(S) - 1
    BY <1>2, <1>4, <1>5
<1> QED
    BY <1>6 DEF Rank, below

\* The larger of two members has the higher rank.
LEMMA RankGrows ==
    ASSUME NEW S \in SUBSET Nat, IsFiniteSet(S), NEW x \in S, NEW y \in S, x < y
    PROVE  Rank(S, x) < Rank(S, y)
<1> DEFINE belowx == {z \in S : z < x}
           belowy == {z \in S : z < y}
<1>1. x \notin belowx /\ x \in belowy /\ belowx \in SUBSET belowy
    <2>1. \A z \in S : z \in Nat
        OBVIOUS
    <2>2. \A z \in S : z < x => z < y
        BY <2>1
    <2>3. ~(x < x)
        BY <2>1
    <2> QED
        BY <2>2, <2>3
<1>2. belowy \in SUBSET S
    OBVIOUS
<1>3. IsFiniteSet(belowy)
    BY <1>2, FS_Subset
<1> HIDE DEF belowx, belowy
<1>4. IsFiniteSet(belowx) /\ Cardinality(belowx) <= Cardinality(belowy)
      /\ (Cardinality(belowy) = Cardinality(belowx) => belowy = belowx)
    BY <1>1, <1>3, FS_Subset
<1>5. Cardinality(belowx) \in Nat /\ Cardinality(belowy) \in Nat
    BY <1>3, <1>4, FS_CardinalityType
<1>6. belowx # belowy
    BY <1>1
<1>7. Cardinality(belowx) < Cardinality(belowy)
    BY <1>4, <1>5, <1>6
<1> QED
    BY <1>7 DEF Rank, belowx, belowy

\* Members of the same rank are equal.
LEMMA RankIsInjective ==
    ASSUME NEW S \in SUBSET Nat, IsFiniteSet(S), NEW x \in S, NEW y \in S,
           Rank(S, x) = Rank(S, y)
    PROVE  x = y
<1>1. Rank(S, x) \in 0 .. Cardinality(S) - 1
    BY RankIsBounded
<1>1a. Rank(S, x) \in Int
    BY <1>1
<1>2. ~(x < y)
    <2>1. ASSUME x < y PROVE FALSE
        <3>1. Rank(S, x) < Rank(S, y)
            BY <2>1, RankGrows
        <3> QED
            BY <3>1, <1>1a
    <2> QED
        BY <2>1
<1>3. ~(y < x)
    <2>1. ASSUME y < x PROVE FALSE
        <3>1. Rank(S, y) < Rank(S, x)
            BY <2>1, RankGrows
        <3> QED
            BY <3>1, <1>1a
    <2> QED
        BY <2>1
<1> QED
    BY <1>2, <1>3

\* Every rank is taken.
LEMMA RankIsOnto ==
    ASSUME NEW S \in SUBSET Nat, IsFiniteSet(S), NEW i \in 0 .. Cardinality(S) - 1
    PROVE  \E x \in S : Rank(S, x) = i
<1> DEFINE rank == [x \in S |-> Rank(S, x)]
           ranks == 0 .. Cardinality(S) - 1
<1>1. Cardinality(S) \in Nat
    BY FS_CardinalityType
<1>2. IsFiniteSet(ranks) /\ Cardinality(ranks) = Cardinality(S)
    <2>1. 0 \in Int /\ Cardinality(S) - 1 \in Int
        BY <1>1
    <2>2. IsFiniteSet(ranks)
          /\ Cardinality(ranks) = IF 0 > Cardinality(S) - 1 THEN 0 ELSE (Cardinality(S) - 1) - 0 + 1
        BY <2>1, FS_Interval
    <2> QED
        BY <2>2, <1>1
<1>3. rank \in [S -> ranks]
    BY RankIsBounded
<1>4. rank \in Injection(S, ranks)
    BY <1>3, RankIsInjective DEF Injection, IsInjective
<1> HIDE DEF rank, ranks
<1>5. rank \in Surjection(S, ranks)
    BY <1>2, <1>4, FS_Injection
<1>6. \E x \in S : rank[x] = i
    BY <1>5 DEF Surjection, ranks
<1> QED
    BY <1>6 DEF rank

\* InOrder lists the members of S, each of them once.
LEMMA InOrderLists ==
    ASSUME NEW S \in SUBSET Nat, IsFiniteSet(S)
    PROVE  /\ IsSequence(InOrder(S, <)) /\ Len(InOrder(S, <)) = Cardinality(S)
           /\ \A i \in 1 .. Cardinality(S) : InOrder(S, <)[i] \in S
           /\ \A x \in S : \E i \in 1 .. Cardinality(S) : InOrder(S, <)[i] = x
<1> DEFINE f == [i \in 1 .. Cardinality(S) |-> CHOOSE x \in S : Rank(S, x) = i - 1]
<1>1. InOrder(S, <) = f
    BY DEF InOrder, Rank
<1>2. Cardinality(S) \in Nat
    BY FS_CardinalityType
<1>3. ASSUME NEW i \in 1 .. Cardinality(S)
      PROVE  f[i] \in S /\ Rank(S, f[i]) = i - 1
    <2>1. i - 1 \in 0 .. Cardinality(S) - 1
        BY <1>2
    <2>2. \E x \in S : Rank(S, x) = i - 1
        BY <2>1, RankIsOnto
    <2> QED
        BY <2>2
<1>4. ASSUME NEW x \in S
      PROVE  \E i \in 1 .. Cardinality(S) : f[i] = x
    <2>1. Rank(S, x) \in 0 .. Cardinality(S) - 1
        BY RankIsBounded
    <2>2. PICK i \in 1 .. Cardinality(S) : i = Rank(S, x) + 1 /\ i - 1 = Rank(S, x)
        <3>1. Rank(S, x) + 1 \in 1 .. Cardinality(S) /\ (Rank(S, x) + 1) - 1 = Rank(S, x)
            BY <2>1, <1>2
        <3> QED
            BY <3>1
    <2>3. f[i] \in S /\ Rank(S, f[i]) = Rank(S, x)
        BY <1>3, <2>2
    <2>4. f[i] = x
        BY <2>3, RankIsInjective
    <2> QED
        BY <2>4
<1>5. IsSequence(f) /\ Len(f) = Cardinality(S)
    <2>1. DOMAIN f = 1 .. Cardinality(S) /\ f = [i \in 1 .. Cardinality(S) |-> f[i]]
        OBVIOUS
    <2> HIDE DEF f
    <2> QED
        BY <2>1, <1>2, ListIsSequence
<1> HIDE DEF f
<1> QED
    BY <1>1, <1>3, <1>4, <1>5

\* What a sequence holds at some of its places is held at one of them.
LEMMA SubsequenceHolds ==
    ASSUME NEW s, IsSequence(s), NEW P \in SUBSET DOMAIN s
    PROVE  /\ IsSequence(Subsequence(s, P))
           /\ \A i \in DOMAIN Subsequence(s, P) : \E j \in P : Subsequence(s, P)[i] = s[j]
<1> DEFINE at == InOrder(P, <)
<1>1. DOMAIN s = 1 .. Len(s) /\ Len(s) \in Nat
    BY SequenceIndices
<1>2. P \in SUBSET Nat /\ IsFiniteSet(P)
    <2>1. IsFiniteSet(1 .. Len(s))
        BY <1>1, FS_Interval
    <2>2. IsFiniteSet(P)
        BY <1>1, <2>1, FS_Subset
    <2> QED
        BY <1>1, <2>2
<1>3. Cardinality(P) \in Nat
    BY <1>2, FS_CardinalityType
<1>4. IsSequence(at) /\ Len(at) = Cardinality(P) /\ \A i \in 1 .. Cardinality(P) : at[i] \in P
    BY <1>2, InOrderLists
<1>5. DOMAIN at = 1 .. Cardinality(P)
    BY <1>4, SequenceIndices
<1>6. Subsequence(s, P) = [i \in DOMAIN at |-> s[at[i]]]
    BY DEF Subsequence
<1> HIDE DEF at
<1> DEFINE sub == [i \in 1 .. Cardinality(P) |-> s[at[i]]]
<1>7. Subsequence(s, P) = sub /\ DOMAIN sub = 1 .. Cardinality(P)
    BY <1>5, <1>6
<1>8. \A i \in 1 .. Cardinality(P) : \E j \in P : sub[i] = s[j]
    BY <1>4
<1>9. IsSequence(sub)
    <2>1. DOMAIN sub = 1 .. Cardinality(P) /\ sub = [i \in 1 .. Cardinality(P) |-> sub[i]]
        OBVIOUS
    <2> HIDE DEF sub
    <2> QED
        BY <2>1, <1>3, ListIsSequence
<1> HIDE DEF sub
<1> QED
    BY <1>7, <1>8, <1>9

-----------------------------------------------------------------------------
(* Recovery                                                                 *)

\* What RecoverLogs has done so far.
IsRecovery(s) ==
    /\ s = [next |-> s.next, mem |-> s.mem, written |-> s.written]
    /\ s.next \in Nat /\ IsSequence(s.written)
    /\ \A i \in DOMAIN s.written : s.written[i][1] \in 0 .. s.next - 1

\* Writing a table takes one number and keeps the shape of the recovery state.
LEMMA WriteLevel0TableKeeps ==
    ASSUME NEW s, IsRecovery(s)
    PROVE  IsRecovery(WriteLevel0Table(s)) /\ s.next <= WriteLevel0Table(s).next
<1>1. CASE s.mem = {}
    BY <1>1 DEF WriteLevel0Table, IsRecovery
<1>2. CASE s.mem # {}
    <2> DEFINE w == Append(s.written, <<s.next, s.mem>>)
    <2>1. IsSequence(w)
        BY AppendIsSequence DEF IsRecovery
    <2>2. WriteLevel0Table(s) = [next |-> s.next + 1, mem |-> {}, written |-> w]
        BY <1>2 DEF WriteLevel0Table
    <2>3. ASSUME NEW i \in DOMAIN w
          PROVE  w[i][1] \in 0 .. s.next
        <3>1. s.next \in Nat /\ IsSequence(s.written)
            BY DEF IsRecovery
        <3>2. DOMAIN w = 1 .. Len(s.written) + 1 /\ Len(s.written) \in Nat
            BY <2>1, <3>1, AppendIsSequence, SequenceIndices
        <3>3. CASE i = Len(s.written) + 1
            BY <3>1, <3>3, AppendIsSequence
        <3>4. CASE i \in 1 .. Len(s.written)
            <4>1. i \in DOMAIN s.written
                BY <3>1, <3>4, SequenceIndices
            <4>2. s.written[i][1] \in 0 .. s.next - 1
                BY <4>1 DEF IsRecovery
            <4>3. w[i] = s.written[i]
                BY <3>1, <3>4, AppendIsSequence
            <4> QED
                BY <3>1, <4>2, <4>3
        <3> QED
            BY <3>2, <3>3, <3>4
    <2> HIDE DEF w
    <2>4. s.next \in Nat /\ s.next + 1 - 1 = s.next
        BY DEF IsRecovery
    <2> QED
        BY <2>1, <2>2, <2>3, <2>4 DEF IsRecovery
<1> QED
    BY <1>1, <1>2

\* Inserting a record never lowers the next number.
LEMMA InsertIntoKeeps ==
    ASSUME NEW s, IsRecovery(s), NEW record
    PROVE  IsRecovery(InsertInto(s, record)) /\ s.next <= InsertInto(s, record).next
<1> DEFINE t == [s EXCEPT !.mem = @ \cup record]
<1>1. t = [next |-> s.next, mem |-> s.mem \cup record, written |-> s.written]
    <2>1. s = [next |-> s.next, mem |-> s.mem, written |-> s.written]
        BY DEF IsRecovery
    <2> DEFINE n == s.next
               m == s.mem
               w == s.written
    <2>2. s = [next |-> n, mem |-> m, written |-> w]
        BY <2>1
    <2>3. t = [next |-> n, mem |-> s.mem \cup record, written |-> w]
        <3> HIDE DEF n, m, w
        <3> QED
            BY <2>2
    <2> QED
        BY <2>3
<1>2. IsRecovery(t) /\ t.next = s.next
    BY <1>1 DEF IsRecovery
<1>3. InsertInto(s, record) \in {t, WriteLevel0Table(t)}
    BY DEF InsertInto
<1> HIDE DEF t
<1>4. IsRecovery(WriteLevel0Table(t)) /\ t.next <= WriteLevel0Table(t).next
    BY <1>2, WriteLevel0TableKeeps
<1>5. s.next <= t.next
    BY <1>2 DEF IsRecovery
<1> QED
    BY <1>2, <1>3, <1>4, <1>5

\* The function that RecoverLogFile folds the records of a log with, and what
\* it keeps.
Inserted(s, records, dropped, f) ==
    f = [i \in 0 .. Len(records) |->
            IF i = 0 THEN s ELSE IF i \in dropped THEN f[i - 1] ELSE InsertInto(f[i - 1], records[i])]

\* The recursion over the records of a log has a value.
LEMMA InsertedExists ==
    ASSUME NEW s, NEW records, IsSequence(records), NEW dropped
    PROVE  \E f : Inserted(s, records, dropped, f)
<1> DEFINE N == Len(records)
           Step(f, i) ==
               IF i = 0 THEN s
               ELSE IF i \in dropped THEN f[i - 1] ELSE InsertInto(f[i - 1], records[i])
           T == {k \in 0 .. N : \E f : f = [i \in 0 .. k |-> Step(f, i)]}
<1>1. N \in Nat
    BY SequenceIndices
<1>2. 0 \in T
    <2> DEFINE f == [i \in 0 .. 0 |-> s]
    <2>1. \A i \in 0 .. 0 : i = 0
        OBVIOUS
    <2>2. f = [i \in 0 .. 0 |-> Step(f, i)]
        BY <2>1
    <2>3. 0 \in 0 .. N
        BY <1>1
    <2> HIDE DEF f
    <2>4. \E g : g = [i \in 0 .. 0 |-> Step(g, i)]
        BY <2>2
    <2> QED
        BY <2>3, <2>4
<1>3. ASSUME NEW k \in 1 .. N, k - 1 \in T
      PROVE  k \in T
    <2>1. PICK f : f = [i \in 0 .. k - 1 |-> Step(f, i)]
        BY <1>3
    <2> DEFINE g == [i \in 0 .. k |-> IF i = k THEN Step(f, k) ELSE f[i]]
    <2>2. \A i \in 0 .. k : i # 0 => i - 1 \in 0 .. k /\ i - 1 # k /\ i - 1 \in 0 .. k - 1
        BY <1>1
    <2>3. \A i \in 0 .. k : i # 0 => g[i - 1] = f[i - 1]
        BY <2>2
    <2>4. \A i \in 0 .. k : Step(g, i) = Step(f, i)
        BY <2>3
    <2>5. \A i \in 0 .. k : i # k => i \in 0 .. k - 1
        BY <1>1
    <2>6. \A i \in 0 .. k : i # k => f[i] = Step(f, i)
        BY <2>1, <2>5
    <2>7. \A i \in 0 .. k : g[i] = Step(g, i)
        BY <2>4, <2>6
    <2>8. g = [i \in 0 .. k |-> g[i]]
        OBVIOUS
    <2>9. g = [i \in 0 .. k |-> Step(g, i)]
        BY <2>7, <2>8
    <2> HIDE DEF g
    <2>10. \E h : h = [i \in 0 .. k |-> Step(h, i)]
        BY <2>9
    <2>11. k \in 0 .. N
        BY <1>1
    <2> QED
        BY <2>10, <2>11
<1> HIDE DEF T
<1>4. 0 .. N \subseteq T
    BY <1>1, <1>2, <1>3, UpTo
<1>5. N \in T
    BY <1>1, <1>4
<1> QED
    BY <1>5 DEF T, Inserted

\* Reading a log's records never lowers the next number.
LEMMA InsertedKeeps ==
    ASSUME NEW s, IsRecovery(s), NEW records, IsSequence(records), NEW dropped, NEW f,
           Inserted(s, records, dropped, f)
    PROVE  IsRecovery(f[Len(records)]) /\ s.next <= f[Len(records)].next
<1> DEFINE N == Len(records)
           T == {k \in 0 .. N : IsRecovery(f[k]) /\ s.next <= f[k].next}
<1>1. N \in Nat
    BY SequenceIndices
<1>2. 0 \in T
    <2>1. 0 \in 0 .. N /\ f[0] = s
        BY <1>1 DEF Inserted
    <2>2. s.next <= s.next
        BY DEF IsRecovery
    <2> QED
        BY <2>1, <2>2
<1>3. ASSUME NEW k \in 1 .. N, k - 1 \in T
      PROVE  k \in T
    <2>1. k \in 0 .. N /\ k # 0
        BY <1>1
    <2>2. f[k] = f[k - 1] \/ f[k] = InsertInto(f[k - 1], records[k])
        BY <2>1 DEF Inserted
    <2>3. IsRecovery(f[k - 1]) /\ s.next <= f[k - 1].next
        BY <1>3
    <2>3a. f[k - 1].next <= f[k - 1].next
        BY <2>3 DEF IsRecovery
    <2>4. IsRecovery(f[k]) /\ f[k - 1].next <= f[k].next
        BY <2>2, <2>3, <2>3a, InsertIntoKeeps
    <2>5. s.next <= f[k].next
        BY <2>3, <2>4 DEF IsRecovery
    <2> QED
        BY <2>1, <2>4, <2>5
<1> HIDE DEF T
<1>4. 0 .. N \subseteq T
    BY <1>1, <1>2, <1>3, UpTo
<1>5. N \in T
    BY <1>1, <1>4
<1> QED
    BY <1>5 DEF T

\* After a log is read the next number is above that of the log.
LEMMA RecoverLogFileKeeps ==
    ASSUME NEW s, IsRecovery(s), NEW n \in Nat, IsSequence(disk.logs[n].records)
    PROVE  /\ IsRecovery(RecoverLogFile(s, n))
           /\ s.next <= RecoverLogFile(s, n).next
           /\ n < RecoverLogFile(s, n).next
<1> DEFINE records == disk.logs[n].records
           dropped == disk.logs[n].dropped
           f == CHOOSE g : Inserted(s, records, dropped, g)
           t == WriteLevel0Table(f[Len(records)])
<1>1. Inserted(s, records, dropped, f)
    BY InsertedExists
<1>2. RecoverLogFile(s, n) = [t EXCEPT !.next = IF @ <= n THEN n + 1 ELSE @]
    BY DEF RecoverLogFile, Inserted
<1> HIDE DEF f
<1>3. IsRecovery(f[Len(records)]) /\ s.next <= f[Len(records)].next
    BY <1>1, InsertedKeeps
<1>4. IsRecovery(t) /\ f[Len(records)].next <= t.next
    BY <1>3, WriteLevel0TableKeeps
<1> HIDE DEF t, records
<1>5. s.next \in Nat /\ f[Len(records)].next \in Nat /\ t.next \in Nat
    BY <1>3, <1>4 DEF IsRecovery
<1>6. s.next <= t.next
    BY <1>3, <1>4, <1>5
<1> DEFINE next == IF t.next <= n THEN n + 1 ELSE t.next
<1>7. next \in Nat /\ n < next /\ s.next <= next
    BY <1>5, <1>6
<1>8. RecoverLogFile(s, n) = [next |-> next, mem |-> t.mem, written |-> t.written]
    BY <1>2, <1>4 DEF IsRecovery
<1>9. t.next <= next
    BY <1>5
<1> HIDE DEF next
<1>10. ASSUME NEW i \in DOMAIN t.written
       PROVE  t.written[i][1] \in 0 .. next - 1
    <2>1. t.written[i][1] \in 0 .. t.next - 1
        BY <1>4 DEF IsRecovery
    <2> QED
        BY <2>1, <1>5, <1>7, <1>9
<1> QED
    BY <1>4, <1>7, <1>8, <1>10 DEF IsRecovery

\* The same for RecoverLogs: RecoverLogFile, log after log.
Recovered(m, logs, f) ==
    f = [i \in 0 .. Len(logs) |->
            IF i = 0 THEN [next |-> m.next_file + 1, mem |-> {}, written |-> <<>>]
            ELSE RecoverLogFile(f[i - 1], logs[i])]

\* The recursion over the logs has a value.
LEMMA RecoveredExists ==
    ASSUME NEW m, NEW logs, IsSequence(logs)
    PROVE  \E f : Recovered(m, logs, f)
<1> DEFINE N == Len(logs)
           first == [next |-> m.next_file + 1, mem |-> {}, written |-> <<>>]
           Step(f, i) == IF i = 0 THEN first ELSE RecoverLogFile(f[i - 1], logs[i])
           T == {k \in 0 .. N : \E f : f = [i \in 0 .. k |-> Step(f, i)]}
<1> HIDE DEF first
<1>1. N \in Nat
    BY SequenceIndices
<1>2. 0 \in T
    <2> DEFINE f == [i \in 0 .. 0 |-> first]
    <2>1. \A i \in 0 .. 0 : i = 0
        OBVIOUS
    <2>2. f = [i \in 0 .. 0 |-> Step(f, i)]
        BY <2>1
    <2>3. 0 \in 0 .. N
        BY <1>1
    <2> HIDE DEF f
    <2>4. \E g : g = [i \in 0 .. 0 |-> Step(g, i)]
        BY <2>2
    <2> QED
        BY <2>3, <2>4
<1>3. ASSUME NEW k \in 1 .. N, k - 1 \in T
      PROVE  k \in T
    <2>1. PICK f : f = [i \in 0 .. k - 1 |-> Step(f, i)]
        BY <1>3
    <2> DEFINE g == [i \in 0 .. k |-> IF i = k THEN Step(f, k) ELSE f[i]]
    <2>2. \A i \in 0 .. k : i # 0 => i - 1 \in 0 .. k /\ i - 1 # k /\ i - 1 \in 0 .. k - 1
        BY <1>1
    <2>3. \A i \in 0 .. k : i # 0 => g[i - 1] = f[i - 1]
        BY <2>2
    <2>4. \A i \in 0 .. k : Step(g, i) = Step(f, i)
        BY <2>3
    <2>5. \A i \in 0 .. k : i # k => i \in 0 .. k - 1
        BY <1>1
    <2>6. \A i \in 0 .. k : i # k => f[i] = Step(f, i)
        BY <2>1, <2>5
    <2>7. \A i \in 0 .. k : g[i] = Step(g, i)
        BY <2>4, <2>6
    <2>8. g = [i \in 0 .. k |-> g[i]]
        OBVIOUS
    <2>9. g = [i \in 0 .. k |-> Step(g, i)]
        BY <2>7, <2>8
    <2> HIDE DEF g
    <2>10. \E h : h = [i \in 0 .. k |-> Step(h, i)]
        BY <2>9
    <2>11. k \in 0 .. N
        BY <1>1
    <2> QED
        BY <2>10, <2>11
<1> HIDE DEF T
<1>4. 0 .. N \subseteq T
    BY <1>1, <1>2, <1>3, UpTo
<1>5. N \in T
    BY <1>1, <1>4
<1> QED
    BY <1>5 DEF T, Recovered, first

\* The next number never falls from one log to the next.
LEMMA RecoveredKeeps ==
    ASSUME NEW m, m.next_file \in Nat, NEW logs, IsSequence(logs),
           \A i \in 1 .. Len(logs) : logs[i] \in Nat /\ IsSequence(disk.logs[logs[i]].records),
           NEW f, Recovered(m, logs, f)
    PROVE  /\ IsRecovery(f[Len(logs)])
           /\ m.next_file < f[Len(logs)].next
           /\ \A i \in 1 .. Len(logs) : logs[i] < f[Len(logs)].next
<1> DEFINE N == Len(logs)
           T == {k \in 0 .. N : /\ IsRecovery(f[k]) /\ m.next_file < f[k].next
                                /\ \A i \in 1 .. k : logs[i] < f[k].next}
<1>1. N \in Nat
    BY SequenceIndices
<1>2. 0 \in T
    <2>1. 0 \in 0 .. N /\ f[0] = [next |-> m.next_file + 1, mem |-> {}, written |-> <<>>]
        BY <1>1 DEF Recovered
    <2>2. IsRecovery(f[0])
        BY <2>1, EmptyIsSequence DEF IsRecovery
    <2>3. m.next_file < f[0].next
        BY <2>1
    <2> QED
        BY <2>1, <2>2, <2>3
<1>3. ASSUME NEW k \in 1 .. N, k - 1 \in T
      PROVE  k \in T
    <2>1. k \in 0 .. N /\ k # 0
        BY <1>1
    <2>2. f[k] = RecoverLogFile(f[k - 1], logs[k])
        BY <2>1 DEF Recovered
    <2>3. /\ IsRecovery(f[k - 1]) /\ m.next_file < f[k - 1].next
          /\ \A i \in 1 .. k - 1 : logs[i] < f[k - 1].next
        BY <1>3
    <2>4. IsRecovery(f[k]) /\ f[k - 1].next <= f[k].next /\ logs[k] < f[k].next
        BY <2>2, <2>3, RecoverLogFileKeeps
    <2>5. f[k - 1].next \in Nat /\ f[k].next \in Nat
        BY <2>3, <2>4 DEF IsRecovery
    <2>6. m.next_file < f[k].next
        BY <2>3, <2>4, <2>5
    <2>7. ASSUME NEW i \in 1 .. k
          PROVE  logs[i] < f[k].next
        <3>1. i = k \/ i \in 1 .. k - 1
            OBVIOUS
        <3>2. logs[i] \in Nat
            BY <1>1
        <3> QED
            BY <3>1, <3>2, <2>3, <2>4, <2>5
    <2> QED
        BY <2>1, <2>4, <2>6, <2>7
<1> HIDE DEF T
<1>4. 0 .. N \subseteq T
    BY <1>1, <1>2, <1>3, UpTo
<1>5. N \in T
    BY <1>1, <1>4
<1> QED
    BY <1>5 DEF T

\* The number that recovery ends with is above those of all logs it read.
LEMMA RecoverLogsKeeps ==
    ASSUME NEW m, m.next_file \in Nat,
           IsFiniteSet(DOMAIN disk.logs), DOMAIN disk.logs \subseteq Nat,
           \A n \in DOMAIN disk.logs : IsSequence(disk.logs[n].records)
    PROVE  /\ IsRecovery(RecoverLogs(m))
           /\ m.next_file < RecoverLogs(m).next
           /\ \A n \in DOMAIN disk.logs : n >= m.log_number => n < RecoverLogs(m).next
<1> DEFINE S == {n \in DOMAIN disk.logs : n >= m.log_number}
           logs == InOrder(S, <)
           f == CHOOSE g : Recovered(m, logs, g)
<1>1. S \in SUBSET Nat /\ IsFiniteSet(S)
    BY FS_Subset
<1>2. RecoverLogs(m) = f[Len(logs)]
    BY DEF RecoverLogs, Recovered
<1>3. /\ IsSequence(logs) /\ Len(logs) = Cardinality(S)
      /\ \A i \in 1 .. Cardinality(S) : logs[i] \in S
      /\ \A x \in S : \E i \in 1 .. Cardinality(S) : logs[i] = x
    BY <1>1, InOrderLists
<1> HIDE DEF logs
<1>4. Recovered(m, logs, f)
    BY <1>3, RecoveredExists
<1>5. \A i \in 1 .. Len(logs) : logs[i] \in Nat /\ IsSequence(disk.logs[logs[i]].records)
    BY <1>3
<1> HIDE DEF f
<1>6. /\ IsRecovery(f[Len(logs)]) /\ m.next_file < f[Len(logs)].next
      /\ \A i \in 1 .. Len(logs) : logs[i] < f[Len(logs)].next
    BY <1>3, <1>4, <1>5, RecoveredKeeps
<1>7. \A n \in S : n < f[Len(logs)].next
    BY <1>3, <1>6
<1> QED
    BY <1>2, <1>6, <1>7

-----------------------------------------------------------------------------
(* The inductive invariant                                                  *)

IsLog(l) ==
    /\ l = [records |-> l.records, synced |-> l.synced, damaged |-> l.damaged, dropped |-> l.dropped]
    /\ IsSequence(l.records) /\ l.synced \in Nat
    /\ l.dropped # {} => l.damaged
IsManifest(m) ==
    /\ m = [files |-> m.files, log_number |-> m.log_number, next_file |-> m.next_file,
            last_sequence |-> m.last_sequence, compact_pointer |-> m.compact_pointer]
    /\ IsFiniteSet(m.files[0])
    /\ m.log_number \in Nat /\ m.next_file \in Nat /\ m.log_number < m.next_file
IsEdit(e) ==
    /\ e = [kind |-> e.kind, version_edit |-> e.version_edit, log_number |-> e.log_number,
            next_file |-> e.next_file, last_sequence |-> e.last_sequence]
    /\ e.kind \in {"open", "flush", "move", "compaction"}
    /\ e.log_number \in Nat /\ e.next_file \in Nat /\ e.log_number < e.next_file
    /\ IsFiniteSet(e.version_edit.new_files)

IsDisk(d) ==
    d = [logs |-> d.logs, tables |-> d.tables, manifests |-> d.manifests, current |-> d.current]
AreLogs(logs) ==
    /\ IsFiniteSet(DOMAIN logs) /\ DOMAIN logs \subseteq Nat
    /\ \A n \in DOMAIN logs : IsLog(logs[n])
AreManifests(manifests) == \A n \in DOMAIN manifests : IsManifest(manifests[n])
DiskInv ==
    /\ IsDisk(disk) /\ AreLogs(disk.logs) /\ AreManifests(disk.manifests)
    /\ disk.current # 0 => disk.current \in DOMAIN disk.manifests

IsVersions(v) ==
    /\ v = [current |-> v.current, file_to_compact |-> v.file_to_compact,
            next_file_number |-> v.next_file_number, last_sequence |-> v.last_sequence,
            log_number |-> v.log_number, manifest_file_number |-> v.manifest_file_number,
            compact_pointer |-> v.compact_pointer]
    /\ IsFiniteSet(v.current[0])
    /\ v.next_file_number \in Nat /\ v.log_number \in Nat /\ v.manifest_file_number \in Nat
VsetInv == IsVersions(vset)

IsLeader(l) ==
    /\ l = [pc |-> l.pc, forced |-> l.forced, delayed |-> l.delayed, group |-> l.group,
            ok |-> l.ok]
    /\ l.pc \in {"room", "logged", "sync_error"} /\ l.group \in Nat
IsWork(b) ==
    /\ b = [pc |-> b.pc, number |-> b.number, is_manual |-> b.is_manual,
            compaction |-> b.compaction, todo |-> b.todo, outputs |-> b.outputs, edit |-> b.edit]
    /\ b.pc \in {"idle", "work", "flush", "manifest", "install"}
    /\ IsFiniteSet(b.outputs)
    /\ b.pc \in {"manifest", "install"} => IsEdit(b.edit)
ThreadsInv ==
    IsLeader(leader) /\ IsWork(bg)

Opening ==
    /\ imm = NULL /\ writers = <<>> /\ leader = NoLeader
    /\ bg_compaction_scheduled = FALSE /\ pending_outputs = {} /\ bg_error = FALSE
    /\ manual_compaction = FALSE /\ caller = NoCaller
    /\ snapshots = <<>> /\ reads = [r \in Readers |-> NoRead]
    /\ bg.pc \in {"manifest", "install"} /\ bg.edit.kind = "open"
StatusInv ==
    /\ status \in {"down", "opening", "open", "closing"}
    /\ status = "down" => InitProcess
    /\ status = "opening" => Opening
    /\ status \in {"open", "closing"} =>
           /\ bg.pc # "idle" => bg_compaction_scheduled
           /\ bg.pc \in {"manifest", "install"} => bg.edit.kind # "open"

CallIsScheduled ==
    status = "open" /\ ~bg_error =>
        (imm # NULL \/ manual_compaction \/ NeedsCompaction(vset.current, vset.file_to_compact)
             => bg_compaction_scheduled)

CurrentManifest == disk.manifests[disk.current]
NumbersInv ==
    status # "down" =>
        /\ disk.current # 0 /\ vset.manifest_file_number # 0
        /\ mem \in DOMAIN disk.logs /\ vset.log_number <= mem /\ mem < vset.next_file_number
        /\ \A n \in DOMAIN disk.logs : n >= vset.log_number => n < vset.next_file_number
        /\ CurrentManifest.log_number >= vset.log_number
        /\ bg.pc \in {"manifest", "install"} =>
               vset.log_number <= bg.edit.log_number /\ bg.edit.log_number <= mem
        /\ bg.pc = "install" => CurrentManifest.log_number = bg.edit.log_number
        /\ status # "opening" \/ bg.pc = "install" => disk.current = vset.manifest_file_number

IsBatch(b) ==
    /\ b = [id |-> b.id, sync |-> b.sync, applied |-> b.applied, durable |-> b.durable,
            after_failure |-> b.after_failure, log |-> b.log, record |-> b.record, ops |-> b.ops]
    /\ b.log \in Nat /\ b.record \in Nat
OldestLog == IF status = "down" THEN CurrentManifest.log_number ELSE vset.log_number
\* The batches of the logs from number n on are there, and can be read unless an
\* append had failed before.
OnDisk(h, n, logs) ==
    \A i \in DOMAIN h : h[i].log >= n =>
        /\ h[i].log \in DOMAIN logs
        /\ h[i].record <= Len(logs[h[i].log].records)
        /\ h[i].record \in logs[h[i].log].dropped => h[i].after_failure
HistoryInv ==
    /\ IsSequence(history)
    /\ \A i \in DOMAIN history : IsBatch(history[i])
    /\ disk.current = 0 => history = <<>>
    /\ disk.current # 0 => OnDisk(history, OldestLog, disk.logs)

\* The batches of the last record of mem's log are safe, if they asked for that.
LastIsDurable(h, m, logs) ==
    \A i \in DOMAIN h :
        h[i].sync /\ h[i].log = m /\ h[i].record = Len(logs[m].records) =>
            h[i].durable \/ h[i].after_failure
SyncInv ==
    /\ IsSequence(writers)
    /\ SyncedWritesAreDurable
    /\ leader.pc = "logged" /\ leader.ok => LastIsDurable(history, mem, disk.logs)
    /\ leader.pc = "sync_error" => leader.ok = FALSE
    /\ status = "opening" /\ bg.pc = "manifest" =>
           \A i \in DOMAIN history : history[i].log < bg.edit.log_number
    /\ status = "opening" /\ bg.pc = "install" =>
           \A i \in DOMAIN history : history[i].durable

\* The inductive invariant.
DBInv == /\ DiskInv /\ VsetInv /\ ThreadsInv /\ StatusInv /\ CallIsScheduled
         /\ NumbersInv /\ HistoryInv /\ SyncInv

-----------------------------------------------------------------------------
(* What each action changes                                                 *)

\* The actions that change the disk.
LEMMA DiskChanges ==
    ASSUME Next
    PROVE  \/ NewDB \/ Open \/ SwitchMemtable \/ WriteGroup \/ FlushTable \/ WriteOutput
           \/ WriteManifest \/ WriteManifestFails \/ Install \/ PowerLoss
           \/ UNCHANGED disk
<1>1. ASSUME NEW w \in Writers, NEW b \in Batches, NEW sync \in BOOLEAN, Write(w, b, sync)
      PROVE  UNCHANGED disk
    BY <1>1 DEF Write, files
<1>2. ASSUME NEW r \in Readers, NEW keys, NEW iterate, BeginRead(r, keys, iterate)
      PROVE  UNCHANGED disk
    BY <1>2 DEF BeginRead, files
<1>3. ASSUME NEW r \in Readers, EndRead(r)
      PROVE  UNCHANGED disk
    BY <1>3 DEF EndRead, files
<1>4. ASSUME NEW range \in Ranges, CallCompactRange(range)
      PROVE  UNCHANGED disk
    BY <1>4 DEF CallCompactRange, files
<1>5. OpenFails \/ DelayWrite \/ FailWrite \/ FinishNullWrite => UNCHANGED disk
    BY DEF OpenFails, DelayWrite, FailWrite, FinishNullWrite, files
<1>6. FinishWrite \/ GetSnapshot \/ ReleaseSnapshot => UNCHANGED disk
    BY DEF FinishWrite, GetSnapshot, ReleaseSnapshot, files
<1>7. BackgroundCall \/ BeginNestedFlush \/ AbortCompaction \/ FinishCompaction => UNCHANGED disk
    BY DEF BackgroundCall, BeginNestedFlush, AbortCompaction, FinishCompaction, files
<1>8. FinishCompactMemTable \/ StartManual \/ FinishManual => UNCHANGED disk
    BY DEF FinishCompactMemTable, StartManual, FinishManual, files
<1>9. Close \/ Closed \/ Kill => UNCHANGED disk
    BY DEF Close, Closed, Kill, files
<1> QED
    BY <1>1, <1>2, <1>3, <1>4, <1>5, <1>6, <1>7, <1>8, <1>9 DEF Next

\* The actions that change the version set.
LEMMA VsetChanges ==
    ASSUME Next
    PROVE  \/ Open \/ SwitchMemtable \/ FinishWrite \/ \E r \in Readers : EndRead(r)
           \/ BackgroundCall \/ BeginNestedFlush \/ WriteOutput \/ OpenFails \/ Install
           \/ Closed \/ Kill \/ PowerLoss
           \/ UNCHANGED vset
<1>1. ASSUME NEW w \in Writers, NEW b \in Batches, NEW sync \in BOOLEAN, Write(w, b, sync)
      PROVE  UNCHANGED vset
    BY <1>1 DEF Write
<1>2. ASSUME NEW r \in Readers, NEW keys, NEW iterate, BeginRead(r, keys, iterate)
      PROVE  UNCHANGED vset
    BY <1>2 DEF BeginRead
<1>4. ASSUME NEW range \in Ranges, CallCompactRange(range)
      PROVE  UNCHANGED vset
    BY <1>4 DEF CallCompactRange
<1>5. NewDB \/ DelayWrite \/ FailWrite \/ FinishNullWrite \/ WriteGroup => UNCHANGED vset
    BY DEF NewDB, DelayWrite, FailWrite, FinishNullWrite, WriteGroup
<1>6. GetSnapshot \/ ReleaseSnapshot => UNCHANGED vset
    BY DEF GetSnapshot, ReleaseSnapshot
<1>7. FlushTable \/ AbortCompaction \/ FinishCompaction \/ WriteManifest \/ WriteManifestFails =>
          UNCHANGED vset
    BY DEF FlushTable, AbortCompaction, FinishCompaction, WriteManifest, WriteManifestFails
<1>8. FinishCompactMemTable \/ StartManual \/ FinishManual \/ Close => UNCHANGED vset
    BY DEF FinishCompactMemTable, StartManual, FinishManual, Close
<1> QED
    BY <1>1, <1>2, <1>4, <1>5, <1>6, <1>7, <1>8 DEF Next

\* A version set with other values of some fields.
LEMMA VersionsExcept ==
    ASSUME NEW v, IsVersions(v)
    PROVE  /\ \A x : [v EXCEPT !.next_file_number = x] =
                  [current |-> v.current, file_to_compact |-> v.file_to_compact,
                   next_file_number |-> x, last_sequence |-> v.last_sequence,
                   log_number |-> v.log_number, manifest_file_number |-> v.manifest_file_number,
                   compact_pointer |-> v.compact_pointer]
           /\ \A x : [v EXCEPT !.last_sequence = x] =
                  [current |-> v.current, file_to_compact |-> v.file_to_compact,
                   next_file_number |-> v.next_file_number, last_sequence |-> x,
                   log_number |-> v.log_number, manifest_file_number |-> v.manifest_file_number,
                   compact_pointer |-> v.compact_pointer]
           /\ \A x : [v EXCEPT !.file_to_compact = x] =
                  [current |-> v.current, file_to_compact |-> x,
                   next_file_number |-> v.next_file_number, last_sequence |-> v.last_sequence,
                   log_number |-> v.log_number, manifest_file_number |-> v.manifest_file_number,
                   compact_pointer |-> v.compact_pointer]
           /\ \A x : [v EXCEPT !.compact_pointer = x] =
                  [current |-> v.current, file_to_compact |-> v.file_to_compact,
                   next_file_number |-> v.next_file_number, last_sequence |-> v.last_sequence,
                   log_number |-> v.log_number, manifest_file_number |-> v.manifest_file_number,
                   compact_pointer |-> x]
           /\ \A x, y : [v EXCEPT !.current = x, !.log_number = y, !.file_to_compact = {}] =
                  [current |-> x, file_to_compact |-> {},
                   next_file_number |-> v.next_file_number, last_sequence |-> v.last_sequence,
                   log_number |-> y, manifest_file_number |-> v.manifest_file_number,
                   compact_pointer |-> v.compact_pointer]
<1> DEFINE a == v.current
           b == v.file_to_compact
           c == v.next_file_number
           d == v.last_sequence
           e == v.log_number
           f == v.manifest_file_number
           g == v.compact_pointer
<1>1. v = [current |-> a, file_to_compact |-> b, next_file_number |-> c, last_sequence |-> d,
          log_number |-> e, manifest_file_number |-> f, compact_pointer |-> g]
    BY DEF IsVersions
<1> HIDE DEF a, b, c, d, e, f, g
<1>2. ASSUME NEW x
      PROVE  [v EXCEPT !.next_file_number = x] =
                  [current |-> a, file_to_compact |-> b, next_file_number |-> x,
                   last_sequence |-> d, log_number |-> e, manifest_file_number |-> f,
                   compact_pointer |-> g]
    BY <1>1
<1>3. ASSUME NEW x
      PROVE  [v EXCEPT !.last_sequence = x] =
                  [current |-> a, file_to_compact |-> b, next_file_number |-> c,
                   last_sequence |-> x, log_number |-> e, manifest_file_number |-> f,
                   compact_pointer |-> g]
    BY <1>1
<1>4. ASSUME NEW x
      PROVE  [v EXCEPT !.file_to_compact = x] =
                  [current |-> a, file_to_compact |-> x, next_file_number |-> c,
                   last_sequence |-> d, log_number |-> e, manifest_file_number |-> f,
                   compact_pointer |-> g]
    BY <1>1
<1>5. ASSUME NEW x
      PROVE  [v EXCEPT !.compact_pointer = x] =
                  [current |-> a, file_to_compact |-> b, next_file_number |-> c,
                   last_sequence |-> d, log_number |-> e, manifest_file_number |-> f,
                   compact_pointer |-> x]
    BY <1>1
<1>6. ASSUME NEW x, NEW y
      PROVE  [v EXCEPT !.current = x, !.log_number = y, !.file_to_compact = {}] =
                  [current |-> x, file_to_compact |-> {}, next_file_number |-> c,
                   last_sequence |-> d, log_number |-> y, manifest_file_number |-> f,
                   compact_pointer |-> g]
    <2>1. PICK u1 : u1 = [v EXCEPT !.current = x]
        OBVIOUS
    <2>2. u1 = [current |-> x, file_to_compact |-> b, next_file_number |-> c,
                   last_sequence |-> d, log_number |-> e, manifest_file_number |-> f,
                   compact_pointer |-> g]
        BY <1>1, <2>1
    <2>3. [v EXCEPT !.current = x, !.log_number = y, !.file_to_compact = {}] =
              [u1 EXCEPT !.log_number = y, !.file_to_compact = {}]
        BY <2>1
    <2>4. PICK u2 : u2 = [u1 EXCEPT !.log_number = y]
        OBVIOUS
    <2>5. u2 = [current |-> x, file_to_compact |-> b, next_file_number |-> c,
                   last_sequence |-> d, log_number |-> y, manifest_file_number |-> f,
                   compact_pointer |-> g]
        BY <2>2, <2>4
    <2>6. [u1 EXCEPT !.log_number = y, !.file_to_compact = {}] = [u2 EXCEPT !.file_to_compact = {}]
        BY <2>4
    <2>7. [u2 EXCEPT !.file_to_compact = {}] = [current |-> x, file_to_compact |-> {},
              next_file_number |-> c,
                   last_sequence |-> d, log_number |-> y, manifest_file_number |-> f,
                   compact_pointer |-> g]
        BY <2>5
    <2> QED
        BY <2>3, <2>6, <2>7
<1> QED
    BY <1>2, <1>3, <1>4, <1>5, <1>6 DEF a, b, c, d, e, f, g

\* The members of a finite function are finitely many.
LEMMA RangeIsFinite ==
    ASSUME NEW S, IsFiniteSet(S), NEW f, DOMAIN f = S
    PROVE  IsFiniteSet({f[x] : x \in S})
<1> DEFINE T == {f[x] : x \in S}
           g == [x \in S |-> f[x]]
<1>1. g \in [S -> T] /\ \A t \in T : \E x \in S : g[x] = t
    OBVIOUS
<1>2. g \in Surjection(S, T)
    BY <1>1 DEF Surjection
<1> HIDE DEF T, g
<1>3. IsFiniteSet(T)
    BY <1>2, FS_Surjection
<1> QED
    BY <1>3 DEF T

\* Applying an edit of finitely many files leaves level 0 finite.
LEMMA ApplyEditIsFinite ==
    ASSUME NEW v, NEW edit, IsFiniteSet(v[0]), IsFiniteSet(edit.new_files)
    PROVE  IsFiniteSet(ApplyEdit(v, edit)[0])
<1> DEFINE kept == {f \in v[0] : <<0, f.number>> \notin edit.deleted_files}
           new == {n \in edit.new_files : n[1] = 0}
           g == [a \in new |-> a[2]]
<1>1. IsFiniteSet(kept)
    BY FS_Subset
<1>2. IsFiniteSet(new)
    BY FS_Subset
<1>3. IsFiniteSet({g[a] : a \in new})
    <2> HIDE DEF new
    <2>1. DOMAIN g = new
        OBVIOUS
    <2> HIDE DEF g
    <2> QED
        BY <1>2, <2>1, RangeIsFinite
<1>4. {g[a] : a \in new} = {a[2] : a \in new}
    OBVIOUS
<1>5. IsFiniteSet(kept \cup {a[2] : a \in new})
    <2> HIDE DEF kept, new, g
    <2> QED
        BY <1>1, <1>3, <1>4, FS_Union
<1>6. 0 \in Levels
    BY VersionsAssumption DEF Levels
<1> QED
    BY <1>5, <1>6 DEF ApplyEdit

\* Every step leaves a version set with all its fields.
LEMMA VsetStep ==
    ASSUME DBInv, [Next]_vars
    PROVE  VsetInv'
<1>1. IsVersions(vset)
    BY DEF DBInv, VsetInv
<1>2. CASE UNCHANGED vset
    BY <1>1, <1>2 DEF VsetInv, IsVersions
<1>3. IsVersions(NoVersions)
    <2>1. 0 \in Levels
        BY VersionsAssumption DEF Levels
    <2>2. IsFiniteSet({})
        BY FS_EmptySet
    <2> QED
        BY <2>1, <2>2 DEF NoVersions, IsVersions, EmptyVersion
<1>4. CASE OpenFails \/ Closed \/ Kill \/ PowerLoss
    <2>1. vset' = NoVersions
        BY <1>4 DEF OpenFails, Closed, Kill, PowerLoss, EndProcess
    <2> QED
        BY <1>3, <2>1 DEF VsetInv
<1>5. CASE SwitchMemtable \/ BeginNestedFlush \/ WriteOutput
    <2>1. PICK x : vset' = [vset EXCEPT !.next_file_number = x] /\ x = vset.next_file_number + 1
        BY <1>5 DEF SwitchMemtable, BeginNestedFlush, WriteOutput
    <2>2. x \in Nat
        BY <1>1, <2>1 DEF IsVersions
    <2>3. vset' = [current |-> vset.current, file_to_compact |-> vset.file_to_compact,
                   next_file_number |-> x, last_sequence |-> vset.last_sequence,
                   log_number |-> vset.log_number, manifest_file_number |-> vset.manifest_file_number,
                   compact_pointer |-> vset.compact_pointer]
        BY <1>1, <2>1, VersionsExcept
    <2> QED
        BY <1>1, <2>2, <2>3 DEF VsetInv, IsVersions
<1>6. CASE FinishWrite
    <2>1. PICK x : vset' = [vset EXCEPT !.last_sequence = x]
        BY <1>6 DEF FinishWrite
    <2> QED
        BY <1>1, <2>1, VersionsExcept DEF VsetInv, IsVersions
<1>7. ASSUME NEW r \in Readers, EndRead(r)
      PROVE  VsetInv'
    <2>1. (\E x : vset' = [vset EXCEPT !.file_to_compact = x]) \/ UNCHANGED vset
        BY <1>7 DEF EndRead
    <2>2. CASE \E x : vset' = [vset EXCEPT !.file_to_compact = x]
        BY <1>1, <2>2, VersionsExcept DEF VsetInv, IsVersions
    <2> QED
        BY <1>2, <2>1, <2>2
<1>8. CASE BackgroundCall
    <2>1. \/ UNCHANGED vset
          \/ vset' = [vset EXCEPT !.next_file_number = vset.next_file_number + 1]
          \/ \E c : vset' = [vset EXCEPT !.compact_pointer =
                        [vset.compact_pointer EXCEPT ![c.level] = c.pointer]]
        BY <1>8, <1>1 DEF BackgroundCall, IsVersions
    <2>2. CASE vset' = [vset EXCEPT !.next_file_number = vset.next_file_number + 1]
        <3> DEFINE x == vset.next_file_number + 1
        <3>1. x \in Nat
            BY <1>1 DEF IsVersions
        <3> HIDE DEF x
        <3>2. vset' = [current |-> vset.current, file_to_compact |-> vset.file_to_compact,
                       next_file_number |-> x, last_sequence |-> vset.last_sequence,
                       log_number |-> vset.log_number,
                           manifest_file_number |-> vset.manifest_file_number,
                       compact_pointer |-> vset.compact_pointer]
            BY <1>1, <2>2, VersionsExcept DEF x
        <3> QED
            BY <1>1, <3>1, <3>2 DEF VsetInv, IsVersions
    <2>3. CASE \E x : vset' = [vset EXCEPT !.compact_pointer = x]
        BY <1>1, <2>3, VersionsExcept DEF VsetInv, IsVersions
    <2> QED
        BY <1>2, <2>1, <2>2, <2>3
<1>9. CASE Install
    <2>1. IsEdit(bg.edit)
        BY <1>9 DEF Install, DBInv, ThreadsInv, IsWork
    <2> DEFINE x == ApplyEdit(vset.current, bg.edit.version_edit)
               y == bg.edit.log_number
    <2>2. vset' = [vset EXCEPT !.current = x, !.log_number = y, !.file_to_compact = {}]
        BY <1>9 DEF Install
    <2>3. IsFiniteSet(x[0])
        BY <1>1, <2>1, ApplyEditIsFinite DEF IsEdit, IsVersions
    <2>4. y \in Nat
        BY <2>1 DEF IsEdit
    <2> HIDE DEF x, y
    <2> QED
        BY <1>1, <2>2, <2>3, <2>4, VersionsExcept DEF VsetInv, IsVersions
<1>10. CASE Open
    <2> DEFINE m == disk.manifests[disk.current]
               r == RecoverLogs(m)
    <2>1. IsManifest(m)
        BY <1>10 DEF Open, DBInv, DiskInv, AreManifests
    <2>2. IsRecovery(r)
        BY <2>1, RecoverLogsKeeps DEF DBInv, DiskInv, AreLogs, IsManifest, IsLog
    <2>3. \E last : vset' = [current |-> m.files, file_to_compact |-> {},
                        next_file_number |-> r.next + 1,
                  last_sequence |-> last, log_number |-> m.log_number,
                  manifest_file_number |-> m.next_file, compact_pointer |-> m.compact_pointer]
        BY <1>10 DEF Open
    <2> HIDE DEF m, r
    <2> QED
        BY <2>1, <2>2, <2>3 DEF VsetInv, IsVersions, IsManifest, IsRecovery
<1> QED
    BY <1>2, <1>4, <1>5, <1>6, <1>7, <1>8, <1>9, <1>10, VsetChanges DEF vars

\* The locals of the background thread with other values of some.
LEMMA WorkExcept ==
    ASSUME NEW v, IsWork(v)
    PROVE  /\ \A x, y : [v EXCEPT !.pc = x, !.edit = y] =
                  [pc |-> x, number |-> v.number, is_manual |-> v.is_manual,
                   compaction |-> v.compaction, todo |-> v.todo, outputs |-> v.outputs,
                   edit |-> y]
           /\ \A x, y, z : [v EXCEPT !.pc = x, !.compaction = y, !.edit = z] =
                  [pc |-> x, number |-> v.number, is_manual |-> v.is_manual, compaction |-> y,
                   todo |-> v.todo, outputs |-> v.outputs, edit |-> z]
           /\ \A x, y, z, w : [v EXCEPT !.pc = x, !.is_manual = y, !.compaction = z, !.todo = w] =
                  [pc |-> x, number |-> v.number, is_manual |-> y, compaction |-> z, todo |-> w,
                   outputs |-> v.outputs, edit |-> v.edit]
           /\ \A x, y : [v EXCEPT !.pc = x, !.number = y] =
                  [pc |-> x, number |-> y, is_manual |-> v.is_manual,
                   compaction |-> v.compaction, todo |-> v.todo, outputs |-> v.outputs,
                   edit |-> v.edit]
           /\ \A x, y, z : [v EXCEPT !.pc = x, !.number = y, !.edit = z] =
                  [pc |-> x, number |-> y, is_manual |-> v.is_manual,
                   compaction |-> v.compaction, todo |-> v.todo, outputs |-> v.outputs,
                   edit |-> z]
           /\ \A x, y : [v EXCEPT !.todo = x, !.outputs = y] =
                  [pc |-> v.pc, number |-> v.number, is_manual |-> v.is_manual,
                   compaction |-> v.compaction, todo |-> x, outputs |-> y, edit |-> v.edit]
           /\ \A x : [v EXCEPT !.pc = x] =
                  [pc |-> x, number |-> v.number, is_manual |-> v.is_manual,
                   compaction |-> v.compaction, todo |-> v.todo, outputs |-> v.outputs,
                   edit |-> v.edit]
<1> DEFINE a == v.pc
           b == v.number
           c == v.is_manual
           d == v.compaction
           e == v.todo
           f == v.outputs
           g == v.edit
<1>1. v = [pc |-> a, number |-> b, is_manual |-> c, compaction |-> d, todo |-> e, outputs |-> f,
          edit |-> g]
    BY DEF IsWork
<1> HIDE DEF a, b, c, d, e, f, g
<1>2. ASSUME NEW x, NEW y
      PROVE  [v EXCEPT !.pc = x, !.edit = y] =
                  [pc |-> x, number |-> b, is_manual |-> c, compaction |-> d, todo |-> e,
                   outputs |-> f, edit |-> y]
    <2>1. PICK u1 : u1 = [v EXCEPT !.pc = x]
        OBVIOUS
    <2>2. u1 = [pc |-> x, number |-> b, is_manual |-> c, compaction |-> d, todo |-> e,
                   outputs |-> f, edit |-> g]
        BY <1>1, <2>1
    <2>3. [v EXCEPT !.pc = x, !.edit = y] = [u1 EXCEPT !.edit = y]
        BY <2>1
    <2>4. [u1 EXCEPT !.edit = y] = [pc |-> x, number |-> b, is_manual |-> c, compaction |-> d,
              todo |-> e,
                   outputs |-> f, edit |-> y]
        BY <2>2
    <2> QED
        BY <2>3, <2>4
<1>3. ASSUME NEW x, NEW y, NEW z
      PROVE  [v EXCEPT !.pc = x, !.compaction = y, !.edit = z] =
                  [pc |-> x, number |-> b, is_manual |-> c, compaction |-> y, todo |-> e,
                   outputs |-> f, edit |-> z]
    <2>1. PICK u1 : u1 = [v EXCEPT !.pc = x]
        OBVIOUS
    <2>2. u1 = [pc |-> x, number |-> b, is_manual |-> c, compaction |-> d, todo |-> e,
                   outputs |-> f, edit |-> g]
        BY <1>1, <2>1
    <2>3. [v EXCEPT !.pc = x, !.compaction = y, !.edit = z] = [u1 EXCEPT !.compaction = y, !.edit = z]
        BY <2>1
    <2>4. PICK u2 : u2 = [u1 EXCEPT !.compaction = y]
        OBVIOUS
    <2>5. u2 = [pc |-> x, number |-> b, is_manual |-> c, compaction |-> y, todo |-> e,
                   outputs |-> f, edit |-> g]
        BY <2>2, <2>4
    <2>6. [u1 EXCEPT !.compaction = y, !.edit = z] = [u2 EXCEPT !.edit = z]
        BY <2>4
    <2>7. [u2 EXCEPT !.edit = z] = [pc |-> x, number |-> b, is_manual |-> c, compaction |-> y,
              todo |-> e,
                   outputs |-> f, edit |-> z]
        BY <2>5
    <2> QED
        BY <2>3, <2>6, <2>7
<1>4. ASSUME NEW x, NEW y, NEW z, NEW w
      PROVE  [v EXCEPT !.pc = x, !.is_manual = y, !.compaction = z, !.todo = w] =
                  [pc |-> x, number |-> b, is_manual |-> y, compaction |-> z, todo |-> w,
                   outputs |-> f, edit |-> g]
    <2>1. PICK u1 : u1 = [v EXCEPT !.pc = x]
        OBVIOUS
    <2>2. u1 = [pc |-> x, number |-> b, is_manual |-> c, compaction |-> d, todo |-> e,
                   outputs |-> f, edit |-> g]
        BY <1>1, <2>1
    <2>3. [v EXCEPT !.pc = x, !.is_manual = y, !.compaction = z, !.todo = w] =
              [u1 EXCEPT !.is_manual = y, !.compaction = z, !.todo = w]
        BY <2>1
    <2>4. PICK u2 : u2 = [u1 EXCEPT !.is_manual = y]
        OBVIOUS
    <2>5. u2 = [pc |-> x, number |-> b, is_manual |-> y, compaction |-> d, todo |-> e,
                   outputs |-> f, edit |-> g]
        BY <2>2, <2>4
    <2>6. [u1 EXCEPT !.is_manual = y, !.compaction = z, !.todo = w] = [u2 EXCEPT !.compaction = z,
              !.todo = w]
        BY <2>4
    <2>7. PICK u3 : u3 = [u2 EXCEPT !.compaction = z]
        OBVIOUS
    <2>8. u3 = [pc |-> x, number |-> b, is_manual |-> y, compaction |-> z, todo |-> e,
                   outputs |-> f, edit |-> g]
        BY <2>5, <2>7
    <2>9. [u2 EXCEPT !.compaction = z, !.todo = w] = [u3 EXCEPT !.todo = w]
        BY <2>7
    <2>10. [u3 EXCEPT !.todo = w] = [pc |-> x, number |-> b, is_manual |-> y, compaction |-> z,
               todo |-> w,
                   outputs |-> f, edit |-> g]
        BY <2>8
    <2> QED
        BY <2>3, <2>6, <2>9, <2>10
<1>5. ASSUME NEW x, NEW y
      PROVE  [v EXCEPT !.pc = x, !.number = y] =
                  [pc |-> x, number |-> y, is_manual |-> c, compaction |-> d, todo |-> e,
                   outputs |-> f, edit |-> g]
    <2>1. PICK u1 : u1 = [v EXCEPT !.pc = x]
        OBVIOUS
    <2>2. u1 = [pc |-> x, number |-> b, is_manual |-> c, compaction |-> d, todo |-> e,
                   outputs |-> f, edit |-> g]
        BY <1>1, <2>1
    <2>3. [v EXCEPT !.pc = x, !.number = y] = [u1 EXCEPT !.number = y]
        BY <2>1
    <2>4. [u1 EXCEPT !.number = y] = [pc |-> x, number |-> y, is_manual |-> c, compaction |-> d,
              todo |-> e,
                   outputs |-> f, edit |-> g]
        BY <2>2
    <2> QED
        BY <2>3, <2>4
<1>6. ASSUME NEW x, NEW y, NEW z
      PROVE  [v EXCEPT !.pc = x, !.number = y, !.edit = z] =
                  [pc |-> x, number |-> y, is_manual |-> c, compaction |-> d, todo |-> e,
                   outputs |-> f, edit |-> z]
    <2>1. PICK u1 : u1 = [v EXCEPT !.pc = x]
        OBVIOUS
    <2>2. u1 = [pc |-> x, number |-> b, is_manual |-> c, compaction |-> d, todo |-> e,
                   outputs |-> f, edit |-> g]
        BY <1>1, <2>1
    <2>3. [v EXCEPT !.pc = x, !.number = y, !.edit = z] = [u1 EXCEPT !.number = y, !.edit = z]
        BY <2>1
    <2>4. PICK u2 : u2 = [u1 EXCEPT !.number = y]
        OBVIOUS
    <2>5. u2 = [pc |-> x, number |-> y, is_manual |-> c, compaction |-> d, todo |-> e,
                   outputs |-> f, edit |-> g]
        BY <2>2, <2>4
    <2>6. [u1 EXCEPT !.number = y, !.edit = z] = [u2 EXCEPT !.edit = z]
        BY <2>4
    <2>7. [u2 EXCEPT !.edit = z] = [pc |-> x, number |-> y, is_manual |-> c, compaction |-> d,
              todo |-> e,
                   outputs |-> f, edit |-> z]
        BY <2>5
    <2> QED
        BY <2>3, <2>6, <2>7
<1>7. ASSUME NEW x, NEW y
      PROVE  [v EXCEPT !.todo = x, !.outputs = y] =
                  [pc |-> a, number |-> b, is_manual |-> c, compaction |-> d, todo |-> x,
                   outputs |-> y, edit |-> g]
    <2>1. PICK u1 : u1 = [v EXCEPT !.todo = x]
        OBVIOUS
    <2>2. u1 = [pc |-> a, number |-> b, is_manual |-> c, compaction |-> d, todo |-> x,
                   outputs |-> f, edit |-> g]
        BY <1>1, <2>1
    <2>3. [v EXCEPT !.todo = x, !.outputs = y] = [u1 EXCEPT !.outputs = y]
        BY <2>1
    <2>4. [u1 EXCEPT !.outputs = y] = [pc |-> a, number |-> b, is_manual |-> c, compaction |-> d,
              todo |-> x,
                   outputs |-> y, edit |-> g]
        BY <2>2
    <2> QED
        BY <2>3, <2>4
<1>8. ASSUME NEW x
      PROVE  [v EXCEPT !.pc = x] =
                  [pc |-> x, number |-> b, is_manual |-> c, compaction |-> d, todo |-> e,
                   outputs |-> f, edit |-> g]
    BY <1>1
<1> QED
    BY <1>2, <1>3, <1>4, <1>5, <1>6, <1>7, <1>8 DEF a, b, c, d, e, f, g

\* The locals of the thread that leads, with other values of some.
LEMMA LeaderExcept ==
    ASSUME NEW v, IsLeader(v)
    PROVE  /\ \A x : [v EXCEPT !.delayed = x] =
                  [pc |-> v.pc, forced |-> v.forced, delayed |-> x, group |-> v.group,
                   ok |-> v.ok]
           /\ \A x : [v EXCEPT !.forced = x] =
                  [pc |-> v.pc, forced |-> x, delayed |-> v.delayed, group |-> v.group,
                   ok |-> v.ok]
           /\ \A x, y, z : [v EXCEPT !.pc = x, !.group = y, !.ok = z] =
                  [pc |-> x, forced |-> v.forced, delayed |-> v.delayed, group |-> y, ok |-> z]
<1> DEFINE a == v.pc
           b == v.forced
           c == v.delayed
           d == v.group
           e == v.ok
<1>1. v = [pc |-> a, forced |-> b, delayed |-> c, group |-> d, ok |-> e]
    BY DEF IsLeader
<1> HIDE DEF a, b, c, d, e
<1>2. ASSUME NEW x
      PROVE  [v EXCEPT !.delayed = x] =
                  [pc |-> a, forced |-> b, delayed |-> x, group |-> d, ok |-> e]
    BY <1>1
<1>3. ASSUME NEW x
      PROVE  [v EXCEPT !.forced = x] =
                  [pc |-> a, forced |-> x, delayed |-> c, group |-> d, ok |-> e]
    BY <1>1
<1>4. ASSUME NEW x, NEW y, NEW z
      PROVE  [v EXCEPT !.pc = x, !.group = y, !.ok = z] =
                  [pc |-> x, forced |-> b, delayed |-> c, group |-> y, ok |-> z]
    <2>1. PICK u1 : u1 = [v EXCEPT !.pc = x]
        OBVIOUS
    <2>2. u1 = [pc |-> x, forced |-> b, delayed |-> c, group |-> d, ok |-> e]
        BY <1>1, <2>1
    <2>3. [v EXCEPT !.pc = x, !.group = y, !.ok = z] = [u1 EXCEPT !.group = y, !.ok = z]
        BY <2>1
    <2>4. PICK u2 : u2 = [u1 EXCEPT !.group = y]
        OBVIOUS
    <2>5. u2 = [pc |-> x, forced |-> b, delayed |-> c, group |-> y, ok |-> e]
        BY <2>2, <2>4
    <2>6. [u1 EXCEPT !.group = y, !.ok = z] = [u2 EXCEPT !.ok = z]
        BY <2>4
    <2>7. [u2 EXCEPT !.ok = z] = [pc |-> x, forced |-> b, delayed |-> c, group |-> y, ok |-> z]
        BY <2>5
    <2> QED
        BY <2>3, <2>6, <2>7
<1> QED
    BY <1>2, <1>3, <1>4 DEF a, b, c, d, e

-----------------------------------------------------------------------------
(* The group of writers that one record is for                              *)

\* BuildBatchGroup takes writers along as long as each joins, which one that
\* asks for a sync does only if the first one does.
LEMMA BuildBatchGroupJoins ==
    ASSUME IsSequence(writers), writers # <<>>
    PROVE  /\ BuildBatchGroup \in DOMAIN writers
           /\ \A i \in 1 .. BuildBatchGroup : writers[i].sync => FirstWriter.sync
<1> DEFINE size(n) == FoldLeft(LAMBDA s, w : s + Len(w.ops), 0, SubSeq(writers, 1, n))
           joins(n) == /\ ~(writers[n].sync /\ ~FirstWriter.sync)
                       /\ writers[n].ops = <<>> \/ size(n) <= MaxGroup
           Group(n) == /\ \A i \in 2 .. n : joins(i)
                       /\ n = Len(writers) \/ ~joins(n + 1)
           Ends == {n \in DOMAIN writers : n = Len(writers) \/ ~joins(n + 1)}
<1>1. DOMAIN writers = 1 .. Len(writers) /\ Len(writers) \in Nat
    BY SequenceIndices
<1>2. Len(writers) >= 1 /\ writers[1] = FirstWriter
    <2>1. Head(writers) = writers[1]
        BY DEF Head
    <2>2. Len(writers) # 0
        BY EmptySeq DEF IsSequence
    <2> QED
        BY <1>1, <2>1, <2>2 DEF FirstWriter
<1>3. BuildBatchGroup = CHOOSE n \in DOMAIN writers : Group(n)
    BY Zenon DEF BuildBatchGroup
<1>4. \A n : joins(n) => ~(writers[n].sync /\ ~FirstWriter.sync)
    OBVIOUS
<1> HIDE DEF joins
<1>5. \E n \in DOMAIN writers : Group(n)
    <2>1. Ends \in SUBSET Nat /\ Ends # {}
        BY <1>1, <1>2
    <2>2. PICK n \in Ends : \A m \in Ends : n <= m
        BY <2>1, LeastNumber
    <2>3. n \in DOMAIN writers /\ (n = Len(writers) \/ ~joins(n + 1))
        OBVIOUS
    <2>4. ASSUME NEW i \in 2 .. n
          PROVE  joins(i)
        <3>1. i - 1 \in DOMAIN writers /\ i - 1 < n /\ i - 1 # Len(writers) /\ (i - 1) + 1 = i
            BY <1>1, <2>3
        <3>2. n \in Nat /\ i - 1 \in Nat
            BY <1>1, <2>3
        <3>3. i - 1 \notin Ends
            BY <2>2, <3>1, <3>2
        <3> QED
            BY <3>1, <3>3
    <2> QED
        BY <2>3, <2>4
<1>6. BuildBatchGroup \in DOMAIN writers /\ Group(BuildBatchGroup)
    <2> HIDE DEF Group
    <2> QED
        BY <1>3, <1>5
<1>7. ASSUME NEW i \in 1 .. BuildBatchGroup, writers[i].sync
      PROVE  FirstWriter.sync
    <2>1. CASE i = 1
        BY <1>2, <1>7, <2>1
    <2>2. CASE i # 1
        <3>1. i \in 2 .. BuildBatchGroup
            BY <1>1, <1>6, <2>2
        <3> QED
            BY <1>4, <1>6, <1>7, <3>1
    <2> QED
        BY <2>1, <2>2
<1> QED
    BY <1>6, <1>7


\* The actions that change the thread that leads.
LEMMA LeaderChanges ==
    ASSUME Next
    PROVE  \/ /\ leader' = NoLeader
              /\ FailWrite \/ FinishNullWrite \/ FinishWrite \/ Closed \/ Kill \/ PowerLoss
           \/ \E x : leader' = [leader EXCEPT !.delayed = x]
           \/ \E x : leader' = [leader EXCEPT !.forced = x]
           \/ WriteGroup
           \/ UNCHANGED leader
<1>1. ASSUME NEW w \in Writers, NEW b \in Batches, NEW sync \in BOOLEAN, Write(w, b, sync)
      PROVE  UNCHANGED leader
    BY <1>1 DEF Write
<1>2. ASSUME NEW r \in Readers, NEW keys, NEW iterate, BeginRead(r, keys, iterate) \/ EndRead(r)
      PROVE  UNCHANGED leader
    BY <1>2 DEF BeginRead, EndRead, queue
<1>3. ASSUME NEW range \in Ranges, CallCompactRange(range)
      PROVE  UNCHANGED leader
    BY <1>3 DEF CallCompactRange
<1>4. NewDB \/ Open \/ OpenFails => UNCHANGED leader
    BY DEF NewDB, Open, OpenFails, queue
<1>5. DelayWrite => \E x : leader' = [leader EXCEPT !.delayed = x]
    BY DEF DelayWrite
<1>6. SwitchMemtable => \E x : leader' = [leader EXCEPT !.forced = x]
    BY DEF SwitchMemtable
<1>7. FailWrite \/ FinishNullWrite \/ FinishWrite => leader' = NoLeader
    BY DEF FailWrite, FinishNullWrite, FinishWrite
<1>8. GetSnapshot \/ ReleaseSnapshot \/ BackgroundCall \/ BeginNestedFlush => UNCHANGED leader
    BY DEF GetSnapshot, ReleaseSnapshot, BackgroundCall, BeginNestedFlush, queue
<1>9. FlushTable \/ WriteOutput \/ AbortCompaction \/ FinishCompaction => UNCHANGED leader
    BY DEF FlushTable, WriteOutput, AbortCompaction, FinishCompaction, queue
<1>10. WriteManifest \/ WriteManifestFails \/ Install => UNCHANGED leader
    BY DEF WriteManifest, WriteManifestFails, Install, queue
<1>11. FinishCompactMemTable \/ StartManual \/ FinishManual \/ Close => UNCHANGED leader
    BY DEF FinishCompactMemTable, StartManual, FinishManual, Close, queue
<1>12. Closed \/ Kill \/ PowerLoss => leader' = NoLeader
    BY DEF Closed, Kill, PowerLoss, EndProcess
<1> QED
    BY <1>1, <1>2, <1>3, <1>4, <1>5, <1>6, <1>7, <1>8, <1>9, <1>10, <1>11, <1>12 DEF Next

\* What WriteGroup makes of the locals of the thread that leads.
LEMMA WriteGroupLeads ==
    ASSUME WriteGroup
    PROVE  \E x \in {"logged", "sync_error"}, y \in {BuildBatchGroup} : \E z :
               leader' = [leader EXCEPT !.pc = x, !.group = y, !.ok = z]
BY DEF WriteGroup

\* Every step leaves the leading thread with all its locals.
LEMMA LeaderStep ==
    ASSUME DBInv, [Next]_vars
    PROVE  IsLeader(leader')
<1>1. IsLeader(leader)
    BY DEF DBInv, ThreadsInv
<1>2. CASE leader' = NoLeader
    BY <1>2 DEF NoLeader, IsLeader
<1>3. CASE UNCHANGED leader
    BY <1>1, <1>3
<1>4. ASSUME NEW x, leader' = [leader EXCEPT !.delayed = x]
      PROVE  IsLeader(leader')
    BY <1>1, <1>4, LeaderExcept DEF IsLeader
<1>5. ASSUME NEW x, leader' = [leader EXCEPT !.forced = x]
      PROVE  IsLeader(leader')
    BY <1>1, <1>5, LeaderExcept DEF IsLeader
<1>6. CASE WriteGroup
    <2>1. PICK x \in {"logged", "sync_error"}, y \in {BuildBatchGroup} :
              \E z : leader' = [leader EXCEPT !.pc = x, !.group = y, !.ok = z]
        BY <1>6, WriteGroupLeads
    <2>2. PICK z : leader' = [leader EXCEPT !.pc = x, !.group = y, !.ok = z]
        BY <2>1
    <2>2a. writers # <<>>
        BY <1>6, Zenon DEF WriteGroup, Leading
    <2>3. y \in Nat
        BY <2>2a, BuildBatchGroupJoins, SequenceIndices DEF DBInv, SyncInv
    <2> QED
        BY <1>1, <2>1, <2>2, <2>3, LeaderExcept DEF IsLeader
<1> QED
    BY <1>2, <1>3, <1>4, <1>5, <1>6, LeaderChanges DEF vars, queue

\* EditFor builds an edit.
LEMMA EditForIsEdit ==
    ASSUME NEW kind \in {"open", "flush", "move", "compaction"}, NEW ve, NEW n \in Nat, NEW vs,
           vs.next_file_number \in Nat, n < vs.next_file_number, IsFiniteSet(ve.new_files)
    PROVE  IsEdit(EditFor(kind, ve, n, vs))
BY DEF EditFor, IsEdit

\* The files that a version edit adds.
LEMMA VersionEditFiles ==
    ASSUME NEW d, NEW a, NEW p
    PROVE  VersionEdit(d, a, p).new_files = a
BY DEF VersionEdit

\* The actions that change the background thread, and how.
LEMMA BgChanges ==
    ASSUME Next
    PROVE  \/ bg' = NoWork
           \/ Open \/ BackgroundCall \/ BeginNestedFlush \/ FlushTable \/ WriteOutput
           \/ FinishCompaction \/ WriteManifest \/ WriteManifestFails \/ Install
           \/ UNCHANGED bg
<1>1. ASSUME NEW w \in Writers, NEW b \in Batches, NEW sync \in BOOLEAN, Write(w, b, sync)
      PROVE  UNCHANGED bg
    BY <1>1 DEF Write, work
<1>2. ASSUME NEW r \in Readers, NEW keys, NEW iterate, BeginRead(r, keys, iterate)
      PROVE  UNCHANGED bg
    BY <1>2 DEF BeginRead, work
<1>2a. ASSUME NEW r \in Readers, EndRead(r)
      PROVE  UNCHANGED bg
    BY <1>2a DEF EndRead
<1>3. ASSUME NEW range \in Ranges, CallCompactRange(range)
      PROVE  UNCHANGED bg
    BY <1>3 DEF CallCompactRange, work
<1>4. NewDB \/ DelayWrite \/ SwitchMemtable \/ FailWrite \/ FinishNullWrite => UNCHANGED bg
    BY DEF NewDB, DelayWrite, SwitchMemtable, FailWrite, FinishNullWrite, work
<1>5. WriteGroup \/ FinishWrite \/ GetSnapshot \/ ReleaseSnapshot => UNCHANGED bg
    BY DEF WriteGroup, FinishWrite, GetSnapshot, ReleaseSnapshot, work
<1>6. AbortCompaction \/ OpenFails => bg' = NoWork
    BY DEF AbortCompaction, EndCall, OpenFails
<1>7. FinishCompactMemTable \/ StartManual \/ FinishManual \/ Close => UNCHANGED bg
    BY DEF FinishCompactMemTable, StartManual, FinishManual, Close, work
<1>8. Closed \/ Kill \/ PowerLoss => bg' = NoWork
    BY DEF Closed, Kill, PowerLoss, EndProcess
<1> QED
    BY <1>1, <1>2, <1>2a, <1>3, <1>4, <1>5, <1>6, <1>7, <1>8 DEF Next

\* The thread that flushed goes on with what it did, or its call ends.
LEMMA AfterFlushWorks ==
    ASSUME NEW vs, NEW i, NEW error, AfterFlush(vs, i, error)
    PROVE  bg' = NoWork \/ bg' = [bg EXCEPT !.pc = "work", !.number = NULL, !.edit = NoEdit]
BY DEF AfterFlush, EndCall

\* The files that recovery wrote are finitely many.
LEMMA WrittenIsFinite ==
    ASSUME NEW s, IsSequence(s)
    PROVE  IsFiniteSet({<<0, FileMetaData(s[i][1], s[i][2])>> : i \in DOMAIN s})
<1> DEFINE g == [i \in DOMAIN s |-> <<0, FileMetaData(s[i][1], s[i][2])>>]
<1>1. DOMAIN s = 1 .. Len(s) /\ Len(s) \in Nat
    BY SequenceIndices
<1>2. IsFiniteSet(DOMAIN s)
    BY <1>1, FS_Interval
<1>3. DOMAIN g = DOMAIN s
    OBVIOUS
<1>4. {g[i] : i \in DOMAIN s} = {<<0, FileMetaData(s[i][1], s[i][2])>> : i \in DOMAIN s}
    OBVIOUS
<1> HIDE DEF g
<1>5. IsFiniteSet({g[i] : i \in DOMAIN s})
    BY <1>2, <1>3, RangeIsFinite
<1> QED
    BY <1>4, <1>5

\* Recovery ends with a number above those of all logs it read.
LEMMA OpenStartsWithRecovery ==
    ASSUME DBInv, Open
    PROVE  LET m == CurrentManifest
               r == RecoverLogs(m)
           IN /\ IsManifest(m) /\ IsRecovery(r) /\ m.next_file < r.next
              /\ \A n \in DOMAIN disk.logs : n >= m.log_number => n < r.next
<1> DEFINE m == CurrentManifest
<1>1. IsManifest(m)
    BY DEF Open, DBInv, DiskInv, AreManifests, CurrentManifest
<1>2. m.next_file \in Nat
    BY <1>1 DEF IsManifest
<1>3. /\ IsFiniteSet(DOMAIN disk.logs) /\ DOMAIN disk.logs \subseteq Nat
      /\ \A n \in DOMAIN disk.logs : IsSequence(disk.logs[n].records)
    BY DEF DBInv, DiskInv, AreLogs, IsLog
<1> HIDE DEF m
<1>4. /\ IsRecovery(RecoverLogs(m)) /\ m.next_file < RecoverLogs(m).next
      /\ \A n \in DOMAIN disk.logs : n >= m.log_number => n < RecoverLogs(m).next
    BY <1>2, <1>3, RecoverLogsKeeps
<1> QED
    BY <1>1, <1>4 DEF m

\* The edit that each action begins is one.
LEMMA OpenEdits ==
    ASSUME DBInv, Open
    PROVE  \E e : /\ bg' = [bg EXCEPT !.pc = "manifest", !.edit = e] /\ IsEdit(e)
                  /\ e.kind = "open" /\ e.log_number = RecoverLogs(CurrentManifest).next
<1> DEFINE m == CurrentManifest
           r == RecoverLogs(m)
           new == {<<0, FileMetaData(r.written[i][1], r.written[i][2])>> : i \in DOMAIN r.written}
           e == EditFor("open", VersionEdit({}, new, {}), r.next, vset')
<1>1. bg' = [bg EXCEPT !.pc = "manifest", !.edit = e]
    BY DEF Open, CurrentManifest
<1>2. IsRecovery(r)
    BY OpenStartsWithRecovery
<1>3. IsFiniteSet(new)
    <2> HIDE DEF r
    <2> QED
        BY <1>2, WrittenIsFinite DEF IsRecovery
<1>4. vset'.next_file_number = r.next + 1
    BY DEF Open, CurrentManifest
<1> HIDE DEF new, r
<1>5. r.next \in Nat /\ vset'.next_file_number \in Nat /\ r.next < vset'.next_file_number
    BY <1>2, <1>4 DEF IsRecovery
<1>6. IsEdit(e)
    BY <1>3, <1>5, EditForIsEdit, VersionEditFiles
<1>7. e.kind = "open" /\ e.log_number = r.next
    BY DEF EditFor
<1> HIDE DEF e
<1> QED
    BY <1>1, <1>6, <1>7 DEF r

\* The numbers an edit may carry while a process runs.
LEMMA RunningNumbers ==
    ASSUME DBInv, status # "down"
    PROVE  /\ mem \in Nat /\ vset.log_number \in Nat /\ vset.next_file_number \in Nat
           /\ vset.log_number <= mem /\ mem < vset.next_file_number
           /\ vset.log_number < vset.next_file_number
<1>1. mem \in Nat /\ vset.log_number \in Nat /\ vset.next_file_number \in Nat
    BY DEF DBInv, NumbersInv, DiskInv, AreLogs, VsetInv, IsVersions
<1>2. vset.log_number <= mem /\ mem < vset.next_file_number
    BY DEF DBInv, NumbersInv
<1> QED
    BY <1>1, <1>2

\* The background thread is idle while no process runs.
LEMMA BusyIsRunning ==
    ASSUME DBInv, bg.pc # "idle"
    PROVE  status # "down"
BY DEF DBInv, StatusInv, InitProcess, NoWork

\* What a flush hands on: nothing, or an edit that names the log in use.
LEMMA FlushEdits ==
    ASSUME DBInv, FlushTable
    PROVE  \/ bg' = NoWork
           \/ bg' = [bg EXCEPT !.pc = "work", !.number = NULL, !.edit = NoEdit]
           \/ \E e : /\ bg' = [bg EXCEPT !.pc = "manifest", !.edit = e] /\ IsEdit(e)
                     /\ e.kind = "flush" /\ e.log_number = mem
<1> DEFINE es == memtables[imm]
           f == FileMetaData(bg.number, es)
           level == PickLevelForMemTableOutput(vset.current, <<f.smallest[1], f.largest[1]>>)
           added == IF es = {} THEN {} ELSE {<<level, f>>}
           e == EditFor("flush", VersionEdit({}, added, {}), mem, vset)
<1>1. \/ bg' = [bg EXCEPT !.pc = "manifest", !.edit = e]
      \/ AfterFlush(vset, imm, TRUE)
    BY DEF FlushTable
<1>2. IsFiniteSet(added)
    <2>1. added = {} \/ \E x : added = {x}
        OBVIOUS
    <2> QED
        BY <2>1, FS_EmptySet, FS_Singleton
<1>3. e.kind = "flush" /\ e.log_number = mem
    BY DEF EditFor
<1> HIDE DEF added
<1>4. status # "down"
    BY BusyIsRunning DEF FlushTable
<1>5. IsEdit(e)
    BY <1>2, <1>4, RunningNumbers, EditForIsEdit, VersionEditFiles
<1> HIDE DEF e
<1> QED
    BY <1>1, <1>3, <1>5, AfterFlushWorks

\* A finished compaction hands on an edit that keeps the log number.
LEMMA CompactionEdits ==
    ASSUME DBInv, FinishCompaction
    PROVE  \E e : /\ bg' = [bg EXCEPT !.pc = "manifest", !.edit = e] /\ IsEdit(e)
                  /\ e.kind = "compaction" /\ e.log_number = vset.log_number
<1> DEFINE c == bg.compaction
           g == [f \in bg.outputs |-> <<c.level + 1, f>>]
           new == {<<c.level + 1, f>> : f \in bg.outputs}
           e == EditFor("compaction", VersionEdit(AddInputDeletions(c), new, Pointer(c)),
                        vset.log_number, vset)
<1>1. bg' = [bg EXCEPT !.pc = "manifest", !.edit = e]
    BY DEF FinishCompaction
<1>2. IsFiniteSet(new)
    <2>1. DOMAIN g = bg.outputs /\ {g[f] : f \in bg.outputs} = new
        OBVIOUS
    <2>2. IsFiniteSet(bg.outputs)
        BY DEF DBInv, ThreadsInv, IsWork
    <2> HIDE DEF g, new
    <2> QED
        BY <2>1, <2>2, RangeIsFinite
<1>3. e.kind = "compaction" /\ e.log_number = vset.log_number
    BY DEF EditFor
<1> HIDE DEF new
<1>4. status # "down"
    BY BusyIsRunning DEF FinishCompaction
<1>5. IsEdit(e)
    BY <1>2, <1>4, RunningNumbers, EditForIsEdit, VersionEditFiles
<1> HIDE DEF e
<1> QED
    BY <1>1, <1>3, <1>5

\* What a background call starts with: a flush, a compaction or a move.
LEMMA BackgroundCallBegins ==
    ASSUME DBInv, BackgroundCall
    PROVE  \/ bg' = NoWork
           \/ /\ status = "open" /\ bg_compaction_scheduled'
              /\ \/ \E x : bg' = [bg EXCEPT !.pc = "flush", !.number = x]
                 \/ \E x, y, z : bg' = [bg EXCEPT !.pc = "work", !.is_manual = x, !.compaction = y,
                                     !.todo = z]
                 \/ \E c, e : /\ bg' = [bg EXCEPT !.pc = "manifest", !.compaction = c, !.edit =
                                     e] /\ IsEdit(e)
                              /\ e.kind = "move" /\ e.log_number = vset.log_number
<1>1. CASE bg' = NoWork
    BY <1>1
<1>2. CASE status = "open" /\ UNCHANGED bg_compaction_scheduled /\ \E x : bg' = [bg EXCEPT !.pc =
               "flush", !.number = x]
    BY <1>2 DEF BackgroundCall
<1>3. ASSUME NEW c, Work(c), status = "open", UNCHANGED bg_compaction_scheduled
      PROVE  /\ status = "open" /\ bg_compaction_scheduled'
             /\ \E x, y, z : bg' = [bg EXCEPT !.pc = "work", !.is_manual = x, !.compaction = y,
                                 !.todo = z]
    <2> DEFINE smallest == IF snapshots = <<>> THEN vset.last_sequence ELSE Head(snapshots)
               input == UNION {disk.tables[f.number] : f \in c.inputs0 \cup c.inputs1}
               outputs == CompactionOutputs(c, input, smallest)
    <2>1. bg' = [bg EXCEPT !.pc = "work", !.is_manual = manual_compaction, !.compaction = c,
              !.todo = outputs]
        BY <1>3 DEF Work
    <2> HIDE DEF outputs
    <2> QED
        BY <2>1, <1>3 DEF BackgroundCall
<1>4. ASSUME NEW c, Move(c), status = "open", UNCHANGED bg_compaction_scheduled
      PROVE  /\ status = "open" /\ bg_compaction_scheduled'
             /\ \E d, e : /\ bg' = [bg EXCEPT !.pc = "manifest", !.compaction = d, !.edit =
                                 e] /\ IsEdit(e)
                          /\ e.kind = "move" /\ e.log_number = vset.log_number
    <2> DEFINE f == CHOOSE f \in c.inputs0 : TRUE
               new == {<<c.level + 1, f>>}
               e == EditFor("move", VersionEdit({<<c.level, f.number>>}, new, Pointer(c)),
                   vset.log_number, vset)
    <2>1. bg' = [bg EXCEPT !.pc = "manifest", !.compaction = c, !.edit = e]
        BY <1>4 DEF Move
    <2>2. IsFiniteSet(new)
        BY FS_Singleton
    <2>3. e.kind = "move" /\ e.log_number = vset.log_number
        BY DEF EditFor
    <2> HIDE DEF new
    <2>4. IsEdit(e)
        BY <1>4, <2>2, RunningNumbers, EditForIsEdit, VersionEditFiles
    <2> HIDE DEF e
    <2> QED
        BY <1>4, <2>1, <2>3, <2>4 DEF BackgroundCall
<1>5. \/ bg' = NoWork
      \/ /\ status = "open" /\ UNCHANGED bg_compaction_scheduled
         /\ \/ \E x : bg' = [bg EXCEPT !.pc = "flush", !.number = x]
            \/ \E c : Work(c) \/ Move(c)
    BY DEF BackgroundCall, EndCall
<1> QED
    BY <1>1, <1>2, <1>3, <1>4, <1>5

\* Every step leaves the background thread with all its locals.
LEMMA BgStep ==
    ASSUME DBInv, [Next]_vars
    PROVE  IsWork(bg')
<1>1. IsWork(bg)
    BY DEF DBInv, ThreadsInv
<1>2. CASE bg' = NoWork
    BY <1>2, FS_EmptySet DEF NoWork, IsWork
<1>3. CASE UNCHANGED bg
    BY <1>1, <1>3
<1>4. ASSUME NEW e, bg' = [bg EXCEPT !.pc = "manifest", !.edit = e], IsEdit(e)
      PROVE  IsWork(bg')
    BY <1>1, <1>4, WorkExcept DEF IsWork
<1>5. CASE bg' = [bg EXCEPT !.pc = "work", !.number = NULL, !.edit = NoEdit]
    BY <1>1, <1>5, WorkExcept DEF IsWork
<1>6. CASE Open
    BY <1>4, <1>6, OpenEdits
<1>7. CASE FlushTable
    BY <1>2, <1>4, <1>5, <1>7, FlushEdits
<1>8. CASE FinishCompaction
    BY <1>4, <1>8, CompactionEdits
<1>9. ASSUME NEW x, bg' = [bg EXCEPT !.pc = "flush", !.number = x]
      PROVE  IsWork(bg')
    BY <1>1, <1>9, WorkExcept DEF IsWork
<1>10. CASE BackgroundCall
    <2>1. ASSUME NEW x, NEW y, NEW z,
                 bg' = [bg EXCEPT !.pc = "work", !.is_manual = x, !.compaction = y, !.todo = z]
          PROVE  IsWork(bg')
        BY <1>1, <2>1, WorkExcept DEF IsWork
    <2>2. ASSUME NEW c, NEW e, IsEdit(e),
                 bg' = [bg EXCEPT !.pc = "manifest", !.compaction = c, !.edit = e]
          PROVE  IsWork(bg')
        BY <1>1, <2>2, WorkExcept DEF IsWork
    <2> QED
        BY <1>2, <1>9, <1>10, <2>1, <2>2, BackgroundCallBegins
<1>11. CASE BeginNestedFlush
    BY <1>9, <1>11 DEF BeginNestedFlush
<1>12. CASE WriteOutput
    <2>1. PICK x, y : bg' = [bg EXCEPT !.todo = x, !.outputs = bg.outputs \cup {y}]
        BY <1>1, <1>12 DEF WriteOutput, IsWork
    <2>2. IsFiniteSet(bg.outputs \cup {y})
        BY <1>1, FS_AddElement DEF IsWork
    <2> DEFINE o == bg.outputs \cup {y}
    <2> HIDE DEF o
    <2>3. bg' = [bg EXCEPT !.todo = x, !.outputs = o] /\ IsFiniteSet(o)
        BY <2>1, <2>2 DEF o
    <2> QED
        BY <1>1, <2>3, WorkExcept DEF IsWork
<1>13. CASE WriteManifest
    <2>1. bg' = [bg EXCEPT !.pc = "install"] /\ bg.pc = "manifest"
        BY <1>13 DEF WriteManifest
    <2> QED
        BY <1>1, <2>1, WorkExcept DEF IsWork
<1>14. CASE WriteManifestFails
    <2>1. EndCall(vset, imm, manual_compaction', TRUE) \/ AfterFlush(vset, imm, TRUE)
        BY <1>14 DEF WriteManifestFails
    <2> QED
        BY <1>2, <1>5, <2>1, AfterFlushWorks DEF EndCall
<1>15. CASE Install
    BY <1>2, <1>5, <1>15, AfterFlushWorks DEF Install, EndCall
<1> QED
    BY <1>2, <1>3, <1>6, <1>7, <1>8, <1>10, <1>11, <1>12, <1>13, <1>14, <1>15, BgChanges DEF vars, work

-----------------------------------------------------------------------------
(* The status of the process, and the calls that are scheduled              *)

\* The actions of a process that is open or about to close.
Serving ==
    \/ \E w \in Writers, b \in Batches, sync \in BOOLEAN : Write(w, b, sync)
    \/ DelayWrite \/ SwitchMemtable \/ FailWrite \/ FinishNullWrite \/ WriteGroup \/ FinishWrite
    \/ GetSnapshot \/ ReleaseSnapshot
    \/ \E r \in Readers : \/ \E k \in Keys : BeginRead(r, {k}, FALSE)
                          \/ BeginRead(r, Keys, TRUE)
                          \/ EndRead(r)
    \/ BackgroundCall \/ BeginNestedFlush \/ FlushTable \/ WriteOutput \/ AbortCompaction
    \/ FinishCompaction \/ WriteManifestFails
    \/ \E range \in Ranges : CallCompactRange(range)
    \/ FinishCompactMemTable \/ StartManual \/ FinishManual
    \/ Close

\* The steps: opening, installing, closing, failing, or serving.
LEMMA NextCases ==
    ASSUME Next
    PROVE  NewDB \/ Open \/ OpenFails \/ WriteManifest \/ Install \/ Closed \/ Kill \/ PowerLoss \/ Serving
BY DEF Next, Serving

\* A thread leads only while the database runs.
LEMMA LeadingIsServing ==
    ASSUME DBInv, Leading
    PROVE  status \in {"open", "closing"}
BY DEF DBInv, StatusInv, InitProcess, Opening, Leading

\* The background thread works only while the database runs.
LEMMA WorkingIsServing ==
    ASSUME DBInv, bg.pc \in {"work", "flush"} \/ (bg.pc = "manifest" /\ bg.edit.kind # "open")
    PROVE  status \in {"open", "closing"}
BY DEF DBInv, StatusInv, InitProcess, NoWork, Opening

\* A manual compaction waits only while the database runs.
LEMMA CallingIsServing ==
    ASSUME DBInv, caller.pc # "idle"
    PROVE  status \in {"open", "closing"}
BY DEF DBInv, StatusInv, InitProcess, Opening, NoCaller

\* A running database goes on running, or starts to close.
LEMMA ServingStatus ==
    ASSUME DBInv, Serving
    PROVE  /\ status \in {"open", "closing"}
           /\ status' = status \/ (status = "open" /\ status' = "closing")
<1>1. CASE \E w \in Writers, b \in Batches, sync \in BOOLEAN : Write(w, b, sync)
    BY <1>1 DEF Write
<1>2. CASE DelayWrite \/ SwitchMemtable \/ FailWrite \/ FinishNullWrite \/ WriteGroup
    <2>1. Leading /\ UNCHANGED status
        BY <1>2 DEF DelayWrite, SwitchMemtable, MaySwitch, FailWrite, FinishNullWrite, WriteGroup
    <2> QED
        BY <2>1, LeadingIsServing
<1>3. CASE FinishWrite
    <2>1. leader.pc \in {"logged", "sync_error"} /\ UNCHANGED status
        BY <1>3 DEF FinishWrite
    <2> QED
        BY <2>1 DEF DBInv, StatusInv, InitProcess, Opening, NoLeader
<1>4. CASE GetSnapshot \/ ReleaseSnapshot
    BY <1>4 DEF GetSnapshot, ReleaseSnapshot
<1>5. ASSUME NEW r \in Readers, NEW keys, NEW iterate, BeginRead(r, keys, iterate)
      PROVE  status = "open" /\ status' = status
    BY <1>5 DEF BeginRead
<1>6. ASSUME NEW r \in Readers, EndRead(r)
      PROVE  status = "open" /\ status' = status
    BY <1>6 DEF EndRead
<1>7. CASE BackgroundCall
    <2>1. bg_compaction_scheduled /\ UNCHANGED status
        BY <1>7 DEF BackgroundCall
    <2> QED
        BY <2>1 DEF DBInv, StatusInv, InitProcess, Opening
<1>8. CASE BeginNestedFlush \/ FlushTable \/ WriteOutput \/ AbortCompaction \/ FinishCompaction
    <2>1. bg.pc \in {"work", "flush"} /\ UNCHANGED status
        BY <1>8 DEF BeginNestedFlush, FlushTable, WriteOutput, AbortCompaction, FinishCompaction
    <2> QED
        BY <2>1, WorkingIsServing
<1>9. CASE WriteManifestFails
    <2>1. bg.pc = "manifest" /\ bg.edit.kind # "open" /\ UNCHANGED status
        BY <1>9 DEF WriteManifestFails
    <2> QED
        BY <2>1, WorkingIsServing
<1>10. ASSUME NEW range \in Ranges, CallCompactRange(range)
       PROVE  status = "open" /\ status' = status
    BY <1>10 DEF CallCompactRange
<1>11. CASE FinishCompactMemTable \/ StartManual \/ FinishManual
    <2>1. caller.pc # "idle" /\ UNCHANGED status
        BY <1>11 DEF FinishCompactMemTable, StartManual, FinishManual
    <2> QED
        BY <2>1, CallingIsServing
<1>12. CASE Close
    BY <1>12 DEF Close
<1> QED
    BY <1>1, <1>2, <1>3, <1>4, <1>5, <1>6, <1>7, <1>8, <1>9, <1>10, <1>11, <1>12 DEF Serving

\* While the background thread is busy its call stays scheduled.
Busy == /\ bg.pc # "idle" => bg_compaction_scheduled
        /\ bg.pc \in {"manifest", "install"} => bg.edit.kind # "open"

\* The end of a call leaves the thread idle,
LEMMA EndCallIsIdle ==
    ASSUME NEW vs, NEW i, NEW man, NEW error, EndCall(vs, i, man, error)
    PROVE  Busy'
BY DEF EndCall, NoWork, Busy

\* and the end of a nested flush leaves its call scheduled.
LEMMA AfterFlushIsBusy ==
    ASSUME DBInv, bg.pc # "idle", status \in {"open", "closing"},
           NEW vs, NEW i, NEW error, AfterFlush(vs, i, error)
    PROVE  Busy'
<1>1. CASE EndCall(vs, i, manual_compaction, error)
    BY <1>1, EndCallIsIdle
<1>2. CASE /\ bg' = [bg EXCEPT !.pc = "work", !.number = NULL, !.edit = NoEdit]
           /\ UNCHANGED bg_compaction_scheduled
    <2>1. IsWork(bg)
        BY DEF DBInv, ThreadsInv
    <2>2. bg'.pc = "work"
        BY <1>2, <2>1, WorkExcept, ZenonT(60)
    <2>3. bg_compaction_scheduled
        BY DEF DBInv, StatusInv
    <2> QED
        BY <1>2, <2>2, <2>3 DEF Busy
<1> QED
    BY <1>1, <1>2 DEF AfterFlush

\* A step of a running database keeps the call of a busy thread scheduled.
LEMMA ServingIsBusy ==
    ASSUME DBInv, Serving
    PROVE  Busy'
<1>1. status \in {"open", "closing"}
    BY ServingStatus
<1>2. Busy /\ IsWork(bg)
    BY <1>1 DEF DBInv, StatusInv, Busy, ThreadsInv
<1>3. ASSUME UNCHANGED bg, bg_compaction_scheduled => bg_compaction_scheduled'
      PROVE  Busy'
    BY <1>2, <1>3 DEF Busy
<1>4. CASE \E w \in Writers, b \in Batches, sync \in BOOLEAN : Write(w, b, sync)
    BY <1>3, <1>4 DEF Write, work
<1>5. CASE DelayWrite \/ FailWrite \/ FinishNullWrite \/ WriteGroup \/ FinishWrite \/ GetSnapshot \/ ReleaseSnapshot
    BY <1>3, <1>5 DEF DelayWrite, FailWrite, FinishNullWrite, WriteGroup, FinishWrite, GetSnapshot,
       ReleaseSnapshot, work
<1>6. CASE SwitchMemtable
    BY <1>3, <1>6 DEF SwitchMemtable, Scheduled
<1>7. ASSUME NEW r \in Readers, NEW keys, NEW iterate, BeginRead(r, keys, iterate)
      PROVE  Busy'
    BY <1>3, <1>7 DEF BeginRead, work
<1>8. ASSUME NEW r \in Readers, EndRead(r)
      PROVE  Busy'
    <2>1. UNCHANGED bg
        BY <1>8 DEF EndRead
    <2>2. \/ UNCHANGED bg_compaction_scheduled
          \/ bg_compaction_scheduled' = Scheduled(bg_compaction_scheduled, vset', imm,
                 manual_compaction, bg_error)
        BY <1>8 DEF EndRead
    <2> QED
        BY <1>3, <2>1, <2>2 DEF Scheduled
<1>9. CASE BackgroundCall
    <2>1. CASE bg' = NoWork
        BY <2>1 DEF Busy, NoWork
    <2>2. ASSUME NEW x, bg' = [bg EXCEPT !.pc = "flush", !.number = x], bg_compaction_scheduled'
          PROVE  Busy'
        <3>1. bg'.pc = "flush"
            BY <1>2, <2>2, WorkExcept, ZenonT(60)
        <3> QED
            BY <2>2, <3>1 DEF Busy
    <2>3. ASSUME NEW x, NEW y, NEW z, bg_compaction_scheduled',
                 bg' = [bg EXCEPT !.pc = "work", !.is_manual = x, !.compaction = y, !.todo = z]
          PROVE  Busy'
        <3>1. bg'.pc = "work"
            BY <1>2, <2>3 DEF IsWork
        <3> QED
            BY <2>3, <3>1 DEF Busy
    <2>4. ASSUME NEW c, NEW e, bg_compaction_scheduled', e.kind = "move",
                 bg' = [bg EXCEPT !.pc = "manifest", !.compaction = c, !.edit = e]
          PROVE  Busy'
        <3>1. bg'.edit = e
            BY <1>2, <2>4, WorkExcept, ZenonT(60)
        <3> QED
            BY <2>4, <3>1 DEF Busy
    <2> QED
        BY <1>9, <2>1, <2>2, <2>3, <2>4, BackgroundCallBegins
<1>10. CASE BeginNestedFlush
    <2>1. PICK x : bg' = [bg EXCEPT !.pc = "flush", !.number = x]
        BY <1>10 DEF BeginNestedFlush
    <2>2. bg_compaction_scheduled'
        BY <1>2, <1>10 DEF BeginNestedFlush, Busy
    <2>3. bg'.pc = "flush"
        BY <1>2, <2>1, WorkExcept, ZenonT(60)
    <2> QED
        BY <2>2, <2>3 DEF Busy
<1>11. ASSUME NEW e, bg' = [bg EXCEPT !.pc = "manifest", !.edit = e], e.kind # "open",
              bg.pc # "idle", UNCHANGED bg_compaction_scheduled
       PROVE  Busy'
    <2>1. bg'.edit = e
        BY <1>2, <1>11, WorkExcept, ZenonT(60)
    <2> QED
        BY <1>2, <1>11, <2>1 DEF Busy
<1>12. CASE FlushTable
    <2>1. bg.pc # "idle"
        BY <1>12 DEF FlushTable
    <2>2. CASE AfterFlush(vset, imm, TRUE)
        BY <1>1, <2>1, <2>2, AfterFlushIsBusy
    <2>3. CASE /\ UNCHANGED bg_compaction_scheduled
               /\ \E a, n, v : bg' = [bg EXCEPT !.pc = "manifest", !.edit = EditFor("flush", a, n, v)]
        <3>1. PICK a, n, v : bg' = [bg EXCEPT !.pc = "manifest", !.edit = EditFor("flush", a, n, v)]
            BY <2>3
        <3>2. EditFor("flush", a, n, v).kind # "open"
            BY DEF EditFor
        <3> QED
            BY <1>11, <2>1, <2>3, <3>1, <3>2
    <2>4. \/ AfterFlush(vset, imm, TRUE)
          \/ /\ UNCHANGED bg_compaction_scheduled
             /\ \E a : bg' = [bg EXCEPT !.pc = "manifest", !.edit = EditFor("flush", a, mem, vset)]
        BY <1>12 DEF FlushTable
    <2> QED
        BY <2>2, <2>3, <2>4
<1>13. CASE WriteOutput
    <2>1. PICK x, y : bg' = [bg EXCEPT !.todo = x, !.outputs = y]
        BY <1>13 DEF WriteOutput
    <2>2. UNCHANGED bg_compaction_scheduled
        BY <1>13 DEF WriteOutput
    <2>4. bg'.pc = bg.pc /\ bg'.edit = bg.edit
        BY <1>2, <2>1 DEF IsWork
    <2> QED
        BY <1>2, <2>2, <2>4 DEF Busy
<1>14. CASE AbortCompaction
    BY <1>14, EndCallIsIdle DEF AbortCompaction
<1>15. CASE FinishCompaction
    <2>1. bg.pc # "idle" /\ UNCHANGED bg_compaction_scheduled
        BY <1>15 DEF FinishCompaction
    <2> QED
        BY <1>11, <1>15, <2>1, CompactionEdits
<1>16. CASE WriteManifestFails
    <2>1. bg.pc # "idle"
        BY <1>16 DEF WriteManifestFails
    <2>2. EndCall(vset, imm, manual_compaction', TRUE) \/ AfterFlush(vset, imm, TRUE)
        BY <1>16 DEF WriteManifestFails
    <2> QED
        BY <1>1, <2>1, <2>2, EndCallIsIdle, AfterFlushIsBusy
<1>17. ASSUME NEW range \in Ranges, CallCompactRange(range)
       PROVE  Busy'
    BY <1>3, <1>17 DEF CallCompactRange, work
<1>18. CASE FinishCompactMemTable \/ FinishManual \/ Close
    BY <1>3, <1>18 DEF FinishCompactMemTable, FinishManual, Close, work
<1>19. CASE StartManual
    BY <1>3, <1>19 DEF StartManual, Scheduled
<1> QED
    BY <1>4, <1>5, <1>6, <1>7, <1>8, <1>9, <1>10, <1>12, <1>13, <1>14, <1>15, <1>16, <1>17, <1>18,
       <1>19 DEF Serving

\* Every step keeps the relation of the status to the threads.
LEMMA StatusStep ==
    ASSUME DBInv, [Next]_vars
    PROVE  StatusInv'
<1>1. StatusInv /\ IsWork(bg)
    BY DEF DBInv, ThreadsInv
<1>2. CASE UNCHANGED vars
    BY <1>1, <1>2 DEF StatusInv, InitProcess, Opening, vars, tables, queue, work, manual, client
<1>3. CASE NewDB
    BY <1>1, <1>3 DEF NewDB, StatusInv, InitProcess, Opening, tables, queue, work, manual, client
<1>4. CASE Open
    <2>1. InitProcess
        BY <1>1, <1>4 DEF Open, StatusInv
    <2>2. /\ status' = "opening"
          /\ UNCHANGED <<imm, writers, leader, bg_compaction_scheduled, pending_outputs, bg_error,
                         manual_compaction, caller, snapshots, reads>>
        BY <1>4 DEF Open, queue, manual, client
    <2>3. PICK e : bg' = [bg EXCEPT !.pc = "manifest", !.edit = e] /\ e.kind = "open"
        BY <1>4, OpenEdits
    <2>4. bg'.pc = "manifest" /\ bg'.edit = e
        BY <1>1, <2>3, WorkExcept, ZenonT(60)
    <2> QED
        BY <2>1, <2>2, <2>3, <2>4 DEF StatusInv, InitProcess, Opening
<1>5. CASE OpenFails
    <2>1. Opening
        BY <1>1, <1>5 DEF OpenFails, StatusInv
    <2> QED
        BY <1>5, <2>1 DEF OpenFails, StatusInv, InitProcess, Opening, queue, manual, client
<1>6. CASE WriteManifest
    <2>1. bg' = [bg EXCEPT !.pc = "install"] /\ bg.pc = "manifest"
        BY <1>6 DEF WriteManifest
    <2>2. bg'.pc = "install" /\ bg'.edit = bg.edit
        BY <1>1, <2>1 DEF IsWork
    <2>3. UNCHANGED <<status, imm, writers, leader, bg_compaction_scheduled, pending_outputs, bg_error,
                      manual_compaction, caller, snapshots, reads>>
        BY <1>6 DEF WriteManifest, tables, queue, manual, client
    <2>4. status # "down"
        BY <2>1, BusyIsRunning
    <2> QED
        BY <1>1, <2>1, <2>2, <2>3, <2>4 DEF StatusInv, Opening
<1>7. CASE Install
    <2>1. bg.pc = "install" /\ status # "down"
        BY <1>7, BusyIsRunning DEF Install
    <2>2. CASE bg.edit.kind = "open"
        <3>1. status' = "open" /\ bg' = NoWork
            BY <1>7, <2>2 DEF Install
        <3> QED
            BY <3>1 DEF StatusInv, NoWork
    <2>3. CASE bg.edit.kind # "open"
        <3>1. status \in {"open", "closing"} /\ bg_compaction_scheduled
            BY <1>1, <2>1, <2>3 DEF StatusInv, Opening
        <3>2. \/ \E vs, i, error : AfterFlush(vs, i, error)
              \/ \E vs, i, man, error : EndCall(vs, i, man, error)
            BY <1>7, <2>3 DEF Install
        <3>3. Busy'
            BY <2>1, <3>1, <3>2, AfterFlushIsBusy, EndCallIsIdle
        <3>4. UNCHANGED status
            BY <1>7, <2>3 DEF Install
        <3> QED
            BY <3>1, <3>3, <3>4 DEF StatusInv, Busy
    <2> QED
        BY <2>2, <2>3
<1>8. CASE Closed \/ Kill \/ PowerLoss
    <2>1. EndProcess
        BY <1>8 DEF Closed, Kill, PowerLoss
    <2> QED
        BY <2>1 DEF EndProcess, StatusInv, InitProcess
<1>9. CASE Serving
    <2>1. status' \in {"open", "closing"}
        BY <1>9, ServingStatus
    <2>2. Busy'
        BY <1>9, ServingIsBusy
    <2> QED
        BY <2>1, <2>2 DEF StatusInv, Busy
<1> QED
    BY <1>2, <1>3, <1>4, <1>5, <1>6, <1>7, <1>8, <1>9, NextCases

\* What is urgent: a memtable to flush, a manual compaction, or a version that
\* asks for one.
Urgent(vs, i, man) == i # NULL \/ man \/ NeedsCompaction(vs.current, vs.file_to_compact)

\* MaybeScheduleCompaction schedules a call whenever something needs one.
LEMMA ScheduledIsEnough ==
    ASSUME NEW already, NEW vs, NEW i, NEW man, NEW error, status \in {"open", "opening"}, ~error,
           already \/ Urgent(vs, i, man)
    PROVE  Scheduled(already, vs, i, man, error)
BY DEF Scheduled, Urgent

\* So does the end of a call,
LEMMA EndCallSchedules ==
    ASSUME NEW vs, NEW i, NEW man, NEW error, EndCall(vs, i, man, error), status \in {"open", "opening"},
           ~error, Urgent(vs, i, man)
    PROVE  bg_compaction_scheduled'
BY DEF EndCall, Scheduled, Urgent

\* and the end of a flush.
LEMMA AfterFlushSchedules ==
    ASSUME DBInv, bg.pc # "idle", status = "open",
           NEW vs, NEW i, NEW error, AfterFlush(vs, i, error), ~error, Urgent(vs, i, manual_compaction)
    PROVE  bg_compaction_scheduled'
<1>1. bg_compaction_scheduled
    BY DEF DBInv, StatusInv
<1>2. CASE EndCall(vs, i, manual_compaction, error)
    BY <1>2, EndCallSchedules
<1>3. CASE UNCHANGED bg_compaction_scheduled
    BY <1>1, <1>3
<1> QED
    BY <1>2, <1>3 DEF AfterFlush

\* Every step leaves a call scheduled if something needs one.
LEMMA CallIsScheduledStep ==
    ASSUME DBInv, [Next]_vars
    PROVE  CallIsScheduled'
<1> SUFFICES ASSUME status' = "open", ~bg_error', Urgent(vset', imm', manual_compaction')
             PROVE  bg_compaction_scheduled'
    BY DEF CallIsScheduled, Urgent
<1>1. CASE /\ status = "open"
           /\ bg_error => bg_error'
           /\ vset'.current = vset.current /\ vset'.file_to_compact = vset.file_to_compact
           /\ UNCHANGED <<imm, manual_compaction>>
           /\ bg_compaction_scheduled => bg_compaction_scheduled'
    BY <1>1 DEF DBInv, CallIsScheduled, Urgent
<1>2. CASE UNCHANGED vars
    BY <1>1, <1>2 DEF vars, tables, work, manual
<1>3. IsVersions(vset)
    BY DEF DBInv, VsetInv
<1>4. CASE NewDB \/ Open \/ OpenFails
    BY <1>4 DEF NewDB, Open, OpenFails
<1>5. CASE WriteManifest
    BY <1>1, <1>5 DEF WriteManifest, tables, manual
<1>6. CASE Closed \/ Kill \/ PowerLoss
    BY <1>6 DEF Closed, Kill, PowerLoss, EndProcess
<1>7. CASE Install
    <2>1. bg.pc = "install" /\ UNCHANGED bg_error
        BY <1>7 DEF Install
    <2>2. CASE bg.edit.kind = "open"
        <3>1. status = "opening"
            BY <2>1, <2>2, BusyIsRunning DEF DBInv, StatusInv
        <3>2. imm = NULL /\ manual_compaction = FALSE
            BY <3>1 DEF DBInv, StatusInv, Opening
        <3>3. /\ bg_compaction_scheduled' = Scheduled(FALSE, vset', NULL, FALSE, FALSE)
              /\ UNCHANGED <<imm, manual_compaction>>
            BY <1>7, <2>2 DEF Install, manual
        <3>4. Urgent(vset', NULL, FALSE)
            BY <3>2, <3>3
        <3> QED
            BY <3>1, <3>3, <3>4 DEF Scheduled, Urgent
    <2>3. CASE bg.edit.kind # "open"
        <3>1. UNCHANGED status
            BY <1>7, <2>3 DEF Install
        <3>2. \/ imm' = NULL /\ AfterFlush(vset', NULL, bg_error) /\ UNCHANGED manual_compaction
              \/ EndCall(vset', imm, manual_compaction, bg_error) /\ UNCHANGED <<imm, manual_compaction>>
              \/ EndCall(vset', imm, manual_compaction', bg_error) /\ UNCHANGED imm
            BY <1>7, <2>3 DEF Install, manual
        <3> QED
            BY <2>1, <3>1, <3>2, AfterFlushSchedules, EndCallSchedules
    <2> QED
        BY <2>2, <2>3
<1>8. ASSUME Serving
      PROVE  bg_compaction_scheduled'
    <2>1. status = "open"
        BY <1>8, ServingStatus
    <2>2. CASE \E w \in Writers, b \in Batches, sync \in BOOLEAN : Write(w, b, sync)
        BY <1>1, <2>1, <2>2 DEF Write, tables, work, manual
    <2>3. CASE DelayWrite \/ FailWrite \/ FinishNullWrite \/ WriteGroup \/ GetSnapshot \/ ReleaseSnapshot
        BY <1>1, <2>1, <2>3 DEF DelayWrite, FailWrite, FinishNullWrite, WriteGroup, GetSnapshot,
           ReleaseSnapshot,
                                tables, work, manual
    <2>4. CASE FinishWrite
        <3>1. PICK x : vset' = [vset EXCEPT !.last_sequence = x]
            BY <2>4 DEF FinishWrite
        <3>2. vset'.current = vset.current /\ vset'.file_to_compact = vset.file_to_compact
            BY <1>3, <3>1, VersionsExcept, ZenonT(60)
        <3> QED
            BY <1>1, <2>1, <2>4, <3>2 DEF FinishWrite, tables, work
    <2>5. CASE SwitchMemtable
        <3>1. PICK x : vset' = [vset EXCEPT !.next_file_number = x]
            BY <2>5 DEF SwitchMemtable
        <3>2. vset'.current = vset.current /\ vset'.file_to_compact = vset.file_to_compact
            BY <1>3, <3>1, VersionsExcept, ZenonT(60)
        <3>3. /\ bg_compaction_scheduled' = Scheduled(bg_compaction_scheduled, vset, imm',
                     manual_compaction, bg_error)
              /\ UNCHANGED <<manual_compaction, bg_error>>
            BY <2>5 DEF SwitchMemtable, manual
        <3>4. Urgent(vset, imm', manual_compaction)
            BY <3>2, <3>3 DEF Urgent
        <3> QED
            BY <2>1, <3>3, <3>4, ScheduledIsEnough
    <2>6. ASSUME NEW r \in Readers, NEW keys, NEW iterate, BeginRead(r, keys, iterate)
          PROVE  bg_compaction_scheduled'
        BY <1>1, <2>1, <2>6 DEF BeginRead, tables, work, manual
    <2>7. ASSUME NEW r \in Readers, EndRead(r)
          PROVE  bg_compaction_scheduled'
        <3>1. UNCHANGED <<imm, manual_compaction, bg_error>>
            BY <2>7 DEF EndRead, manual
        <3>2. \/ UNCHANGED <<vset, bg_compaction_scheduled>>
              \/ bg_compaction_scheduled' = Scheduled(bg_compaction_scheduled, vset', imm,
                     manual_compaction, bg_error)
            BY <2>7 DEF EndRead
        <3>3. CASE UNCHANGED <<vset, bg_compaction_scheduled>>
            BY <1>1, <2>1, <3>1, <3>3
        <3> QED
            BY <2>1, <3>1, <3>2, <3>3, ScheduledIsEnough
    <2>8. CASE BackgroundCall
        <3>1. UNCHANGED <<imm, bg_error>>
            BY <2>8 DEF BackgroundCall, tables
        <3>2. \/ EndCall(vset, imm, manual_compaction, bg_error) /\ UNCHANGED <<vset, manual_compaction>>
              \/ EndCall(vset, imm, FALSE, bg_error) /\ UNCHANGED vset /\ manual_compaction' = FALSE
              \/ UNCHANGED bg_compaction_scheduled
            BY <2>8 DEF BackgroundCall, manual
        <3>3. bg_compaction_scheduled
            BY <2>8 DEF BackgroundCall
        <3>4. CASE EndCall(vset, imm, manual_compaction, bg_error) /\ UNCHANGED <<vset,
                       manual_compaction>>
            BY <2>1, <3>1, <3>4, EndCallSchedules
        <3>5. CASE EndCall(vset, imm, FALSE, bg_error) /\ UNCHANGED vset /\ manual_compaction' = FALSE
            <4>1. Urgent(vset, imm, FALSE) /\ ~bg_error
                BY <3>1, <3>5
            <4>2. bg_compaction_scheduled' = Scheduled(FALSE, vset, imm, FALSE, bg_error)
                BY <3>5 DEF EndCall
            <4> QED
                BY <2>1, <4>1, <4>2 DEF Scheduled, Urgent
        <3> QED
            BY <3>2, <3>3, <3>4, <3>5
    <2>9. CASE BeginNestedFlush \/ WriteOutput \/ FinishCompaction
        <3>1. bg.pc # "idle" /\ UNCHANGED bg_compaction_scheduled
            BY <2>9 DEF BeginNestedFlush, WriteOutput, FinishCompaction
        <3> QED
            BY <2>1, <3>1 DEF DBInv, StatusInv
    <2>10. CASE FlushTable
        <3>1. bg.pc # "idle" /\ (bg_error' = TRUE \/ UNCHANGED bg_compaction_scheduled)
            BY <2>10 DEF FlushTable, RecordBackgroundError
        <3> QED
            BY <2>1, <3>1 DEF DBInv, StatusInv
    <2>11. CASE AbortCompaction \/ WriteManifestFails
        BY <2>11 DEF AbortCompaction, WriteManifestFails, RecordBackgroundError
    <2>12. ASSUME NEW range \in Ranges, CallCompactRange(range)
           PROVE  bg_compaction_scheduled'
        BY <1>1, <2>1, <2>12 DEF CallCompactRange, tables, work
    <2>13. CASE FinishCompactMemTable
        BY <1>1, <2>1, <2>13 DEF FinishCompactMemTable, tables, work
    <2>14. CASE StartManual
        <3>1. /\ bg_compaction_scheduled' = Scheduled(bg_compaction_scheduled, vset, imm, TRUE, bg_error)
              /\ UNCHANGED bg_error
            BY <2>14 DEF StartManual
        <3>2. Urgent(vset, imm, TRUE)
            BY DEF Urgent
        <3> QED
            BY <2>1, <3>1, <3>2 DEF Scheduled, Urgent
    <2>15. CASE FinishManual
        <3>1. UNCHANGED <<vset, imm, bg_error, bg_compaction_scheduled>> /\ manual_compaction' = FALSE
            BY <2>15 DEF FinishManual, tables, work
        <3> QED
            BY <2>1, <3>1 DEF DBInv, CallIsScheduled, Urgent
    <2>16. CASE Close
        BY <2>16 DEF Close
    <2> QED
        BY <1>8, <2>2, <2>3, <2>4, <2>5, <2>6, <2>7, <2>8, <2>9, <2>10, <2>11, <2>12, <2>13, <2>14,
           <2>15,
           <2>16 DEF Serving
<1> QED
    BY <1>2, <1>4, <1>5, <1>6, <1>7, <1>8, NextCases

\* The files with other values of some of their kinds.
LEMMA DiskExcept ==
    ASSUME NEW v, IsDisk(v)
    PROVE  /\ \A x : [v EXCEPT !.logs = x] =
                  [logs |-> x, tables |-> v.tables, manifests |-> v.manifests,
                   current |-> v.current]
           /\ \A x : [v EXCEPT !.tables = x] =
                  [logs |-> v.logs, tables |-> x, manifests |-> v.manifests,
                   current |-> v.current]
           /\ \A x, y : [v EXCEPT !.current = x, !.manifests = y] =
                  [logs |-> v.logs, tables |-> v.tables, manifests |-> y, current |-> x]
           /\ \A x, y : [v EXCEPT !.logs = x, !.tables = y] =
                  [logs |-> x, tables |-> y, manifests |-> v.manifests, current |-> v.current]
           /\ \A x, y, z : [v EXCEPT !.logs = x, !.manifests = y, !.tables = z] =
                  [logs |-> x, tables |-> z, manifests |-> y, current |-> v.current]
<1> DEFINE a == v.logs
           b == v.tables
           c == v.manifests
           d == v.current
<1>1. v = [logs |-> a, tables |-> b, manifests |-> c, current |-> d]
    BY DEF IsDisk
<1> HIDE DEF a, b, c, d
<1>2. ASSUME NEW x
      PROVE  [v EXCEPT !.logs = x] =
                  [logs |-> x, tables |-> b, manifests |-> c, current |-> d]
    BY <1>1
<1>3. ASSUME NEW x
      PROVE  [v EXCEPT !.tables = x] =
                  [logs |-> a, tables |-> x, manifests |-> c, current |-> d]
    BY <1>1
<1>4. ASSUME NEW x, NEW y
      PROVE  [v EXCEPT !.current = x, !.manifests = y] =
                  [logs |-> a, tables |-> b, manifests |-> y, current |-> x]
    <2>1. PICK u1 : u1 = [v EXCEPT !.current = x]
        OBVIOUS
    <2>2. u1 = [logs |-> a, tables |-> b, manifests |-> c, current |-> x]
        BY <1>1, <2>1
    <2>3. [v EXCEPT !.current = x, !.manifests = y] = [u1 EXCEPT !.manifests = y]
        BY <2>1
    <2>4. [u1 EXCEPT !.manifests = y] = [logs |-> a, tables |-> b, manifests |-> y, current |-> x]
        BY <2>2
    <2> QED
        BY <2>3, <2>4
<1>5. ASSUME NEW x, NEW y
      PROVE  [v EXCEPT !.logs = x, !.tables = y] =
                  [logs |-> x, tables |-> y, manifests |-> c, current |-> d]
    <2>1. PICK u1 : u1 = [v EXCEPT !.logs = x]
        OBVIOUS
    <2>2. u1 = [logs |-> x, tables |-> b, manifests |-> c, current |-> d]
        BY <1>1, <2>1
    <2>3. [v EXCEPT !.logs = x, !.tables = y] = [u1 EXCEPT !.tables = y]
        BY <2>1
    <2>4. [u1 EXCEPT !.tables = y] = [logs |-> x, tables |-> y, manifests |-> c, current |-> d]
        BY <2>2
    <2> QED
        BY <2>3, <2>4
<1>6. ASSUME NEW x, NEW y, NEW z
      PROVE  [v EXCEPT !.logs = x, !.manifests = y, !.tables = z] =
                  [logs |-> x, tables |-> z, manifests |-> y, current |-> d]
    <2>1. PICK u1 : u1 = [v EXCEPT !.logs = x]
        OBVIOUS
    <2>2. u1 = [logs |-> x, tables |-> b, manifests |-> c, current |-> d]
        BY <1>1, <2>1
    <2>3. [v EXCEPT !.logs = x, !.manifests = y, !.tables = z] = [u1 EXCEPT !.manifests = y,
              !.tables = z]
        BY <2>1
    <2>4. PICK u2 : u2 = [u1 EXCEPT !.manifests = y]
        OBVIOUS
    <2>5. u2 = [logs |-> x, tables |-> b, manifests |-> y, current |-> d]
        BY <2>2, <2>4
    <2>6. [u1 EXCEPT !.manifests = y, !.tables = z] = [u2 EXCEPT !.tables = z]
        BY <2>4
    <2>7. [u2 EXCEPT !.tables = z] = [logs |-> x, tables |-> z, manifests |-> y, current |-> d]
        BY <2>5
    <2> QED
        BY <2>3, <2>6, <2>7
<1> QED
    BY <1>2, <1>3, <1>4, <1>5, <1>6 DEF a, b, c, d

-----------------------------------------------------------------------------
(* The files                                                                *)

\* What Put returns.
LEMMA PutProperties ==
    ASSUME NEW f, NEW x, NEW y
    PROVE  /\ DOMAIN Put(f, x, y) = DOMAIN f \cup {x}
           /\ Put(f, x, y)[x] = y
           /\ \A z \in DOMAIN f : z # x => Put(f, x, y)[z] = f[z]
BY DEF Put

\* What Restrict returns.
LEMMA RestrictProperties ==
    ASSUME NEW f, NEW S \in SUBSET DOMAIN f
    PROVE  /\ DOMAIN Restrict(f, S) = S
           /\ \A z \in S : Restrict(f, S)[z] = f[z]
BY DEF Restrict

\* Adding or replacing a log keeps the logs a finite set of logs.
LEMMA PutLog ==
    ASSUME NEW logs, AreLogs(logs), NEW n \in Nat
    PROVE  AreLogs(Put(logs, n, NewLog))
<1> DEFINE l == NewLog
           new == Put(logs, n, l)
<1>1. IsLog(l)
    BY EmptyIsSequence DEF IsLog, NewLog
<1> HIDE DEF l
<1>2. /\ DOMAIN new = DOMAIN logs \cup {n} /\ new[n] = l
      /\ \A z \in DOMAIN logs : z # n => new[z] = logs[z]
    BY DEF Put
<1> HIDE DEF new
<1>3. IsFiniteSet(DOMAIN logs \cup {n})
    BY FS_AddElement DEF AreLogs
<1>4. \A z \in DOMAIN new : IsLog(new[z])
    BY <1>1, <1>2 DEF AreLogs
<1>5. AreLogs(new)
    BY <1>2, <1>3, <1>4 DEF AreLogs
<1> QED
    BY <1>5 DEF new, l

\* Adding or replacing a manifest keeps the manifests manifests.
LEMMA PutManifest ==
    ASSUME NEW manifests, AreManifests(manifests), NEW n, NEW m, IsManifest(m)
    PROVE  AreManifests(Put(manifests, n, m))
BY DEF AreManifests, Put

\* What is left of some files.
PartOf(small, large) ==
    /\ DOMAIN small \subseteq DOMAIN large
    /\ \A n \in DOMAIN small : small[n] = large[n]

\* A part of the logs or of the manifests is as good as the whole.
LEMMA PartsOfDisk ==
    ASSUME NEW f, NEW g, PartOf(g, f)
    PROVE  /\ AreLogs(f) => AreLogs(g)
           /\ AreManifests(f) => AreManifests(g)
<1>1. ASSUME AreLogs(f)
      PROVE  AreLogs(g)
    <2>1. IsFiniteSet(DOMAIN g)
        BY <1>1, FS_Subset DEF AreLogs, PartOf
    <2> QED
        BY <1>1, <2>1 DEF AreLogs, PartOf
<1>2. ASSUME AreManifests(f)
      PROVE  AreManifests(g)
    BY <1>2 DEF AreManifests, PartOf
<1> QED
    BY <1>1, <1>2

\* DeleteObsoleteFiles keeps the logs and the manifests that are not too old.
KeepsYoung(d, dd, vs) ==
    /\ IsDisk(dd) /\ dd.current = d.current
    /\ PartOf(dd.logs, d.logs) /\ PartOf(dd.manifests, d.manifests)
    /\ \A n \in DOMAIN d.logs : n >= vs.log_number => n \in DOMAIN dd.logs
    /\ \A n \in DOMAIN d.manifests : n >= vs.manifest_file_number => n \in DOMAIN dd.manifests

\* DeleteObsoleteFiles keeps every log that is not older than the version set's,
\* and the manifest in use.
LEMMA DeleteKeeps ==
    ASSUME NEW d, IsDisk(d), NEW vs, NEW live, NEW error
    PROVE  KeepsYoung(d, DeleteObsoleteFiles(d, vs, live, error), vs)
<1> DEFINE L == {n \in DOMAIN d.logs : n >= vs.log_number}
           M == {n \in DOMAIN d.manifests : n >= vs.manifest_file_number}
           x == Restrict(d.logs, L)
           y == Restrict(d.manifests, M)
           z == Restrict(d.tables, DOMAIN d.tables \cap live)
           dd == DeleteObsoleteFiles(d, vs, live, error)
<1> HIDE DEF dd
<1>1. ASSUME error
      PROVE  KeepsYoung(d, dd, vs)
    <2>1. dd = d
        BY <1>1 DEF DeleteObsoleteFiles, dd
    <2> QED
        BY <2>1 DEF KeepsYoung, PartOf
<1>2. ASSUME ~error
      PROVE  KeepsYoung(d, dd, vs)
    <2>1. dd = [d EXCEPT !.logs = x, !.manifests = y, !.tables = z]
        BY <1>2 DEF DeleteObsoleteFiles, dd
    <2>2. DOMAIN x = L /\ \A n \in L : x[n] = d.logs[n]
        BY RestrictProperties
    <2>3. DOMAIN y = M /\ \A n \in M : y[n] = d.manifests[n]
        BY RestrictProperties
    <2> HIDE DEF x, y, z
    <2>4. [d EXCEPT !.logs = x, !.manifests = y, !.tables = z] =
              [logs |-> x, tables |-> z, manifests |-> y, current |-> d.current]
        <3>1. \A a, b, c : [d EXCEPT !.logs = a, !.manifests = b, !.tables = c] =
                               [logs |-> a, tables |-> c, manifests |-> b, current |-> d.current]
            BY DiskExcept
        <3> QED
            BY <3>1
    <2>5. IsDisk(dd) /\ dd.current = d.current /\ dd.logs = x /\ dd.manifests = y
        BY <2>1, <2>4 DEF IsDisk
    <2> HIDE DEF L, M
    <2>6. L \subseteq DOMAIN d.logs /\ \A n \in DOMAIN d.logs : n >= vs.log_number => n \in L
        BY DEF L
    <2>7. M \subseteq DOMAIN d.manifests
          /\ \A n \in DOMAIN d.manifests : n >= vs.manifest_file_number => n \in M
        BY DEF M
    <2>8. PartOf(dd.logs, d.logs)
        BY <2>2, <2>5, <2>6 DEF PartOf
    <2>9. PartOf(dd.manifests, d.manifests)
        BY <2>3, <2>5, <2>7 DEF PartOf
    <2> QED
        BY <2>2, <2>3, <2>5, <2>6, <2>7, <2>8, <2>9 DEF KeepsYoung
<1> QED
    BY <1>1, <1>2 DEF dd

\* Install keeps them too.
LEMMA InstallDeletes ==
    ASSUME DBInv, Install
    PROVE  KeepsYoung(disk, disk', vset')
<1>1. IsDisk(disk)
    BY DEF DBInv, DiskInv
<1>2. disk' = disk \/ \E live, error : disk' = DeleteObsoleteFiles(disk, vset', live, error)
    BY DEF Install
<1>3. CASE disk' = disk
    BY <1>1, <1>3 DEF KeepsYoung, PartOf
<1> QED
    BY <1>1, <1>2, <1>3, DeleteKeeps

\* The manifest that WriteManifest makes.
LEMMA FoldedIsManifest ==
    ASSUME NEW base, IsFiniteSet(base[0]), NEW pointers, NEW e, IsEdit(e)
    PROVE  IsManifest(Folded(base, pointers, e)) /\ Folded(base, pointers, e).log_number = e.log_number
<1> DEFINE v == ApplyEdit(base, e.version_edit)
           p == ApplyPointers(pointers, e.version_edit)
<1>1. IsFiniteSet(v[0])
    BY ApplyEditIsFinite DEF IsEdit
<1>2. Folded(base, pointers, e) = [files |-> v, log_number |-> e.log_number, next_file |-> e.next_file,
                                   last_sequence |-> e.last_sequence, compact_pointer |-> p]
    BY DEF Folded
<1> HIDE DEF v, p
<1> QED
    BY <1>1, <1>2 DEF IsManifest, IsEdit

\* CURRENT names the manifest that an opening made, or stays.
LEMMA PersistedDisk ==
    ASSUME DBInv, bg.pc = "manifest"
    PROVE  LET n == IF bg.edit.kind = "open" THEN vset.manifest_file_number ELSE disk.current
           IN \E m : /\ Persisted = [logs |-> disk.logs, tables |-> disk.tables,
                                     manifests |-> Put(disk.manifests, n, m), current |-> n]
                     /\ IsManifest(m) /\ m.log_number = bg.edit.log_number
<1> DEFINE opening == bg.edit.kind = "open"
           n == IF opening THEN vset.manifest_file_number ELSE disk.current
           base == IF opening THEN vset.current ELSE CurrentManifest.files
           pointers == IF opening THEN vset.compact_pointer ELSE CurrentManifest.compact_pointer
           m == Folded(base, pointers, bg.edit)
<1>1. status # "down" /\ IsEdit(bg.edit) /\ IsDisk(disk)
    BY BusyIsRunning DEF DBInv, ThreadsInv, IsWork, DiskInv
<1>2. IsManifest(CurrentManifest)
    BY <1>1 DEF DBInv, NumbersInv, DiskInv, AreManifests, CurrentManifest
<1>3. IsFiniteSet(base[0])
    BY <1>2 DEF IsManifest, DBInv, VsetInv, IsVersions
<1>4. IsManifest(m) /\ m.log_number = bg.edit.log_number
    <2> HIDE DEF base, pointers
    <2> QED
        BY <1>1, <1>3, FoldedIsManifest
<1>5. Persisted = [disk EXCEPT !.current = n, !.manifests = Put(disk.manifests, n, m)]
    BY DEF Persisted, CurrentManifest
<1> HIDE DEF m, n
<1>6. Persisted = [logs |-> disk.logs, tables |-> disk.tables,
                   manifests |-> Put(disk.manifests, n, m), current |-> n]
    BY <1>1, <1>5, DiskExcept
<1> QED
    BY <1>4, <1>6 DEF n

\* A log with one more record.
LogWith(l, x, y, z) == [l EXCEPT !.records = x, !.damaged = y, !.dropped = z]

LEMMA LogWithIs ==
    ASSUME NEW l, IsLog(l), NEW x, NEW y, NEW z
    PROVE  LogWith(l, x, y, z) = [records |-> x, synced |-> l.synced, damaged |-> y, dropped |-> z]
<1> DEFINE b == l.synced
           c == l.damaged
           d == l.dropped
           u == [l EXCEPT !.records = x]
           v == [u EXCEPT !.damaged = y]
<1>1. u = [records |-> x, synced |-> b, damaged |-> c, dropped |-> d]
    <2> DEFINE a == l.records
    <2>1. l = [records |-> a, synced |-> b, damaged |-> c, dropped |-> d]
        BY DEF IsLog
    <2> HIDE DEF a, b, c, d
    <2> QED
        BY <2>1
<1>2. LogWith(l, x, y, z) = [v EXCEPT !.dropped = z]
    BY DEF LogWith
<1> HIDE DEF b, c, d, u
<1>3. v = [records |-> x, synced |-> b, damaged |-> y, dropped |-> d]
    BY <1>1
<1> HIDE DEF v
<1>4. [v EXCEPT !.dropped = z] = [records |-> x, synced |-> b, damaged |-> y, dropped |-> z]
    BY <1>3
<1>5. LogWith(l, x, y, z) = [records |-> x, synced |-> b, damaged |-> y, dropped |-> z]
    BY <1>2, <1>4
<1> QED
    BY <1>5 DEF b

\* A log with some of its fields changed.
LEMMA LogExcept ==
    ASSUME NEW l, IsLog(l), NEW x, NEW y
    PROVE  /\ [l EXCEPT !.damaged = y] =
                  [records |-> l.records, synced |-> l.synced, damaged |-> y, dropped |-> l.dropped]
           /\ [l EXCEPT !.records = x, !.synced = y] =
                  [records |-> x, synced |-> y, damaged |-> l.damaged, dropped |-> l.dropped]
<1> DEFINE a == l.records
           b == l.synced
           c == l.damaged
           d == l.dropped
           u == [l EXCEPT !.records = x]
<1>1. l = [records |-> a, synced |-> b, damaged |-> c, dropped |-> d]
    BY DEF IsLog
<1> HIDE DEF a, b, c, d
<1>2. [l EXCEPT !.damaged = y] = [records |-> a, synced |-> b, damaged |-> y, dropped |-> d]
    BY <1>1
<1>3. [l EXCEPT !.records = x, !.synced = y] = [u EXCEPT !.synced = y]
    OBVIOUS
<1>4. u = [records |-> x, synced |-> b, damaged |-> c, dropped |-> d]
    BY <1>1
<1> HIDE DEF u
<1>5. [l EXCEPT !.records = x, !.synced = y] =
          [records |-> x, synced |-> y, damaged |-> c, dropped |-> d]
    BY <1>3, <1>4
<1> QED
    BY <1>2, <1>5 DEF a, b, c, d

\* The disk with another log for the memtable.
MemLog(l) == [logs |-> [disk.logs EXCEPT ![mem] = l], tables |-> disk.tables,
              manifests |-> disk.manifests, current |-> disk.current]

\* Replacing a log, and forcing it to disk.
LEMMA MemLogExcept ==
    ASSUME IsDisk(disk), mem \in DOMAIN disk.logs, NEW l, NEW n,
           l = [records |-> l.records, synced |-> l.synced, damaged |-> l.damaged, dropped |-> l.dropped]
    PROVE  /\ [disk EXCEPT !.logs[mem] = l] = MemLog(l)
           /\ [MemLog(l) EXCEPT !.logs[mem].synced = n] =
                  MemLog([records |-> l.records, synced |-> n, damaged |-> l.damaged,
                          dropped |-> l.dropped])
<1> DEFINE two == [records |-> l.records, synced |-> n, damaged |-> l.damaged, dropped |-> l.dropped]
           d == MemLog(l)
<1>1. [disk EXCEPT !.logs[mem] = l] = d
    <2> DEFINE logs == [disk.logs EXCEPT ![mem] = l]
    <2>1. [disk EXCEPT !.logs[mem] = l] = [disk EXCEPT !.logs = logs]
        OBVIOUS
    <2> HIDE DEF logs
    <2>2. \A x : [disk EXCEPT !.logs = x] = [logs |-> x, tables |-> disk.tables,
                                            manifests |-> disk.manifests, current |-> disk.current]
        BY DiskExcept, Zenon
    <2> QED
        BY <2>1, <2>2 DEF logs, MemLog
<1>2. /\ d.logs = [disk.logs EXCEPT ![mem] = l] /\ d.tables = disk.tables
      /\ d.manifests = disk.manifests /\ d.current = disk.current /\ IsDisk(d)
    BY DEF MemLog, IsDisk
<1> HIDE DEF d
<1>3. d.logs[mem] = l /\ mem \in DOMAIN d.logs
    BY <1>2
<1>4. [l EXCEPT !.synced = n] = two
    <2> DEFINE a == l.records
               b == l.synced
               e == l.damaged
               f == l.dropped
    <2>1. l = [records |-> a, synced |-> b, damaged |-> e, dropped |-> f]
        OBVIOUS
    <2> HIDE DEF a, b, e, f
    <2>2. [l EXCEPT !.synced = n] = [records |-> a, synced |-> n, damaged |-> e, dropped |-> f]
        BY <2>1
    <2> QED
        BY <2>2 DEF a, b, e, f
<1> HIDE DEF two
<1>5. [d EXCEPT !.logs[mem].synced = n] = MemLog(two)
    <2> DEFINE logs == [disk.logs EXCEPT ![mem] = two]
    <2>1. [d.logs EXCEPT ![mem] = two] = logs
        BY <1>2, <1>3
    <2>2. [d EXCEPT !.logs[mem].synced = n] =
              [d EXCEPT !.logs = [d.logs EXCEPT ![mem] = [d.logs[mem] EXCEPT !.synced = n]]]
        OBVIOUS
    <2>3. [d EXCEPT !.logs[mem].synced = n] = [d EXCEPT !.logs = logs]
        BY <1>3, <1>4, <2>1, <2>2
    <2>4. \A x : [d EXCEPT !.logs = x] = [logs |-> x, tables |-> d.tables,
                                         manifests |-> d.manifests, current |-> d.current]
        BY <1>2, DiskExcept, Zenon
    <2> HIDE DEF logs
    <2>5. [d EXCEPT !.logs = logs] = [logs |-> logs, tables |-> disk.tables,
                                      manifests |-> disk.manifests, current |-> disk.current]
        BY <1>2, <2>4
    <2> QED
        BY <2>3, <2>5 DEF logs, MemLog
<1> QED
    BY <1>1, <1>5 DEF d, two

\* What WriteGroup may do, with the log l that it leaves: nothing is in the file but
\* perhaps a part of the record; the write fails with the record in the file; it
\* succeeds; and it succeeds with a sync.  What the reader will drop came after a
\* failed append (hurt).
GroupFails(l) ==
    /\ Len(l.records) = Len(disk.logs[mem].records) /\ l.dropped = disk.logs[mem].dropped
    /\ history' = history /\ leader'.pc = "logged" /\ leader'.ok = FALSE
GroupIsLogged(l, hurt) ==
    LET h == history \o Logged(LastId, hurt)
    IN /\ Len(l.records) = Len(disk.logs[mem].records) + 1
       /\ l.dropped \subseteq disk.logs[mem].dropped \cup {Len(l.records)}
       /\ Len(l.records) \in l.dropped => hurt
       /\ \/ history' = h /\ leader'.ok = FALSE
          \/ history' = h /\ leader'.pc = "logged" /\ ~FirstWriter.sync
          \/ history' = Harden(h, mem, l.dropped) /\ leader'.pc = "logged" /\ FirstWriter.sync

\* The log gets at most one more record, and AddRecord, Sync and InsertInto
\* decide what becomes of the batches.
LEMMA WriteGroupOutcomes ==
    ASSUME DBInv, WriteGroup
    PROVE  \E l : /\ IsLog(l) /\ disk' = MemLog(l)
                  /\ GroupFails(l) \/ \E hurt : GroupIsLogged(l, hurt)
<1> DEFINE entries == GroupEntries(GroupOps(LastId))
           old == disk.logs[mem]
           number == Len(old.records) + 1
           records == Append(old.records, entries)
           drop(lost) == IF lost THEN old.dropped \cup {number} ELSE old.dropped
           one(hurt, lost) == [records |-> records, synced |-> old.synced, damaged |-> hurt,
                               dropped |-> drop(lost)]
           two(hurt, lost) == [records |-> records, synced |-> number, damaged |-> hurt,
                               dropped |-> drop(lost)]
           written(hurt, lost) ==
               [disk EXCEPT !.logs[mem] =
                   [old EXCEPT !.records = Append(@, entries), !.damaged = hurt,
                               !.dropped = IF lost THEN @ \cup {number} ELSE @]]
           then(pc, ok) == leader' = [leader EXCEPT !.pc = pc, !.group = BuildBatchGroup, !.ok = ok]
           h(hurt) == history \o Logged(LastId, hurt)
<1>1. IsDisk(disk) /\ AreLogs(disk.logs) /\ mem \in DOMAIN disk.logs /\ IsLeader(leader)
    <2>1. status # "down"
        BY LeadingIsServing DEF WriteGroup
    <2> QED
        BY <2>1 DEF DBInv, DiskInv, NumbersInv, ThreadsInv
<1>2. IsLog(old)
    BY <1>1 DEF AreLogs
<1>3. IsSequence(records) /\ Len(records) = number /\ number \in Nat
    <2>1. IsSequence(records) /\ Len(records) = Len(old.records) + 1
        BY <1>2, AppendIsSequence DEF IsLog
    <2> QED
        BY <2>1, SequenceIndices
<1>4. ASSUME NEW pc, NEW ok, then(pc, ok)
      PROVE  leader'.pc = pc /\ leader'.ok = ok
    <2>1. leader' = [pc |-> pc, forced |-> leader.forced, delayed |-> leader.delayed,
                     group |-> BuildBatchGroup, ok |-> ok]
        BY <1>1, <1>4, LeaderExcept, Zenon
    <2> QED
        BY <2>1
<1>5. ASSUME NEW hurt, NEW lost
      PROVE  /\ written(hurt, lost) = MemLog(one(hurt, lost))
             /\ [written(hurt, lost) EXCEPT !.logs[mem].synced = number] = MemLog(two(hurt, lost))
             /\ written(hurt, lost).logs[mem].dropped = drop(lost)
    <2> DEFINE l == one(hurt, lost)
               d == written(hurt, lost)
    <2>1. d = [disk EXCEPT !.logs[mem] =
                  [old EXCEPT !.records = records, !.damaged = hurt, !.dropped = drop(lost)]]
        OBVIOUS
    <2>2. [old EXCEPT !.records = records, !.damaged = hurt, !.dropped = drop(lost)] = l
        <3>1. l = [records |-> records, synced |-> old.synced, damaged |-> hurt,
                   dropped |-> drop(lost)]
            OBVIOUS
        <3> DEFINE x == records
                   z == drop(lost)
        <3> HIDE DEF old, x, z, l
        <3>2. [old EXCEPT !.records = x, !.damaged = hurt, !.dropped = z] =
                  [records |-> x, synced |-> old.synced, damaged |-> hurt, dropped |-> z]
            <4>1. LogWith(old, x, hurt, z) =
                      [records |-> x, synced |-> old.synced, damaged |-> hurt, dropped |-> z]
                BY <1>2, LogWithIs
            <4> QED
                BY <4>1, Zenon DEF LogWith
        <3>3. l = [records |-> x, synced |-> old.synced, damaged |-> hurt, dropped |-> z]
            BY <3>1 DEF x, z
        <3>4. [old EXCEPT !.records = x, !.damaged = hurt, !.dropped = z] = l
            BY <3>2, <3>3
        <3> QED
            BY <3>4 DEF x, z
    <2>3. /\ l = [records |-> l.records, synced |-> l.synced, damaged |-> l.damaged,
                  dropped |-> l.dropped]
          /\ l.records = records /\ l.damaged = hurt /\ l.dropped = drop(lost)
        OBVIOUS
    <2> HIDE DEF l, d
    <2>4. /\ d = MemLog(l)
          /\ [MemLog(l) EXCEPT !.logs[mem].synced = number] =
                 MemLog([records |-> l.records, synced |-> number, damaged |-> l.damaged,
                         dropped |-> l.dropped])
        <3>1. d = [disk EXCEPT !.logs[mem] = l]
            BY <2>1, <2>2
        <3> HIDE DEF number
        <3> QED
            BY <1>1, <2>3, <3>1, MemLogExcept
    <2>5. MemLog(l).logs[mem] = l
        BY <1>1 DEF MemLog
    <2> QED
        BY <2>3, <2>4, <2>5 DEF l, d
<1>6. ASSUME NEW hurt, NEW lost \in BOOLEAN, old.damaged => hurt, lost => hurt
      PROVE  /\ IsLog(one(hurt, lost)) /\ IsLog(two(hurt, lost))
             /\ drop(lost) \subseteq old.dropped \cup {number}
             /\ number \in drop(lost) => hurt
    <2>1. drop(lost) # {} => hurt
        BY <1>2, <1>6 DEF IsLog
    <2>2. drop(lost) \subseteq old.dropped \cup {number}
        OBVIOUS
    <2>3. old.synced \in Nat
        BY <1>2 DEF IsLog
    <2> DEFINE x == drop(lost)
    <2> HIDE DEF x, records, number, old
    <2>4. drop(lost) = x
        BY DEF x
    <2> HIDE DEF drop
    <2> QED
        BY <1>3, <2>1, <2>2, <2>3, <2>4 DEF IsLog
<1>7. \/ disk' = [disk EXCEPT !.logs[mem].damaged = TRUE] /\ history' = history /\ then("logged", FALSE)
      \/ disk' = written(old.damaged, FALSE) /\ history' = h(old.damaged) /\ then("logged", FALSE)
      \/ \E hurt, lost \in BOOLEAN :
            /\ (old.damaged => hurt) /\ (lost => hurt)
            /\ \/ /\ disk' = [written(hurt, lost) EXCEPT !.logs[mem].synced = number]
                  /\ history' = Harden(h(hurt), mem, written(hurt, lost).logs[mem].dropped)
                  /\ FirstWriter.sync /\ then("logged", TRUE)
               \/ disk' = written(hurt, lost) /\ history' = h(hurt) /\ ~FirstWriter.sync /\ then("logged", TRUE)
               \/ disk' = written(hurt, lost) /\ history' = h(hurt) /\ then("sync_error", FALSE)
    <2>1. \/ disk' = [disk EXCEPT !.logs[mem].damaged = TRUE] /\ then("logged", FALSE)
             /\ UNCHANGED <<history, memtables>>
          \/ /\ disk' = written(old.damaged, FALSE) /\ history' = h(old.damaged)
             /\ then("logged", FALSE)
          \/ \E hurt, lost \in BOOLEAN :
                /\ (old.damaged => hurt) /\ (lost => hurt)
                /\ \/ /\ IF FirstWriter.sync
                         THEN /\ disk' = [written(hurt, lost) EXCEPT !.logs[mem].synced = number]
                              /\ history' = Harden(h(hurt), mem, written(hurt, lost).logs[mem].dropped)
                         ELSE disk' = written(hurt, lost) /\ history' = h(hurt)
                      /\ then("logged", TRUE)
                   \/ disk' = written(hurt, lost) /\ history' = h(hurt) /\ then("sync_error", FALSE)
        BY ZenonT(90) DEF WriteGroup
    <2> HIDE DEF written, then, h, entries, old, number
    <2>2. UNCHANGED <<history, memtables>> => history' = history
        OBVIOUS
    <2> QED
        BY <2>1, <2>2, Zenon
<1> HIDE DEF written, then, h, entries
<1>8. CASE disk' = [disk EXCEPT !.logs[mem].damaged = TRUE] /\ history' = history /\ then("logged", FALSE)
    <2> DEFINE l == [records |-> old.records, synced |-> old.synced, damaged |-> TRUE,
                     dropped |-> old.dropped]
    <2>1. disk' = [disk EXCEPT !.logs[mem] = [old EXCEPT !.damaged = TRUE]]
        BY <1>8
    <2>2. [old EXCEPT !.damaged = TRUE] = l
        <3> HIDE DEF old
        <3> QED
            BY <1>2, LogExcept
    <2>3. /\ l.records = old.records /\ l.dropped = old.dropped
          /\ l = [records |-> l.records, synced |-> l.synced, damaged |-> l.damaged,
                  dropped |-> l.dropped]
        OBVIOUS
    <2>4. IsLog(l)
        BY <1>2 DEF IsLog
    <2> HIDE DEF l
    <2>5. disk' = MemLog(l)
        BY <1>1, <2>1, <2>2, <2>3, MemLogExcept
    <2>6. GroupFails(l)
        BY <1>4, <1>8, <2>3 DEF GroupFails
    <2> QED
        BY <2>4, <2>5, <2>6
<1> HIDE DEF drop
<1>9. CASE disk' = written(old.damaged, FALSE) /\ history' = h(old.damaged) /\ then("logged", FALSE)
    <2> DEFINE l == one(old.damaged, FALSE)
    <2>1. IsLog(l) /\ drop(FALSE) \subseteq old.dropped \cup {number}
          /\ (number \in drop(FALSE) => old.damaged)
        <3> HIDE DEF one, two, old, number
        <3> QED
            BY <1>6
    <2>2. disk' = MemLog(l)
        <3> HIDE DEF one, two, old, number
        <3> QED
            BY <1>5, <1>9
    <2>3. l.records = records /\ l.dropped = drop(FALSE)
        OBVIOUS
    <2> HIDE DEF l, records
    <2>4. GroupIsLogged(l, old.damaged)
        BY <1>3, <1>4, <1>9, <2>1, <2>3 DEF GroupIsLogged, h
    <2> QED
        BY <2>1, <2>2, <2>4
<1>10. ASSUME NEW hurt \in BOOLEAN, NEW lost \in BOOLEAN, old.damaged => hurt, lost => hurt,
              \/ /\ disk' = [written(hurt, lost) EXCEPT !.logs[mem].synced = number]
                 /\ history' = Harden(h(hurt), mem, written(hurt, lost).logs[mem].dropped)
                 /\ FirstWriter.sync /\ then("logged", TRUE)
              \/ disk' = written(hurt, lost) /\ history' = h(hurt) /\ ~FirstWriter.sync /\ then("logged", TRUE)
              \/ disk' = written(hurt, lost) /\ history' = h(hurt) /\ then("sync_error", FALSE)
       PROVE  \E l : IsLog(l) /\ disk' = MemLog(l) /\ GroupIsLogged(l, hurt)
    <2> DEFINE a == one(hurt, lost)
               b == two(hurt, lost)
    <2>1. /\ IsLog(a) /\ IsLog(b) /\ drop(lost) \subseteq old.dropped \cup {number}
          /\ number \in drop(lost) => hurt
        <3> HIDE DEF one, two, old, number
        <3> QED
            BY <1>6, <1>10
    <2>2. /\ a.records = records /\ a.dropped = drop(lost)
          /\ b.records = records /\ b.dropped = drop(lost)
        OBVIOUS
    <2>3. /\ written(hurt, lost) = MemLog(a)
          /\ [written(hurt, lost) EXCEPT !.logs[mem].synced = number] = MemLog(b)
          /\ written(hurt, lost).logs[mem].dropped = drop(lost)
        <3> HIDE DEF one, two, old, number
        <3> QED
            BY <1>5
    <2> HIDE DEF a, b, records
    <2>4. CASE /\ disk' = [written(hurt, lost) EXCEPT !.logs[mem].synced = number]
               /\ history' = Harden(h(hurt), mem, written(hurt, lost).logs[mem].dropped)
               /\ FirstWriter.sync /\ then("logged", TRUE)
        <3>1. disk' = MemLog(b) /\ history' = Harden(h(hurt), mem, b.dropped)
            BY <2>2, <2>3, <2>4
        <3>2. GroupIsLogged(b, hurt)
            BY <1>3, <1>4, <2>1, <2>2, <2>4, <3>1 DEF GroupIsLogged, h
        <3> QED
            BY <2>1, <3>1, <3>2
    <2>5. CASE disk' = written(hurt, lost) /\ history' = h(hurt) /\ ~FirstWriter.sync /\ then("logged", TRUE)
        <3>1. GroupIsLogged(a, hurt)
            BY <1>3, <1>4, <2>1, <2>2, <2>5 DEF GroupIsLogged, h
        <3> QED
            BY <2>1, <2>3, <2>5, <3>1
    <2>6. CASE disk' = written(hurt, lost) /\ history' = h(hurt) /\ then("sync_error", FALSE)
        <3>1. GroupIsLogged(a, hurt)
            BY <1>3, <1>4, <2>1, <2>2, <2>6 DEF GroupIsLogged, h
        <3> QED
            BY <2>1, <2>3, <2>6, <3>1
    <2> QED
        BY <1>10, <2>4, <2>5, <2>6
<1> QED
    BY <1>7, <1>8, <1>9, <1>10

\* A power failure keeps a part of every log.
LEMMA PowerLossDisk ==
    ASSUME DBInv, PowerLoss
    PROVE  /\ \E logs : /\ AreLogs(logs)
                        /\ disk' = [logs |-> logs, tables |-> disk.tables,
                                    manifests |-> disk.manifests, current |-> disk.current]
           /\ history' = Recoverable(disk', history)
<1>1. PICK kept \in [DOMAIN disk.logs -> 0 .. Len(history)] :
          /\ \A n \in DOMAIN kept : kept[n] \in disk.logs[n].synced .. Len(disk.logs[n].records)
          /\ disk' = [disk EXCEPT !.logs = [n \in DOMAIN kept |->
                 [disk.logs[n] EXCEPT !.records = SubSeq(@, 1, kept[n]), !.synced = kept[n]]]]
    BY DEF PowerLoss
<1> DEFINE logs == [n \in DOMAIN kept |->
                       [disk.logs[n] EXCEPT !.records = SubSeq(@, 1, kept[n]), !.synced = kept[n]]]
<1>2. IsDisk(disk) /\ AreLogs(disk.logs)
    BY DEF DBInv, DiskInv
<1>3. DOMAIN kept = DOMAIN disk.logs
    OBVIOUS
<1>3a. \A n \in DOMAIN kept : kept[n] \in disk.logs[n].synced .. Len(disk.logs[n].records)
    BY <1>1
<1>4. ASSUME NEW n \in DOMAIN kept
      PROVE  IsLog(logs[n])
    <2> DEFINE l == disk.logs[n]
               k == kept[n]
               sub == SubSeq(l.records, 1, k)
    <2>1. IsLog(l)
        BY <1>2, <1>3 DEF AreLogs
    <2>2. IsSequence(l.records) /\ Len(l.records) \in Nat /\ l.synced \in Nat
        BY <2>1, SequenceIndices DEF IsLog
    <2>3. k \in Nat /\ k <= Len(l.records)
        <3> HIDE DEF logs
        <3> QED
            BY <1>3a, <2>2
    <2>4. logs[n] = [l EXCEPT !.records = sub, !.synced = k]
        OBVIOUS
    <2> HIDE DEF l, k
    <2>5. IsSequence(sub)
        BY <2>2, <2>3, SubSeqIsSequence
    <2> HIDE DEF sub, logs
    <2>6. logs[n] = [records |-> sub, synced |-> k, damaged |-> l.damaged, dropped |-> l.dropped]
        BY <2>1, <2>4, LogExcept
    <2>7. l.dropped # {} => l.damaged
        BY <2>1 DEF IsLog
    <2> QED
        BY <2>3, <2>5, <2>6, <2>7 DEF IsLog
<1>5. DOMAIN logs = DOMAIN disk.logs
    BY <1>3
<1>6. disk' = [disk EXCEPT !.logs = logs]
    BY <1>1
<1> HIDE DEF logs
<1>7. AreLogs(logs)
    BY <1>2, <1>3, <1>4, <1>5 DEF AreLogs
<1>8. disk' = [logs |-> logs, tables |-> disk.tables, manifests |-> disk.manifests,
          current |-> disk.current]
    <2>1. \A x : [disk EXCEPT !.logs = x] = [logs |-> x, tables |-> disk.tables,
                                            manifests |-> disk.manifests, current |-> disk.current]
        BY <1>2, DiskExcept, Zenon
    <2> QED
        BY <1>6, <2>1
<1>9. history' = Recoverable(disk', history)
    BY Zenon DEF PowerLoss
<1> QED
    BY <1>7, <1>8, <1>9

\* Of the numbers Install only changes that of the oldest log.
LEMMA InstallVersions ==
    ASSUME DBInv, Install
    PROVE  /\ vset'.log_number = bg.edit.log_number
           /\ vset'.next_file_number = vset.next_file_number
           /\ vset'.manifest_file_number = vset.manifest_file_number
<1> DEFINE x == ApplyEdit(vset.current, bg.edit.version_edit)
           y == bg.edit.log_number
<1>1. IsVersions(vset)
    BY DEF DBInv, VsetInv
<1>2. vset' = [vset EXCEPT !.current = x, !.log_number = y, !.file_to_compact = {}]
    BY DEF Install
<1> HIDE DEF x, y
<1>3. vset' = [current |-> x, file_to_compact |-> {}, next_file_number |-> vset.next_file_number,
               last_sequence |-> vset.last_sequence, log_number |-> y,
               manifest_file_number |-> vset.manifest_file_number,
               compact_pointer |-> vset.compact_pointer]
    BY <1>1, <1>2, VersionsExcept, ZenonT(60)
<1> QED
    BY <1>3 DEF y

\* A disk whose parts are good is good.
LEMMA DiskOf ==
    ASSUME NEW a, NEW b, NEW c, NEW n, AreLogs(a), AreManifests(c), n # 0 => n \in DOMAIN c,
           disk' = [logs |-> a, tables |-> b, manifests |-> c, current |-> n]
    PROVE  DiskInv'
BY DEF DiskInv, IsDisk

\* Every step keeps the disk good.
LEMMA DiskStep ==
    ASSUME DBInv, [Next]_vars
    PROVE  DiskInv'
<1>1. DiskInv /\ IsDisk(disk) /\ AreLogs(disk.logs) /\ AreManifests(disk.manifests)
      /\ (disk.current # 0 => disk.current \in DOMAIN disk.manifests)
    BY DEF DBInv, DiskInv
<1>2. CASE UNCHANGED disk
    BY <1>1, <1>2 DEF DiskInv
<1>a. \A x : [disk EXCEPT !.logs = x] =
          [logs |-> x, tables |-> disk.tables, manifests |-> disk.manifests, current |-> disk.current]
    BY <1>1, DiskExcept, Zenon
<1>b. \A x : [disk EXCEPT !.tables = x] =
          [logs |-> disk.logs, tables |-> x, manifests |-> disk.manifests, current |-> disk.current]
    BY <1>1, DiskExcept, Zenon
<1>c. \A x, y : [disk EXCEPT !.current = x, !.manifests = y] =
          [logs |-> disk.logs, tables |-> disk.tables, manifests |-> y, current |-> x]
    BY <1>1, DiskExcept, Zenon
<1>d. \A x, y : [disk EXCEPT !.logs = x, !.tables = y] =
          [logs |-> x, tables |-> y, manifests |-> disk.manifests, current |-> disk.current]
    BY <1>1, DiskExcept, Zenon
<1>3. CASE NewDB
    <2> DEFINE m == [files |-> EmptyVersion, log_number |-> 0, next_file |-> 2,
                     last_sequence |-> 0, compact_pointer |-> NoVersions.compact_pointer]
               ms == Put(disk.manifests, 1, m)
    <2>1. disk' = [disk EXCEPT !.current = 1, !.manifests = ms]
        BY <1>3 DEF NewDB
    <2>2. IsManifest(m)
        <3>1. 0 \in Levels
            BY VersionsAssumption DEF Levels
        <3>2. EmptyVersion[0] = {} /\ IsFiniteSet({})
            BY <3>1, FS_EmptySet DEF EmptyVersion
        <3> DEFINE v == EmptyVersion
                   p == NoVersions.compact_pointer
        <3>3. m = [files |-> v, log_number |-> 0, next_file |-> 2, last_sequence |-> 0,
                  compact_pointer |-> p]
              /\ IsFiniteSet(v[0])
            BY <3>2
        <3> HIDE DEF v, p, m
        <3> QED
            BY <3>3 DEF IsManifest
    <2> HIDE DEF m
    <2>3. AreManifests(ms)
        BY <1>1, <2>2, PutManifest
    <2>3a. DOMAIN ms = DOMAIN disk.manifests \cup {1}
        BY DEF Put
    <2> HIDE DEF ms
    <2>4. disk' = [logs |-> disk.logs, tables |-> disk.tables, manifests |-> ms, current |-> 1]
        BY <1>c, <2>1, Zenon
    <2> QED
        BY <1>1, <2>3, <2>3a, <2>4, DiskOf
<1>4. CASE Open
    <2> DEFINE r == RecoverLogs(CurrentManifest)
               logs == Put(disk.logs, r.next, NewLog)
               ts == [n \in DOMAIN disk.tables \cup {r.written[i][1] : i \in DOMAIN r.written} |->
                         LET w == {i \in DOMAIN r.written : r.written[i][1] = n}
                         IN IF w = {} THEN disk.tables[n] ELSE UNION {r.written[i][2] : i \in w}]
    <2>1. disk' = [disk EXCEPT !.logs = logs, !.tables = ts]
        BY <1>4, Zenon DEF Open, CurrentManifest
    <2>2. r.next \in Nat
        BY <1>4, OpenStartsWithRecovery DEF IsRecovery
    <2> HIDE DEF r, ts
    <2>3. AreLogs(logs)
        BY <1>1, <2>2, PutLog
    <2> HIDE DEF logs
    <2>4. disk' = [logs |-> logs, tables |-> ts, manifests |-> disk.manifests, current |-> disk.current]
        BY <1>d, <2>1, Zenon
    <2> QED
        BY <1>1, <2>3, <2>4, DiskOf
<1>5. CASE SwitchMemtable
    <2> DEFINE n == vset.next_file_number
               logs == Put(disk.logs, n, NewLog)
    <2>1. disk' = [disk EXCEPT !.logs = logs]
        BY <1>5 DEF SwitchMemtable
    <2>2. AreLogs(logs)
        BY <1>1, PutLog DEF DBInv, VsetInv, IsVersions
    <2> HIDE DEF logs
    <2>3. disk' = [logs |-> logs, tables |-> disk.tables, manifests |-> disk.manifests,
              current |-> disk.current]
        BY <1>a, <2>1
    <2> QED
        BY <1>1, <2>2, <2>3, DiskOf
<1>6. CASE WriteGroup
    <2>1. ASSUME NEW l, IsLog(l),
                 disk' = [logs |-> [disk.logs EXCEPT ![mem] = l], tables |-> disk.tables,
                          manifests |-> disk.manifests, current |-> disk.current]
          PROVE  DiskInv'
        <3> DEFINE logs == [disk.logs EXCEPT ![mem] = l]
        <3>1. AreLogs(logs)
            BY <1>1, <2>1 DEF AreLogs
        <3>2. disk' = [logs |-> logs, tables |-> disk.tables, manifests |-> disk.manifests,
                  current |-> disk.current]
            BY <2>1
        <3> HIDE DEF logs
        <3> QED
            BY <1>1, <3>1, <3>2, DiskOf
    <2> QED
        BY <1>6, <2>1, WriteGroupOutcomes DEF MemLog
<1>7. CASE FlushTable \/ WriteOutput
    <2>1. UNCHANGED disk \/ \E x : disk' = [disk EXCEPT !.tables = x]
        BY <1>7 DEF FlushTable, WriteOutput, BuildTable
    <2>2. ASSUME NEW x, disk' = [disk EXCEPT !.tables = x]
          PROVE  DiskInv'
        <3>1. disk' = [logs |-> disk.logs, tables |-> x, manifests |-> disk.manifests,
                  current |-> disk.current]
            BY <1>b, <2>2
        <3> QED
            BY <1>1, <3>1, DiskOf
    <2> QED
        BY <1>2, <2>1, <2>2
<1>8. CASE WriteManifest \/ WriteManifestFails
    <2>1. bg.pc = "manifest" /\ (UNCHANGED disk \/ disk' = Persisted)
        BY <1>8 DEF WriteManifest, WriteManifestFails
    <2> DEFINE n == IF bg.edit.kind = "open" THEN vset.manifest_file_number ELSE disk.current
    <2>2. PICK m : /\ Persisted = [logs |-> disk.logs, tables |-> disk.tables,
                                   manifests |-> Put(disk.manifests, n, m), current |-> n]
                   /\ IsManifest(m)
        BY <2>1, PersistedDisk
    <2> DEFINE ms == Put(disk.manifests, n, m)
    <2> HIDE DEF n
    <2>3. AreManifests(ms)
        BY <1>1, <2>2, PutManifest
    <2>3a. DOMAIN ms = DOMAIN disk.manifests \cup {n}
        BY DEF Put
    <2> HIDE DEF ms
    <2>4. CASE disk' = Persisted
        <3>1. disk' = [logs |-> disk.logs, tables |-> disk.tables, manifests |-> ms, current |-> n]
            BY <2>2, <2>4 DEF ms
        <3>2. n \in DOMAIN ms
            BY <2>3a
        <3> QED
            BY <1>1, <2>3, <3>1, <3>2, DiskOf
    <2> QED
        BY <1>2, <2>1, <2>4
<1>9. CASE Install
    <2>1. KeepsYoung(disk, disk', vset')
        BY <1>9, InstallDeletes
    <2>2. AreLogs(disk.logs')
        BY <1>1, <2>1, PartsOfDisk DEF KeepsYoung
    <2>3. AreManifests(disk.manifests')
        BY <1>1, <2>1, PartsOfDisk DEF KeepsYoung
    <2>4. disk.current = vset.manifest_file_number /\ disk.current # 0
        BY <1>9, BusyIsRunning DEF Install, DBInv, NumbersInv
    <2>5. vset'.manifest_file_number = vset.manifest_file_number /\ vset.manifest_file_number \in Nat
        <3> QED
            BY <1>9, InstallVersions DEF DBInv, VsetInv, IsVersions
    <2>6. disk'.current \in DOMAIN disk'.manifests
        BY <1>1, <2>1, <2>4, <2>5 DEF KeepsYoung
    <2> QED
        BY <2>1, <2>2, <2>3, <2>6 DEF DiskInv, KeepsYoung
<1>10. CASE PowerLoss
    <2>1. PICK logs : /\ AreLogs(logs)
                      /\ disk' = [logs |-> logs, tables |-> disk.tables,
                                  manifests |-> disk.manifests, current |-> disk.current]
        BY <1>10, PowerLossDisk
    <2> QED
        BY <1>1, <2>1, DiskOf
<1> QED
    BY <1>2, <1>3, <1>4, <1>5, <1>6, <1>7, <1>8, <1>9, <1>10, DiskChanges DEF vars, files

-----------------------------------------------------------------------------
(* The numbers of the files                                                 *)

\* The actions that change the memtable in use.
LEMMA MemChanges ==
    ASSUME Next
    PROVE  \/ Open \/ SwitchMemtable \/ OpenFails \/ Closed \/ Kill \/ PowerLoss
           \/ UNCHANGED mem
<1>1. ASSUME NEW w \in Writers, NEW b \in Batches, NEW sync \in BOOLEAN, Write(w, b, sync)
      PROVE  UNCHANGED mem
    BY <1>1 DEF Write, tables
<1>2. ASSUME NEW r \in Readers, NEW keys, NEW iterate, BeginRead(r, keys, iterate)
      PROVE  UNCHANGED mem
    BY <1>2 DEF BeginRead, tables
<1>3. ASSUME NEW r \in Readers, EndRead(r)
      PROVE  UNCHANGED mem
    BY <1>3 DEF EndRead
<1>4. ASSUME NEW range \in Ranges, CallCompactRange(range)
      PROVE  UNCHANGED mem
    BY <1>4 DEF CallCompactRange, tables
<1>5. NewDB \/ DelayWrite \/ FailWrite \/ FinishNullWrite => UNCHANGED mem
    BY DEF NewDB, DelayWrite, FailWrite, FinishNullWrite, tables
<1>5b. FinishWrite => UNCHANGED mem
    BY Zenon DEF FinishWrite, tables
<1>5a. WriteGroup => UNCHANGED mem
    BY DEF WriteGroup
<1>6. GetSnapshot \/ ReleaseSnapshot \/ BackgroundCall \/ BeginNestedFlush => UNCHANGED mem
    BY DEF GetSnapshot, ReleaseSnapshot, BackgroundCall, BeginNestedFlush, tables
<1>7. FlushTable \/ WriteOutput \/ AbortCompaction \/ FinishCompaction => UNCHANGED mem
    BY DEF FlushTable, WriteOutput, AbortCompaction, FinishCompaction, tables
<1>8. WriteManifest \/ WriteManifestFails \/ Install => UNCHANGED mem
    BY DEF WriteManifest, WriteManifestFails, Install, tables
<1>9. FinishCompactMemTable \/ StartManual \/ FinishManual \/ Close => UNCHANGED mem
    BY DEF FinishCompactMemTable, StartManual, FinishManual, Close, tables
<1> QED
    BY <1>1, <1>2, <1>3, <1>4, <1>5, <1>5a, <1>5b, <1>6, <1>7, <1>8, <1>9 DEF Next

\* The steps of a process that is open or about to close, but for the end of
\* a change of the version.
Steady ==
    Next /\ ~(NewDB \/ Open \/ OpenFails \/ WriteManifest \/ Install \/ Closed \/ Kill \/ PowerLoss)

\* The steps that leave the number of the log alone are those of a running database.
LEMMA SteadyIsServing ==
    ASSUME Steady
    PROVE  Serving
BY NextCases DEF Steady

\* What such a step may do to the version set,
LEMMA SteadyVersions ==
    ASSUME DBInv, Steady
    PROVE  /\ vset'.log_number = vset.log_number
           /\ vset'.manifest_file_number = vset.manifest_file_number
           /\ vset'.next_file_number >= vset.next_file_number
<1>1. IsVersions(vset)
    BY DEF DBInv, VsetInv
<1>2. CASE UNCHANGED vset
    BY <1>1, <1>2 DEF IsVersions
<1>3. ASSUME NEW x, x = vset.next_file_number + 1, vset' = [vset EXCEPT !.next_file_number = x]
      PROVE  /\ vset'.log_number = vset.log_number
             /\ vset'.manifest_file_number = vset.manifest_file_number
             /\ vset'.next_file_number >= vset.next_file_number
    <2>1. vset' = [current |-> vset.current, file_to_compact |-> vset.file_to_compact,
                   next_file_number |-> x, last_sequence |-> vset.last_sequence,
                   log_number |-> vset.log_number, manifest_file_number |-> vset.manifest_file_number,
                   compact_pointer |-> vset.compact_pointer]
        BY <1>1, <1>3, VersionsExcept, Zenon
    <2>2. x >= vset.next_file_number
        BY <1>1, <1>3 DEF IsVersions
    <2> QED
        BY <2>1, <2>2
<1>4. CASE SwitchMemtable \/ BeginNestedFlush \/ WriteOutput
    BY <1>3, <1>4 DEF SwitchMemtable, BeginNestedFlush, WriteOutput
<1>5. ASSUME NEW x, vset' = [vset EXCEPT !.last_sequence = x]
      PROVE  /\ vset'.log_number = vset.log_number
             /\ vset'.manifest_file_number = vset.manifest_file_number
             /\ vset'.next_file_number >= vset.next_file_number
    <2>1. vset' = [current |-> vset.current, file_to_compact |-> vset.file_to_compact,
                   next_file_number |-> vset.next_file_number, last_sequence |-> x,
                   log_number |-> vset.log_number, manifest_file_number |-> vset.manifest_file_number,
                   compact_pointer |-> vset.compact_pointer]
        BY <1>1, <1>5, VersionsExcept, Zenon
    <2> QED
        BY <1>1, <2>1 DEF IsVersions
<1>5a. ASSUME NEW x, vset' = [vset EXCEPT !.file_to_compact = x]
      PROVE  /\ vset'.log_number = vset.log_number
             /\ vset'.manifest_file_number = vset.manifest_file_number
             /\ vset'.next_file_number >= vset.next_file_number
    <2>1. vset' = [current |-> vset.current, file_to_compact |-> x,
                   next_file_number |-> vset.next_file_number, last_sequence |-> vset.last_sequence,
                   log_number |-> vset.log_number, manifest_file_number |-> vset.manifest_file_number,
                   compact_pointer |-> vset.compact_pointer]
        BY <1>1, <1>5a, VersionsExcept, Zenon
    <2> QED
        BY <1>1, <2>1 DEF IsVersions
<1>5b. ASSUME NEW x, vset' = [vset EXCEPT !.compact_pointer = x]
      PROVE  /\ vset'.log_number = vset.log_number
             /\ vset'.manifest_file_number = vset.manifest_file_number
             /\ vset'.next_file_number >= vset.next_file_number
    <2>1. vset' = [current |-> vset.current, file_to_compact |-> vset.file_to_compact,
                   next_file_number |-> vset.next_file_number, last_sequence |-> vset.last_sequence,
                   log_number |-> vset.log_number, manifest_file_number |-> vset.manifest_file_number,
                   compact_pointer |-> x]
        BY <1>1, <1>5b, VersionsExcept, Zenon
    <2> QED
        BY <1>1, <2>1 DEF IsVersions
<1>6. CASE FinishWrite
    <2>1. PICK x : vset' = [vset EXCEPT !.last_sequence = x]
        BY <1>6, Zenon DEF FinishWrite
    <2> QED
        BY <1>5, <2>1
<1>7. ASSUME NEW r \in Readers, EndRead(r)
      PROVE  UNCHANGED vset \/ \E x : vset' = [vset EXCEPT !.file_to_compact = x]
    BY <1>7 DEF EndRead
<1>8. CASE BackgroundCall
    <2>1. \/ UNCHANGED vset
          \/ vset' = [vset EXCEPT !.next_file_number = vset.next_file_number + 1]
          \/ \E c : vset' = [vset EXCEPT !.compact_pointer =
                        [vset.compact_pointer EXCEPT ![c.level] = c.pointer]]
        BY <1>8, <1>1 DEF BackgroundCall, IsVersions
    <2> QED
        BY <1>2, <1>3, <1>5b, <2>1
<1> QED
    BY <1>2, <1>4, <1>5a, <1>6, <1>7, <1>8, VsetChanges DEF Steady

\* and to the disk.
LEMMA SteadyDisk ==
    ASSUME DBInv, Steady, ~SwitchMemtable, ~WriteManifestFails
    PROVE  /\ DOMAIN disk'.logs = DOMAIN disk.logs
           /\ disk'.manifests = disk.manifests /\ disk'.current = disk.current
           /\ WriteGroup \/ disk'.logs = disk.logs
<1>1. IsDisk(disk)
    BY DEF DBInv, DiskInv
<1>2. CASE WriteGroup
    <2>1. ASSUME NEW l, disk' = MemLog(l)
          PROVE  /\ DOMAIN disk'.logs = DOMAIN disk.logs
                 /\ disk'.manifests = disk.manifests /\ disk'.current = disk.current
        BY <2>1 DEF MemLog
    <2> QED
        BY <1>2, <2>1, WriteGroupOutcomes
<1>3. CASE FlushTable \/ WriteOutput
    <2>1. UNCHANGED disk \/ \E x : disk' = [disk EXCEPT !.tables = x]
        BY <1>3 DEF FlushTable, WriteOutput, BuildTable
    <2>2. \A x : [disk EXCEPT !.tables = x] =
              [logs |-> disk.logs, tables |-> x, manifests |-> disk.manifests, current |-> disk.current]
        BY <1>1, DiskExcept, Zenon
    <2> QED
        BY <2>1, <2>2
<1> QED
    BY <1>2, <1>3, DiskChanges DEF Steady

\* An edit is begun with the number of the oldest log or of the current one.
LEMMA SteadyEdits ==
    ASSUME DBInv, Steady, bg'.pc \in {"manifest", "install"}
    PROVE  \/ bg'.pc = bg.pc /\ bg'.edit = bg.edit
           \/ bg'.pc = "manifest" /\ bg'.edit.log_number \in {vset.log_number, mem}
<1>1. IsWork(bg)
    BY DEF DBInv, ThreadsInv
<1>2. bg' # NoWork
    BY DEF NoWork
<1>3. ASSUME NEW x, bg' = [bg EXCEPT !.pc = "flush", !.number = x]
      PROVE  FALSE
    <2>1. bg'.pc = "flush"
        BY <1>1, <1>3 DEF IsWork
    <2> QED
        BY <2>1
<1>3a. ASSUME bg' = [bg EXCEPT !.pc = "work", !.number = NULL, !.edit = NoEdit]
       PROVE  FALSE
    <2>1. bg'.pc = "work"
        BY <1>1, <1>3a DEF IsWork
    <2> QED
        BY <2>1
<1>4. ASSUME NEW e, bg' = [bg EXCEPT !.pc = "manifest", !.edit = e]
      PROVE  bg'.pc = "manifest" /\ bg'.edit = e
    BY <1>1, <1>4 DEF IsWork
<1>5. CASE BackgroundCall
    <2>1. ASSUME NEW x, NEW y, NEW z,
                 bg' = [bg EXCEPT !.pc = "work", !.is_manual = x, !.compaction = y, !.todo = z]
          PROVE  FALSE
        <3>1. bg'.pc = "work"
            BY <1>1, <2>1 DEF IsWork
        <3> QED
            BY <3>1
    <2>2. ASSUME NEW c, NEW e, bg' = [bg EXCEPT !.pc = "manifest", !.compaction = c, !.edit = e]
          PROVE  bg'.pc = "manifest" /\ bg'.edit = e
        BY <1>1, <2>2 DEF IsWork
    <2>3. \E c, e : /\ bg' = [bg EXCEPT !.pc = "manifest", !.compaction = c, !.edit = e]
                    /\ e.log_number = vset.log_number
        <3>1. \/ bg' = NoWork
              \/ \E x : bg' = [bg EXCEPT !.pc = "flush", !.number = x]
              \/ \E x, y, z : bg' = [bg EXCEPT !.pc = "work", !.is_manual = x, !.compaction = y,
                                  !.todo = z]
              \/ \E c, e : /\ bg' = [bg EXCEPT !.pc = "manifest", !.compaction = c, !.edit = e]
                           /\ e.log_number = vset.log_number
            <4>1. BackgroundCall
                BY <1>5
            <4> QED
                BY <4>1, BackgroundCallBegins, Zenon
        <3> QED
            BY <1>2, <1>3, <2>1, <3>1, Zenon
    <2> QED
        BY <2>2, <2>3, Zenon
<1>6. CASE BeginNestedFlush
    <2>1. PICK x : bg' = [bg EXCEPT !.pc = "flush", !.number = x]
        BY <1>6, Zenon DEF BeginNestedFlush
    <2> QED
        BY <1>3, <2>1, Zenon
<1>7. CASE FlushTable
    <2>1. \E e : bg' = [bg EXCEPT !.pc = "manifest", !.edit = e] /\ e.log_number = mem
        BY <1>2, <1>3a, <1>7, FlushEdits, Zenon
    <2> QED
        BY <1>4, <2>1, Zenon
<1>8. CASE WriteOutput
    <2> DEFINE x == Tail(bg.todo)
               y == bg.outputs \cup {FileMetaData(vset.next_file_number, Head(bg.todo))}
    <2>1. bg' = [bg EXCEPT !.todo = x, !.outputs = y]
        BY <1>8, Zenon DEF WriteOutput
    <2> HIDE DEF x, y
    <2> QED
        BY <1>1, <2>1 DEF IsWork
<1>9. CASE FinishCompaction
    <2>1. \E e : bg' = [bg EXCEPT !.pc = "manifest", !.edit = e] /\ e.log_number = vset.log_number
        BY <1>9, CompactionEdits, Zenon
    <2> QED
        BY <1>4, <2>1, Zenon
<1>10. CASE WriteManifestFails
    <2>1. EndCall(vset, imm, manual_compaction', TRUE) \/ AfterFlush(vset, imm, TRUE)
        BY <1>10 DEF WriteManifestFails
    <2> QED
        BY <1>2, <1>3a, <2>1, AfterFlushWorks DEF EndCall
<1> QED
    BY <1>2, <1>5, <1>6, <1>7, <1>8, <1>9, <1>10, BgChanges DEF Steady

\* What WriteManifest and WriteManifestFails leave as CURRENT.
LEMMA PersistedNumbers ==
    ASSUME DBInv, bg.pc = "manifest", disk' = Persisted
    PROVE  /\ disk'.logs = disk.logs
           /\ disk'.current = IF bg.edit.kind = "open" THEN vset.manifest_file_number ELSE disk.current
           /\ disk'.manifests[disk'.current].log_number = bg.edit.log_number
<1> DEFINE n == IF bg.edit.kind = "open" THEN vset.manifest_file_number ELSE disk.current
<1>1. PICK m : /\ Persisted = [logs |-> disk.logs, tables |-> disk.tables,
                               manifests |-> Put(disk.manifests, n, m), current |-> n]
               /\ m.log_number = bg.edit.log_number
    BY PersistedDisk
<1> HIDE DEF n
<1> DEFINE ms == Put(disk.manifests, n, m)
<1>2. ms[n] = m
    BY DEF Put
<1> HIDE DEF ms
<1>3. disk' = [logs |-> disk.logs, tables |-> disk.tables, manifests |-> ms, current |-> n]
    BY <1>1 DEF ms
<1> QED
    BY <1>1, <1>2, <1>3 DEF n

\* The numbers that Open starts with are above those of every log it recovers.
LEMMA OpenVersions ==
    ASSUME Open
    PROVE  /\ vset'.log_number = CurrentManifest.log_number
           /\ vset'.next_file_number = RecoverLogs(CurrentManifest).next + 1
           /\ vset'.manifest_file_number = CurrentManifest.next_file
<1> DEFINE m == disk.manifests[disk.current]
           r == RecoverLogs(m)
           recovered == {r.written[i][2] : i \in DOMAIN r.written}
           seqs == {m.last_sequence} \cup {e.seq : e \in UNION recovered}
           last == CHOOSE s \in seqs : \A t \in seqs : t <= s
<1>1. vset' = [current |-> m.files, file_to_compact |-> {}, next_file_number |-> r.next + 1,
               last_sequence |-> last, log_number |-> m.log_number,
               manifest_file_number |-> m.next_file, compact_pointer |-> m.compact_pointer]
    BY Zenon DEF Open
<1> HIDE DEF last
<1>2. m = CurrentManifest
    BY DEF CurrentManifest
<1> HIDE DEF m
<1> QED
    BY <1>1, <1>2

\* Every step keeps the order of the file numbers.
LEMMA NumbersStep ==
    ASSUME DBInv, [Next]_vars
    PROVE  NumbersInv'
<1>1. NumbersInv /\ IsDisk(disk) /\ AreLogs(disk.logs) /\ IsVersions(vset) /\ IsWork(bg)
    BY DEF DBInv, DiskInv, VsetInv, ThreadsInv
<1>2. CASE UNCHANGED vars
    BY <1>1, <1>2 DEF NumbersInv, CurrentManifest, vars, files, tables, work
<1>3. CASE NewDB
    BY <1>3 DEF NewDB, NumbersInv
<1>4. CASE OpenFails \/ Closed \/ Kill \/ PowerLoss
    BY <1>4 DEF OpenFails, Closed, Kill, PowerLoss, EndProcess, NumbersInv
<1>5. CASE Open
    <2> DEFINE m == CurrentManifest
               r == RecoverLogs(m)
    <2>1. /\ IsManifest(m) /\ r.next \in Nat /\ m.next_file < r.next
          /\ \A n \in DOMAIN disk.logs : n >= m.log_number => n < r.next
        BY <1>5, OpenStartsWithRecovery DEF IsRecovery
    <2>2. /\ status' = "opening" /\ disk.current # 0 /\ mem' = r.next
          /\ vset'.log_number = m.log_number /\ vset'.next_file_number = r.next + 1
          /\ vset'.manifest_file_number = m.next_file
        <3>1. status' = "opening" /\ disk.current # 0 /\ mem' = r.next
            BY <1>5, Zenon DEF Open, CurrentManifest
        <3> QED
            BY <1>5, <3>1, OpenVersions
    <2>3. /\ DOMAIN disk'.logs = DOMAIN disk.logs \cup {r.next}
          /\ disk'.manifests = disk.manifests /\ disk'.current = disk.current
        <3> DEFINE logs == Put(disk.logs, r.next, NewLog)
                   ts == [n \in DOMAIN disk.tables \cup {r.written[i][1] : i \in DOMAIN r.written} |->
                             LET w == {i \in DOMAIN r.written : r.written[i][1] = n}
                             IN IF w = {} THEN disk.tables[n] ELSE UNION {r.written[i][2] : i \in w}]
        <3>1. disk' = [disk EXCEPT !.logs = logs, !.tables = ts]
            BY <1>5, Zenon DEF Open, CurrentManifest
        <3> HIDE DEF r, ts
        <3>2. DOMAIN logs = DOMAIN disk.logs \cup {r.next}
            BY DEF Put
        <3> HIDE DEF logs
        <3>3. \A x, y : [disk EXCEPT !.logs = x, !.tables = y] =
                  [logs |-> x, tables |-> y, manifests |-> disk.manifests, current |-> disk.current]
            BY <1>1, DiskExcept, Zenon
        <3>4. disk' = [logs |-> logs, tables |-> ts, manifests |-> disk.manifests,
                  current |-> disk.current]
            BY <3>1, <3>3, Zenon
        <3> QED
            BY <3>2, <3>4
    <2>4. PICK e : bg' = [bg EXCEPT !.pc = "manifest", !.edit = e] /\ e.log_number = r.next
        <3>1. \E e : /\ bg' = [bg EXCEPT !.pc = "manifest", !.edit = e]
                     /\ e.log_number = RecoverLogs(CurrentManifest).next
            <4>1. Open
                BY <1>5
            <4> QED
                BY <4>1, OpenEdits, Zenon
        <3> QED
            BY <3>1, Zenon
    <2>5. bg'.pc = "manifest" /\ bg'.edit = e
        BY <1>1, <2>4 DEF IsWork
    <2>6. CurrentManifest' = m
        BY <2>3 DEF CurrentManifest
    <2> HIDE DEF m, r
    <2>7. m.log_number \in Nat /\ m.next_file \in Nat /\ m.log_number < m.next_file
        BY <2>1 DEF IsManifest
    <2>8. \A n \in DOMAIN disk'.logs : n >= vset'.log_number => n < vset'.next_file_number
        BY <1>1, <2>1, <2>2, <2>3, <2>7 DEF AreLogs
    <2>9. bg'.edit.log_number = r.next
        BY <2>4, <2>5
    <2> QED
        BY <2>1, <2>2, <2>3, <2>5, <2>6, <2>7, <2>8, <2>9 DEF NumbersInv
<1>6. CASE WriteManifest
    <2>1. bg.pc = "manifest" /\ bg' = [bg EXCEPT !.pc = "install"] /\ disk' = Persisted
          /\ UNCHANGED <<status, vset, mem>>
        BY <1>6 DEF WriteManifest, tables
    <2>2. bg'.pc = "install" /\ bg'.edit = bg.edit
        BY <1>1, <2>1 DEF IsWork
    <2>3. /\ disk'.logs = disk.logs
          /\ disk'.current = IF bg.edit.kind = "open" THEN vset.manifest_file_number ELSE disk.current
          /\ CurrentManifest'.log_number = bg.edit.log_number
        BY <2>1, PersistedNumbers DEF CurrentManifest
    <2>4. status # "down"
        BY <2>1, BusyIsRunning
    <2>5. status = "opening" => bg.edit.kind = "open"
        BY DEF DBInv, StatusInv, Opening
    <2>6. disk'.current = vset.manifest_file_number /\ disk'.current # 0
        BY <1>1, <2>3, <2>4, <2>5 DEF NumbersInv
    <2> QED
        BY <1>1, <2>1, <2>2, <2>3, <2>4, <2>6 DEF NumbersInv
<1>7. CASE Install
    <2>1. bg.pc = "install" /\ UNCHANGED mem
        BY <1>7 DEF Install
    <2>2. status # "down"
        BY <2>1, BusyIsRunning
    <2>3. /\ vset'.log_number = bg.edit.log_number
          /\ vset'.next_file_number = vset.next_file_number
          /\ vset'.manifest_file_number = vset.manifest_file_number
        BY <1>7, InstallVersions
    <2>4. KeepsYoung(disk, disk', vset')
        BY <1>7, InstallDeletes
    <2>5. bg'.pc \notin {"manifest", "install"}
        <3>1. bg' = NoWork \/ bg' = [bg EXCEPT !.pc = "work", !.number = NULL, !.edit = NoEdit]
            BY <1>7, AfterFlushWorks DEF Install, EndCall
        <3>2. CASE bg' = NoWork
            BY <3>2 DEF NoWork
        <3>3. CASE bg' = [bg EXCEPT !.pc = "work", !.number = NULL, !.edit = NoEdit]
            <4>1. bg'.pc = "work"
                BY <1>1, <3>3 DEF IsWork
            <4> QED
                BY <4>1
        <3> QED
            BY <3>1, <3>2, <3>3
    <2>6. vset.log_number \in Nat /\ bg.edit.log_number \in Nat /\ mem \in Nat
          /\ vset.manifest_file_number \in Nat
        BY <1>1, <2>1, <2>2, RunningNumbers DEF IsWork, IsEdit, IsVersions
    <2>7. mem \in DOMAIN disk'.logs
        BY <1>1, <2>1, <2>2, <2>3, <2>4, <2>6 DEF NumbersInv, KeepsYoung
    <2>8. \A n \in DOMAIN disk'.logs : n >= vset'.log_number => n < vset'.next_file_number
        <3>1. DOMAIN disk'.logs \subseteq DOMAIN disk.logs /\ DOMAIN disk.logs \subseteq Nat
            BY <1>1, <2>4 DEF KeepsYoung, PartOf, AreLogs
        <3>2. vset.log_number <= bg.edit.log_number
            BY <1>1, <2>1, <2>2 DEF NumbersInv
        <3> QED
            BY <1>1, <2>2, <2>3, <2>6, <3>1, <3>2 DEF NumbersInv
    <2>9. disk'.current = vset.manifest_file_number /\ disk.current = vset.manifest_file_number
          /\ disk.current # 0
        BY <1>1, <2>1, <2>2, <2>4 DEF NumbersInv, KeepsYoung
    <2>10. CurrentManifest' = CurrentManifest
        <3>1. disk.current \in DOMAIN disk.manifests
            BY <2>9 DEF DBInv, DiskInv
        <3>2. disk.current \in DOMAIN disk'.manifests
            BY <2>3, <2>4, <2>6, <2>9, <3>1 DEF KeepsYoung
        <3>3. disk'.manifests[disk.current] = disk.manifests[disk.current]
            BY <2>4, <3>2 DEF KeepsYoung, PartOf
        <3> QED
            BY <2>9, <3>3 DEF CurrentManifest
    <2>11. CurrentManifest.log_number = bg.edit.log_number
        BY <1>1, <2>1, <2>2 DEF NumbersInv
    <2>12. bg.edit.log_number <= mem /\ mem < vset.next_file_number
        BY <1>1, <2>1, <2>2 DEF NumbersInv
    <2> QED
        BY <2>1, <2>3, <2>5, <2>6, <2>7, <2>8, <2>9, <2>10, <2>11, <2>12 DEF NumbersInv
<1>8. CASE Steady
    <2>1. status \in {"open", "closing"} /\ status' \in {"open", "closing"}
        BY <1>8, SteadyIsServing, ServingStatus
    <2>2. /\ vset'.log_number = vset.log_number
          /\ vset'.manifest_file_number = vset.manifest_file_number
          /\ vset'.next_file_number >= vset.next_file_number
        BY <1>8, SteadyVersions
    <2>3. IsVersions(vset') /\ DOMAIN disk.logs \subseteq Nat /\ AreLogs(disk'.logs)
        BY <1>1, VsetStep, DiskStep DEF VsetInv, AreLogs, DiskInv
    <2>4. /\ disk.current # 0 /\ vset.manifest_file_number # 0
          /\ mem \in DOMAIN disk.logs /\ vset.log_number <= mem /\ mem < vset.next_file_number
          /\ \A n \in DOMAIN disk.logs : n >= vset.log_number => n < vset.next_file_number
          /\ CurrentManifest.log_number >= vset.log_number
          /\ disk.current = vset.manifest_file_number
          /\ bg.pc \in {"manifest", "install"} =>
                 vset.log_number <= bg.edit.log_number /\ bg.edit.log_number <= mem
          /\ bg.pc = "install" => CurrentManifest.log_number = bg.edit.log_number
        BY <1>1, <2>1 DEF NumbersInv
    <2>5. /\ mem \in Nat /\ mem' \in Nat /\ vset.log_number \in Nat /\ vset.next_file_number \in Nat
          /\ vset'.next_file_number \in Nat
          /\ mem' = mem \/ SwitchMemtable
        <3>1. mem \in Nat /\ vset.log_number \in Nat /\ vset.next_file_number \in Nat
            BY <2>1, RunningNumbers
        <3>2. mem' = mem \/ SwitchMemtable
            BY <1>8, MemChanges DEF Steady
        <3>3. SwitchMemtable => mem' = vset.next_file_number
            BY DEF SwitchMemtable
        <3> QED
            BY <2>3, <3>1, <3>2, <3>3 DEF IsVersions
    <2>6. /\ mem' \in DOMAIN disk'.logs
          /\ vset.log_number <= mem' /\ mem' < vset'.next_file_number /\ mem <= mem'
          /\ \A n \in DOMAIN disk'.logs : n >= vset'.log_number => n < vset'.next_file_number
          /\ disk'.current = disk.current
          /\ \/ CurrentManifest' = CurrentManifest
             \/ WriteManifestFails /\ CurrentManifest'.log_number = bg.edit.log_number
        <3>1. CASE SwitchMemtable
            <4> DEFINE n == vset.next_file_number
                       logs == Put(disk.logs, n, NewLog)
            <4>1. /\ disk' = [disk EXCEPT !.logs = logs] /\ mem' = n
                  /\ vset' = [vset EXCEPT !.next_file_number = n + 1]
                BY <3>1 DEF SwitchMemtable
            <4>2. vset'.next_file_number = n + 1
                BY <1>1, <4>1 DEF IsVersions
            <4>3. DOMAIN logs = DOMAIN disk.logs \cup {n}
                BY DEF Put
            <4>4. \A x : [disk EXCEPT !.logs = x] =
                      [logs |-> x, tables |-> disk.tables, manifests |-> disk.manifests,
                          current |-> disk.current]
                BY <1>1, DiskExcept, Zenon
            <4> HIDE DEF n, logs
            <4>5. disk' = [logs |-> logs, tables |-> disk.tables, manifests |-> disk.manifests,
                      current |-> disk.current]
                BY <4>1, <4>4, Zenon
            <4>6. DOMAIN disk'.logs = DOMAIN disk.logs \cup {n} /\ disk'.current = disk.current
                  /\ disk'.manifests = disk.manifests
                BY <4>3, <4>5
            <4>7. CurrentManifest' = CurrentManifest
                BY <4>6 DEF CurrentManifest
            <4> QED
                BY <2>2, <2>3, <2>4, <2>5, <4>1, <4>2, <4>6, <4>7 DEF n
        <3>2. CASE ~SwitchMemtable /\ WriteManifestFails
            <4>1. bg.pc = "manifest" /\ bg.edit.kind # "open" /\ (UNCHANGED disk \/ disk' = Persisted)
                BY <3>2 DEF WriteManifestFails
            <4>2. CASE UNCHANGED disk
                BY <2>2, <2>3, <2>4, <2>5, <3>2, <4>2 DEF CurrentManifest
            <4>3. CASE disk' = Persisted
                <5>1. /\ disk'.logs = disk.logs /\ disk'.current = disk.current
                      /\ CurrentManifest'.log_number = bg.edit.log_number
                    BY <4>1, <4>3, PersistedNumbers DEF CurrentManifest
                <5> QED
                    BY <2>2, <2>3, <2>4, <2>5, <3>2, <5>1
            <4> QED
                BY <4>1, <4>2, <4>3
        <3>3. CASE ~SwitchMemtable /\ ~WriteManifestFails
            <4>1. /\ DOMAIN disk'.logs = DOMAIN disk.logs
                  /\ disk'.manifests = disk.manifests /\ disk'.current = disk.current
                BY <1>8, <3>3, SteadyDisk
            <4>2. CurrentManifest' = CurrentManifest
                BY <4>1 DEF CurrentManifest
            <4> QED
                BY <2>2, <2>3, <2>4, <2>5, <3>3, <4>1, <4>2
        <3> QED
            BY <3>1, <3>2, <3>3
    <2>7. ASSUME bg'.pc \in {"manifest", "install"}
          PROVE  vset.log_number <= bg'.edit.log_number /\ bg'.edit.log_number <= mem'
        <3>1. \/ bg'.pc = bg.pc /\ bg'.edit = bg.edit
              \/ bg'.pc = "manifest" /\ bg'.edit.log_number \in {vset.log_number, mem}
            BY <1>8, <2>7, SteadyEdits
        <3>2. IsWork(bg')
            BY BgStep
        <3>3. bg'.edit.log_number \in Nat
            BY <2>7, <3>2 DEF IsWork, IsEdit
        <3> QED
            BY <2>4, <2>5, <2>6, <2>7, <3>1, <3>3
    <2>8. CurrentManifest'.log_number >= vset.log_number
        <3>1. WriteManifestFails => bg.pc = "manifest"
            BY DEF WriteManifestFails
        <3>2. WriteManifestFails => bg.edit.log_number \in Nat
            BY <1>1, <3>1 DEF IsWork, IsEdit
        <3> QED
            BY <2>4, <2>5, <2>6, <3>1, <3>2
    <2>9. ASSUME bg'.pc = "install"
          PROVE  CurrentManifest'.log_number = bg'.edit.log_number
        <3>1. bg'.pc = bg.pc /\ bg'.edit = bg.edit
            BY <1>8, <2>9, SteadyEdits
        <3>2. ~WriteManifestFails
            BY <2>9, <3>1 DEF WriteManifestFails
        <3> QED
            BY <2>4, <2>6, <2>9, <3>1, <3>2
    <2> QED
        BY <2>1, <2>2, <2>4, <2>6, <2>7, <2>8, <2>9 DEF NumbersInv
<1> QED
    BY <1>2, <1>3, <1>4, <1>5, <1>6, <1>7, <1>8 DEF Steady

-----------------------------------------------------------------------------
(* The batches in the logs                                                  *)

Batched(h) == IsSequence(h) /\ \A i \in DOMAIN h : IsBatch(h[i])
\* The same batches, of which more is true.
Marked(h, g) ==
    /\ Batched(g) /\ DOMAIN g = DOMAIN h
    /\ \A i \in DOMAIN h : /\ g[i].log = h[i].log /\ g[i].record = h[i].record
                           /\ g[i].after_failure = h[i].after_failure
                           /\ g[i].sync <=> h[i].sync
                           /\ h[i].durable => g[i].durable

\* The actions that change what took effect.
LEMMA HistoryChanges ==
    ASSUME Next
    PROVE  \/ WriteGroup \/ FinishWrite \/ WriteManifest \/ Install
           \/ Closed \/ Kill \/ PowerLoss \/ UNCHANGED history
<1>1. ASSUME NEW w \in Writers, NEW b \in Batches, NEW sync \in BOOLEAN, Write(w, b, sync)
      PROVE  UNCHANGED history
    BY <1>1 DEF Write, files
<1>2. ASSUME NEW r \in Readers, NEW keys, NEW iterate, BeginRead(r, keys, iterate)
      PROVE  UNCHANGED history
    BY <1>2 DEF BeginRead, files
<1>3. ASSUME NEW r \in Readers, EndRead(r)
      PROVE  UNCHANGED history
    BY <1>3 DEF EndRead, files
<1>4. ASSUME NEW range \in Ranges, CallCompactRange(range)
      PROVE  UNCHANGED history
    BY <1>4 DEF CallCompactRange, files
<1>5. NewDB \/ Open \/ OpenFails => UNCHANGED history
    BY Zenon DEF NewDB, Open, OpenFails, files
<1>6. DelayWrite \/ SwitchMemtable \/ FailWrite \/ FinishNullWrite => UNCHANGED history
    BY Zenon DEF DelayWrite, SwitchMemtable, FailWrite, FinishNullWrite, files
<1>7. GetSnapshot \/ ReleaseSnapshot \/ BackgroundCall \/ BeginNestedFlush => UNCHANGED history
    BY Zenon DEF GetSnapshot, ReleaseSnapshot, BackgroundCall, BeginNestedFlush, files
<1>8. FlushTable \/ WriteOutput \/ AbortCompaction \/ FinishCompaction \/ WriteManifestFails =>
          UNCHANGED history
    BY Zenon DEF FlushTable, WriteOutput, AbortCompaction, FinishCompaction, WriteManifestFails, files
<1>9. FinishCompactMemTable \/ StartManual \/ FinishManual => UNCHANGED history
    BY Zenon DEF FinishCompactMemTable, StartManual, FinishManual, files
<1>10. Close => UNCHANGED history
    BY Zenon DEF Close, files
<1> QED
    BY <1>1, <1>2, <1>3, <1>4, <1>5, <1>6, <1>7, <1>8, <1>9, <1>10 DEF Next

\* A batch that took effect, and one that is durable.
LEMMA BatchExcept ==
    ASSUME NEW b, IsBatch(b), NEW x
    PROVE  /\ [b EXCEPT !.applied = x] =
                  [id |-> b.id, sync |-> b.sync, applied |-> x, durable |-> b.durable,
                   after_failure |-> b.after_failure, log |-> b.log, record |-> b.record, ops |-> b.ops]
           /\ [b EXCEPT !.durable = x] =
                  [id |-> b.id, sync |-> b.sync, applied |-> b.applied, durable |-> x,
                   after_failure |-> b.after_failure, log |-> b.log, record |-> b.record, ops |-> b.ops]
<1> DEFINE id == b.id
           sync == b.sync
           applied == b.applied
           durable == b.durable
           after == b.after_failure
           log == b.log
           record == b.record
           ops == b.ops
<1>1. b = [id |-> id, sync |-> sync, applied |-> applied, durable |-> durable,
           after_failure |-> after, log |-> log, record |-> record, ops |-> ops]
    BY DEF IsBatch
<1> HIDE DEF id, sync, applied, durable, after, log, record, ops
<1>2. [b EXCEPT !.applied = x] = [id |-> id, sync |-> sync, applied |-> x, durable |-> durable,
                                  after_failure |-> after, log |-> log, record |-> record, ops |-> ops]
    BY <1>1
<1>3. [b EXCEPT !.durable = x] = [id |-> id, sync |-> sync, applied |-> applied, durable |-> x,
                                  after_failure |-> after, log |-> log, record |-> record, ops |-> ops]
    BY <1>1
<1> QED
    BY <1>2, <1>3 DEF id, sync, applied, durable, after, log, record, ops

\* Marking batches keeps their sequence.
LEMMA MarkedSequence ==
    ASSUME NEW h, IsSequence(h), NEW g, g = [i \in DOMAIN h |-> g[i]]
    PROVE  IsSequence(g) /\ DOMAIN g = DOMAIN h
<1>1. DOMAIN h = 1 .. Len(h) /\ Len(h) \in Nat
    BY SequenceIndices
<1>2. DOMAIN g = 1 .. Len(h) /\ g = [i \in 1 .. Len(h) |-> g[i]]
    BY <1>1
<1>3. IsSequence(g)
    BY <1>1, <1>2, ListIsSequence
<1> QED
    BY <1>1, <1>2, <1>3

\* The same batches, of which more took effect.
MarkedApplied(h, g) ==
    /\ g = [i \in DOMAIN h |-> g[i]]
    /\ \A i \in DOMAIN h : g[i] = h[i] \/ g[i] = [h[i] EXCEPT !.applied = TRUE]

\* Marking some batches of a history as applied.
LEMMA AppliedBatches ==
    ASSUME NEW h, Batched(h), NEW g, MarkedApplied(h, g)
    PROVE  Marked(h, g)
<1> USE DEF MarkedApplied
<1>1. ASSUME NEW i \in DOMAIN h
      PROVE  /\ IsBatch(g[i]) /\ g[i].log = h[i].log /\ g[i].record = h[i].record
             /\ g[i].sync = h[i].sync /\ g[i].durable = h[i].durable
             /\ g[i].after_failure = h[i].after_failure
    <2> DEFINE b == h[i]
    <2>1. IsBatch(b) /\ (g[i] = b \/ g[i] = [b EXCEPT !.applied = TRUE])
        BY DEF Batched
    <2> HIDE DEF b
    <2>2. CASE g[i] = b
        BY <2>1, <2>2 DEF b
    <2>3. CASE g[i] = [b EXCEPT !.applied = TRUE]
        <3>1. g[i] = [id |-> b.id, sync |-> b.sync, applied |-> TRUE, durable |-> b.durable,
                      after_failure |-> b.after_failure, log |-> b.log, record |-> b.record,
                      ops |-> b.ops]
            BY <2>1, <2>3, BatchExcept, Zenon
        <3> QED
            BY <2>1, <3>1 DEF IsBatch, b
    <2> QED
        BY <2>1, <2>2, <2>3
<1>2. IsSequence(g) /\ DOMAIN g = DOMAIN h
    <2>1. IsSequence(h)
        BY DEF Batched
    <2> QED
        BY <2>1, MarkedSequence, Zenon
<1> QED
    BY <1>1, <1>2 DEF Marked, Batched

\* Marks of durability keep what took effect.
LEMMA DurableBatches ==
    ASSUME NEW h, Batched(h), NEW g, NEW more \in [DOMAIN h -> BOOLEAN],
           g = [i \in DOMAIN h |-> g[i]],
           \A i \in DOMAIN h : g[i] = [h[i] EXCEPT !.durable = h[i].durable \/ more[i]]
    PROVE  /\ Marked(h, g)
           /\ \A i \in DOMAIN h : /\ g[i].applied = h[i].applied
                                  /\ more[i] => g[i].durable
<1>1. ASSUME NEW i \in DOMAIN h
      PROVE  /\ IsBatch(g[i]) /\ g[i].log = h[i].log /\ g[i].record = h[i].record
             /\ g[i].sync = h[i].sync /\ g[i].applied = h[i].applied
             /\ g[i].after_failure = h[i].after_failure
             /\ h[i].durable \/ more[i] => g[i].durable
    <2> DEFINE b == h[i]
               x == b.durable \/ more[i]
    <2>1. IsBatch(b) /\ g[i] = [b EXCEPT !.durable = x]
        BY DEF Batched
    <2>2. x <=> h[i].durable \/ more[i]
        OBVIOUS
    <2> HIDE DEF x, b
    <2>3. g[i] = [id |-> b.id, sync |-> b.sync, applied |-> b.applied, durable |-> x,
                  after_failure |-> b.after_failure, log |-> b.log, record |-> b.record, ops |-> b.ops]
        BY <2>1, BatchExcept, Zenon
    <2>4. g[i].durable = x
        BY <2>3
    <2> QED
        BY <2>1, <2>2, <2>3, <2>4 DEF IsBatch, b
<1>3. IsSequence(g) /\ DOMAIN g = DOMAIN h
    <2>1. IsSequence(h)
        BY DEF Batched
    <2> QED
        BY <2>1, MarkedSequence, Zenon
<1> QED
    BY <1>1, <1>3 DEF Marked, Batched

\* Harden marks batches as durable and changes nothing else.
LEMMA HardenMarks ==
    ASSUME NEW h, Batched(h), NEW n, NEW d
    PROVE  /\ Marked(h, Harden(h, n, d))
           /\ \A i \in DOMAIN h : /\ Harden(h, n, d)[i].applied = h[i].applied
                                  /\ h[i].log = n /\ h[i].record \notin d => Harden(h, n, d)[i].durable
<1> DEFINE more == [i \in DOMAIN h |-> h[i].log = n /\ h[i].record \notin d]
           g == Harden(h, n, d)
<1>1. more \in [DOMAIN h -> BOOLEAN]
    OBVIOUS
<1>2. \A i \in DOMAIN h : more[i] = (h[i].log = n /\ h[i].record \notin d)
    OBVIOUS
<1>3. g = [i \in DOMAIN h |-> [h[i] EXCEPT !.durable = h[i].durable \/ (h[i].log = n /\ h[i].record \notin d)]]
    BY DEF Harden
<1> HIDE DEF more, g
<1>4. g = [i \in DOMAIN h |-> g[i]] /\ DOMAIN g = DOMAIN h
    BY <1>3
<1>4a. \A i \in DOMAIN h : g[i] = [h[i] EXCEPT !.durable = h[i].durable \/ more[i]]
    BY <1>2, <1>3, Zenon
<1>5. /\ Marked(h, g)
      /\ \A i \in DOMAIN h : /\ g[i].applied = h[i].applied
                             /\ more[i] => g[i].durable
    BY <1>1, <1>4, <1>4a, DurableBatches
<1> QED
    BY <1>2, <1>5 DEF g

\* What a group of writers adds to the log.
LEMMA LoggedBatches ==
    ASSUME DBInv, WriteGroup, NEW first, NEW hurt
    PROVE  /\ Batched(Logged(first, hurt))
           /\ \A i \in DOMAIN Logged(first, hurt) :
                 LET b == Logged(first, hurt)[i]
                 IN /\ b.log = mem /\ b.record = Len(disk.logs[mem].records) + 1
                    /\ b.applied = FALSE /\ b.after_failure = hurt
                    /\ b.sync => FirstWriter.sync
<1> DEFINE N == BuildBatchGroup
           R == Len(disk.logs[mem].records) + 1
           ops(i) == [j \in DOMAIN writers[i].ops |->
                         [key |-> writers[i].ops[j].key,
                          val |-> ValueFor(writers[i].ops[j], first + i)]]
           all == [i \in 1 .. N |->
                      [id |-> first + i, sync |-> writers[i].sync, applied |-> FALSE, durable |-> FALSE,
                       after_failure |-> hurt, log |-> mem, record |-> R, ops |-> ops(i)]]
           P == {i \in DOMAIN all : all[i].ops # <<>>}
           s == Logged(first, hurt)
<1>1. s = Subsequence(all, P)
    BY DEF Logged
<1>2. N \in Nat /\ \A i \in 1 .. N : writers[i].sync => FirstWriter.sync
    <2>1. IsSequence(writers) /\ writers # <<>>
        BY DEF DBInv, SyncInv, WriteGroup, Leading
    <2> QED
        BY <2>1, BuildBatchGroupJoins, SequenceIndices
<1>3. mem \in Nat /\ R \in Nat
    <2>1. status # "down"
        BY LeadingIsServing DEF WriteGroup
    <2>2. IsLog(disk.logs[mem])
        BY <2>1 DEF DBInv, DiskInv, AreLogs, NumbersInv
    <2>3. Len(disk.logs[mem].records) \in Nat
        BY <2>2, SequenceIndices DEF IsLog
    <2> QED
        BY <2>1, <2>3, RunningNumbers
<1> HIDE DEF N, R, s
<1> HIDE DEF ops
<1>4. ASSUME NEW i \in 1 .. N
      PROVE  /\ IsBatch(all[i]) /\ all[i].log = mem /\ all[i].record = R
             /\ all[i].applied = FALSE /\ all[i].after_failure = hurt /\ all[i].sync = writers[i].sync
    <2> DEFINE o == ops(i)
               y == writers[i].sync
               x == first + i
    <2>1. all[i] = [id |-> x, sync |-> y, applied |-> FALSE, durable |-> FALSE,
                    after_failure |-> hurt, log |-> mem, record |-> R, ops |-> o]
        OBVIOUS
    <2> HIDE DEF o, x, y, all
    <2>2. IsBatch(all[i])
        BY <1>3, <2>1 DEF IsBatch
    <2>3. all[i].log = mem /\ all[i].record = R /\ all[i].applied = FALSE
              /\ all[i].after_failure = hurt /\ all[i].sync = y
        BY <2>1
    <2> QED
        BY <2>2, <2>3 DEF y
<1>5. DOMAIN all = 1 .. N /\ all = [i \in 1 .. N |-> all[i]]
    OBVIOUS
<1>6. P \in SUBSET DOMAIN all
    OBVIOUS
<1> HIDE DEF all, P
<1>7. IsSequence(all)
    BY <1>2, <1>5, ListIsSequence
<1>8. IsSequence(s) /\ \A i \in DOMAIN s : \E j \in P : s[i] = all[j]
    BY <1>1, <1>6, <1>7, SubsequenceHolds
<1>9. ASSUME NEW i \in DOMAIN s
      PROVE  /\ IsBatch(s[i]) /\ s[i].log = mem /\ s[i].record = R
             /\ s[i].applied = FALSE /\ s[i].after_failure = hurt
             /\ s[i].sync => FirstWriter.sync
    <2>1. PICK j \in P : s[i] = all[j]
        BY <1>8
    <2>2. j \in 1 .. N
        BY <1>5, <1>6
    <2>3. /\ IsBatch(all[j]) /\ all[j].log = mem /\ all[j].record = R
          /\ all[j].applied = FALSE /\ all[j].after_failure = hurt /\ all[j].sync = writers[j].sync
        BY <1>4, <2>2
    <2> QED
        BY <1>2, <2>1, <2>2, <2>3
<1> QED
    BY <1>8, <1>9 DEF s, R, Batched

\* WriteGroup adds the batches of the group, all in the same new record; one asks
\* for a sync only if the first writer does.
LEMMA GroupIsAdded ==
    ASSUME DBInv, WriteGroup, NEW hurt
    PROVE  LET h == history \o Logged(LastId, hurt)
           IN /\ Batched(h) /\ DOMAIN history \subseteq DOMAIN h
              /\ \A i \in DOMAIN history : h[i] = history[i]
              /\ \A i \in DOMAIN h \ DOMAIN history :
                    /\ h[i].log = mem /\ h[i].record = Len(disk.logs[mem].records) + 1
                    /\ h[i].applied = FALSE /\ h[i].after_failure = hurt
                    /\ h[i].sync => FirstWriter.sync
<1> DEFINE new == Logged(LastId, hurt)
           h == history \o new
<1>1. Batched(history)
    BY DEF DBInv, HistoryInv, Batched
<1>2. Batched(new) /\ \A i \in DOMAIN new :
          /\ new[i].log = mem /\ new[i].record = Len(disk.logs[mem].records) + 1
          /\ new[i].applied = FALSE /\ new[i].after_failure = hurt
          /\ new[i].sync => FirstWriter.sync
    BY LoggedBatches
<1> HIDE DEF new
<1>3. /\ IsSequence(h) /\ Len(h) = Len(history) + Len(new)
      /\ \A i \in 1 .. Len(history) + Len(new) :
            h[i] = IF i <= Len(history) THEN history[i] ELSE new[i - Len(history)]
    BY <1>1, <1>2, ConcatIsSequence DEF Batched
<1>4. /\ DOMAIN history = 1 .. Len(history) /\ Len(history) \in Nat
      /\ DOMAIN new = 1 .. Len(new) /\ Len(new) \in Nat
      /\ DOMAIN h = 1 .. Len(h)
    BY <1>1, <1>2, <1>3, SequenceIndices DEF Batched
<1> HIDE DEF h
<1>5. ASSUME NEW i \in DOMAIN history
      PROVE  i \in DOMAIN h /\ h[i] = history[i]
    BY <1>3, <1>4
<1>6. ASSUME NEW i \in DOMAIN h \ DOMAIN history
      PROVE  i - Len(history) \in DOMAIN new /\ h[i] = new[i - Len(history)]
    BY <1>3, <1>4
<1>7. Batched(h)
    BY <1>1, <1>2, <1>3, <1>5, <1>6 DEF Batched
<1>8. \A i \in DOMAIN h \ DOMAIN history :
          /\ h[i].log = mem /\ h[i].record = Len(disk.logs[mem].records) + 1
          /\ h[i].applied = FALSE /\ h[i].after_failure = hurt
          /\ h[i].sync => FirstWriter.sync
    BY <1>2, <1>6
<1> QED
    BY <1>5, <1>7, <1>8 DEF h, new

\* Marking batches does not move them to another log or record.
LEMMA MarkedOnDisk ==
    ASSUME NEW h, NEW g, Marked(h, g), NEW n, NEW logs, OnDisk(h, n, logs)
    PROVE  OnDisk(g, n, logs)
BY DEF Marked, OnDisk

\* What is on the disk from a log on is there from a younger log on.
LEMMA YoungerOnDisk ==
    ASSUME NEW h, Batched(h), NEW n \in Nat, NEW m \in Nat, n <= m, NEW logs, OnDisk(h, n, logs)
    PROVE  OnDisk(h, m, logs)
BY DEF Batched, IsBatch, OnDisk

\* What a failure keeps is on the disk that it leaves.
LEMMA KeptOnDisk ==
    ASSUME NEW h, NEW n, NEW logs, OnDisk(h, n, logs), NEW kept,
           \A x \in DOMAIN logs : x >= n => x \in DOMAIN kept /\ kept[x] = logs[x]
    PROVE  OnDisk(h, n, kept)
BY DEF OnDisk

\* The empty log that Open and SwitchMemtable make is younger than all that count.
LEMMA NewLogOnDisk ==
    ASSUME NEW h, NEW n \in Nat, NEW logs, OnDisk(h, n, logs), DOMAIN logs \subseteq Nat, NEW x \in Nat,
           \A y \in DOMAIN logs : y >= n => y < x
    PROVE  OnDisk(h, n, Put(logs, x, NewLog))
<1> DEFINE l == NewLog
           new == Put(logs, x, l)
<1>1. \A y \in DOMAIN logs : y # x => y \in DOMAIN new /\ new[y] = logs[y]
    BY DEF Put
<1> HIDE DEF new
<1>2. \A y \in DOMAIN logs : y >= n => y \in DOMAIN new /\ new[y] = logs[y]
    <2>1. ASSUME NEW y \in DOMAIN logs, y >= n
          PROVE  y # x
        <3>1. y \in Nat /\ y < x
            BY <2>1
        <3> QED
            BY <3>1
    <2> QED
        BY <1>1, <2>1
<1>3. OnDisk(h, n, new)
    BY <1>2, KeptOnDisk
<1> QED
    BY <1>3 DEF new, l

\* Open and SwitchMemtable start an empty log.
LEMMA NewLogIsAdded ==
    ASSUME DBInv
    PROVE  /\ Open => disk'.logs = Put(disk.logs, RecoverLogs(CurrentManifest).next, NewLog)
                      /\ disk'.current = disk.current
           /\ SwitchMemtable => disk'.logs = Put(disk.logs, vset.next_file_number, NewLog)
                                /\ disk'.current = disk.current
<1>1. IsDisk(disk)
    BY DEF DBInv, DiskInv
<1>2. ASSUME Open
      PROVE  disk'.logs = Put(disk.logs, RecoverLogs(CurrentManifest).next, NewLog)
             /\ disk'.current = disk.current
    <2> DEFINE r == RecoverLogs(CurrentManifest)
               logs == Put(disk.logs, r.next, NewLog)
               ts == [n \in DOMAIN disk.tables \cup {r.written[i][1] : i \in DOMAIN r.written} |->
                         LET w == {i \in DOMAIN r.written : r.written[i][1] = n}
                         IN IF w = {} THEN disk.tables[n] ELSE UNION {r.written[i][2] : i \in w}]
    <2>1. disk' = [disk EXCEPT !.logs = logs, !.tables = ts]
        BY <1>2, Zenon DEF Open, CurrentManifest
    <2> HIDE DEF logs, ts
    <2>2. \A x, y : [disk EXCEPT !.logs = x, !.tables = y] =
              [logs |-> x, tables |-> y, manifests |-> disk.manifests, current |-> disk.current]
        BY <1>1, DiskExcept, Zenon
    <2>3. disk' = [logs |-> logs, tables |-> ts, manifests |-> disk.manifests, current |-> disk.current]
        BY <2>1, <2>2, Zenon
    <2>4. disk'.logs = logs /\ disk'.current = disk.current
        BY <2>3
    <2> QED
        BY <2>4 DEF logs
<1>3. ASSUME SwitchMemtable
      PROVE  disk'.logs = Put(disk.logs, vset.next_file_number, NewLog)
             /\ disk'.current = disk.current
    <2> DEFINE logs == Put(disk.logs, vset.next_file_number, NewLog)
    <2>1. disk' = [disk EXCEPT !.logs = logs]
        BY <1>3, Zenon DEF SwitchMemtable
    <2> HIDE DEF logs
    <2>2. \A x : [disk EXCEPT !.logs = x] =
              [logs |-> x, tables |-> disk.tables, manifests |-> disk.manifests,
                  current |-> disk.current]
        BY <1>1, DiskExcept, Zenon
    <2>3. disk' = [logs |-> logs, tables |-> disk.tables, manifests |-> disk.manifests,
              current |-> disk.current]
        BY <2>1, <2>2, Zenon
    <2>4. disk'.logs = logs /\ disk'.current = disk.current
        BY <2>3
    <2> QED
        BY <2>4 DEF logs
<1> QED
    BY <1>2, <1>3

\* WriteManifest hardens all that its edit makes obsolete.
LEMMA WriteManifestMarks ==
    ASSUME DBInv, WriteManifest
    PROVE  /\ Marked(history, history')
           /\ \A i \in DOMAIN history :
                 /\ history'[i].applied = history[i].applied
                 /\ status = "opening" /\ history[i].log < bg.edit.log_number => history'[i].durable
<1> DEFINE n == bg.edit.log_number
           more == [i \in DOMAIN history |-> InTables(history[i], n)]
<1>1. Batched(history)
    BY DEF DBInv, HistoryInv, Batched
<1>2. more \in [DOMAIN history -> BOOLEAN]
    BY DEF InTables
<1>3. history' = [i \in DOMAIN history |->
                     [history[i] EXCEPT !.durable = history[i].durable \/ InTables(history[i], n)]]
    BY Zenon DEF WriteManifest
<1>4. \A i \in DOMAIN history : more[i] = InTables(history[i], n)
    OBVIOUS
<1> HIDE DEF more
<1>5. history' = [i \in DOMAIN history |-> history'[i]] /\ DOMAIN history' = DOMAIN history
    BY <1>3
<1>6. \A i \in DOMAIN history : history'[i] = [history[i] EXCEPT !.durable =
          history[i].durable \/ more[i]]
    BY <1>3, <1>4, Zenon
<1>7. /\ Marked(history, history')
      /\ \A i \in DOMAIN history : /\ history'[i].applied = history[i].applied
                                   /\ more[i] => history'[i].durable
    BY <1>1, <1>2, <1>5, <1>6, DurableBatches
<1> QED
    BY <1>4, <1>7 DEF InTables

\* FinishWrite and Install mark batches of the history as applied, and no more;
\* FinishWrite those of the last record.
LEMMA AppliedMarks ==
    ASSUME DBInv
    PROVE  /\ FinishWrite =>
                  \/ UNCHANGED history
                  \/ /\ leader.ok /\ Marked(history, history')
                     /\ \A i \in DOMAIN history :
                           \/ history'[i] = history[i]
                           \/ history[i].log = mem /\ history[i].record = Len(disk.logs[mem].records)
           /\ Install => \/ UNCHANGED history
                         \/ bg.edit.kind = "open" /\ Marked(history, history')
<1>1. Batched(history)
    BY DEF DBInv, HistoryInv, Batched
<1>2. ASSUME FinishWrite, ~UNCHANGED history
      PROVE  /\ leader.ok /\ Marked(history, history')
             /\ \A i \in DOMAIN history :
                   \/ history'[i] = history[i]
                   \/ history[i].log = mem /\ history[i].record = Len(disk.logs[mem].records)
    <2>1. leader.ok /\ history' = Apply(history)
        BY <1>2, Zenon DEF FinishWrite
    <2>2. /\ history' = [i \in DOMAIN history |-> history'[i]]
          /\ \A i \in DOMAIN history :
                \/ history'[i] = history[i]
                \/ /\ history[i].log = mem /\ history[i].record = Len(disk.logs[mem].records)
                   /\ history'[i] = [history[i] EXCEPT !.applied = TRUE]
        BY <2>1 DEF Apply
    <2>3. Marked(history, history')
        <3>1. history' = [i \in DOMAIN history |-> history'[i]]
            BY <2>2
        <3>2. \A i \in DOMAIN history : \/ history'[i] = history[i]
                                        \/ history'[i] = [history[i] EXCEPT !.applied = TRUE]
            BY <2>2, Zenon
        <3>3. MarkedApplied(history, history')
            BY <3>1, <3>2, Zenon DEF MarkedApplied
        <3> QED
            BY <1>1, <3>3, AppliedBatches
    <2> QED
        BY <2>1, <2>2, <2>3, Zenon
<1>3. ASSUME Install
      PROVE  UNCHANGED history \/ (bg.edit.kind = "open" /\ Marked(history, history'))
    <2>1. \/ UNCHANGED history
          \/ /\ bg.edit.kind = "open"
             /\ history' = [i \in DOMAIN history |-> [history[i] EXCEPT !.applied = TRUE]]
        BY <1>3 DEF Install
    <2>2. CASE history' = [i \in DOMAIN history |-> [history[i] EXCEPT !.applied = TRUE]]
        <3>1. history' = [i \in DOMAIN history |-> history'[i]]
            BY <2>2
        <3>2. \A i \in DOMAIN history : \/ history'[i] = history[i]
                                        \/ history'[i] = [history[i] EXCEPT !.applied = TRUE]
            BY <2>2
        <3>3. MarkedApplied(history, history')
            BY <3>1, <3>2, Zenon DEF MarkedApplied
        <3>4. Marked(history, history')
            BY <1>1, <3>3, AppliedBatches
        <3> QED
            BY <2>1, <2>2, <3>4
    <2> QED
        BY <2>1, <2>2
<1> QED
    BY <1>2, <1>3

\* What the next opening can find are batches of the history, in tables or where
\* the reader returns them.
LEMMA RecoverableBatches ==
    ASSUME NEW d, NEW h, Batched(h), d.manifests[d.current].log_number \in Nat
    PROVE  LET g == Recoverable(d, h)
           IN /\ Batched(g) /\ \A i \in DOMAIN g : \E j \in DOMAIN h : g[i] = h[j]
              /\ h = <<>> => g = <<>>
              /\ OnDisk(g, d.manifests[d.current].log_number, d.logs)
<1> DEFINE oldest == d.manifests[d.current].log_number
           P == {i \in DOMAIN h :
                    \/ InTables(h[i], oldest)
                    \/ /\ h[i].log \in DOMAIN d.logs /\ h[i].log >= oldest
                       /\ h[i].record <= Len(d.logs[h[i].log].records)
                       /\ h[i].record \notin d.logs[h[i].log].dropped}
           g == Recoverable(d, h)
<1>1. P \in SUBSET DOMAIN h /\ g = Subsequence(h, P)
    BY DEF Recoverable
<1>2. \A j \in P : \/ h[j].log < oldest
                   \/ /\ h[j].log \in DOMAIN d.logs
                      /\ h[j].record <= Len(d.logs[h[j].log].records)
                      /\ h[j].record \notin d.logs[h[j].log].dropped
    BY DEF InTables
<1> HIDE DEF P, g, oldest
<1>3. IsSequence(g) /\ \A i \in DOMAIN g : \E j \in P : g[i] = h[j]
    BY <1>1, SubsequenceHolds DEF Batched
<1>4. Batched(g) /\ \A i \in DOMAIN g : \E j \in DOMAIN h : g[i] = h[j]
    BY <1>1, <1>3 DEF Batched
<1>5. ASSUME h = <<>>
      PROVE  g = <<>>
    <2>1. DOMAIN g = {}
        BY <1>4, <1>5, EmptyIsSequence
    <2> QED
        BY <1>3, <2>1, SequenceIndices, EmptySeq DEF IsSequence
<1>6. ASSUME NEW i \in DOMAIN g, g[i].log >= oldest
      PROVE  /\ g[i].log \in DOMAIN d.logs
             /\ g[i].record <= Len(d.logs[g[i].log].records)
             /\ g[i].record \in d.logs[g[i].log].dropped => g[i].after_failure
    <2>1. PICK j \in P : g[i] = h[j]
        BY <1>3
    <2>2. h[j].log \in Nat /\ oldest \in Nat
        BY <1>1 DEF Batched, IsBatch, oldest
    <2>3. ~(h[j].log < oldest)
        BY <1>6, <2>1, <2>2
    <2> QED
        BY <1>2, <2>1, <2>3
<1>7. OnDisk(g, oldest, d.logs)
    BY <1>6 DEF OnDisk
<1> QED
    BY <1>4, <1>5, <1>7 DEF g, oldest

\* What the end of the process leaves of the history.
LEMMA EndHistory ==
    ASSUME DBInv, Closed \/ Kill \/ PowerLoss
    PROVE  /\ Batched(history')
           /\ \A i \in DOMAIN history' : \E j \in DOMAIN history : history'[i] = history[j]
           /\ history = <<>> => history' = <<>>
           /\ disk'.current = disk.current /\ CurrentManifest' = CurrentManifest
           /\ OnDisk(history', CurrentManifest.log_number, disk'.logs)
<1>1. Batched(history)
    BY DEF DBInv, HistoryInv, Batched
<1>2. status # "down"
    BY DEF Closed, Kill, PowerLoss
<1>3. CurrentManifest.log_number \in Nat
    BY <1>2 DEF DBInv, NumbersInv, DiskInv, AreManifests, IsManifest, CurrentManifest
<1>4. history' = Recoverable(disk', history) /\ disk'.current = disk.current
      /\ disk'.manifests = disk.manifests
    <2>1. CASE PowerLoss
        <3>1. history' = Recoverable(disk', history)
            BY <2>1, PowerLossDisk
        <3>2. disk'.current = disk.current /\ disk'.manifests = disk.manifests
            BY <2>1, PowerLossDisk
        <3> QED
            BY <3>1, <3>2
    <2>2. CASE Closed \/ Kill
        <3>1. UNCHANGED disk /\ history' = Recoverable(disk, history)
            BY <2>2, Zenon DEF Closed, Kill
        <3> QED
            BY <3>1
    <2> QED
        BY <2>1, <2>2
<1>5. CurrentManifest' = CurrentManifest
      /\ disk'.manifests[disk'.current].log_number = CurrentManifest.log_number
    BY <1>4 DEF CurrentManifest
<1> DEFINE g == Recoverable(disk', history)
           oldest == disk'.manifests[disk'.current].log_number
<1>6. /\ Batched(g) /\ \A i \in DOMAIN g : \E j \in DOMAIN history : g[i] = history[j]
      /\ history = <<>> => g = <<>>
      /\ OnDisk(g, oldest, disk'.logs)
    <2>1. oldest \in Nat
        BY <1>3, <1>5
    <2> QED
        BY <1>1, <2>1, RecoverableBatches
<1> HIDE DEF g
<1>7. history' = g
    BY <1>4 DEF g
<1> QED
    BY <1>4, <1>5, <1>6, <1>7

\* Every step keeps the records of every batch that may still be needed.
LEMMA HistoryStep ==
    ASSUME DBInv, [Next]_vars
    PROVE  HistoryInv'
<1>1. /\ HistoryInv /\ Batched(history) /\ IsDisk(disk) /\ AreLogs(disk.logs) /\ IsVersions(vset)
    BY DEF DBInv, DiskInv, VsetInv, HistoryInv, Batched
<1>2. SUFFICES /\ Batched(history')
               /\ disk'.current = 0 => history' = <<>>
               /\ disk'.current # 0 => OnDisk(history', OldestLog', disk'.logs)
    BY DEF HistoryInv, Batched
<1>3. CASE UNCHANGED vars
    <2>1. UNCHANGED <<disk, history, status, vset>>
        BY <1>3 DEF vars, files
    <2> QED
        BY <1>1, <2>1 DEF HistoryInv, OldestLog, CurrentManifest
<1>4. CASE NewDB
    <2>1. history' = <<>>
        BY <1>1, <1>4 DEF NewDB, HistoryInv
    <2> QED
        BY <2>1, EmptyIsSequence DEF Batched, OnDisk
<1>r. ASSUME status # "down"
      PROVE  /\ disk.current # 0 /\ OnDisk(history, vset.log_number, disk.logs)
             /\ vset.log_number \in Nat /\ CurrentManifest.log_number \in Nat
             /\ vset.log_number <= CurrentManifest.log_number
    <2>1. disk.current # 0 /\ CurrentManifest.log_number >= vset.log_number
        BY <1>r DEF DBInv, NumbersInv
    <2>2. IsManifest(CurrentManifest)
        BY <2>1 DEF DBInv, DiskInv, AreManifests, CurrentManifest
    <2> QED
        BY <1>1, <1>r, <2>1, <2>2 DEF HistoryInv, OldestLog, IsVersions, IsManifest
<1>5. CASE OpenFails
    <2>1. status # "down" /\ status' = "down" /\ UNCHANGED <<disk, history>>
        BY <1>5 DEF OpenFails, files
    <2>2. OldestLog' = CurrentManifest.log_number
        BY <2>1 DEF OldestLog, CurrentManifest
    <2>3. OnDisk(history, CurrentManifest.log_number, disk.logs)
        BY <1>1, <1>r, <2>1, YoungerOnDisk
    <2> QED
        BY <1>1, <1>r, <2>1, <2>2, <2>3
<1>6. CASE Closed \/ Kill \/ PowerLoss
    <2>1. status' = "down" /\ status # "down"
        BY <1>6 DEF Closed, Kill, PowerLoss, EndProcess
    <2>2. OldestLog' = CurrentManifest.log_number
        BY <1>6, <2>1, EndHistory DEF OldestLog
    <2> QED
        BY <1>6, <1>r, <2>1, <2>2, EndHistory
<1>7. CASE Open
    <2> DEFINE m == CurrentManifest
               r == RecoverLogs(m)
    <2>1. /\ status = "down" /\ status' = "opening" /\ disk.current # 0 /\ UNCHANGED history
        BY <1>7, Zenon DEF Open
    <2>2. /\ m.log_number \in Nat /\ r.next \in Nat
          /\ \A n \in DOMAIN disk.logs : n >= m.log_number => n < r.next
        BY <1>7, OpenStartsWithRecovery DEF IsManifest, IsRecovery
    <2>3. OldestLog = m.log_number /\ OldestLog' = m.log_number
        BY <1>7, <2>1, OpenVersions DEF OldestLog
    <2>4. disk'.logs = Put(disk.logs, r.next, NewLog) /\ disk'.current = disk.current
        BY <1>7, NewLogIsAdded
    <2>5. OnDisk(history, m.log_number, disk.logs)
        BY <1>1, <2>1, <2>3 DEF HistoryInv
    <2> HIDE DEF m, r
    <2>6. OnDisk(history, m.log_number, disk'.logs)
        BY <1>1, <2>2, <2>4, <2>5, NewLogOnDisk DEF AreLogs
    <2> QED
        BY <1>1, <2>1, <2>3, <2>4, <2>6
<1>8. CASE WriteManifest
    <2>1. bg.pc = "manifest" /\ disk' = Persisted /\ UNCHANGED <<status, vset>>
        BY <1>8, Zenon DEF WriteManifest
    <2>2. status # "down"
        BY <2>1, BusyIsRunning
    <2>3. disk'.logs = disk.logs
        BY <2>1, PersistedNumbers
    <2>4. disk'.current # 0
        BY <2>1, <2>2, NumbersStep DEF NumbersInv
    <2>5. Marked(history, history')
        BY <1>8, WriteManifestMarks
    <2>6. OldestLog' = vset.log_number
        BY <2>1, <2>2 DEF OldestLog
    <2>7. OnDisk(history', vset.log_number, disk.logs)
        BY <1>r, <2>2, <2>5, MarkedOnDisk
    <2> QED
        BY <2>3, <2>4, <2>5, <2>6, <2>7 DEF Marked
<1>9. CASE Install
    <2>1. bg.pc = "install"
        BY <1>9 DEF Install
    <2>2. status # "down"
        BY <2>1, BusyIsRunning
    <2>3. UNCHANGED history \/ Marked(history, history')
        BY <1>9, AppliedMarks
    <2>4. Batched(history') /\ OnDisk(history', vset.log_number, disk.logs)
        BY <1>1, <1>r, <2>2, <2>3, MarkedOnDisk DEF Marked
    <2>5. vset'.log_number = bg.edit.log_number /\ vset.log_number <= bg.edit.log_number
          /\ bg.edit.log_number \in Nat /\ vset.log_number \in Nat
        <3>1. vset'.log_number = bg.edit.log_number
            BY <1>9, InstallVersions
        <3>2. vset.log_number <= bg.edit.log_number
            BY <2>1, <2>2 DEF DBInv, NumbersInv
        <3> QED
            BY <1>1, <2>1, <3>1, <3>2 DEF IsVersions, DBInv, ThreadsInv, IsWork, IsEdit
    <2>6. OnDisk(history', vset'.log_number, disk.logs)
        BY <2>4, <2>5, YoungerOnDisk
    <2>7. KeepsYoung(disk, disk', vset')
        BY <1>9, InstallDeletes
    <2>8. \A n \in DOMAIN disk.logs : n >= vset'.log_number =>
              n \in DOMAIN disk'.logs /\ disk'.logs[n] = disk.logs[n]
        BY <2>7 DEF KeepsYoung, PartOf
    <2>9. OnDisk(history', vset'.log_number, disk'.logs)
        BY <2>6, <2>8, KeptOnDisk
    <2>10. status' # "down"
        BY <1>9, <2>2 DEF Install
    <2> QED
        BY <1>r, <2>2, <2>4, <2>7, <2>9, <2>10 DEF OldestLog, KeepsYoung
<1>10. CASE Steady
    <2>1. status # "down" /\ status' # "down"
        BY <1>10, SteadyIsServing, ServingStatus
    <2>2. OldestLog' = vset.log_number
        BY <1>10, <2>1, SteadyVersions DEF OldestLog
    <2>3. disk'.current # 0
        BY <2>1, NumbersStep DEF NumbersInv
    <2>4. SUFFICES Batched(history') /\ OnDisk(history', vset.log_number, disk'.logs)
        BY <2>2, <2>3
    <2>5. CASE WriteGroup
        <3>1. PICK l : /\ IsLog(l) /\ disk' = MemLog(l)
                       /\ GroupFails(l) \/ \E hurt : GroupIsLogged(l, hurt)
            BY <2>5, WriteGroupOutcomes
        <3>2. mem \in DOMAIN disk.logs
            BY <2>1 DEF DBInv, NumbersInv
        <3>3. /\ DOMAIN disk'.logs = DOMAIN disk.logs /\ disk'.logs[mem] = l
              /\ \A n \in DOMAIN disk.logs : n # mem => disk'.logs[n] = disk.logs[n]
            BY <3>1, <3>2 DEF MemLog
        <3>4. Len(disk.logs[mem].records) \in Nat
            BY <1>1, <3>2, SequenceIndices DEF AreLogs, IsLog
        <3>5. CASE GroupFails(l)
            <4>1. history' = history
                BY <3>5 DEF GroupFails
            <4>2. ASSUME NEW i \in DOMAIN history, history[i].log >= vset.log_number
                  PROVE  /\ history[i].log \in DOMAIN disk'.logs
                         /\ history[i].record <= Len(disk'.logs[history[i].log].records)
                         /\ history[i].record \in disk'.logs[history[i].log].dropped =>
                                history[i].after_failure
                <5>1. /\ history[i].log \in DOMAIN disk.logs
                      /\ history[i].record <= Len(disk.logs[history[i].log].records)
                      /\ history[i].record \in disk.logs[history[i].log].dropped =>
                             history[i].after_failure
                    BY <1>r, <2>1, <4>2 DEF OnDisk
                <5>2. CASE history[i].log = mem
                    BY <3>3, <3>5, <5>1, <5>2 DEF GroupFails
                <5>3. CASE history[i].log # mem
                    BY <3>3, <5>1, <5>3
                <5> QED
                    BY <5>2, <5>3
            <4> QED
                BY <1>1, <4>1, <4>2 DEF OnDisk
        <3>6. ASSUME NEW hurt, GroupIsLogged(l, hurt)
              PROVE  Batched(history') /\ OnDisk(history', vset.log_number, disk'.logs)
            <4> DEFINE h == history \o Logged(LastId, hurt)
            <4>1. /\ Batched(h) /\ DOMAIN history \subseteq DOMAIN h
                  /\ \A i \in DOMAIN history : h[i] = history[i]
                  /\ \A i \in DOMAIN h \ DOMAIN history :
                        /\ h[i].log = mem /\ h[i].record = Len(disk.logs[mem].records) + 1
                        /\ h[i].after_failure = hurt
                BY <2>5, GroupIsAdded
            <4>2. /\ Len(l.records) = Len(disk.logs[mem].records) + 1
                  /\ l.dropped \subseteq disk.logs[mem].dropped \cup {Len(l.records)}
                  /\ Len(l.records) \in l.dropped => hurt
                  /\ history' = h \/ history' = Harden(h, mem, l.dropped)
                BY <3>6 DEF GroupIsLogged
            <4> HIDE DEF h
            <4>3. ASSUME NEW i \in DOMAIN h, h[i].log >= vset.log_number
                  PROVE  /\ h[i].log \in DOMAIN disk'.logs
                         /\ h[i].record <= Len(disk'.logs[h[i].log].records)
                         /\ h[i].record \in disk'.logs[h[i].log].dropped => h[i].after_failure
                <5>1. CASE i \in DOMAIN history
                    <6>1. /\ h[i].log \in DOMAIN disk.logs
                          /\ h[i].record <= Len(disk.logs[h[i].log].records)
                          /\ h[i].record \in disk.logs[h[i].log].dropped => h[i].after_failure
                        BY <1>r, <2>1, <4>1, <4>3, <5>1 DEF OnDisk
                    <6>2. h[i].record \in Nat
                        BY <4>1 DEF Batched, IsBatch
                    <6>3. CASE h[i].log = mem
                        <7>1. h[i].record <= Len(l.records) /\ h[i].record # Len(l.records)
                            BY <3>4, <4>2, <6>1, <6>2, <6>3
                        <7> QED
                            BY <3>2, <3>3, <4>2, <6>1, <6>3, <7>1
                    <6>4. CASE h[i].log # mem
                        BY <3>3, <6>1, <6>4
                    <6> QED
                        BY <6>3, <6>4
                <5>2. CASE i \notin DOMAIN history
                    <6>1. /\ h[i].log = mem /\ h[i].record = Len(l.records)
                          /\ h[i].after_failure = hurt
                        BY <4>1, <4>2, <5>2
                    <6>2. Len(l.records) <= Len(l.records)
                        BY <3>4, <4>2
                    <6> QED
                        BY <3>2, <3>3, <4>2, <6>1, <6>2
                <5> QED
                    BY <5>1, <5>2
            <4>4. OnDisk(h, vset.log_number, disk'.logs)
                BY <4>3 DEF OnDisk
            <4>5. Marked(h, Harden(h, mem, l.dropped))
                BY <4>1, HardenMarks
            <4>6. OnDisk(Harden(h, mem, l.dropped), vset.log_number, disk'.logs)
                BY <4>4, <4>5, MarkedOnDisk
            <4> QED
                BY <4>1, <4>2, <4>4, <4>5, <4>6 DEF Marked
        <3> QED
            BY <3>1, <3>5, <3>6
    <2>6. CASE ~WriteGroup
        <3>1. Batched(history') /\ OnDisk(history', vset.log_number, disk.logs)
            <4>1. UNCHANGED history \/ FinishWrite
                BY <1>10, <2>6, HistoryChanges DEF Steady
            <4>2. UNCHANGED history \/ Marked(history, history')
                BY <4>1, AppliedMarks
            <4> QED
                BY <1>1, <1>r, <2>1, <4>2, MarkedOnDisk DEF Marked
        <3>2. CASE SwitchMemtable
            <4>1. disk'.logs = Put(disk.logs, vset.next_file_number, NewLog)
                BY <3>2, NewLogIsAdded
            <4>2. /\ DOMAIN disk.logs \subseteq Nat /\ vset.next_file_number \in Nat /\ vset.log_number \in Nat
                  /\ \A n \in DOMAIN disk.logs : n >= vset.log_number => n < vset.next_file_number
                BY <1>1, <2>1 DEF AreLogs, IsVersions, DBInv, NumbersInv
            <4> QED
                BY <3>1, <4>1, <4>2, NewLogOnDisk
        <3>3. CASE WriteManifestFails
            <4>1. bg.pc = "manifest" /\ (UNCHANGED disk \/ disk' = Persisted)
                BY <3>3 DEF WriteManifestFails
            <4>2. disk'.logs = disk.logs
                BY <4>1, PersistedNumbers
            <4> QED
                BY <3>1, <4>2
        <3>4. CASE ~SwitchMemtable /\ ~WriteManifestFails
            <4>1. disk'.logs = disk.logs
                BY <1>10, <2>6, <3>4, SteadyDisk
            <4> QED
                BY <3>1, <4>1
        <3> QED
            BY <3>2, <3>3, <3>4
    <2> QED
        BY <2>5, <2>6
<1> QED
    BY <1>3, <1>4, <1>5, <1>6, <1>7, <1>8, <1>9, <1>10 DEF Steady

-----------------------------------------------------------------------------
(* Batches that asked for a sync                                            *)

\* Every step keeps the queue of writers a sequence.
LEMMA WritersStep ==
    ASSUME DBInv, [Next]_vars
    PROVE  IsSequence(writers')
<1>1. IsSequence(writers) /\ IsLeader(leader)
    BY DEF DBInv, SyncInv, ThreadsInv
<1>2. CASE UNCHANGED writers
    BY <1>1, <1>2
<1>3. CASE \E x : writers' = Append(writers, x)
    BY <1>1, <1>3, AppendIsSequence
<1>4. CASE writers # <<>> /\ writers' = Tail(writers)
    BY <1>1, <1>4, TailIsSequence
<1>5. CASE writers' = SubSeq(writers, leader.group + 1, Len(writers))
    <2> DEFINE m == leader.group + 1
               n == Len(writers)
    <2>1. m \in Nat /\ n \in Nat /\ 1 <= m /\ n <= Len(writers)
        BY <1>1, SequenceIndices DEF IsLeader
    <2> HIDE DEF m
    <2>2. writers' = SubSeq(writers, m, n)
        BY <1>5 DEF m
    <2> HIDE DEF n
    <2> QED
        BY <1>1, <2>1, <2>2, SubSeqIsSequence
<1>6. CASE writers' = <<>>
    BY <1>6, EmptyIsSequence
<1>7. ASSUME NEW w \in Writers, NEW b \in Batches, NEW sync \in BOOLEAN, Write(w, b, sync)
      PROVE  \E x : writers' = Append(writers, x)
    BY <1>7 DEF Write
<1>8. ASSUME NEW r \in Readers, NEW keys, NEW iterate, BeginRead(r, keys, iterate) \/ EndRead(r)
      PROVE  UNCHANGED writers
    BY <1>8, Zenon DEF BeginRead, EndRead, queue
<1>9. ASSUME NEW range \in Ranges, CallCompactRange(range)
      PROVE  \E x : writers' = Append(writers, x)
    BY <1>9 DEF CallCompactRange
<1>10. NewDB \/ Open \/ OpenFails \/ DelayWrite \/ SwitchMemtable \/ WriteGroup => UNCHANGED writers
    BY Zenon DEF NewDB, Open, OpenFails, DelayWrite, SwitchMemtable, WriteGroup, queue
<1>11. FailWrite \/ FinishNullWrite => writers # <<>> /\ writers' = Tail(writers)
    BY Zenon DEF FailWrite, FinishNullWrite, Leading
<1>12. FinishWrite => writers' = SubSeq(writers, leader.group + 1, Len(writers))
    BY Zenon DEF FinishWrite
<1>13. GetSnapshot \/ ReleaseSnapshot \/ BackgroundCall \/ BeginNestedFlush => UNCHANGED writers
    BY Zenon DEF GetSnapshot, ReleaseSnapshot, BackgroundCall, BeginNestedFlush, queue
<1>14. FlushTable \/ WriteOutput \/ AbortCompaction \/ FinishCompaction => UNCHANGED writers
    BY Zenon DEF FlushTable, WriteOutput, AbortCompaction, FinishCompaction, queue
<1>15. WriteManifest \/ WriteManifestFails \/ Install => UNCHANGED writers
    BY Zenon DEF WriteManifest, WriteManifestFails, Install, queue
<1>16. FinishCompactMemTable \/ StartManual \/ FinishManual \/ Close => UNCHANGED writers
    BY Zenon DEF FinishCompactMemTable, StartManual, FinishManual, Close, queue
<1>17. Closed \/ Kill \/ PowerLoss => writers' = <<>>
    BY Zenon DEF Closed, Kill, PowerLoss, EndProcess
<1>18. Next => \/ UNCHANGED writers \/ (\E x : writers' = Append(writers, x))
               \/ (writers # <<>> /\ writers' = Tail(writers))
               \/ writers' = SubSeq(writers, leader.group + 1, Len(writers)) \/ writers' = <<>>
    BY <1>7, <1>8, <1>9, <1>10, <1>11, <1>12, <1>13, <1>14, <1>15, <1>16, <1>17 DEF Next
<1> QED
    BY <1>2, <1>3, <1>4, <1>5, <1>6, <1>18 DEF vars, queue

\* The leader goes from "room" to where WriteGroup leads, and from there with
\* FinishWrite.
LEMMA SteadyLeader ==
    ASSUME DBInv, Steady, ~WriteGroup, ~FinishWrite
    PROVE  leader'.pc = leader.pc /\ (leader.pc # "room" => leader'.ok = leader.ok)
<1>1. IsLeader(leader)
    BY DEF DBInv, ThreadsInv
<1>2. CASE UNCHANGED leader
    BY <1>2
<1>3. ASSUME NEW x, leader' = [leader EXCEPT !.delayed = x] \/ leader' = [leader EXCEPT !.forced = x]
      PROVE  leader'.pc = leader.pc /\ leader'.ok = leader.ok
    BY <1>1, <1>3 DEF IsLeader
<1>4. CASE FailWrite \/ FinishNullWrite
    <2>1. leader' = NoLeader /\ leader.pc = "room"
        BY <1>4 DEF FailWrite, FinishNullWrite, Leading
    <2> QED
        BY <2>1 DEF NoLeader
<1> QED
    BY <1>2, <1>3, <1>4, LeaderChanges DEF Steady

\* Every step keeps what makes synced batches durable.
LEMMA SyncStep ==
    ASSUME DBInv, [Next]_vars
    PROVE  SyncInv'
<1>1. /\ SyncInv /\ Batched(history) /\ IsWork(bg) /\ IsLeader(leader)
    BY DEF DBInv, ThreadsInv, HistoryInv, Batched
<1>2. IsSequence(writers')
    BY WritersStep
\* A history of which nothing new took effect.
<1>3. ASSUME UNCHANGED history
      PROVE  SyncedWritesAreDurable'
    BY <1>1, <1>3 DEF SyncInv, SyncedWritesAreDurable
\* Marks of durability keep the last record safe, as long as it is the last.
<1>4. ASSUME UNCHANGED <<leader, mem>>, disk'.logs[mem].records = disk.logs[mem].records,
             UNCHANGED history \/ Marked(history, history'), leader.pc = "logged", leader.ok
      PROVE  LastIsDurable(history, mem, disk.logs)'
    <2>1. LastIsDurable(history, mem, disk.logs)
        BY <1>1, <1>4 DEF SyncInv
    <2> QED
        BY <1>4, <2>1 DEF LastIsDurable, Marked
<1>6. CASE UNCHANGED vars
    <2>1. UNCHANGED <<disk, history, status, leader, bg, mem>>
        BY <1>6 DEF vars, files, queue, work, tables
    <2> QED
        BY <1>1, <1>2, <2>1 DEF SyncInv, SyncedWritesAreDurable, LastIsDurable
<1>7. CASE NewDB
    <2>1. status = "down" /\ UNCHANGED <<history, status, leader, bg>>
        BY <1>7, Zenon DEF NewDB, queue, work
    <2>2. leader'.pc = "room"
        BY <2>1 DEF DBInv, StatusInv, InitProcess, NoLeader
    <2> QED
        BY <1>1, <1>2, <2>1, <2>2 DEF SyncInv, SyncedWritesAreDurable
<1>8. CASE OpenFails \/ Closed \/ Kill \/ PowerLoss
    <2>1. status' = "down" /\ leader'.pc = "room"
        <3>1. CASE OpenFails
            <4>1. status' = "down" /\ UNCHANGED leader /\ status = "opening"
                BY <3>1, Zenon DEF OpenFails, queue
            <4> QED
                BY <4>1 DEF DBInv, StatusInv, Opening, NoLeader
        <3>2. CASE Closed \/ Kill \/ PowerLoss
            <4>1. status' = "down" /\ leader' = NoLeader
                BY <3>2, Zenon DEF Closed, Kill, PowerLoss, EndProcess
            <4> QED
                BY <4>1 DEF NoLeader
        <3> QED
            BY <1>8, <3>1, <3>2
    <2>2. SyncedWritesAreDurable'
        <3>1. CASE Closed \/ Kill \/ PowerLoss
            BY <1>1, <3>1, EndHistory DEF SyncInv, SyncedWritesAreDurable
        <3>2. CASE OpenFails
            BY <1>3, <3>2, Zenon DEF OpenFails, files
        <3> QED
            BY <1>8, <3>1, <3>2
    <2> QED
        BY <1>2, <2>1, <2>2 DEF SyncInv
<1>9. CASE Open
    <2>1. status = "down" /\ status' = "opening" /\ UNCHANGED <<history, leader>> /\ disk.current # 0
        BY <1>9, Zenon DEF Open, queue
    <2>2. leader'.pc = "room"
        BY <2>1 DEF DBInv, StatusInv, InitProcess, NoLeader
    <2> DEFINE m == CurrentManifest
               r == RecoverLogs(m)
    <2>3. /\ m.log_number \in Nat /\ m.next_file \in Nat /\ m.log_number < m.next_file
          /\ r.next \in Nat /\ m.next_file < r.next
          /\ \A n \in DOMAIN disk.logs : n >= m.log_number => n < r.next
        BY <1>9, OpenStartsWithRecovery DEF IsManifest, IsRecovery
    <2>4. bg'.pc = "manifest" /\ bg'.edit.log_number = r.next
        <3>1. PICK e : bg' = [bg EXCEPT !.pc = "manifest", !.edit = e] /\ e.log_number = r.next
            <4>1. Open
                BY <1>9
            <4> QED
                BY <4>1, OpenEdits, Zenon
        <3>2. bg'.pc = "manifest" /\ bg'.edit = e
            BY <1>1, <3>1 DEF IsWork
        <3> QED
            BY <3>1, <3>2
    <2>5. OnDisk(history, m.log_number, disk.logs)
        BY <2>1 DEF DBInv, HistoryInv, OldestLog
    <2> HIDE DEF m, r
    <2>6. ASSUME NEW i \in DOMAIN history
          PROVE  history[i].log < r.next
        <3>1. history[i].log \in Nat
            BY <1>1 DEF Batched, IsBatch
        <3>2. CASE history[i].log >= m.log_number
            <4>1. history[i].log \in DOMAIN disk.logs
                BY <2>5, <3>2 DEF OnDisk
            <4> QED
                BY <2>3, <3>2, <4>1
        <3>3. CASE ~(history[i].log >= m.log_number)
            BY <2>3, <3>1, <3>3
        <3> QED
            BY <3>2, <3>3
    <2> QED
        BY <1>2, <1>3, <2>1, <2>2, <2>4, <2>6 DEF SyncInv
<1>10. CASE WriteManifest
    <2>1. /\ bg.pc = "manifest" /\ bg' = [bg EXCEPT !.pc = "install"] /\ disk' = Persisted
          /\ UNCHANGED <<status, leader, mem>>
        BY <1>10, Zenon DEF WriteManifest, queue, tables
    <2>2. bg'.pc = "install"
        BY <1>1, <2>1 DEF IsWork
    <2>3. /\ Marked(history, history')
          /\ \A i \in DOMAIN history :
                /\ history'[i].applied = history[i].applied
                /\ status = "opening" /\ history[i].log < bg.edit.log_number => history'[i].durable
        BY <1>10, WriteManifestMarks
    <2>4. SyncedWritesAreDurable'
        BY <1>1, <2>3 DEF SyncInv, SyncedWritesAreDurable, Marked
    <2>5. ASSUME status' = "opening"
          PROVE  \A i \in DOMAIN history' : history'[i].durable
        BY <1>1, <2>1, <2>3, <2>5 DEF SyncInv, Marked
    <2>6. disk'.logs = disk.logs
        BY <2>1, PersistedNumbers
    <2> QED
        BY <1>1, <1>2, <1>4, <2>1, <2>2, <2>3, <2>4, <2>5, <2>6 DEF SyncInv
<1>11. CASE Install
    <2>1. bg.pc = "install" /\ UNCHANGED <<leader, mem>> /\ status # "down"
        BY <1>11, BusyIsRunning DEF Install, queue
    <2>2. CASE bg.edit.kind = "open"
        <3>1. status = "opening" /\ status' = "open"
            <4>1. status = "opening"
                BY <2>1, <2>2 DEF DBInv, StatusInv
            <4> QED
                BY <1>11, <2>2, <4>1 DEF Install
        <3>2. \A i \in DOMAIN history : history[i].durable
            BY <1>1, <2>1, <3>1 DEF SyncInv
        <3>3. UNCHANGED history \/ Marked(history, history')
            BY <1>11, AppliedMarks
        <3>4. SyncedWritesAreDurable'
            BY <3>2, <3>3 DEF Marked, SyncedWritesAreDurable
        <3>5. leader'.pc = "room"
            BY <2>1, <3>1 DEF DBInv, StatusInv, Opening, NoLeader
        <3> QED
            BY <1>2, <3>1, <3>4, <3>5 DEF SyncInv
    <2>3. CASE bg.edit.kind # "open"
        <3>1. status \in {"open", "closing"} /\ UNCHANGED status
            <4>1. UNCHANGED status
                BY <1>11, <2>3 DEF Install
            <4> QED
                BY <2>1, <2>3, <4>1 DEF DBInv, StatusInv, Opening
        <3>2. UNCHANGED history
            BY <1>11, <2>3, AppliedMarks
        <3>3. disk'.logs[mem] = disk.logs[mem]
            <4>1. mem \in DOMAIN disk.logs /\ bg.edit.log_number <= mem
                BY <2>1 DEF DBInv, NumbersInv
            <4>2. vset'.log_number = bg.edit.log_number
                BY <1>11, InstallVersions
            <4>3. mem \in Nat /\ bg.edit.log_number \in Nat
                BY <1>1, <2>1, <4>1 DEF DBInv, DiskInv, AreLogs, IsWork, IsEdit
            <4>4. KeepsYoung(disk, disk', vset')
                BY <1>11, InstallDeletes
            <4> QED
                BY <4>1, <4>2, <4>3, <4>4 DEF KeepsYoung, PartOf
        <3> QED
            BY <1>1, <1>2, <1>3, <1>4, <2>1, <3>1, <3>2, <3>3 DEF SyncInv
    <2> QED
        BY <2>2, <2>3
<1>12. CASE Steady
    <2>1. status \in {"open", "closing"} /\ status' \in {"open", "closing"}
        BY <1>12, SteadyIsServing, ServingStatus
    <2>2. CASE WriteGroup
        <3>1. leader.pc = "room" /\ UNCHANGED mem /\ mem \in DOMAIN disk.logs
            BY <2>1, <2>2 DEF WriteGroup, Leading, DBInv, NumbersInv
        <3>2. PICK l : /\ IsLog(l) /\ disk' = MemLog(l)
                       /\ GroupFails(l) \/ \E hurt : GroupIsLogged(l, hurt)
            BY <2>2, WriteGroupOutcomes
        <3>3. disk'.logs[mem] = l
            BY <3>1, <3>2 DEF MemLog
        <3>4. CASE GroupFails(l)
            <4>1. history' = history /\ leader'.pc = "logged" /\ leader'.ok = FALSE
                BY <3>4 DEF GroupFails
            <4> QED
                BY <1>2, <1>3, <2>1, <4>1 DEF SyncInv
        <3>5. ASSUME NEW hurt, GroupIsLogged(l, hurt)
              PROVE  SyncInv'
            <4> DEFINE h == history \o Logged(LastId, hurt)
                       g == Harden(h, mem, l.dropped)
            <4>1. /\ Batched(h) /\ DOMAIN history \subseteq DOMAIN h
                  /\ \A i \in DOMAIN history : h[i] = history[i]
                  /\ \A i \in DOMAIN h \ DOMAIN history :
                        /\ h[i].applied = FALSE
                        /\ h[i].sync => FirstWriter.sync
                BY <2>2, GroupIsAdded
            <4>2. /\ Len(l.records) = Len(disk.logs[mem].records) + 1
                  /\ \/ history' = h /\ leader'.ok = FALSE
                     \/ history' = h /\ leader'.pc = "logged" /\ ~FirstWriter.sync
                     \/ history' = g /\ leader'.pc = "logged"
                BY <3>5 DEF GroupIsLogged
            <4>3. HistoryInv' /\ OnDisk(history', OldestLog', disk'.logs) /\ OldestLog' = vset.log_number
                <5>1. HistoryInv' /\ NumbersInv'
                    BY HistoryStep, NumbersStep
                <5>2. OldestLog' = vset.log_number
                    BY <1>12, <2>1, SteadyVersions DEF OldestLog
                <5> QED
                    BY <2>1, <5>1, <5>2 DEF HistoryInv, NumbersInv
            <4>4. vset.log_number <= mem
                BY <2>1 DEF DBInv, NumbersInv
            <4> HIDE DEF h, g
            <4>5. /\ Marked(h, g)
                  /\ \A i \in DOMAIN h : /\ g[i].applied = h[i].applied
                                         /\ h[i].log = mem /\ h[i].record \notin l.dropped => g[i].durable
                BY <4>1, HardenMarks DEF g
            <4>6. \A i \in DOMAIN h :
                      h[i].sync /\ h[i].applied => h[i].durable \/ h[i].after_failure
                <5>1. ASSUME NEW i \in DOMAIN history
                      PROVE  h[i].sync /\ h[i].applied => h[i].durable \/ h[i].after_failure
                    BY <1>1, <4>1 DEF SyncInv, SyncedWritesAreDurable
                <5> QED
                    BY <4>1, <5>1
            <4>7. SyncedWritesAreDurable'
                <5>1. CASE history' = h
                    BY <4>6, <5>1 DEF SyncedWritesAreDurable
                <5>2. CASE history' = g
                    BY <4>5, <4>6, <5>2 DEF SyncedWritesAreDurable, Marked
                <5> QED
                    BY <4>2, <5>1, <5>2
            <4>8. CASE history' = h /\ leader'.ok = FALSE
                BY <1>2, <2>1, <4>7, <4>8 DEF SyncInv
            <4>9. CASE history' = h /\ leader'.pc = "logged" /\ ~FirstWriter.sync
                <5>1. ASSUME NEW i \in DOMAIN h, h[i].log = mem, h[i].record = Len(l.records)
                      PROVE  i \notin DOMAIN history
                    <6>1. SUFFICES ASSUME i \in DOMAIN history
                                   PROVE  FALSE
                        OBVIOUS
                    <6>2. OnDisk(history, vset.log_number, disk.logs)
                        BY <2>1 DEF DBInv, HistoryInv, NumbersInv, OldestLog
                    <6>3. history[i].record <= Len(disk.logs[mem].records)
                        BY <4>1, <4>4, <5>1, <6>1, <6>2 DEF OnDisk
                    <6>4. Len(disk.logs[mem].records) \in Nat
                        BY <3>1, SequenceIndices DEF DBInv, DiskInv, AreLogs, IsLog
                    <6> QED
                        BY <4>1, <4>2, <5>1, <6>1, <6>3, <6>4
                <5>2. LastIsDurable(history, mem, disk.logs)'
                    BY <3>1, <3>3, <4>1, <4>9, <5>1 DEF LastIsDurable
                <5> QED
                    BY <1>2, <2>1, <4>7, <4>9, <5>2 DEF SyncInv
            <4>10. CASE history' = g /\ leader'.pc = "logged"
                <5>1. ASSUME NEW i \in DOMAIN g, g[i].log = mem
                      PROVE  g[i].durable \/ g[i].after_failure
                    <6>1. CASE g[i].record \in l.dropped
                        <7>1. g[i].log >= vset.log_number
                            BY <4>4, <5>1
                        <7> QED
                            BY <3>1, <3>3, <4>3, <4>10, <5>1, <6>1, <7>1 DEF OnDisk
                    <6>2. CASE g[i].record \notin l.dropped
                        BY <4>5, <5>1, <6>2 DEF Marked
                    <6> QED
                        BY <6>1, <6>2
                <5>2. LastIsDurable(history, mem, disk.logs)'
                    BY <3>1, <4>10, <5>1 DEF LastIsDurable
                <5> QED
                    BY <1>2, <2>1, <4>7, <4>10, <5>2 DEF SyncInv
            <4> QED
                BY <4>2, <4>8, <4>9, <4>10
        <3> QED
            BY <3>2, <3>4, <3>5
    <2>3. CASE FinishWrite
        <3>1. leader.pc \in {"logged", "sync_error"} /\ leader' = NoLeader
            BY <2>3, Zenon DEF FinishWrite
        <3>2. leader'.pc = "room"
            BY <3>1 DEF NoLeader
        <3>3. CASE UNCHANGED history
            BY <1>2, <1>3, <2>1, <3>2, <3>3 DEF SyncInv
        <3>4. CASE ~UNCHANGED history
            <4>1. /\ leader.ok /\ Marked(history, history')
                  /\ \A i \in DOMAIN history :
                        \/ history'[i] = history[i]
                        \/ history[i].log = mem /\ history[i].record = Len(disk.logs[mem].records)
                BY <2>3, <3>4, AppliedMarks
            <4>2. LastIsDurable(history, mem, disk.logs)
                BY <1>1, <3>1, <4>1 DEF SyncInv
            <4>3. SyncedWritesAreDurable'
                BY <1>1, <4>1, <4>2 DEF SyncInv, SyncedWritesAreDurable, LastIsDurable, Marked
            <4> QED
                BY <1>2, <2>1, <3>2, <4>3 DEF SyncInv
        <3> QED
            BY <3>3, <3>4
    <2>4. CASE ~WriteGroup /\ ~FinishWrite
        <3>1. UNCHANGED history
            BY <1>12, <2>4, HistoryChanges DEF Steady
        <3>2. leader'.pc = leader.pc /\ (leader.pc # "room" => leader'.ok = leader.ok)
            BY <1>12, <2>4, SteadyLeader
        <3>3. ASSUME leader.pc = "logged", leader.ok
              PROVE  LastIsDurable(history, mem, disk.logs)'
            <4>1. LastIsDurable(history, mem, disk.logs)
                BY <1>1, <3>3 DEF SyncInv
            <4>2. ~SwitchMemtable
                BY <3>3, Zenon DEF SwitchMemtable, MaySwitch, Leading
            <4>3. UNCHANGED mem
                BY <1>12, <4>2, MemChanges DEF Steady
            <4>4. disk'.logs = disk.logs
                <5>1. CASE WriteManifestFails
                    <6>1. bg.pc = "manifest" /\ (UNCHANGED disk \/ disk' = Persisted)
                        BY <5>1 DEF WriteManifestFails
                    <6> QED
                        BY <6>1, PersistedNumbers
                <5>2. CASE ~WriteManifestFails
                    BY <1>12, <2>4, <4>2, <5>2, SteadyDisk
                <5> QED
                    BY <5>1, <5>2
            <4> QED
                BY <3>1, <4>1, <4>3, <4>4 DEF LastIsDurable
        <3> QED
            BY <1>1, <1>2, <1>3, <2>1, <3>1, <3>2, <3>3 DEF SyncInv
    <2> QED
        BY <2>2, <2>3, <2>4
<1> QED
    BY <1>6, <1>7, <1>8, <1>9, <1>10, <1>11, <1>12 DEF Steady

-----------------------------------------------------------------------------
(* The theorems                                                             *)

\* The invariant holds at first.
LEMMA InitInv ==
    ASSUME Init
    PROVE  DBInv
<1>1. DOMAIN <<>> = {} /\ IsSequence(<<>>)
    BY EmptyIsSequence
<1>2. DiskInv
    <2>1. disk = [logs |-> <<>>, tables |-> <<>>, manifests |-> <<>>, current |-> 0]
        BY DEF Init
    <2>2. AreLogs(<<>>) /\ AreManifests(<<>>)
        BY <1>1, FS_EmptySet DEF AreLogs, AreManifests
    <2> QED
        BY <2>1, <2>2 DEF DiskInv, IsDisk
<1>3. VsetInv
    <2>1. vset = NoVersions
        BY DEF Init, InitProcess
    <2>2. 0 \in Levels /\ IsFiniteSet({})
        BY VersionsAssumption, FS_EmptySet DEF Levels
    <2> QED
        BY <2>1, <2>2 DEF NoVersions, VsetInv, IsVersions, EmptyVersion
<1>4. ThreadsInv
    <2>1. leader = NoLeader /\ bg = NoWork
        BY DEF Init, InitProcess
    <2> QED
        BY <2>1, FS_EmptySet DEF ThreadsInv, NoLeader, IsLeader, NoWork, IsWork
<1>5. status = "down" /\ InitProcess
    BY DEF Init, InitProcess
<1>6. StatusInv /\ CallIsScheduled /\ NumbersInv
    BY <1>5 DEF StatusInv, CallIsScheduled, NumbersInv
<1>7. HistoryInv
    <2>1. history = <<>> /\ disk.current = 0
        BY DEF Init
    <2> QED
        BY <1>1, <2>1 DEF HistoryInv
<1>8. SyncInv
    <2>1. history = <<>> /\ writers = <<>> /\ leader.pc = "room"
        BY DEF Init, InitProcess, NoLeader
    <2> QED
        BY <1>1, <1>5, <2>1 DEF SyncInv, SyncedWritesAreDurable
<1> QED
    BY <1>2, <1>3, <1>4, <1>6, <1>7, <1>8 DEF DBInv

\* Every step keeps the invariant.
LEMMA DBInvIsInductive ==
    ASSUME DBInv, [Next]_vars
    PROVE  DBInv'
<1>1. ThreadsInv'
    BY LeaderStep, BgStep DEF ThreadsInv
<1> QED
    BY <1>1, DiskStep, VsetStep, StatusStep, CallIsScheduledStep, NumbersStep, HistoryStep, SyncStep
    DEF DBInv

\* The invariant always holds.
LEMMA DBInvAlways == Spec => []DBInv
<1>1. Init => DBInv
    BY InitInv
<1>2. DBInv /\ [Next]_vars => DBInv'
    BY DBInvIsInductive
<1> QED
    BY <1>1, <1>2, PTL DEF Spec

\* A batch that asked for a sync and took effect survives every failure from
\* then on, whoever led its group (DBImpl::Write, BuildBatchGroup, the WAL and
\* the manifests that make a log obsolete), unless an append to its log had
\* failed before it: DBImpl::Write goes on with such a log, and log::Reader may
\* then drop the record.
THEOREM SyncedWritesLast == Spec => []SyncedWritesAreDurable
<1>1. DBInv => SyncedWritesAreDurable
    BY DEF DBInv, SyncInv
<1> QED
    BY <1>1, DBInvAlways, PTL

\* As long as level 0 is full enough to stop writes, a compaction is due.
LEMMA StoppedIsUrgent ==
    ASSUME IsFiniteSet(vset.current[0]), NumLevelFiles(0) >= kL0_StopWritesTrigger
    PROVE  NeedsCompaction(vset.current, vset.file_to_compact)
<1> DEFINE n == Cardinality(vset.current[0])
<1>1. n \in Nat
    BY FS_CardinalityType
<1>2. n >= kL0_CompactionTrigger
    <2>1. n = NumLevelFiles(0)
        BY DEF NumLevelFiles
    <2>2. kL0_StopWritesTrigger \in Nat /\ kL0_CompactionTrigger \in Nat
          /\ kL0_CompactionTrigger <= kL0_StopWritesTrigger
        BY DBImplAssumption, VersionsAssumption
    <2> HIDE DEF n
    <2> QED
        BY <1>1, <2>1, <2>2
<1>3. Score(vset.current, 0)[1] = n /\ Score(vset.current, 0)[2] = kL0_CompactionTrigger
    BY DEF Score
<1>4. 0 \in 0 .. kNumLevels - 2
    BY VersionsAssumption
<1> HIDE DEF n
<1>5. \E l \in 0 .. kNumLevels - 2 : Score(vset.current, l)[1] >= Score(vset.current, l)[2]
    BY <1>2, <1>3, <1>4
<1>6. Finalize(vset.current).needed
    BY <1>5 DEF Finalize
<1> QED
    BY <1>6 DEF NeedsCompaction

\* Whoever waits for room, for a flush or for a manual compaction waits for a
\* background call that is scheduled (MaybeScheduleCompaction, BackgroundCall,
\* MakeRoomForWrite, TEST_CompactRange): no signal is lost.
THEOREM WaitersAreServed == Spec => []NobodyWaitsForNothing
<1>1. ASSUME DBInv, status = "open", ~bg_error, Waiting
      PROVE  bg_compaction_scheduled
    <2>1. imm # NULL \/ manual_compaction \/ NeedsCompaction(vset.current, vset.file_to_compact)
          => bg_compaction_scheduled
        BY <1>1 DEF DBInv, CallIsScheduled
    <2>2. IsFiniteSet(vset.current[0])
        BY <1>1 DEF DBInv, VsetInv, IsVersions
    <2> QED
        BY <1>1, <2>1, <2>2, StoppedIsUrgent DEF Waiting
<1>2. DBInv => NobodyWaitsForNothing
    BY <1>1 DEF NobodyWaitsForNothing
<1> QED
    BY <1>2, DBInvAlways, PTL

\* The manifest that CURRENT names is there, and so is the record of every batch
\* whose log that manifest has not made obsolete; the reader returns it unless an
\* append to the log had failed before it.
RecordsExist ==
    disk.current # 0 =>
        /\ disk.current \in DOMAIN disk.manifests
        /\ OnDisk(history, CurrentManifest.log_number, disk.logs)

\* The records of every batch that the manifest's tables lack are there.
LEMMA RecordsAreThere ==
    ASSUME DBInv
    PROVE  RecordsExist
<1>1. ASSUME disk.current # 0
      PROVE  OnDisk(history, CurrentManifest.log_number, disk.logs)
    <2>1. CASE status = "down"
        BY <1>1, <2>1 DEF DBInv, HistoryInv, OldestLog
    <2>2. CASE status # "down"
        <3>1. /\ OnDisk(history, vset.log_number, disk.logs)
              /\ vset.log_number <= CurrentManifest.log_number
            BY <1>1, <2>2 DEF DBInv, HistoryInv, OldestLog, NumbersInv
        <3>2. vset.log_number \in Nat /\ CurrentManifest.log_number \in Nat
            BY <1>1 DEF DBInv, VsetInv, IsVersions, DiskInv, AreManifests, IsManifest, CurrentManifest
        <3>3. Batched(history)
            BY <1>1 DEF DBInv, HistoryInv, Batched
        <3> QED
            BY <3>1, <3>2, <3>3, YoungerOnDisk
    <2> QED
        BY <2>1, <2>2
<1> QED
    BY <1>1 DEF RecordsExist, DBInv, DiskInv

\* So the next opening finds the record of every batch that is in no table yet,
\* after whatever crash, clean-up or failed write, and reads it unless an append
\* to its log had failed before it (DeleteObsoleteFiles, DBImpl::Write,
\* RecoverLogFile): what a torn append may hide is never older than the failure.
THEOREM NothingLoggedIsLost == Spec => []RecordsExist
<1>1. DBInv => RecordsExist
    BY RecordsAreThere
<1> QED
    BY <1>1, DBInvAlways, PTL
=============================================================================
