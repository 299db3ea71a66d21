--------------------------- MODULE References_proofs ---------------------------
(* What TLAPS proves of the reference counts of References: they are true,  *)
(* for any number of readers, files and compactions.  Sound says it of any  *)
(* objects o when e[c] others point to c, and the operations on counts keep *)
(* it whoever calls them; RefInv says who the others are.                   *)
EXTENDS References, FiniteSetTheorems, FunctionTheorems, TLAPS

-----------------------------------------------------------------------------
(* The invariant                                                            *)

CellsOf(kind) == {kind} \X (Nat \ {0})
Cells == CellsOf("mem") \cup CellsOf("version") \cup CellsOf("meta")
ObjectType == [refs : Int, files : SUBSET Cells, seek : Cells \cup {NoSeek}]

HoldersOf(o, c) == {v \in DOMAIN o : c \in o[v].files}

ObjectsType(o) == IsFiniteSet(DOMAIN o) /\ DOMAIN o \subseteq Cells /\ o \in [DOMAIN o -> ObjectType]

FilesAreThere(o) ==
    \A v \in DOMAIN o :
        /\ o[v].files \subseteq DOMAIN o /\ o[v].seek \in o[v].files \cup {NoSeek}
        /\ \A f \in o[v].files : f[1] = "meta"
        /\ v[1] # "version" => o[v].files = {}

\* The count of an object is e, for those outside, and one for each version that has it.
CountsAre(o, e) ==
    /\ e \in [Cells -> Nat]
    /\ \A c \in Cells : e[c] > 0 => c \in DOMAIN o /\ c[1] # "meta"
    /\ \A c \in DOMAIN o : o[c].refs = e[c] + Cardinality(HoldersOf(o, c))

AllCounted(o, new) == \A c \in DOMAIN o \ new : o[c].refs > 0

Sound(o, e, new) == ObjectsType(o) /\ FilesAreThere(o) /\ CountsAre(o, e) /\ AllCounted(o, new)

\* Those outside: readers, DBImpl, the flush and the compaction.
ReadersOf(rs, c) == {r \in RefReaders : c \in {rs[r].mem, rs[r].imm, rs[r].version}}
Outside ==
    [c \in Cells |-> Cardinality(ReadersOf(readers, c))
                     + (IF c \in {impl.mem, impl.imm, impl.current} THEN 1 ELSE 0)
                     + (IF flushing.base = c THEN 1 ELSE 0) + (IF compacting.input_version = c THEN 1 ELSE 0)]

MemPointer == CellsOf("mem") \cup {None}
VersionPointer == CellsOf("version") \cup {None}

ImplIsRight ==
    /\ impl \in [mem : MemPointer, imm : MemPointer, current : VersionPointer, failed : BOOLEAN]
    /\ impl.current = None => impl = Gone
    /\ impl.current # None => impl.mem # None /\ impl.mem # impl.imm

ReadersAreRight ==
    /\ readers \in [RefReaders -> [call : {"none", "get", "iterator", "sizes"}, mem : MemPointer, imm : MemPointer,
                                   version : VersionPointer]]
    /\ \A r \in RefReaders :
          /\ readers[r].call = "none" => readers[r] = NoCall
          /\ readers[r].call # "none" => readers[r].version # None
          /\ readers[r].mem = readers[r].imm => readers[r].mem = None

FlushIsRight ==
    /\ flushing \in [pc : {"none", "write", "log"}, base : VersionPointer, v : VersionPointer]
    /\ flushing.pc = "none" => flushing = NotFlushing
    /\ flushing.pc # "none" => impl.current # None /\ impl.imm # None /\ compacting.pc \in {"none", "work"}
    /\ (flushing.base # None <=> flushing.pc = "write") /\ (flushing.v # None <=> flushing.pc = "log")

CompactionIsRight ==
    /\ compacting \in [pc : {"none", "work", "move", "log"}, input_version : VersionPointer, inputs : SUBSET Cells,
                       v : VersionPointer]
    /\ compacting.pc = "none" => compacting = NotCompacting
    /\ compacting.pc # "none" =>
          /\ impl.current # None /\ compacting.input_version # None
          /\ compacting.inputs \subseteq objects[compacting.input_version].files
    /\ compacting.v # None <=> compacting.pc = "log"

\* A version that is being logged is there and nobody else knows it.
NewIsNew == \A v \in Unlisted \ {None} : v \in DOMAIN objects /\ Outside[v] = 0

RefInv ==
    /\ ImplIsRight /\ ReadersAreRight /\ FlushIsRight /\ CompactionIsRight /\ NewIsNew
    /\ Sound(objects, Outside, Unlisted) /\ ~used_deleted

-----------------------------------------------------------------------------
(* The operations on counts                                                 *)

LEMMA CellsAreApart ==
    /\ None \notin Cells
    /\ \A k \in {"mem", "version", "meta"} : CellsOf(k) \subseteq Cells /\ \A c \in CellsOf(k) : c[1] = k
    /\ \A c \in Cells : \E k \in {"mem", "version", "meta"} : c[1] = k /\ c \in CellsOf(k)
<1>1. \A k \in {"mem", "version", "meta"} : CellsOf(k) \subseteq Cells /\ \A c \in CellsOf(k) : c[1] = k
    BY DEF Cells, CellsOf
<1>2. \A c \in Cells : \E k \in {"mem", "version", "meta"} : c[1] = k /\ c \in CellsOf(k)
    BY <1>1 DEF Cells
<1>3. \A c \in Cells : c[1] # "none"
    BY <1>2
<1>4. None[1] = "none"
    BY DEF None
<1> QED
    BY <1>1, <1>2, <1>3, <1>4

\* There is an address that is not in use.
LEMMA FreshIs ==
    ASSUME NEW o, IsFiniteSet(DOMAIN o), NEW kind
    PROVE  FreshObject(o, kind) \in CellsOf(kind) /\ FreshObject(o, kind) \notin DOMAIN o
<1> DEFINE n == Cardinality(DOMAIN o)
           S == {kind} \X (1 .. n + 1)
           f == [i \in 1 .. n + 1 |-> <<kind, i>>]
<1>1. n \in Nat
    BY FS_CardinalityType
<1>2. f \in Bijection(1 .. n + 1, S)
    <2>1. f \in [1 .. n + 1 -> S] /\ \A i, j \in 1 .. n + 1 : f[i] = f[j] => i = j
        OBVIOUS
    <2>2. \A t \in S : \E i \in 1 .. n + 1 : f[i] = t
        OBVIOUS
    <2> QED
        BY <2>1, <2>2, Fun_IsBij
<1>3. IsFiniteSet(1 .. n + 1) /\ Cardinality(1 .. n + 1) = n + 1
    BY <1>1, FS_Interval
<1>4. Cardinality(S) = n + 1
    BY <1>2, <1>3, FS_Bijection DEF ExistsBijection
<1>5. ~(S \subseteq DOMAIN o)
    <2> SUFFICES ASSUME S \subseteq DOMAIN o PROVE FALSE
        OBVIOUS
    <2>1. Cardinality(S) <= n
        BY FS_Subset
    <2> QED
        BY <1>1, <1>4, <2>1
<1>6. FreshObject(o, kind) \in S /\ FreshObject(o, kind) \notin DOMAIN o
    BY <1>5 DEF FreshObject
<1> QED
    BY <1>1, <1>6 DEF CellsOf

LEMMA HoldersFinite ==
    ASSUME NEW o, ObjectsType(o), NEW c
    PROVE  IsFiniteSet(HoldersOf(o, c)) /\ Cardinality(HoldersOf(o, c)) \in Nat
BY FS_Subset, FS_CardinalityType DEF ObjectsType, HoldersOf

LEMMA AddRefsIs ==
    ASSUME NEW o, ObjectsType(o), NEW cells
    PROVE  /\ DOMAIN AddRefs(o, cells) = DOMAIN o /\ ObjectsType(AddRefs(o, cells))
           /\ \A d \in DOMAIN o : /\ AddRefs(o, cells)[d].files = o[d].files
                                  /\ AddRefs(o, cells)[d].seek = o[d].seek
                                  /\ AddRefs(o, cells)[d].refs = IF d \in cells THEN o[d].refs + 1 ELSE o[d].refs
<1>1. \A d \in DOMAIN o : o[d] \in ObjectType
    BY DEF ObjectsType
<1>2. \A d \in DOMAIN o : AddRefs(o, cells)[d] = IF d \in cells THEN [o[d] EXCEPT !.refs = @ + 1] ELSE o[d]
    BY DEF AddRefs
<1>3. \A x \in ObjectType : /\ [x EXCEPT !.refs = @ + 1] \in ObjectType /\ [x EXCEPT !.refs = @ + 1].refs = x.refs + 1
                            /\ [x EXCEPT !.refs = @ + 1].files = x.files /\ [x EXCEPT !.refs = @ + 1].seek = x.seek
    BY DEF ObjectType
<1>4. DOMAIN AddRefs(o, cells) = DOMAIN o
    BY DEF AddRefs
<1>5. AddRefs(o, cells) \in [DOMAIN o -> ObjectType]
    BY <1>1, <1>2, <1>3, <1>4 DEF AddRefs
<1> QED
    BY <1>1, <1>2, <1>3, <1>4, <1>5 DEF ObjectsType

LEMMA AddRefsHolds ==
    ASSUME NEW o, NEW e, NEW new, Sound(o, e, new), NEW cells,
           \A c \in cells \ {None} : c \in DOMAIN o /\ c[1] # "meta"
    PROVE  Sound(AddRefs(o, cells), [c \in Cells |-> IF c \in cells THEN e[c] + 1 ELSE e[c]], new \ cells)
<1> DEFINE d == [c \in Cells |-> IF c \in cells THEN e[c] + 1 ELSE e[c]]
<1>1. ObjectsType(o) /\ FilesAreThere(o) /\ CountsAre(o, e) /\ AllCounted(o, new)
    BY DEF Sound
<1>2. PICK p : p = AddRefs(o, cells)
    OBVIOUS
<1>3. /\ DOMAIN p = DOMAIN o /\ ObjectsType(p)
      /\ \A c \in DOMAIN o : /\ p[c].files = o[c].files /\ p[c].seek = o[c].seek
                             /\ p[c].refs = IF c \in cells THEN o[c].refs + 1 ELSE o[c].refs
    BY <1>1, <1>2, AddRefsIs
<1>4. FilesAreThere(p)
    BY <1>1, <1>3 DEF FilesAreThere
<1>5. \A c \in Cells : e[c] \in Nat /\ (e[c] > 0 => c \in DOMAIN o /\ c[1] # "meta")
    BY <1>1 DEF CountsAre
<1>6. /\ d \in [Cells -> Nat] /\ \A c \in Cells : d[c] = IF c \in cells THEN e[c] + 1 ELSE e[c]
    BY <1>5
<1> HIDE DEF d
<1>7. \A c \in Cells : d[c] > 0 => c \in DOMAIN p /\ c[1] # "meta"
    BY <1>3, <1>5, <1>6, CellsAreApart
<1>8. \A c \in DOMAIN p : HoldersOf(p, c) = HoldersOf(o, c)
    BY <1>3 DEF HoldersOf
<1>9. \A c \in DOMAIN p : p[c].refs = d[c] + Cardinality(HoldersOf(p, c))
    <2> SUFFICES ASSUME NEW c \in DOMAIN o PROVE p[c].refs = d[c] + Cardinality(HoldersOf(p, c))
        BY <1>3
    <2>1. o[c].refs = e[c] + Cardinality(HoldersOf(o, c)) /\ c \in Cells
        BY <1>1 DEF CountsAre, ObjectsType
    <2>2. Cardinality(HoldersOf(o, c)) \in Nat /\ HoldersOf(p, c) = HoldersOf(o, c)
        BY <1>1, <1>3, <1>8, HoldersFinite
    <2> QED
        BY <1>3, <1>5, <1>6, <2>1, <2>2
<1>10. AllCounted(p, new \ cells)
    <2> SUFFICES ASSUME NEW c \in DOMAIN o \ (new \ cells) PROVE p[c].refs > 0
        BY <1>3 DEF AllCounted
    <2>1. c \in Cells /\ p[c].refs = d[c] + Cardinality(HoldersOf(p, c)) /\ Cardinality(HoldersOf(p, c)) \in Nat
        BY <1>1, <1>3, <1>9, HoldersFinite DEF ObjectsType
    <2>2. CASE c \in cells
        BY <1>5, <1>6, <2>1, <2>2
    <2>3. CASE c \notin cells
        BY <1>1, <1>3, <2>3 DEF AllCounted
    <2> QED
        BY <2>2, <2>3
<1> QED
    BY <1>2, <1>3, <1>4, <1>6, <1>7, <1>9, <1>10 DEF Sound, CountsAre, d

\* What p has of o without v: the files of v count one less.
Without(o, v, p) ==
    \A d \in DOMAIN p : /\ p[d].files = o[d].files /\ p[d].seek = o[d].seek
                         /\ p[d].refs = IF d \in o[v].files THEN o[d].refs - 1 ELSE o[d].refs

\* With a version, or a memtable, go the files that it was the last to have.
LEMMA DeleteIs ==
    ASSUME NEW o, ObjectsType(o), FilesAreThere(o), NEW v \in DOMAIN o, v[1] # "meta"
    PROVE  /\ DOMAIN Delete(o, v) = DOMAIN o \ ({v} \cup {f \in o[v].files : o[f].refs <= 1})
           /\ ObjectsType(Delete(o, v)) /\ Without(o, v, Delete(o, v))
<1> DEFINE taken == o[v].files
           left == Deallocated(o, v)
           dead == {f \in taken \cap DOMAIN left : left[f].refs <= 1}
<1>1. taken \subseteq DOMAIN o /\ \A f \in taken : f[1] = "meta"
    BY DEF FilesAreThere
<1>2. v \notin taken
    BY <1>1
<1>3. DOMAIN left = DOMAIN o \ {v} /\ (\A d \in DOMAIN o \ {v} : left[d] = o[d]) /\ taken \subseteq DOMAIN left
    BY <1>1, <1>2 DEF Deallocated
<1>4. dead = {f \in taken : o[f].refs <= 1}
    BY <1>1, <1>2, <1>3
<1>5. PICK p : p = Delete(o, v)
    OBVIOUS
<1>6. p = [d \in (DOMAIN left \cup taken) \ dead |-> IF d \in taken THEN OneLess(left, d) ELSE left[d]]
    BY <1>5 DEF Delete
<1>7. \A d \in DOMAIN o : o[d] \in ObjectType
    BY DEF ObjectsType
<1>8. \A x \in ObjectType : /\ [x EXCEPT !.refs = @ - 1] \in ObjectType /\ [x EXCEPT !.refs = @ - 1].refs = x.refs - 1
                            /\ [x EXCEPT !.refs = @ - 1].files = x.files /\ [x EXCEPT !.refs = @ - 1].seek = x.seek
    BY DEF ObjectType
<1> HIDE DEF taken, left, dead
<1>9. DOMAIN p = DOMAIN o \ ({v} \cup dead)
    BY <1>3, <1>6
<1>10. \A d \in DOMAIN p : p[d] = IF d \in taken THEN [o[d] EXCEPT !.refs = @ - 1] ELSE o[d]
    <2> TAKE d \in DOMAIN p
    <2>1. d \in DOMAIN o \ {v} /\ d \in DOMAIN left /\ left[d] = o[d]
        BY <1>3, <1>9
    <2>2. p[d] = IF d \in taken THEN OneLess(left, d) ELSE left[d]
        BY <1>3, <1>6, <1>9, <2>1
    <2> QED
        BY <2>1, <2>2 DEF OneLess
<1>11. p \in [DOMAIN p -> ObjectType]
    <2>1. \A d \in DOMAIN p : p[d] \in ObjectType
        BY <1>7, <1>8, <1>9, <1>10
    <2>2. p = [d \in DOMAIN p |-> p[d]]
        BY <1>6
    <2> QED
        BY <2>1, <2>2
<1>12. IsFiniteSet(DOMAIN p) /\ DOMAIN p \subseteq Cells
    BY <1>9, FS_Subset DEF ObjectsType
<1> QED
    BY <1>4, <1>5, <1>7, <1>8, <1>9, <1>10, <1>11, <1>12 DEF ObjectsType, Without, taken

LEMMA DeleteHolds ==
    ASSUME NEW o, NEW e, NEW new, Sound(o, e, new), NEW v \in DOMAIN o, v[1] # "meta"
    PROVE  /\ Sound(Delete(o, v), [e EXCEPT ![v] = 0], new \ {v})
           /\ \A d \in DOMAIN Delete(o, v) : d \in DOMAIN o \ {v} /\ Delete(o, v)[d].files = o[d].files
           /\ \A d \in DOMAIN o \ {v} : d[1] # "meta" => d \in DOMAIN Delete(o, v)
<1> DEFINE taken == o[v].files
           dead == {f \in taken : o[f].refs <= 1}
           z == [e EXCEPT ![v] = 0]
<1>1. ObjectsType(o) /\ FilesAreThere(o) /\ CountsAre(o, e) /\ AllCounted(o, new) /\ v \in Cells
    BY DEF Sound, ObjectsType
<1>2. PICK p : p = Delete(o, v)
    OBVIOUS
<1>3. /\ DOMAIN p = DOMAIN o \ ({v} \cup dead) /\ ObjectsType(p)
      /\ \A d \in DOMAIN p : /\ p[d].files = o[d].files /\ p[d].seek = o[d].seek
                             /\ p[d].refs = IF d \in taken THEN o[d].refs - 1 ELSE o[d].refs
    <2>1. /\ DOMAIN Delete(o, v) = DOMAIN o \ ({v} \cup dead) /\ ObjectsType(Delete(o, v))
          /\ \A d \in DOMAIN Delete(o, v) :
                  /\ Delete(o, v)[d].files = o[d].files /\ Delete(o, v)[d].seek = o[d].seek
                  /\ Delete(o, v)[d].refs = IF d \in taken THEN o[d].refs - 1 ELSE o[d].refs
        <3>1. /\ DOMAIN Delete(o, v) = DOMAIN o \ ({v} \cup {f \in o[v].files : o[f].refs <= 1})
              /\ ObjectsType(Delete(o, v)) /\ Without(o, v, Delete(o, v))
            BY <1>1, DeleteIs
        <3> QED
            BY <3>1 DEF Without
    <2> HIDE DEF taken, dead
    <2> QED
        BY <1>2, <2>1
<1>4. /\ taken \subseteq DOMAIN o /\ (\A f \in taken : f[1] = "meta") /\ v \notin taken
      /\ \A d \in DOMAIN o : \A f \in o[d].files : f \in DOMAIN o /\ f[1] = "meta"
      /\ \A d \in DOMAIN o : (d[1] = "meta" => o[d].files = {}) /\ o[d].seek \in o[d].files \cup {NoSeek}
    BY <1>1 DEF FilesAreThere
<1>5. \A c \in Cells : e[c] \in Nat /\ (e[c] > 0 => c \in DOMAIN o /\ c[1] # "meta")
    BY <1>1 DEF CountsAre
<1>6. z \in [Cells -> Nat] /\ \A c \in Cells : z[c] = IF c = v THEN 0 ELSE e[c]
    BY <1>1, <1>5 DEF CountsAre
<1>7. \A c \in DOMAIN o : c \in Cells /\ o[c].refs = e[c] + Cardinality(HoldersOf(o, c))
                          /\ IsFiniteSet(HoldersOf(o, c)) /\ Cardinality(HoldersOf(o, c)) \in Nat
    BY <1>1, HoldersFinite DEF CountsAre, ObjectsType
<1> HIDE DEF taken, dead, z
<1>8. \A f \in dead : HoldersOf(o, f) = {v}
    <2> TAKE f \in dead
    <2>1. f \in taken /\ o[f].refs <= 1 /\ f \in DOMAIN o
        BY <1>4 DEF dead
    <2>2. e[f] \in Nat
        BY <1>5, <1>7, <2>1
    <2>3. v \in HoldersOf(o, f)
        BY <2>1 DEF HoldersOf, taken
    <2>4. Cardinality(HoldersOf(o, f)) <= 1
        BY <1>7, <2>1, <2>2
    <2>5. Cardinality({v}) = 1 /\ IsFiniteSet({v})
        BY FS_Singleton
    <2>6. Cardinality({v}) = Cardinality(HoldersOf(o, f))
        BY <1>7, <2>1, <2>3, <2>4, <2>5, FS_Subset
    <2> QED
        BY <1>7, <2>1, <2>3, <2>6, FS_Subset
<1>9. FilesAreThere(p)
    <2> SUFFICES ASSUME NEW d \in DOMAIN p, NEW f \in o[d].files PROVE f \in DOMAIN p
        BY <1>1, <1>3 DEF FilesAreThere
    <2>1. d \in DOMAIN o \ {v} /\ f \in DOMAIN o /\ f # v
        BY <1>3, <1>4
    <2>2. d \in HoldersOf(o, f)
        BY <2>1 DEF HoldersOf
    <2>3. f \notin dead
        BY <1>8, <2>1, <2>2
    <2> QED
        BY <1>3, <2>1, <2>3
<1>10. \A c \in DOMAIN p : HoldersOf(p, c) = HoldersOf(o, c) \ {v}
    <2>1. \A d \in dead : o[d].files = {}
        BY <1>4 DEF dead
    <2> QED
        BY <1>3, <2>1 DEF HoldersOf
<1>11. \A c \in DOMAIN p : p[c].refs = z[c] + Cardinality(HoldersOf(p, c))
    <2> TAKE c \in DOMAIN p
    <2>1. c \in DOMAIN o /\ c # v /\ z[c] = e[c] /\ c \in Cells
        BY <1>3, <1>6, <1>7
    <2>2. Cardinality(HoldersOf(p, c)) = IF v \in HoldersOf(o, c) THEN Cardinality(HoldersOf(o, c)) - 1
                                         ELSE Cardinality(HoldersOf(o, c))
        BY <1>7, <1>10, <2>1, FS_RemoveElement
    <2>3. v \in HoldersOf(o, c) <=> c \in taken
        BY DEF HoldersOf, taken
    <2> QED
        BY <1>3, <1>5, <1>7, <2>1, <2>2, <2>3
<1>12. \A c \in Cells : z[c] > 0 => c \in DOMAIN p /\ c[1] # "meta"
    <2> SUFFICES ASSUME NEW c \in Cells, z[c] > 0 PROVE c \in DOMAIN p /\ c[1] # "meta"
        OBVIOUS
    <2>1. c # v /\ e[c] > 0
        BY <1>6
    <2>2. c \in DOMAIN o /\ c[1] # "meta"
        BY <1>5, <2>1
    <2> QED
        BY <1>3, <1>4, <2>1, <2>2 DEF dead
<1>13. AllCounted(p, new \ {v})
    <2> SUFFICES ASSUME NEW c \in DOMAIN p \ new PROVE p[c].refs > 0
        BY <1>3 DEF AllCounted
    <2>1. o[c].refs > 0 /\ o[c].refs \in Int /\ c \in DOMAIN o
        BY <1>1, <1>3 DEF AllCounted, ObjectsType, ObjectType
    <2>2. CASE c \in taken
        BY <1>3, <2>1, <2>2 DEF dead
    <2>3. CASE c \notin taken
        BY <1>3, <2>1, <2>3
    <2> QED
        BY <2>2, <2>3
<1>14. \A d \in DOMAIN o \ {v} : d[1] # "meta" => d \in DOMAIN p
    BY <1>3, <1>4 DEF dead
<1> QED
    BY <1>2, <1>3, <1>6, <1>9, <1>11, <1>12, <1>13, <1>14 DEF Sound, CountsAre, z

\* One who points to it lets an object go.
LEMMA DropRefHolds ==
    ASSUME NEW o, NEW e, NEW new, Sound(o, e, new), NEW c, c = None \/ (c \in Cells /\ e[c] > 0 /\ c \notin new)
    PROVE  /\ Sound(DropRef(o, c), [e EXCEPT ![c] = @ - 1], new)
           /\ \A d \in DOMAIN DropRef(o, c) : d \in DOMAIN o /\ DropRef(o, c)[d].files = o[d].files
           /\ \A d \in DOMAIN o \ {c} : d[1] # "meta" => d \in DOMAIN DropRef(o, c)
<1>1. ObjectsType(o) /\ FilesAreThere(o) /\ CountsAre(o, e) /\ AllCounted(o, new)
    BY DEF Sound
<1>2. CASE c = None
    <2>1. [e EXCEPT ![c] = @ - 1] = e
        BY <1>1, <1>2, CellsAreApart DEF CountsAre
    <2> QED
        BY <1>2, <2>1 DEF DropRef
<1>3. CASE c # None
    <2>1. /\ c \in Cells /\ e[c] > 0 /\ c \notin new /\ c \in DOMAIN o /\ c[1] # "meta"
          /\ \A d \in Cells : e[d] \in Nat
        BY <1>1, <1>3 DEF CountsAre
    <2>2. /\ o[c].refs = e[c] + Cardinality(HoldersOf(o, c)) /\ Cardinality(HoldersOf(o, c)) \in Nat
          /\ IsFiniteSet(HoldersOf(o, c)) /\ HoldersOf(o, c) = {}
        <3>1. HoldersOf(o, c) = {}
            BY <1>1, <2>1 DEF HoldersOf, FilesAreThere
        <3> QED
            BY <1>1, <2>1, <3>1, HoldersFinite DEF CountsAre
    <2>3. o[c].refs = e[c]
        BY <2>1, <2>2, FS_EmptySet
    <2>4. CASE o[c].refs <= 1
        <3>1. e[c] = 1
            BY <2>1, <2>3, <2>4
        <3>2. [e EXCEPT ![c] = @ - 1] = [e EXCEPT ![c] = 0] /\ new \ {c} = new
            BY <2>1, <3>1
        <3>3. DropRef(o, c) = Delete(o, c)
            BY <1>3, <2>1, <2>4 DEF DropRef
        <3> QED
            <4>1. /\ Sound(Delete(o, c), [e EXCEPT ![c] = 0], new \ {c})
                  /\ \A d \in DOMAIN Delete(o, c) : d \in DOMAIN o \ {c} /\ Delete(o, c)[d].files = o[d].files
                  /\ \A d \in DOMAIN o \ {c} : d[1] # "meta" => d \in DOMAIN Delete(o, c)
                BY <2>1, DeleteHolds
            <4>2. Sound(DropRef(o, c), [e EXCEPT ![c] = @ - 1], new)
                BY <3>2, <3>3, <4>1
            <4> QED
                BY <3>3, <4>1, <4>2
    <2>5. CASE ~(o[c].refs <= 1)
        <3> DEFINE z == [e EXCEPT ![c] = @ - 1]
        <3>1. PICK p : p = DropRef(o, c)
            OBVIOUS
        <3>2. p = With(o, c, [o[c] EXCEPT !.refs = @ - 1])
            BY <1>3, <2>1, <2>5, <3>1 DEF DropRef, OneLess
        <3>3. o[c] \in ObjectType /\ \A d \in DOMAIN o : o[d] \in ObjectType
            BY <1>1, <2>1 DEF ObjectsType
        <3>4. PICK x : x = [o[c] EXCEPT !.refs = @ - 1]
            OBVIOUS
        <3>5. x \in ObjectType /\ x.refs = o[c].refs - 1 /\ x.files = o[c].files /\ x.seek = o[c].seek
            BY <3>3, <3>4 DEF ObjectType
        <3>6. /\ DOMAIN p = DOMAIN o /\ p[c] = x /\ (\A d \in DOMAIN o \ {c} : p[d] = o[d])
              /\ p \in [DOMAIN o -> ObjectType]
            BY <2>1, <3>2, <3>3, <3>4, <3>5 DEF With
        <3>7. ObjectsType(p) /\ FilesAreThere(p)
            BY <1>1, <3>5, <3>6 DEF ObjectsType, FilesAreThere
        <3>8. z \in [Cells -> Nat] /\ \A d \in Cells : z[d] = IF d = c THEN e[d] - 1 ELSE e[d]
            BY <1>1, <2>1 DEF CountsAre
        <3> HIDE DEF z
        <3>9. \A d \in DOMAIN p : HoldersOf(p, d) = HoldersOf(o, d)
            BY <3>5, <3>6 DEF HoldersOf
        <3>10. \A d \in DOMAIN p : p[d].refs = z[d] + Cardinality(HoldersOf(p, d))
            <4> TAKE d \in DOMAIN p
            <4>1. d \in DOMAIN o /\ d \in Cells /\ o[d].refs = e[d] + Cardinality(HoldersOf(o, d))
                BY <1>1, <3>6 DEF CountsAre, ObjectsType
            <4>2. Cardinality(HoldersOf(o, d)) \in Nat
                BY <1>1, <4>1, HoldersFinite
            <4> QED
                BY <2>1, <3>5, <3>6, <3>8, <3>9, <4>1, <4>2
        <3>11. \A d \in Cells : z[d] > 0 => d \in DOMAIN p /\ d[1] # "meta"
            BY <1>1, <2>1, <3>6, <3>8 DEF CountsAre
        <3>12. AllCounted(p, new)
            BY <1>1, <2>1, <2>3, <2>5, <3>5, <3>6 DEF AllCounted
        <3> QED
            BY <3>1, <3>5, <3>6, <3>7, <3>8, <3>10, <3>11, <3>12 DEF Sound, CountsAre, z
    <2> QED
        BY <2>4, <2>5
<1> QED
    BY <1>2, <1>3

\* A new memtable, which DBImpl points to, or a new FileMetaData.
LEMMA NewObjectHolds ==
    ASSUME NEW o, NEW e, NEW new, Sound(o, e, new), NEW c \in Cells \ DOMAIN o, NEW n \in {0, 1},
           n = 1 => c[1] # "meta"
    PROVE  /\ Sound(With(o, c, [NewObject({}) EXCEPT !.refs = n]), [e EXCEPT ![c] = n],
                    IF n = 0 THEN new \cup {c} ELSE new)
           /\ DOMAIN With(o, c, [NewObject({}) EXCEPT !.refs = n]) = DOMAIN o \cup {c}
           /\ \A d \in DOMAIN o : With(o, c, [NewObject({}) EXCEPT !.refs = n])[d] = o[d]
<1> DEFINE z == [e EXCEPT ![c] = n]
           newer == IF n = 0 THEN new \cup {c} ELSE new
<1>1. ObjectsType(o) /\ FilesAreThere(o) /\ CountsAre(o, e) /\ AllCounted(o, new)
    BY DEF Sound
<1>2. PICK x : x = [NewObject({}) EXCEPT !.refs = n]
    OBVIOUS
<1>3. x \in ObjectType /\ x.refs = n /\ x.files = {} /\ x.seek = NoSeek
    BY <1>2 DEF NewObject, ObjectType
<1>4. PICK p : p = With(o, c, x)
    OBVIOUS
<1>5. /\ DOMAIN p = DOMAIN o \cup {c} /\ p[c] = x /\ (\A d \in DOMAIN o : p[d] = o[d])
      /\ p \in [DOMAIN o \cup {c} -> ObjectType]
    BY <1>1, <1>3, <1>4 DEF With, ObjectsType
<1>6. ObjectsType(p)
    BY <1>1, <1>5, FS_AddElement DEF ObjectsType
<1>7. FilesAreThere(p)
    BY <1>1, <1>3, <1>5 DEF FilesAreThere
<1>8. \A d \in Cells : e[d] \in Nat /\ (e[d] > 0 => d \in DOMAIN o /\ d[1] # "meta")
    BY <1>1 DEF CountsAre
<1>9. z \in [Cells -> Nat] /\ \A d \in Cells : z[d] = IF d = c THEN n ELSE e[d]
    BY <1>1 DEF CountsAre
<1> HIDE DEF z
<1>10. \A d \in Cells : z[d] > 0 => d \in DOMAIN p /\ d[1] # "meta"
    BY <1>5, <1>8, <1>9
<1>11. HoldersOf(p, c) = {} /\ \A d \in DOMAIN o : HoldersOf(p, d) = HoldersOf(o, d)
    BY <1>1, <1>3, <1>5 DEF HoldersOf, FilesAreThere
<1>12. \A d \in DOMAIN p : p[d].refs = z[d] + Cardinality(HoldersOf(p, d))
    <2>1. p[c].refs = z[c] + Cardinality(HoldersOf(p, c))
        BY <1>3, <1>5, <1>9, <1>11, FS_EmptySet
    <2>2. \A d \in DOMAIN o : p[d].refs = z[d] + Cardinality(HoldersOf(p, d))
        BY <1>1, <1>5, <1>9, <1>11 DEF CountsAre, ObjectsType
    <2> QED
        BY <1>5, <2>1, <2>2
<1>13. AllCounted(p, newer)
    BY <1>1, <1>3, <1>5 DEF AllCounted
<1>14. Sound(p, z, newer)
    BY <1>6, <1>7, <1>9, <1>10, <1>12, <1>13 DEF Sound, CountsAre
<1> QED
    BY <1>2, <1>4, <1>5, <1>14 DEF z

\* What is in o is in p, with the same files.
Extends(o, p) == \A d \in DOMAIN o : d \in DOMAIN p /\ p[d].files = o[d].files

\* A new version, which takes its files and which nobody knows yet.
LEMMA VersionHolds ==
    ASSUME NEW o, NEW e, NEW new, Sound(o, e, new), NEW v \in CellsOf("version") \ DOMAIN o,
           NEW taken \in SUBSET DOMAIN o, \A f \in taken : f[1] = "meta",
           NEW p, p = AddRefs(With(o, v, NewObject(taken)), taken)
    PROVE  Sound(p, e, (new \ taken) \cup {v}) /\ DOMAIN p = DOMAIN o \cup {v} /\ Extends(o, p)
<1> DEFINE newer == (new \ taken) \cup {v}
<1>1. ObjectsType(o) /\ FilesAreThere(o) /\ CountsAre(o, e) /\ AllCounted(o, new) /\ v[1] = "version" /\ v \in Cells
    BY CellsAreApart DEF Sound
<1>2. PICK m : m = With(o, v, NewObject(taken))
    OBVIOUS
<1>3. NewObject(taken) \in ObjectType
    BY <1>1 DEF NewObject, ObjectType, ObjectsType
<1>4. /\ DOMAIN m = DOMAIN o \cup {v} /\ m[v] = NewObject(taken) /\ (\A d \in DOMAIN o : m[d] = o[d])
      /\ m \in [DOMAIN o \cup {v} -> ObjectType]
    BY <1>1, <1>2, <1>3 DEF With, ObjectsType
<1>5. ObjectsType(m)
    BY <1>1, <1>4, FS_AddElement DEF ObjectsType
<1>6. p = AddRefs(m, taken)
    BY <1>2
<1>7. /\ DOMAIN p = DOMAIN m /\ ObjectsType(p)
      /\ \A d \in DOMAIN m : /\ p[d].files = m[d].files /\ p[d].seek = m[d].seek
                             /\ p[d].refs = IF d \in taken THEN m[d].refs + 1 ELSE m[d].refs
    BY <1>5, <1>6, AddRefsIs
<1>8. /\ p[v].files = taken /\ p[v].refs = 0 /\ p[v].seek = NoSeek
      /\ \A d \in DOMAIN o : /\ p[d].files = o[d].files /\ p[d].seek = o[d].seek
                             /\ p[d].refs = IF d \in taken THEN o[d].refs + 1 ELSE o[d].refs
    BY <1>4, <1>7 DEF NewObject
<1>9. FilesAreThere(p)
    BY <1>1, <1>4, <1>7, <1>8 DEF FilesAreThere
<1>10. \A d \in DOMAIN o : HoldersOf(p, d) = IF d \in taken THEN HoldersOf(o, d) \cup {v} ELSE HoldersOf(o, d)
    BY <1>4, <1>7, <1>8 DEF HoldersOf
<1>11. HoldersOf(p, v) = {} /\ e[v] = 0
    <2>1. HoldersOf(p, v) = {}
        BY <1>1, <1>9 DEF HoldersOf, FilesAreThere
    <2> QED
        BY <1>1, <2>1 DEF CountsAre
<1>12. \A d \in DOMAIN p : p[d].refs = e[d] + Cardinality(HoldersOf(p, d))
    <2>1. p[v].refs = e[v] + Cardinality(HoldersOf(p, v))
        BY <1>8, <1>11, FS_EmptySet
    <2>2. ASSUME NEW d \in DOMAIN o PROVE p[d].refs = e[d] + Cardinality(HoldersOf(p, d))
        <3>1. /\ o[d].refs = e[d] + Cardinality(HoldersOf(o, d)) /\ IsFiniteSet(HoldersOf(o, d))
              /\ Cardinality(HoldersOf(o, d)) \in Nat /\ v \notin HoldersOf(o, d) /\ e[d] \in Nat
            BY <1>1, HoldersFinite DEF CountsAre, ObjectsType, HoldersOf
        <3>2. Cardinality(HoldersOf(o, d) \cup {v}) = Cardinality(HoldersOf(o, d)) + 1
            BY <3>1, FS_AddElement
        <3>3. CASE d \in taken
            <4>1. HoldersOf(p, d) = HoldersOf(o, d) \cup {v}
                BY <1>10, <3>3
            <4>2. Cardinality(HoldersOf(p, d)) = Cardinality(HoldersOf(o, d)) + 1
                BY <3>2, <4>1
            <4>3. p[d].refs = o[d].refs + 1
                BY <1>8, <3>3
            <4> QED
                BY <3>1, <4>2, <4>3
        <3>4. CASE d \notin taken
            BY <1>8, <1>10, <3>1, <3>4
        <3> QED
            BY <3>3, <3>4
    <2> QED
        BY <1>4, <1>7, <2>1, <2>2
<1>13. AllCounted(p, newer)
    <2> SUFFICES ASSUME NEW d \in DOMAIN o \ newer PROVE p[d].refs > 0
        BY <1>4, <1>7 DEF AllCounted
    <2>1. o[d].refs \in Int /\ (d \notin new => o[d].refs > 0)
        BY <1>1 DEF AllCounted, ObjectsType, ObjectType
    <2>2. CASE d \in taken
        <3>1. /\ d \in Cells /\ e[d] \in Nat /\ o[d].refs = e[d] + Cardinality(HoldersOf(o, d))
              /\ Cardinality(HoldersOf(o, d)) \in Nat
            BY <1>1, HoldersFinite DEF CountsAre, ObjectsType
        <3> QED
            BY <1>8, <2>2, <3>1
    <2>3. CASE d \notin taken
        BY <1>8, <2>1, <2>3
    <2> QED
        BY <2>2, <2>3
<1>14. CountsAre(p, e)
    BY <1>1, <1>4, <1>7, <1>12 DEF CountsAre
<1> QED
    BY <1>4, <1>7, <1>8, <1>9, <1>13, <1>14 DEF Sound, Extends

LEMMA NewVersionHolds ==
    ASSUME NEW o, NEW e, Sound(o, e, {None}), impl.current \in DOMAIN o,
           NEW deleted, NEW added, NEW n, n = NewVersion(o, deleted, added)
    PROVE  /\ n.v \in CellsOf("version") \ DOMAIN o /\ n.v \in DOMAIN n.objects /\ e[n.v] = 0
           /\ Sound(n.objects, e, {None, n.v})
           /\ Extends(o, n.objects)
<1> DEFINE f == FreshObject(o, "meta")
           v == FreshObject(o, "version")
           metas == IF added THEN With(o, f, NewObject({})) ELSE o
           taken == (o[impl.current].files \ deleted) \cup (IF added THEN {f} ELSE {})
<1>1. ObjectsType(o) /\ FilesAreThere(o) /\ CountsAre(o, e)
    BY DEF Sound
<1>2. f \in CellsOf("meta") \ DOMAIN o /\ v \in CellsOf("version") \ DOMAIN o /\ f # v
    <2>1. f \in CellsOf("meta") \ DOMAIN o /\ v \in CellsOf("version") \ DOMAIN o
        BY <1>1, FreshIs DEF ObjectsType
    <2> HIDE DEF f, v
    <2> QED
        BY <2>1, CellsAreApart
<1>3. n.v = v /\ n.objects = AddRefs(With(metas, v, NewObject(taken)), taken)
    BY DEF NewVersion
<1> HIDE DEF f, v
<1>4. f \in Cells /\ f[1] = "meta" /\ v \in Cells /\ v[1] = "version"
    BY <1>2, CellsAreApart
<1>5. e[v] = 0 /\ e[f] = 0
    BY <1>1, <1>2, <1>4 DEF CountsAre
<1>6. /\ Sound(metas, e, IF added THEN {None, f} ELSE {None})
      /\ DOMAIN metas = IF added THEN DOMAIN o \cup {f} ELSE DOMAIN o
      /\ \A d \in DOMAIN o : metas[d] = o[d]
    <2>1. CASE ~added
        BY <2>1
    <2>2. CASE added
        <3>1. NewObject({}) = [NewObject({}) EXCEPT !.refs = 0]
            BY DEF NewObject
        <3>2. [e EXCEPT ![f] = 0] = e /\ {None} \cup {f} = {None, f}
            BY <1>1, <1>5 DEF CountsAre
        <3>3. /\ Sound(With(o, f, [NewObject({}) EXCEPT !.refs = 0]), [e EXCEPT ![f] = 0], {None} \cup {f})
              /\ DOMAIN With(o, f, [NewObject({}) EXCEPT !.refs = 0]) = DOMAIN o \cup {f}
              /\ \A d \in DOMAIN o : With(o, f, [NewObject({}) EXCEPT !.refs = 0])[d] = o[d]
            <4>1. f \in Cells \ DOMAIN o /\ 0 \in {0, 1} /\ (0 = 1 => f[1] # "meta")
                BY <1>2, <1>4
            <4>2. Sound(With(o, f, [NewObject({}) EXCEPT !.refs = 0]), [e EXCEPT ![f] = 0],
                        IF 0 = 0 THEN {None} \cup {f} ELSE {None})
                BY <4>1, NewObjectHolds
            <4> QED
                BY <4>1, <4>2, NewObjectHolds
        <3> QED
            BY <2>2, <3>1, <3>2, <3>3
    <2> QED
        BY <2>1, <2>2
<1>7. taken \subseteq DOMAIN metas /\ \A g \in taken : g[1] = "meta"
    <2>1. o[impl.current].files \subseteq DOMAIN o /\ \A g \in o[impl.current].files : g[1] = "meta"
        BY <1>1 DEF FilesAreThere
    <2> QED
        BY <1>4, <1>6, <2>1
<1>8. v \notin DOMAIN metas
    BY <1>2, <1>6
<1>9. ((IF added THEN {None, f} ELSE {None}) \ taken) \cup {v} = {None, v}
    <2>1. None \notin taken
        <3>1. DOMAIN metas \subseteq Cells
            BY <1>6 DEF Sound, ObjectsType
        <3> QED
            BY <1>7, <3>1, CellsAreApart
    <2> QED
        BY <2>1
<1> HIDE DEF metas, taken
<1>10. PICK m : m = metas
    OBVIOUS
<1>11. PICK new : new = IF added THEN {None, f} ELSE {None}
    OBVIOUS
<1>12. PICK s : s = taken
    OBVIOUS
<1>13. PICK p : p = AddRefs(With(m, v, NewObject(s)), s)
    OBVIOUS
<1>14. Sound(p, e, (new \ s) \cup {v}) /\ DOMAIN p = DOMAIN m \cup {v} /\ Extends(m, p)
    <2>1. /\ Sound(m, e, new) /\ v \in CellsOf("version") \ DOMAIN m /\ s \in SUBSET DOMAIN m
          /\ \A g \in s : g[1] = "meta"
        BY <1>2, <1>6, <1>7, <1>8, <1>10, <1>11, <1>12
    <2> QED
        BY <1>13, <2>1, VersionHolds
<1>15. n.objects = p /\ (new \ s) \cup {v} = {None, v}
    BY <1>3, <1>9, <1>10, <1>11, <1>12, <1>13
<1>16. Sound(n.objects, e, {None, v}) /\ DOMAIN n.objects = DOMAIN m \cup {v} /\ Extends(m, n.objects)
    BY <1>14, <1>15
<1>17. \A d \in DOMAIN o : d \in DOMAIN m /\ m[d] = o[d]
    BY <1>6, <1>10
<1> QED
    BY <1>2, <1>3, <1>5, <1>16, <1>17 DEF Extends

\* What stays of o in p: all but files, and but what is gone.
Keeps(o, p, gone) ==
    /\ \A d \in DOMAIN p : d \in DOMAIN o /\ p[d].files = o[d].files
    /\ \A d \in DOMAIN o \ gone : d[1] # "meta" => d \in DOMAIN p

LEMMA DropKeeps ==
    ASSUME NEW o, NEW e, NEW new, Sound(o, e, new), NEW c, c = None \/ (c \in Cells /\ e[c] > 0 /\ c \notin new)
    PROVE  Sound(DropRef(o, c), [d \in Cells |-> IF d = c THEN e[d] - 1 ELSE e[d]], new) /\ Keeps(o, DropRef(o, c), {c})
<1>1. [e EXCEPT ![c] = @ - 1] = [d \in Cells |-> IF d = c THEN e[d] - 1 ELSE e[d]]
    BY DEF Sound, CountsAre
<1> QED
    BY <1>1, DropRefHolds DEF Keeps

LEMMA DropAllHolds ==
    ASSUME NEW o, NEW e, NEW new, Sound(o, e, new), NEW newest \in MemPointer, NEW older \in MemPointer,
           NEW version \in VersionPointer, newest = older => newest = None,
           \A c \in {newest, older, version} \ {None} : e[c] > 0 /\ c \notin new
    PROVE  /\ Sound(DropAll(o, newest, older, version),
                    [d \in Cells |-> IF d \in {newest, older, version} THEN e[d] - 1 ELSE e[d]], new)
           /\ Keeps(o, DropAll(o, newest, older, version), {newest, older, version})
<1>1. /\ newest \in Cells \cup {None} /\ older \in Cells \cup {None} /\ version \in Cells \cup {None}
      /\ (version = newest \/ version = older => version = None) /\ None \notin Cells
    BY CellsAreApart DEF MemPointer, VersionPointer, None
<1>2. PICK p : p = DropRef(o, newest)
    OBVIOUS
<1>3. PICK e1 : e1 = [d \in Cells |-> IF d = newest THEN e[d] - 1 ELSE e[d]]
    OBVIOUS
<1>4. Sound(p, e1, new) /\ Keeps(o, p, {newest})
    BY <1>1, <1>2, <1>3, DropKeeps
<1>5. PICK q : q = DropRef(p, older)
    OBVIOUS
<1>6. PICK e2 : e2 = [d \in Cells |-> IF d = older THEN e1[d] - 1 ELSE e1[d]]
    OBVIOUS
<1>7. older = None \/ (older \in Cells /\ e1[older] > 0 /\ older \notin new)
    BY <1>1, <1>3
<1>8. Sound(q, e2, new) /\ Keeps(p, q, {older})
    BY <1>4, <1>5, <1>6, <1>7, DropKeeps
<1>9. PICK s : s = DropRef(q, version)
    OBVIOUS
<1>10. PICK e3 : e3 = [d \in Cells |-> IF d = version THEN e2[d] - 1 ELSE e2[d]]
    OBVIOUS
<1>11. version = None \/ (version \in Cells /\ e2[version] > 0 /\ version \notin new)
    BY <1>1, <1>3, <1>6
<1>12. Sound(s, e3, new) /\ Keeps(q, s, {version})
    BY <1>8, <1>9, <1>10, <1>11, DropKeeps
<1>13. e3 = [d \in Cells |-> IF d \in {newest, older, version} THEN e[d] - 1 ELSE e[d]]
    BY <1>1, <1>3, <1>6, <1>10
<1>14. Keeps(o, s, {newest, older, version})
    BY <1>4, <1>8, <1>12 DEF Keeps
<1> QED
    BY <1>2, <1>5, <1>9, <1>12, <1>13, <1>14 DEF DropAll

\* The current version changes; the one before goes when nobody reads it.
LEMMA AppendVersionHolds ==
    ASSUME NEW o, NEW e, NEW new, Sound(o, e, new), NEW v \in DOMAIN o, v[1] # "meta", e[v] = 0,
           impl.current \in Cells, e[impl.current] > 0, impl.current \notin new
    PROVE  /\ Sound(AppendVersion(o, v),
                    [d \in Cells |-> IF d = v THEN 1 ELSE IF d = impl.current THEN e[d] - 1 ELSE e[d]],
                    new \ {v})
           /\ Keeps(o, AppendVersion(o, v), {impl.current})
<1>1. v \in Cells /\ v # None
    BY CellsAreApart DEF Sound, ObjectsType
<1>2. PICK p : p = AddRef(o, v)
    OBVIOUS
<1>3. PICK e1 : e1 = [c \in Cells |-> IF c \in {v} THEN e[c] + 1 ELSE e[c]]
    OBVIOUS
<1>4. Sound(p, e1, new \ {v})
    BY <1>2, <1>3, AddRefsHolds DEF AddRef
<1>5. Keeps(o, p, {})
    BY <1>2, AddRefsIs DEF AddRef, Keeps, Sound
<1>6. PICK q : q = DropRef(p, impl.current)
    OBVIOUS
<1>7. PICK e2 : e2 = [d \in Cells |-> IF d = impl.current THEN e1[d] - 1 ELSE e1[d]]
    OBVIOUS
<1>8. e1[impl.current] > 0 /\ impl.current \notin new \ {v}
    BY <1>1, <1>3
<1>9. Sound(q, e2, new \ {v}) /\ Keeps(p, q, {impl.current})
    BY <1>4, <1>6, <1>7, <1>8, DropKeeps
<1>10. e2 = [d \in Cells |-> IF d = v THEN 1 ELSE IF d = impl.current THEN e[d] - 1 ELSE e[d]]
    BY <1>1, <1>3, <1>7
<1>11. Keeps(o, q, {impl.current})
    BY <1>5, <1>9 DEF Keeps
<1> QED
    BY <1>2, <1>6, <1>9, <1>10, <1>11 DEF AppendVersion

-----------------------------------------------------------------------------
(* Those who point to objects                                               *)

More(m, c) == IF c \in {m.mem, m.imm, m.version} THEN 1 ELSE 0
Takes(rs, r, m, s) == DOMAIN rs = RefReaders /\ rs[r] = NoCall /\ s = [rs EXCEPT ![r] = m]

LEMMA ReaderTakes ==
    ASSUME NEW rs, NEW r \in RefReaders, NEW m, NEW s, Takes(rs, r, m, s), NEW c \in Cells
    PROVE  Cardinality(ReadersOf(s, c))
           = Cardinality(ReadersOf(rs, c)) + More(m, c)
<1> DEFINE S == ReadersOf(rs, c)
<1>1. IsFiniteSet(S) /\ Cardinality(S) \in Nat
    BY ReferencesAssumption, FS_Subset, FS_CardinalityType DEF ReadersOf
<1>2. r \notin S
    BY CellsAreApart DEF ReadersOf, NoCall, Takes
<1>3. ReadersOf(s, c) = IF c \in {m.mem, m.imm, m.version} THEN S \cup {r} ELSE S
    BY <1>2 DEF ReadersOf, Takes
<1> HIDE DEF S
<1>4. Cardinality(S \cup {r}) = Cardinality(S) + 1
    BY <1>1, <1>2, FS_AddElement
<1>5. CASE c \in {m.mem, m.imm, m.version}
    BY <1>3, <1>4, <1>5 DEF S, More
<1>6. CASE c \notin {m.mem, m.imm, m.version}
    BY <1>1, <1>3, <1>6 DEF S, More
<1> QED
    BY <1>5, <1>6

LEMMA ReaderLets ==
    ASSUME NEW rs, DOMAIN rs = RefReaders, NEW r \in RefReaders, NEW c \in Cells,
           NEW s, s = [rs EXCEPT ![r] = NoCall]
    PROVE  Cardinality(ReadersOf(s, c))
           = Cardinality(ReadersOf(rs, c)) - More(rs[r], c)
<1> DEFINE S == ReadersOf(rs, c)
<1>1. IsFiniteSet(S) /\ Cardinality(S) \in Nat
    BY ReferencesAssumption, FS_Subset, FS_CardinalityType DEF ReadersOf
<1>2. r \in S <=> c \in {rs[r].mem, rs[r].imm, rs[r].version}
    BY DEF ReadersOf
<1>3. ReadersOf(s, c) = S \ {r}
    BY CellsAreApart DEF ReadersOf, NoCall
<1> HIDE DEF S
<1>4. Cardinality(S \ {r}) = IF r \in S THEN Cardinality(S) - 1 ELSE Cardinality(S)
    BY <1>1, FS_RemoveElement
<1>5. More(rs[r], c) = IF r \in S THEN 1 ELSE 0
    BY <1>2 DEF More
<1>6. Cardinality(ReadersOf(s, c)) = Cardinality(S) - More(rs[r], c)
    <2>1. PICK n, left : n = Cardinality(S) /\ left = Cardinality(S \ {r})
        OBVIOUS
    <2>2. n \in Nat /\ left = IF r \in S THEN n - 1 ELSE n
        BY <1>1, <1>4, <2>1
    <2>3. left = n - More(rs[r], c)
        <3>1. CASE r \in S
            BY <1>5, <2>2, <3>1
        <3>2. CASE r \notin S
            BY <1>5, <2>2, <3>2
        <3> QED
            BY <3>1, <3>2
    <2> QED
        BY <1>3, <2>1, <2>3
<1> QED
    BY <1>6 DEF S

\* Whoever has a pointer is counted, and what it points to is there.
LEMMA PointersAreKnown ==
    ASSUME RefInv
    PROVE  /\ \A c \in Cells : Cardinality(ReadersOf(readers, c)) \in Nat /\ Outside[c] \in Nat
           /\ \A c \in Cells : Outside[c] > 0 => c \in DOMAIN objects /\ c \notin Unlisted
           /\ \A r \in RefReaders : \A c \in Pins(r) \ {None} :
                  c \in Cells /\ Outside[c] > 0 /\ Cardinality(ReadersOf(readers, c)) > 0
           /\ \A c \in {impl.mem, impl.imm, impl.current, flushing.base, compacting.input_version} \ {None} :
                  c \in Cells /\ Outside[c] > 0
           /\ \A c \in DOMAIN objects : c \in Cells
<1>1. \A c \in Cells : IsFiniteSet(ReadersOf(readers, c)) /\ Cardinality(ReadersOf(readers, c)) \in Nat
    BY ReferencesAssumption, FS_Subset, FS_CardinalityType DEF ReadersOf
<1>2. \A c \in Cells : Outside[c] = Cardinality(ReadersOf(readers, c))
                     + (IF c \in {impl.mem, impl.imm, impl.current} THEN 1 ELSE 0)
                     + (IF flushing.base = c THEN 1 ELSE 0) + (IF compacting.input_version = c THEN 1 ELSE 0)
    BY DEF Outside
<1>3. \A c \in Cells : Outside[c] \in Nat
    BY <1>1, <1>2
<1>4. \A c \in Cells : Outside[c] > 0 => c \in DOMAIN objects
    BY DEF RefInv, Sound, CountsAre
<1>5. \A c \in Cells : Outside[c] > 0 => c \notin Unlisted
    BY <1>3, CellsAreApart DEF RefInv, NewIsNew
<1>6. \A c \in {impl.mem, impl.imm, impl.current, flushing.base, compacting.input_version} \ {None} : c \in Cells
    BY CellsAreApart DEF RefInv, ImplIsRight, FlushIsRight, CompactionIsRight, MemPointer, VersionPointer
<1>7. \A c \in {impl.mem, impl.imm, impl.current, flushing.base, compacting.input_version} \ {None} : Outside[c] > 0
    BY <1>1, <1>2, <1>6
<1>8. ASSUME NEW r \in RefReaders, NEW c \in Pins(r) \ {None}
      PROVE  c \in Cells /\ Outside[c] > 0 /\ Cardinality(ReadersOf(readers, c)) > 0
    <2>1. c \in Cells
        BY CellsAreApart DEF RefInv, ReadersAreRight, MemPointer, VersionPointer, Pins
    <2>2. r \in ReadersOf(readers, c)
        BY DEF ReadersOf, Pins
    <2>3. Cardinality(ReadersOf(readers, c)) # 0
        BY <1>1, <2>1, <2>2, FS_EmptySet
    <2> QED
        BY <1>1, <1>2, <2>1, <2>3
<1>9. DOMAIN objects \subseteq Cells
    BY DEF RefInv, Sound, ObjectsType
<1> QED
    BY <1>1, <1>3, <1>4, <1>5, <1>6, <1>7, <1>8, <1>9

LEMMA SoundMore ==
    ASSUME NEW o, NEW e, NEW new, NEW newer, Sound(o, e, new), new \subseteq newer \cup {None}
    PROVE  Sound(o, e, newer)
BY CellsAreApart DEF Sound, AllCounted, ObjectsType

\* The compaction's inputs stay, as it keeps its version.
LEMMA InputsStay ==
    ASSUME RefInv, UNCHANGED compacting, impl'.current = None => compacting.pc = "none",
           NEW e, NEW new, Sound(objects', e, new),
           \A d \in DOMAIN objects' : d \in DOMAIN objects => objects'[d].files = objects[d].files,
           compacting.pc # "none" => e[compacting.input_version] > 0
    PROVE  CompactionIsRight'
<1>1. CompactionIsRight
    BY DEF RefInv
<1>2. CASE compacting.pc = "none"
    BY <1>1, <1>2 DEF CompactionIsRight
<1>3. CASE compacting.pc # "none"
    <2>1. compacting.input_version # None
        BY <1>1, <1>3 DEF CompactionIsRight
    <2>2. compacting.input_version \in Cells /\ Outside[compacting.input_version] > 0
        BY <2>1, PointersAreKnown
    <2>3. compacting.input_version \in DOMAIN objects
        BY <2>2, PointersAreKnown
    <2>4. compacting.input_version \in DOMAIN objects'
        BY <1>3, <2>2 DEF Sound, CountsAre
    <2>5. objects'[compacting.input_version].files = objects[compacting.input_version].files
        BY <2>3, <2>4
    <2> QED
        BY <1>1, <1>3, <2>1, <2>5 DEF CompactionIsRight
<1> QED
    BY <1>2, <1>3

-----------------------------------------------------------------------------
(* Every step                                                               *)

LEMMA RefInitHolds == RefInit => RefInv
<1> SUFFICES ASSUME RefInit PROVE RefInv
    OBVIOUS
<1> DEFINE m == <<"mem", 1>>
           v == <<"version", 1>>
           x == [NewObject({}) EXCEPT !.refs = 1]
<1>1. m \in CellsOf("mem") /\ v \in CellsOf("version") /\ m # v
    BY DEF CellsOf
<1>2. m \in Cells /\ v \in Cells /\ m # None /\ v # None
    BY <1>1, CellsAreApart
<1>3. x \in ObjectType /\ x.refs = 1 /\ x.files = {} /\ x.seek = NoSeek
    BY DEF NewObject, ObjectType
<1> HIDE DEF x
<1>4. DOMAIN objects = {m, v} /\ (\A c \in {m, v} : objects[c] = x) /\ objects \in [{m, v} -> ObjectType]
    <2>1. {"mem", "version"} \X {1} = {m, v}
        OBVIOUS
    <2>2. objects = [c \in {m, v} |-> x]
        BY <2>1 DEF RefInit, x
    <2> QED
        BY <1>3, <2>2
<1>5. /\ impl = [mem |-> m, imm |-> None, current |-> v, failed |-> FALSE] /\ flushing = NotFlushing
      /\ compacting = NotCompacting /\ used_deleted = FALSE /\ readers = [r \in RefReaders |-> NoCall]
    BY DEF RefInit
<1> HIDE DEF m, v
<1>6. ObjectsType(objects) /\ FilesAreThere(objects)
    <2>1. IsFiniteSet({m, v})
        <3>1. IsFiniteSet({m}) /\ {m, v} = {m} \cup {v}
            BY FS_Singleton
        <3> QED
            BY <3>1, FS_AddElement
    <2> QED
        BY <1>2, <1>3, <1>4, <2>1 DEF ObjectsType, FilesAreThere
<1>7. \A c \in Cells : ReadersOf(readers, c) = {}
    BY <1>5, CellsAreApart DEF ReadersOf, NoCall
<1>8. \A c \in Cells : Outside[c] = IF c \in {m, v} THEN 1 ELSE 0
    <2> TAKE c \in Cells
    <2>1. Cardinality(ReadersOf(readers, c)) = 0
        BY <1>7, FS_EmptySet
    <2> QED
        BY <1>2, <1>5, <2>1, CellsAreApart DEF Outside, NotFlushing, NotCompacting
<1>9. CountsAre(objects, Outside)
    <2>1. Outside \in [Cells -> Nat]
        BY <1>8 DEF Outside
    <2>2. \A c \in {m, v} : HoldersOf(objects, c) = {}
        BY <1>3, <1>4 DEF HoldersOf
    <2>3. m[1] = "mem" /\ v[1] = "version"
        BY <1>1, CellsAreApart
    <2> QED
        BY <1>2, <1>3, <1>4, <1>8, <2>1, <2>2, <2>3, FS_EmptySet DEF CountsAre
<1>10. AllCounted(objects, Unlisted)
    BY <1>3, <1>4 DEF AllCounted
<1>11. ImplIsRight
    BY <1>1, <1>2, <1>5 DEF ImplIsRight, MemPointer, VersionPointer
<1>12. ReadersAreRight
    BY <1>5 DEF ReadersAreRight, NoCall, MemPointer, VersionPointer
<1>13. FlushIsRight
    BY <1>5 DEF FlushIsRight, NotFlushing, VersionPointer
<1>14. CompactionIsRight
    BY <1>5 DEF CompactionIsRight, NotCompacting, VersionPointer
<1>15. NewIsNew
    BY <1>5 DEF NewIsNew, Unlisted, NotFlushing, NotCompacting
<1> QED
    BY <1>5, <1>6, <1>9, <1>10, <1>11, <1>12, <1>13, <1>14, <1>15 DEF RefInv, Sound

LEMMA TakeReferencesHolds ==
    ASSUME RefInv, NEW r \in RefReaders, NEW call \in {"get", "iterator", "sizes"}, TakeReferences(r, call)
    PROVE  RefInv'
<1>1. PICK mine : mine = [call |-> call, mem |-> IF call # "sizes" THEN impl.mem ELSE None,
                          imm |-> IF call # "sizes" THEN impl.imm ELSE None, version |-> impl.current]
    OBVIOUS
<1>2. /\ impl.current # None /\ readers[r] = NoCall /\ readers' = [readers EXCEPT ![r] = mine]
      /\ objects' = AddRefs(objects, {mine.mem, mine.imm, mine.version})
      /\ UNCHANGED <<impl, flushing, compacting, used_deleted>>
    BY <1>1 DEF TakeReferences
<1>3. ImplIsRight /\ ReadersAreRight /\ FlushIsRight /\ NewIsNew /\ Sound(objects, Outside, Unlisted) /\ ~used_deleted
    BY DEF RefInv
<1>4. PICK cells : cells = {mine.mem, mine.imm, mine.version}
    OBVIOUS
<1>5. cells \subseteq {impl.mem, impl.imm, impl.current, None}
    BY <1>1, <1>4
<1>6. \A c \in cells \ {None} : c \in Cells /\ Outside[c] > 0 /\ c \in DOMAIN objects /\ c \notin Unlisted
    BY <1>5, PointersAreKnown
<1>7. \A c \in cells \ {None} : c[1] # "meta"
    BY <1>3, <1>6 DEF Sound, CountsAre
<1>8. PICK e : e = [c \in Cells |-> IF c \in cells THEN Outside[c] + 1 ELSE Outside[c]]
    OBVIOUS
<1>9. Sound(objects', e, Unlisted \ cells)
    BY <1>2, <1>3, <1>4, <1>6, <1>7, <1>8, AddRefsHolds
<1>10. Sound(objects', e, Unlisted)
    BY <1>9, SoundMore
<1>11. DOMAIN objects' = DOMAIN objects /\ \A d \in DOMAIN objects : objects'[d].files = objects[d].files
    BY <1>2, <1>3, AddRefsIs DEF Sound
<1>12. Outside' = e
    <2>1. \A c \in Cells : Cardinality(ReadersOf(readers', c))
                           = Cardinality(ReadersOf(readers, c)) + (IF c \in cells THEN 1 ELSE 0)
        <3>1. DOMAIN readers = RefReaders
            BY <1>3 DEF ReadersAreRight
        <3>2. PICK rs, s : rs = readers /\ s = [rs EXCEPT ![r] = mine]
            OBVIOUS
        <3>3. ASSUME NEW c \in Cells
              PROVE  Cardinality(ReadersOf(s, c)) = Cardinality(ReadersOf(rs, c)) + More(mine, c)
            <4>1. Takes(rs, r, mine, s)
                BY <1>2, <3>1, <3>2 DEF Takes
            <4> QED
                BY <4>1, ReaderTakes
        <3> QED
            BY <1>2, <1>4, <3>2, <3>3 DEF More
    <2>2. \A c \in Cells : Cardinality(ReadersOf(readers, c)) \in Nat
        BY PointersAreKnown
    <2>3. \A c \in Cells : Outside[c] = Cardinality(ReadersOf(readers, c))
                     + (IF c \in {impl.mem, impl.imm, impl.current} THEN 1 ELSE 0)
                     + (IF flushing.base = c THEN 1 ELSE 0) + (IF compacting.input_version = c THEN 1 ELSE 0)
        BY DEF Outside
    <2>4. Outside' = [c \in Cells |-> Cardinality(ReadersOf(readers', c))
                     + (IF c \in {impl.mem, impl.imm, impl.current} THEN 1 ELSE 0)
                     + (IF flushing.base = c THEN 1 ELSE 0) + (IF compacting.input_version = c THEN 1 ELSE 0)]
        BY <1>2 DEF Outside
    <2> QED
        BY <1>8, <2>1, <2>2, <2>3, <2>4
<1>13. Unlisted' = Unlisted
    BY <1>2 DEF Unlisted
<1>14. Sound(objects, Outside, Unlisted)'
    BY <1>10, <1>12, <1>13
<1>15. ReadersAreRight'
    <2>1. mine \in [call : {"none", "get", "iterator", "sizes"}, mem : MemPointer, imm : MemPointer,
                  version : VersionPointer]
        BY <1>1, <1>3 DEF ImplIsRight, MemPointer
    <2>2. mine.call # "none" /\ mine.version # None /\ (mine.mem = mine.imm => mine.mem = None)
        BY <1>1, <1>2, <1>3 DEF ImplIsRight
    <2> QED
        BY <1>2, <1>3, <2>1, <2>2 DEF ReadersAreRight
<1>16. CompactionIsRight'
    <2>1. compacting.pc # "none" => e[compacting.input_version] > 0
        <3> SUFFICES ASSUME compacting.pc # "none" PROVE e[compacting.input_version] > 0
            OBVIOUS
        <3>1. compacting.input_version # None
            BY DEF RefInv, CompactionIsRight
        <3> QED
            BY <1>8, <3>1, PointersAreKnown
    <2> QED
        BY <1>2, <1>10, <1>11, <2>1, InputsStay
<1>17. NewIsNew'
    <2> SUFFICES ASSUME NEW v \in Unlisted \ {None} PROVE v \in DOMAIN objects' /\ e[v] = 0
        BY <1>12, <1>13 DEF NewIsNew
    <2>1. v \in DOMAIN objects /\ Outside[v] = 0 /\ v \in Cells
        BY <1>3, PointersAreKnown DEF NewIsNew
    <2>2. v \notin cells
        BY <1>6
    <2> QED
        BY <1>8, <1>11, <2>1, <2>2
<1> QED
    BY <1>2, <1>3, <1>14, <1>15, <1>16, <1>17 DEF RefInv, ImplIsRight, FlushIsRight

LEMMA ReaderLetsGo ==
    ASSUME RefInv, NEW r \in RefReaders, NEW o, Sound(o, Outside, Unlisted), DOMAIN o = DOMAIN objects,
           \A d \in DOMAIN o : o[d].files = objects[d].files, DropReferences(r, o), ~used_deleted'
    PROVE  RefInv'
<1>1. /\ objects' = DropAll(o, readers[r].mem, readers[r].imm, readers[r].version)
      /\ readers' = [readers EXCEPT ![r] = NoCall] /\ UNCHANGED <<impl, flushing, compacting>>
    BY DEF DropReferences
<1>2. ImplIsRight /\ ReadersAreRight /\ FlushIsRight /\ NewIsNew
    BY DEF RefInv
<1>3. PICK newest : newest = readers[r].mem
    OBVIOUS
<1>4. PICK older : older = readers[r].imm
    OBVIOUS
<1>5. PICK version : version = readers[r].version
    OBVIOUS
<1>6. newest \in MemPointer /\ older \in MemPointer /\ version \in VersionPointer /\ (newest = older => newest = None)
    BY <1>2, <1>3, <1>4, <1>5 DEF ReadersAreRight
<1>7. Pins(r) = {newest, older, version}
    BY <1>3, <1>4, <1>5 DEF Pins
<1>8. \A c \in {newest, older, version} \ {None} :
          c \in Cells /\ Outside[c] > 0 /\ c \notin Unlisted /\ Cardinality(ReadersOf(readers, c)) > 0
    BY <1>7, PointersAreKnown
<1>9. PICK e : e = [d \in Cells |-> IF d \in {newest, older, version} THEN Outside[d] - 1 ELSE Outside[d]]
    OBVIOUS
<1>10. PICK before : before = Outside
    OBVIOUS
<1>11. PICK new : new = Unlisted
    OBVIOUS
<1>12. Sound(objects', e, new) /\ Keeps(o, objects', {newest, older, version})
    <2>1. objects' = DropAll(o, newest, older, version)
        BY <1>1, <1>3, <1>4, <1>5
    <2>2. Sound(o, before, new) /\ \A c \in {newest, older, version} \ {None} : before[c] > 0 /\ c \notin new
        BY <1>8, <1>10, <1>11
    <2>3. e = [d \in Cells |-> IF d \in {newest, older, version} THEN before[d] - 1 ELSE before[d]]
        BY <1>9, <1>10
    <2> QED
        BY <1>6, <2>1, <2>2, <2>3, DropAllHolds
<1>13. Outside' = e
    <2>1. \A c \in Cells : Cardinality(ReadersOf(readers', c))
                           = IF c \in {newest, older, version} THEN Cardinality(ReadersOf(readers, c)) - 1
                             ELSE Cardinality(ReadersOf(readers, c))
        <3>1. DOMAIN readers = RefReaders
            BY <1>2 DEF ReadersAreRight
        <3> QED
            <4>1. PICK rs, s : rs = readers /\ s = [rs EXCEPT ![r] = NoCall]
                OBVIOUS
            <4>2. ASSUME NEW c \in Cells
                  PROVE  Cardinality(ReadersOf(s, c)) = Cardinality(ReadersOf(rs, c)) - More(rs[r], c)
                <5>1. DOMAIN rs = RefReaders
                    BY <3>1, <4>1
                <5> QED
                    BY <4>1, <5>1, ReaderLets
            <4> QED
                <5>1. \A c \in Cells : Cardinality(ReadersOf(readers, c)) \in Nat
                    BY PointersAreKnown
                <5>2. rs[r].mem = newest /\ rs[r].imm = older /\ rs[r].version = version
                    BY <1>3, <1>4, <1>5, <4>1
                <5>3. readers' = s
                    BY <1>1, <4>1
                <5>4. ASSUME NEW c \in Cells
                      PROVE  Cardinality(ReadersOf(s, c))
                             = IF c \in {newest, older, version} THEN Cardinality(ReadersOf(rs, c)) - 1
                               ELSE Cardinality(ReadersOf(rs, c))
                    <6>1. Cardinality(ReadersOf(rs, c)) \in Nat
                        BY <4>1, <5>1
                    <6> QED
                        BY <4>2, <5>2, <6>1 DEF More
                <5> QED
                    BY <4>1, <5>3, <5>4
    <2>2. \A c \in Cells : Cardinality(ReadersOf(readers, c)) \in Nat
        BY PointersAreKnown
    <2>3. \A c \in Cells : Outside[c] = Cardinality(ReadersOf(readers, c))
                     + (IF c \in {impl.mem, impl.imm, impl.current} THEN 1 ELSE 0)
                     + (IF flushing.base = c THEN 1 ELSE 0) + (IF compacting.input_version = c THEN 1 ELSE 0)
        BY DEF Outside
    <2>4. Outside' = [c \in Cells |-> Cardinality(ReadersOf(readers', c))
                     + (IF c \in {impl.mem, impl.imm, impl.current} THEN 1 ELSE 0)
                     + (IF flushing.base = c THEN 1 ELSE 0) + (IF compacting.input_version = c THEN 1 ELSE 0)]
        BY <1>1 DEF Outside
    <2> QED
        BY <1>9, <2>1, <2>2, <2>3, <2>4
<1>14. Unlisted' = new
    BY <1>1, <1>11 DEF Unlisted
<1>15. Sound(objects, Outside, Unlisted)'
    BY <1>12, <1>13, <1>14
<1>16. ReadersAreRight'
    BY <1>1, <1>2 DEF ReadersAreRight, NoCall, MemPointer, VersionPointer
<1>17. CompactionIsRight'
    <2>1. compacting.pc # "none" => e[compacting.input_version] > 0
        <3> SUFFICES ASSUME compacting.pc # "none" PROVE e[compacting.input_version] > 0
            OBVIOUS
        <3>1. compacting.input_version # None
            BY DEF RefInv, CompactionIsRight
        <3>2. PICK c : c = compacting.input_version
            OBVIOUS
        <3>3. c \in Cells /\ Cardinality(ReadersOf(readers, c)) \in Nat /\ Outside[c] > 0 /\ Outside[c] \in Nat
              /\ (c \in {newest, older, version} => Cardinality(ReadersOf(readers, c)) > 0)
            BY <1>8, <3>1, <3>2, PointersAreKnown
        <3>4. Outside[c] = Cardinality(ReadersOf(readers, c)) + (IF c \in {impl.mem, impl.imm, impl.current} THEN 1 ELSE 0)
                           + (IF flushing.base = c THEN 1 ELSE 0) + 1
            BY <3>2, <3>3 DEF Outside
        <3> QED
            BY <1>9, <3>2, <3>3, <3>4
    <2>2. impl.current = None => compacting.pc = "none"
        BY DEF RefInv, CompactionIsRight
    <2> QED
        BY <1>1, <1>12, <2>1, <2>2, InputsStay DEF Keeps
<1>18. NewIsNew'
    <2> SUFFICES ASSUME NEW v \in Unlisted \ {None} PROVE v \in DOMAIN objects' /\ e[v] = 0
        BY <1>11, <1>13, <1>14 DEF NewIsNew
    <2>1. v \in DOMAIN objects /\ Outside[v] = 0 /\ v \in Cells
        BY <1>2, PointersAreKnown DEF NewIsNew
    <2>2. v \notin {newest, older, version} /\ v[1] # "meta"
        <3>1. v \in CellsOf("version")
            BY DEF Unlisted, RefInv, FlushIsRight, CompactionIsRight, VersionPointer
        <3> QED
            BY <1>8, <3>1, CellsAreApart
    <2> QED
        BY <1>9, <1>12, <2>1, <2>2 DEF Keeps
<1> QED
    BY <1>1, <1>2, <1>15, <1>16, <1>17, <1>18 DEF RefInv, ImplIsRight, FlushIsRight

\* A reader's objects are there when it uses them, and so are its version's files.
LEMMA ReadersUseWhatIsThere ==
    ASSUME RefInv, NEW r \in RefReaders
    PROVE  /\ Pins(r) \ {None} \subseteq DOMAIN objects
           /\ readers[r].call # "none" =>
                 /\ readers[r].version \in DOMAIN objects
                 /\ objects[readers[r].version].files \subseteq DOMAIN objects
<1>1. Pins(r) \ {None} \subseteq DOMAIN objects
    BY PointersAreKnown
<1>2. readers[r].call # "none" => readers[r].version \in Pins(r) \ {None}
    BY DEF RefInv, ReadersAreRight, Pins
<1> QED
    BY <1>1, <1>2 DEF RefInv, Sound, FilesAreThere

LEMMA EndGetHolds == ASSUME RefInv, NEW r \in RefReaders, EndGet(r) PROVE RefInv'
<1>1. readers[r].call = "get" /\ UseOf(Pins(r) \cup objects[readers[r].version].files)
    BY DEF EndGet
<1>2. ~used_deleted'
    BY <1>1, ReadersUseWhatIsThere DEF UseOf, RefInv
<1>3. PICK v : v = readers[r].version
    OBVIOUS
<1>4. v \in DOMAIN objects
    BY <1>1, <1>3, ReadersUseWhatIsThere
<1>5. Sound(objects, Outside, Unlisted)
    BY DEF RefInv
<1>6. CASE DropReferences(r, objects)
    BY <1>2, <1>5, <1>6, ReaderLetsGo
<1>7. CASE \E f \in objects[v].files : objects[v].seek = NoSeek /\ DropReferences(r, [objects EXCEPT ![v].seek = f])
    <2>1. PICK f \in objects[v].files : DropReferences(r, [objects EXCEPT ![v].seek = f])
        BY <1>7
    <2>2. PICK o : o = [objects EXCEPT ![v].seek = f]
        OBVIOUS
    <2>3. /\ ObjectsType(objects) /\ FilesAreThere(objects) /\ CountsAre(objects, Outside)
          /\ AllCounted(objects, Unlisted)
        BY <1>5 DEF Sound
    <2>4. objects[v] \in ObjectType /\ f \in Cells
        BY <1>4, <2>3 DEF ObjectsType, ObjectType
    <2>5. PICK x : x = [objects[v] EXCEPT !.seek = f]
        OBVIOUS
    <2>6. x \in ObjectType /\ x.refs = objects[v].refs /\ x.files = objects[v].files /\ x.seek = f
        BY <2>4, <2>5 DEF ObjectType
    <2>7. o = [objects EXCEPT ![v] = x]
        BY <2>2, <2>5
    <2>8. DOMAIN o = DOMAIN objects /\ \A d \in DOMAIN objects : o[d] = IF d = v THEN x ELSE objects[d]
        BY <1>4, <2>3, <2>7 DEF ObjectsType
    <2>9. ObjectsType(o)
        BY <2>3, <2>6, <2>7 DEF ObjectsType
    <2>10. FilesAreThere(o)
        BY <2>3, <2>6, <2>8 DEF FilesAreThere
    <2>11. \A c \in DOMAIN objects : HoldersOf(o, c) = HoldersOf(objects, c) /\ o[c].refs = objects[c].refs
        BY <2>6, <2>8 DEF HoldersOf
    <2>12. Sound(o, Outside, Unlisted)
        BY <2>3, <2>8, <2>9, <2>10, <2>11 DEF Sound, CountsAre, AllCounted
    <2>13. \A d \in DOMAIN o : o[d].files = objects[d].files
        BY <2>6, <2>8
    <2> QED
        BY <1>2, <2>1, <2>2, <2>8, <2>12, <2>13, ReaderLetsGo
<1> QED
    BY <1>3, <1>6, <1>7 DEF EndGet

LEMMA ReadEndsHolds == ASSUME RefInv, NEW r \in RefReaders, DeleteIterator(r) \/ EndSizes(r) PROVE RefInv'
<1>1. ~used_deleted' /\ DropReferences(r, objects)
    BY ReadersUseWhatIsThere DEF DeleteIterator, EndSizes, UseOf, RefInv
<1>2. Sound(objects, Outside, Unlisted)
    BY DEF RefInv
<1> QED
    BY <1>1, <1>2, ReaderLetsGo

\* The parts of the number outside, and what happens to it when readers do nothing.
LEMMA OutsideParts ==
    ASSUME RefInv, NEW c \in Cells
    PROVE  /\ Cardinality(ReadersOf(readers, c)) \in Nat
           /\ Outside[c] = Cardinality(ReadersOf(readers, c))
                     + (IF c \in {impl.mem, impl.imm, impl.current} THEN 1 ELSE 0)
                     + (IF flushing.base = c THEN 1 ELSE 0) + (IF compacting.input_version = c THEN 1 ELSE 0)
           /\ readers' = readers =>
                 Outside'[c] = Cardinality(ReadersOf(readers, c))
                     + (IF c \in {impl'.mem, impl'.imm, impl'.current} THEN 1 ELSE 0)
                     + (IF flushing'.base = c THEN 1 ELSE 0) + (IF compacting'.input_version = c THEN 1 ELSE 0)
BY PointersAreKnown DEF Outside

LEMMA OutsideBecomes ==
    ASSUME NEW e, e = [c \in Cells |-> e[c]], \A c \in Cells : Outside'[c] = e[c]
    PROVE  Outside' = e
BY DEF Outside

LEMMA SwitchMemTableHolds == ASSUME RefInv, SwitchMemTable PROVE RefInv'
<1>1. PICK m : m = FreshObject(objects, "mem")
    OBVIOUS
<1>2. /\ impl.current # None /\ impl.imm = None
      /\ objects' = With(objects, m, [NewObject({}) EXCEPT !.refs = 1])
      /\ impl' = [impl EXCEPT !.imm = impl.mem, !.mem = m] /\ UNCHANGED <<readers, flushing, compacting, used_deleted>>
    BY <1>1 DEF SwitchMemTable
<1>3. /\ ImplIsRight /\ ReadersAreRight /\ FlushIsRight /\ CompactionIsRight /\ NewIsNew
      /\ Sound(objects, Outside, Unlisted)
    BY DEF RefInv
<1>4. m \in CellsOf("mem") /\ m \notin DOMAIN objects /\ m \in Cells /\ m[1] = "mem" /\ m # None
    <2>1. m \in CellsOf("mem") /\ m \notin DOMAIN objects
        BY <1>1, <1>3, FreshIs DEF Sound, ObjectsType
    <2> QED
        BY <2>1, CellsAreApart
<1>5. PICK e : e = [Outside EXCEPT ![m] = 1]
    OBVIOUS
<1>6. /\ Sound(objects', e, Unlisted) /\ DOMAIN objects' = DOMAIN objects \cup {m}
      /\ \A d \in DOMAIN objects : objects'[d] = objects[d]
    <2>1. m \in Cells \ DOMAIN objects /\ 1 \in {0, 1} /\ (1 = 1 => m[1] # "meta")
        BY <1>4
    <2>2. Sound(objects', e, IF 1 = 0 THEN Unlisted \cup {m} ELSE Unlisted)
        BY <1>2, <1>3, <1>5, <2>1, NewObjectHolds
    <2> QED
        <3>1. /\ DOMAIN With(objects, m, [NewObject({}) EXCEPT !.refs = 1]) = DOMAIN objects \cup {m}
              /\ \A d \in DOMAIN objects : With(objects, m, [NewObject({}) EXCEPT !.refs = 1])[d] = objects[d]
            BY <1>3, <2>1, NewObjectHolds
        <3> QED
            BY <1>2, <2>2, <3>1
<1>7. Outside[m] = 0 /\ \A c \in Cells : e[c] = IF c = m THEN 1 ELSE Outside[c]
    BY <1>4, <1>5, PointersAreKnown DEF Outside
<1>8. /\ impl' \in [mem : MemPointer, imm : MemPointer, current : VersionPointer, failed : BOOLEAN]
      /\ impl'.mem = m /\ impl'.imm = impl.mem /\ impl'.current = impl.current /\ impl.mem # m /\ impl.mem # None
    <2>1. impl.mem # None /\ impl.mem # m
        BY <1>2, <1>3, <1>4, PointersAreKnown DEF ImplIsRight
    <2> QED
        BY <1>2, <1>3, <1>4, <2>1 DEF ImplIsRight, MemPointer
<1>9. Outside' = e
    <2>1. \A c \in Cells : Outside'[c] = e[c]
        <3> TAKE c \in Cells
        <3>1. /\ Cardinality(ReadersOf(readers, c)) \in Nat
              /\ Outside[c] = Cardinality(ReadersOf(readers, c))
                     + (IF c \in {impl.mem, impl.imm, impl.current} THEN 1 ELSE 0)
                     + (IF flushing.base = c THEN 1 ELSE 0) + (IF compacting.input_version = c THEN 1 ELSE 0)
              /\ Outside'[c] = Cardinality(ReadersOf(readers, c))
                     + (IF c \in {m, impl.mem, impl.current} THEN 1 ELSE 0)
                     + (IF flushing.base = c THEN 1 ELSE 0) + (IF compacting.input_version = c THEN 1 ELSE 0)
            BY <1>2, <1>8, OutsideParts
        <3>2. CASE c = m
            <4>1. impl.current # m
                BY <1>2, <1>4, PointersAreKnown
            <4> QED
                BY <1>7, <1>8, <3>1, <3>2, <4>1
        <3>3. CASE c # m
            <4>1. c # None
                BY CellsAreApart
            <4> QED
                BY <1>2, <1>7, <3>1, <3>3, <4>1
        <3> QED
            BY <3>2, <3>3
    <2> QED
        BY <1>5, <2>1, OutsideBecomes DEF Outside
<1>10. Unlisted' = Unlisted
    BY <1>2 DEF Unlisted
<1>11. Sound(objects, Outside, Unlisted)'
    BY <1>6, <1>9, <1>10
<1>12. ImplIsRight'
    BY <1>2, <1>4, <1>8 DEF ImplIsRight
<1>13. FlushIsRight'
    BY <1>2, <1>3, <1>8 DEF FlushIsRight
<1>14. CompactionIsRight'
    <2>1. compacting.pc # "none" => e[compacting.input_version] > 0
        <3> SUFFICES ASSUME compacting.pc # "none" PROVE e[compacting.input_version] > 0
            OBVIOUS
        <3>1. compacting.input_version # None
            BY <1>3 DEF CompactionIsRight
        <3> QED
            BY <1>7, <3>1, PointersAreKnown
    <2> QED
        BY <1>2, <1>6, <1>8, <2>1, InputsStay
<1>15. NewIsNew'
    <2> SUFFICES ASSUME NEW v \in Unlisted \ {None} PROVE v \in DOMAIN objects' /\ e[v] = 0
        BY <1>9, <1>10 DEF NewIsNew
    <2>1. v \in DOMAIN objects /\ Outside[v] = 0 /\ v \in Cells
        BY <1>3, PointersAreKnown DEF NewIsNew
    <2> QED
        BY <1>4, <1>6, <1>7, <2>1
<1> QED
    BY <1>2, <1>3, <1>11, <1>12, <1>13, <1>14, <1>15 DEF RefInv, ReadersAreRight

\* One more points to the current version.
LEMMA CurrentIsTaken ==
    ASSUME RefInv, impl.current # None, NEW e,
           e = [c \in Cells |-> IF c = impl.current THEN Outside[c] + 1 ELSE Outside[c]],
           objects' = AddRef(objects, impl.current)
    PROVE  /\ Sound(objects', e, Unlisted) /\ DOMAIN objects' = DOMAIN objects
           /\ \A d \in DOMAIN objects : objects'[d].files = objects[d].files
<1>1. impl.current \in Cells /\ Outside[impl.current] > 0 /\ impl.current \in DOMAIN objects
    BY PointersAreKnown
<1>2. Sound(objects, Outside, Unlisted)
    BY DEF RefInv
<1>3. impl.current[1] # "meta"
    BY <1>1, <1>2 DEF Sound, CountsAre
<1>4. PICK cells : cells = {impl.current}
    OBVIOUS
<1>5. e = [c \in Cells |-> IF c \in cells THEN Outside[c] + 1 ELSE Outside[c]] /\ objects' = AddRefs(objects, cells)
    BY <1>4 DEF AddRef
<1>6. Sound(objects', e, Unlisted \ cells)
    BY <1>1, <1>2, <1>3, <1>4, <1>5, AddRefsHolds
<1>7. Sound(objects', e, Unlisted)
    BY <1>6, SoundMore
<1> QED
    BY <1>2, <1>5, <1>7, AddRefsIs DEF Sound

LEMMA BeginFlushHolds == ASSUME RefInv, BeginFlush PROVE RefInv'
<1>1. /\ impl.current # None /\ impl.imm # None /\ flushing.pc = "none" /\ compacting.pc \in {"none", "work"}
      /\ flushing' = [NotFlushing EXCEPT !.pc = "write", !.base = impl.current]
      /\ objects' = AddRef(objects, impl.current) /\ UNCHANGED <<impl, readers, compacting, used_deleted>>
    BY DEF BeginFlush
<1>2. /\ ImplIsRight /\ ReadersAreRight /\ FlushIsRight /\ CompactionIsRight /\ NewIsNew
      /\ Sound(objects, Outside, Unlisted)
    BY DEF RefInv
<1>3. /\ flushing.base = None /\ flushing.v = None /\ flushing'.pc = "write"
      /\ flushing'.base = impl.current /\ flushing'.v = None
    BY <1>1, <1>2 DEF FlushIsRight, NotFlushing
<1>4. PICK e : e = [c \in Cells |-> IF c = impl.current THEN Outside[c] + 1 ELSE Outside[c]]
    OBVIOUS
<1>5. /\ Sound(objects', e, Unlisted) /\ DOMAIN objects' = DOMAIN objects
      /\ \A d \in DOMAIN objects : objects'[d].files = objects[d].files
    BY <1>1, <1>4, CurrentIsTaken
<1>6. Outside' = e
    <2>1. \A c \in Cells : Outside'[c] = e[c]
        BY <1>1, <1>3, <1>4, OutsideParts, CellsAreApart
    <2> QED
        BY <1>4, <2>1, OutsideBecomes
<1>7. Unlisted' = Unlisted
    BY <1>1, <1>3 DEF Unlisted
<1>8. Sound(objects, Outside, Unlisted)'
    BY <1>5, <1>6, <1>7
<1>9. FlushIsRight'
    BY <1>1, <1>2, <1>3 DEF FlushIsRight, NotFlushing, ImplIsRight, VersionPointer
<1>10. CompactionIsRight'
    <2>1. compacting.pc # "none" => e[compacting.input_version] > 0
        BY <1>2, <1>4, PointersAreKnown DEF CompactionIsRight
    <2> QED
        BY <1>1, <1>5, <2>1, InputsStay
<1>11. NewIsNew'
    <2> SUFFICES ASSUME NEW v \in Unlisted \ {None} PROVE v \in DOMAIN objects' /\ e[v] = 0
        BY <1>6, <1>7 DEF NewIsNew
    <2>1. v \in DOMAIN objects /\ Outside[v] = 0 /\ v \in Cells
        BY <1>2, PointersAreKnown DEF NewIsNew
    <2>2. v # impl.current
        BY <1>1, <2>1, PointersAreKnown
    <2> QED
        BY <1>4, <1>5, <2>1, <2>2
<1> QED
    BY <1>1, <1>2, <1>8, <1>9, <1>10, <1>11 DEF RefInv, ReadersAreRight, ImplIsRight

LEMMA LogFlushHolds == ASSUME RefInv, LogFlush PROVE RefInv'
<1>1. flushing.pc = "write" /\ UseOf({impl.imm, flushing.base}) /\ UNCHANGED <<readers, compacting>>
    BY DEF LogFlush
<1>2. /\ ImplIsRight /\ ReadersAreRight /\ FlushIsRight /\ CompactionIsRight /\ NewIsNew
      /\ Sound(objects, Outside, Unlisted)
    BY DEF RefInv
<1>3. PICK base : base = flushing.base
    OBVIOUS
<1>4. /\ base # None /\ flushing.v = None /\ impl.current # None /\ impl.imm # None
      /\ compacting.pc \in {"none", "work"} /\ compacting.v = None
    BY <1>1, <1>2, <1>3 DEF FlushIsRight, CompactionIsRight
<1>5. /\ base \in Cells /\ Outside[base] > 0 /\ impl.current \in Cells /\ Outside[impl.current] > 0
      /\ base \notin Unlisted /\ impl.imm \in DOMAIN objects /\ base \in DOMAIN objects
    BY <1>3, <1>4, PointersAreKnown
<1>6. ~used_deleted'
    BY <1>1, <1>3, <1>5 DEF UseOf, RefInv
<1>7. Unlisted = {None}
    BY <1>4 DEF Unlisted
<1>8. PICK e : e = [c \in Cells |-> IF c = base THEN Outside[c] - 1 ELSE Outside[c]]
    OBVIOUS
<1>9. PICK o : o = DropRef(objects, base)
    OBVIOUS
<1>10. PICK before : before = Outside
    OBVIOUS
<1>11. Sound(o, e, {None}) /\ Keeps(objects, o, {base})
    <2>1. Sound(objects, before, {None}) /\ before[base] > 0 /\ base \notin {None} /\ base \in Cells
        BY <1>2, <1>4, <1>5, <1>7, <1>10
    <2>2. e = [c \in Cells |-> IF c = base THEN before[c] - 1 ELSE before[c]]
        BY <1>8, <1>10
    <2> QED
        BY <1>9, <2>1, <2>2, DropKeeps
<1>12. e[impl.current] > 0 /\ (compacting.pc # "none" => e[compacting.input_version] > 0)
    <2>1. \A c \in Cells : c = impl.current \/ c = compacting.input_version => e[c] > 0
        <3> TAKE c \in Cells
        <3>1. /\ Cardinality(ReadersOf(readers, c)) \in Nat
              /\ Outside[c] = Cardinality(ReadersOf(readers, c))
                     + (IF c \in {impl.mem, impl.imm, impl.current} THEN 1 ELSE 0)
                     + (IF flushing.base = c THEN 1 ELSE 0) + (IF compacting.input_version = c THEN 1 ELSE 0)
            BY OutsideParts
        <3> QED
            BY <1>3, <1>8, <3>1
    <2>2. compacting.pc # "none" => compacting.input_version \in Cells
        BY <1>2, PointersAreKnown DEF CompactionIsRight
    <2> QED
        BY <1>5, <2>1, <2>2
<1>13. impl.current \in DOMAIN o
    BY <1>5, <1>11, <1>12 DEF Sound, CountsAre
<1>14. flushing'.base = None /\ impl'.mem = impl.mem /\ impl'.imm = impl.imm /\ impl'.current = impl.current => Outside' = e
    <2> SUFFICES ASSUME flushing'.base = None, impl'.mem = impl.mem, impl'.imm = impl.imm, impl'.current = impl.current
                 PROVE  Outside' = e
        OBVIOUS
    <2>1. \A c \in Cells : Outside'[c] = e[c]
        <3> TAKE c \in Cells
        <3>1. /\ Cardinality(ReadersOf(readers, c)) \in Nat
              /\ Outside[c] = Cardinality(ReadersOf(readers, c))
                     + (IF c \in {impl.mem, impl.imm, impl.current} THEN 1 ELSE 0)
                     + (IF flushing.base = c THEN 1 ELSE 0) + (IF compacting.input_version = c THEN 1 ELSE 0)
              /\ Outside'[c] = Cardinality(ReadersOf(readers, c))
                     + (IF c \in {impl.mem, impl.imm, impl.current} THEN 1 ELSE 0)
                     + (IF flushing'.base = c THEN 1 ELSE 0) + (IF compacting.input_version = c THEN 1 ELSE 0)
            BY <1>1, OutsideParts
        <3>2. c # None
            BY CellsAreApart
        <3> QED
            BY <1>3, <1>8, <3>1, <3>2
    <2> QED
        BY <1>8, <2>1, OutsideBecomes
<1>15. CASE flushing' = NotFlushing /\ objects' = o /\ impl' = [impl EXCEPT !.failed = TRUE]
    <2>1. /\ flushing'.base = None /\ flushing'.v = None /\ flushing'.pc = "none"
          /\ impl'.mem = impl.mem /\ impl'.imm = impl.imm /\ impl'.current = impl.current
        BY <1>2, <1>15 DEF NotFlushing, ImplIsRight
    <2>2. Outside' = e
        BY <1>14, <2>1
    <2>3. Unlisted' = {None}
        BY <1>1, <1>4, <2>1 DEF Unlisted
    <2>4. Sound(objects, Outside, Unlisted)'
        BY <1>11, <1>15, <2>2, <2>3
    <2>5. ImplIsRight'
        BY <1>2, <1>4, <1>15 DEF ImplIsRight
    <2>6. FlushIsRight'
        BY <1>15, <2>1 DEF FlushIsRight, NotFlushing, VersionPointer
    <2>7. CompactionIsRight'
        BY <1>1, <1>4, <1>11, <1>12, <1>15, <2>1, InputsStay DEF Keeps
    <2>8. NewIsNew'
        BY <2>3 DEF NewIsNew
    <2> QED
        BY <1>1, <1>2, <1>6, <2>4, <2>5, <2>6, <2>7, <2>8 DEF RefInv, ReadersAreRight
<1>16. ASSUME NEW added, NEW n, n = NewVersion(o, {}, added), objects' = n.objects,
              flushing' = [NotFlushing EXCEPT !.pc = "log", !.v = n.v], UNCHANGED impl
       PROVE  RefInv'
    <2>1. flushing'.base = None /\ flushing'.v = n.v /\ flushing'.pc = "log"
        BY <1>16 DEF NotFlushing
    <2>2. Outside' = e
        BY <1>14, <1>16, <2>1
    <2>3. /\ n.v \in CellsOf("version") \ DOMAIN o /\ n.v \in DOMAIN n.objects /\ e[n.v] = 0
          /\ Sound(n.objects, e, {None, n.v})
          /\ Extends(o, n.objects)
        <3>1. PICK deleted : deleted = {}
            OBVIOUS
        <3>2. /\ Sound(o, e, {None}) /\ impl.current \in DOMAIN o /\ n = NewVersion(o, deleted, added)
            BY <1>11, <1>13, <1>16, <3>1
        <3> QED
            BY <3>2, NewVersionHolds
    <2>4. Unlisted' = {None, n.v} /\ n.v # None
        BY <1>1, <1>4, <2>1, <2>3, CellsAreApart DEF Unlisted
    <2>5. Sound(objects, Outside, Unlisted)'
        BY <1>16, <2>2, <2>3, <2>4
    <2>6. FlushIsRight'
        BY <1>1, <1>4, <1>16, <2>1, <2>3, <2>4 DEF FlushIsRight, NotFlushing, VersionPointer
    <2>7. CompactionIsRight'
        <3>1. CASE compacting.pc = "none"
            BY <1>1, <1>2, <3>1 DEF CompactionIsRight
        <3>2. CASE compacting.pc # "none"
            <4>1. compacting.input_version \in Cells /\ compacting.inputs \subseteq objects[compacting.input_version].files
                BY <1>2, <3>2, PointersAreKnown DEF CompactionIsRight
            <4>2. compacting.input_version \in DOMAIN o
                BY <1>11, <1>12, <3>2, <4>1 DEF Sound, CountsAre
            <4>3. objects'[compacting.input_version].files = objects[compacting.input_version].files
                BY <1>11, <1>16, <2>3, <4>2 DEF Keeps, Extends
            <4> QED
                BY <1>1, <1>2, <1>16, <3>2, <4>1, <4>3 DEF CompactionIsRight
        <3> QED
            BY <3>1, <3>2
    <2>8. NewIsNew'
        BY <1>16, <2>2, <2>3, <2>4 DEF NewIsNew
    <2> QED
        BY <1>1, <1>2, <1>6, <1>16, <2>5, <2>6, <2>7, <2>8 DEF RefInv, ReadersAreRight, ImplIsRight
<1> QED
    BY <1>3, <1>9, <1>15, <1>16 DEF LogFlush

LEMMA EndFlushHolds == ASSUME RefInv, EndFlush PROVE RefInv'
<1>1. flushing.pc = "log" /\ flushing' = NotFlushing /\ UNCHANGED <<readers, compacting, used_deleted>>
    BY DEF EndFlush
<1>2. /\ ImplIsRight /\ ReadersAreRight /\ FlushIsRight /\ CompactionIsRight /\ NewIsNew
      /\ Sound(objects, Outside, Unlisted)
    BY DEF RefInv
<1>3. PICK v : v = flushing.v
    OBVIOUS
<1>4. /\ v # None /\ flushing.base = None /\ impl.current # None /\ impl.imm # None
      /\ compacting.pc \in {"none", "work"} /\ compacting.v = None /\ impl.mem # None /\ impl.mem # impl.imm
    BY <1>1, <1>2, <1>3 DEF FlushIsRight, CompactionIsRight, ImplIsRight
<1>5. Unlisted = {None, v} /\ v \in DOMAIN objects /\ Outside[v] = 0 /\ v \in Cells /\ v \in CellsOf("version")
    BY <1>2, <1>3, <1>4, PointersAreKnown DEF Unlisted, NewIsNew, FlushIsRight, VersionPointer
<1>6. v[1] = "version"
    BY <1>5, CellsAreApart
<1>7. flushing'.base = None /\ flushing'.v = None /\ flushing'.pc = "none" /\ Unlisted' = {None}
    BY <1>1, <1>4 DEF NotFlushing, Unlisted
<1>8. FlushIsRight'
    BY <1>1, <1>7 DEF FlushIsRight, NotFlushing, VersionPointer
<1>9. PICK before : before = Outside
    OBVIOUS
<1>10. /\ impl.current \in Cells /\ before[impl.current] > 0 /\ impl.imm \in Cells /\ before[impl.imm] > 0
       /\ impl.current # v /\ impl.imm # v /\ impl.mem # v
    BY <1>4, <1>5, <1>9, PointersAreKnown
<1>11. CASE /\ objects' = DropRef(AppendVersion(objects, v), impl.imm)
            /\ impl' = [impl EXCEPT !.current = v, !.imm = None]
    <2>1. PICK p : p = AppendVersion(objects, v)
        OBVIOUS
    <2>2. PICK e1 : e1 = [d \in Cells |-> IF d = v THEN 1 ELSE IF d = impl.current THEN before[d] - 1 ELSE before[d]]
        OBVIOUS
    <2>3. Sound(p, e1, {None, v} \ {v}) /\ Keeps(objects, p, {impl.current})
        <3>1. /\ Sound(objects, before, {None, v}) /\ v \in DOMAIN objects /\ v[1] # "meta" /\ before[v] = 0
              /\ impl.current \notin {None, v}
            BY <1>2, <1>4, <1>5, <1>6, <1>9, <1>10
        <3> QED
            BY <1>10, <2>1, <2>2, <3>1, AppendVersionHolds
    <2>4. Sound(p, e1, {None})
        BY <2>3, SoundMore
    <2>5. impl.imm # impl.current /\ impl.mem # impl.current
        BY <1>2, <1>4, CellsAreApart DEF ImplIsRight, MemPointer, VersionPointer
    <2>6. PICK e : e = [d \in Cells |-> IF d = impl.imm THEN e1[d] - 1 ELSE e1[d]]
        OBVIOUS
    <2>7. Sound(objects', e, {None}) /\ Keeps(p, objects', {impl.imm})
        <3>1. impl.imm \in Cells /\ e1[impl.imm] > 0 /\ impl.imm \notin {None}
            BY <1>4, <1>10, <2>2, <2>5
        <3> QED
            BY <1>11, <2>1, <2>4, <2>6, <3>1, DropKeeps
    <2>8. impl'.mem = impl.mem /\ impl'.imm = None /\ impl'.current = v
        BY <1>2, <1>11 DEF ImplIsRight
    <2>9. \A c \in Cells : e[c] = IF c = v THEN 1 ELSE IF c \in {impl.current, impl.imm} THEN before[c] - 1 ELSE before[c]
        BY <1>10, <2>2, <2>5, <2>6
    <2>10. \A c \in Cells : Outside'[c] = e[c]
        <3> TAKE c \in Cells
        <3>1. /\ Cardinality(ReadersOf(readers, c)) \in Nat
              /\ before[c] = Cardinality(ReadersOf(readers, c))
                     + (IF c \in {impl.mem, impl.imm, impl.current} THEN 1 ELSE 0)
                     + (IF flushing.base = c THEN 1 ELSE 0) + (IF compacting.input_version = c THEN 1 ELSE 0)
              /\ Outside'[c] = Cardinality(ReadersOf(readers, c))
                     + (IF c \in {impl.mem, None, v} THEN 1 ELSE 0)
                     + (IF None = c THEN 1 ELSE 0) + (IF compacting.input_version = c THEN 1 ELSE 0)
            BY <1>1, <1>7, <1>9, <2>8, OutsideParts
        <3>2. c # None
            BY CellsAreApart
        <3>3. CASE c = v
            BY <1>4, <1>5, <1>9, <1>10, <2>9, <3>1, <3>2, <3>3
        <3>4. CASE c # v
            BY <1>4, <2>5, <2>9, <3>1, <3>2, <3>4
        <3> QED
            BY <3>3, <3>4
    <2>11. Outside' = e
        BY <2>6, <2>10, OutsideBecomes
    <2>12. Sound(objects, Outside, Unlisted)'
        BY <1>7, <2>7, <2>11
    <2>13. ImplIsRight'
        BY <1>2, <1>4, <1>5, <1>11, <2>8 DEF ImplIsRight, MemPointer, VersionPointer
    <2>14. CompactionIsRight'
        <3>1. compacting.pc # "none" => e[compacting.input_version] > 0
            <4> SUFFICES ASSUME compacting.pc # "none" PROVE e[compacting.input_version] > 0
                OBVIOUS
            <4>1. PICK c : c = compacting.input_version
                OBVIOUS
            <4>2. c \in Cells
                BY <1>2, <4>1, PointersAreKnown DEF CompactionIsRight
            <4>3. Outside'[c] > 0
                BY <1>1, <4>1, <4>2, OutsideParts
            <4> QED
                BY <2>11, <4>1, <4>3
        <3> QED
            BY <1>1, <1>4, <1>5, <2>3, <2>7, <2>8, <3>1, InputsStay DEF Keeps
    <2>15. NewIsNew'
        BY <1>7 DEF NewIsNew
    <2> QED
        BY <1>1, <1>2, <1>8, <2>12, <2>13, <2>14, <2>15 DEF RefInv, ReadersAreRight
<1>12. CASE objects' = Rejected(objects, v) /\ impl' = [impl EXCEPT !.failed = TRUE]
    <2>1. PICK e : e = [before EXCEPT ![v] = 0]
        OBVIOUS
    <2>2. /\ Sound(objects', e, {None, v} \ {v})
          /\ \A d \in DOMAIN objects' : d \in DOMAIN objects \ {v} /\ objects'[d].files = objects[d].files
        <3>1. Sound(objects, before, {None, v}) /\ v \in DOMAIN objects /\ v[1] # "meta"
            BY <1>2, <1>5, <1>6, <1>9
        <3> QED
            <4>1. objects' = Delete(objects, v)
                BY <1>12 DEF Rejected
            <4>2. /\ Sound(Delete(objects, v), [before EXCEPT ![v] = 0], {None, v} \ {v})
                  /\ \A d \in DOMAIN Delete(objects, v) :
                        d \in DOMAIN objects \ {v} /\ Delete(objects, v)[d].files = objects[d].files
                BY <3>1, DeleteHolds
            <4> QED
                BY <2>1, <4>1, <4>2
    <2>3. Sound(objects', e, {None})
        BY <2>2, SoundMore
    <2>4. e = before
        BY <1>5, <1>9, <2>1 DEF Outside
    <2>5. impl'.mem = impl.mem /\ impl'.imm = impl.imm /\ impl'.current = impl.current
        BY <1>2, <1>12 DEF ImplIsRight
    <2>6. \A c \in Cells : Outside'[c] = before[c]
        BY <1>1, <1>4, <1>7, <1>9, <2>5, OutsideParts
    <2>7. Outside' = before
        BY <1>9, <2>6 DEF Outside
    <2>8. Sound(objects, Outside, Unlisted)'
        BY <1>7, <2>3, <2>4, <2>7
    <2>9. ImplIsRight'
        BY <1>2, <1>4, <1>12 DEF ImplIsRight
    <2>10. CompactionIsRight'
        <3>1. compacting.pc # "none" => before[compacting.input_version] > 0
            BY <1>2, <1>9, PointersAreKnown DEF CompactionIsRight
        <3> QED
            BY <1>1, <1>4, <2>2, <2>3, <2>4, <2>5, <3>1, InputsStay
    <2>11. NewIsNew'
        BY <1>7 DEF NewIsNew
    <2> QED
        BY <1>1, <1>2, <1>8, <2>8, <2>9, <2>10, <2>11 DEF RefInv, ReadersAreRight
<1> QED
    BY <1>3, <1>11, <1>12 DEF EndFlush

LEMMA PickInputsHolds == ASSUME RefInv, PickInputs PROVE RefInv'
<1>1. /\ impl.current # None /\ flushing.pc = "none" /\ compacting.pc = "none"
      /\ objects' = AddRef(objects, impl.current) /\ UNCHANGED <<impl, readers, flushing>>
      /\ UseOf(compacting'.inputs \cup {objects[impl.current].seek})
    BY DEF PickInputs
<1>2. /\ ImplIsRight /\ ReadersAreRight /\ FlushIsRight /\ CompactionIsRight /\ NewIsNew
      /\ Sound(objects, Outside, Unlisted)
    BY DEF RefInv
<1>3. PICK inputs \in SUBSET objects[impl.current].files, pc \in {"work", "move"} :
         compacting' = [pc |-> pc, input_version |-> impl.current, inputs |-> inputs, v |-> None]
    BY DEF PickInputs
<1>4. /\ compacting.input_version = None /\ compacting.v = None /\ flushing.v = None
      /\ compacting'.input_version = impl.current /\ compacting'.v = None /\ compacting'.inputs = inputs
      /\ compacting'.pc = pc
    BY <1>1, <1>2, <1>3 DEF CompactionIsRight, FlushIsRight, NotCompacting, NotFlushing
<1>5. impl.current \in DOMAIN objects /\ impl.current \in Cells
    BY <1>1, PointersAreKnown
<1>6. /\ objects[impl.current].files \subseteq DOMAIN objects /\ DOMAIN objects \subseteq Cells
      /\ objects[impl.current].seek \in objects[impl.current].files \cup {NoSeek}
    BY <1>2, <1>5 DEF Sound, FilesAreThere, ObjectsType
<1>7. ~used_deleted'
    BY <1>1, <1>3, <1>4, <1>6 DEF UseOf, RefInv, NoSeek
<1>8. PICK e : e = [c \in Cells |-> IF c = impl.current THEN Outside[c] + 1 ELSE Outside[c]]
    OBVIOUS
<1>9. /\ Sound(objects', e, Unlisted) /\ DOMAIN objects' = DOMAIN objects
      /\ \A d \in DOMAIN objects : objects'[d].files = objects[d].files
    BY <1>1, <1>8, CurrentIsTaken
<1>10. Outside' = e
    <2>1. \A c \in Cells : Outside'[c] = e[c]
        BY <1>1, <1>4, <1>8, OutsideParts, CellsAreApart
    <2> QED
        BY <1>8, <2>1, OutsideBecomes
<1>11. Unlisted' = Unlisted /\ Unlisted = {None}
    BY <1>1, <1>4 DEF Unlisted
<1>12. Sound(objects, Outside, Unlisted)'
    BY <1>9, <1>10, <1>11
<1>13. CompactionIsRight'
    <2>1. objects'[compacting'.input_version].files = objects[impl.current].files
        BY <1>4, <1>5, <1>9
    <2>2. inputs \in SUBSET Cells /\ impl.current \in VersionPointer
        BY <1>2, <1>6 DEF ImplIsRight
    <2>3. None \in VersionPointer
        BY DEF VersionPointer
    <2> QED
        BY <1>1, <1>3, <1>4, <2>1, <2>2, <2>3 DEF CompactionIsRight
<1>14. FlushIsRight' /\ NewIsNew'
    BY <1>1, <1>2, <1>11 DEF FlushIsRight, NewIsNew
<1> QED
    BY <1>1, <1>2, <1>7, <1>12, <1>13, <1>14 DEF RefInv, ReadersAreRight, ImplIsRight

\* A compaction lets its version go once.
LEMMA ReleasedIs ==
    ASSUME CompactionIsRight, NEW o
    PROVE  Released(o) = DropRef(o, compacting.input_version)
BY DEF CompactionIsRight, Released, ReleaseInputs, DropRef

\* It holds its version apart from the others, and nobody flushes while it logs.
LEMMA CompactionHolds ==
    ASSUME RefInv, compacting.pc # "none", flushing.pc = "none"
    PROVE  /\ compacting.input_version \in Cells /\ Outside[compacting.input_version] > 0
           /\ compacting.input_version \in DOMAIN objects /\ compacting.input_version \notin Unlisted
           /\ compacting.inputs \subseteq objects[compacting.input_version].files
           /\ impl.current \in Cells /\ Outside[impl.current] > 0 /\ impl.current \in DOMAIN objects
           /\ impl.current \notin Unlisted /\ impl.current # None /\ compacting.input_version # None
           /\ flushing.base = None /\ flushing.v = None
<1>1. CompactionIsRight /\ FlushIsRight
    BY DEF RefInv
<1>2. /\ impl.current # None /\ compacting.input_version # None
      /\ compacting.inputs \subseteq objects[compacting.input_version].files
    BY <1>1 DEF CompactionIsRight
<1>3. flushing.base = None /\ flushing.v = None
    BY <1>1 DEF FlushIsRight, NotFlushing
<1> QED
    BY <1>2, <1>3, PointersAreKnown

LEMMA LogCompactionHolds == ASSUME RefInv, LogCompaction PROVE RefInv'
<1>1. /\ compacting.pc \in {"work", "move"} /\ flushing.pc = "none" /\ UNCHANGED <<readers, flushing>>
      /\ UseOf(compacting.inputs \cup {compacting.input_version})
    BY DEF LogCompaction
<1>2. /\ ImplIsRight /\ ReadersAreRight /\ FlushIsRight /\ CompactionIsRight /\ NewIsNew
      /\ Sound(objects, Outside, Unlisted)
    BY DEF RefInv
<1>3. PICK base : base = compacting.input_version
    OBVIOUS
<1>4. /\ base \in Cells /\ Outside[base] > 0 /\ base \in DOMAIN objects /\ base \notin Unlisted
      /\ compacting.inputs \subseteq objects[base].files /\ base # None
      /\ impl.current \in Cells /\ impl.current \in DOMAIN objects /\ impl.current # None
      /\ flushing.base = None /\ flushing.v = None /\ compacting.v = None
    BY <1>1, <1>2, <1>3, CompactionHolds DEF CompactionIsRight
<1>5. Unlisted = {None}
    BY <1>4 DEF Unlisted
<1>6. ~used_deleted'
    <2>1. compacting.inputs \subseteq DOMAIN objects
        BY <1>2, <1>4 DEF Sound, FilesAreThere
    <2> QED
        BY <1>1, <1>3, <1>4, <2>1 DEF UseOf, RefInv
<1>7. PICK before : before = Outside
    OBVIOUS
<1>8. Sound(objects, before, {None}) /\ before[base] > 0
    BY <1>2, <1>4, <1>5, <1>7
<1>9. CASE compacting' = NotCompacting /\ objects' = Released(objects) /\ impl' = [impl EXCEPT !.failed = TRUE]
    <2>1. PICK e : e = [c \in Cells |-> IF c = base THEN before[c] - 1 ELSE before[c]]
        OBVIOUS
    <2>2. objects' = DropRef(objects, base)
        BY <1>2, <1>3, <1>9, ReleasedIs
    <2>3. Sound(objects', e, {None})
        <3>1. Sound(DropRef(objects, base), e, {None})
            BY <1>4, <1>8, <2>1, DropKeeps
        <3> QED
            BY <2>2, <3>1
    <2>4. /\ compacting'.input_version = None /\ compacting'.v = None /\ compacting'.pc = "none"
          /\ impl'.mem = impl.mem /\ impl'.imm = impl.imm /\ impl'.current = impl.current
        BY <1>2, <1>9 DEF NotCompacting, ImplIsRight
    <2>5. \A c \in Cells : Outside'[c] = e[c]
        BY <1>1, <1>3, <1>7, <2>1, <2>4, OutsideParts, CellsAreApart
    <2>6. Outside' = e
        BY <2>1, <2>5, OutsideBecomes
    <2>7. Unlisted' = {None}
        BY <1>1, <1>4, <2>4 DEF Unlisted
    <2>8. Sound(objects, Outside, Unlisted)'
        BY <2>3, <2>6, <2>7
    <2>9. ImplIsRight'
        BY <1>2, <1>4, <1>9 DEF ImplIsRight
    <2>10. FlushIsRight' /\ NewIsNew'
        BY <1>1, <1>2, <2>7 DEF FlushIsRight, NewIsNew
    <2>11. CompactionIsRight'
        BY <1>9, <2>4 DEF CompactionIsRight, NotCompacting, VersionPointer
    <2> QED
        BY <1>1, <1>2, <1>6, <2>8, <2>9, <2>10, <2>11 DEF RefInv, ReadersAreRight
<1>10. ASSUME NEW added, NEW n, n = NewVersion(objects, compacting.inputs, added), objects' = n.objects,
              compacting' = [compacting EXCEPT !.pc = "log", !.v = n.v], UNCHANGED impl
       PROVE  RefInv'
    <2>1. /\ n.v \in CellsOf("version") \ DOMAIN objects /\ n.v \in DOMAIN n.objects /\ before[n.v] = 0
          /\ Sound(n.objects, before, {None, n.v})
          /\ Extends(objects, n.objects)
        <3>1. PICK deleted : deleted = compacting.inputs
            OBVIOUS
        <3>2. /\ Sound(objects, before, {None}) /\ impl.current \in DOMAIN objects
              /\ n = NewVersion(objects, deleted, added)
            BY <1>4, <1>8, <1>10, <3>1
        <3> QED
            BY <3>2, NewVersionHolds
    <2>2. /\ compacting'.input_version = base /\ compacting'.v = n.v /\ compacting'.pc = "log"
          /\ compacting'.inputs = compacting.inputs
        BY <1>2, <1>3, <1>10 DEF CompactionIsRight
    <2>3. \A c \in Cells : Outside'[c] = before[c]
        BY <1>1, <1>3, <1>7, <1>10, <2>2, OutsideParts
    <2>4. Outside' = before
        BY <1>7, <2>3 DEF Outside
    <2>5. Unlisted' = {None, n.v} /\ n.v # None
        BY <1>1, <1>4, <2>1, <2>2, CellsAreApart DEF Unlisted
    <2>6. Sound(objects, Outside, Unlisted)'
        BY <1>10, <2>1, <2>4, <2>5
    <2>7. CompactionIsRight'
        <3>1. objects'[base].files = objects[base].files
            BY <1>4, <1>10, <2>1 DEF Extends
        <3>2. /\ compacting' \in [pc : {"none", "work", "move", "log"}, input_version : VersionPointer,
                                   inputs : SUBSET Cells, v : VersionPointer]
            <4>1. n.v \in VersionPointer
                BY <2>1 DEF VersionPointer
            <4> QED
                BY <1>2, <1>10, <4>1 DEF CompactionIsRight
        <3> QED
            BY <1>4, <1>10, <2>2, <2>5, <3>1, <3>2 DEF CompactionIsRight
    <2>8. FlushIsRight'
        BY <1>1, <1>2 DEF FlushIsRight
    <2>9. NewIsNew'
        BY <1>10, <2>1, <2>4, <2>5 DEF NewIsNew
    <2> QED
        BY <1>1, <1>2, <1>6, <1>10, <2>6, <2>7, <2>8, <2>9 DEF RefInv, ReadersAreRight, ImplIsRight
<1> QED
    BY <1>9, <1>10 DEF LogCompaction

LEMMA EndCompactionHolds == ASSUME RefInv, EndCompaction PROVE RefInv'
<1>1. /\ compacting.pc = "log" /\ compacting' = NotCompacting /\ UNCHANGED <<readers, flushing>>
    BY DEF EndCompaction
<1>2. /\ ImplIsRight /\ ReadersAreRight /\ FlushIsRight /\ CompactionIsRight /\ NewIsNew
      /\ Sound(objects, Outside, Unlisted)
    BY DEF RefInv
<1>3. PICK v, base : v = compacting.v /\ base = compacting.input_version
    OBVIOUS
<1>4. flushing.pc = "none" /\ v # None
    BY <1>1, <1>2, <1>3 DEF FlushIsRight, CompactionIsRight
<1>5. /\ base \in Cells /\ Outside[base] > 0 /\ base \in DOMAIN objects /\ base \notin Unlisted
      /\ compacting.inputs \subseteq objects[base].files /\ base # None
      /\ impl.current \in Cells /\ Outside[impl.current] > 0 /\ impl.current \in DOMAIN objects
      /\ impl.current \notin Unlisted /\ impl.current # None /\ flushing.base = None /\ flushing.v = None
    BY <1>1, <1>3, <1>4, CompactionHolds
<1>6. /\ Unlisted = {None, v} /\ v \in DOMAIN objects /\ Outside[v] = 0 /\ v \in Cells /\ v \in CellsOf("version")
      /\ v \in VersionPointer
    BY <1>2, <1>3, <1>4, <1>5, PointersAreKnown DEF Unlisted, NewIsNew, CompactionIsRight, VersionPointer
<1>7. v[1] = "version" /\ base # v /\ impl.current # v
    BY <1>5, <1>6, CellsAreApart
<1>8. PICK before : before = Outside
    OBVIOUS
<1>9. /\ Sound(objects, before, {None, v}) /\ v \in DOMAIN objects /\ v[1] # "meta" /\ before[v] = 0
      /\ impl.current \in Cells /\ before[impl.current] > 0 /\ impl.current \notin {None, v}
    BY <1>2, <1>5, <1>6, <1>7, <1>8
<1>10. /\ compacting'.input_version = None /\ compacting'.v = None /\ compacting'.pc = "none" /\ Unlisted' = {None}
    BY <1>1, <1>5 DEF NotCompacting, Unlisted
<1>11. FlushIsRight' /\ NewIsNew' /\ CompactionIsRight'
    <2>1. FlushIsRight'
        BY <1>1, <1>2, <1>4 DEF FlushIsRight, NotFlushing
    <2>2. CompactionIsRight'
        BY <1>1, <1>10 DEF CompactionIsRight, NotCompacting, VersionPointer
    <2> QED
        BY <1>10, <2>1, <2>2 DEF NewIsNew
<1>12. ASSUME NEW o, NEW e1, Sound(o, e1, {None}), base \in Cells, e1[base] > 0, objects' = Released(o),
              NEW e, e = [d \in Cells |-> IF d = base THEN e1[d] - 1 ELSE e1[d]]
       PROVE  Sound(objects', e, {None})
    <2>1. objects' = DropRef(o, base)
        BY <1>2, <1>3, <1>12, ReleasedIs
    <2>2. Sound(DropRef(o, base), e, {None})
        BY <1>5, <1>12, DropKeeps
    <2> QED
        BY <2>1, <2>2
<1>13. ASSUME NEW o, o = AppendVersion(objects, v),
              used_deleted' = (used_deleted \/ ~(compacting.inputs \subseteq DOMAIN o)),
              objects' = Released(o), impl' = [impl EXCEPT !.current = v]
       PROVE  RefInv'
    <2>1. PICK e1 : e1 = [d \in Cells |-> IF d = v THEN 1 ELSE IF d = impl.current THEN before[d] - 1 ELSE before[d]]
        OBVIOUS
    <2>2. Sound(o, e1, {None, v} \ {v}) /\ Keeps(objects, o, {impl.current})
        BY <1>9, <1>13, <2>1, AppendVersionHolds
    <2>3. Sound(o, e1, {None})
        BY <2>2, SoundMore
    <2>4. \A c \in Cells :
             /\ Cardinality(ReadersOf(readers, c)) \in Nat
             /\ before[c] = Cardinality(ReadersOf(readers, c))
                     + (IF c \in {impl.mem, impl.imm, impl.current} THEN 1 ELSE 0)
                     + (IF None = c THEN 1 ELSE 0) + (IF base = c THEN 1 ELSE 0)
        BY <1>3, <1>5, <1>8, OutsideParts
    <2>5. e1[base] > 0
        BY <1>5, <1>7, <2>1, <2>4
    <2>6. PICK e : e = [d \in Cells |-> IF d = base THEN e1[d] - 1 ELSE e1[d]]
        OBVIOUS
    <2>7. Sound(objects', e, {None})
        BY <1>5, <1>12, <1>13, <2>3, <2>5, <2>6
    <2>8. ~used_deleted'
        <3>1. base \in DOMAIN o /\ o[base].files \subseteq DOMAIN o
            BY <1>5, <2>3, <2>5 DEF Sound, CountsAre, FilesAreThere
        <3>2. o[base].files = objects[base].files
            BY <2>2, <3>1 DEF Keeps
        <3> QED
            BY <1>5, <1>13, <3>1, <3>2 DEF RefInv
    <2>9. impl'.mem = impl.mem /\ impl'.imm = impl.imm /\ impl'.current = v
        BY <1>2, <1>13 DEF ImplIsRight
    <2>10. impl.mem # v /\ impl.imm # v /\ impl.mem # impl.current /\ impl.imm # impl.current
        <3>1. impl.mem # impl.current /\ impl.imm # impl.current
            BY <1>2, <1>5, CellsAreApart DEF ImplIsRight, MemPointer, VersionPointer
        <3>2. impl.mem # v /\ impl.imm # v
            BY <1>2, <1>6, <1>7, CellsAreApart DEF ImplIsRight, MemPointer
        <3> QED
            BY <3>1, <3>2
    <2>11. \A c \in Cells : Outside'[c] = e[c]
        <3> TAKE c \in Cells
        <3>1. Outside'[c] = Cardinality(ReadersOf(readers, c))
                     + (IF c \in {impl.mem, impl.imm, v} THEN 1 ELSE 0)
                     + (IF None = c THEN 1 ELSE 0) + (IF None = c THEN 1 ELSE 0)
            BY <1>1, <1>5, <1>10, <2>9, OutsideParts
        <3>2. c # None
            BY CellsAreApart
        <3>3. e[c] = IF c = base THEN e1[c] - 1 ELSE e1[c]
            BY <2>6
        <3>4. e1[c] = IF c = v THEN 1 ELSE IF c = impl.current THEN before[c] - 1 ELSE before[c]
            BY <2>1
        <3>5. CASE c = v
            BY <1>7, <1>9, <2>4, <2>10, <3>1, <3>2, <3>3, <3>4, <3>5
        <3>6. CASE c # v
            BY <2>4, <2>10, <3>1, <3>2, <3>3, <3>4, <3>6
        <3> QED
            BY <3>5, <3>6
    <2>12. Outside' = e
        BY <2>6, <2>11, OutsideBecomes
    <2>13. Sound(objects, Outside, Unlisted)'
        BY <1>10, <2>7, <2>12
    <2>14. ImplIsRight'
        BY <1>2, <1>4, <1>5, <1>6, <1>13, <2>9 DEF ImplIsRight
    <2> QED
        BY <1>1, <1>2, <1>11, <2>8, <2>13, <2>14 DEF RefInv, ReadersAreRight
<1>14. CASE /\ objects' = Released(Rejected(objects, v)) /\ impl' = [impl EXCEPT !.failed = TRUE]
            /\ UNCHANGED used_deleted
    <2>1. PICK o : o = Rejected(objects, v)
        OBVIOUS
    <2>2. PICK e1 : e1 = [before EXCEPT ![v] = 0]
        OBVIOUS
    <2>3. Sound(o, e1, {None, v} \ {v})
        <3>1. o = Delete(objects, v)
            BY <2>1 DEF Rejected
        <3>2. Sound(Delete(objects, v), [before EXCEPT ![v] = 0], {None, v} \ {v})
            BY <1>9, DeleteHolds
        <3> QED
            BY <2>2, <3>1, <3>2
    <2>4. Sound(o, e1, {None})
        BY <2>3, SoundMore
    <2>5. e1 = before
        BY <1>6, <1>8, <1>9, <2>2 DEF Outside
    <2>6. PICK e : e = [d \in Cells |-> IF d = base THEN e1[d] - 1 ELSE e1[d]]
        OBVIOUS
    <2>7. Sound(objects', e, {None})
        BY <1>5, <1>8, <1>12, <1>14, <2>1, <2>4, <2>5, <2>6
    <2>8. impl'.mem = impl.mem /\ impl'.imm = impl.imm /\ impl'.current = impl.current
        BY <1>2, <1>14 DEF ImplIsRight
    <2>9. \A c \in Cells : Outside'[c] = e[c]
        BY <1>1, <1>3, <1>8, <1>10, <2>5, <2>6, <2>8, OutsideParts, CellsAreApart
    <2>10. Outside' = e
        BY <2>6, <2>9, OutsideBecomes
    <2>11. Sound(objects, Outside, Unlisted)'
        BY <1>10, <2>7, <2>10
    <2>12. ImplIsRight'
        BY <1>2, <1>5, <1>14 DEF ImplIsRight
    <2> QED
        BY <1>1, <1>2, <1>11, <1>14, <2>11, <2>12 DEF RefInv, ReadersAreRight
<1> QED
    <2>1. PICK o : o = AppendVersion(objects, v)
        OBVIOUS
    <2> QED
        BY <1>3, <1>13, <1>14, <2>1 DEF EndCompaction

LEMMA DeleteDBHolds == ASSUME RefInv, DeleteDB PROVE RefInv'
<1>1. /\ impl.current # None /\ flushing.pc = "none" /\ compacting.pc = "none" /\ impl' = Gone
      /\ objects' = DropAll(objects, impl.mem, impl.imm, impl.current)
      /\ UNCHANGED <<readers, flushing, compacting, used_deleted>>
    BY DEF DeleteDB
<1>2. /\ ImplIsRight /\ ReadersAreRight /\ FlushIsRight /\ CompactionIsRight /\ NewIsNew
      /\ Sound(objects, Outside, Unlisted)
    BY DEF RefInv
<1>3. flushing.base = None /\ flushing.v = None /\ compacting.input_version = None /\ compacting.v = None
    BY <1>1, <1>2 DEF FlushIsRight, NotFlushing, CompactionIsRight, NotCompacting
<1>4. Unlisted = {None} /\ Unlisted' = {None}
    BY <1>1, <1>3 DEF Unlisted
<1>5. PICK newest, older, version, before :
         newest = impl.mem /\ older = impl.imm /\ version = impl.current /\ before = Outside
    OBVIOUS
<1>6. PICK e : e = [d \in Cells |-> IF d \in {newest, older, version} THEN before[d] - 1 ELSE before[d]]
    OBVIOUS
<1>7. Sound(objects', e, {None})
    <2>1. /\ Sound(objects, before, {None})
          /\ newest \in MemPointer /\ older \in MemPointer /\ version \in VersionPointer
          /\ (newest = older => newest = None)
        BY <1>1, <1>2, <1>4, <1>5 DEF ImplIsRight
    <2>2. \A c \in {newest, older, version} \ {None} : before[c] > 0 /\ c \notin {None}
        BY <1>5, PointersAreKnown
    <2>3. PICK new : new = {None}
        OBVIOUS
    <2>4. PICK o, p : o = objects /\ p = DropAll(o, newest, older, version)
        OBVIOUS
    <2>5. Sound(p, e, new) /\ Keeps(o, p, {newest, older, version})
        <3>1. Sound(o, before, new) /\ \A c \in {newest, older, version} \ {None} : before[c] > 0 /\ c \notin new
            BY <2>1, <2>2, <2>3, <2>4
        <3> QED
            BY <1>6, <2>1, <2>4, <3>1, DropAllHolds
    <2> QED
        BY <1>1, <1>5, <2>3, <2>4, <2>5
<1>8. impl'.mem = None /\ impl'.imm = None /\ impl'.current = None
    BY <1>1 DEF Gone
<1>9. \A c \in Cells : Outside'[c] = e[c]
    BY <1>1, <1>3, <1>5, <1>6, <1>8, OutsideParts, CellsAreApart
<1>10. Outside' = e
    BY <1>6, <1>9, OutsideBecomes
<1>11. Sound(objects, Outside, Unlisted)'
    BY <1>4, <1>7, <1>10
<1>12. ImplIsRight' /\ FlushIsRight' /\ CompactionIsRight' /\ NewIsNew'
    BY <1>1, <1>2, <1>4, <1>8
       DEF ImplIsRight, Gone, MemPointer, VersionPointer, FlushIsRight, CompactionIsRight, NewIsNew
<1> QED
    BY <1>1, <1>2, <1>11, <1>12 DEF RefInv, ReadersAreRight

LEMMA RefNextHolds == RefInv /\ [RefNext]_refVars => RefInv'
<1> SUFFICES ASSUME RefInv, [RefNext]_refVars PROVE RefInv'
    OBVIOUS
<1>1. ASSUME NEW r \in RefReaders, NEW call \in {"get", "iterator", "sizes"}, TakeReferences(r, call) PROVE RefInv'
    BY <1>1, TakeReferencesHolds
<1>2. ASSUME NEW r \in RefReaders, EndGet(r) \/ DeleteIterator(r) \/ EndSizes(r) PROVE RefInv'
    BY <1>2, EndGetHolds, ReadEndsHolds
<1>3. CASE SwitchMemTable
    BY <1>3, SwitchMemTableHolds
<1>4. CASE BeginFlush
    BY <1>4, BeginFlushHolds
<1>5. CASE LogFlush
    BY <1>5, LogFlushHolds
<1>6. CASE EndFlush
    BY <1>6, EndFlushHolds
<1>7. CASE PickInputs
    BY <1>7, PickInputsHolds
<1>8. CASE LogCompaction
    BY <1>8, LogCompactionHolds
<1>9. CASE EndCompaction
    BY <1>9, EndCompactionHolds
<1>10. CASE DeleteDB
    BY <1>10, DeleteDBHolds
<1>11. CASE UNCHANGED refVars
    <2>1. UNCHANGED <<objects, impl, readers, flushing, compacting, used_deleted>>
        BY <1>11 DEF refVars
    <2> QED
        BY <2>1 DEF RefInv, ImplIsRight, ReadersAreRight, FlushIsRight, CompactionIsRight, NewIsNew, Outside, Unlisted
<1> QED
    BY <1>1, <1>2, <1>3, <1>4, <1>5, <1>6, <1>7, <1>8, <1>9, <1>10, <1>11 DEF RefNext

\* Nobody reads a database that is gone.
NobodyReadsWhatIsGone == impl.current = None => \A r \in RefReaders : readers[r] = NoCall

LEMMA GoneStaysUnread == RefInv /\ NobodyReadsWhatIsGone /\ [RefNext]_refVars => NobodyReadsWhatIsGone'
<1> SUFFICES ASSUME RefInv, NobodyReadsWhatIsGone, [RefNext]_refVars PROVE NobodyReadsWhatIsGone'
    OBVIOUS
<1>1. /\ readers \in [RefReaders -> [call : {"none", "get", "iterator", "sizes"}, mem : MemPointer, imm : MemPointer,
                                    version : VersionPointer]]
      /\ impl \in [mem : MemPointer, imm : MemPointer, current : VersionPointer, failed : BOOLEAN]
    BY DEF RefInv, ReadersAreRight, ImplIsRight
<1>2. ASSUME NEW r \in RefReaders, NEW call, TakeReferences(r, call) PROVE NobodyReadsWhatIsGone'
    BY <1>2 DEF TakeReferences, NobodyReadsWhatIsGone
<1>3. ASSUME NEW r \in RefReaders, NEW o, DropReferences(r, o) PROVE NobodyReadsWhatIsGone'
    BY <1>1, <1>3 DEF DropReferences, NobodyReadsWhatIsGone
<1>4. ASSUME NEW r \in RefReaders, EndGet(r) \/ DeleteIterator(r) \/ EndSizes(r) PROVE NobodyReadsWhatIsGone'
    BY <1>3, <1>4 DEF EndGet, DeleteIterator, EndSizes
<1>5. ASSUME readers' = readers, impl'.current = None => impl.current = None \/ \A r \in RefReaders : readers[r] = NoCall
      PROVE  NobodyReadsWhatIsGone'
    BY <1>5 DEF NobodyReadsWhatIsGone
<1>6. CASE SwitchMemTable
    BY <1>1, <1>5, <1>6 DEF SwitchMemTable
<1>7. CASE BeginFlush \/ PickInputs
    BY <1>5, <1>7 DEF BeginFlush, PickInputs
<1>8. CASE LogFlush
    BY <1>1, <1>5, <1>8 DEF LogFlush
<1>9. CASE EndFlush
    <2>1. flushing.v # None
        BY <1>9 DEF EndFlush, RefInv, FlushIsRight
    <2> QED
        BY <1>1, <1>5, <1>9, <2>1 DEF EndFlush
<1>10. CASE LogCompaction
    BY <1>1, <1>5, <1>10 DEF LogCompaction
<1>11. CASE EndCompaction
    <2>1. compacting.v # None
        BY <1>11 DEF EndCompaction, RefInv, CompactionIsRight
    <2> QED
        BY <1>1, <1>5, <1>11, <2>1 DEF EndCompaction
<1>12. CASE DeleteDB
    BY <1>5, <1>12 DEF DeleteDB
<1>13. CASE UNCHANGED refVars
    BY <1>5, <1>13 DEF refVars
<1> QED
    BY <1>2, <1>4, <1>6, <1>7, <1>8, <1>9, <1>10, <1>11, <1>12, <1>13 DEF RefNext

\* With nobody outside, no version is held, and so no file either.
LEMMA NothingIsLeft ==
    ASSUME RefInv, NobodyReadsWhatIsGone, impl = Gone
    PROVE  DOMAIN objects = {}
<1>1. ImplIsRight /\ FlushIsRight /\ CompactionIsRight /\ Sound(objects, Outside, Unlisted)
    BY DEF RefInv
<1>2. impl.mem = None /\ impl.imm = None /\ impl.current = None
    BY DEF Gone
<1>3. flushing.base = None /\ flushing.v = None /\ compacting.input_version = None /\ compacting.v = None
    BY <1>1, <1>2 DEF FlushIsRight, NotFlushing, CompactionIsRight, NotCompacting
<1>4. \A c \in Cells : Outside[c] = 0
    <2> TAKE c \in Cells
    <2>1. c # None
        BY CellsAreApart
    <2>2. ReadersOf(readers, c) = {}
        BY <1>2, <2>1 DEF ReadersOf, NobodyReadsWhatIsGone, NoCall
    <2>3. Cardinality(ReadersOf(readers, c)) = 0
        BY <2>2, FS_EmptySet
    <2> QED
        BY <1>2, <1>3, <2>1, <2>3 DEF Outside
<1>5. \A c \in DOMAIN objects :
         c \in Cells /\ objects[c].refs > 0 /\ objects[c].refs = Cardinality(HoldersOf(objects, c))
    <2> TAKE c \in DOMAIN objects
    <2>1. c \in Cells /\ c # None
        BY <1>1, CellsAreApart DEF Sound, ObjectsType
    <2>2. Cardinality(HoldersOf(objects, c)) \in Nat
        BY <1>1, HoldersFinite DEF Sound
    <2>3. c \notin Unlisted
        BY <1>3, <2>1 DEF Unlisted
    <2> QED
        BY <1>1, <1>4, <2>1, <2>2, <2>3 DEF Sound, CountsAre, AllCounted
<1>6. \A c \in DOMAIN objects : HoldersOf(objects, c) # {}
    <2> SUFFICES ASSUME NEW c \in DOMAIN objects, HoldersOf(objects, c) = {} PROVE FALSE
        OBVIOUS
    <2>1. Cardinality(HoldersOf(objects, c)) = 0
        BY FS_EmptySet
    <2> QED
        BY <1>5, <2>1
<1>7. \A c \in DOMAIN objects : c[1] = "meta"
    BY <1>1, <1>6 DEF HoldersOf, Sound, FilesAreThere
<1>8. \A v \in DOMAIN objects : objects[v].files = {}
    BY <1>1, <1>7 DEF Sound, FilesAreThere
<1> QED
    BY <1>6, <1>8 DEF HoldersOf

LEMMA InvariantIsEnough ==
    ASSUME RefInv, NobodyReadsWhatIsGone
    PROVE  ReferencesHold
<1>1. /\ ImplIsRight /\ ReadersAreRight /\ FlushIsRight /\ CompactionIsRight /\ NewIsNew
      /\ Sound(objects, Outside, Unlisted) /\ ~used_deleted
    BY DEF RefInv
<1>2. \A c \in DOMAIN objects : objects[c].refs = Pointers(c) /\ (c \notin Unlisted => objects[c].refs > 0)
    <2> TAKE c \in DOMAIN objects
    <2>1. c \in Cells /\ objects[c].refs = Outside[c] + Cardinality(HoldersOf(objects, c))
        BY <1>1 DEF Sound, ObjectsType, CountsAre
    <2>2. c \notin Unlisted => objects[c].refs > 0
        BY <1>1 DEF Sound, AllCounted
    <2>3. ReadersOf(readers, c) = {r \in RefReaders : c \in Pins(r)}
        BY DEF ReadersOf, Pins
    <2>4. Outside[c] + Cardinality(HoldersOf(objects, c)) = Pointers(c)
        BY <2>1, <2>3 DEF Outside, Pointers, HoldersOf
    <2> QED
        BY <2>1, <2>2, <2>4
<1>3. \A r \in RefReaders : Pins(r) \ {None} \subseteq DOMAIN objects
    BY ReadersUseWhatIsThere
<1>4. \A v \in DOMAIN objects : objects[v].files \cup ({objects[v].seek} \ {NoSeek}) \subseteq DOMAIN objects
    BY <1>1 DEF Sound, FilesAreThere
<1>5. compacting.inputs \subseteq DOMAIN objects
    <2>1. CASE compacting.pc = "none"
        BY <1>1, <2>1 DEF CompactionIsRight, NotCompacting
    <2>2. CASE compacting.pc # "none"
        <3>1. /\ compacting.input_version # None
              /\ compacting.inputs \subseteq objects[compacting.input_version].files
            BY <1>1, <2>2 DEF CompactionIsRight
        <3>2. compacting.input_version \in DOMAIN objects
            BY <3>1, PointersAreKnown
        <3> QED
            BY <1>1, <3>1, <3>2 DEF Sound, FilesAreThere
    <2> QED
        BY <2>1, <2>2
<1>6. (Unlisted \cup {flushing.base, compacting.input_version}) \ {None} \subseteq DOMAIN objects
    BY <1>1, PointersAreKnown DEF NewIsNew
<1>7. impl = Gone => DOMAIN objects = {}
    BY NothingIsLeft
<1> QED
    BY <1>1, <1>2, <1>3, <1>4, <1>5, <1>6, <1>7 DEF ReferencesHold

\* Every memtable, version and FileMetaData counts those who have a pointer to it, is
\* there as long as one does and no longer, and is never used after its deletion, however
\* many threads read while memtables are switched and versions installed (MemTable::Unref,
\* Version::Unref, ~Version, Builder, Compaction::ReleaseInputs).
THEOREM CountsAreTrue == RefSpec => []ReferencesHold
<1>1. RefInit => RefInv /\ NobodyReadsWhatIsGone
    BY RefInitHolds DEF RefInit, NobodyReadsWhatIsGone
<1>2. RefInv /\ NobodyReadsWhatIsGone /\ [RefNext]_refVars => (RefInv /\ NobodyReadsWhatIsGone)'
    BY RefNextHolds, GoneStaysUnread
<1>3. RefInv /\ NobodyReadsWhatIsGone => ReferencesHold
    BY InvariantIsEnough
<1> QED
    BY <1>1, <1>2, <1>3, PTL DEF RefSpec
===============================================================================
