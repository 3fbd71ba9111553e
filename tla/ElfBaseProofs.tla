--------------------------- MODULE ElfBaseProofs ---------------------------
(***************************************************************************)
(* Proofs about parse_base_address: the invariants of ElfBase, for every   *)
(* set of files and for classes of any size. The arithmetic is apart: the  *)
(* displacement wraps twice, when the fields are subtracted and when the   *)
(* evaluator adds the offset, and the two undo each other.                 *)
(***************************************************************************)
EXTENDS ElfBase, SequenceTheorems, TLAPS

Signed == - Half[64] .. Half[64] - 1
Headers == [alloc : BOOLEAN, exec : BOOLEAN, addr : Nat, offset : Nat]

-----------------------------------------------------------------------------
(* The arithmetic of the classes, over plain numbers.                      *)

(* A number that is less than a positive modulus is its own remainder.     *)
LEMMA RemainderOfSmall ==
    ASSUME NEW m \in Nat \ {0}, NEW x \in Int, 0 <= x, x < m
    PROVE  x % m = x
BY SMT

(* A negative number that is not below - m wraps once.                     *)
LEMMA RemainderOfNegative ==
    ASSUME NEW m \in Nat \ {0}, NEW x \in Int, - m <= x, x < 0
    PROVE  x % m = x + m
BY SMT

(* A number that is short of twice the modulus wraps once.                 *)
LEMMA RemainderOfLarge ==
    ASSUME NEW m \in Nat \ {0}, NEW x \in Int, m <= x, x < 2 * m
    PROVE  x % m = x - m
BY SMT

(* A remainder is not negative, and less than the modulus.                 *)
LEMMA RemainderRange ==
    ASSUME NEW m \in Nat \ {0}, NEW x \in Int
    PROVE  x % m \in Int /\ 0 <= x % m /\ x % m < m
BY SMT

(* The difference of two unsigned fields, read as a signed number of the   *)
(* same size, still leads from the one to the other.                       *)
LEMMA WrapsUndo ==
    ASSUME NEW h \in Nat \ {0}, NEW a \in Nat, NEW o \in Nat,
           a < 2 * h, o < 2 * h
    PROVE  LET d == (a - o) % (2 * h) IN
           ((IF d < h THEN d ELSE d - 2 * h) + o) % (2 * h) = a
<1> DEFINE d == (a - o) % (2 * h)
           e == IF d < h THEN d ELSE d - 2 * h
<1>1. 2 * h \in Nat \ {0} /\ a - o \in Int
  OBVIOUS
<1>2. CASE a >= o
  <2>1. d = a - o
    <3>1. 0 <= a - o /\ a - o < 2 * h
      BY <1>2
    <3>2. (a - o) % (2 * h) = a - o
      BY <1>1, <3>1, RemainderOfSmall
    <3> QED
      BY <3>2
  <2>2. CASE d < h
    <3>1. e + o = a
      BY <2>1, <2>2
    <3>2. a % (2 * h) = a
      BY <1>1, RemainderOfSmall
    <3> QED
      BY <3>1, <3>2
  <2>3. CASE ~ (d < h)
    <3>1. e + o = a - 2 * h
      BY <2>1, <2>3
    <3>2. (a - 2 * h) % (2 * h) = (a - 2 * h) + 2 * h
      BY <1>1, RemainderOfNegative
    <3> QED
      BY <3>1, <3>2
  <2> QED
    BY <2>2, <2>3
<1>3. CASE a < o
  <2>1. d = (a - o) + 2 * h
    <3>1. - (2 * h) <= a - o /\ a - o < 0
      BY <1>3
    <3>2. (a - o) % (2 * h) = (a - o) + 2 * h
      BY <1>1, <3>1, RemainderOfNegative
    <3> QED
      BY <3>2
  <2>2. CASE d < h
    <3>1. e + o = a + 2 * h
      BY <2>1, <2>2
    <3>2. (a + 2 * h) % (2 * h) = (a + 2 * h) - 2 * h
      BY <1>1, RemainderOfLarge
    <3> QED
      BY <3>1, <3>2
  <2>3. CASE ~ (d < h)
    <3>1. e + o = a
      BY <2>1, <2>3
    <3>2. a % (2 * h) = a
      BY <1>1, RemainderOfSmall
    <3> QED
      BY <3>1, <3>2
  <2> QED
    BY <2>2, <2>3
<1> QED
  BY <1>2, <1>3

-----------------------------------------------------------------------------
(* The sections of a file are a sequence.                                  *)
LEMMA FileSections ==
    ASSUME NEW f \in Files
    PROVE  /\ f.sections \in Seq(Headers) /\ Len(f.sections) \in Nat
           /\ DOMAIN f.sections = 1 .. Len(f.sections)
           /\ \A k \in DOMAIN f.sections : f.sections[k] \in Headers
<1>1. f.sections \in Seq(Headers)
  BY ElfBaseAssumption DEF Headers
<1> QED
  BY <1>1, LenProperties, ElementOfSeq

(* What the assumption says of one section of a file.                      *)
LEMMA SectionFields ==
    ASSUME NEW f \in Files, NEW k \in DOMAIN f.sections
    PROVE  /\ Half[64] \in Nat \ {0} /\ Half[f.class] \in Nat \ {0}
           /\ f.class \in {32, 64}
           /\ f.sections[k].addr \in Nat /\ f.sections[k].offset \in Nat
           /\ f.sections[k].addr < 2 * Half[f.class]
           /\ f.sections[k].offset < 2 * Half[f.class]
<1>1. f.sections[k] \in Headers
  BY FileSections
<1> QED
  BY <1>1, ElfBaseAssumption DEF Headers

(* The displacement of a section fits in an int64_t.                       *)
LEMMA DisplacementFits ==
    ASSUME NEW f \in Files, NEW k \in DOMAIN f.sections
    PROVE  Displacement(f, f.sections[k]) \in Signed
<1> DEFINE s == f.sections[k]
           d == Unsigned(f.class, s.addr - s.offset)
<1>1. /\ 2 * Half[f.class] \in Nat \ {0} /\ Half[64] \in Nat \ {0}
      /\ s.addr - s.offset \in Int
  BY SectionFields
<1>2. d \in Int /\ 0 <= d /\ d < 2 * Half[f.class]
  BY <1>1, RemainderRange DEF Unsigned
<1>3. Half[f.class] <= Half[64]
  BY SectionFields, ElfBaseAssumption
<1>4. d < 2 * Half[64]
  BY <1>1, <1>2, <1>3, SectionFields
<1> HIDE DEF d
<1>5. (IF d < Half[64] THEN d ELSE d - 2 * Half[64]) \in Signed
  BY <1>1, <1>2, <1>4 DEF Signed
<1> QED
  BY <1>5 DEF Displacement, d

(* The displacement of a section locates its address from its offset; in a *)
(* 32-bit file, if the section is not further into the file than its       *)
(* address.                                                                *)
LEMMA DisplacementLocates ==
    ASSUME NEW f \in Files, NEW k \in DOMAIN f.sections,
           f.class = 32 => f.sections[k].addr >= f.sections[k].offset
    PROVE  AddressOf(Displacement(f, f.sections[k]), f.sections[k].offset)
               = f.sections[k].addr
<1> DEFINE s == f.sections[k]
           a == s.addr
           o == s.offset
           h == Half[64]
           d == Unsigned(f.class, a - o)
           e == Displacement(f, s)
<1>1. /\ h \in Nat \ {0} /\ a \in Nat /\ o \in Nat /\ f.class \in {32, 64}
      /\ Half[f.class] \in Nat \ {0}
      /\ a < 2 * Half[f.class] /\ o < 2 * Half[f.class]
  BY SectionFields
<1>2. e = IF d < h THEN d ELSE d - 2 * h
  BY DEF Displacement
<1>3. CASE f.class = 64
  <2>1. d = (a - o) % (2 * h) /\ a < 2 * h /\ o < 2 * h
    BY <1>1, <1>3 DEF Unsigned
  <2>2. (e + o) % (2 * h) = a
    <3> HIDE DEF a, o, h, d, e
    <3> QED
      <4>1. LET x == (a - o) % (2 * h) IN
            ((IF x < h THEN x ELSE x - 2 * h) + o) % (2 * h) = a
        BY <1>1, <2>1, WrapsUndo
      <4> QED
        BY <1>2, <2>1, <4>1
  <2> QED
    BY <2>2 DEF AddressOf, Unsigned
<1>4. CASE f.class = 32
  <2>1. a >= o /\ 2 * Half[32] <= h /\ Half[32] \in Nat \ {0} /\ a < 2 * Half[32]
    BY <1>1, <1>4, ElfBaseAssumption
  <2>2. d = (a - o) % (2 * Half[32])
    BY <1>4 DEF Unsigned
  <2>3. e + o = a
    <3> HIDE DEF a, o, h, d, e
    <3>1. a - o \in Int /\ 0 <= a - o /\ a - o < 2 * Half[32]
      BY <1>1, <2>1
    <3>2. 2 * Half[32] \in Nat \ {0}
      BY <2>1
    <3>3. (a - o) % (2 * Half[32]) = a - o
      BY <3>1, <3>2, RemainderOfSmall
    <3>4. d = a - o
      BY <2>2, <3>3
    <3>5. d < h
      BY <1>1, <2>1, <3>1, <3>4
    <3> QED
      BY <1>1, <1>2, <3>4, <3>5
  <2>4. a % (2 * h) = a
    <3> HIDE DEF a, h
    <3>1. a \in Int /\ 0 <= a /\ a < 2 * h
      BY <1>1, <2>1
    <3>2. 2 * h \in Nat \ {0}
      BY <1>1
    <3> QED
      BY <3>1, <3>2, RemainderOfSmall
  <2> QED
    BY <2>3, <2>4 DEF AddressOf, Unsigned
<1> QED
  BY <1>1, <1>3, <1>4

-----------------------------------------------------------------------------
(* The strengthened invariant: what is known of the reads and of the walk. *)

(* The table is what the file says, as far as it was read.                 *)
PrefixRead ==
    /\ sh_tbl \in Seq(Headers)
    /\ Len(sh_tbl) <= Len(file.sections)
    /\ \A k \in DOMAIN sh_tbl : sh_tbl[k] = file.sections[k]

(* The second read is made for 64-bit files only. After it, nothing is in  *)
(* the table that the file does not hold.                                  *)
OnlyHeld ==
    /\ pc \in {"open", "header", "header64"} => Len(sh_tbl) = 0
    /\ pc = "header64" => file.class = 64
    /\ pc \in {"sections", "walk", "returned"} =>
          /\ HeaderOf(file) <= file.readable
          /\ Len(sh_tbl) <= SectionsReadable(file)

(* The walk has the whole table, and has met no code before its place.     *)
NoCodeBefore ==
    pc \in {"walk", "returned"} =>
        /\ Len(sh_tbl) = Len(file.sections) /\ i \in Nat \ {0}
        /\ \A k \in DOMAIN sh_tbl : k < i => ~ IsCode(sh_tbl[k])

(* The base is that of the section at which the walk stopped, or 0.        *)
BaseIsFirstCode ==
    IF pc = "returned" /\ i \in DOMAIN sh_tbl
    THEN IsCode(sh_tbl[i]) /\ base_address = Displacement(file, sh_tbl[i])
    ELSE base_address = 0

ElfInv == TypeOK /\ PrefixRead /\ OnlyHeld /\ NoCodeBefore /\ BaseIsFirstCode

(* At first nothing has been read.                                         *)
LEMMA InitElf == Init => ElfInv
<1> SUFFICES ASSUME Init PROVE ElfInv
  OBVIOUS
<1>1. Len(file.sections) \in Nat /\ Half[64] \in Nat \ {0} /\ file \in Files
  BY FileSections, ElfBaseAssumption DEF Init
<1>2. sh_tbl \in Seq(Headers) /\ Len(sh_tbl) = 0 /\ DOMAIN sh_tbl = {}
  BY DEF Init
<1>3. TypeOK
  BY <1>1, <1>2 DEF Init, TypeOK
<1>4. PrefixRead
  BY <1>1, <1>2 DEF PrefixRead
<1> QED
  BY <1>2, <1>3, <1>4 DEF Init, ElfInv, OnlyHeld, NoCodeBefore, BaseIsFirstCode

(* What the invariant says of the lengths, for arithmetic.                 *)
LEMMA TableShape ==
    ASSUME ElfInv
    PROVE  /\ file \in Files /\ file.class \in {32, 64} /\ file.readable \in Int
           /\ Len(file.sections) \in Nat
           /\ DOMAIN file.sections = 1 .. Len(file.sections)
           /\ Len(sh_tbl) \in Nat /\ DOMAIN sh_tbl = 1 .. Len(sh_tbl)
           /\ Len(sh_tbl) <= Len(file.sections)
           /\ HeaderOf(file) \in Nat /\ SectionsReadable(file) \in Int
           /\ Half[64] \in Nat \ {0}
<1>1. file \in Files /\ file.class \in {32, 64} /\ file.readable \in Int
  BY ElfBaseAssumption DEF ElfInv, TypeOK
<1>2. HeaderOf(file) \in Nat
  BY <1>1 DEF HeaderOf, Header32, Header64
<1> QED
  BY <1>1, <1>2, FileSections, LenProperties, ElfBaseAssumption
     DEF ElfInv, PrefixRead, SectionsReadable

(* The header is read, in one read or in two, and the walk has not begun.  *)
LEMMA HeaderSteps ==
    ASSUME ElfInv, Open \/ ReadHeader \/ ReadHeader64 \/ Abort
    PROVE  ElfInv'
<1>1. UNCHANGED <<file, sh_tbl, i, base_address>>
  BY DEF Open, ReadHeader, ReadHeader64, Abort
<1>2. pc \in {"open", "header", "header64", "sections"}
  BY DEF Open, ReadHeader, ReadHeader64, Abort
<1>3. pc' \in {"header", "header64", "sections", "aborted"}
  BY DEF Open, ReadHeader, ReadHeader64, Abort
<1>4. TypeOK'
  BY <1>1, <1>3 DEF ElfInv, TypeOK
<1>5. PrefixRead'
  BY <1>1 DEF ElfInv, PrefixRead
<1>6. OnlyHeld'
  <2>1. CASE pc' = "aborted"
    BY <2>1 DEF OnlyHeld
  <2>2. CASE pc' = "header"
    BY <1>1, <2>2 DEF Open, ReadHeader, ReadHeader64, Abort, OnlyHeld, ElfInv
  <2>3. CASE pc' = "header64"
    BY <1>1, <2>3 DEF Open, ReadHeader, ReadHeader64, Abort, OnlyHeld, ElfInv
  <2>4. CASE pc' = "sections"
    <3>1. ReadHeader \/ ReadHeader64
      BY <2>4 DEF Open, Abort
    <3>2. Len(sh_tbl) = 0
      BY <3>1 DEF ReadHeader, ReadHeader64, OnlyHeld, ElfInv
    <3>3. HeaderOf(file) <= file.readable
      BY <2>4, <3>1 DEF ReadHeader, ReadHeader64, OnlyHeld, ElfInv, HeaderOf
    <3>4. Len(sh_tbl) <= SectionsReadable(file)
      BY <3>2, <3>3, TableShape DEF SectionsReadable
    <3> QED
      BY <1>1, <2>4, <3>3, <3>4 DEF OnlyHeld
  <2> QED
    BY <1>3, <2>1, <2>2, <2>3, <2>4
<1>7. NoCodeBefore' /\ BaseIsFirstCode'
  BY <1>1, <1>2, <1>3 DEF ElfInv, NoCodeBefore, BaseIsFirstCode
<1> QED
  BY <1>4, <1>5, <1>6, <1>7 DEF ElfInv

(* A section header that is read whole is the file's next one.             *)
LEMMA ReadSectionStep ==
    ASSUME ElfInv, ReadSection
    PROVE  ElfInv'
<1> DEFINE next == file.sections[Len(sh_tbl) + 1]
<1>1. /\ pc = "sections" /\ pc' = "sections" /\ UNCHANGED <<file, i, base_address>>
      /\ sh_tbl' = Append(sh_tbl, next)
      /\ Len(sh_tbl) < Len(file.sections) /\ Len(sh_tbl) < SectionsReadable(file)
  BY DEF ReadSection
<1>2. sh_tbl \in Seq(Headers) /\ next \in Headers
  BY <1>1, TableShape, FileSections DEF ElfInv, PrefixRead
<1>3. /\ sh_tbl' \in Seq(Headers) /\ Len(sh_tbl') = Len(sh_tbl) + 1
      /\ \A k \in 1 .. Len(sh_tbl) : sh_tbl'[k] = sh_tbl[k]
      /\ sh_tbl'[Len(sh_tbl) + 1] = next
  <2> HIDE DEF next
  <2> QED
    BY <1>1, <1>2, AppendProperties
<1>4. TypeOK'
  BY <1>1, <1>3, TableShape DEF ElfInv, TypeOK
<1>5. PrefixRead'
  <2>1. \A k \in 1 .. Len(sh_tbl) + 1 : sh_tbl'[k] = file.sections[k]
    BY <1>3, TableShape DEF ElfInv, PrefixRead
  <2>2. DOMAIN sh_tbl' = 1 .. Len(sh_tbl) + 1
    BY <1>3, LenProperties
  <2> QED
    BY <1>1, <1>3, <2>1, <2>2, TableShape DEF PrefixRead
<1>6. OnlyHeld'
  BY <1>1, <1>3, TableShape DEF ElfInv, OnlyHeld, HeaderOf, SectionsReadable
<1>7. NoCodeBefore' /\ BaseIsFirstCode'
  BY <1>1 DEF ElfInv, NoCodeBefore, BaseIsFirstCode
<1> QED
  BY <1>4, <1>5, <1>6, <1>7 DEF ElfInv

(* The walk begins with the whole table.                                   *)
LEMMA AllReadStep ==
    ASSUME ElfInv, AllRead
    PROVE  ElfInv'
<1>1. /\ pc = "sections" /\ pc' = "walk" /\ i' = 1
      /\ UNCHANGED <<file, sh_tbl, base_address>>
      /\ Len(sh_tbl) = Len(file.sections)
  BY DEF AllRead
<1>2. TypeOK' /\ PrefixRead' /\ OnlyHeld'
  BY <1>1, TableShape DEF ElfInv, TypeOK, PrefixRead, OnlyHeld
<1>3. NoCodeBefore' /\ BaseIsFirstCode'
  BY <1>1, TableShape DEF ElfInv, NoCodeBefore, BaseIsFirstCode
<1> QED
  BY <1>2, <1>3 DEF ElfInv

(* The walk passes a section that is not code.                             *)
LEMMA SkipStep ==
    ASSUME ElfInv, Skip
    PROVE  ElfInv'
<1>1. /\ pc = "walk" /\ i <= Len(sh_tbl) /\ ~ IsCode(sh_tbl[i]) /\ i' = i + 1
      /\ UNCHANGED <<pc, file, sh_tbl, base_address>>
  BY DEF Skip
<1>2. i \in Nat \ {0} /\ Len(sh_tbl) = Len(file.sections)
  BY <1>1 DEF ElfInv, NoCodeBefore
<1>3. TypeOK' /\ PrefixRead' /\ OnlyHeld'
  BY <1>1, <1>2, TableShape DEF ElfInv, TypeOK, PrefixRead, OnlyHeld
<1>4. \A k \in DOMAIN sh_tbl : k < i + 1 => ~ IsCode(sh_tbl[k])
  <2> SUFFICES ASSUME NEW k \in DOMAIN sh_tbl, k < i + 1
               PROVE  ~ IsCode(sh_tbl[k])
    OBVIOUS
  <2>1. k < i \/ k = i
    BY <1>2, TableShape
  <2> QED
    BY <1>1, <2>1 DEF ElfInv, NoCodeBefore
<1>5. NoCodeBefore' /\ BaseIsFirstCode'
  BY <1>1, <1>2, <1>4 DEF ElfInv, NoCodeBefore, BaseIsFirstCode
<1> QED
  BY <1>3, <1>5 DEF ElfInv

(* The walk ends at the first code, or behind the table.                   *)
LEMMA EndSteps ==
    ASSUME ElfInv, Take \/ NoneLeft
    PROVE  ElfInv'
<1>1. pc = "walk" /\ pc' = "returned" /\ UNCHANGED <<file, sh_tbl, i>>
  BY DEF Take, NoneLeft
<1>2. i \in Nat \ {0} /\ base_address = 0
  BY <1>1 DEF ElfInv, NoCodeBefore, BaseIsFirstCode
<1>3. PrefixRead' /\ OnlyHeld' /\ NoCodeBefore'
  BY <1>1 DEF ElfInv, PrefixRead, OnlyHeld, NoCodeBefore
<1>4. CASE Take
  <2>1. /\ i \in DOMAIN sh_tbl /\ i \in DOMAIN file.sections
        /\ IsCode(sh_tbl[i]) /\ base_address' = Displacement(file, sh_tbl[i])
    BY <1>2, <1>4, TableShape DEF Take
  <2>2. base_address' \in Signed
    BY <2>1, TableShape, DisplacementFits DEF ElfInv, PrefixRead
  <2> QED
    BY <1>1, <1>3, <2>1, <2>2 DEF ElfInv, TypeOK, Signed, BaseIsFirstCode
<1>5. CASE NoneLeft
  <2>1. i \notin DOMAIN sh_tbl /\ base_address' = base_address
    BY <1>2, <1>5, TableShape DEF NoneLeft
  <2> QED
    BY <1>1, <1>2, <1>3, <2>1 DEF ElfInv, TypeOK, BaseIsFirstCode
<1> QED
  BY <1>4, <1>5

LEMMA NextElf == ElfInv /\ [Next]_vars => ElfInv'
<1>1. CASE Next
  BY <1>1, HeaderSteps, ReadSectionStep, AllReadStep, SkipStep, EndSteps DEF Next
<1>2. CASE UNCHANGED vars
  BY <1>2 DEF vars, ElfInv, TypeOK, PrefixRead, OnlyHeld, NoCodeBefore, BaseIsFirstCode
<1> QED
  BY <1>1, <1>2

LEMMA ElfInvariant == Spec => []ElfInv
BY InitElf, NextElf, PTL DEF Spec

-----------------------------------------------------------------------------
(* Every number that parse_base_address keeps is in its range; the base    *)
(* fits in its int64_t.                                                    *)
THEOREM ElfTypeCorrect == Spec => []TypeOK
<1>1. ElfInv => TypeOK
  BY DEF ElfInv
<1> QED
  BY <1>1, ElfInvariant, PTL

(* A file that is cut short never gives a base: every section header was   *)
(* read whole when the function returns.                                   *)
THEOREM ShortFilesAbort == Spec => []ShortNeverReturns
<1>1. ElfInv => ShortNeverReturns
  BY DEF ElfInv, OnlyHeld, NoCodeBefore, ShortNeverReturns
<1> QED
  BY <1>1, ElfInvariant, PTL

(* The base that is returned turns the file offset of any code into its    *)
(* address, though the subtraction, the conversion to int64_t and the      *)
(* evaluator's addition wrap, and though the first executable section      *)
(* stands for all of them.                                                 *)
THEOREM BaseIsRight == Spec => []BaseLocatesCode
<1>1. ElfInv => BaseLocatesCode
  <2> SUFFICES ASSUME ElfInv, pc = "returned", OnePiece(file), Positive32(file)
               PROVE  /\ \A k \in Code(file) :
                            AddressOf(base_address, file.sections[k].offset)
                                = file.sections[k].addr
                      /\ Code(file) = {} => base_address = 0
    BY DEF BaseLocatesCode
  <2>1. /\ Len(sh_tbl) = Len(file.sections) /\ i \in Nat \ {0}
        /\ DOMAIN sh_tbl = DOMAIN file.sections
        /\ \A k \in DOMAIN file.sections : sh_tbl[k] = file.sections[k]
    BY TableShape DEF ElfInv, NoCodeBefore, PrefixRead
  <2>2. CASE i \in DOMAIN sh_tbl
    <3>1. i \in Code(file) /\ base_address = Displacement(file, file.sections[i])
      BY <2>1, <2>2 DEF ElfInv, BaseIsFirstCode, Code
    <3>2. ASSUME NEW k \in Code(file)
          PROVE  AddressOf(base_address, file.sections[k].offset) = file.sections[k].addr
      <4>1. k \in DOMAIN file.sections
        BY DEF Code
      <4>2. base_address = Displacement(file, file.sections[k])
        BY <3>1 DEF OnePiece
      <4>3. file.class = 32 => file.sections[k].addr >= file.sections[k].offset
        BY DEF Positive32
      <4> QED
        BY <4>1, <4>2, <4>3, TableShape, DisplacementLocates
    <3> QED
      BY <3>1, <3>2
  <2>3. CASE i \notin DOMAIN sh_tbl
    <3>1. base_address = 0
      BY <2>3 DEF ElfInv, BaseIsFirstCode
    <3>2. Code(file) = {}
      <4>1. \A k \in DOMAIN sh_tbl : k < i
        BY <2>1, <2>3, TableShape
      <4> QED
        BY <2>1, <4>1 DEF ElfInv, NoCodeBefore, Code
    <3> QED
      BY <3>1, <3>2
  <2> QED
    BY <2>2, <2>3
<1> QED
  BY <1>1, ElfInvariant, PTL
-----------------------------------------------------------------------------
(* How many steps the function can still make, at most: two reads of the   *)
(* ELF header, one for each section header, and the walk.                  *)
StepsLeft ==
    CASE pc = "open"     -> 2 * Len(file.sections) + 6
      [] pc = "header"   -> 2 * Len(file.sections) + 5
      [] pc = "header64" -> 2 * Len(file.sections) + 4
      [] pc = "sections" -> 2 * Len(file.sections) + 3 - Len(sh_tbl)
      [] pc = "walk"     -> Len(file.sections) + 2 - i
      [] OTHER           -> 0

LEMMA StepsLeftIsNat == ElfInv => StepsLeft \in Nat
<1> SUFFICES ASSUME ElfInv PROVE StepsLeft \in Nat
  OBVIOUS
<1>1. CASE pc = "walk"
  BY <1>1, TableShape DEF StepsLeft, ElfInv, TypeOK, NoCodeBefore
<1>2. CASE pc # "walk"
  BY <1>2, TableShape DEF StepsLeft, ElfInv, TypeOK
<1> QED
  BY <1>1, <1>2

LEMMA StepsShrink == ElfInv /\ [Next]_vars => [StepsLeft' < StepsLeft]_vars
<1> SUFFICES ASSUME ElfInv, Next PROVE StepsLeft' < StepsLeft
  OBVIOUS
<1> DEFINE N == Len(file.sections)
           L == Len(sh_tbl)
<1>1. N \in Nat /\ L \in Nat /\ L <= N /\ file' = file
  BY TableShape DEF Next, Open, ReadHeader, ReadHeader64, ReadSection, AllRead, Abort,
                    Skip, Take, NoneLeft
<1>2. i \in 0 .. N + 1
  BY DEF ElfInv, TypeOK
<1>3. CASE Open
  BY <1>1, <1>3 DEF Open, StepsLeft
<1>4. CASE ReadHeader
  BY <1>1, <1>4 DEF ReadHeader, StepsLeft
<1>5. CASE ReadHeader64
  BY <1>1, <1>5 DEF ReadHeader64, StepsLeft
<1>6. CASE ReadSection
  <2>1. Len(sh_tbl') = L + 1
    BY <1>6, TableShape, FileSections, AppendProperties DEF ReadSection, ElfInv, PrefixRead
  <2> QED
    BY <1>1, <1>6, <2>1 DEF ReadSection, StepsLeft
<1>7. CASE AllRead
  BY <1>1, <1>7 DEF AllRead, StepsLeft
<1>8. CASE Abort
  BY <1>1, <1>8 DEF Abort, StepsLeft
<1>9. CASE Skip
  BY <1>1, <1>2, <1>9 DEF Skip, StepsLeft
<1>10. CASE Take \/ NoneLeft
  BY <1>1, <1>2, <1>10 DEF Take, NoneLeft, StepsLeft
<1> QED
  BY <1>3, <1>4, <1>5, <1>6, <1>7, <1>8, <1>9, <1>10 DEF Next

(* The reads and the walk cannot go on for ever: each step leaves fewer,   *)
(* of a number that the file's table bounds.                               *)
THEOREM StepsRunOut == Spec => [](StepsLeft \in Nat) /\ [][StepsLeft' < StepsLeft]_vars
BY ElfInvariant, StepsLeftIsNat, StepsShrink, PTL DEF Spec
=============================================================================
