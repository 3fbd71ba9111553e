------------------------ MODULE CaptureFormatProofs ------------------------
(***************************************************************************)
(* What schema_io.cpp writes, schema_io.cpp reads: for any instructions,   *)
(* base address and digest.                                                *)
(***************************************************************************)
EXTENDS CaptureFormat, FiniteSetTheorems, TLAPS

(* What plugin_exit hands to the writers. *)
IsTable(t) ==
    /\ t = [o \in DOMAIN t |-> t[o]]
    /\ DOMAIN t \subseteq Int
    /\ \A o \in DOMAIN t : t[o] \in -128 .. 127

-----------------------------------------------------------------------------
(* Structs. *)

(* A struct with these indices for its words and its pointers. *)
IsStruct(s, words, ptrs) ==
    /\ s.kind = "struct"
    /\ s.data = [k \in words |-> s.data[k]]
    /\ s.ptrs = [k \in ptrs |-> s.ptrs[k]]

(* initRoot and the elements of initInstructions. *)
LEMMA FreshIsStruct ==
    /\ IsStruct(Fresh("AnalysisRst"), 0 .. -1, 0 .. 1)
    /\ IsStruct(Fresh("InstOffset"), 0 .. -1, 0 .. 0)
    /\ IsStruct(Fresh("CaptureResult"), 0 .. 0, 0 .. 1)
    /\ IsStruct(Fresh("Instruction"), 0 .. 1, 0 .. -1)
BY DEF Fresh, Layout, IsStruct, Struct

(* A pointer that was set is there, and what was there otherwise stays.    *)
LEMMA SetPointerSets ==
    ASSUME NEW D, NEW P, NEW s, IsStruct(s, D, P), NEW k \in P, NEW object
    PROVE  /\ IsStruct(SetPointer(s, k, object), D, P)
           /\ Pointer(SetPointer(s, k, object), k) = object
           /\ \A j : j # k => Pointer(SetPointer(s, k, object), j) = Pointer(s, j)
           /\ \A j : Word(SetPointer(s, k, object), j) = Word(s, j)
BY DEF IsStruct, SetPointer, Struct, Pointer, Word

(* The same for a word. *)
LEMMA SetWordSets ==
    ASSUME NEW D, NEW P, NEW s, IsStruct(s, D, P), NEW k \in D, NEW n
    PROVE  /\ IsStruct(SetWord(s, k, n), D, P)
           /\ Word(SetWord(s, k, n), k) = n
           /\ \A j : j # k => Word(SetWord(s, k, n), j) = Word(s, j)
           /\ \A j : Pointer(SetWord(s, k, n), j) = Pointer(s, j)
BY DEF IsStruct, SetWord, Struct, Pointer, Word

(* The accessors of an Instruction.                                        *)
LEMMA InstructionWords ==
    ASSUME NEW o, NEW n
    PROVE  /\ Word(Instruction(o, n), InsnOffset) = o
           /\ Word(Instruction(o, n), InsnLength) = n % 256
<1> DEFINE s == SetWord(Fresh("Instruction"), InsnOffset, o)
<1>1. InsnOffset \in 0 .. 1 /\ InsnLength \in 0 .. 1 /\ InsnOffset # InsnLength
  BY DEF InsnOffset, InsnLength
<1>2. IsStruct(s, 0 .. 1, 0 .. -1) /\ Word(s, InsnOffset) = o
  BY <1>1, FreshIsStruct, SetWordSets
<1> HIDE DEF s
<1>3. Instruction(o, n) = SetWord(s, InsnLength, n % 256)
  BY DEF Instruction, s
<1> QED
  BY <1>1, <1>2, <1>3, SetWordSets

(* A length survives the byte it is stored in.                             *)
LEMMA Int8Survives == \A n \in -128 .. 127 : ToInt8(n % 256) = n
BY DEF ToInt8

(* What write_version_1 saves. *)
LEMMA Written1 ==
    ASSUME NEW t, NEW base, NEW digest
    PROVE  LET f == write_version_1(t, base, digest) IN
           /\ Pointer(f.root, Digest.at) = Text(digest)
           /\ Pointer(f.root, Instructions.at) =
                  List("structs", {Instruction(o, t[o]) : o \in DOMAIN t})
           /\ Word(f.root, BaseAddress) = base
           /\ f.there = f.words
           /\ f.words = 1 + Words("CaptureResult") + TextWords(digest)
                          + 1 + Words("Instruction") * Cardinality(DOMAIN t)
<1> DEFINE list == List("structs", {Instruction(o, t[o]) : o \in DOMAIN t})
           r1 == SetPointer(Fresh("CaptureResult"), Digest.at, Text(digest))
           r2 == SetWord(r1, BaseAddress, base)
           r3 == SetPointer(r2, Instructions.at, list)
<1>1. /\ Digest.at \in 0 .. 1 /\ Instructions.at \in 0 .. 1
      /\ Digest.at # Instructions.at /\ BaseAddress \in 0 .. 0
  BY DEF Digest, Instructions, BaseAddress
<1>2. IsStruct(r1, 0 .. 0, 0 .. 1) /\ Pointer(r1, Digest.at) = Text(digest)
  BY <1>1, FreshIsStruct, SetPointerSets
<1> HIDE DEF r1
<1>3. /\ IsStruct(r2, 0 .. 0, 0 .. 1) /\ Pointer(r2, Digest.at) = Text(digest)
      /\ Word(r2, BaseAddress) = base
  BY <1>1, <1>2, SetWordSets
<1> HIDE DEF r2, list
<1>4. /\ Pointer(r3, Digest.at) = Text(digest)
      /\ Pointer(r3, Instructions.at) = list
      /\ Word(r3, BaseAddress) = base
  BY <1>1, <1>3, SetPointerSets
<1> HIDE DEF r3
<1>5. /\ write_version_1(t, base, digest).root = r3
      /\ write_version_1(t, base, digest).there = write_version_1(t, base, digest).words
      /\ write_version_1(t, base, digest).words =
             1 + Words("CaptureResult") + TextWords(digest)
               + 1 + Words("Instruction") * Cardinality(DOMAIN t)
  BY DEF write_version_1, Saved, r1, r2, r3, list
<1> QED
  BY <1>4, <1>5 DEF list

(* What write_version_0 saves. *)
LEMMA Written0 ==
    ASSUME NEW t, NEW base
    PROVE  LET f == write_version_0(t, base) IN
           /\ Pointer(f.root, InstOffsets.at).kind = "struct"
           /\ Pointer(Pointer(f.root, InstOffsets.at), Offset.at) =
                  List("words", {o + base : o \in DOMAIN t})
           /\ f.there = f.words
           /\ f.words = 1 + Words("AnalysisRst") + Words("InstOffset")
                          + Cardinality(DOMAIN t)
<1> DEFINE list == List("words", {o + base : o \in DOMAIN t})
           inner == SetPointer(Fresh("InstOffset"), Offset.at, list)
           root == SetPointer(Fresh("AnalysisRst"), InstOffsets.at, inner)
<1> HIDE DEF list
<1>1. Offset.at \in 0 .. 0 /\ InstOffsets.at \in 0 .. 1
  BY DEF Offset, InstOffsets
<1>2. IsStruct(inner, 0 .. -1, 0 .. 0) /\ Pointer(inner, Offset.at) = list
  BY <1>1, FreshIsStruct, SetPointerSets
<1> HIDE DEF inner
<1>3. Pointer(root, InstOffsets.at) = inner
  BY <1>1, FreshIsStruct, SetPointerSets
<1> HIDE DEF root
<1>4. /\ write_version_0(t, base).root = root
      /\ write_version_0(t, base).there = write_version_0(t, base).words
      /\ write_version_0(t, base).words =
             1 + Words("AnalysisRst") + Words("InstOffset") + Cardinality(DOMAIN t)
  BY DEF write_version_0, Saved, root, inner, list
<1> QED
  BY <1>2, <1>3, <1>4 DEF IsStruct, list

-----------------------------------------------------------------------------
(* The readers. *)

(* The instructions come back out of the list, each with its length.       *)
LEMMA ListComesBack ==
    ASSUME NEW t, IsTable(t)
    PROVE  LET insns == {Instruction(o, t[o]) : o \in DOMAIN t}
               InsnAt(o) == CHOOSE e \in insns : Word(e, InsnOffset) = o
           IN  [o \in {Word(e, InsnOffset) : e \in insns} |->
                   ToInt8(Word(InsnAt(o), InsnLength))] = t
<1> DEFINE insns == {Instruction(o, t[o]) : o \in DOMAIN t}
           InsnAt(o) == CHOOSE e \in insns : Word(e, InsnOffset) = o
<1>1. \A o \in DOMAIN t : /\ Instruction(o, t[o]) \in insns
                           /\ Word(Instruction(o, t[o]), InsnOffset) = o
                           /\ Word(Instruction(o, t[o]), InsnLength) = t[o] % 256
  BY InstructionWords
<1>2. \A e \in insns : \E o \in DOMAIN t : e = Instruction(o, t[o])
  OBVIOUS
<1> HIDE DEF insns
<1>3. {Word(e, InsnOffset) : e \in insns} = DOMAIN t
  BY <1>1, <1>2
<1>4. ASSUME NEW o \in DOMAIN t
      PROVE  ToInt8(Word(InsnAt(o), InsnLength)) = t[o]
  <2>1. InsnAt(o) \in insns /\ Word(InsnAt(o), InsnOffset) = o
    BY <1>1
  <2> HIDE DEF InsnAt
  <2>2. InsnAt(o) = Instruction(o, t[o])
    BY <1>1, <1>2, <2>1
  <2> QED
    BY <1>1, <2>2, Int8Survives DEF IsTable
<1> HIDE DEF InsnAt
<1>5. [o \in {Word(e, InsnOffset) : e \in insns} |->
          ToInt8(Word(InsnAt(o), InsnLength))] = [o \in DOMAIN t |-> t[o]]
  BY <1>3, <1>4
<1> QED
  BY <1>5 DEF IsTable, insns, InsnAt

(* read_version_1 gets back what write_version_1 was given, or throws when *)
(* the message is over the limit: schema_io.cpp 64-116.                    *)
THEOREM Version1ComesBack ==
    ASSUME NEW t, IsTable(t), NEW base, NEW digest
    PROVE  LET f == write_version_1(t, base, digest) IN
           read_version_1(f) =
               IF f.words <= LimitWords
               THEN [thrown |-> FALSE, digest |-> digest, base_address |-> base,
                     instructions |-> t]
               ELSE Thrown
<1> DEFINE f == write_version_1(t, base, digest)
           insns == {Instruction(o, t[o]) : o \in DOMAIN t}
           InsnAt(o) == CHOOSE e \in insns : Word(e, InsnOffset) = o
<1>1. /\ Pointer(f.root, Digest.at) = Text(digest)
      /\ Pointer(f.root, Instructions.at) = List("structs", insns)
      /\ Word(f.root, BaseAddress) = base
      /\ f.there = f.words
  BY Written1
<1>2. [o \in {Word(e, InsnOffset) : e \in insns} |->
          ToInt8(Word(InsnAt(o), InsnLength))] = t
  BY ListComesBack
<1> HIDE DEF f, insns
<1>3. ~ Refused(f.root, Digest) /\ ~ Refused(f.root, Instructions)
  BY <1>1 DEF Refused, Text, List, Digest, Instructions
<1>4. TextOf(f.root, Digest) = digest
  BY <1>1 DEF TextOf, Text, Null
<1>5. ListOf(f.root, Instructions) = insns
  BY <1>1 DEF ListOf, List, Null
<1>6. Accepts(f) <=> f.words <= LimitWords
  BY <1>1 DEF Accepts
<1>7. read_version_1(f) =
          IF ~ Accepts(f) THEN Thrown
          ELSE [thrown |-> FALSE, digest |-> digest, base_address |-> base,
                instructions |-> [o \in {Word(e, InsnOffset) : e \in insns} |->
                                    ToInt8(Word(InsnAt(o), InsnLength))]]
  BY <1>1, <1>3, <1>4, <1>5 DEF read_version_1
<1> QED
  BY <1>2, <1>6, <1>7 DEF f

(* read_version_0 gets back the addresses that write_version_0 saved, or   *)
(* throws when the message is over the limit: schema_io.cpp 18-62.         *)
THEOREM Version0ComesBack ==
    ASSUME NEW t, NEW base
    PROVE  LET f == write_version_0(t, base) IN
           read_version_0(f) =
               IF f.words <= LimitWords
               THEN [thrown |-> FALSE, offsets |-> {o + base : o \in DOMAIN t}]
               ELSE Thrown
<1> DEFINE f == write_version_0(t, base)
           addresses == {o + base : o \in DOMAIN t}
           inner == Pointer(f.root, InstOffsets.at)
<1>1. /\ inner.kind = "struct"
      /\ Pointer(inner, Offset.at) = List("words", addresses)
      /\ f.there = f.words
  BY Written0
<1> HIDE DEF f, addresses
<1>2. inner # Null
  BY <1>1 DEF Null
<1>3. ~ Refused(f.root, InstOffsets) /\ StructOf(f.root, InstOffsets) = inner
  BY <1>1, <1>2 DEF Refused, StructOf, InstOffsets
<1> HIDE DEF inner
<1>4. ~ Refused(inner, Offset) /\ ListOf(inner, Offset) = addresses
  BY <1>1 DEF Refused, ListOf, List, Offset, Null
<1>5. Accepts(f) <=> f.words <= LimitWords
  BY <1>1 DEF Accepts
<1> QED
  BY <1>3, <1>4, <1>5 DEF read_version_0, f, addresses

(* Each reader throws on the file of the other version, whatever is in it. *)
THEOREM OtherVersionThrows ==
    /\ \A t, base : read_version_1(write_version_0(t, base)) = Thrown
    /\ \A t, base, digest : read_version_0(write_version_1(t, base, digest)) = Thrown
<1>1. ASSUME NEW t, NEW base
      PROVE  read_version_1(write_version_0(t, base)) = Thrown
  <2>1. Pointer(write_version_0(t, base).root, 0).kind = "struct"
    BY Written0 DEF InstOffsets
  <2>2. Refused(write_version_0(t, base).root, Digest)
    BY <2>1 DEF Refused, Digest
  <2> QED
    BY <2>2 DEF read_version_1
<1>2. ASSUME NEW t, NEW base, NEW digest
      PROVE  read_version_0(write_version_1(t, base, digest)) = Thrown
  <2>1. Pointer(write_version_1(t, base, digest).root, 0) = Text(digest)
    BY Written1 DEF Digest
  <2>2. Refused(write_version_1(t, base, digest).root, InstOffsets)
    BY <2>1 DEF Refused, InstOffsets, Text
  <2> QED
    BY <2>2 DEF read_version_0
<1> QED
  BY <1>1, <1>2
=============================================================================
