--------------------------- MODULE CaptureFormat ---------------------------
(***************************************************************************)
(* The capture as a file: the structs of schema.capnp as the generated     *)
(* accessors lay them out in a Cap'n Proto message, and what schema_io.cpp *)
(* writes to and reads from one.                                           *)
(*                                                                         *)
(* A struct has a data section of words and a section of pointers. A       *)
(* pointer is null or leads to a struct or a list; the order of a list is  *)
(* left out, since the writers take it from a map and the readers put it   *)
(* into a map or a set. A file has the words of one message, as many of    *)
(* them as are on the disk.                                                *)
(***************************************************************************)
EXTENDS Integers, FiniteSets

CONSTANTS
    Empty,             \* the empty string
    LimitWords         \* the reader's limit, 8 * 2^20 words by default

(* The words of the data section and the pointers of each struct. *)
Layout == [AnalysisRst   |-> [data |-> 0, ptrs |-> 2],
           InstOffset    |-> [data |-> 0, ptrs |-> 1],
           FuncStart     |-> [data |-> 0, ptrs |-> 1],
           CaptureResult |-> [data |-> 1, ptrs |-> 2],
           Instruction   |-> [data |-> 2, ptrs |-> 0]]

Words(type) == Layout[type].data + Layout[type].ptrs

Null == [kind |-> "null"]
Struct(data, ptrs) == [kind |-> "struct", data |-> data, ptrs |-> ptrs]
Text(s) == [kind |-> "text", elems |-> s]
List(kind, elems) == [kind |-> kind, elems |-> elems]

(* An initialised struct: its words are zero and its pointers null. *)
Fresh(type) == Struct([k \in 0 .. Layout[type].data - 1 |-> 0],
                      [k \in 0 .. Layout[type].ptrs - 1 |-> Null])

SetWord(s, k, n) == Struct([s.data EXCEPT ![k] = n], s.ptrs)
SetPointer(s, k, object) == Struct(s.data, [s.ptrs EXCEPT ![k] = object])

(* What lies past the sections a struct was written with reads as zero or  *)
(* as null. *)
Word(s, k) == IF k \in DOMAIN s.data THEN s.data[k] ELSE 0
Pointer(s, k) == IF k \in DOMAIN s.ptrs THEN s.ptrs[k] ELSE Null

(* An Int8 is a byte of its word. *)
ToInt8(n) == ((n + 128) % 256) - 128

(* The fields: the index of a pointer and what it is to lead to. *)
InstOffsets == [at |-> 0, kind |-> "struct"]
Offset == [at |-> 0, kind |-> "words"]
Digest == [at |-> 0, kind |-> "text"]
Instructions == [at |-> 1, kind |-> "structs"]
(* The index of a word. *)
BaseAddress == 0
InsnOffset == 0
InsnLengthFirst == 0               \* mutant: the first byte, not byte 8
InsnLength == 1                    \* where byte 8 of an Instruction is

(* A null pointer gives the field's default, any other kind is refused.    *)
Refused(s, field) == Pointer(s, field.at).kind \notin {field.kind, "null"}
TextOf(s, field) ==
    LET p == Pointer(s, field.at) IN IF p = Null THEN Empty ELSE p.elems
ListOf(s, field) ==
    LET p == Pointer(s, field.at) IN IF p = Null THEN {} ELSE p.elems
StructOf(s, field) ==
    LET p == Pointer(s, field.at) IN IF p = Null THEN Struct(<<>>, <<>>) ELSE p

-----------------------------------------------------------------------------
(* Files: the root of the message, the words of the whole, the words there.*)

Saved(root, words) == [root |-> root, words |-> words, there |-> words]
Cut(f, n) == [f EXCEPT !.there = n]

(* After open_file has truncated it.                                       *)
TruncatedFile == [root |-> Null, words |-> 1, there |-> 0]

(* 32 digits and a zero byte, or the zero byte alone. *)
TextWords(s) == IF s = Empty THEN 1 ELSE 5

Instruction(o, n) ==
    SetWord(SetWord(Fresh("Instruction"), InsnOffset, o), InsnLength, n % 256)

write_version_0(instructions, base_address) ==
    LET offsets == List("words", {o + base_address : o \in DOMAIN instructions})
        inst_offsets == SetPointer(Fresh("InstOffset"), Offset.at, offsets)
    IN  Saved(SetPointer(Fresh("AnalysisRst"), InstOffsets.at, inst_offsets),
              1 + Words("AnalysisRst") + Words("InstOffset")
                + Cardinality(DOMAIN instructions))

(* The list of structs has a tag word. *)
write_version_1(instructions, base_address, digest) ==
    LET output_insns == List("structs",
            {Instruction(o, instructions[o]) : o \in DOMAIN instructions})
        result == SetWord(SetPointer(Fresh("CaptureResult"), Digest.at, Text(digest)),
                          BaseAddress, base_address)
    IN  Saved(SetPointer(result, Instructions.at, output_insns),
              1 + Words("CaptureResult") + TextWords(digest)
                + 1 + Words("Instruction") * Cardinality(DOMAIN instructions))

Thrown == [thrown |-> TRUE]

(* The message reader throws on a message that is cut short or too large.  *)
Accepts(f) == f.there = f.words /\ f.words <= LimitWords

(* Both readers get the root as a struct of their schema.                  *)
read_version_0(f) ==
    LET inst_offsets == StructOf(f.root, InstOffsets) IN
    IF ~ Accepts(f) \/ Refused(f.root, InstOffsets) \/ Refused(inst_offsets, Offset)
    THEN Thrown
    ELSE [thrown |-> FALSE, offsets |-> ListOf(inst_offsets, Offset)]

read_version_1(f) ==
    LET insns == ListOf(f.root, Instructions)
        InsnAt(o) == CHOOSE e \in insns : Word(e, InsnOffset) = o
    IN  IF ~ Accepts(f) \/ Refused(f.root, Digest) \/ Refused(f.root, Instructions)
        THEN Thrown
        ELSE [thrown |-> FALSE,
              digest |-> TextOf(f.root, Digest),
              base_address |-> Word(f.root, BaseAddress),
              instructions |-> [o \in {Word(e, InsnOffset) : e \in insns} |->
                                    ToInt8(Word(InsnAt(o), InsnLength))]]
=============================================================================
