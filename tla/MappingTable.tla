---------------------------- MODULE MappingTable ----------------------------
(***************************************************************************)
(* The address arithmetic of capnp-capture.cpp: how update_mapping turns   *)
(* /proc/<pid>/maps into mapping_table, and what resolve_mapping answers   *)
(* for a virtual address.                                                  *)
(*                                                                         *)
(* Of a line of the maps file MapsLine has the range and where it starts   *)
(* in the file, the inode, 0 for a mapping that has no file, the file's    *)
(* name as the sequence of its words, and whether the line is short enough *)
(* for the 512-byte buffer.                                                *)
(***************************************************************************)
EXTENDS Integers, Sequences

CONSTANT Target        \* the value of binary=, a sequence of words

ASSUME TargetAssumption == Target \in Seq(STRING) /\ Target # <<>>

MapsLine == [begin : Nat, end : Nat, offset : Nat, inode : Nat,
             path : Seq(STRING), fits : BOOLEAN]

Mapping == [begin : Nat, end : Nat, offset : Nat]

(* getline fails on the first line that does not fit, and ends the loop. *)
LinesRead(lines) == {i \in DOMAIN lines : \A j \in 1 .. i : lines[j].fits}

(* A mapped file is compared with the target by the first word of its name,*)
(* which is all that `line >> filename' extracts.                          *)
NamesTarget(line) == line.inode # 0 /\ <<line.path[1]>> = Target

(* mapping_table after update_mapping has read these lines. *)
ParsedMappings(lines) ==
    {[begin |-> lines[i].begin, end |-> lines[i].end, offset |-> lines[i].offset] :
        i \in {j \in LinesRead(lines) : NamesTarget(lines[j])}}

(* The order of std::set<mapping_t>, tuples compared field by field. *)
Precedes(m, n) ==
    \/ m.begin < n.begin
    \/ m.begin = n.begin /\ m.end < n.end
    \/ m.begin = n.begin /\ m.end = n.end /\ m.offset < n.offset

Covers(m, vaddr) == m.begin <= vaddr /\ vaddr < m.end

(* Mutant: the start of the range is not taken off.                        *)
OffsetFromZero(m, vaddr) == vaddr + m.offset

OffsetIn(m, vaddr) == vaddr - m.begin + m.offset

(* The loop of resolve_mapping answers at m: it skipped every mapping      *)
(* before m, and m covers the address.                                     *)
AnswersAt(table, vaddr, m) ==
    /\ Covers(m, vaddr)
    /\ \A n \in table : Precedes(n, m) => n.end <= vaddr

NoOffset == -1

(* The return value of resolve_mapping. *)
Resolve(table, vaddr) ==
    IF \E m \in table : AnswersAt(table, vaddr, m)
    THEN OffsetIn(CHOOSE m \in table : AnswersAt(table, vaddr, m), vaddr)
    ELSE NoOffset

-----------------------------------------------------------------------------
(* The reference: what the kernel's mappings say, read without a buffer or *)
(* a word limit.                                                           *)

(* A table as the kernel prints it: non-empty ranges that do not overlap.  *)
WellFormed(table) ==
    /\ \A m \in table : m.begin < m.end
    /\ \A m, n \in table : m # n => m.end <= n.begin \/ n.end <= m.begin

TargetMappings(lines) ==
    {[begin |-> lines[i].begin, end |-> lines[i].end, offset |-> lines[i].offset] :
        i \in {j \in DOMAIN lines : lines[j].inode # 0 /\ lines[j].path = Target}}

(* The lines as the kernel prints them, in the order of the addresses,     *)
(* when the name of the target's file tells it apart by its first word.    *)
Tidy(lines) ==
    /\ WellFormed(TargetMappings(lines))
    /\ \A i, j \in DOMAIN lines : i < j => lines[i].begin <= lines[j].begin
    /\ \A i \in DOMAIN lines :
          NamesTarget(lines[i]) <=> lines[i].inode # 0 /\ lines[i].path = Target

(* The address lies after the start of a line that is too long, where the  *)
(* table need not have what is mapped.                                     *)
AfterLongLine(lines, vaddr) ==
    \E i \in DOMAIN lines : ~ lines[i].fits /\ lines[i].begin <= vaddr

(* The offset in the target's file of the byte mapped at vaddr. *)
FileOffset(table, vaddr) ==
    IF \E m \in table : Covers(m, vaddr)
    THEN OffsetIn(CHOOSE m \in table : Covers(m, vaddr), vaddr)
    ELSE NoOffset
=============================================================================
