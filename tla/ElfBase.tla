------------------------------ MODULE ElfBase ------------------------------
(***************************************************************************)
(* parse_base_address: it reads the ELF headers of the target and takes    *)
(* the base address, which added to a file offset gives the address, from  *)
(* the first executable section. A read that is not whole fails an         *)
(* assertion, which aborts the process.                                    *)
(***************************************************************************)
EXTENDS Integers, Sequences

CONSTANTS
    Files,             \* [class, readable, sections]
    Half               \* half the addresses of either class: 2^31 and 2^63

(* How much of a file can be read: it cannot be opened, it ends in the ELF *)
(* header, or it ends after some of the section headers.                   *)
Unopened == -1
Header32 == 1
Header64 == 2

ASSUME ElfBaseAssumption ==
    /\ Half \in [{32, 64} -> Nat \ {0}] /\ 2 * Half[32] <= Half[64]
    /\ \A f \in Files :
          /\ f.class \in {32, 64} /\ f.readable \in Int
          /\ f.sections \in Seq([alloc : BOOLEAN, exec : BOOLEAN,
                                 addr : Nat, offset : Nat])
          /\ \A k \in DOMAIN f.sections :
                LET s == f.sections[k] IN
                s.addr < 2 * Half[f.class] /\ s.offset < 2 * Half[f.class]

VARIABLES
    pc, file,
    sh_tbl,            \* the section headers read so far
    i, base_address

vars == <<pc, file, sh_tbl, i, base_address>>

Init ==
    /\ pc = "open" /\ file \in Files
    /\ sh_tbl = <<>> /\ i = 0 /\ base_address = 0

(* The result of open is not looked at: lseek fails on -1. *)
Open ==
    /\ pc = "open" /\ pc' = "header"
    /\ UNCHANGED <<file, sh_tbl, i, base_address>>

ReadHeader ==
    /\ pc = "header" /\ file.readable >= Header32
    /\ pc' = IF file.class = 64 THEN "header64" ELSE "sections"
    /\ UNCHANGED <<file, sh_tbl, i, base_address>>

ReadHeader64 ==
    /\ pc = "header64" /\ file.readable >= Header64
    /\ pc' = "sections"
    /\ UNCHANGED <<file, sh_tbl, i, base_address>>

HeaderOf(f) == IF f.class = 64 THEN Header64 ELSE Header32
SectionsReadable(f) == f.readable - HeaderOf(f)

(* Mutant: a header that is not read whole is taken as it is in memory.    *)
ReadSectionUnchecked ==
    /\ pc = "sections" /\ Len(sh_tbl) < Len(file.sections)
    /\ sh_tbl' = Append(sh_tbl,
           IF Len(sh_tbl) < SectionsReadable(file)
           THEN file.sections[Len(sh_tbl) + 1]
           ELSE [alloc |-> TRUE, exec |-> TRUE, addr |-> 0, offset |-> 0])
    /\ UNCHANGED <<pc, file, i, base_address>>

ReadSection ==
    /\ pc = "sections" /\ Len(sh_tbl) < Len(file.sections)
    /\ Len(sh_tbl) < SectionsReadable(file)
    /\ sh_tbl' = Append(sh_tbl, file.sections[Len(sh_tbl) + 1])
    /\ UNCHANGED <<pc, file, i, base_address>>

AllRead ==
    /\ pc = "sections" /\ Len(sh_tbl) = Len(file.sections)
    /\ pc' = "walk" /\ i' = 1
    /\ UNCHANGED <<file, sh_tbl, base_address>>

(* One of the assertions of the reads fails. *)
Abort ==
    /\ \/ pc = "header" /\ file.readable < Header32
       \/ pc = "header64" /\ file.readable < Header64
       \/ /\ pc = "sections" /\ Len(sh_tbl) < Len(file.sections)
          /\ Len(sh_tbl) >= SectionsReadable(file)
    /\ pc' = "aborted"
    /\ UNCHANGED <<file, sh_tbl, i, base_address>>

-----------------------------------------------------------------------------
IsCode(s) == s.alloc /\ s.exec

(* What a number is in the unsigned arithmetic of a class. *)
Unsigned(class, n) == n % (2 * Half[class])

(* Mutant: the difference is kept unsigned.                                *)
DisplacementUnsigned(f, s) == Unsigned(f.class, s.addr - s.offset)

(* The difference of two unsigned fields of the class, as an int64_t. *)
Displacement(f, s) ==
    LET d == Unsigned(f.class, s.addr - s.offset) IN
    IF d < Half[64] THEN d ELSE d - 2 * Half[64]

(* Mutant: the loop does not go on to the next section.                    *)
SkipInPlace ==
    /\ pc = "walk" /\ i <= Len(sh_tbl) /\ ~ IsCode(sh_tbl[i])
    /\ UNCHANGED <<pc, file, sh_tbl, i, base_address>>

Skip ==
    /\ pc = "walk" /\ i <= Len(sh_tbl) /\ ~ IsCode(sh_tbl[i])
    /\ i' = i + 1
    /\ UNCHANGED <<pc, file, sh_tbl, base_address>>

(* Mutant: the address alone is taken for the base.                        *)
TakeAddress ==
    /\ pc = "walk" /\ i <= Len(sh_tbl) /\ IsCode(sh_tbl[i])
    /\ base_address' = sh_tbl[i].addr
    /\ pc' = "returned"
    /\ UNCHANGED <<file, sh_tbl, i>>

Take ==
    /\ pc = "walk" /\ i <= Len(sh_tbl) /\ IsCode(sh_tbl[i])
    /\ base_address' = Displacement(file, sh_tbl[i])
    /\ pc' = "returned"
    /\ UNCHANGED <<file, sh_tbl, i>>

NoneLeft ==
    /\ pc = "walk" /\ i > Len(sh_tbl)
    /\ pc' = "returned"
    /\ UNCHANGED <<file, sh_tbl, i, base_address>>

Next ==
    \/ Open \/ ReadHeader \/ ReadHeader64 \/ ReadSection \/ AllRead \/ Abort
    \/ Skip \/ Take \/ NoneLeft

Spec == Init /\ [][Next]_vars

(* The function runs until it returns. *)
FairSpec == Spec /\ WF_vars(Next)

-----------------------------------------------------------------------------
TypeOK ==
    /\ pc \in {"open", "header", "header64", "sections", "walk", "returned",
               "aborted"}
    /\ file \in Files
    /\ Len(sh_tbl) <= Len(file.sections)
    /\ i \in 0 .. Len(file.sections) + 1
    /\ base_address \in - Half[64] .. Half[64] - 1

Code(f) == {k \in DOMAIN f.sections : IsCode(f.sections[k])}

(* The linker keeps the code of a program together: all its executable     *)
(* sections are as far from their place in the file.                       *)
OnePiece(f) ==
    \A k, l \in Code(f) :
        Displacement(f, f.sections[k]) = Displacement(f, f.sections[l])

(* A section of a 32-bit file may not be further into the file than its    *)
(* address: the unsigned difference would be kept as a large base.         *)
Positive32(f) ==
    f.class = 32 => \A k \in Code(f) : f.sections[k].addr >= f.sections[k].offset

(* What the evaluator and the printer compute from the base, in 64 bits.   *)
AddressOf(base, offset) == Unsigned(64, base + offset)

(* The base that is returned turns the file offset of any code into its    *)
(* address, wherever in the table the executable sections are; it never    *)
(* stems from a header that was not read, and is 0 only when that is the   *)
(* displacement or when there is no code.                                  *)
BaseLocatesCode ==
    pc = "returned" /\ OnePiece(file) /\ Positive32(file) =>
        /\ \A k \in Code(file) :
              AddressOf(base_address, file.sections[k].offset) = file.sections[k].addr
        /\ Code(file) = {} => base_address = 0

(* A file that is cut short never gives a base: the process aborts, and    *)
(* the capture is not written.                                             *)
ShortNeverReturns ==
    pc = "returned" => SectionsReadable(file) >= Len(file.sections)

(* The function always comes to an end.                                    *)
AlwaysEnds == <>(pc \in {"returned", "aborted"})
=============================================================================
