--------------------------- MODULE ResultPrinter ---------------------------
(***************************************************************************)
(* print_result.cpp: it disassembles, at each offset of a capture, the     *)
(* bytes of a binary that it has mapped into memory.                       *)
(***************************************************************************)
EXTENDS Dataset, Sequences

CONSTANTS Size         \* of each build: the size of its binary

(* What was executed is in the file. *)
ASSUME ResultPrinterAssumption ==
    \A b \in Builds : Size[b] \in Nat /\ \A o \in DOMAIN Insns[b] : o < Size[b]

VARIABLES
    ppc,               \* "idle", "read" or "print"
    subject, printing, \* the program, and the build its capture is of
    left,              \* the offsets that are not printed
    printout           \* the lines [addr, build]: whose bytes are at addr

printer == <<ppc, subject, printing, left, printout>>

PrinterInit ==
    /\ ppc = "idle" /\ subject = None /\ printing = None
    /\ left = {} /\ printout = <<>>

(* The output is truncated, and the binary mapped. *)
PrintStart(n) ==
    /\ ppc = "idle" /\ ppc' = "read"
    /\ Command
    /\ subject' = n /\ printing' = None /\ printout' = <<>>
    /\ UNCHANGED <<left, dataset>>

ReadCapture ==
    /\ ppc = "read" /\ printing' = capture[subject]
    /\ left' = DOMAIN Insns[capture[subject]]
    /\ ppc' = IF left' = {} THEN "idle" ELSE "print"   \* rbegin of an empty map
    /\ UNCHANGED <<commands, subject, printout, dataset>>

(* Mutant: the offset is printed, not the address.                         *)
PrintOffset(o) ==
    /\ ppc = "print" /\ o \in left /\ \A q \in left : o <= q
    /\ o < Size[binary[subject]]
    /\ left' = left \ {o}
    /\ ppc' = IF left' = {} THEN "idle" ELSE "print"
    /\ printout' = Append(printout, [addr |-> o, build |-> binary[subject]])
    /\ UNCHANGED <<commands, subject, printing, dataset>>

(* The mapping is shared: the bytes are those the file has now. *)
PrintLine(o) ==
    /\ ppc = "print" /\ o \in left /\ \A q \in left : o <= q
    /\ o < Size[binary[subject]]
    /\ left' = left \ {o}
    /\ ppc' = IF left' = {} THEN "idle" ELSE "print"
    /\ printout' = Append(printout, [addr |-> Base[printing] + o,
                                     build |-> binary[subject]])
    /\ UNCHANGED <<commands, subject, printing, dataset>>

(* A signal, at an offset that the file does not have. *)
PrinterDies ==
    /\ ppc = "print" /\ \E o \in left :
          (\A q \in left : o <= q) /\ o >= Size[binary[subject]]
    /\ ppc' = "idle" /\ left' = {}
    /\ UNCHANGED <<commands, subject, printing, printout, dataset>>

PrinterNext ==
    \/ \E n \in Names : PrintStart(n)
    \/ ReadCapture
    \/ \E o \in left : PrintLine(o)
    \/ PrinterDies
=============================================================================
