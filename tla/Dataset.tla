------------------------------ MODULE Dataset ------------------------------
(***************************************************************************)
(* The folder that the offline tools share, as extract.sh fills it: the    *)
(* binaries, the captures under dynamic/, and the lists of the             *)
(* disassemblers under static/. A build of a program is what a compiler    *)
(* made of it once.                                                        *)
(***************************************************************************)
EXTENDS Integers, FiniteSets, Classification

CONSTANTS
    Names,             \* the programs
    Builds,
    Insns, Base,       \* of each build: what its capture says
    Lines,             \* of each build: the lines objdump prints for it
    Truth,             \* of each build: the addresses of its instructions
    MaxCommands        \* bound of the model: how many commands a careful user
                       \* (TRUE) and a careless one (FALSE) give

None == "none"

ASSUME DatasetAssumption ==
    /\ IsFiniteSet(Names) /\ None \notin Builds /\ MaxCommands \in [BOOLEAN -> Nat]
    /\ \A b \in Builds :
          /\ Base[b] \in Int /\ IsFiniteSet(DOMAIN Insns[b])
          /\ \A o \in DOMAIN Insns[b] : o \in Int /\ Insns[b][o] \in 1 .. 127
          /\ IsFiniteSet(Truth[b]) /\ Truth[b] \subseteq Int
          /\ IsFiniteSet(Lines[b]) /\ \A l \in Lines[b] : l.addr \in Int

VARIABLES
    careful,           \* whether the README is followed step by step
    binary, capture,   \* of each program: the build whose files are there
    list,              \* of each program: [kind, build, offsets]
    listed,            \* the lists were made since the last extraction
    commands

dataset == <<careful, binary, capture, list, listed>>

Command == commands < MaxCommands[careful] /\ commands' = commands + 1

NoList == [kind |-> "missing", build |-> None, offsets |-> {}]
Truncated == [kind |-> "bad", build |-> None, offsets |-> {}]

DatasetInit ==
    /\ careful \in BOOLEAN
    /\ binary \in [Names -> Builds]
    /\ capture = binary
    /\ list = [n \in Names |-> NoList]
    /\ listed = FALSE /\ commands = 0

(* extract.sh again, for a program that was built and traced again. It     *)
(* copies the capture and then the binary, and looks at the result of      *)
(* neither: what is not copied stays as the extraction before left it.     *)
Extract(n, b, copied) ==
    /\ Command /\ (careful => copied = {"capture", "binary"})
    /\ binary' = [binary EXCEPT ![n] = IF "binary" \in copied THEN b ELSE @]
    /\ capture' = [capture EXCEPT ![n] = IF "capture" \in copied THEN b ELSE @]
    /\ listed' = FALSE
    /\ UNCHANGED <<careful, list>>

(* The executed instructions are instructions of the program, and none of  *)
(* these starts inside another.                                            *)
TruthOK(b) ==
    /\ Addresses(Insns[b], Base[b]) \subseteq Truth[b]
    /\ \A s \in Truth[b], d \in DOMAIN Insns[b] :
          ~ (d + Base[b] < s /\ s < d + Base[b] + Insns[b][d])
=============================================================================
