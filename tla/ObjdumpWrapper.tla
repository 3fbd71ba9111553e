--------------------------- MODULE ObjdumpWrapper ---------------------------
(***************************************************************************)
(* objdump_wrapper.cpp: for each binary of a folder it has a shell run     *)
(* objdump into a raw dump, parses that file and writes a version 0 list.  *)
(***************************************************************************)
EXTENDS Dataset

VARIABLES
    dumps,             \* of each program: the raw dump, [build, lines]
    wpc,               \* "idle", "next", "open" or "write"
    files,             \* those the directory iterator has not returned
    file, dumped,      \* the file in work and the build that was dumped
    instructions

wrapper == <<dumps, wpc, files, file, dumped, instructions>>

(* A dump that is not there reads as an empty one.                         *)
WrapperInit ==
    /\ dumps = [n \in Names |-> [build |-> binary[n], lines |-> {}]]
    /\ wpc = "idle" /\ files = {} /\ file = None /\ dumped = None
    /\ instructions = {}

(* Mutant: one map for all files.                                          *)
LeaveMap == file' = None /\ dumped' = None /\ UNCHANGED instructions

(* The variables of one file go out of scope. *)
Leave == file' = None /\ dumped' = None /\ instructions' = {}

WrapperStart ==
    /\ Command
    /\ wpc = "idle" /\ wpc' = "next"
    /\ files' = Names
    /\ UNCHANGED <<dumps, file, dumped, instructions, dataset>>

(* A line of an instruction begins with a blank and has a colon; objdump   *)
(* decoded it if there are two tabs.                                       *)
Parsed(lines) ==
    {l.addr : l \in {m \in lines : m.colon /\ m.blank /\ m.tabs = 2}}

(* What a file has of lines that are written in the order of their         *)
(* addresses, by a program that ends early or on a disk that is full.      *)
Cuts(lines) == {lines, {}} \cup {{l \in lines : l.addr < m.addr} : m \in lines}

(* The raw dump after the command. Nothing looks at its status: objdump    *)
(* may fail or stop anywhere, and where the shell cannot open the file,    *)
(* the dump of the time before stays.                                      *)
Redirected(n) ==
    LET written(lines) == [build |-> binary[n], lines |-> lines] IN
    IF careful
    THEN {written(Lines[binary[n]])}
    ELSE {written(lines) : lines \in Cuts(Lines[binary[n]])} \cup {dumps[n]}

Disassemble(n) ==
    /\ wpc = "next" /\ n \in files
    /\ files' = files \ {n} /\ file' = n
    /\ \E dump \in Redirected(n) :
          /\ dumps' = [dumps EXCEPT ![n] = dump]
          /\ dumped' = dump.build
          /\ instructions' = instructions \cup Parsed(dump.lines)
    /\ wpc' = "open"
    /\ UNCHANGED <<commands, dataset>>

(* popen fails in exec: nothing catches the exception, and the files that  *)
(* are left get no list.                                                   *)
WrapperThrows ==
    /\ wpc = "next" /\ files # {} /\ ~ careful
    /\ wpc' = "idle" /\ files' = {}
    /\ UNCHANGED <<commands, dumps, file, dumped, instructions, dataset>>

(* Mutant: the list is not truncated when it is opened.                    *)
OpenListKeeps ==
    /\ wpc = "open" /\ wpc' = "write"
    /\ UNCHANGED <<commands, dumps, files, file, dumped, instructions, dataset>>

OpenList ==
    /\ wpc = "open" /\ wpc' = "write"
    /\ list' = [list EXCEPT ![file] = Truncated]
    /\ UNCHANGED <<commands, dumps, files, file, dumped, instructions>>
    /\ UNCHANGED <<careful, binary, capture, listed>>

(* The result of write_version_0 is not looked at. *)
OpenListFails ==
    /\ wpc = "open" /\ ~ careful
    /\ wpc' = "next" /\ Leave
    /\ UNCHANGED <<commands, dumps, files, dataset>>

WriteList ==
    /\ wpc = "write" /\ wpc' = "next"
    /\ list' = [list EXCEPT ![file] =
           [kind |-> "v0", build |-> dumped, offsets |-> instructions]]
    /\ Leave
    /\ UNCHANGED <<commands, dumps, files, careful, binary, capture, listed>>

WrapperReturn ==
    /\ wpc = "next" /\ files = {}
    /\ wpc' = "idle" /\ listed' = TRUE
    /\ UNCHANGED <<commands, dumps, files, file, dumped, instructions>>
    /\ UNCHANGED <<careful, binary, capture, list>>

WrapperKilled ==
    /\ wpc # "idle" /\ ~ careful
    /\ wpc' = "idle" /\ files' = {} /\ Leave
    /\ UNCHANGED <<commands, dumps, dataset>>

WrapperNext ==
    \/ WrapperStart
    \/ (\E n \in Names : Disassemble(n)) \/ WrapperThrows
    \/ OpenList \/ OpenListFails \/ WriteList
    \/ WrapperReturn \/ WrapperKilled
=============================================================================
