----------------------------- MODULE BenchSetup -----------------------------
(***************************************************************************)
(* The benchmark scripts: runall sets up the run directory of each SPEC    *)
(* program and starts it there, setup puts a wrapper in the place of its   *)
(* binary, and the wrapper runs the original under the tracer. extract.sh  *)
(* collects what was captured.                                             *)
(*                                                                         *)
(* A directory holds at most one binary and its .orig; each is the         *)
(* program, a wrapper, or not there.                                       *)
(***************************************************************************)
EXTENDS Integers, FiniteSets

CONSTANTS
    N,                 \* the programs are 0 .. N - 1, as runall counts them
    Built,             \* those whose run directory exists
    Absolute,          \* the SPEC directory is given by an absolute path
    RerunAnytime,      \* runall may be run twice without a new build
    MaxStarts,         \* bound of the model: how often runall is started
    MaxBuilds          \* bound of the model: how often all is compiled

Programs == 0 .. N - 1
Home == -1             \* the directory of runall itself
Places == Programs \cup {Home}

ASSUME BenchSetupAssumption ==
    /\ N \in Nat \ {0} /\ Built \subseteq Programs
    /\ Absolute \in BOOLEAN /\ RerunAnytime \in BOOLEAN
    /\ MaxStarts \in Nat /\ MaxBuilds \in Nat \ {0}

VARIABLES
    pc, i, cwd,        \* of runall; setup is called by it
    starts,
    binary, orig,      \* X-m64 and X-m64.orig in each directory
    scripts,           \* the directories that run, setup and the template are in
    cpu,               \* the number after physcpubind in speccmds.cmd
    sessions,          \* the screen sessions: [dir, cpu]
    build,             \* the compilation that the directories hold
    capture,           \* in each directory: the build of the capture, or 0
    step, x,           \* of extract.sh: what it copies next, of program x
    output,            \* what it copied, at any time: [binary, built, capture]
    copied,            \* history: it has copied the capture of x, and the
                       \* directories were not set up anew since
    paired             \* history: the programs of which its last pass over
                       \* them copied both files so

loop == <<pc, i, cwd, starts>>
directory == <<binary, orig, scripts, cpu>>
extract == <<step, x, output, copied, paired>>
vars == <<loop, directory, sessions, build, capture, extract>>

None == "none"

Fresh(d) == IF d \in Built THEN "program" ELSE None

Init ==
    /\ pc = "idle" /\ i = 0 /\ cwd = Home /\ starts = 0
    /\ binary = [d \in Places |-> Fresh(d)]
    /\ orig = [d \in Places |-> None]
    /\ scripts = {Home}
    /\ cpu = [d \in Places |-> 0]
    /\ sessions = {}
    /\ build = 1 /\ capture = [d \in Places |-> 0]
    /\ step = "idle" /\ x = 0 /\ copied = FALSE /\ paired = {}
    /\ output = [p \in Programs |-> [binary |-> None, built |-> 0, capture |-> 0]]

-----------------------------------------------------------------------------
(* runall. A directory that is not a SPEC directory only gets a message.   *)

AllFresh == \A d \in Places : binary[d] = Fresh(d) /\ orig[d] = None

Start ==
    /\ pc = "idle" /\ starts < MaxStarts
    /\ RerunAnytime \/ AllFresh
    /\ pc' = "copy" /\ i' = 0 /\ cwd' = Home /\ starts' = starts + 1
    /\ UNCHANGED <<directory, sessions, build, capture, extract>>

(* Paths are resolved where the last cd has led to. *)
Reachable(p) == p \in Built /\ (Absolute \/ cwd = Home)

Copy ==
    /\ pc = "copy" /\ pc' = "cd"
    /\ scripts' = IF Reachable(i) THEN scripts \cup {i} ELSE scripts
    /\ UNCHANGED <<i, cwd, starts, binary, orig, cpu, sessions, build, capture, extract>>

(* Mutant: nothing is set up before the program is started.                *)
ChdirSkipsSetup ==
    /\ pc = "cd" /\ pc' = "screen"
    /\ cwd' = IF Reachable(i) THEN i ELSE cwd
    /\ UNCHANGED <<i, starts, directory, sessions, build, capture, extract>>

Chdir ==
    /\ pc = "cd" /\ pc' = "move"
    /\ cwd' = IF Reachable(i) THEN i ELSE cwd
    /\ UNCHANGED <<i, starts, directory, sessions, build, capture, extract>>

(* Mutant: the template is copied before the binary is moved.              *)
MoveAfterCopy ==
    /\ pc = "move" /\ pc' = "wrap"
    /\ orig' = [orig EXCEPT ![cwd] = "wrapper"]
    /\ binary' = [binary EXCEPT ![cwd] = None]
    /\ UNCHANGED <<i, cwd, starts, scripts, cpu, sessions, build, capture, extract>>

(* setup: mv, then cp, sed and chmod. Without a match the pattern stands   *)
(* for itself: mv fails, and cp makes a file of that name.                 *)
Move ==
    /\ pc = "move" /\ pc' = "wrap"
    /\ IF binary[cwd] = None
       THEN UNCHANGED <<binary, orig>>
       ELSE /\ orig' = [orig EXCEPT ![cwd] = binary[cwd]]
            /\ binary' = [binary EXCEPT ![cwd] = None]
    /\ UNCHANGED <<i, cwd, starts, scripts, cpu, sessions, build, capture, extract>>

Wrap ==
    /\ pc = "wrap" /\ pc' = "bind"
    /\ binary' = [binary EXCEPT ![cwd] = "wrapper"]
    /\ UNCHANGED <<i, cwd, starts, orig, scripts, cpu, sessions, build, capture, extract>>

(* Mutant: setup is not told the number of the program.                    *)
BindUntold ==
    /\ pc = "bind" /\ pc' = "screen"
    /\ UNCHANGED <<i, cwd, starts, directory, sessions, build, capture, extract>>

(* sed finds only the CPU that a fresh speccmds.cmd names. *)
Bind ==
    /\ pc = "bind" /\ pc' = "screen"
    /\ cpu' = [cpu EXCEPT ![cwd] = IF cwd \in Built /\ @ = 0 THEN i ELSE @]
    /\ UNCHANGED <<i, cwd, starts, binary, orig, scripts, sessions, build, capture, extract>>

(* Mutant: the loop goes one program too far.                              *)
ScreenOneMore ==
    /\ pc = "screen"
    /\ sessions' = sessions \cup {[dir |-> cwd, cpu |-> cpu[cwd], name |-> i]}
    /\ IF i < N
       THEN pc' = "copy" /\ i' = i + 1
       ELSE pc' = "idle" /\ i' = i
    /\ UNCHANGED <<cwd, starts, directory, build, capture, extract>>

Screen ==
    /\ pc = "screen"
    /\ sessions' = sessions \cup {[dir |-> cwd, cpu |-> cpu[cwd], name |-> i]}
    /\ IF i + 1 < N
       THEN pc' = "copy" /\ i' = i + 1
       ELSE pc' = "idle" /\ i' = i
    /\ UNCHANGED <<cwd, starts, directory, build, capture, extract>>

-----------------------------------------------------------------------------
(* A session runs the commands of its directory, one after the other. The  *)
(* wrapper traces X-m64.orig, if that is a program.                        *)
Invoke(s) ==
    /\ s \in sessions
    /\ binary[s.dir] = "wrapper" /\ orig[s.dir] = "program"
    /\ capture' = [capture EXCEPT ![s.dir] = build]
    /\ UNCHANGED <<loop, directory, sessions, build, extract>>

End(s) ==
    /\ s \in sessions
    /\ sessions' = sessions \ {s}
    /\ UNCHANGED <<loop, directory, build, capture, extract>>

-----------------------------------------------------------------------------
(* extract.sh goes through the programs at any time, and copies first the  *)
(* capture and then the binary. Nothing looks at what cp returns: when it  *)
(* fails or there is nothing to copy, the output keeps what it has.        *)

ExtractStart ==
    /\ step = "idle" /\ step' = "capture" /\ x' = 0
    /\ UNCHANGED <<loop, directory, sessions, build, capture, output, copied, paired>>

CopyCapture ==
    /\ step = "capture" /\ step' = "binary"
    /\ \/ /\ capture[x] # 0
          /\ output' = [output EXCEPT ![x].capture = capture[x]]
          /\ copied' = TRUE
       \/ copied' = FALSE /\ UNCHANGED output
    /\ paired' = paired \ {x}
    /\ UNCHANGED <<loop, directory, sessions, build, capture, x>>

CopyBinary ==
    /\ step = "binary"
    /\ \/ /\ orig[x] # None
          /\ output' = [output EXCEPT ![x].binary = orig[x], ![x].built = build]
          /\ paired' = IF copied THEN paired \cup {x} ELSE paired
       \/ UNCHANGED <<output, paired>>
    /\ IF x + 1 < N
       THEN step' = "capture" /\ x' = x + 1
       ELSE step' = "idle" /\ x' = x
    /\ UNCHANGED <<loop, directory, sessions, build, capture, copied>>

ExtractInterrupted ==
    /\ step # "idle" /\ step' = "idle"
    /\ UNCHANGED <<loop, directory, sessions, build, capture>>
    /\ UNCHANGED <<x, output, copied, paired>>

-----------------------------------------------------------------------------
(* The user: runall is interrupted; runcpu trashes what there is and sets  *)
(* up new directories, when nothing runs in the old ones, with the same    *)
(* build or after another compilation.                                     *)
Interrupt ==
    /\ pc # "idle" /\ pc' = "idle"
    /\ UNCHANGED <<i, cwd, starts, directory, sessions, build, capture, extract>>

(* Mutant: the files that a run made stay where they are.                  *)
RunSetupKeeps ==
    /\ pc = "idle" /\ sessions = {}
    /\ binary' = [d \in Places |-> Fresh(d)]
    /\ orig' = [d \in Places |-> None]
    /\ scripts' = {Home}
    /\ cpu' = [d \in Places |-> 0]
    /\ build' \in {build, build + 1} /\ build' <= MaxBuilds
    /\ copied' = FALSE
    /\ UNCHANGED <<loop, sessions, capture, step, x, output, paired>>

RunSetup ==
    /\ pc = "idle" /\ sessions = {}
    /\ binary' = [d \in Places |-> Fresh(d)]
    /\ orig' = [d \in Places |-> None]
    /\ scripts' = {Home}
    /\ cpu' = [d \in Places |-> 0]
    /\ capture' = [d \in Places |-> 0]
    /\ build' \in {build, build + 1} /\ build' <= MaxBuilds
    /\ copied' = FALSE
    /\ UNCHANGED <<loop, sessions, step, x, output, paired>>

Next ==
    \/ Start \/ Copy \/ Chdir \/ Move \/ Wrap \/ Bind \/ Screen
    \/ \E s \in sessions : Invoke(s) \/ End(s)
    \/ ExtractStart \/ CopyCapture \/ CopyBinary \/ ExtractInterrupted
    \/ Interrupt \/ RunSetup

Spec == Init /\ [][Next]_vars

-----------------------------------------------------------------------------
File == {None, "program", "wrapper"}

OutputOK(o) ==
    o \in [binary : File, built : 0 .. MaxBuilds, capture : 0 .. MaxBuilds]

TypeOK ==
    /\ pc \in {"idle", "copy", "cd", "move", "wrap", "bind", "screen"}
    /\ i \in Programs /\ cwd \in Places /\ starts \in 0 .. MaxStarts
    /\ binary \in [Places -> File] /\ orig \in [Places -> File]
    /\ scripts \subseteq Places /\ (pc # "idle" => cwd \in scripts)
    /\ cpu \in [Places -> Programs]
    /\ sessions \subseteq [dir : Places, cpu : Programs, name : Programs]
    /\ build \in 1 .. MaxBuilds /\ capture \in [Places -> 0 .. MaxBuilds]
    /\ step \in {"idle", "capture", "binary"} /\ x \in Programs
    /\ DOMAIN output = Programs /\ \A p \in Programs : OutputOK(output[p])
    /\ copied \in BOOLEAN /\ paired \subseteq Programs

(* Whatever is interrupted, no program is lost: it is still under its own  *)
(* name or under the one the wrapper runs.                                 *)
OriginalsSurvive ==
    \A p \in Built : "program" \in {binary[p], orig[p]}

(* A running session is in the directory of the program it is named for,   *)
(* and finds there the wrapper, and behind it the program.                 *)
SessionsTrace ==
    \A s \in sessions :
        s.dir = s.name /\ binary[s.dir] = "wrapper" /\ orig[s.dir] = "program"

(* Two sessions never share a directory, whose capture they would both     *)
(* write, nor a CPU.                                                       *)
SessionsApart ==
    \A s, t \in sessions : s # t => s.dir # t.dir /\ s.cpu # t.cpu

(* The output has a capture of one build next to the program of another    *)
(* only where the last pass over it was not whole: a copy failed or found  *)
(* nothing, or the pass was interrupted between the two copies, or the     *)
(* directories were set up anew there. Whatever else runs meanwhile, a     *)
(* whole pass leaves the capture of the very program next to it.           *)
WholePassesMatch ==
    \A p \in paired :
        output[p].binary = "program" /\ output[p].capture = output[p].built
=============================================================================
